------------------------------ MODULE Connection ------------------------------
(***************************************************************************)
(* How the service and the DLL it injects find each other (the events of     *)
(* common/SharedMemory.h, hook_process of libvts, IPC of libvts and of the     *)
(* DLL).                                                                    *)
(*                                                                         *)
(* A coroutine of the scheduler thread takes an event for the process, has   *)
(* the DLL injected, and polls the event for five seconds.  The DLL sends    *)
(* Connection and waits, without a limit and with its ipc_mutex held, for the *)
(* confirmation.  The IPC thread of the service looks the event up when the   *)
(* Connection arrives, opens the return ring of the process (which sends the  *)
(* confirmation) and sets the event, in three steps.  Events go back to a     *)
(* pool and serve other processes.                                          *)
(***************************************************************************)
EXTENDS Naturals, SequencesExt

CONSTANTS
    Process,        \* the processes to hook
    Event,          \* handles of manual-reset events
    NoEvent,        \* a null handle
    NoProcess,      \* the IPC thread handles nothing
    Unopenable,     \* processes whose return ring may fail to open
    Mortal,         \* processes that may end
    MaxRestarts     \* bound on the restarts of the service

ASSUME ConnectionAssumption ==
    /\ IsFiniteSet(Process)
    /\ IsFiniteSet(Event)
    /\ Cardinality(Event) >= Cardinality(Process)
    /\ NoEvent \notin Event
    /\ NoProcess \notin Process
    /\ Unopenable \subseteq Process
    /\ Mortal \subseteq Process
    /\ MaxRestarts \in Nat

VARIABLES
    attempt,        \* per process, what became of hook_process
    event,          \* per process, the event its ConnectionWait owns
    pid_events,     \* per process, the event found by get_process_event_weak
    free_events,    \* the pool
    signaled,       \* the events that are set
    setter,         \* per event, the process whose Connection set it last
    woken_by,       \* per process, the setter of the event its wait saw
    handling,       \* the process whose Connection the IPC thread handles
    weak_event,     \* the handle the IPC thread looked up
    opened,         \* the return ring was opened, or could not be
    return_paths,   \* the processes whose return ring is open
    inbox,          \* the Connections in the ring of the service
    confirmations,  \* per process, the confirmations in its return ring
    dll,            \* per process, what the DLL does
    alive,          \* the processes that exist
    gave_up,        \* the processes whose wait was cancelled
    failed_to_open, \* the processes whose return ring could not be opened
    restarts        \* how often the service restarted

scheduler_vars == <<attempt, event, pid_events, free_events, woken_by, gave_up>>
ipc_vars == <<setter, handling, weak_event, opened, return_paths, failed_to_open>>
dll_vars == <<dll, alive>>
vars == <<scheduler_vars, ipc_vars, dll_vars, signaled, inbox, confirmations, restarts>>

Init ==
    /\ attempt = [p \in Process |-> "none"]
    /\ event = [p \in Process |-> NoEvent]
    /\ pid_events = [p \in Process |-> NoEvent]
    /\ free_events = <<>>
    /\ signaled = {}
    /\ setter = [e \in Event |-> NoProcess]
    /\ woken_by = [p \in Process |-> NoProcess]
    /\ handling = NoProcess
    /\ weak_event = NoEvent
    /\ opened = FALSE
    /\ return_paths = {}
    /\ inbox = {}
    /\ confirmations = [p \in Process |-> 0]
    /\ dll = [p \in Process |-> "absent"]
    /\ alive = Process
    /\ gave_up = {}
    /\ failed_to_open = {}
    /\ restarts = 0

------------------------------------------------------------------------------
(* The coroutine that hooks process p.                                      *)

Owned == {event[p] : p \in Process} \ {NoEvent}

\* Defect for WaitsAreForThemselves: an event of the pool is not reset.
allocate_event_unreset(e) ==
    /\ IF free_events = <<>>
       THEN e \in Event \ Owned /\ UNCHANGED free_events
       ELSE e = Last(free_events) /\ free_events' = Front(free_events)
    /\ UNCHANGED signaled

\* The event allocated last goes back to the pool first; a pool that is empty
\* makes the service create an event.
allocate_event(e) ==
    /\ IF free_events = <<>>
       THEN e \in Event \ Owned /\ UNCHANGED free_events
       ELSE e = Last(free_events) /\ free_events' = Front(free_events)
    /\ signaled' = signaled \ {e}

\* Defect for UnexpectedConnection: the event is not put in the map.
get_connection_event_unmapped(p) ==
    /\ attempt[p] = "none"
    /\ \E e \in Event : allocate_event(e) /\ event' = [event EXCEPT ![p] = e]
    /\ attempt' = [attempt EXCEPT ![p] = "prepared"]
    /\ UNCHANGED <<pid_events, woken_by, gave_up, ipc_vars, dll_vars, inbox,
                   confirmations, restarts>>

\* get_connection_event, before the DLL is injected.
get_connection_event(p) ==
    /\ attempt[p] = "none"
    /\ \E e \in Event :
        /\ allocate_event(e)
        /\ event' = [event EXCEPT ![p] = e]
        /\ pid_events' = [pid_events EXCEPT ![p] = e]
    /\ attempt' = [attempt EXCEPT ![p] = "prepared"]
    /\ UNCHANGED <<woken_by, gave_up, ipc_vars, dll_vars, inbox, confirmations, restarts>>

\* Defect for EventsHaveOneOwner: the entry of the process stays in the map.
cancel_without_removing(p) ==
    /\ event' = [event EXCEPT ![p] = NoEvent]
    /\ UNCHANGED pid_events
    /\ free_events' = Append(free_events, event[p])

\* The entry is removed from the map and then the event goes to the pool.
cancel_connection(p) ==
    /\ event' = [event EXCEPT ![p] = NoEvent]
    /\ pid_events' = [pid_events EXCEPT ![p] = NoEvent]
    /\ free_events' = Append(free_events, event[p])

\* Injection may fail, and then the wait is cancelled.  In a process that has
\* the DLL already, DllState::initialize does nothing a second time.
Inject(p) ==
    /\ attempt[p] = "prepared"
    /\ \/ /\ p \in alive
          /\ attempt' = [attempt EXCEPT ![p] = "injected"]
          /\ dll' = IF dll[p] = "absent" THEN [dll EXCEPT ![p] = "starting"] ELSE dll
          /\ UNCHANGED <<event, pid_events, free_events, gave_up>>
       \/ /\ attempt' = [attempt EXCEPT ![p] = "failed"]
          /\ cancel_connection(p)
          /\ gave_up' = gave_up \cup {p}
          /\ UNCHANGED dll
    /\ UNCHANGED <<woken_by, ipc_vars, alive, signaled, inbox, confirmations, restarts>>

\* complete_connection polls the event between yields of the coroutine.
Complete(p) ==
    /\ attempt[p] = "injected"
    /\ event[p] \in signaled
    /\ attempt' = [attempt EXCEPT ![p] = "hooked"]
    /\ woken_by' = [woken_by EXCEPT ![p] = setter[event[p]]]
    /\ cancel_connection(p)
    /\ UNCHANGED <<gave_up, ipc_vars, dll_vars, signaled, inbox, confirmations, restarts>>

\* Defect for HookedMeansConnected: a wait that timed out counts as complete.
TimeOutCompletes(p) ==
    /\ attempt[p] = "injected"
    /\ event[p] \notin signaled
    /\ attempt' = [attempt EXCEPT ![p] = "hooked"]
    /\ gave_up' = gave_up \cup {p}
    /\ cancel_connection(p)
    /\ UNCHANGED <<woken_by, ipc_vars, dll_vars, signaled, inbox, confirmations, restarts>>

\* It cancels the wait after five seconds.
TimeOut(p) ==
    /\ attempt[p] = "injected"
    /\ event[p] \notin signaled
    /\ attempt' = [attempt EXCEPT ![p] = "failed"]
    /\ gave_up' = gave_up \cup {p}
    /\ cancel_connection(p)
    /\ UNCHANGED <<woken_by, ipc_vars, dll_vars, signaled, inbox, confirmations, restarts>>

Hook(p) == get_connection_event(p) \/ Inject(p) \/ Complete(p) \/ TimeOut(p)

------------------------------------------------------------------------------
(* The IPC thread of the service.                                           *)

\* A Connection nobody expects is ignored.
handle_connection(p) ==
    /\ handling = NoProcess
    /\ p \in inbox
    /\ inbox' = inbox \ {p}
    /\ weak_event' = pid_events[p]
    /\ handling' = IF pid_events[p] = NoEvent THEN NoProcess ELSE p
    /\ opened' = FALSE
    /\ UNCHANGED <<setter, return_paths, failed_to_open, scheduler_vars, dll_vars, signaled,
                   confirmations, restarts>>

\* Defect for ConnectionsAreUnderWay and EveryConnectionIsDecided: no confirmation
\* is sent.
connect_silently(p) ==
    \/ /\ p \in alive
       /\ return_paths' = return_paths \cup {p}
       /\ UNCHANGED <<failed_to_open, confirmations>>
    \/ /\ p \in Unopenable \/ p \notin alive
       /\ failed_to_open' = failed_to_open \cup {p}
       /\ UNCHANGED <<return_paths, confirmations>>

\* Defect for TypeOK and UnexpectedConfirmation: the loop over the sessions goes
\* on after a success.
connect_twice(p) ==
    \/ /\ p \in alive
       /\ return_paths' = return_paths \cup {p}
       /\ confirmations' = [confirmations EXCEPT ![p] = @ + 2]
       /\ UNCHANGED failed_to_open
    \/ /\ p \in Unopenable \/ p \notin alive
       /\ failed_to_open' = failed_to_open \cup {p}
       /\ UNCHANGED <<return_paths, confirmations>>

\* The memory of a process can be opened while the process exists.  Opening it
\* sends the confirmation.
connect_return_path(p) ==
    \/ /\ p \in alive
       /\ return_paths' = return_paths \cup {p}
       /\ confirmations' = [confirmations EXCEPT ![p] = @ + 1]
       /\ UNCHANGED failed_to_open
    \/ /\ p \in Unopenable \/ p \notin alive
       /\ failed_to_open' = failed_to_open \cup {p}
       /\ UNCHANGED <<return_paths, confirmations>>

Open ==
    /\ handling # NoProcess
    /\ ~opened
    /\ connect_return_path(handling)
    /\ opened' = TRUE
    /\ UNCHANGED <<setter, handling, weak_event, scheduler_vars, dll_vars, signaled,
                   inbox, restarts>>

\* The event that was looked up is set, also when the ring could not be opened,
\* and whoever owns it by now.
Set ==
    /\ handling # NoProcess
    /\ opened
    /\ signaled' = signaled \cup {weak_event}
    /\ setter' = [setter EXCEPT ![weak_event] = handling]
    /\ handling' = NoProcess
    /\ UNCHANGED <<weak_event, opened, return_paths, failed_to_open, scheduler_vars,
                   dll_vars, inbox, confirmations, restarts>>

\* A request of a process whose return path is not known makes the service open
\* it, with another confirmation.
find_connection(p) ==
    /\ handling = NoProcess
    /\ dll[p] = "connected"
    /\ p \notin return_paths
    /\ p \in alive
    /\ connect_return_path(p)
    /\ UNCHANGED <<setter, handling, weak_event, opened, scheduler_vars, dll_vars,
                   signaled, inbox, restarts>>

Ipc == (\E p \in Process : handle_connection(p)) \/ Open \/ Set

------------------------------------------------------------------------------
(* The DLL, and the end of processes.                                       *)

\* The constructor of IPC sends Connection and waits.
SendConnection(p) ==
    /\ p \in alive
    /\ dll[p] = "starting"
    /\ dll' = [dll EXCEPT ![p] = "waiting"]
    /\ inbox' = inbox \cup {p}
    /\ UNCHANGED <<alive, scheduler_vars, ipc_vars, signaled, confirmations, restarts>>

\* A confirmation ends the wait; one that nobody waits for is ignored.
Confirm(p) ==
    /\ p \in alive
    /\ confirmations[p] > 0
    /\ confirmations' = [confirmations EXCEPT ![p] = @ - 1]
    /\ dll' = IF dll[p] = "waiting" THEN [dll EXCEPT ![p] = "connected"] ELSE dll
    /\ UNCHANGED <<alive, scheduler_vars, ipc_vars, signaled, inbox, restarts>>

Dll(p) == SendConnection(p) \/ Confirm(p)

Die(p) ==
    /\ p \in Mortal \cap alive
    /\ alive' = alive \ {p}
    /\ UNCHANGED <<dll, scheduler_vars, ipc_vars, signaled, inbox, confirmations, restarts>>

\* The service starts again with nothing in memory, clears the ring, and hooks
\* every process that runs.
Restart ==
    /\ restarts < MaxRestarts
    /\ restarts' = restarts + 1
    /\ attempt' = [p \in Process |-> "none"]
    /\ event' = [p \in Process |-> NoEvent]
    /\ pid_events' = [p \in Process |-> NoEvent]
    /\ free_events' = <<>>
    /\ signaled' = {}
    /\ setter' = [e \in Event |-> NoProcess]
    /\ woken_by' = [p \in Process |-> NoProcess]
    /\ handling' = NoProcess
    /\ weak_event' = NoEvent
    /\ opened' = FALSE
    /\ return_paths' = {}
    /\ inbox' = {}
    /\ gave_up' = {}
    /\ failed_to_open' = {}
    /\ UNCHANGED <<confirmations, dll_vars>>

------------------------------------------------------------------------------
Next ==
    \/ Ipc
    \/ \E p \in Process : Hook(p) \/ Dll(p) \/ Die(p) \/ find_connection(p)
    \/ Restart

\* The scheduler resumes every coroutine again and again, and the threads of
\* the service and of the DLL run.
Fairness ==
    /\ WF_vars(Ipc)
    /\ \A p \in Process : WF_vars(Hook(p)) /\ WF_vars(Dll(p))

Spec == Init /\ [][Next]_vars /\ Fairness
------------------------------------------------------------------------------
(* Properties.                                                              *)

TypeOK ==
    /\ attempt \in [Process -> {"none", "prepared", "injected", "hooked", "failed"}]
    /\ event \in [Process -> Event \cup {NoEvent}]
    /\ pid_events \in [Process -> Event \cup {NoEvent}]
    /\ free_events \in Seq(Event)
    /\ signaled \in SUBSET Event
    /\ setter \in [Event -> Process \cup {NoProcess}]
    /\ woken_by \in [Process -> Process \cup {NoProcess}]
    /\ handling \in Process \cup {NoProcess}
    /\ weak_event \in Event \cup {NoEvent}
    /\ opened \in BOOLEAN
    /\ return_paths \in SUBSET Process
    /\ inbox \in SUBSET Process
    /\ confirmations \in [Process -> 0 .. MaxRestarts + 1]
    /\ dll \in [Process -> {"absent", "starting", "waiting", "connected"}]
    /\ alive \in SUBSET Process
    /\ gave_up \in SUBSET Process
    /\ failed_to_open \in SUBSET Process
    /\ restarts \in 0 .. MaxRestarts
    /\ handling # NoProcess => weak_event # NoEvent

\* A handle is in one place: the pool, or the wait of one process, and the map
\* names the owner's handle while the wait lasts (allocate_event,
\* return_event, get_connection_event and cancel_connection together).
EventsHaveOneOwner ==
    /\ pid_events = event
    /\ \A p \in Process : event[p] # NoEvent <=> attempt[p] \in {"prepared", "injected"}
    /\ \A p, q \in Process : p # q /\ event[p] # NoEvent => event[p] # event[q]
    /\ \A p \in Process : event[p] \notin ToSet(free_events)
    /\ IsInjective(free_events)

\* The process whose Connection is handled while the event has gone to another.
Misled(p) == woken_by[p] \notin {p, NoProcess}

\* When hook_process reports a connection, the return ring of the process is
\* open, unless opening it failed (the event is set anyway), or the event was
\* set for a process that had given up, or was handed on, in the meantime.
HookedMeansConnected ==
    \A p \in Process :
        attempt[p] = "hooked" =>
            \/ p \in return_paths
            \/ p \in failed_to_open
            \/ Misled(p)

\* The looked-up handle serves another process only after the wait it was
\* looked up for was cancelled or was itself woken by another's Connection.
WaitsAreForThemselves ==
    \A p \in Process :
        Misled(p) => woken_by[p] \in gave_up \/ Misled(woken_by[p])

\* "A connection for a process should not have arrived while it was not
\* expected" (libvts/IPC.cpp:83): it does only when the service had stopped
\* waiting for it too early, or forgot that it waited.
UnexpectedConnection ==
    \A p \in inbox :
        pid_events[p] = NoEvent => p \in gave_up \/ Misled(p) \/ restarts > 0

\* "This shouldn't happen" (ClipboardFirewallDll/IPC.cpp:26): a confirmation
\* finds nobody waiting only after the service restarted.
UnexpectedConfirmation ==
    \A p \in Process : confirmations[p] > 0 /\ dll[p] # "waiting" => restarts > 0

\* Between the ring of the service, the IPC thread and the ring of the process no
\* Connection is dropped: a DLL waits for something that is under way, but for
\* the four cases in which nobody will answer.
ConnectionsAreUnderWay ==
    \A p \in alive :
        dll[p] = "waiting" =>
            \/ p \in inbox
            \/ handling = p /\ ~opened
            \/ confirmations[p] > 0
            \/ p \in gave_up \/ p \in failed_to_open \/ Misled(p)
            \/ restarts > 0

\* The DLL is not left waiting (with ipc_mutex held, so that every hooked call
\* of the process hangs), but for the four cases in which nobody will answer.
EveryConnectionIsDecided ==
    \A p \in Process :
        dll[p] = "waiting" ~>
            \/ dll[p] = "connected"
            \/ p \notin alive
            \/ p \in gave_up \/ p \in failed_to_open \/ Misled(p)
            \/ restarts > 0
==============================================================================
