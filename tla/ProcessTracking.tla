--------------------------- MODULE ProcessTracking ---------------------------
(***************************************************************************)
(* How the service learns of processes and has each of them hooked.          *)
(*                                                                         *)
(* Interceptor::start registers an event with the driver (CDeviarePD), which  *)
(* starts the monitor thread, and then hooks what is running.  The driver     *)
(* sets the event whenever a process begins or ends; the monitor thread       *)
(* compares the list of process ids with the one it had, and reports the      *)
(* differences.  Without the driver a polling thread, started last, compares   *)
(* the processes it can see every second.  Each process reported is hooked    *)
(* by a coroutine on the scheduler thread.                                   *)
(*                                                                         *)
(* A process is one incarnation of a process id; Windows gives the id to       *)
(* another once the first has ended and nobody has a handle of it.             *)
(***************************************************************************)
EXTENDS SequencesExt

CONSTANTS
    Process,        \* incarnations of process ids
    Pid,            \* process ids
    PidOf,          \* PidOf[i]: the process id of i
    NoProcess,      \* a null handle
    AtStart,        \* the processes that run when the service starts
    Modes,          \* "driver": the driver is there; "polling": it is not
    Throwing,       \* the processes whose hooking may raise an exception
    Protected       \* the processes that OpenProcess refuses to open

ASSUME TrackingAssumption ==
    /\ IsFiniteSet(Process)
    /\ PidOf \in [Process -> Pid]
    /\ NoProcess \notin Process
    /\ AtStart \subseteq Process
    /\ \A i, j \in AtStart : i # j => PidOf[i] # PidOf[j]
    /\ Modes \subseteq {"driver", "polling"}
    /\ Throwing \subseteq Process
    /\ Protected \subseteq Process

VARIABLES
    mode,               \* whether the driver is there
    life,               \* per process
    notified,           \* the event the driver sets
    start,              \* where Interceptor::start is
    running_processes,  \* the processes start has handles of, and waits for
    unset,              \* those whose event of the TaskWaiter is not set
    monitor,            \* where the thread that compares lists is
    active,             \* the list it had
    created,            \* what it has yet to report
    destroyed,
    coroutines,         \* those of the scheduler
    hooked_processes,
    processes_being_hooked,
    tried,              \* the processes that hook_process was called for
    threw,              \* the processes whose hooking raised an exception
    in_gap              \* born between the two first looks at the processes

windows_vars == <<life, notified, in_gap>>
start_vars == <<start, running_processes>>
monitor_vars == <<monitor, active, created, destroyed>>
hook_vars == <<hooked_processes, processes_being_hooked, tried, threw>>
vars == <<mode, windows_vars, start_vars, unset, monitor_vars, coroutines, hook_vars>>

\* A coroutine was given a process id and opens the process when it runs, or it
\* was given a process by start, which waits for its event.
Coroutine == [pid : Pid, process : Process \cup {NoProcess},
              awaited : BOOLEAN, hooking : BOOLEAN]

Init ==
    /\ mode \in Modes
    /\ life = [i \in Process |-> IF i \in AtStart THEN "running" ELSE "unborn"]
    /\ notified = FALSE
    /\ start = "initialize"
    /\ running_processes = {}
    /\ unset = {}
    /\ monitor = "off"
    /\ active = {}
    /\ created = {}
    /\ destroyed = {}
    /\ coroutines = <<>>
    /\ hooked_processes = {}
    /\ processes_being_hooked = {}
    /\ tried = {}
    /\ threw = {}
    /\ in_gap = {}

------------------------------------------------------------------------------
(* Processes.                                                               *)

\* Defect for HookingHitsItsProcess: a coroutine closes its handle early.
HeldByStart == running_processes

\* The processes of which the service has a handle.
Held == running_processes \cup {c.process : c \in ToSet(coroutines)}

\* The processes that a list of processes contains: the driver is told of the
\* end of a process before the process leaves the list.
Listed == {i \in Process : life[i] \in {"running", "exiting"}}

\* Those that the service can open.
Openable == Listed \ Protected

\* The driver sets the event of the monitor, if there is one.
Notify == notified' = (notified \/ (mode = "driver" /\ start # "initialize"))

Birth(i) ==
    /\ life[i] = "unborn"
    /\ \A j \in Process \ {i} : PidOf[j] = PidOf[i] => j \notin Listed \cup Held
    /\ life' = [life EXCEPT ![i] = "running"]
    /\ Notify
    /\ in_gap' = IF start \in {"wait", "done"} /\ monitor \in {"off", "first"}
                 THEN in_gap \cup {i} ELSE in_gap
    /\ UNCHANGED <<mode, start_vars, unset, monitor_vars, coroutines, hook_vars>>

Exit(i) ==
    /\ life[i] = "running"
    /\ life' = [life EXCEPT ![i] = "exiting"]
    /\ Notify
    /\ UNCHANGED <<mode, in_gap, start_vars, unset, monitor_vars, coroutines, hook_vars>>

Vanish(i) ==
    /\ life[i] = "exiting"
    /\ life' = [life EXCEPT ![i] = "gone"]
    /\ UNCHANGED <<mode, notified, in_gap, start_vars, unset, monitor_vars, coroutines,
                   hook_vars>>

------------------------------------------------------------------------------
(* Interceptor::start.                                                      *)

\* Initialize registers the event and starts the monitor thread; if it fails
\* the service will poll.
Initialize ==
    /\ start = "initialize"
    /\ start' = "hook"
    /\ monitor' = IF mode = "driver" THEN "first" ELSE "off"
    /\ UNCHANGED <<mode, windows_vars, running_processes, unset, active, created,
                   destroyed, coroutines, hook_vars>>

\* hook_running_processes opens what is running, passes over what it cannot open,
\* adds a coroutine for each and waits, with no limit, for their events.
hook_running_processes ==
    /\ start = "hook"
    /\ start' = "wait"
    /\ running_processes' = Openable
    /\ unset' = Openable
    /\ coroutines' = coroutines \o
          SetToSeq({[pid |-> PidOf[i], process |-> i, awaited |-> TRUE, hooking |-> FALSE] :
                       i \in Openable})
    /\ UNCHANGED <<mode, windows_vars, monitor_vars, hook_vars>>

\* The status is Running; the polling thread starts only now.
Started ==
    /\ start = "wait"
    /\ unset = {}
    /\ start' = "done"
    /\ running_processes' = {}
    /\ monitor' = IF mode = "polling" THEN "first" ELSE monitor
    /\ UNCHANGED <<mode, windows_vars, unset, active, created, destroyed, coroutines,
                   hook_vars>>

Start == Initialize \/ hook_running_processes \/ Started

------------------------------------------------------------------------------
(* TP_EventNotificationMethod, and process_polling_thread_function.         *)

\* The driver's monitor compares the ids of all processes, the polling thread
\* those of the processes that it can open and the times at which they started.
Keys == IF mode = "driver" THEN {PidOf[i] : i \in Listed} ELSE Openable

PidOfKey(k) == IF mode = "driver" THEN k ELSE PidOf[k]

FirstList ==
    /\ monitor = "first"
    /\ active' = Keys
    /\ monitor' = "wait"
    /\ UNCHANGED <<mode, windows_vars, start_vars, unset, created, destroyed,
                   coroutines, hook_vars>>

\* The event is reset before the list is taken; polling waits for a second.
Wake ==
    /\ monitor = "wait"
    /\ mode = "driver" => notified
    /\ notified' = FALSE
    /\ monitor' = "compare"
    /\ UNCHANGED <<mode, life, in_gap, start_vars, unset, active, created, destroyed,
                   coroutines, hook_vars>>

Compare ==
    /\ monitor = "compare"
    /\ active' = Keys
    /\ created' = Keys \ active
    /\ destroyed' = active \ Keys
    /\ monitor' = "report"
    /\ UNCHANGED <<mode, windows_vars, start_vars, unset, coroutines, hook_vars>>

\* OnProcessCreated: a coroutine will hook the process.
OnProcessCreated(k) ==
    /\ monitor = "report"
    /\ k \in created
    /\ mode = "polling" => destroyed = {}
    /\ created' = created \ {k}
    /\ coroutines' = Append(coroutines, [pid |-> PidOfKey(k), process |-> NoProcess,
                                         awaited |-> FALSE, hooking |-> FALSE])
    /\ UNCHANGED <<mode, windows_vars, start_vars, unset, monitor, active, destroyed,
                   hook_vars>>

OnProcessDestroyed(k) ==
    /\ monitor = "report"
    /\ k \in destroyed
    /\ mode = "driver" => created = {}
    /\ destroyed' = destroyed \ {k}
    /\ hooked_processes' = hooked_processes \ {PidOfKey(k)}
    /\ UNCHANGED <<mode, windows_vars, start_vars, unset, monitor, active, created,
                   coroutines, processes_being_hooked, tried, threw>>

\* Defect for NoProcessIsMissed and EveryProcessIsTried: the event is reset after
\* the differences are reported.
ReportedThenReset ==
    /\ monitor = "report"
    /\ created = {}
    /\ destroyed = {}
    /\ monitor' = "wait"
    /\ notified' = FALSE
    /\ UNCHANGED <<mode, life, in_gap, start_vars, unset, active, created, destroyed,
                   coroutines, hook_vars>>

Reported ==
    /\ monitor = "report"
    /\ created = {}
    /\ destroyed = {}
    /\ monitor' = "wait"
    /\ UNCHANGED <<mode, windows_vars, start_vars, unset, active, created, destroyed,
                   coroutines, hook_vars>>

Monitor ==
    \/ FirstList \/ Wake \/ Compare \/ Reported
    \/ \E k \in created : OnProcessCreated(k)
    \/ \E k \in destroyed : OnProcessDestroyed(k)

------------------------------------------------------------------------------
(* The coroutines.                                                          *)

\* Defect for StartReturns: a coroutine that ends early sets no event.
SetWhenHooked(c) == IF c.awaited /\ c.hooking THEN unset \ {c.process} ELSE unset

\* Defect for TypeOK: the event that is set belongs to the caller.
SetForStart(c) == IF c.awaited THEN unset ELSE unset \cup {c.process}

\* A coroutine of start sets its event when it ends.
Set(c) == IF c.awaited THEN unset \ {c.process} ELSE unset

\* Defect for HookedOnce: only the hookings under way are looked at.
being_hooked(pid) == pid \in processes_being_hooked

\* A process id is passed over while its hooking is under way and afterwards.
passed_over(pid) == pid \in processes_being_hooked \cup hooked_processes

\* A coroutine that was given a process id opens the process, and ends when
\* there is none or it is refused.
Opened(c) ==
    IF c.process # NoProcess THEN {c.process} ELSE {i \in Openable : PidOf[i] = c.pid}

\* hook_process_pre up to the first yield inside hook_process.
Begin(n) ==
    LET c == coroutines[n]
    IN  /\ ~c.hooking
        /\ \/ /\ Opened(c) = {} \/ passed_over(c.pid)
              /\ coroutines' = RemoveAt(coroutines, n)
              /\ unset' = Set(c)
              /\ UNCHANGED <<processes_being_hooked, tried>>
           \/ /\ ~passed_over(c.pid)
              /\ \E i \in Opened(c) :
                  /\ coroutines' = [coroutines EXCEPT ![n].process = i, ![n].hooking = TRUE]
                  /\ tried' = tried \cup {i}
              /\ processes_being_hooked' = processes_being_hooked \cup {c.pid}
              /\ UNCHANGED unset
        /\ UNCHANGED <<mode, windows_vars, start_vars, monitor_vars, hooked_processes, threw>>

\* Whatever hook_process returns, the process id is not tried again.
Finish(n) ==
    LET c == coroutines[n]
    IN  /\ c.hooking
        /\ hooked_processes' = hooked_processes \cup {c.pid}
        /\ processes_being_hooked' = processes_being_hooked \ {c.pid}
        /\ coroutines' = RemoveAt(coroutines, n)
        /\ unset' = Set(c)
        /\ UNCHANGED <<mode, windows_vars, start_vars, monitor_vars, tried, threw>>

\* Defect for BeingHookedIsExact: the entry is erased only after a success.
ThrowKeepingEntry(n) ==
    LET c == coroutines[n]
    IN  /\ c.hooking
        /\ c.process \in Throwing
        /\ threw' = threw \cup {c.process}
        /\ coroutines' = RemoveAt(coroutines, n)
        /\ UNCHANGED <<mode, windows_vars, start_vars, unset, monitor_vars,
                       processes_being_hooked, hooked_processes, tried>>

\* An exception is caught by the coroutine, which then sets no event.
Throw(n) ==
    LET c == coroutines[n]
    IN  /\ c.hooking
        /\ c.process \in Throwing
        /\ threw' = threw \cup {c.process}
        /\ processes_being_hooked' = processes_being_hooked \ {c.pid}
        /\ coroutines' = RemoveAt(coroutines, n)
        /\ UNCHANGED <<mode, windows_vars, start_vars, unset, monitor_vars,
                       hooked_processes, tried>>

Resume == \E n \in DOMAIN coroutines : Begin(n) \/ Finish(n) \/ Throw(n)

------------------------------------------------------------------------------
Next ==
    \/ Start
    \/ Monitor
    \/ Resume
    \/ \E i \in Process : Birth(i) \/ Exit(i) \/ Vanish(i)

\* The threads of the service run.  Nothing obliges a process to start or end.
Fairness == WF_vars(Start) /\ WF_vars(Monitor) /\ WF_vars(Resume)

Spec == Init /\ [][Next]_vars /\ Fairness
------------------------------------------------------------------------------
(* Properties.                                                              *)

TypeOK ==
    /\ mode \in Modes
    /\ life \in [Process -> {"unborn", "running", "exiting", "gone"}]
    /\ notified \in BOOLEAN
    /\ start \in {"initialize", "hook", "wait", "done"}
    /\ running_processes \in SUBSET Process
    /\ unset \in SUBSET running_processes
    /\ monitor \in {"off", "first", "wait", "compare", "report"}
    /\ active \cup created \cup destroyed \subseteq (IF mode = "driver" THEN Pid ELSE Process)
    /\ coroutines \in Seq(Coroutine)
    /\ hooked_processes \in SUBSET Pid
    /\ processes_being_hooked \in SUBSET Pid
    /\ tried \in SUBSET Process
    /\ threw \in SUBSET tried
    /\ in_gap \in SUBSET Process

Hooking == {n \in DOMAIN coroutines : coroutines[n].hooking}

\* processes_being_hooked holds the ids of the hookings under way, each of which
\* is under way once, although coroutines of the same process interleave at
\* every yield and may end by an exception.
BeingHookedIsExact ==
    /\ processes_being_hooked = {coroutines[n].pid : n \in Hooking}
    /\ \A m, n \in Hooking : m # n => coroutines[m].pid # coroutines[n].pid

\* hook_process checks a process by its handle and injects by its id: while it
\* runs, the id names no other process.
HookingHitsItsProcess ==
    \A n \in Hooking :
        \A i \in Listed : PidOf[i] = coroutines[n].pid => i = coroutines[n].process

Hooked == {coroutines[n].process : n \in Hooking}

\* start returns, unless the hooking of a process it waits for raised an
\* exception.
StartReturns == start = "wait" ~> start = "done" \/ threw \cap unset # {}

\* The id of i served another process before or after it.
Reused(i) == \E j \in Process \ {i} : PidOf[j] = PidOf[i] /\ life[j] # "unborn"

\* No process that exists is hooked twice, though the scan at the start and the
\* monitor may both report it, unless its hooking raised an exception, or the
\* late report of the end of a process with the same id erased the record.
HookedOnce ==
    [][\A i \in Hooked' \ Hooked :
           i \in tried /\ i \in Listed => i \in threw \/ Reused(i)]_vars

\* The thread that compares lists will report i: it has yet to find i new, or has
\* found it.  With the driver it also has to be woken for that.
ToBeReported(i) ==
    LET key == IF mode = "driver" THEN PidOf[i] ELSE i
    IN  \/ monitor = "report" /\ key \in created
        \/ /\ key \notin active
           /\ monitor \in {"wait", "compare", "report"}
           /\ mode = "driver" /\ monitor # "compare" => notified

\* A coroutine has yet to look at the id of i.
Scheduled(i) ==
    \E n \in DOMAIN coroutines : ~coroutines[n].hooking /\ coroutines[n].pid = PidOf[i]

\* No process slips through between the scan of start, the event that the driver
\* sets at any moment, the lists that are compared and the coroutines: one that
\* was not tried is ahead of one of them, unless it cannot be opened, its id served
\* another process, or it was born in the gap between the two first looks.
NoProcessIsMissed ==
    \A i \in Process :
        life[i] = "running" =>
            \/ i \in tried \cup in_gap \cup Protected
            \/ Reused(i)
            \/ start \in {"initialize", "hook"}
            \/ Scheduled(i)
            \/ ToBeReported(i)

\* Every process that goes on running is tried, unless it cannot be opened, its id
\* served another process, or it began when the processes had been scanned by start and not yet
\* listed by the thread that compares, or start hangs and nothing polls.
EveryProcessIsTried ==
    \A i \in Process :
        life[i] = "running" ~>
            \/ life[i] # "running"
            \/ i \in tried \cup in_gap \cup Protected
            \/ Reused(i)
            \/ mode = "polling" /\ threw \cap unset # {}
==============================================================================
