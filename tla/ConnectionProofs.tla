--------------------------- MODULE ConnectionProofs ---------------------------
(***************************************************************************)
(* The safety properties of Connection, for any processes, events and          *)
(* restarts.                                                                *)
(***************************************************************************)
EXTENDS Connection, TLAPS

------------------------------------------------------------------------------
(* The inductive invariant.                                                 *)

\* The Connection of process p was not sent, or is still to be answered.
Unheard(p) ==
    \/ dll[p] \in {"absent", "starting"}
    \/ p \in inbox
    \/ handling = p

\* A process sends one Connection in its life, and until the service handles it
\* nothing was done for it.
SendingInv ==
    \A p \in Process :
        /\ dll[p] \in {"absent", "starting"} =>
              /\ p \notin inbox /\ handling # p
              /\ confirmations[p] = 0 /\ p \notin return_paths
        /\ p \in inbox => handling # p
        /\ p \in inbox \/ (handling = p /\ ~opened) =>
              /\ dll[p] = "waiting"
              /\ confirmations[p] = 0 /\ p \notin return_paths

\* Nobody was woken for a process whose Connection has no answer yet.
UnheardInv ==
    \A p \in Process : Unheard(p) =>
        /\ \A e \in Event : setter[e] # p
        /\ \A q \in Process : woken_by[q] # p

\* The confirmations of process p, the one it took included.
Confirmed(p) == confirmations[p] + (IF dll[p] = "connected" THEN 1 ELSE 0)

\* A process gets a confirmation for each time its return ring is opened, which
\* is once in the life of a service.
ConfirmationsInv ==
    \A p \in Process :
        Confirmed(p) <= restarts + (IF p \in return_paths THEN 1 ELSE 0)

\* The return ring was opened, or that was tried.
Tried == return_paths \cup failed_to_open

\* An event is set after the return ring was opened or could not be.
SignalInv ==
    /\ \A e \in signaled : setter[e] \in Tried
    /\ handling # NoProcess /\ opened => handling \in Tried
    /\ \A p \in Process : attempt[p] = "hooked" => woken_by[p] \in Tried

AttemptInv ==
    \A p \in Process :
        /\ attempt[p] # "hooked" => woken_by[p] = NoProcess
        /\ attempt[p] = "failed" => p \in gave_up
        /\ restarts = 0 /\ attempt[p] \in {"none", "prepared"} => dll[p] = "absent"

\* The handle that was looked up is the one its process waits on, unless the
\* wait is over.
HandlingInv ==
    \A p \in Process :
        handling = p => event[p] = weak_event \/ p \in gave_up \/ Misled(p)

\* An event that is set was set for its owner, unless the wait of the process it
\* was set for is over.
SetterInv ==
    \A p \in Process :
        event[p] \in signaled =>
            LET q == setter[event[p]]
            IN  q = p \/ q \in gave_up \/ Misled(q)

IInv ==
    /\ TypeOK /\ EventsHaveOneOwner
    /\ SendingInv /\ UnheardInv /\ ConfirmationsInv
    /\ SignalInv /\ AttemptInv
    /\ HandlingInv /\ SetterInv /\ WaitsAreForThemselves

------------------------------------------------------------------------------
(* The pool of events.                                                      *)

LEMMA Popped ==
    ASSUME free_events \in Seq(Event), free_events # <<>>, IsInjective(free_events)
    PROVE  /\ Last(free_events) \in Event
           /\ Front(free_events) \in Seq(Event)
           /\ IsInjective(Front(free_events))
           /\ ToSet(Front(free_events)) = ToSet(free_events) \ {Last(free_events)}
<1>1. Len(free_events) \in Nat /\ Len(free_events) >= 1
  OBVIOUS
<1>2. /\ Front(free_events) \in Seq(Event)
      /\ Len(Front(free_events)) = Len(free_events) - 1
      /\ \A i \in 1 .. Len(free_events) - 1 : Front(free_events)[i] = free_events[i]
  <2>1. Front(free_events) = [i \in 1 .. Len(free_events) - 1 |-> free_events[i]]
    BY <1>1 DEF Front
  <2>2. \A i \in 1 .. Len(free_events) - 1 : free_events[i] \in Event
    BY <1>1
  <2>3. Len(free_events) - 1 \in Nat
    BY <1>1
  <2> HIDE DEF Front
  <2> QED
    BY <2>1, <2>2, <2>3
<1>3. IsInjective(Front(free_events))
  BY <1>1, <1>2 DEF IsInjective
<1>4. ToSet(Front(free_events)) = ToSet(free_events) \ {Last(free_events)}
  BY <1>1, <1>2 DEF ToSet, Last, IsInjective
<1> QED
  BY <1>1, <1>2, <1>3, <1>4 DEF Last

LEMMA Pushed ==
    ASSUME free_events \in Seq(Event), IsInjective(free_events),
           NEW e \in Event, e \notin ToSet(free_events)
    PROVE  /\ Append(free_events, e) \in Seq(Event)
           /\ IsInjective(Append(free_events, e))
           /\ ToSet(Append(free_events, e)) = ToSet(free_events) \cup {e}
<1> DEFINE f == Append(free_events, e)
<1>1. /\ f \in Seq(Event)
      /\ Len(f) = Len(free_events) + 1
      /\ \A i \in 1 .. Len(free_events) : f[i] = free_events[i]
      /\ f[Len(free_events) + 1] = e
      /\ Len(free_events) \in Nat
  OBVIOUS
<1>2. DOMAIN f = 1 .. Len(free_events) + 1 /\ DOMAIN free_events = 1 .. Len(free_events)
  BY <1>1
<1> HIDE DEF f
<1>3. IsInjective(f)
  BY <1>1, <1>2 DEF ToSet, IsInjective
<1>4. ToSet(f) = ToSet(free_events) \cup {e}
  BY <1>1, <1>2 DEF ToSet
<1> QED
  BY <1>1, <1>3, <1>4 DEF f

\* The owners of the events, and the handle a process gets from the pool.
LEMMA AllocatedIsFree ==
    ASSUME TypeOK, EventsHaveOneOwner, NEW e \in Event, allocate_event(e)
    PROVE  /\ \A q \in Process : event[q] # e
           /\ free_events' \in Seq(Event)
           /\ IsInjective(free_events')
           /\ e \notin ToSet(free_events')
           /\ ToSet(free_events') \subseteq ToSet(free_events)
<1>1. CASE free_events = <<>>
  BY <1>1, ConnectionAssumption DEF allocate_event, Owned, EventsHaveOneOwner, TypeOK, ToSet
<1>2. CASE free_events # <<>>
  <2>1. e = Last(free_events) /\ free_events' = Front(free_events)
    BY <1>2 DEF allocate_event
  <2>2. Last(free_events) \in ToSet(free_events)
    BY <1>2 DEF TypeOK, Last, ToSet
  <2> QED
    BY <1>2, <2>1, <2>2, Popped DEF TypeOK, EventsHaveOneOwner
<1> QED
  BY <1>1, <1>2

------------------------------------------------------------------------------
(* Each part of the invariant is preserved by each step.                     *)

LEMMA OneOwnerInductive ==
    ASSUME TypeOK, EventsHaveOneOwner, Next
    PROVE  EventsHaveOneOwner'
<1> USE DEF EventsHaveOneOwner
<1>1. ASSUME NEW p \in Process, get_connection_event(p)
      PROVE  EventsHaveOneOwner'
  <2>1. PICK e \in Event : /\ allocate_event(e)
                           /\ event' = [event EXCEPT ![p] = e]
                           /\ pid_events' = [pid_events EXCEPT ![p] = e]
    BY <1>1 DEF get_connection_event
  <2>2. attempt' = [attempt EXCEPT ![p] = "prepared"]
    BY <1>1 DEF get_connection_event
  <2>3. e # NoEvent
    BY ConnectionAssumption
  <2>4. \A q \in Process : event'[q] = IF q = p THEN e ELSE event[q]
    BY <2>1 DEF TypeOK
  <2>5. \A q \in Process : attempt'[q] = IF q = p THEN "prepared" ELSE attempt[q]
    BY <2>2 DEF TypeOK
  <2>6. pid_events' = event'
    BY <2>1
  <2>7. \A q \in Process : event'[q] \notin ToSet(free_events')
    BY <2>1, <2>4, AllocatedIsFree
  <2>8. \A q, r \in Process : q # r /\ event'[q] # NoEvent => event'[q] # event'[r]
    BY <2>1, <2>3, <2>4, AllocatedIsFree
  <2> QED
    BY <2>1, <2>3, <2>4, <2>5, <2>6, <2>7, <2>8, AllocatedIsFree
<1>2. ASSUME NEW p \in Process, event[p] \in Event, cancel_connection(p),
             attempt'[p] \in {"hooked", "failed"},
             \A q \in Process \ {p} : attempt'[q] = attempt[q]
      PROVE  EventsHaveOneOwner'
  <2>1. \A q \in Process : event'[q] = IF q = p THEN NoEvent ELSE event[q]
    BY <1>2 DEF cancel_connection, TypeOK
  <2>2. pid_events' = event'
    BY <1>2 DEF cancel_connection
  <2>3. event[p] \notin ToSet(free_events) /\ IsInjective(free_events)
    OBVIOUS
  <2>4. /\ IsInjective(free_events')
        /\ ToSet(free_events') = ToSet(free_events) \cup {event[p]}
        /\ free_events \in Seq(Event)
    BY <1>2, <2>3, Pushed DEF cancel_connection, TypeOK
  <2>5. ToSet(free_events) \subseteq Event
    BY DEF TypeOK, ToSet
  <2>6. \A q \in Process : event'[q] \notin ToSet(free_events')
    BY <1>2, <2>1, <2>4, <2>5, ConnectionAssumption
  <2>7. \A q, r \in Process : q # r /\ event'[q] # NoEvent => event'[q] # event'[r]
    BY <2>1
  <2>8. \A q \in Process : event'[q] # NoEvent <=> attempt'[q] \in {"prepared", "injected"}
    BY <1>2, <2>1
  <2> QED
    BY <2>2, <2>4, <2>6, <2>7, <2>8
<1>3. ASSUME NEW p \in Process, attempt[p] \in {"prepared", "injected"}
      PROVE  event[p] \in Event
  BY <1>3 DEF TypeOK
<1>4. ASSUME NEW p \in Process, Inject(p)
      PROVE  EventsHaveOneOwner'
  <2>1. CASE attempt' = [attempt EXCEPT ![p] = "injected"] /\ UNCHANGED <<event, pid_events, free_events>>
    <3>1. attempt[p] = "prepared"
      BY <1>4 DEF Inject
    <3>2. \A q \in Process : attempt'[q] = IF q = p THEN "injected" ELSE attempt[q]
      BY <2>1 DEF TypeOK
    <3>3. \A q \in Process : event'[q] # NoEvent <=> attempt'[q] \in {"prepared", "injected"}
      BY <2>1, <3>1, <3>2
    <3> QED
      BY <2>1, <3>3
  <2>2. CASE attempt' = [attempt EXCEPT ![p] = "failed"] /\ cancel_connection(p)
    <3>1. attempt[p] = "prepared"
      BY <1>4 DEF Inject
    <3>2. attempt'[p] = "failed" /\ \A q \in Process \ {p} : attempt'[q] = attempt[q]
      BY <2>2 DEF TypeOK
    <3> QED
      BY <1>2, <1>3, <2>2, <3>1, <3>2
  <2> QED
    BY <1>4, <2>1, <2>2 DEF Inject
<1>5. ASSUME NEW p \in Process, Complete(p) \/ TimeOut(p)
      PROVE  EventsHaveOneOwner'
  <2>1. attempt[p] = "injected" /\ cancel_connection(p)
    BY <1>5 DEF Complete, TimeOut
  <2>2. attempt'[p] \in {"hooked", "failed"} /\ \A q \in Process \ {p} : attempt'[q] = attempt[q]
    BY <1>5 DEF Complete, TimeOut, TypeOK
  <2> QED
    BY <1>2, <1>3, <2>1, <2>2
<1>6. CASE Restart
  BY <1>6 DEF Restart, ToSet, IsInjective
<1>7. CASE UNCHANGED <<attempt, event, pid_events, free_events>>
  BY <1>7
<1>8. CASE Ipc \/ \E p \in Process : Dll(p) \/ Die(p) \/ find_connection(p)
  BY <1>7, <1>8 DEF Ipc, handle_connection, Open, Set, Dll, SendConnection, Confirm, Die,
                    find_connection, scheduler_vars
<1> QED
  BY <1>1, <1>4, <1>5, <1>6, <1>8 DEF Next, Hook

\* What the steps are, for the parts that split them all.
LEMMA StepCases ==
    ASSUME Next
    PROVE  \/ \E p \in Process :
                 \/ get_connection_event(p) \/ Inject(p) \/ Complete(p) \/ TimeOut(p)
                 \/ handle_connection(p) \/ find_connection(p)
                 \/ SendConnection(p) \/ Confirm(p) \/ Die(p)
           \/ Open \/ Set \/ Restart
BY DEF Next, Ipc, Hook, Dll

\* What connect_return_path does to the process whose ring is opened.
LEMMA Opening ==
    ASSUME TypeOK, NEW p \in Process, connect_return_path(p)
    PROVE  /\ return_paths' \in {return_paths, return_paths \cup {p}}
           /\ failed_to_open' \in {failed_to_open, failed_to_open \cup {p}}
           /\ p \in return_paths' \/ p \in failed_to_open'
           /\ confirmations' \in [Process -> Nat]
           /\ \/ confirmations' = confirmations
              \/ /\ return_paths' = return_paths \cup {p}
                 /\ confirmations'[p] = confirmations[p] + 1
                 /\ \A q \in Process \ {p} : confirmations'[q] = confirmations[q]
<1>1. confirmations \in [Process -> Nat]
  BY ConnectionAssumption DEF TypeOK
<1> QED
  BY <1>1 DEF connect_return_path

LEMMA SendingInductive ==
    ASSUME TypeOK, SendingInv, Next
    PROVE  SendingInv'
<1> USE DEF SendingInv
<1>1. ASSUME NEW p \in Process, Inject(p)
      PROVE  SendingInv'
  <2>1. \A q \in Process : dll'[q] = dll[q] \/ (dll[q] = "absent" /\ dll'[q] = "starting")
    BY <1>1 DEF Inject, TypeOK
  <2> QED
    BY <1>1, <2>1 DEF Inject, ipc_vars
<1>2. ASSUME NEW p \in Process, get_connection_event(p) \/ Complete(p) \/ TimeOut(p) \/ Die(p)
      PROVE  SendingInv'
  BY <1>2 DEF get_connection_event, Complete, TimeOut, Die, ipc_vars, dll_vars
<1>3. ASSUME NEW p \in Process, handle_connection(p)
      PROVE  SendingInv'
  <2>1. p \in inbox /\ inbox' = inbox \ {p} /\ handling' \in {NoProcess, p}
    BY <1>3 DEF handle_connection
  <2>2. dll[p] = "waiting" /\ confirmations[p] = 0 /\ p \notin return_paths
    BY <2>1
  <2>3. UNCHANGED <<dll, confirmations, return_paths>>
    BY <1>3 DEF handle_connection, dll_vars
  <2>4. NoProcess \notin Process
    BY ConnectionAssumption
  <2> QED
    BY <2>1, <2>2, <2>3, <2>4
<1>4. ASSUME NEW p \in Process, find_connection(p)
      PROVE  SendingInv'
  <2>1. p \notin inbox /\ handling = NoProcess /\ dll[p] = "connected"
    BY <1>4 DEF find_connection
  <2>2. \A q \in Process : q # p => /\ confirmations'[q] = confirmations[q]
                                    /\ q \in return_paths' => q \in return_paths
    BY <1>4, Opening DEF find_connection
  <2>3. UNCHANGED <<handling, opened, inbox, dll>>
    BY <1>4 DEF find_connection, dll_vars
  <2>4. NoProcess \notin Process
    BY ConnectionAssumption
  <2> QED
    BY <2>1, <2>2, <2>3, <2>4
<1>5. CASE Open
  <2>1. handling \in Process /\ dll[handling] = "waiting" /\ handling \notin inbox
    BY <1>5 DEF Open, TypeOK
  <2>2. opened' = TRUE /\ UNCHANGED <<handling, inbox, dll>>
    BY <1>5 DEF Open, dll_vars
  <2>3. \A q \in Process : q # handling => /\ confirmations'[q] = confirmations[q]
                                           /\ q \in return_paths' => q \in return_paths
    BY <1>5, <2>1, Opening DEF Open
  <2> QED
    BY <2>1, <2>2, <2>3
<1>6. CASE Set
  BY <1>6, ConnectionAssumption DEF Set, dll_vars
<1>7. ASSUME NEW p \in Process, SendConnection(p)
      PROVE  SendingInv'
  <2>1. \A q \in Process : dll'[q] = IF q = p THEN "waiting" ELSE dll[q]
    BY <1>7 DEF SendConnection, TypeOK
  <2> QED
    BY <1>7, <2>1 DEF SendConnection, ipc_vars
<1>8. ASSUME NEW p \in Process, Confirm(p)
      PROVE  SendingInv'
  <2>1. confirmations[p] # 0
    BY <1>8 DEF Confirm
  <2>2. \A q \in Process : q # p => confirmations'[q] = confirmations[q] /\ dll'[q] = dll[q]
    BY <1>8 DEF Confirm, TypeOK
  <2>3. dll'[p] \in {"absent", "starting"} => dll[p] \in {"absent", "starting"}
    BY <1>8 DEF Confirm, TypeOK
  <2>4. UNCHANGED <<handling, opened, inbox, return_paths>>
    BY <1>8 DEF Confirm, ipc_vars
  <2> QED
    BY <2>1, <2>2, <2>3, <2>4
<1>9. CASE Restart
  BY <1>9, ConnectionAssumption DEF Restart, dll_vars
<1> QED
  BY <1>1, <1>2, <1>3, <1>4, <1>5, <1>6, <1>7, <1>8, <1>9, StepCases

LEMMA UnheardInductive ==
    ASSUME TypeOK, EventsHaveOneOwner, SendingInv, UnheardInv, Next
    PROVE  UnheardInv'
<1> USE DEF UnheardInv, Unheard
<1>1. ASSUME NEW p \in Process, Inject(p)
      PROVE  UnheardInv'
  <2>1. \A q \in Process : dll'[q] \in {"absent", "starting"} => dll[q] \in {"absent", "starting"}
    BY <1>1 DEF Inject, TypeOK
  <2> QED
    BY <1>1, <2>1 DEF Inject, ipc_vars
<1>2. ASSUME NEW p \in Process, Complete(p)
      PROVE  UnheardInv'
  <2>1. event[p] \in Event
    BY <1>2 DEF Complete, EventsHaveOneOwner, TypeOK
  <2>2. \A q \in Process : woken_by'[q] = IF q = p THEN setter[event[p]] ELSE woken_by[q]
    BY <1>2 DEF Complete, TypeOK
  <2>3. UNCHANGED <<dll, inbox, handling, setter>>
    BY <1>2 DEF Complete, ipc_vars, dll_vars
  <2> QED
    BY <2>1, <2>2, <2>3
<1>3. ASSUME NEW p \in Process, get_connection_event(p) \/ TimeOut(p) \/ Die(p)
      PROVE  UnheardInv'
  BY <1>3 DEF get_connection_event, TimeOut, Die, ipc_vars, dll_vars, scheduler_vars
<1>4. ASSUME NEW p \in Process, handle_connection(p)
      PROVE  UnheardInv'
  BY <1>4, ConnectionAssumption DEF handle_connection, dll_vars, scheduler_vars
<1>5. ASSUME NEW p \in Process, find_connection(p)
      PROVE  UnheardInv'
  BY <1>5 DEF find_connection, dll_vars, scheduler_vars
<1>6. CASE Open
  BY <1>6 DEF Open, dll_vars, scheduler_vars
<1>7. CASE Set
  <2>1. handling \in Process /\ handling' = NoProcess /\ NoProcess \notin Process
    BY <1>7, ConnectionAssumption DEF Set, TypeOK
  <2>2. handling \notin inbox /\ dll[handling] \notin {"absent", "starting"}
    BY <2>1 DEF SendingInv
  <2>3. \A e \in Event : setter'[e] \in {setter[e], handling}
    BY <1>7 DEF Set, TypeOK
  <2>4. UNCHANGED <<dll, inbox, woken_by>>
    BY <1>7 DEF Set, dll_vars, scheduler_vars
  <2> QED
    BY <2>1, <2>2, <2>3, <2>4
<1>8. ASSUME NEW p \in Process, SendConnection(p)
      PROVE  UnheardInv'
  <2>1. \A q \in Process : dll'[q] = IF q = p THEN "waiting" ELSE dll[q]
    BY <1>8 DEF SendConnection, TypeOK
  <2> QED
    BY <1>8, <2>1 DEF SendConnection, ipc_vars, scheduler_vars
<1>9. ASSUME NEW p \in Process, Confirm(p)
      PROVE  UnheardInv'
  <2>1. \A q \in Process : dll'[q] \in {"absent", "starting"} => dll[q] \in {"absent", "starting"}
    BY <1>9 DEF Confirm, TypeOK
  <2> QED
    BY <1>9, <2>1 DEF Confirm, ipc_vars, scheduler_vars
<1>10. CASE Restart
  BY <1>10, ConnectionAssumption DEF Restart
<1> QED
  BY <1>1, <1>2, <1>3, <1>4, <1>5, <1>6, <1>7, <1>8, <1>9, <1>10, StepCases

LEMMA ConfirmationsInductive ==
    ASSUME TypeOK, SendingInv, ConfirmationsInv, Next
    PROVE  ConfirmationsInv'
<1> USE DEF ConfirmationsInv, Confirmed
<1>1. /\ restarts \in Nat
      /\ \A q \in Process : confirmations[q] \in Nat
  BY ConnectionAssumption DEF TypeOK
<1>2. ASSUME UNCHANGED <<confirmations, restarts, return_paths>>,
             \A q \in Process : dll'[q] = "connected" => dll[q] = "connected"
      PROVE  ConfirmationsInv'
  BY <1>1, <1>2
<1>3. ASSUME NEW p \in Process, p \notin return_paths, connect_return_path(p),
             UNCHANGED <<dll, restarts>>
      PROVE  ConfirmationsInv'
  <2>1. CASE confirmations' = confirmations
    <3>1. return_paths \subseteq return_paths'
      BY <1>3, Opening
    <3> QED
      BY <1>1, <1>3, <2>1, <3>1
  <2>2. CASE /\ return_paths' = return_paths \cup {p}
             /\ confirmations'[p] = confirmations[p] + 1
             /\ \A q \in Process \ {p} : confirmations'[q] = confirmations[q]
    <3>1. ASSUME NEW q \in Process
          PROVE  Confirmed(q)' <= restarts + (IF q \in return_paths' THEN 1 ELSE 0)
      <4>1. CASE q = p
        BY <1>1, <1>3, <2>2, <4>1
      <4>2. CASE q # p
        BY <1>1, <1>3, <2>2, <4>2
      <4> QED
        BY <4>1, <4>2
    <3> QED
      BY <1>3, <3>1
  <2> QED
    BY <1>3, <2>1, <2>2, Opening
<1>4. ASSUME NEW p \in Process, Inject(p)
      PROVE  ConfirmationsInv'
  <2>1. \A q \in Process : dll'[q] = "connected" => dll[q] = "connected"
    BY <1>4 DEF Inject, TypeOK
  <2> QED
    BY <1>2, <1>4, <2>1 DEF Inject, ipc_vars
<1>5. ASSUME NEW p \in Process,
             \/ get_connection_event(p) \/ Complete(p) \/ TimeOut(p) \/ Die(p)
             \/ handle_connection(p)
      PROVE  ConfirmationsInv'
  BY <1>2, <1>5 DEF get_connection_event, Complete, TimeOut, Die, handle_connection, ipc_vars,
                    dll_vars
<1>6. ASSUME NEW p \in Process, find_connection(p)
      PROVE  ConfirmationsInv'
  BY <1>3, <1>6 DEF find_connection, dll_vars
<1>7. CASE Open
  <2>1. handling \in Process /\ handling \notin return_paths
    BY <1>7 DEF Open, SendingInv, TypeOK
  <2> QED
    BY <1>3, <1>7, <2>1 DEF Open, dll_vars
<1>8. CASE Set
  BY <1>2, <1>8 DEF Set, dll_vars
<1>9. ASSUME NEW p \in Process, SendConnection(p)
      PROVE  ConfirmationsInv'
  <2>1. \A q \in Process : dll'[q] = "connected" => dll[q] = "connected"
    BY <1>9 DEF SendConnection, TypeOK
  <2> QED
    BY <1>2, <1>9, <2>1 DEF SendConnection, ipc_vars
<1>10. ASSUME NEW p \in Process, Confirm(p)
       PROVE  ConfirmationsInv'
  <2>1. UNCHANGED <<restarts, return_paths>>
    BY <1>10 DEF Confirm, ipc_vars
  <2>2. confirmations'[p] = confirmations[p] - 1 /\ confirmations[p] > 0
    BY <1>10 DEF Confirm, TypeOK
  <2>3. \A q \in Process : q # p => confirmations'[q] = confirmations[q] /\ dll'[q] = dll[q]
    BY <1>10 DEF Confirm, TypeOK
  <2>4. dll[p] = "connected" => dll'[p] = "connected"
    BY <1>10 DEF Confirm
  <2>5. Confirmed(p)' <= Confirmed(p)
    BY <1>1, <2>2, <2>4
  <2>6. \A q \in Process : q # p => Confirmed(q)' = Confirmed(q)
    BY <2>3
  <2>7. Confirmed(p) \in Nat /\ Confirmed(p)' \in Nat
    BY <1>1, <2>2
  <2> QED
    BY <1>1, <2>1, <2>5, <2>6, <2>7
<1>11. CASE Restart
  <2>1. restarts' = restarts + 1 /\ UNCHANGED <<confirmations, dll>>
    BY <1>11 DEF Restart, dll_vars
  <2>2. ASSUME NEW q \in Process
        PROVE  Confirmed(q)' <= restarts'
    <3>1. Confirmed(q)' = Confirmed(q) /\ Confirmed(q) \in Nat
      BY <1>1, <2>1
    <3>2. Confirmed(q) <= restarts + 1
      BY <1>1, <3>1
    <3> QED
      BY <2>1, <3>1, <3>2
  <2>3. return_paths' = {}
    BY <1>11 DEF Restart
  <2> QED
    BY <1>1, <2>1, <2>2, <2>3
<1> QED
  BY <1>4, <1>5, <1>6, <1>7, <1>8, <1>9, <1>10, <1>11, StepCases

LEMMA SignalInductive ==
    ASSUME TypeOK, SignalInv, Next
    PROVE  SignalInv'
<1> USE DEF SignalInv, Tried
<1>1. ASSUME Tried \subseteq Tried', signaled' \subseteq signaled,
             UNCHANGED <<attempt, setter, handling, opened, woken_by>>
      PROVE  SignalInv'
  BY <1>1
<1>2. ASSUME NEW p \in Process, get_connection_event(p)
      PROVE  SignalInv'
  <2>1. signaled' \subseteq signaled
    BY <1>2 DEF get_connection_event, allocate_event
  <2>2. \A q \in Process : attempt'[q] = "hooked" => attempt[q] = "hooked"
    BY <1>2 DEF get_connection_event, TypeOK
  <2> QED
    BY <1>2, <2>1, <2>2 DEF get_connection_event, ipc_vars
<1>3. ASSUME NEW p \in Process, Inject(p) \/ TimeOut(p)
      PROVE  SignalInv'
  <2>1. \A q \in Process : attempt'[q] = "hooked" => attempt[q] = "hooked"
    BY <1>3 DEF Inject, TimeOut, TypeOK
  <2> QED
    BY <1>3, <2>1 DEF Inject, TimeOut, ipc_vars
<1>4. ASSUME NEW p \in Process, Complete(p)
      PROVE  SignalInv'
  <2>1. \A q \in Process : woken_by'[q] = IF q = p THEN setter[event[p]] ELSE woken_by[q]
    BY <1>4 DEF Complete, TypeOK
  <2>2. \A q \in Process : attempt'[q] = IF q = p THEN "hooked" ELSE attempt[q]
    BY <1>4 DEF Complete, TypeOK
  <2>3. event[p] \in signaled
    BY <1>4 DEF Complete
  <2>4. UNCHANGED <<setter, signaled, handling, opened, return_paths, failed_to_open>>
    BY <1>4 DEF Complete, ipc_vars
  <2> QED
    BY <2>1, <2>2, <2>3, <2>4
<1>5. ASSUME NEW p \in Process,
             handle_connection(p) \/ SendConnection(p) \/ Confirm(p) \/ Die(p)
      PROVE  SignalInv'
  BY <1>5 DEF handle_connection, SendConnection, Confirm, Die, ipc_vars, scheduler_vars
<1>6. ASSUME NEW p \in Process, find_connection(p)
      PROVE  SignalInv'
  BY <1>1, <1>6, Opening DEF find_connection, scheduler_vars
<1>7. CASE Open
  <2>1. handling \in Process
    BY <1>7 DEF Open, TypeOK
  <2>2. handling \in Tried' /\ Tried \subseteq Tried'
    BY <1>7, <2>1, Opening DEF Open
  <2> QED
    BY <1>7, <2>2 DEF Open, scheduler_vars
<1>8. CASE Set
  <2>1. weak_event \in Event /\ handling \in Tried
    BY <1>8, ConnectionAssumption DEF Set, TypeOK
  <2>2. \A e \in Event : setter'[e] = IF e = weak_event THEN handling ELSE setter[e]
    BY <1>8 DEF Set, TypeOK
  <2>3. signaled' = signaled \cup {weak_event} /\ signaled \subseteq Event
    BY <1>8 DEF Set, TypeOK
  <2>4. handling' = NoProcess /\ UNCHANGED <<attempt, woken_by, return_paths, failed_to_open>>
    BY <1>8 DEF Set, scheduler_vars
  <2> QED
    BY <2>1, <2>2, <2>3, <2>4
<1>9. CASE Restart
  BY <1>9 DEF Restart
<1> QED
  BY <1>2, <1>3, <1>4, <1>5, <1>6, <1>7, <1>8, <1>9, StepCases

LEMMA AttemptInductive ==
    ASSUME TypeOK, AttemptInv, Next
    PROVE  AttemptInv'
<1> USE DEF AttemptInv
<1>1. ASSUME NEW p \in Process, get_connection_event(p)
      PROVE  AttemptInv'
  <2>1. \A q \in Process : attempt'[q] = IF q = p THEN "prepared" ELSE attempt[q]
    BY <1>1 DEF get_connection_event, TypeOK
  <2> QED
    BY <1>1, <2>1 DEF get_connection_event, dll_vars
<1>2. ASSUME NEW p \in Process, Inject(p)
      PROVE  AttemptInv'
  <2>1. CASE attempt' = [attempt EXCEPT ![p] = "injected"] /\ UNCHANGED gave_up
    <3>1. \A q \in Process : attempt'[q] = IF q = p THEN "injected" ELSE attempt[q]
      BY <2>1 DEF TypeOK
    <3>2. \A q \in Process : q # p => dll'[q] = dll[q]
      BY <1>2 DEF Inject, TypeOK
    <3> QED
      BY <1>2, <2>1, <3>1, <3>2 DEF Inject
  <2>2. CASE /\ attempt' = [attempt EXCEPT ![p] = "failed"]
             /\ gave_up' = gave_up \cup {p}
             /\ UNCHANGED dll
    <3>1. \A q \in Process : attempt'[q] = IF q = p THEN "failed" ELSE attempt[q]
      BY <2>2 DEF TypeOK
    <3> QED
      BY <1>2, <2>2, <3>1 DEF Inject
  <2> QED
    BY <1>2, <2>1, <2>2 DEF Inject
<1>3. ASSUME NEW p \in Process, Complete(p)
      PROVE  AttemptInv'
  <2>1. \A q \in Process : attempt'[q] = IF q = p THEN "hooked" ELSE attempt[q]
    BY <1>3 DEF Complete, TypeOK
  <2>2. \A q \in Process : q # p => woken_by'[q] = woken_by[q]
    BY <1>3 DEF Complete, TypeOK
  <2> QED
    BY <1>3, <2>1, <2>2 DEF Complete, dll_vars
<1>4. ASSUME NEW p \in Process, TimeOut(p)
      PROVE  AttemptInv'
  <2>1. \A q \in Process : attempt'[q] = IF q = p THEN "failed" ELSE attempt[q]
    BY <1>4 DEF TimeOut, TypeOK
  <2> QED
    BY <1>4, <2>1 DEF TimeOut, dll_vars
<1>5. ASSUME NEW p \in Process, SendConnection(p) \/ Confirm(p)
      PROVE  AttemptInv'
  <2>1. \A q \in Process : dll[q] = "absent" => dll'[q] = "absent"
    BY <1>5 DEF SendConnection, Confirm, TypeOK
  <2> QED
    BY <1>5, <2>1 DEF SendConnection, Confirm, scheduler_vars
<1>6. ASSUME NEW p \in Process, Die(p) \/ handle_connection(p) \/ find_connection(p)
      PROVE  AttemptInv'
  BY <1>6 DEF Die, handle_connection, find_connection, scheduler_vars, dll_vars
<1>7. CASE Open \/ Set
  BY <1>7 DEF Open, Set, scheduler_vars, dll_vars
<1>8. CASE Restart
  <2>1. restarts' # 0
    BY <1>8, ConnectionAssumption DEF Restart, TypeOK
  <2> QED
    BY <1>8, <2>1 DEF Restart
<1> QED
  BY <1>1, <1>2, <1>3, <1>4, <1>5, <1>6, <1>7, <1>8, StepCases

\* A wait that is over for one of the two reasons stays so.
Over(q) == q \in gave_up \/ Misled(q)

LEMMA OverForGood ==
    ASSUME TypeOK, AttemptInv, Next, ~Restart, NEW q \in Process, Over(q)
    PROVE  Over(q)'
<1> USE DEF Over, Misled
<1>1. ASSUME NEW p \in Process, Complete(p)
      PROVE  Over(q)'
  <2>1. attempt[p] = "injected"
    BY <1>1 DEF Complete
  <2>2. woken_by[p] = NoProcess
    BY <2>1 DEF AttemptInv
  <2>3. q # p => woken_by'[q] = woken_by[q]
    BY <1>1 DEF Complete, TypeOK
  <2> QED
    BY <1>1, <2>2, <2>3 DEF Complete
<1>2. ASSUME NEW p \in Process, get_connection_event(p) \/ Inject(p) \/ TimeOut(p)
      PROVE  Over(q)'
  BY <1>2 DEF get_connection_event, Inject, TimeOut
<1>3. CASE Open \/ Set \/ \E p \in Process :
              \/ handle_connection(p) \/ find_connection(p)
              \/ SendConnection(p) \/ Confirm(p) \/ Die(p)
  BY <1>3 DEF handle_connection, find_connection, SendConnection, Confirm, Die, Open, Set,
              scheduler_vars
<1> QED
  BY <1>1, <1>2, <1>3, StepCases

\* A process that is hooked although its Connection was not handled was woken by
\* the Connection of another.
LEMMA UnheardIsMisled ==
    ASSUME IInv, NEW p \in Process, Unheard(p), NEW e \in Event, e \in signaled
    PROVE  setter[e] \in Process /\ setter[e] # p /\ setter[e] # NoProcess
BY ConnectionAssumption DEF IInv, TypeOK, UnheardInv, SignalInv, Tried

LEMMA HandlingInductive ==
    ASSUME IInv, Next
    PROVE  HandlingInv'
<1> USE DEF HandlingInv
<1>0. TypeOK /\ AttemptInv /\ EventsHaveOneOwner /\ HandlingInv
  BY DEF IInv
<1>1. ASSUME ~Restart, UNCHANGED <<handling, weak_event>>,
             \A p \in Process : handling = p /\ event[p] = weak_event =>
                event'[p] = event[p] \/ Over(p)'
      PROVE  HandlingInv'
  BY <1>0, <1>1, OverForGood DEF Over
<1>2. ASSUME NEW p \in Process, get_connection_event(p)
      PROVE  HandlingInv'
  <2>1. event[p] = NoEvent
    BY <1>0, <1>2 DEF EventsHaveOneOwner, get_connection_event
  <2>2. handling = p => event[p] # weak_event
    BY <1>0, <1>2, <2>1, ConnectionAssumption DEF TypeOK
  <2>3. \A q \in Process : q # p => event'[q] = event[q]
    BY <1>0, <1>2 DEF get_connection_event, TypeOK
  <2>4. ~Restart \/ HandlingInv'
    BY ConnectionAssumption DEF Restart
  <2> QED
    BY <1>1, <1>2, <2>2, <2>3, <2>4 DEF get_connection_event, ipc_vars
<1>3. ASSUME NEW p \in Process, Inject(p) \/ TimeOut(p)
      PROVE  HandlingInv'
  <2>1. event'[p] = event[p] \/ p \in gave_up'
    BY <1>3 DEF Inject, TimeOut
  <2>2. \A q \in Process : q # p => event'[q] = event[q]
    BY <1>0, <1>3 DEF Inject, TimeOut, cancel_connection, TypeOK
  <2>3. ~Restart \/ HandlingInv'
    BY ConnectionAssumption DEF Restart
  <2> QED
    BY <1>1, <1>3, <2>1, <2>2, <2>3 DEF Inject, TimeOut, ipc_vars, Over
<1>4. ASSUME NEW p \in Process, Complete(p)
      PROVE  HandlingInv'
  <2>1. event[p] \in Event /\ event[p] \in signaled
    BY <1>0, <1>4 DEF Complete, EventsHaveOneOwner, TypeOK
  <2>2. woken_by'[p] = setter[event[p]]
    BY <1>0, <1>4 DEF Complete, TypeOK
  <2>3. handling = p => Over(p)'
    BY <2>1, <2>2, UnheardIsMisled DEF Unheard, Over, Misled
  <2>4. \A q \in Process : q # p => event'[q] = event[q]
    BY <1>0, <1>4 DEF Complete, cancel_connection, TypeOK
  <2>5. ~Restart \/ HandlingInv'
    BY ConnectionAssumption DEF Restart
  <2> QED
    BY <1>1, <1>4, <2>3, <2>4, <2>5 DEF Complete, ipc_vars
<1>5. ASSUME NEW p \in Process, handle_connection(p)
      PROVE  HandlingInv'
  <2>1. pid_events = event /\ UNCHANGED event
    BY <1>0, <1>5 DEF EventsHaveOneOwner, handle_connection, scheduler_vars
  <2>2. weak_event' = event[p] /\ handling' \in {NoProcess, p}
    BY <1>5, <2>1 DEF handle_connection
  <2> QED
    BY <2>1, <2>2, ConnectionAssumption
<1>6. ASSUME NEW p \in Process,
             find_connection(p) \/ SendConnection(p) \/ Confirm(p) \/ Die(p)
      PROVE  HandlingInv'
  BY <1>0, <1>6 DEF find_connection, SendConnection, Confirm, Die, ipc_vars, scheduler_vars,
                    Misled
<1>7. CASE Open
  BY <1>0, <1>7 DEF Open, scheduler_vars, Misled
<1>8. CASE Set \/ Restart
  BY <1>8, ConnectionAssumption DEF Set, Restart
<1> QED
  BY <1>2, <1>3, <1>4, <1>5, <1>6, <1>7, <1>8, StepCases

LEMMA SetterInductive ==
    ASSUME IInv, Next
    PROVE  SetterInv'
<1> DEFINE Good(p) == LET q == setter[event[p]] IN q = p \/ Over(q)
<1>0. /\ TypeOK /\ AttemptInv /\ EventsHaveOneOwner /\ HandlingInv
      /\ \A p \in Process : event[p] \in signaled => Good(p)
  BY DEF IInv, SetterInv, Over
<1>1. \A e \in Event : e \in signaled => setter[e] \in Process
  BY DEF IInv, TypeOK, SignalInv, Tried
<1>2. ASSUME ~Restart, UNCHANGED setter,
             \A p \in Process : event'[p] \in signaled' =>
                event'[p] = event[p] /\ event[p] \in signaled
      PROVE  SetterInv'
  <2> SUFFICES ASSUME NEW p \in Process, event'[p] \in signaled'
               PROVE  setter[event[p]] = p \/ Over(setter[event[p]])'
    BY <1>2 DEF SetterInv, Over
  <2>1. event[p] \in signaled /\ setter[event[p]] \in Process /\ Good(p)
    BY <1>0, <1>1, <1>2 DEF TypeOK
  <2> QED
    BY <1>0, <1>2, <2>1, OverForGood
<1>3. CASE Restart
  BY <1>3 DEF Restart, SetterInv
<1>4. ASSUME NEW p \in Process, get_connection_event(p), ~Restart
      PROVE  SetterInv'
  <2>1. PICK e \in Event : allocate_event(e) /\ event' = [event EXCEPT ![p] = e]
    BY <1>4 DEF get_connection_event
  <2>2. signaled' = signaled \ {e}
    BY <2>1 DEF allocate_event
  <2>3. \A q \in Process : event'[q] = IF q = p THEN e ELSE event[q]
    BY <1>0, <2>1 DEF TypeOK
  <2> QED
    BY <1>2, <1>4, <2>2, <2>3 DEF get_connection_event, ipc_vars
<1>5. ASSUME NEW p \in Process, Inject(p) \/ TimeOut(p) \/ Complete(p), ~Restart
      PROVE  SetterInv'
  <2>1. \A q \in Process : event'[q] = event[q] \/ event'[q] = NoEvent
    BY <1>0, <1>5 DEF Inject, TimeOut, Complete, cancel_connection, TypeOK
  <2>2. UNCHANGED <<signaled, setter>> /\ NoEvent \notin signaled
    BY <1>0, <1>5, ConnectionAssumption DEF Inject, TimeOut, Complete, ipc_vars, TypeOK
  <2> QED
    BY <1>2, <1>5, <2>1, <2>2
<1>6. ASSUME NEW p \in Process, ~Restart,
             \/ find_connection(p) \/ SendConnection(p) \/ Confirm(p) \/ Die(p)
             \/ handle_connection(p)
      PROVE  SetterInv'
  BY <1>2, <1>6 DEF find_connection, SendConnection, Confirm, Die, handle_connection, ipc_vars,
                    scheduler_vars
<1>7. CASE Open /\ ~Restart
  BY <1>2, <1>7 DEF Open, scheduler_vars
<1>8. CASE Set /\ ~Restart
  <2>1. weak_event \in Event /\ handling \in Process
    BY <1>0, <1>8, ConnectionAssumption DEF Set, TypeOK
  <2>2. /\ signaled' = signaled \cup {weak_event}
        /\ \A e \in Event : setter'[e] = IF e = weak_event THEN handling ELSE setter[e]
        /\ UNCHANGED <<event, woken_by, gave_up>>
    BY <1>0, <1>8 DEF Set, scheduler_vars, TypeOK
  <2>3. \A q : Over(q)' = Over(q)
    BY <2>2 DEF Over, Misled
  <2>4. signaled' \subseteq Event
    BY <1>0, <2>1, <2>2 DEF TypeOK
  <2> SUFFICES ASSUME NEW p \in Process, event[p] \in signaled'
               PROVE  setter'[event[p]] = p \/ Over(setter'[event[p]])
    BY <2>2, <2>3 DEF SetterInv, Over
  <2>5. CASE event[p] = weak_event
    <3>1. handling # p => event[handling] # event[p]
      BY <1>0, <2>1, <2>5, ConnectionAssumption DEF EventsHaveOneOwner
    <3> QED
      BY <1>0, <2>1, <2>2, <2>5, <3>1 DEF HandlingInv, Over
  <2>6. CASE event[p] # weak_event
    BY <1>0, <2>2, <2>4, <2>6
  <2> QED
    BY <2>5, <2>6
<1> QED
  BY <1>3, <1>4, <1>5, <1>6, <1>7, <1>8, StepCases

LEMMA WaitsInductive ==
    ASSUME IInv, Next
    PROVE  WaitsAreForThemselves'
<1>0. /\ TypeOK /\ AttemptInv /\ EventsHaveOneOwner /\ SetterInv
      /\ \A p \in Process : Misled(p) => Over(woken_by[p])
  BY DEF IInv, WaitsAreForThemselves, Over
<1>1. \A p \in Process : Misled(p) => woken_by[p] \in Process
  BY <1>0 DEF TypeOK, Misled
<1>2. ASSUME ~Restart, UNCHANGED woken_by
      PROVE  WaitsAreForThemselves'
  <2> SUFFICES ASSUME NEW p \in Process, Misled(p)
               PROVE  Over(woken_by[p])'
    BY <1>2 DEF WaitsAreForThemselves, Over, Misled
  <2> QED
    BY <1>0, <1>1, <1>2, OverForGood
<1>3. CASE Restart
  BY <1>3 DEF Restart, WaitsAreForThemselves, Misled
<1>4. ASSUME NEW p \in Process, Complete(p), ~Restart
      PROVE  WaitsAreForThemselves'
  <2>1. event[p] \in Event /\ event[p] \in signaled
    BY <1>0, <1>4 DEF Complete, EventsHaveOneOwner, TypeOK
  <2>2. \A q \in Process : woken_by'[q] = IF q = p THEN setter[event[p]] ELSE woken_by[q]
    BY <1>0, <1>4 DEF Complete, TypeOK
  <2>3. setter[event[p]] = p \/ Over(setter[event[p]])
    BY <1>0, <2>1 DEF SetterInv, Over
  <2>4. PICK r \in Process : r = setter[event[p]]
    BY <2>1 DEF IInv, TypeOK, SignalInv, Tried
  <2> SUFFICES ASSUME NEW q \in Process, Misled(q)'
               PROVE  Over(woken_by[q])'
    BY DEF WaitsAreForThemselves, Over
  <2>5. CASE q = p
    <3>1. woken_by'[q] = r
      BY <2>2, <2>4, <2>5
    <3>2. r # p
      BY <2>5, <3>1 DEF Misled
    <3>3. Over(r)'
      BY <1>0, <1>4, <2>3, <2>4, <3>2, OverForGood
    <3> QED
      BY <3>1, <3>3
  <2>6. CASE q # p
    <3>1. woken_by'[q] = woken_by[q] /\ Misled(q)
      BY <2>2, <2>6 DEF Misled
    <3>2. PICK w \in Process : w = woken_by[q]
      BY <1>1, <3>1
    <3>3. Over(w)'
      BY <1>0, <1>4, <3>1, <3>2, OverForGood
    <3> QED
      BY <3>1, <3>2, <3>3
  <2> QED
    BY <2>5, <2>6
<1>5. ASSUME NEW p \in Process, ~Restart,
             \/ get_connection_event(p) \/ Inject(p) \/ TimeOut(p)
             \/ find_connection(p) \/ SendConnection(p) \/ Confirm(p) \/ Die(p)
             \/ handle_connection(p)
      PROVE  WaitsAreForThemselves'
  BY <1>2, <1>5 DEF get_connection_event, Inject, TimeOut, find_connection, SendConnection,
                    Confirm, Die, handle_connection, scheduler_vars
<1>6. CASE (Open \/ Set) /\ ~Restart
  BY <1>2, <1>6 DEF Open, Set, scheduler_vars
<1> QED
  BY <1>3, <1>4, <1>5, <1>6, StepCases

LEMMA TypeInductive ==
    ASSUME IInv, Next
    PROVE  TypeOK'
<1>0. TypeOK /\ EventsHaveOneOwner /\ EventsHaveOneOwner' /\ ConfirmationsInv'
  BY OneOwnerInductive, ConfirmationsInductive DEF IInv
<1>1. free_events' \in Seq(Event)
  <2>1. ASSUME NEW p \in Process, get_connection_event(p)
        PROVE  free_events' \in Seq(Event)
    BY <1>0, <2>1, AllocatedIsFree DEF get_connection_event
  <2>2. ASSUME NEW p \in Process, cancel_connection(p), attempt[p] \in {"prepared", "injected"}
        PROVE  free_events' \in Seq(Event)
    BY <1>0, <2>2 DEF cancel_connection, TypeOK, EventsHaveOneOwner
  <2>3. CASE UNCHANGED free_events
    BY <1>0, <2>3 DEF TypeOK
  <2>4. CASE Restart
    BY <2>4 DEF Restart
  <2> QED
    BY <2>1, <2>2, <2>3, <2>4, StepCases
       DEF Inject, Complete, TimeOut, handle_connection, find_connection, SendConnection,
           Confirm, Die, Open, Set, scheduler_vars
<1>2. restarts' \in 0 .. MaxRestarts
  <2>1. CASE UNCHANGED restarts
    BY <1>0, <2>1 DEF TypeOK
  <2>2. CASE Restart
    BY <1>0, <2>2, ConnectionAssumption DEF TypeOK, Restart
  <2> QED
    BY <2>1, <2>2, StepCases
       DEF get_connection_event, Inject, Complete, TimeOut, handle_connection, find_connection,
           SendConnection, Confirm, Die, Open, Set
<1>3. confirmations' \in [Process -> 0 .. MaxRestarts + 1]
  <2>1. confirmations \in [Process -> Nat]
    BY <1>0, ConnectionAssumption DEF TypeOK
  <2>2. confirmations' \in [Process -> Nat]
    <3>1. ASSUME NEW p \in Process, Confirm(p)
          PROVE  confirmations' \in [Process -> Nat]
      BY <2>1, <3>1 DEF Confirm
    <3>2. ASSUME NEW p \in Process, connect_return_path(p)
          PROVE  confirmations' \in [Process -> Nat]
      BY <1>0, <3>2, Opening
    <3>3. CASE UNCHANGED confirmations
      BY <2>1, <3>3
    <3>4. Open => handling \in Process
      BY <1>0 DEF Open, TypeOK
    <3> QED
      BY <3>1, <3>2, <3>3, <3>4, StepCases
         DEF get_connection_event, Inject, Complete, TimeOut, handle_connection,
             find_connection, SendConnection, Die, Open, Set, Restart
  <2>3. \A p \in Process : confirmations'[p] <= MaxRestarts + 1
    BY <1>0, <1>2, <2>2, ConnectionAssumption DEF ConfirmationsInv, Confirmed
  <2> QED
    BY <2>2, <2>3, ConnectionAssumption
<1>4. /\ attempt' \in [Process -> {"none", "prepared", "injected", "hooked", "failed"}]
      /\ event' \in [Process -> Event \cup {NoEvent}]
      /\ gave_up' \in SUBSET Process
  <2>1. ASSUME NEW p \in Process, get_connection_event(p) PROVE <1>4!:
    BY <1>0, <2>1 DEF TypeOK, get_connection_event
  <2>2. ASSUME NEW p \in Process, Inject(p) PROVE <1>4!:
    BY <1>0, <2>2 DEF TypeOK, Inject, cancel_connection
  <2>3. ASSUME NEW p \in Process, Complete(p) PROVE <1>4!:
    BY <1>0, <2>3 DEF TypeOK, Complete, cancel_connection
  <2>4. ASSUME NEW p \in Process, TimeOut(p) PROVE <1>4!:
    BY <1>0, <2>4 DEF TypeOK, TimeOut, cancel_connection
  <2>5. CASE UNCHANGED <<attempt, event, gave_up>>
    BY <1>0, <2>5 DEF TypeOK
  <2>6. CASE Restart
    BY <2>6 DEF Restart
  <2> QED
    BY <2>1, <2>2, <2>3, <2>4, <2>5, <2>6, StepCases
       DEF handle_connection, find_connection, SendConnection, Confirm, Die, Open, Set,
           scheduler_vars
<1>5. /\ pid_events' \in [Process -> Event \cup {NoEvent}]
      /\ signaled' \in SUBSET Event
      /\ setter' \in [Event -> Process \cup {NoProcess}]
  <2>1. pid_events' = event'
    BY <1>0 DEF EventsHaveOneOwner
  <2>2. CASE Set
    <3>1. weak_event \in Event /\ handling \in Process
      BY <1>0, <2>2, ConnectionAssumption DEF Set, TypeOK
    <3> QED
      BY <1>0, <1>4, <2>1, <2>2, <3>1 DEF Set, TypeOK
  <2>3. ASSUME NEW p \in Process, get_connection_event(p) PROVE <1>5!:
    BY <1>0, <1>4, <2>1, <2>3 DEF get_connection_event, allocate_event, TypeOK, ipc_vars
  <2>4. CASE UNCHANGED <<signaled, setter>>
    BY <1>0, <1>4, <2>1, <2>4 DEF TypeOK
  <2>5. CASE Restart
    BY <1>4, <2>1, <2>5 DEF Restart
  <2> QED
    BY <2>2, <2>3, <2>4, <2>5, StepCases
       DEF Inject, Complete, TimeOut, handle_connection, find_connection, SendConnection,
           Confirm, Die, Open, ipc_vars
<1>6. woken_by' \in [Process -> Process \cup {NoProcess}]
  <2>1. ASSUME NEW p \in Process, Complete(p) PROVE <1>6!:
    <3>1. event[p] \in Event
      BY <1>0, <2>1 DEF Complete, EventsHaveOneOwner, TypeOK
    <3> QED
      BY <1>0, <2>1, <3>1 DEF Complete, TypeOK
  <2>2. CASE UNCHANGED woken_by
    BY <1>0, <2>2 DEF TypeOK
  <2>3. CASE Restart
    BY <2>3 DEF Restart
  <2> QED
    BY <2>1, <2>2, <2>3, StepCases
       DEF get_connection_event, Inject, TimeOut, handle_connection, find_connection,
           SendConnection, Confirm, Die, Open, Set, scheduler_vars
<1>7. /\ handling' \in Process \cup {NoProcess}
      /\ weak_event' \in Event \cup {NoEvent}
      /\ opened' \in BOOLEAN
      /\ handling' # NoProcess => weak_event' # NoEvent
      /\ inbox' \in SUBSET Process
  BY <1>0, StepCases
     DEF TypeOK, get_connection_event, Inject, Complete, TimeOut, handle_connection,
         find_connection, SendConnection, Confirm, Die, Open, Set, Restart, ipc_vars
<1>8. return_paths' \in SUBSET Process /\ failed_to_open' \in SUBSET Process
  BY <1>0, StepCases
     DEF TypeOK, connect_return_path, get_connection_event, Inject, Complete, TimeOut,
         handle_connection, find_connection, SendConnection, Confirm, Die, Open, Set, Restart,
         ipc_vars
<1>9. /\ dll' \in [Process -> {"absent", "starting", "waiting", "connected"}]
      /\ alive' \in SUBSET Process
  <2>1. ASSUME NEW p \in Process, Inject(p) PROVE <1>9!:
    BY <1>0, <2>1 DEF TypeOK, Inject
  <2>2. ASSUME NEW p \in Process, SendConnection(p) PROVE <1>9!:
    BY <1>0, <2>2 DEF TypeOK, SendConnection
  <2>3. ASSUME NEW p \in Process, Confirm(p) PROVE <1>9!:
    BY <1>0, <2>3 DEF TypeOK, Confirm
  <2>4. ASSUME NEW p \in Process, Die(p) PROVE <1>9!:
    BY <1>0, <2>4 DEF TypeOK, Die
  <2>5. CASE UNCHANGED <<dll, alive>>
    BY <1>0, <2>5 DEF TypeOK
  <2> QED
    BY <2>1, <2>2, <2>3, <2>4, <2>5, StepCases
       DEF get_connection_event, Complete, TimeOut, handle_connection, find_connection, Open,
           Set, Restart, dll_vars
<1> QED
  BY <1>1, <1>2, <1>3, <1>4, <1>5, <1>6, <1>7, <1>8, <1>9 DEF TypeOK

LEMMA IInvHolds == Spec => []IInv
<1>1. Init => IInv
  <2> SUFFICES ASSUME Init PROVE IInv
    OBVIOUS
  <2>1. 0 \in 0 .. MaxRestarts /\ 0 \in 0 .. MaxRestarts + 1
    BY ConnectionAssumption
  <2>2. TypeOK
    <3>1. confirmations \in [Process -> 0 .. MaxRestarts + 1] /\ restarts \in 0 .. MaxRestarts
      BY <2>1 DEF Init
    <3>2. /\ attempt \in [Process -> {"none", "prepared", "injected", "hooked", "failed"}]
          /\ dll \in [Process -> {"absent", "starting", "waiting", "connected"}]
      BY DEF Init
    <3>3. /\ event \in [Process -> Event \cup {NoEvent}]
          /\ pid_events \in [Process -> Event \cup {NoEvent}]
          /\ setter \in [Event -> Process \cup {NoProcess}]
          /\ woken_by \in [Process -> Process \cup {NoProcess}]
      BY DEF Init
    <3>4. free_events \in Seq(Event)
      <4>1. free_events = <<>>
        BY DEF Init
      <4> QED
        BY <4>1
    <3>7. opened \in BOOLEAN
      BY DEF Init
    <3>5. /\ signaled \in SUBSET Event /\ return_paths \in SUBSET Process
          /\ inbox \in SUBSET Process /\ alive \in SUBSET Process
          /\ gave_up \in SUBSET Process /\ failed_to_open \in SUBSET Process
      BY DEF Init
    <3>6. handling = NoProcess /\ weak_event = NoEvent
      BY DEF Init
    <3> QED
      BY <3>1, <3>2, <3>3, <3>4, <3>5, <3>6, <3>7 DEF TypeOK
  <2>3. EventsHaveOneOwner
    BY DEF Init, EventsHaveOneOwner, ToSet, IsInjective
  <2>4. SendingInv /\ UnheardInv
    BY ConnectionAssumption DEF Init, SendingInv, UnheardInv
  <2>5. ConfirmationsInv /\ SignalInv /\ AttemptInv
    BY DEF Init, ConfirmationsInv, Confirmed, SignalInv, AttemptInv
  <2>6. HandlingInv /\ SetterInv /\ WaitsAreForThemselves
    BY ConnectionAssumption DEF Init, HandlingInv, SetterInv, WaitsAreForThemselves, Misled
  <2> QED
    BY <2>2, <2>3, <2>4, <2>5, <2>6 DEF IInv
<1>2. IInv /\ [Next]_vars => IInv'
  <2>1. ASSUME IInv, Next PROVE IInv'
    <3>1. /\ TypeOK /\ EventsHaveOneOwner /\ SendingInv /\ UnheardInv /\ ConfirmationsInv
          /\ SignalInv /\ AttemptInv
      BY <2>1 DEF IInv
    <3>2. TypeOK' /\ EventsHaveOneOwner' /\ SendingInv' /\ UnheardInv'
      BY <2>1, <3>1, TypeInductive, OneOwnerInductive, SendingInductive, UnheardInductive
    <3>3. ConfirmationsInv' /\ SignalInv' /\ AttemptInv'
      BY <2>1, <3>1, ConfirmationsInductive, SignalInductive, AttemptInductive
    <3>4. HandlingInv' /\ SetterInv' /\ WaitsAreForThemselves'
      BY <2>1, HandlingInductive, SetterInductive, WaitsInductive
    <3> QED
      BY <3>2, <3>3, <3>4 DEF IInv
  <2>2. ASSUME IInv, UNCHANGED vars PROVE IInv'
    BY <2>2
       DEF vars, scheduler_vars, ipc_vars, dll_vars, IInv, TypeOK, EventsHaveOneOwner,
           SendingInv, UnheardInv, Unheard, ConfirmationsInv, Confirmed, SignalInv, Tried,
           AttemptInv, HandlingInv, SetterInv, WaitsAreForThemselves, Misled
  <2> QED
    BY <2>1, <2>2
<1> QED
  BY <1>1, <1>2, PTL DEF Spec

\* The Connection of a process that nobody waits for.
LEMMA IgnoredAreOver ==
    ASSUME IInv, NEW p \in inbox, pid_events[p] = NoEvent, restarts = 0
    PROVE  Over(p)
<1>1. p \in Process /\ event[p] = NoEvent
  BY DEF IInv, TypeOK, EventsHaveOneOwner
<1>2. dll[p] = "waiting"
  BY <1>1 DEF IInv, SendingInv
<1>3. attempt[p] \in {"hooked", "failed"}
  BY <1>1, <1>2 DEF IInv, TypeOK, EventsHaveOneOwner, AttemptInv
<1>4. CASE attempt[p] = "failed"
  BY <1>1, <1>4 DEF IInv, AttemptInv, Over
<1>5. CASE attempt[p] = "hooked"
  <2>1. woken_by[p] \in Process
    BY <1>1, <1>5 DEF IInv, TypeOK, SignalInv, Tried
  <2>2. woken_by[p] # p
    BY <1>1 DEF IInv, UnheardInv, Unheard
  <2> QED
    BY <2>1, <2>2, ConnectionAssumption DEF Misled, Over
<1> QED
  BY <1>3, <1>4, <1>5

------------------------------------------------------------------------------
(* Theorems.                                                                *)

\* The maps, the pool and the counters of the connection have their types; a
\* process has at most one confirmation per life of the service to take.
THEOREM TypeCorrect == Spec => []TypeOK
<1>1. IInv => TypeOK
  BY DEF IInv
<1> QED
  BY <1>1, IInvHolds, PTL

\* allocate_event, return_event, get_connection_event and cancel_connection
\* never give one handle to two waits, nor keep one they gave.
THEOREM OwnersCorrect == Spec => []EventsHaveOneOwner
<1>1. IInv => EventsHaveOneOwner
  BY DEF IInv
<1> QED
  BY <1>1, IInvHolds, PTL

\* hook_process reports a connection only if the return ring is open, could not
\* be opened, or the event that woke it was set for another process.
THEOREM HookedCorrect == Spec => []HookedMeansConnected
<1>1. IInv => HookedMeansConnected
  BY ConnectionAssumption DEF IInv, HookedMeansConnected, SignalInv, Tried, Misled, TypeOK
<1> QED
  BY <1>1, IInvHolds, PTL

\* The raw handle of get_process_event_weak wakes the wait of another process
\* only after the wait it was looked up for ended.
THEOREM WaitsCorrect == Spec => []WaitsAreForThemselves
<1>1. IInv => WaitsAreForThemselves
  BY DEF IInv
<1> QED
  BY <1>1, IInvHolds, PTL

\* The Connection that handle_connection ignores is that of a process the service
\* gave up, misled, or forgot by a restart.
THEOREM ConnectionsExpected == Spec => []UnexpectedConnection
<1>1. IInv => UnexpectedConnection
  BY IgnoredAreOver, ConnectionAssumption DEF UnexpectedConnection, Over, IInv, TypeOK
<1> QED
  BY <1>1, IInvHolds, PTL

\* The confirmation nobody waits for, which the DLL says cannot happen, comes
\* from a service that restarted.
THEOREM ConfirmationsExpected == Spec => []UnexpectedConfirmation
<1>1. IInv => UnexpectedConfirmation
  <2> SUFFICES ASSUME IInv, NEW p \in Process, confirmations[p] > 0, restarts = 0
               PROVE  dll[p] = "waiting"
    BY ConnectionAssumption DEF UnexpectedConfirmation, IInv, TypeOK
  <2>1. confirmations[p] \in Nat
    BY ConnectionAssumption DEF IInv, TypeOK
  <2>2. dll[p] # "connected"
    BY <2>1 DEF IInv, ConfirmationsInv, Confirmed
  <2>3. dll[p] \notin {"absent", "starting"}
    BY <2>1 DEF IInv, SendingInv
  <2> QED
    BY <2>2, <2>3 DEF IInv, TypeOK
<1> QED
  BY <1>1, IInvHolds, PTL

------------------------------------------------------------------------------
(* No Connection is dropped on its way.                                     *)

Excused(p) == p \in failed_to_open \/ Over(p)

\* With no restart, a waiting process has its Connection or its confirmation under
\* way.
UnderWay(p) == p \in inbox \/ (handling = p /\ ~opened) \/ confirmations[p] > 0

WayInv ==
    \A p \in Process :
        dll[p] = "waiting" /\ restarts = 0 => UnderWay(p) \/ Excused(p)

LEMMA ExcusedForGood ==
    ASSUME TypeOK, AttemptInv, Next, ~Restart, NEW q \in Process, Excused(q)
    PROVE  Excused(q)'
<1>1. failed_to_open \subseteq failed_to_open'
  BY StepCases DEF get_connection_event, Inject, Complete, TimeOut, handle_connection,
                   find_connection, SendConnection, Confirm, Die, Open, Set, ipc_vars,
                   connect_return_path
<1> QED
  BY <1>1, OverForGood DEF Excused

LEMMA WayInductive ==
    ASSUME IInv, WayInv, Next
    PROVE  WayInv'
<1>0. TypeOK /\ AttemptInv /\ NoProcess \notin Process
  BY ConnectionAssumption DEF IInv
<1> SUFFICES ASSUME NEW q \in Process, dll'[q] = "waiting", restarts' = 0
             PROVE  UnderWay(q)' \/ Excused(q)'
  BY DEF WayInv
<1>1. ~Restart /\ restarts = 0
  <2>1. ~Restart
    BY <1>0, ConnectionAssumption DEF TypeOK, Restart
  <2>2. restarts' = restarts
    BY <2>1, StepCases DEF get_connection_event, Inject, Complete, TimeOut, handle_connection,
       find_connection, SendConnection, Confirm, Die, Open, Set
  <2> QED
    BY <2>1, <2>2
<1> SUFFICES ASSUME ~Excused(q)
             PROVE  UnderWay(q)' \/ Excused(q)'
  BY <1>0, <1>1, ExcusedForGood
<1>2. dll[q] = "waiting" => UnderWay(q)
  BY <1>1 DEF WayInv
<1>3. confirmations[q] \in Nat
  BY <1>0, ConnectionAssumption DEF TypeOK
<1>4. ASSUME NEW p \in Process, SendConnection(p)
      PROVE  UnderWay(q)'
  <2>1. q = p \/ dll[q] = "waiting"
    BY <1>0, <1>4 DEF SendConnection, TypeOK
  <2> QED
    BY <1>2, <1>4, <2>1 DEF SendConnection, UnderWay, ipc_vars
<1>5. ASSUME NEW p \in Process, Confirm(p)
      PROVE  UnderWay(q)'
  <2>1. q # p /\ dll[q] = "waiting"
    BY <1>0, <1>5 DEF Confirm, TypeOK
  <2>2. confirmations'[q] = confirmations[q]
    BY <1>0, <1>5, <2>1 DEF Confirm, TypeOK
  <2> QED
    BY <1>2, <1>5, <2>1, <2>2 DEF Confirm, UnderWay, ipc_vars
<1>6. ASSUME NEW p \in Process, handle_connection(p)
      PROVE  UnderWay(q)'
  <2>1. dll[q] = "waiting" /\ UnderWay(q)
    BY <1>2, <1>6 DEF handle_connection, dll_vars
  <2>2. handling = NoProcess /\ inbox' = inbox \ {p} /\ confirmations' = confirmations
        /\ p \in inbox /\ opened' = FALSE
    BY <1>6 DEF handle_connection
  <2>3. CASE q = p
    <3>1. pid_events[q] # NoEvent
      BY <1>1, <2>2, <2>3, IgnoredAreOver DEF Excused
    <3>2. handling' = q
      BY <1>6, <2>3, <3>1 DEF handle_connection
    <3> QED
      BY <2>2, <3>2 DEF UnderWay
  <2> QED
    BY <1>0, <2>1, <2>2, <2>3 DEF UnderWay
<1>7. CASE Open
  <2>1. dll[q] = "waiting" /\ UnderWay(q) /\ inbox' = inbox /\ handling \in Process
    BY <1>0, <1>2, <1>7 DEF Open, dll_vars, TypeOK
  <2>2. connect_return_path(handling)
    BY <1>7 DEF Open
  <2>3. CASE q = handling
    <3>1. confirmations'[q] = confirmations[q] + 1 \/ q \in failed_to_open'
      BY <1>0, <2>2, <2>3 DEF connect_return_path, TypeOK
    <3> QED
      BY <1>3, <3>1 DEF UnderWay, Excused
  <2>4. CASE q # handling
    <3>1. confirmations'[q] = confirmations[q]
      BY <1>0, <2>1, <2>2, <2>4 DEF connect_return_path, TypeOK
    <3> QED
      BY <2>1, <2>4, <3>1 DEF UnderWay
  <2> QED
    BY <2>3, <2>4
<1>8. CASE Set
  BY <1>2, <1>8 DEF Set, UnderWay, dll_vars
<1>9. ASSUME NEW p \in Process, find_connection(p)
      PROVE  UnderWay(q)'
  <2>1. dll[q] = "waiting" /\ UnderWay(q) /\ q # p
        /\ inbox' = inbox /\ handling' = handling /\ opened' = opened
    BY <1>2, <1>9 DEF find_connection, dll_vars
  <2>2. confirmations'[q] = confirmations[q]
    BY <1>0, <1>9, <2>1 DEF find_connection, connect_return_path, TypeOK
  <2> QED
    BY <2>1, <2>2 DEF UnderWay
<1>10. ASSUME NEW p \in Process,
              get_connection_event(p) \/ Inject(p) \/ Complete(p) \/ TimeOut(p) \/ Die(p)
       PROVE  UnderWay(q)'
  <2>1. dll[q] = "waiting"
    BY <1>0, <1>10 DEF get_connection_event, Inject, Complete, TimeOut, Die, dll_vars, TypeOK
  <2>2. UNCHANGED <<inbox, handling, opened, confirmations>>
    BY <1>10 DEF get_connection_event, Inject, Complete, TimeOut, Die, ipc_vars
  <2> QED
    BY <1>2, <2>1, <2>2 DEF UnderWay
<1> QED
  BY <1>1, <1>4, <1>5, <1>6, <1>7, <1>8, <1>9, <1>10, StepCases

\* handle_connection, connect_return_path and the two rings between them drop no
\* Connection: a DLL that waits with nothing under way is one the service gave
\* up, could not reach, misled or forgot.
THEOREM NoConnectionDropped == Spec => []ConnectionsAreUnderWay
<1>1. Init => WayInv
  BY DEF Init, WayInv
<1>2. IInv /\ WayInv /\ [Next]_vars => WayInv'
  <2>1. IInv /\ WayInv /\ UNCHANGED vars => WayInv'
    BY DEF vars, scheduler_vars, ipc_vars, dll_vars, WayInv, UnderWay, Excused, Over, Misled
  <2> QED
    BY <2>1, WayInductive
<1>3. IInv /\ WayInv => ConnectionsAreUnderWay
  BY ConnectionAssumption
     DEF IInv, TypeOK, WayInv, UnderWay, Excused, Over, ConnectionsAreUnderWay
<1> QED
  BY <1>1, <1>2, <1>3, IInvHolds, PTL DEF Spec
==============================================================================
