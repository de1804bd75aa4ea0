------------------------- MODULE ClipboardShieldProofs -------------------------
(***************************************************************************)
(* What the hooks and the service guarantee together, for any threads,         *)
(* processes and sessions, any calls, and any timeouts, deaths and restarts.   *)
(***************************************************************************)
EXTENDS ClipboardShield, InterceptorProofs

------------------------------------------------------------------------------
(* The clients of ClipboardShield are clients of Interceptor.               *)

\* A thread sends only requests of its own process.
LEMMA RequestsOfThread ==
    ASSUME NEW t \in Thread, NEW k \in 1 .. 2 * MaxCalls
    PROVE  <<t, k>> \in Request /\ ProcessOf[<<t, k>>] = ThreadProcess[t]
  BY ShieldAssumption

LEMMA Numbers ==
    ASSUME ShieldTypeOK, NEW t \in Thread, calls[t] > 0
    PROVE  /\ Before(t) \in Request /\ ProcessOf[Before(t)] = ThreadProcess[t]
           /\ After(t) \in Request /\ ProcessOf[After(t)] = ThreadProcess[t]
<1>1. calls[t] \in 1 .. MaxCalls /\ MaxCalls \in Nat
  BY ShieldAssumption DEF ShieldTypeOK
<1>2. 2 * calls[t] - 1 \in 1 .. 2 * MaxCalls /\ 2 * calls[t] \in 1 .. 2 * MaxCalls
  BY <1>1
<1> QED
  BY <1>2, RequestsOfThread DEF Before, After

\* A thread inside a call has made one.
CallsInv == \A t \in Thread : pc[t] \notin {"idle", "dead"} => calls[t] > 0

\* A step of the construction of an IPC object.
Shakes(p) == Initialize(p) \/ Connect(p) \/ CompleteConnection(p)

\* What the steps are.
LEMMA ShieldCases ==
    ASSUME ShieldNext
    PROVE  \/ Serve \/ Restart
           \/ \E p \in Process : Shakes(p) \/ Kill(p)
           \/ \E t \in Thread :
                 \/ SendPre(t) \/ TakePre(t) \/ TimeoutPre(t) \/ Original(t)
                 \/ CheckPost(t) \/ SendPost(t) \/ TakePost(t) \/ TimeoutPost(t)
                 \/ Disconnect(t)
                 \/ \E f \in CallsOf[t] : Enter(t, f)
BY DEF ShieldNext, Proceed, Shakes

\* The messages of the hooks.
PreMessage(t) ==
    [request |-> Before(t), type |-> IF call[t] \in Writes THEN "CopyBegin" ELSE "Paste",
     succeeded |-> FALSE]

PostMessage(t) == [request |-> After(t), type |-> "CopyEnd", succeeded |-> succeeded[t]]

LEMMA MessagesOfHooks ==
    ASSUME ShieldTypeOK, NEW t \in Thread, calls[t] > 0
    PROVE  PreMessage(t) \in Message /\ PostMessage(t) \in Message
<1>1. succeeded[t] \in BOOLEAN
  BY DEF ShieldTypeOK
<1>2. PostMessage(t) \in Message
  BY <1>1, Numbers DEF PostMessage, Message
<1>3. PreMessage(t) \in Message
  BY Numbers DEF PreMessage, Message
<1> QED
  BY <1>2, <1>3

\* It changes the object and the handshake of its process, and the return paths.
LEMMA ShakeStep ==
    ASSUME NEW p \in Process, Shakes(p)
    PROVE  /\ UNCHANGED service_vars \/ OnConnection(p)
           /\ UNCHANGED <<copies_in_progress, running, alive, inbox, sent, replies>>
           /\ UNCHANGED <<pc, call, calls, vouched, succeeded, ipc_mutex, connected, discarded,
                          opened, content>>
           /\ ipc' = ipc \/ ipc' = [ipc EXCEPT ![p] = TRUE]
BY DEF Shakes, Initialize, Connect, CompleteConnection, OnConnection, hook_vars, service_vars

LEMMA StepOfInterceptor ==
    ASSUME ShieldTypeOK, CallsInv, ShieldNext
    PROVE  [Next]_service_vars
<1>1. CASE Serve \/ Restart
  BY <1>1 DEF Serve, Restart, Next, Handler, Environment
<1>2. ASSUME NEW p \in Process, Shakes(p) \/ Kill(p)
      PROVE  [Next]_service_vars
  BY <1>2, ShakeStep DEF Kill, Next, Handler, Environment
<1>3. ASSUME NEW t \in Thread, SendPre(t)
      PROVE  [Next]_service_vars
  <2>1. calls[t] > 0
    BY <1>3 DEF SendPre, CallsInv
  <2>2. Send(PreMessage(t)) \/ UNCHANGED service_vars
    BY <1>3 DEF SendPre, SendAndWait, PreMessage
  <2> QED
    BY <2>1, <2>2, MessagesOfHooks DEF Next, Environment
<1>4. ASSUME NEW t \in Thread, SendPost(t)
      PROVE  [Next]_service_vars
  <2>1. calls[t] > 0
    BY <1>4 DEF SendPost, CallsInv
  <2>2. Send(PostMessage(t)) \/ UNCHANGED service_vars
    BY <1>4 DEF SendPost, SendAndWait, PostMessage
  <2> QED
    BY <2>1, <2>2, MessagesOfHooks DEF Next, Environment
<1>5. ASSUME NEW t \in Thread,
             \/ TakePre(t) \/ TimeoutPre(t) \/ Original(t)
             \/ CheckPost(t) \/ TakePost(t) \/ TimeoutPost(t) \/ Disconnect(t)
             \/ \E f \in CallsOf[t] : Enter(t, f)
      PROVE  UNCHANGED service_vars
  BY <1>5 DEF TakePre, TimeoutPre, Original, CheckPost, TakePost, TimeoutPost, Disconnect, Enter
<1> QED
  BY <1>1, <1>2, <1>3, <1>4, <1>5, ShieldCases

------------------------------------------------------------------------------
(* Type correctness of the hooks.                                           *)

\* The processes of the threads that hold a mutex, and the threads that died.
HoldersInv ==
    /\ \A p \in Process : ipc_mutex[p] # NoThread => ThreadProcess[ipc_mutex[p]] = p
    /\ \A t \in Thread : pc[t] = "dead" <=> ThreadProcess[t] \notin alive

\* The parts of ShieldTypeOK.
ControlType ==
    /\ pc \in [Thread -> Location]
    /\ call \in [Thread -> Writes \cup Reads]
    /\ calls \in [Thread -> 0 .. MaxCalls]
    /\ vouched \in [Thread -> BOOLEAN]
    /\ succeeded \in [Thread -> BOOLEAN]

SharedType ==
    /\ ipc_mutex \in [Process -> Thread \cup {NoThread}]
    /\ ipc \in [Process -> BOOLEAN]
    /\ handshake \in [Process -> Handshake]
    /\ connected \in [Process -> BOOLEAN]
    /\ discarded \in SUBSET Request
    /\ opened \in [Session -> Thread \cup {NoThread}]
    /\ content \in [Session -> Process \cup {NoWriter}]

Awaits(t) == pc[t] \in {"pre_wait", "post_wait"}

WaitersHold ==
    \A t \in Thread : pc[t] # "dead" => (Awaits(t) <=> ipc_mutex[ThreadProcess[t]] = t)

ConstructionHolds ==
    \A p \in Process : handshake[p] # "none" => ~ipc[p] /\ ipc_mutex[p] = NoThread

LEMMA TypeParts ==
    ShieldTypeOK <=> ControlType /\ SharedType /\ WaitersHold /\ ConstructionHolds
BY DEF ShieldTypeOK, ControlType, SharedType, WaitersHold, ConstructionHolds, Awaits

LEMMA ThreadFacts ==
    ASSUME NEW t \in Thread
    PROVE  ThreadProcess[t] \in Process /\ SessionOfThread(t) \in Session
  BY ShieldAssumption, InterceptorAssumption DEF SessionOfThread

\* The steps of a thread by where it goes.
Calls(t) == \E f \in CallsOf[t] : Enter(t, f)

\* It sends and waits.
Asks(t) ==
    /\ SendPre(t) \/ SendPost(t)
    /\ Awaits(t)'

\* It stops waiting, with an answer or without.
Takes(t) == TakePre(t) \/ TakePost(t)
GivesUp(t) == TimeoutPre(t) \/ TimeoutPost(t)

\* It goes on without the service.
GoesOn(t) ==
    \/ Original(t) \/ CheckPost(t) \/ Disconnect(t)
    \/ (SendPre(t) \/ SendPost(t)) /\ ~ipc[ThreadProcess[t]] /\ ~Awaits(t)'

LEMMA ThreadCases ==
    ASSUME ShieldTypeOK, ShieldNext
    PROVE  \/ Serve \/ Restart
           \/ \E p \in Process : Shakes(p) \/ Kill(p)
           \/ \E t \in Thread : Calls(t) \/ Asks(t) \/ Takes(t) \/ GivesUp(t) \/ GoesOn(t)
<1>1. ASSUME NEW t \in Thread, SendPre(t)
      PROVE  Asks(t) \/ GoesOn(t)
  <2>1. pc'[t] = "pre_wait" \/ (~ipc[ThreadProcess[t]] /\ pc'[t] = "original")
    BY <1>1 DEF SendPre, GoTo, ShieldTypeOK
  <2> QED
    BY <1>1, <2>1 DEF Asks, GoesOn, Awaits
<1>2. ASSUME NEW t \in Thread, SendPost(t)
      PROVE  Asks(t) \/ GoesOn(t)
  <2>1. pc'[t] = "post_wait" \/ (~ipc[ThreadProcess[t]] /\ pc'[t] = "idle")
    BY <1>2 DEF SendPost, GoTo, Return, ShieldTypeOK
  <2> QED
    BY <1>2, <2>1 DEF Asks, GoesOn, Awaits
<1> QED
  BY <1>1, <1>2, ShieldCases DEF Calls, Takes, GivesUp, GoesOn

\* A step of a thread changes where that thread is, and nothing of the others.
LEMMA StepOfThread ==
    ASSUME ShieldTypeOK, NEW t \in Thread,
           Calls(t) \/ Asks(t) \/ Takes(t) \/ GivesUp(t) \/ GoesOn(t)
    PROVE  /\ pc' \in [Thread -> Location]
           /\ pc[t] # "dead" /\ pc'[t] # "dead"
           /\ \A u \in Thread \ {t} : pc'[u] = pc[u]
           /\ alive' = alive
           /\ UNCHANGED <<ipc, handshake>>
           /\ pc'[t] # "idle" /\ pc[t] = "idle" => Calls(t)
<1> USE DEF Location, GoTo, Return
<1>1. pc \in [Thread -> Location]
  BY DEF ShieldTypeOK
<1>2. CASE Calls(t)
  <2>1. PICK f \in CallsOf[t] : Enter(t, f)
    BY <1>2 DEF Calls
  <2>2. /\ pc[t] = "idle"
        /\ \/ pc' = [pc EXCEPT ![t] = "pre"]
           \/ pc' = [pc EXCEPT ![t] = "original"]
        /\ alive' = alive /\ UNCHANGED <<ipc, handshake>>
    BY <2>1 DEF Enter, service_vars
  <2> QED
    BY <1>1, <1>2, <2>2
<1>3. CASE Asks(t)
  <2>1. CASE SendPre(t)
    BY <1>1, <2>1 DEF SendPre, SendAndWait, Send, service_vars
  <2>2. CASE SendPost(t)
    BY <1>1, <2>2 DEF SendPost, SendAndWait, Send, service_vars
  <2> QED
    BY <1>3, <2>1, <2>2 DEF Asks
<1>4. CASE Takes(t)
  <2>1. /\ \/ pc' = [pc EXCEPT ![t] = "idle"]
           \/ pc' = [pc EXCEPT ![t] = "original"]
        /\ pc[t] \in {"pre_wait", "post_wait"}
        /\ alive' = alive /\ UNCHANGED <<ipc, handshake>>
    BY <1>4 DEF Takes, TakePre, TakePost, TakeReply, service_vars
  <2> QED
    BY <1>1, <2>1
<1>5. CASE GivesUp(t)
  <2>1. /\ \/ pc' = [pc EXCEPT ![t] = "pre_disconnect"]
           \/ pc' = [pc EXCEPT ![t] = "post_disconnect"]
        /\ pc[t] \in {"pre_wait", "post_wait"}
        /\ alive' = alive /\ UNCHANGED <<ipc, handshake>>
    BY <1>5 DEF GivesUp, TimeoutPre, TimeoutPost, service_vars
  <2> QED
    BY <1>1, <2>1
<1>6. CASE GoesOn(t)
  <2>1. CASE Original(t)
    BY <1>1, <2>1 DEF Original, service_vars
  <2>2. CASE CheckPost(t)
    BY <1>1, <2>2 DEF CheckPost, service_vars
  <2>5. CASE Disconnect(t)
    BY <1>1, <2>5 DEF Disconnect, service_vars
  <2>3. CASE SendPre(t)
    BY <1>1, <2>3 DEF SendPre, SendAndWait, Send, service_vars
  <2>4. CASE SendPost(t)
    BY <1>1, <2>4 DEF SendPost, SendAndWait, Send, service_vars
  <2> QED
    BY <1>6, <2>1, <2>2, <2>3, <2>4, <2>5 DEF GoesOn
<1> QED
  BY <1>2, <1>3, <1>4, <1>5, <1>6

\* What it does to the mutex of its process.
LEMMA MutexOfThread ==
    ASSUME ShieldTypeOK, NEW t \in Thread
    PROVE  /\ Calls(t) \/ GoesOn(t) =>
                /\ ipc_mutex' = ipc_mutex
                /\ ~Awaits(t) /\ ~Awaits(t)'
           /\ Asks(t) =>
                /\ ~Awaits(t) /\ Awaits(t)'
                /\ ipc_mutex[ThreadProcess[t]] = NoThread
                /\ ipc_mutex' = [ipc_mutex EXCEPT ![ThreadProcess[t]] = t]
           /\ Takes(t) \/ GivesUp(t) =>
                /\ Awaits(t) /\ ~Awaits(t)'
                /\ ipc_mutex' = [ipc_mutex EXCEPT ![ThreadProcess[t]] = NoThread]
<1> USE DEF Awaits, GoTo, Return
<1>1. pc \in [Thread -> Location]
  BY DEF ShieldTypeOK
<1>2. ASSUME Calls(t)
      PROVE  ipc_mutex' = ipc_mutex /\ ~Awaits(t) /\ ~Awaits(t)'
  BY <1>1, <1>2 DEF Calls, Enter
<1>3. ASSUME GoesOn(t)
      PROVE  ipc_mutex' = ipc_mutex /\ ~Awaits(t) /\ ~Awaits(t)'
  <2>1. CASE Original(t)
    BY <1>1, <2>1 DEF Original
  <2>2. CASE CheckPost(t)
    BY <1>1, <2>2 DEF CheckPost
  <2>5. CASE Disconnect(t)
    BY <1>1, <2>5 DEF Disconnect
  <2>3. CASE SendPre(t) /\ ~ipc[ThreadProcess[t]] /\ ~Awaits(t)'
    BY <1>1, <2>3 DEF SendPre
  <2>4. CASE SendPost(t) /\ ~ipc[ThreadProcess[t]] /\ ~Awaits(t)'
    BY <1>1, <2>4 DEF SendPost
  <2> QED
    BY <1>3, <2>1, <2>2, <2>3, <2>4, <2>5 DEF GoesOn
<1>4. ASSUME Asks(t)
      PROVE  /\ ~Awaits(t) /\ Awaits(t)'
             /\ ipc_mutex[ThreadProcess[t]] = NoThread
             /\ ipc_mutex' = [ipc_mutex EXCEPT ![ThreadProcess[t]] = t]
  <2>1. CASE SendPre(t) /\ Awaits(t)'
    BY <1>1, <2>1 DEF SendPre, SendAndWait, MutexFree
  <2>2. CASE SendPost(t) /\ Awaits(t)'
    BY <1>1, <2>2 DEF SendPost, SendAndWait, MutexFree
  <2> QED
    BY <1>4, <2>1, <2>2 DEF Asks
<1>5. ASSUME Takes(t) \/ GivesUp(t)
      PROVE  /\ Awaits(t) /\ ~Awaits(t)'
             /\ ipc_mutex' = [ipc_mutex EXCEPT ![ThreadProcess[t]] = NoThread]
  BY <1>1, <1>5 DEF Takes, GivesUp, TakePre, TakePost, TakeReply, TimeoutPre, TimeoutPost,
                    Release
<1> QED
  BY <1>2, <1>3, <1>4, <1>5

LEMMA ControlTypeStep ==
    ASSUME ShieldTypeOK, ShieldNext
    PROVE  ControlType'
<1>0. ControlType
  BY TypeParts
<1>1. CASE Serve \/ Restart \/ \E p \in Process : Shakes(p)
  BY <1>0, <1>1, ShakeStep DEF Serve, Restart, client_vars, hook_vars, ControlType
<1>2. ASSUME NEW p \in Process, Kill(p)
      PROVE  ControlType'
  <2>1. pc' \in [Thread -> Location]
    BY <1>0, <1>2 DEF Kill, ControlType, Location
  <2> QED
    BY <1>0, <1>2, <2>1 DEF Kill, ControlType
<1>3. ASSUME NEW t \in Thread, Calls(t) \/ Asks(t) \/ Takes(t) \/ GivesUp(t) \/ GoesOn(t)
      PROVE  ControlType'
  <2>1. pc' \in [Thread -> Location]
    BY <1>3, StepOfThread
  <2>2. CASE Calls(t)
    <3>1. PICK f \in CallsOf[t] : Enter(t, f)
      BY <2>2 DEF Calls
    <3>2. f \in Writes \cup Reads
      BY ShieldAssumption
    <3>3. calls[t] \in Nat /\ MaxCalls \in Nat /\ calls[t] < MaxCalls
      BY <1>0, <3>1, ShieldAssumption DEF ControlType, Enter
    <3>4. calls' \in [Thread -> 0 .. MaxCalls]
      BY <1>0, <3>1, <3>3 DEF ControlType, Enter
    <3>5. call' \in [Thread -> Writes \cup Reads]
      BY <1>0, <3>1, <3>2 DEF ControlType, Enter
    <3>6. vouched' \in [Thread -> BOOLEAN] /\ succeeded' \in [Thread -> BOOLEAN]
      BY <1>0, <3>1 DEF ControlType, Enter
    <3> QED
      BY <2>1, <3>4, <3>5, <3>6 DEF ControlType
  <2>3. CASE ~Calls(t)
    <3>1. UNCHANGED <<call, calls>>
      BY <1>3, <2>3 DEF Asks, Takes, GivesUp, GoesOn, SendPre, SendPost, TakePre, TakePost,
                        TimeoutPre, TimeoutPost, Disconnect, Original, CheckPost
    <3>2. vouched' \in [Thread -> BOOLEAN]
      <4>1. vouched' = vouched \/ vouched' = [vouched EXCEPT ![t] = TRUE]
        BY <1>3, <2>3 DEF Asks, Takes, GivesUp, GoesOn, SendPre, SendPost, TakePre, TakePost,
                          TimeoutPre, TimeoutPost, Disconnect, Original, CheckPost
      <4> QED
        BY <1>0, <4>1 DEF ControlType
    <3>3. succeeded' \in [Thread -> BOOLEAN]
      <4>1. succeeded' = succeeded \/ succeeded' = [succeeded EXCEPT ![t] = TRUE]
        BY <1>3, <2>3 DEF Asks, Takes, GivesUp, GoesOn, SendPre, SendPost, TakePre, TakePost,
                          TimeoutPre, TimeoutPost, Disconnect, Original, CheckPost
      <4> QED
        BY <1>0, <4>1 DEF ControlType
    <3> QED
      BY <1>0, <2>1, <3>1, <3>2, <3>3 DEF ControlType
  <2> QED
    BY <2>2, <2>3
<1> QED
  BY <1>1, <1>2, <1>3, ThreadCases

\* The requests whose answers are not read yet are requests.
LEMMA UnreadAreRequests ==
    ASSUME TypeOK, NEW p
    PROVE  \A x \in Unread(p) : x \in replies /\ x.request \in Request
  BY DEF TypeOK, Unread, Reply

LEMMA DiscardedType ==
    ASSUME TypeOK, ShieldTypeOK, ShieldNext
    PROVE  discarded' \in SUBSET Request
<1>1. discarded \in SUBSET Request
  BY DEF ShieldTypeOK
<1>2. ASSUME NEW t \in Thread, NEW m, SendAndWait(t, m)
      PROVE  discarded' \in SUBSET Request
  BY <1>1, <1>2, UnreadAreRequests DEF SendAndWait
<1>3. ASSUME NEW t \in Thread, NEW x, TakeReply(t, x)
      PROVE  discarded' \in SUBSET Request
  BY <1>1, <1>3, UnreadAreRequests DEF TakeReply
<1>4. CASE UNCHANGED discarded
  BY <1>1, <1>4
<1>5. ASSUME NEW t \in Thread, SendPre(t) \/ SendPost(t) \/ TakePre(t) \/ TakePost(t)
      PROVE  discarded' \in SUBSET Request
  BY <1>2, <1>3, <1>4, <1>5 DEF SendPre, SendPost, TakePre, TakePost
<1>6. ASSUME NEW t \in Thread,
             \/ TimeoutPre(t) \/ TimeoutPost(t) \/ Original(t) \/ CheckPost(t)
             \/ Disconnect(t)
             \/ \E f \in CallsOf[t] : Enter(t, f)
      PROVE  UNCHANGED discarded
  BY <1>6 DEF TimeoutPre, TimeoutPost, Disconnect, Original, CheckPost, Enter
<1>7. CASE Serve \/ Restart \/ \E p \in Process : Shakes(p) \/ Kill(p)
  BY <1>4, <1>7, ShakeStep DEF Serve, Restart, Kill, client_vars, hook_vars
<1> QED
  BY <1>4, <1>5, <1>6, <1>7, ShieldCases

LEMMA SharedTypeStep ==
    ASSUME TypeOK, ShieldTypeOK, ShieldNext
    PROVE  SharedType'
<1>0. SharedType /\ discarded' \in SUBSET Request
  BY TypeParts, DiscardedType
<1>1. CASE Serve \/ Restart
  <2>1. handshake' \in [Process -> Handshake]
    BY <1>0, <1>1 DEF Serve, Restart, client_vars, SharedType, Handshake
  <2> QED
    BY <1>0, <1>1, <2>1 DEF Serve, Restart, client_vars, hook_vars, SharedType
<1>2. ASSUME NEW p \in Process, Shakes(p)
      PROVE  SharedType'
  <2>1. ipc' \in [Process -> BOOLEAN]
    BY <1>0, <1>2, ShakeStep DEF SharedType
  <2>2. handshake' \in [Process -> Handshake]
    BY <1>0, <1>2 DEF Shakes, Initialize, Connect, CompleteConnection, SharedType, Handshake
  <2> QED
    BY <1>0, <1>2, <2>1, <2>2, ShakeStep DEF SharedType
<1>3. ASSUME NEW p \in Process, Kill(p)
      PROVE  SharedType'
  <2>1. opened' \in [Session -> Thread \cup {NoThread}]
    BY <1>0, <1>3 DEF Kill, SharedType
  <2> QED
    BY <1>0, <1>3, <2>1 DEF Kill, SharedType
<1>4. ASSUME NEW t \in Thread, Calls(t) \/ Asks(t) \/ Takes(t) \/ GivesUp(t) \/ GoesOn(t)
      PROVE  SharedType'
  <2>1. ThreadProcess[t] \in Process /\ SessionOfThread(t) \in Session
    BY ThreadFacts
  <2>2. ipc_mutex' \in [Process -> Thread \cup {NoThread}]
    BY <1>0, <1>4, <2>1, MutexOfThread DEF SharedType
  <2>3. UNCHANGED <<ipc, handshake>>
    BY <1>4, StepOfThread
  <2>4. connected' = connected \/ connected' = [connected EXCEPT ![ThreadProcess[t]] = FALSE]
    BY <1>4 DEF Calls, Asks, Takes, GivesUp, GoesOn, SendPre, SendPost, TakePre, TakePost,
                TimeoutPre, TimeoutPost, Disconnect, Original, CheckPost, Enter
  <2>5. connected' \in [Process -> BOOLEAN]
    BY <1>0, <2>4 DEF SharedType
  <2>6. \/ opened' = opened
        \/ opened' = [opened EXCEPT ![SessionOfThread(t)] = t]
        \/ opened' = [s \in Session |-> IF opened[s] = t THEN NoThread ELSE opened[s]]
    BY <1>4 DEF Calls, Asks, Takes, GivesUp, GoesOn, SendPre, SendPost, TakePre, TakePost,
                TimeoutPre, TimeoutPost, Disconnect, Original, CheckPost, Enter, Return
  <2>7. opened' \in [Session -> Thread \cup {NoThread}]
    BY <1>0, <2>6 DEF SharedType
  <2>8. \/ content' = content
        \/ content' = [content EXCEPT ![SessionOfThread(t)] = ThreadProcess[t]]
    BY <1>4 DEF Calls, Asks, Takes, GivesUp, GoesOn, SendPre, SendPost, TakePre, TakePost,
                TimeoutPre, TimeoutPost, Disconnect, Original, CheckPost, Enter
  <2>9. content' \in [Session -> Process \cup {NoWriter}]
    BY <1>0, <2>1, <2>8 DEF SharedType
  <2> QED
    BY <1>0, <2>2, <2>3, <2>5, <2>7, <2>9 DEF SharedType
<1> QED
  BY <1>1, <1>2, <1>3, <1>4, ThreadCases

LEMMA HoldersStep ==
    ASSUME ShieldTypeOK, HoldersInv, ShieldNext
    PROVE  HoldersInv' /\ WaitersHold'
<1>0. /\ SharedType /\ WaitersHold
      /\ \A p \in Process : ipc_mutex[p] # NoThread => ThreadProcess[ipc_mutex[p]] = p
      /\ \A t \in Thread : pc[t] = "dead" <=> ThreadProcess[t] \notin alive
      /\ NoThread \notin Thread
  BY TypeParts, ShieldAssumption DEF HoldersInv
<1>1. CASE Serve \/ Restart \/ \E p \in Process : Shakes(p)
  <2>1. UNCHANGED <<pc, ipc_mutex>>
    BY <1>1, ShakeStep DEF Serve, Restart, client_vars, hook_vars
  <2>2. alive' = alive
    BY <1>1, ShakeStep DEF Serve, Restart, OnCopyBegin, OnCopyEnd, OnPaste, ServiceDown, ServiceUp
  <2> QED
    BY <1>0, <2>1, <2>2 DEF HoldersInv, WaitersHold, Awaits
<1>2. ASSUME NEW p \in Process, Kill(p)
      PROVE  HoldersInv' /\ WaitersHold'
  <2>1. \A t \in Thread : pc'[t] = IF ThreadProcess[t] = p THEN "dead" ELSE pc[t]
    BY <1>2 DEF Kill
  <2>2. ipc_mutex' = ipc_mutex /\ alive' = alive \ {p}
    BY <1>2 DEF Kill, ProcessExit
  <2> QED
    BY <1>0, <2>1, <2>2 DEF HoldersInv, WaitersHold, Awaits
<1>3. ASSUME NEW t \in Thread, Calls(t) \/ Asks(t) \/ Takes(t) \/ GivesUp(t) \/ GoesOn(t)
      PROVE  HoldersInv' /\ WaitersHold'
  <2>1. /\ pc[t] # "dead" /\ pc'[t] # "dead" /\ alive' = alive
        /\ \A u \in Thread \ {t} : pc'[u] = pc[u]
    BY <1>3, StepOfThread
  <2>2. ThreadProcess[t] \in Process
    BY ThreadFacts
  <2>3. \A u \in Thread : pc'[u] = "dead" <=> ThreadProcess[u] \notin alive'
    BY <1>0, <2>1
  <2>4. CASE ipc_mutex' = ipc_mutex /\ ~Awaits(t) /\ ~Awaits(t)'
    BY <1>0, <2>1, <2>3, <2>4 DEF HoldersInv, WaitersHold, Awaits
  <2>5. CASE /\ ~Awaits(t) /\ Awaits(t)'
             /\ ipc_mutex[ThreadProcess[t]] = NoThread
             /\ ipc_mutex' = [ipc_mutex EXCEPT ![ThreadProcess[t]] = t]
    <3>1. \A p \in Process : ipc_mutex'[p] = IF p = ThreadProcess[t] THEN t ELSE ipc_mutex[p]
      BY <1>0, <2>5 DEF SharedType
    <3>2. HoldersInv'
      BY <1>0, <2>3, <3>1 DEF HoldersInv
    <3>3. ASSUME NEW u \in Thread, pc'[u] # "dead"
          PROVE  Awaits(u)' <=> ipc_mutex'[ThreadProcess[u]] = u
      <4>1. CASE u = t
        BY <2>2, <2>5, <3>1, <4>1
      <4>2. CASE u # t
        <5>1. Awaits(u)' <=> Awaits(u)
          BY <2>1, <4>2 DEF Awaits
        <5>2. Awaits(u) <=> ipc_mutex[ThreadProcess[u]] = u
          BY <1>0, <2>1, <3>3, <4>2 DEF WaitersHold
        <5> QED
          BY <1>0, <2>5, <3>1, <4>2, <5>1, <5>2, ThreadFacts
      <4> QED
        BY <4>1, <4>2
    <3> QED
      BY <3>2, <3>3 DEF WaitersHold
  <2>6. CASE /\ Awaits(t) /\ ~Awaits(t)'
             /\ ipc_mutex' = [ipc_mutex EXCEPT ![ThreadProcess[t]] = NoThread]
    <3>1. \A p \in Process :
             ipc_mutex'[p] = IF p = ThreadProcess[t] THEN NoThread ELSE ipc_mutex[p]
      BY <1>0, <2>6 DEF SharedType
    <3>2. HoldersInv'
      BY <1>0, <2>3, <3>1 DEF HoldersInv
    <3>3. ASSUME NEW u \in Thread, pc'[u] # "dead"
          PROVE  Awaits(u)' <=> ipc_mutex'[ThreadProcess[u]] = u
      <4>0. ipc_mutex[ThreadProcess[t]] = t
        BY <1>0, <2>1, <2>6 DEF WaitersHold
      <4>1. CASE u = t
        BY <1>0, <2>2, <2>6, <3>1, <4>1
      <4>2. CASE u # t
        <5>1. Awaits(u)' <=> Awaits(u)
          BY <2>1, <4>2 DEF Awaits
        <5>2. Awaits(u) <=> ipc_mutex[ThreadProcess[u]] = u
          BY <1>0, <2>1, <3>3, <4>2 DEF WaitersHold
        <5> QED
          BY <1>0, <3>1, <4>0, <4>2, <5>1, <5>2, ThreadFacts
      <4> QED
        BY <4>1, <4>2
    <3> QED
      BY <3>2, <3>3 DEF WaitersHold
  <2> QED
    BY <1>3, <2>4, <2>5, <2>6, MutexOfThread
<1> QED
  BY <1>1, <1>2, <1>3, ThreadCases

LEMMA ConstructionStep ==
    ASSUME ShieldTypeOK, ShieldNext
    PROVE  ConstructionHolds'
<1>0. SharedType /\ ConstructionHolds
  BY TypeParts
<1>1. CASE Serve
  BY <1>0, <1>1 DEF Serve, client_vars, hook_vars, ConstructionHolds
<1>2. CASE Restart
  <2>1. \A p \in Process : handshake'[p] # "none" => handshake[p] # "none"
    BY <1>0, <1>2 DEF Restart, SharedType
  <2> QED
    BY <1>0, <1>2, <2>1 DEF Restart, hook_vars, ConstructionHolds
<1>3. ASSUME NEW p \in Process, Shakes(p)
      PROVE  ConstructionHolds'
  <2>1. \A q \in Process \ {p} : handshake'[q] = handshake[q] /\ ipc'[q] = ipc[q]
    BY <1>0, <1>3 DEF Shakes, Initialize, Connect, CompleteConnection, SharedType, hook_vars
  <2>2. handshake'[p] # "none" => ~ipc'[p] /\ ipc_mutex[p] = NoThread
    BY <1>0, <1>3 DEF Shakes, Initialize, Connect, CompleteConnection, MutexFree, SharedType,
                      ConstructionHolds, hook_vars
  <2> QED
    BY <1>0, <1>3, <2>1, <2>2, ShakeStep DEF ConstructionHolds
<1>4. ASSUME NEW p \in Process, Kill(p)
      PROVE  ConstructionHolds'
  BY <1>0, <1>4 DEF Kill, ConstructionHolds
<1>5. ASSUME NEW t \in Thread, Calls(t) \/ Asks(t) \/ Takes(t) \/ GivesUp(t) \/ GoesOn(t)
      PROVE  ConstructionHolds'
  <2>1. UNCHANGED <<ipc, handshake>> /\ ThreadProcess[t] \in Process
    BY <1>5, StepOfThread, ThreadFacts
  <2>2. CASE Asks(t)
    <3>1. handshake[ThreadProcess[t]] = "none"
      BY <2>2 DEF Asks, SendPre, SendPost, MutexFree
    <3> QED
      BY <1>0, <2>1, <2>2, <3>1, MutexOfThread DEF ConstructionHolds, SharedType
  <2>3. CASE ~Asks(t)
    BY <1>0, <1>5, <2>1, <2>3, MutexOfThread DEF ConstructionHolds, SharedType
  <2> QED
    BY <2>2, <2>3
<1> QED
  BY <1>1, <1>2, <1>3, <1>4, <1>5, ThreadCases

LEMMA CallsStep ==
    ASSUME ShieldTypeOK, CallsInv, ShieldNext
    PROVE  CallsInv'
<1>1. CASE Serve \/ Restart \/ \E p \in Process : Shakes(p)
  BY <1>1, ShakeStep DEF Serve, Restart, client_vars, hook_vars, CallsInv
<1>2. ASSUME NEW p \in Process, Kill(p)
      PROVE  CallsInv'
  BY <1>2 DEF Kill, CallsInv
<1>3. ASSUME NEW t \in Thread, Calls(t)
      PROVE  CallsInv'
  <2>1. PICK f \in CallsOf[t] : Enter(t, f)
    BY <1>3 DEF Calls
  <2>2. calls' = [calls EXCEPT ![t] = @ + 1] /\ calls \in [Thread -> 0 .. MaxCalls]
    BY <2>1 DEF Enter, ShieldTypeOK
  <2>3. calls'[t] > 0 /\ \A u \in Thread \ {t} : calls'[u] = calls[u]
    BY <2>2, ShieldAssumption
  <2> QED
    BY <1>3, <2>3, StepOfThread DEF CallsInv
<1>4. ASSUME NEW t \in Thread, ~Calls(t), Asks(t) \/ Takes(t) \/ GivesUp(t) \/ GoesOn(t)
      PROVE  CallsInv'
  <2>1. calls' = calls
    BY <1>4 DEF Asks, Takes, GivesUp, GoesOn, SendPre, SendPost, TakePre, TakePost,
                TimeoutPre, TimeoutPost, Disconnect, Original, CheckPost
  <2> QED
    BY <1>4, <2>1, StepOfThread DEF CallsInv
<1> QED
  BY <1>1, <1>2, <1>3, <1>4, ThreadCases

------------------------------------------------------------------------------
(* The messages of the hooks.                                               *)

\* Requests are numbered in the order of the calls, the odd ones are asked before
\* a call, and only a process with an IPC object sends.
SentInv ==
    \A m \in sent :
        /\ m.request[2] <= 2 * calls[m.request[1]]
        /\ m.type # "CopyEnd" => \E k \in Nat : m.request[2] = 2 * k - 1
        /\ m.type = "CopyBegin" /\ m.request = Before(m.request[1]) =>
              call[m.request[1]] \in Writes
        /\ ipc[ThreadProcess[m.request[1]]]

LEMMA RequestParts ==
    ASSUME NEW r \in Request
    PROVE  /\ r[1] \in Thread /\ r[2] \in Nat
           /\ r = <<r[1], r[2]>> /\ ProcessOf[r] = ThreadProcess[r[1]]
  BY ShieldAssumption

\* What a thread that asks sends.
LEMMA AskSends ==
    ASSUME ShieldTypeOK, CallsInv, NEW t \in Thread, Asks(t)
    PROVE  \E m \in Message :
              /\ m \in {PreMessage(t), PostMessage(t)}
              /\ Send(m) /\ SendAndWait(t, m) /\ ipc[ThreadProcess[t]]
              /\ UNCHANGED <<call, calls, connected, ipc>>
              /\ m.request = Current(t)'
              /\ pc'[t] = "post_wait" => pc[t] = "post" /\ m = PostMessage(t)
              /\ pc'[t] = "pre_wait" => pc[t] = "pre"
              /\ pc'[t] \in {"pre_wait", "post_wait"}
<1>1. pc \in [Thread -> Location]
  BY DEF ShieldTypeOK
<1>2. CASE SendPre(t) /\ Awaits(t)'
  <2>1. calls[t] > 0
    BY <1>2 DEF SendPre, CallsInv
  <2>2. SendAndWait(t, PreMessage(t)) /\ pc'[t] = "pre_wait" /\ ipc[ThreadProcess[t]]
    BY <1>1, <1>2 DEF SendPre, GoTo, Awaits, PreMessage
  <2>3. UNCHANGED <<call, calls, connected, ipc>> /\ pc[t] = "pre"
    BY <1>2 DEF SendPre
  <2>4. PreMessage(t).request = Current(t)'
    BY <2>2, <2>3 DEF PreMessage, Current, Before
  <2> QED
    BY <2>1, <2>2, <2>3, <2>4, MessagesOfHooks DEF SendAndWait
<1>3. CASE SendPost(t) /\ Awaits(t)'
  <2>1. calls[t] > 0
    BY <1>3 DEF SendPost, CallsInv
  <2>2. SendAndWait(t, PostMessage(t)) /\ pc'[t] = "post_wait" /\ ipc[ThreadProcess[t]]
    BY <1>1, <1>3 DEF SendPost, GoTo, Return, Awaits, PostMessage
  <2>3. UNCHANGED <<call, calls, connected, ipc>> /\ pc[t] = "post"
    BY <1>3 DEF SendPost
  <2>4. PostMessage(t).request = Current(t)'
    BY <2>2, <2>3 DEF PostMessage, Current, After
  <2> QED
    BY <2>1, <2>2, <2>3, <2>4, MessagesOfHooks DEF SendAndWait
<1> QED
  BY <1>2, <1>3 DEF Asks

\* What a thread that stops waiting, or does not wait, leaves alone.
LEMMA OthersSendNothing ==
    ASSUME NEW t \in Thread, ~Awaits(t)', Calls(t) \/ Takes(t) \/ GivesUp(t) \/ GoesOn(t)
    PROVE  UNCHANGED service_vars
<1>1. ASSUME SendPre(t), ~ipc[ThreadProcess[t]]
      PROVE  UNCHANGED service_vars
  BY <1>1 DEF SendPre
<1>2. ASSUME SendPost(t), ~ipc[ThreadProcess[t]]
      PROVE  UNCHANGED service_vars
  BY <1>2 DEF SendPost
<1> QED
  BY <1>1, <1>2 DEF Calls, Takes, GivesUp, GoesOn, TakePre, TakePost, TimeoutPre, TimeoutPost,
                    Disconnect, Original, CheckPost, Enter

LEMMA CallsUnchanged ==
    ASSUME NEW t \in Thread, Asks(t) \/ Takes(t) \/ GivesUp(t) \/ GoesOn(t)
    PROVE  UNCHANGED <<call, calls>>
  BY DEF Asks, Takes, GivesUp, GoesOn, SendPre, SendPost, TakePre, TakePost, TimeoutPre,
         TimeoutPost, Disconnect, Original, CheckPost

\* What the service and the processes do, as the hooks see it.
LEMMA ServiceSteps ==
    ASSUME Serve \/ Restart
    PROVE  /\ UNCHANGED <<sent, alive, hook_vars>>
           /\ replies \subseteq replies'
           /\ inbox' \subseteq inbox
  BY DEF Serve, Restart, client_vars, OnCopyBegin, OnCopyEnd, EndWithoutCopy, EndCopy,
         NullConnectionInDrain, OnPaste, ServiceDown, ServiceUp, Take

LEMMA SentStep ==
    ASSUME TypeOK, ShieldTypeOK, CallsInv, SentInv, ShieldNext
    PROVE  SentInv'
<1>0. /\ \A m \in sent : m.request[1] \in Thread /\ m.request[2] \in Nat
      /\ \A t \in Thread : calls[t] \in Nat
  <2>1. \A m \in sent : m.request \in Request
    BY MessageFields DEF TypeOK
  <2>2. \A t \in Thread : calls[t] \in 0 .. MaxCalls
    BY DEF ShieldTypeOK
  <2> QED
    BY <2>1, <2>2, RequestParts, ShieldAssumption
<1>1. CASE Serve \/ Restart
  BY <1>1, ServiceSteps DEF hook_vars, SentInv, Before
<1>2. ASSUME NEW p \in Process, Shakes(p) \/ Kill(p)
      PROVE  SentInv'
  <2>1. UNCHANGED <<sent, call, calls>>
    BY <1>2, ShakeStep DEF Kill, ProcessExit
  <2>2. \A q \in Process : ipc[q] => ipc'[q]
    BY <1>2, ShakeStep DEF Kill, ShieldTypeOK
  <2> QED
    BY <1>0, <2>1, <2>2, ThreadFacts DEF SentInv, Before
<1>3. ASSUME NEW t \in Thread, Calls(t)
      PROVE  SentInv'
  <2>1. PICK f \in CallsOf[t] : Enter(t, f)
    BY <1>3 DEF Calls
  <2>2. sent' = sent /\ ipc' = ipc
    BY <2>1 DEF Enter, service_vars
  <2>3. \A u \in Thread : /\ calls'[u] = IF u = t THEN calls[t] + 1 ELSE calls[u]
                          /\ u # t => call'[u] = call[u]
    BY <2>1 DEF Enter, ShieldTypeOK
  <2> SUFFICES ASSUME NEW m \in sent
               PROVE  /\ m.request[2] <= 2 * calls'[m.request[1]]
                      /\ m.request = Before(m.request[1])' /\ m.request[1] = t => FALSE
    BY <1>0, <2>2, <2>3 DEF SentInv, Before
  <2>4. m.request[2] <= 2 * calls[m.request[1]]
    BY DEF SentInv
  <2>5. m.request[2] <= 2 * calls'[m.request[1]]
    BY <1>0, <2>3, <2>4
  <2>6. ASSUME m.request = Before(m.request[1])', m.request[1] = t
        PROVE  FALSE
    <3>1. m.request[2] = 2 * calls'[t] - 1
      BY <2>6 DEF Before
    <3> QED
      BY <1>0, <2>3, <2>4, <2>6, <3>1
  <2> QED
    BY <2>5, <2>6
<1>4. ASSUME NEW t \in Thread, Asks(t)
      PROVE  SentInv'
  <2>1. PICK m \in Message :
              /\ m \in {PreMessage(t), PostMessage(t)}
              /\ Send(m) /\ ipc[ThreadProcess[t]]
              /\ UNCHANGED <<call, calls, ipc>>
    BY <1>4, AskSends
  <2>2. sent' = sent \cup {m}
    BY <2>1 DEF Send
  <2>3. m.request[1] = t /\ m.request[2] <= 2 * calls[t]
    BY <1>0, <2>1 DEF PreMessage, PostMessage, Before, After
  <2>4. m.type # "CopyEnd" => m.request[2] = 2 * calls[t] - 1
    BY <2>1 DEF PreMessage, PostMessage, Before
  <2>5. m.type = "CopyBegin" => call[t] \in Writes
    BY <2>1 DEF PreMessage, PostMessage
  <2> QED
    BY <1>0, <2>1, <2>2, <2>3, <2>4, <2>5 DEF SentInv, Before
<1>5. ASSUME NEW t \in Thread, Takes(t) \/ GivesUp(t) \/ GoesOn(t)
      PROVE  SentInv'
  <2>1. UNCHANGED <<sent, call, calls, ipc>>
    BY <1>5, OthersSendNothing, MutexOfThread, CallsUnchanged, StepOfThread DEF service_vars
  <2> QED
    BY <2>1 DEF SentInv, Before
<1> QED
  BY <1>1, <1>2, <1>3, <1>4, <1>5, ThreadCases

------------------------------------------------------------------------------
(* The mutex of a process keeps one of its requests under way.              *)

\* What was discarded was answered.
DiscardedInv == \A r \in discarded : Replied(r)

\* As long as a process lives and no wait of it timed out, the answers to
\* its requests were all read, but for the one that is awaited.
UnderWay(p, r) == ipc_mutex[p] \in Thread /\ r = Current(ipc_mutex[p])

PendingInv ==
    \A p \in Process : p \in alive /\ ~GaveUp(p) =>
        \A m \in sent :
            ProcessOf[m.request] = p => m.request \in discarded \/ UnderWay(p, m.request)

\* The answer a thread takes is the one it waits for.
LEMMA AnswerIsItsOwn ==
    ASSUME TypeOK, ShieldTypeOK, HoldersInv, QueueInv, ReplyInv, PendingInv,
           NEW t \in Thread, Awaits(t), ~GaveUp(ThreadProcess[t]),
           NEW x \in Unread(ThreadProcess[t])
    PROVE  x.request = Current(t)
<1> DEFINE p == ThreadProcess[t]
<1>1. p \in Process /\ p \in alive
  BY ThreadFacts DEF HoldersInv, Awaits
<1>2. ipc_mutex[p] = t
  BY TypeParts DEF WaitersHold, Awaits
<1>3. ProcessOf[x.request] = p /\ x.request \notin discarded /\ x \in replies
  BY DEF Unread
<1>4. PICK m \in sent : m.request = x.request
  BY <1>3 DEF ReplyInv, RepliesSettled
<1> QED
  BY <1>1, <1>2, <1>3, <1>4 DEF PendingInv, UnderWay

\* Who gave up on the service does so for good, and a thread whose wait times out
\* makes its process give up.
LEMMA GivingUpLasts ==
    ASSUME ShieldTypeOK, HoldersInv, ShieldNext, NEW p \in Process, GaveUp(p)
    PROVE  p \in alive' => GaveUp(p)'
<1>0. pc \in [Thread -> Location] /\ connected \in [Process -> BOOLEAN]
  BY DEF ShieldTypeOK
<1>1. CASE Serve \/ Restart
  BY <1>1, ServiceSteps DEF hook_vars, GaveUp
<1>2. ASSUME NEW q \in Process, Shakes(q)
      PROVE  GaveUp(p)'
  BY <1>2, ShakeStep DEF GaveUp
<1>3. ASSUME NEW q \in Process, Kill(q)
      PROVE  p \in alive' => GaveUp(p)'
  <2>1. CASE q = p
    BY <1>3, <2>1 DEF Kill, ProcessExit
  <2>2. CASE q # p
    <3>1. \A t \in Thread : ThreadProcess[t] = p => pc'[t] = pc[t]
      BY <1>3, <2>2 DEF Kill
    <3> QED
      BY <1>3, <3>1 DEF Kill, GaveUp
  <2> QED
    BY <2>1, <2>2
<1>4. ASSUME NEW t \in Thread, Calls(t) \/ Asks(t) \/ Takes(t) \/ GivesUp(t) \/ GoesOn(t)
      PROVE  GaveUp(p)'
  <2>1. \A u \in Thread \ {t} : pc'[u] = pc[u]
    BY <1>4, StepOfThread
  <2>2. CASE pc[t] \in {"pre_disconnect", "post_disconnect"}
    <3>1. Disconnect(t)
      BY <1>4, <2>2 DEF Calls, Asks, Takes, GivesUp, GoesOn, Enter, SendPre, SendPost, TakePre,
                        TakePost, TimeoutPre, TimeoutPost, Original, CheckPost
    <3>2. connected' = [connected EXCEPT ![ThreadProcess[t]] = FALSE]
      BY <3>1 DEF Disconnect
    <3>3. ThreadProcess[t] = p => ~connected'[p]
      BY <1>0, <3>2
    <3>4. ~connected[p] => ~connected'[p]
      BY <1>0, <3>2
    <3> QED
      BY <2>1, <3>3, <3>4 DEF GaveUp
  <2>3. CASE pc[t] \notin {"pre_disconnect", "post_disconnect"}
    <3>1. connected' = connected
      BY <1>4, <2>3 DEF Calls, Asks, Takes, GivesUp, GoesOn, SendPre, SendPost, TakePre, TakePost,
                        TimeoutPre, TimeoutPost, Disconnect, Original, CheckPost, Enter
    <3> QED
      BY <2>1, <2>3, <3>1 DEF GaveUp
  <2> QED
    BY <2>2, <2>3
<1> QED
  BY <1>1, <1>2, <1>3, <1>4, ThreadCases

LEMMA TimeoutGivesUp ==
    ASSUME ShieldTypeOK, NEW t \in Thread, GivesUp(t)
    PROVE  GaveUp(ThreadProcess[t])'
BY DEF ShieldTypeOK, GivesUp, TimeoutPre, TimeoutPost, GoTo, GaveUp

LEMMA DiscardedStep ==
    ASSUME DiscardedInv, ShieldNext, ShieldTypeOK
    PROVE  DiscardedInv'
<1>1. CASE Serve \/ Restart
  BY <1>1, ServiceSteps DEF hook_vars, DiscardedInv, Replied
<1>2. CASE \E p \in Process : Shakes(p) \/ Kill(p)
  BY <1>2, ShakeStep DEF Kill, ProcessExit, DiscardedInv, Replied
<1>3. ASSUME NEW t \in Thread, NEW m, SendAndWait(t, m)
      PROVE  DiscardedInv'
  BY <1>3 DEF SendAndWait, Send, Unread, DiscardedInv, Replied
<1>4. ASSUME NEW t \in Thread, SendPre(t) \/ SendPost(t)
      PROVE  DiscardedInv'
  <2>1. CASE UNCHANGED <<service_vars, discarded>>
    BY <2>1 DEF service_vars, DiscardedInv, Replied
  <2> QED
    BY <1>3, <1>4, <2>1 DEF SendPre, SendPost
<1>5. ASSUME NEW t \in Thread, Takes(t)
      PROVE  DiscardedInv'
  <2>1. replies' = replies
    BY <1>5 DEF Takes, TakePre, TakePost, service_vars
  <2>2. PICK x \in replies : discarded' = discarded \cup {x.request}
    BY <1>5 DEF Takes, TakePre, TakePost, TakeReply
  <2> QED
    BY <2>1, <2>2 DEF DiscardedInv, Replied
<1>6. ASSUME NEW t \in Thread,
             Calls(t) \/ GivesUp(t) \/ Original(t) \/ CheckPost(t) \/ Disconnect(t)
      PROVE  DiscardedInv'
  BY <1>6 DEF Calls, GivesUp, TimeoutPre, TimeoutPost, Disconnect, Original, CheckPost, Enter,
              service_vars, DiscardedInv, Replied
<1> QED
  BY <1>1, <1>2, <1>4, <1>5, <1>6, ThreadCases DEF Asks, GoesOn

LEMMA PendingStep ==
    ASSUME TypeOK, QueueInv, ReplyInv, ShieldTypeOK, HoldersInv, CallsInv, PendingInv, ShieldNext
    PROVE  PendingInv'
<1> USE DEF PendingInv, UnderWay
<1>0. /\ SharedType /\ WaitersHold /\ NoThread \notin Thread
      /\ \A p \in Process : ipc_mutex[p] # NoThread => ThreadProcess[ipc_mutex[p]] = p
      /\ \A t \in Thread : pc[t] = "dead" <=> ThreadProcess[t] \notin alive
  BY TypeParts, ShieldAssumption DEF HoldersInv
<1>1. CASE Serve \/ Restart
  BY <1>1, ServiceSteps DEF hook_vars, GaveUp, Current, Before, After
<1>2. ASSUME NEW p \in Process, Shakes(p)
      PROVE  PendingInv'
  BY <1>2, ShakeStep DEF GaveUp, Current, Before, After
<1>3. ASSUME NEW p \in Process, Kill(p)
      PROVE  PendingInv'
  <2>1. /\ UNCHANGED <<sent, discarded, ipc_mutex, calls>>
        /\ alive' = alive \ {p}
        /\ \A t \in Thread : ThreadProcess[t] # p => pc'[t] = pc[t]
    BY <1>3 DEF Kill, ProcessExit
  <2>2. \A q \in Process : q # p /\ ipc_mutex[q] \in Thread =>
           Current(ipc_mutex[q])' = Current(ipc_mutex[q])
    BY <1>0, <2>1 DEF Current, Before, After
  <2> QED
    BY <2>1, <2>2, GivingUpLasts
<1>4. ASSUME NEW t \in Thread, Calls(t) \/ GoesOn(t) \/ GivesUp(t) \/ Takes(t) \/ Asks(t)
      PROVE  PendingInv'
  <2>0. /\ ThreadProcess[t] \in Process /\ pc[t] # "dead"
        /\ \A u \in Thread \ {t} : pc'[u] = pc[u]
        /\ alive' = alive
    BY <1>4, ThreadFacts, StepOfThread
  <2>1. \A u \in Thread \ {t} : calls'[u] = calls[u]
    BY <1>4, CallsUnchanged DEF Calls, Enter, ShieldTypeOK
  <2>2. \A u \in Thread \ {t} : Current(u)' = Current(u)
    BY <2>0, <2>1 DEF Current, Before, After
  <2>3. CASE Calls(t) \/ GoesOn(t)
    <3>1. ipc_mutex' = ipc_mutex /\ ~Awaits(t) /\ ~Awaits(t)'
      BY <2>3, MutexOfThread
    <3>2. \A p \in Process : ipc_mutex[p] # t
      BY <1>0, <2>0, <3>1 DEF WaitersHold
    <3>3. UNCHANGED <<sent, discarded>>
      BY <2>3, <3>1, OthersSendNothing
         DEF Calls, GoesOn, Enter, Original, CheckPost, Disconnect, SendPre, SendPost,
             service_vars
    <3> QED
      BY <2>0, <2>2, <3>1, <3>2, <3>3, GivingUpLasts
  <2>4. CASE GivesUp(t)
    <3>1. ipc_mutex' = [ipc_mutex EXCEPT ![ThreadProcess[t]] = NoThread] /\ ~Awaits(t)'
      BY <2>4, MutexOfThread
    <3>2. sent' = sent /\ discarded' = discarded
      BY <2>4, <3>1, OthersSendNothing DEF GivesUp, TimeoutPre, TimeoutPost, service_vars
    <3>3. \A p \in Process : p # ThreadProcess[t] =>
             ipc_mutex'[p] = ipc_mutex[p] /\ ipc_mutex[p] # t
      BY <1>0, <3>1 DEF SharedType
    <3> QED
      BY <2>0, <2>2, <2>4, <3>2, <3>3, TimeoutGivesUp, GivingUpLasts
  <2>5. CASE Takes(t)
    <3>1. /\ ipc_mutex' = [ipc_mutex EXCEPT ![ThreadProcess[t]] = NoThread]
          /\ Awaits(t) /\ ~Awaits(t)'
      BY <2>5, MutexOfThread
    <3>2. sent' = sent
      BY <2>5, <3>1, OthersSendNothing DEF service_vars
    <3>3. PICK x \in Unread(ThreadProcess[t]) : discarded' = discarded \cup {x.request}
      BY <2>5 DEF Takes, TakePre, TakePost, TakeReply
    <3>4. \A p \in Process : p # ThreadProcess[t] =>
             ipc_mutex'[p] = ipc_mutex[p] /\ ipc_mutex[p] # t
      BY <1>0, <3>1 DEF SharedType
    <3>5. ~GaveUp(ThreadProcess[t]) => x.request = Current(t)
      BY <3>1, AnswerIsItsOwn
    <3>6. ipc_mutex[ThreadProcess[t]] = t
      BY <1>0, <2>0, <3>1 DEF WaitersHold
    <3> QED
      BY <2>0, <2>2, <3>2, <3>3, <3>4, <3>5, <3>6, GivingUpLasts
  <2>6. CASE Asks(t)
    <3>1. /\ ipc_mutex' = [ipc_mutex EXCEPT ![ThreadProcess[t]] = t]
          /\ ipc_mutex[ThreadProcess[t]] = NoThread
      BY <2>6, MutexOfThread
    <3>2. PICK m \in Message : /\ Send(m) /\ SendAndWait(t, m)
                               /\ m.request = Current(t)'
      BY <2>6, AskSends
    <3>3. sent' = sent \cup {m} /\ discarded \subseteq discarded'
      BY <3>2 DEF Send, SendAndWait
    <3>4. \A p \in Process : ipc_mutex'[p] = IF p = ThreadProcess[t] THEN t ELSE ipc_mutex[p]
      BY <1>0, <3>1 DEF SharedType
    <3>5. \A p \in Process : ipc_mutex[p] = t => p = ThreadProcess[t]
      BY <1>0
    <3>6. ASSUME NEW p \in Process, p \in alive, ~GaveUp(p), NEW n \in sent \cup {m},
                 ProcessOf[n.request] = p
          PROVE  n.request \in discarded' \/ UnderWay(p, n.request)'
      <4>1. CASE n = m
        <5>1. p = ThreadProcess[t]
          <6>1. m.request \in Request
            BY <3>2, MessageFields
          <6>2. m.request[1] = t
            BY <3>2 DEF Current, Before, After
          <6> QED
            BY <3>6, <4>1, <6>1, <6>2, RequestParts
        <5> QED
          BY <3>2, <3>4, <4>1, <5>1
      <4>2. CASE n \in sent /\ p = ThreadProcess[t]
        BY <1>0, <3>1, <3>3, <3>6, <4>2
      <4>3. CASE n \in sent /\ p # ThreadProcess[t]
        BY <2>2, <3>3, <3>4, <3>5, <3>6, <4>3
      <4> QED
        BY <3>6, <4>1, <4>2, <4>3
    <3> QED
      BY <2>0, <3>2, <3>3, <3>6, GivingUpLasts
  <2> QED
    BY <1>4, <2>3, <2>4, <2>5, <2>6
<1> QED
  BY <1>1, <1>2, <1>3, <1>4, ThreadCases

------------------------------------------------------------------------------
(* The copies in progress.                                                  *)

\* A copy in progress was begun in its session, while the service is up.
RecordedInv ==
    \A s \in Session : copies_in_progress[s] # NoRequest =>
        /\ running
        /\ \E m \in sent : /\ m.type = "CopyBegin"
                           /\ m.request = copies_in_progress[s]
                           /\ SessionOfMessage(m) = s

\* What the service does to the copies in progress.
LEMMA CopiesStep ==
    ASSUME TypeOK, RingInSent, [Next]_service_vars, NEW s \in Session,
           copies_in_progress'[s] # NoRequest
    PROVE  \/ /\ copies_in_progress'[s] = copies_in_progress[s]
              /\ running => running'
              /\ \A m \in inbox : OnCopyEnd(m) => SessionOfMessage(m) # s
           \/ \E m \in inbox : /\ m.type = "CopyBegin"
                               /\ SessionOfMessage(m) = s
                               /\ copies_in_progress'[s] = m.request
                               /\ running'
<1>0. copies_in_progress \in [Session -> Request \cup {NoRequest}]
  BY DEF TypeOK
<1>1. ASSUME NEW m \in inbox, OnCopyEnd(m)
      PROVE  /\ SessionOfMessage(m) # s
             /\ copies_in_progress'[s] = copies_in_progress[s]
             /\ running' = running
  <2>1. CASE EndWithoutCopy(m)
    <3>1. UNCHANGED <<copies_in_progress, running>>
      BY <2>1 DEF EndWithoutCopy
    <3> QED
      BY <2>1, <3>1 DEF EndWithoutCopy
  <2>2. CASE EndCopy(m)
    <3>1. /\ copies_in_progress' = [copies_in_progress EXCEPT ![SessionOfMessage(m)] = NoRequest]
          /\ running' = running
      BY <2>2 DEF EndCopy, copies_left
    <3> QED
      BY <1>0, <3>1
  <2>3. CASE NullConnectionInDrain(m)
    BY <2>3 DEF NullConnectionInDrain, MemoryLost
  <2> QED
    BY <1>1, <2>1, <2>2, <2>3 DEF OnCopyEnd
<1>2. ASSUME NEW m \in inbox, OnCopyBegin(m)
      PROVE  \/ UNCHANGED <<copies_in_progress, running>>
             \/ /\ m.type = "CopyBegin" /\ running'
                /\ copies_in_progress' =
                      [copies_in_progress EXCEPT ![SessionOfMessage(m)] = m.request]
  BY <1>2 DEF OnCopyBegin, Take
<1>3. ASSUME NEW m \in inbox, NEW n \in inbox, OnCopyBegin(m) \/ OnPaste(m), OnCopyEnd(n)
      PROVE  FALSE
  <2>1. m.type # "CopyEnd" /\ n.type = "CopyEnd"
    BY <1>3 DEF OnCopyBegin, OnPaste, OnCopyEnd, Take
  <2>2. inbox' = inbox \ {m} /\ inbox' = inbox \ {n}
    BY <1>3 DEF OnCopyBegin, OnPaste, OnCopyEnd, Take
  <2> QED
    BY <2>1, <2>2
<1>4. ASSUME NEW n \in inbox, OnCopyEnd(n), inbox \subseteq inbox'
      PROVE  FALSE
  BY <1>4 DEF OnCopyEnd, Take
<1>5. CASE \E m \in inbox : OnCopyBegin(m)
  BY <1>0, <1>2, <1>3, <1>5
<1>6. CASE \E m \in inbox : OnPaste(m)
  BY <1>3, <1>6 DEF OnPaste
<1>7. CASE \E p \in Process : OnConnection(p) \/ ProcessExit(p)
  BY <1>4, <1>7 DEF OnConnection, ProcessExit
<1>8. CASE \E m \in Message : Send(m)
  BY <1>4, <1>8 DEF Send
<1>9. CASE ServiceDown
  BY <1>9 DEF ServiceDown, MemoryLost
<1>10. CASE ServiceUp
  <2>1. ~running
    BY <1>10 DEF ServiceUp
  <2>2. \A m \in inbox : ~OnCopyEnd(m)
    BY <2>1 DEF OnCopyEnd, Take
  <2> QED
    BY <1>10, <2>2 DEF ServiceUp
<1>11. CASE UNCHANGED service_vars
  BY <1>4, <1>11 DEF service_vars
<1> QED
  BY <1>1, <1>5, <1>6, <1>7, <1>8, <1>9, <1>10, <1>11 DEF Next, Handler, Environment

LEMMA RecordedStep ==
    ASSUME TypeOK, QueueInv, RecordedInv, [Next]_service_vars
    PROVE  RecordedInv'
<1>1. sent \subseteq sent'
  BY DEF Next, Handler, Environment, OnCopyBegin, OnCopyEnd, OnPaste, OnConnection, ServiceDown,
         ServiceUp, ProcessExit, Send, service_vars
<1> SUFFICES ASSUME NEW s \in Session, copies_in_progress'[s] # NoRequest
             PROVE  /\ running'
                    /\ \E m \in sent' : /\ m.type = "CopyBegin"
                                        /\ m.request = copies_in_progress'[s]
                                        /\ SessionOfMessage(m) = s
  BY DEF RecordedInv, SessionOfMessage
<1>2. inbox \subseteq sent
  BY DEF QueueInv, RingInSent
<1> QED
  BY <1>1, <1>2, CopiesStep DEF RecordedInv, QueueInv

\* The copy of request r is not over, or its process is gone or gave up.
Active(r) ==
    \/ ThreadProcess[r[1]] \notin alive
    \/ GaveUp(ThreadProcess[r[1]])
    \/ /\ r = Before(r[1])
       /\ pc[r[1]] \in {"pre_wait", "original", "written", "post"}
    \/ /\ r = Before(r[1])
       /\ pc[r[1]] = "post_wait"
       /\ InInbox(After(r[1]))

LocksInv ==
    \A s \in Session : copies_in_progress[s] # NoRequest => Active(copies_in_progress[s])

ShieldInv ==
    /\ TypeOK /\ QueueInv /\ ReplyInv
    /\ ShieldTypeOK /\ HoldersInv /\ CallsInv
    /\ SentInv /\ DiscardedInv /\ PendingInv
    /\ RecordedInv /\ LocksInv

\* A step of a thread keeps a copy active.
LEMMA ThreadKeepsActive ==
    ASSUME ShieldInv, ShieldNext, NEW t \in Thread,
           Calls(t) \/ Asks(t) \/ Takes(t) \/ GivesUp(t) \/ GoesOn(t),
           NEW m \in sent, m.type = "CopyBegin", Active(m.request)
    PROVE  Active(m.request)'
<1> DEFINE r == m.request
           u == r[1]
           p == ThreadProcess[u]
<1>0. /\ TypeOK /\ QueueInv /\ ReplyInv /\ ShieldTypeOK /\ HoldersInv /\ CallsInv
      /\ SentInv /\ DiscardedInv /\ PendingInv
  BY DEF ShieldInv
<1>1. r \in Request /\ u \in Thread /\ p \in Process
  BY <1>0, MessageFields, RequestParts, ThreadFacts DEF TypeOK
<1>2. r = Before(u) => call[u] \in Writes
  BY <1>0 DEF SentInv
<1>3. ipc[p]
  BY <1>0 DEF SentInv
<1>4. /\ alive' = alive
      /\ \A v \in Thread \ {t} : pc'[v] = pc[v]
  BY <1>0, StepOfThread
<1>5. GaveUp(p) /\ p \in alive => GaveUp(p)'
  BY <1>0, <1>1, <1>4, GivingUpLasts
<1>6. inbox \subseteq inbox'
  <2>1. CASE Asks(t)
    BY <1>0, <2>1, AskSends DEF Send
  <2>2. CASE ~Asks(t)
    BY <1>0, <2>2, OthersSendNothing, MutexOfThread DEF service_vars
  <2> QED
    BY <2>1, <2>2
<1>7. \A v \in Thread : v # t \/ ~Calls(t) => calls'[v] = calls[v]
  BY <1>0, CallsUnchanged DEF Calls, Enter, ShieldTypeOK
<1> SUFFICES ASSUME p \in alive, ~GaveUp(p), ~GaveUp(p)',
                    r = Before(u),
                    pc[u] \in {"pre_wait", "original", "written", "post", "post_wait"},
                    pc[u] = "post_wait" => InInbox(After(u))
             PROVE  /\ r = Before(u)'
                    /\ \/ pc'[u] \in {"pre_wait", "original", "written", "post"}
                       \/ pc'[u] = "post_wait" /\ InInbox(After(u))'
  BY <1>4, <1>5 DEF Active
<1>8. CASE u # t
  BY <1>1, <1>4, <1>6, <1>7, <1>8 DEF Before, After, InInbox
<1>9. CASE u = t
  <2>1. ~Calls(t)
    BY <1>9 DEF Calls, Enter
  <2>2. r = Before(u)'
    BY <1>1, <1>7, <2>1 DEF Before
  <2>3. pc \in [Thread -> Location]
    BY <1>0 DEF ShieldTypeOK
  <2>4. CASE Asks(t)
    <3>1. PICK n \in Message : /\ Send(n)
                               /\ pc'[t] = "post_wait" => pc[t] = "post" /\ n = PostMessage(t)
                               /\ pc'[t] = "pre_wait" => pc[t] = "pre"
                               /\ pc'[t] \in {"pre_wait", "post_wait"}
      BY <1>0, <2>4, AskSends
    <3>2. pc'[t] = "post_wait" /\ n = PostMessage(t)
      BY <1>9, <3>1
    <3>3. n \in inbox' /\ n.request = After(u)'
      BY <1>7, <1>9, <2>1, <3>1, <3>2 DEF Send, PostMessage, After
    <3> QED
      BY <1>9, <2>2, <3>2, <3>3 DEF InInbox
  <2>5. CASE TakePre(t)
    BY <1>2, <1>9, <2>2, <2>3, <2>5 DEF TakePre, GoTo, Writes, Reads
  <2>6. CASE TakePost(t)
    <3>1. PICK x \in replies : TakeReply(t, x)
      BY <2>6 DEF TakePost
    <3>2. x \in Unread(p) /\ Awaits(t) /\ pc[t] = "post_wait"
      BY <1>9, <2>6, <3>1 DEF TakeReply, TakePost, Awaits
    <3>3. x.request = After(u)
      BY <1>0, <1>9, <3>2, AnswerIsItsOwn DEF Current
    <3>4. PICK n \in inbox : n.request = After(u)
      BY <1>9, <3>2 DEF InInbox
    <3>5. ~Replied(n.request)
      BY <1>0, <3>4, InRingUnanswered
    <3> QED
      BY <3>1, <3>3, <3>4, <3>5 DEF Replied
  <2>7. CASE GivesUp(t)
    BY <1>0, <1>9, <2>7, TimeoutGivesUp
  <2>11. CASE Disconnect(t)
    BY <1>9, <2>11 DEF Disconnect
  <2>8. CASE Original(t)
    BY <1>2, <1>9, <2>2, <2>3, <2>8 DEF Original, GoTo, Writes, Reads
  <2>9. CASE CheckPost(t)
    BY <1>9, <2>2, <2>3, <2>9 DEF CheckPost, GoTo, GaveUp
  <2>10. CASE (SendPre(t) \/ SendPost(t)) /\ ~ipc[ThreadProcess[t]]
    BY <1>3, <1>9, <2>10
  <2> QED
    BY <2>1, <2>4, <2>5, <2>6, <2>7, <2>8, <2>9, <2>10, <2>11 DEF Takes, GoesOn
<1> QED
  BY <1>8, <1>9

\* The numbers of requests tell what is asked before a call from what is reported
\* after it.
LEMMA OddIsNotEven ==
    ASSUME ShieldInv, NEW m \in sent, NEW t \in Thread, m.request = After(t)
    PROVE  m.type = "CopyEnd"
<1>1. m.type # "CopyEnd" => \E k \in Nat : m.request[2] = 2 * k - 1
  BY DEF ShieldInv, SentInv
<1>2. m.request[2] = 2 * calls[t] /\ calls[t] \in Nat
  BY ShieldAssumption DEF ShieldInv, ShieldTypeOK, After
<1> QED
  BY <1>1, <1>2

\* A copy that the service records is one its thread waits for.
LEMMA BegunIsActive ==
    ASSUME ShieldInv, NEW m \in inbox, m.type = "CopyBegin"
    PROVE  Active(m.request)
<1> DEFINE u == m.request[1]
           p == ThreadProcess[u]
<1>0. /\ TypeOK /\ QueueInv /\ ReplyInv /\ ShieldTypeOK /\ HoldersInv
      /\ DiscardedInv /\ PendingInv /\ SharedType /\ WaitersHold
  BY TypeParts DEF ShieldInv
<1>1. m \in sent /\ m \in Message
  BY <1>0 DEF QueueInv, RingInSent, TypeOK
<1>2. m.request \in Request /\ u \in Thread /\ p \in Process /\ ProcessOf[m.request] = p
  BY <1>1, MessageFields, RequestParts, ThreadFacts
<1> SUFFICES ASSUME p \in alive, ~GaveUp(p)
             PROVE  m.request = Before(u) /\ pc[u] = "pre_wait"
  BY DEF Active
<1>3. m.request \notin discarded
  BY <1>0, InRingUnanswered DEF DiscardedInv
<1>4. ipc_mutex[p] \in Thread /\ m.request = Current(ipc_mutex[p])
  BY <1>0, <1>1, <1>2, <1>3 DEF PendingInv, UnderWay
<1>5. ipc_mutex[p] = u
  BY <1>4 DEF Current, Before, After
<1>6. pc[u] \in {"pre_wait", "post_wait"}
  BY <1>0, <1>2, <1>5 DEF WaitersHold, HoldersInv, Awaits
<1>7. pc[u] # "post_wait"
  BY <1>1, <1>2, <1>4, <1>5, OddIsNotEven DEF Current
<1> QED
  BY <1>4, <1>5, <1>6, <1>7 DEF Current

LEMMA LocksStep ==
    ASSUME ShieldInv, ShieldNext, TypeOK'
    PROVE  LocksInv'
<1>0. /\ TypeOK /\ QueueInv /\ ShieldTypeOK /\ HoldersInv /\ CallsInv /\ RecordedInv /\ LocksInv
      /\ RingInSent
  BY DEF ShieldInv, QueueInv
<1> SUFFICES ASSUME NEW s \in Session, copies_in_progress'[s] # NoRequest
             PROVE  Active(copies_in_progress[s])'
  BY DEF LocksInv
<1>1. ASSUME copies_in_progress'[s] = copies_in_progress[s]
      PROVE  \E m \in sent : /\ m.type = "CopyBegin"
                             /\ m.request = copies_in_progress[s]
                             /\ SessionOfMessage(m) = s
                             /\ Active(m.request)
  BY <1>0, <1>1 DEF RecordedInv, LocksInv
<1>2. ASSUME NEW t \in Thread, Calls(t) \/ Asks(t) \/ Takes(t) \/ GivesUp(t) \/ GoesOn(t)
      PROVE  Active(copies_in_progress[s])'
  <2>1. copies_in_progress' = copies_in_progress
    <3>1. CASE Asks(t)
      BY <1>0, <3>1, AskSends DEF Send
    <3>2. CASE ~Asks(t)
      BY <1>0, <1>2, <3>2, OthersSendNothing, MutexOfThread DEF service_vars
    <3> QED
      BY <3>1, <3>2
  <2>2. PICK m \in sent : /\ m.type = "CopyBegin"
                          /\ m.request = copies_in_progress[s]
                          /\ Active(m.request)
    BY <1>1, <2>1
  <2>3. Active(m.request)'
    BY <1>2, <2>2, ThreadKeepsActive
  <2>4. m.request = copies_in_progress'[s]
    BY <2>1, <2>2
  <2> QED
    BY <2>3, <2>4 DEF Active, Before, After
<1>3. ASSUME NEW p \in Process, Shakes(p) \/ Kill(p)
      PROVE  Active(copies_in_progress[s])'
  <2>1. UNCHANGED <<copies_in_progress, inbox, calls>> /\ alive' \subseteq alive
    BY <1>3, ShakeStep DEF Kill, ProcessExit
  <2>2. PICK m \in sent : m.request = copies_in_progress[s] /\ Active(m.request)
    BY <1>1, <2>1
  <2>3. m.request[1] \in Thread /\ ThreadProcess[m.request[1]] \in Process
    BY <1>0, MessageFields, RequestParts, ThreadFacts DEF TypeOK
  <2>4. pc'[m.request[1]] = pc[m.request[1]] \/ ThreadProcess[m.request[1]] \notin alive'
    BY <1>3, <2>3, ShakeStep DEF Kill, ProcessExit
  <2> QED
    BY <1>0, <2>1, <2>2, <2>3, <2>4, GivingUpLasts DEF Active, Before, After, InInbox
<1>4. CASE Serve
  <2>0. UNCHANGED <<sent, alive, hook_vars>>
    BY <1>4, ServiceSteps
  <2>1. [Next]_service_vars
    BY <1>4 DEF Serve, Next, Handler
  <2>2. PICK n \in inbox : OnCopyBegin(n) \/ OnCopyEnd(n) \/ OnPaste(n)
    BY <1>4 DEF Serve
  <2>3. inbox' = inbox \ {n}
    BY <2>2 DEF OnCopyBegin, OnCopyEnd, OnPaste, Take
  <2>4. CASE \E m \in inbox : m.type = "CopyBegin" /\ copies_in_progress'[s] = m.request
    <3>1. PICK m \in inbox : m.type = "CopyBegin" /\ copies_in_progress'[s] = m.request
      BY <2>4
    <3>2. PICK r \in {m.request} : r = copies_in_progress'[s]
      BY <3>1
    <3>3. Active(r)
      BY <3>1, <3>2, BegunIsActive
    <3>4. r[1] \in Thread
      BY <1>0, <3>1, MessageFields, RequestParts DEF TypeOK
    <3>5. r = Before(r[1]) /\ pc[r[1]] = "post_wait" /\ InInbox(After(r[1]))
            => Active(r)'
      <4>1. SUFFICES ASSUME ~GaveUp(ThreadProcess[r[1]]), ThreadProcess[r[1]] \in alive,
                            pc[r[1]] = "post_wait", r = Before(r[1])
                     PROVE  FALSE
        BY <2>0 DEF Active, GaveUp, hook_vars
      <4>2. m \in sent /\ ProcessOf[r] = ThreadProcess[r[1]] /\ r \notin discarded
        BY <1>0, <3>1, <3>2, InRingUnanswered, MessageFields, RequestParts
           DEF ShieldInv, RingInSent, DiscardedInv, TypeOK
      <4>3. ipc_mutex[ThreadProcess[r[1]]] \in Thread
            /\ r = Current(ipc_mutex[ThreadProcess[r[1]]])
        BY <3>2, <3>4, <4>1, <4>2, ThreadFacts DEF ShieldInv, PendingInv, UnderWay
      <4>4. r = After(r[1])
        BY <4>1, <4>3 DEF Current, Before, After
      <4> QED
        BY <3>1, <3>2, <3>4, <4>2, <4>4, OddIsNotEven
    <3> QED
      BY <2>0, <3>2, <3>3, <3>5 DEF Active, GaveUp, Before, After, hook_vars
  <2>5. CASE /\ copies_in_progress'[s] = copies_in_progress[s]
             /\ \A m \in inbox : OnCopyEnd(m) => SessionOfMessage(m) # s
    <3>1. PICK m \in sent : /\ m.request = copies_in_progress[s]
                            /\ SessionOfMessage(m) = s
                            /\ Active(m.request)
      BY <1>1, <2>5
    <3>2. PICK r \in {m.request} : r = copies_in_progress'[s]
      BY <2>5, <3>1
    <3>3. r[1] \in Thread /\ SessionOf[ThreadProcess[r[1]]] = s
      BY <1>0, <3>1, <3>2, MessageFields, RequestParts DEF TypeOK, SessionOfMessage
    <3>4. InInbox(After(r[1])) => InInbox(After(r[1]))'
      <4>1. SUFFICES ASSUME NEW k \in inbox, k.request = After(r[1]), k \notin inbox'
                     PROVE  FALSE
        BY <2>0 DEF InInbox, After, hook_vars
      <4>2. k = n /\ k \in sent
        BY <1>0, <2>3, <4>1 DEF RingInSent
      <4>3. k.type = "CopyEnd"
        BY <3>3, <4>1, <4>2, OddIsNotEven
      <4>4. OnCopyEnd(k)
        BY <2>2, <4>2, <4>3 DEF OnCopyBegin, OnPaste, Take
      <4>5. SessionOfMessage(k) = s
        <5>1. k.request \in Request
          BY <1>0, <4>2, MessageFields DEF TypeOK
        <5>2. k.request[1] = r[1]
          BY <4>1 DEF After
        <5> QED
          BY <3>3, <5>1, <5>2, RequestParts DEF SessionOfMessage
      <4> QED
        BY <2>5, <4>1, <4>4, <4>5
    <3> QED
      BY <2>0, <3>1, <3>2, <3>4 DEF Active, GaveUp, Before, After, hook_vars
  <2> QED
    BY <1>0, <2>1, <2>4, <2>5, CopiesStep
<1>5. CASE Restart
  <2>1. CASE ServiceDown
    BY <2>1 DEF ServiceDown, MemoryLost
  <2>2. CASE ServiceUp
    BY <1>0, <2>2 DEF ServiceUp, RecordedInv
  <2> QED
    BY <1>5, <2>1, <2>2 DEF Restart
<1> QED
  BY <1>0, <1>2, <1>3, <1>4, <1>5, ThreadCases

------------------------------------------------------------------------------
(* The invariant, and the theorems.                                         *)

LEMMA ShieldInvInit == ShieldInit => ShieldInv
<1> SUFFICES ASSUME ShieldInit PROVE ShieldInv
  OBVIOUS
<1>1. TypeOK /\ QueueInv /\ ReplyInv
  BY TypeInit, QueueInit, ReplyInit DEF ShieldInit
<1>2. ControlType
  <2>1. 0 \in 0 .. MaxCalls
    BY ShieldAssumption
  <2> QED
    BY <2>1 DEF ShieldInit, ControlType, Location, Reads, Writes
<1>3. SharedType
  BY DEF ShieldInit, SharedType, Handshake
<1>4. WaitersHold /\ ConstructionHolds
  BY ShieldAssumption, ThreadFacts DEF ShieldInit, WaitersHold, ConstructionHolds, Awaits
<1>5. HoldersInv
  BY ThreadFacts DEF ShieldInit, Init, HoldersInv
<1>6. CallsInv /\ SentInv /\ DiscardedInv /\ PendingInv
  BY DEF ShieldInit, Init, CallsInv, SentInv, DiscardedInv, PendingInv
<1>7. RecordedInv /\ LocksInv
  BY DEF ShieldInit, Init, RecordedInv, LocksInv
<1> QED
  BY <1>1, <1>2, <1>3, <1>4, <1>5, <1>6, <1>7, TypeParts DEF ShieldInv

LEMMA ShieldInvStep == ShieldInv /\ [ShieldNext]_shield_vars => ShieldInv'
<1>1. ASSUME ShieldInv, ShieldNext
      PROVE  ShieldInv'
  <2>0. /\ TypeOK /\ QueueInv /\ ReplyInv /\ ShieldTypeOK /\ HoldersInv /\ CallsInv
        /\ SentInv /\ DiscardedInv /\ PendingInv /\ RecordedInv /\ LocksInv
    BY <1>1 DEF ShieldInv
  <2>1. [Next]_service_vars
    BY <1>1, <2>0, StepOfInterceptor
  <2>2. TypeOK' /\ QueueInv' /\ ReplyInv'
    BY <2>0, <2>1, TypeStep, QueueStep, ReplyStep
  <2>3. ControlType' /\ SharedType' /\ HoldersInv' /\ WaitersHold' /\ ConstructionHolds'
    BY <1>1, <2>0, ControlTypeStep, SharedTypeStep, HoldersStep, ConstructionStep
  <2>4. ShieldTypeOK'
    BY <2>3 DEF ShieldTypeOK, ControlType, SharedType, WaitersHold, ConstructionHolds, Awaits
  <2>5. CallsInv' /\ SentInv' /\ DiscardedInv' /\ PendingInv'
    BY <1>1, <2>0, CallsStep, SentStep, DiscardedStep, PendingStep
  <2>6. RecordedInv' /\ LocksInv'
    BY <1>1, <2>0, <2>1, <2>2, RecordedStep, LocksStep
  <2> QED
    BY <2>2, <2>3, <2>4, <2>5, <2>6 DEF ShieldInv
<1>2. ASSUME ShieldInv, UNCHANGED shield_vars
      PROVE  ShieldInv'
  <2>0. UNCHANGED service_vars /\ UNCHANGED client_vars
    BY <1>2 DEF shield_vars
  <2>1. TypeOK' /\ QueueInv' /\ ReplyInv'
    BY <1>2, <2>0, TypeStep, QueueStep, ReplyStep DEF ShieldInv
  <2>2. ShieldTypeOK' /\ HoldersInv' /\ CallsInv'
    BY <1>2, <2>0 DEF ShieldInv, ShieldTypeOK, HoldersInv, CallsInv, client_vars, hook_vars, service_vars
  <2>3. SentInv' /\ DiscardedInv' /\ PendingInv'
    BY <1>2, <2>0 DEF ShieldInv, SentInv, DiscardedInv, PendingInv, UnderWay, GaveUp, Current,
                      Before, After, Replied, client_vars, hook_vars, service_vars
  <2>4. RecordedInv' /\ LocksInv'
    BY <1>2, <2>0 DEF ShieldInv, RecordedInv, LocksInv, Active, GaveUp, Before, After,
                      InInbox, SessionOfMessage, client_vars, hook_vars, service_vars
  <2> QED
    BY <2>1, <2>2, <2>3, <2>4 DEF ShieldInv
<1> QED
  BY <1>1, <1>2

LEMMA ShieldInvHolds == ShieldSpec => []ShieldInv
BY ShieldInvInit, ShieldInvStep, PTL DEF ShieldSpec

\* The hooks as they are coded are among the clients that Interceptor allows, so
\* what InterceptorProofs shows of the service holds of it among them.
THEOREM ShieldImplementsInterceptor == ShieldSpec => Spec
<1>1. ShieldInit => Init
  BY DEF ShieldInit
<1>2. ShieldInv /\ [ShieldNext]_shield_vars => [Next]_service_vars
  BY StepOfInterceptor DEF ShieldInv, shield_vars
<1> QED
  BY <1>1, <1>2, ShieldInvHolds, PTL DEF ShieldSpec, Spec

\* The hooks keep their types, and a thread awaits an answer exactly when it holds
\* the mutex of its process (clipboard_write_pre to send_and_wait).
THEOREM ShieldTypeCorrect == ShieldSpec => []ShieldTypeOK
<1>1. ShieldInv => ShieldTypeOK
  BY DEF ShieldInv
<1> QED
  BY <1>1, ShieldInvHolds, PTL

\* No session stays locked for a copy that is over, unless its process is gone or
\* gave up on the service: with timeouts, deaths, restarts and late connections.
THEOREM LocksCorrect == ShieldSpec => []LocksBelongToACopy
<1>1. ShieldInv => LocksBelongToACopy
  BY DEF ShieldInv, LocksInv, Active, LocksBelongToACopy
<1> QED
  BY <1>1, ShieldInvHolds, PTL

\* While no thread of its process has timed out, a thread takes the answer to its
\* own request, although an answer does not say what it answers: from the moment a
\* wait times out, even before disconnect is called, this is no longer so.
THEOREM AnswersCorrect == ShieldSpec => RepliesReachTheirRequester
<1> DEFINE Reach ==
      \A t \in Thread :
        (pc[t] \in {"pre_wait", "post_wait"} /\ discarded' # discarded
            /\ pc'[t] # pc[t] /\ ~GaveUp(ThreadProcess[t])) =>
                discarded' \ discarded =
                    {IF pc[t] = "pre_wait" THEN Before(t) ELSE After(t)}
<1>1. ShieldInv /\ [ShieldNext]_shield_vars => [Reach]_shield_vars
  <2> SUFFICES ASSUME ShieldInv, ShieldNext, NEW t \in Thread,
                      pc[t] \in {"pre_wait", "post_wait"}, discarded' # discarded,
                      pc'[t] # pc[t], ~GaveUp(ThreadProcess[t])
               PROVE  discarded' \ discarded = {Current(t)}
    BY DEF Current
  <2>0. ShieldTypeOK /\ Awaits(t)
    BY DEF ShieldInv, Awaits
  <2>1. CASE Takes(t)
    <3>1. PICK x \in Unread(ThreadProcess[t]) : discarded' = discarded \cup {x.request}
      BY <2>1 DEF Takes, TakePre, TakePost, TakeReply
    <3>2. x.request = Current(t) /\ x.request \notin discarded
      BY <2>0, <3>1, AnswerIsItsOwn DEF ShieldInv, Unread
    <3> QED
      BY <3>1, <3>2
  <2>2. CASE Serve \/ Restart \/ \E p \in Process : Shakes(p) \/ Kill(p)
    BY <2>2, ShakeStep DEF Serve, Restart, Kill, client_vars, hook_vars
  <2>3. CASE GivesUp(t)
    BY <2>3 DEF GivesUp, TimeoutPre, TimeoutPost
  <2>4. CASE Calls(t) \/ Asks(t) \/ GoesOn(t)
    BY <2>0, <2>4, MutexOfThread
  <2>5. ASSUME NEW u \in Thread, u # t,
               Calls(u) \/ Asks(u) \/ Takes(u) \/ GivesUp(u) \/ GoesOn(u)
        PROVE  FALSE
    BY <2>0, <2>5, StepOfThread
  <2> QED
    BY <2>0, <2>1, <2>2, <2>3, <2>4, <2>5, ThreadCases
<1> QED
  BY <1>1, ShieldInvHolds, PTL DEF ShieldSpec, RepliesReachTheirRequester
==============================================================================
