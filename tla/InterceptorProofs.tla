--------------------------- MODULE InterceptorProofs ---------------------------
(***************************************************************************)
(* What Interceptor guarantees for every set of processes, sessions and      *)
(* requests, every configuration, and any number of crashes.                *)
(***************************************************************************)
EXTENDS Interceptor, TLAPS

------------------------------------------------------------------------------
(* Facts about the helpers.                                                 *)

LEMMA Elements ==
    ASSUME NEW S, NEW q \in Seq(S)
    PROVE  /\ \A i \in DOMAIN q : q[i] \in S
           /\ \A e \in ToSet(q) : e \in S
           /\ \A i \in DOMAIN q : i \in Nat /\ \A j \in 1 .. i - 1 : j \in DOMAIN q
<1>1. DOMAIN q = 1 .. Len(q) /\ Len(q) \in Nat
  OBVIOUS
<1>2. \A i \in 1 .. Len(q) : q[i] \in S
  OBVIOUS
<1> QED
  BY <1>1, <1>2 DEF ToSet

LEMMA MessageFields ==
    ASSUME NEW m \in Message
    PROVE  /\ m.request \in Request
           /\ m.succeeded \in BOOLEAN
           /\ ProcessOf[m.request] \in Process
           /\ SessionOfMessage(m) \in Session
           /\ Continue(m) \in Reply
           /\ Continue(m).request = m.request
  BY InterceptorAssumption DEF Message, SessionOfMessage, Continue, Reply

LEMMA PasteReplyType ==
    ASSUME NEW m \in Message, NEW w
    PROVE  PasteReply(w, m) \in Reply /\ PasteReply(w, m).request = m.request
  BY MessageFields DEF PasteReply, Reply

LEMMA SetLastCopyType ==
    ASSUME NEW m \in Message, TypeOK
    PROVE  set_last_copy(m) \in Writer \cup {NoWriter}
<1> DEFINE p == ProcessOf[m.request]
<1>1. p \in Process /\ SessionOfMessage(m) \in Session
  BY MessageFields
<1>2. last_clipboard_writers[SessionOfMessage(m)] \in Writer \cup {NoWriter}
  BY <1>1 DEF TypeOK
<1>3. ASSUME get_process_full_path(p) # EmptyPath
      PROVE  [process |-> p, path |-> get_process_full_path(p)] \in Writer
  BY <1>1, <1>3, InterceptorAssumption DEF get_process_full_path, Writer
<1> QED
  BY <1>2, <1>3 DEF set_last_copy

LEMMA EntryType ==
    ASSUME NEW m \in Message
    PROVE  [message |-> m, connection |-> find_connection(ProcessOf[m.request])] \in Entry
  BY DEF Entry, find_connection

LEMMA ResumedCopyType ==
    ASSUME TypeOK, NEW s \in Session
    PROVE  resumed_copy(s) \subseteq Reply
<1>1. CASE copies_waiting[s] = <<>>
  BY <1>1 DEF resumed_copy
<1>2. CASE copies_waiting[s] # <<>>
  <2>1. Head(copies_waiting[s]) \in Entry
    BY <1>2 DEF TypeOK
  <2>2. Continue(Head(copies_waiting[s]).message) \in Reply
    BY <2>1, MessageFields DEF Entry
  <2> QED
    BY <2>2 DEF resumed_copy, SendIf
<1> QED
  BY <1>1, <1>2

LEMMA JudgedPastesType ==
    ASSUME TypeOK, NEW m \in Message
    PROVE  judged_pastes(m) \subseteq Reply
<1> DEFINE s == SessionOfMessage(m)
<1>1. s \in Session
  BY MessageFields
<1>2. pastes_waiting[s] \in Seq(Entry)
  BY <1>1 DEF TypeOK
<1>3. \A e \in ToSet(pastes_waiting[s]) : e \in Entry
  BY <1>2, Elements
<1>4. \A e \in ToSet(pastes_waiting[s]) : e.message \in Message
  BY <1>3 DEF Entry
<1> QED
  BY <1>4, PasteReplyType DEF judged_pastes

------------------------------------------------------------------------------
(* Type correctness.                                                        *)

LEMMA ReconnectType ==
    ASSUME TypeOK, NEW p \in Process, Reconnect(p)
    PROVE  return_paths' \in SUBSET Process
  BY DEF TypeOK, Reconnect

LEMMA MemoryLostType ==
    ASSUME TypeOK, MemoryLost
    PROVE  /\ copies_in_progress' \in [Session -> Request \cup {NoRequest}]
           /\ copies_waiting' \in [Session -> Seq(Entry)]
           /\ pastes_waiting' \in [Session -> Seq(Entry)]
           /\ last_clipboard_writers' \in [Session -> Writer \cup {NoWriter}]
           /\ return_paths' \in SUBSET Process
           /\ running' \in BOOLEAN
           /\ crashes' \in Nat
<1>1. [s \in Session |-> <<>>] \in [Session -> Seq(Entry)]
  OBVIOUS
<1>2. crashes + 1 \in Nat
  BY DEF TypeOK
<1> QED
  BY <1>1, <1>2 DEF MemoryLost

LEMMA OnCopyBeginType ==
    ASSUME TypeOK, NEW m \in inbox, OnCopyBegin(m)
    PROVE  TypeOK'
<1> DEFINE s == SessionOfMessage(m)
           c == find_connection(ProcessOf[m.request])
           e == [message |-> m, connection |-> c]
<1>1. m \in Message
  BY DEF TypeOK
<1>2. /\ s \in Session /\ m.request \in Request /\ ProcessOf[m.request] \in Process
      /\ Continue(m) \in Reply
  BY <1>1, MessageFields
<1>3. return_paths' \in SUBSET Process
  BY <1>2, ReconnectType DEF OnCopyBegin
<1>4. inbox' \in SUBSET Message
  BY DEF OnCopyBegin, Take, TypeOK
<1>5. CASE copies_in_progress[s] = NoRequest
  <2>1. /\ copies_in_progress' = [copies_in_progress EXCEPT ![s] = m.request]
        /\ replies' = replies \cup SendIf(c, Continue(m))
        /\ copies_waiting' = copies_waiting
    BY <1>5 DEF OnCopyBegin
  <2>2. replies' \in SUBSET Reply
    BY <1>2, <2>1 DEF TypeOK, SendIf
  <2> QED
    BY <1>2, <1>3, <1>4, <2>1, <2>2 DEF TypeOK, OnCopyBegin
<1>6. CASE copies_in_progress[s] # NoRequest
  <2>1. /\ copies_in_progress' = copies_in_progress
        /\ replies' = replies
        /\ copies_waiting' = [copies_waiting EXCEPT ![s] = Append(@, e)]
    BY <1>6 DEF OnCopyBegin
  <2>2. e \in Entry
    BY <1>1, EntryType
  <2>3. copies_waiting' \in [Session -> Seq(Entry)]
    BY <1>2, <2>1, <2>2 DEF TypeOK
  <2> QED
    BY <1>3, <1>4, <2>1, <2>3 DEF TypeOK, OnCopyBegin
<1> QED
  BY <1>5, <1>6

LEMMA OnPasteType ==
    ASSUME TypeOK, NEW m \in inbox, OnPaste(m)
    PROVE  TypeOK'
<1> DEFINE s == SessionOfMessage(m)
           c == find_connection(ProcessOf[m.request])
           e == [message |-> m, connection |-> c]
<1>1. m \in Message
  BY DEF TypeOK
<1>2. s \in Session /\ ProcessOf[m.request] \in Process
  BY <1>1, MessageFields
<1>3. return_paths' \in SUBSET Process
  BY <1>2, ReconnectType DEF OnPaste
<1>4. inbox' \in SUBSET Message
  BY DEF OnPaste, Take, TypeOK
<1>5. CASE copies_in_progress[s] = NoRequest
  <2>1. /\ replies' = replies \cup SendIf(c, PasteReply(last_clipboard_writers[s], m))
        /\ pastes_waiting' = pastes_waiting
    BY <1>5 DEF OnPaste
  <2>2. replies' \in SUBSET Reply
    BY <1>1, <2>1, PasteReplyType DEF TypeOK, SendIf
  <2> QED
    BY <1>3, <1>4, <2>1, <2>2 DEF TypeOK, OnPaste
<1>6. CASE copies_in_progress[s] # NoRequest
  <2>1. /\ replies' = replies
        /\ pastes_waiting' = [pastes_waiting EXCEPT ![s] = Append(@, e)]
    BY <1>6 DEF OnPaste
  <2>2. e \in Entry
    BY <1>1, EntryType
  <2>3. pastes_waiting' \in [Session -> Seq(Entry)]
    BY <1>2, <2>1, <2>2 DEF TypeOK
  <2> QED
    BY <1>3, <1>4, <2>1, <2>3 DEF TypeOK, OnPaste
<1> QED
  BY <1>5, <1>6

LEMMA OnCopyEndType ==
    ASSUME TypeOK, NEW m \in inbox, OnCopyEnd(m)
    PROVE  TypeOK'
<1> DEFINE s == SessionOfMessage(m)
           p == ProcessOf[m.request]
<1>1. m \in Message
  BY DEF TypeOK
<1>2. s \in Session /\ p \in Process /\ Continue(m) \in Reply
  BY <1>1, MessageFields
<1>3. inbox' \in SUBSET Message /\ alive' = alive /\ sent' = sent
  BY DEF OnCopyEnd, Take, TypeOK
<1>4. SendIf(find_connection(p), Continue(m)) \subseteq Reply
  BY <1>2 DEF SendIf
<1>5. CASE EndWithoutCopy(m) /\ Reconnect(p)
  <2>1. return_paths' \in SUBSET Process
    BY <1>2, <1>5, ReconnectType
  <2> QED
    BY <1>3, <1>4, <1>5, <2>1 DEF TypeOK, EndWithoutCopy
<1>6. CASE EndCopy(m) /\ Reconnect(p)
  <2>1. return_paths' \in SUBSET Process
    BY <1>2, <1>6, ReconnectType
  <2>2. copies_in_progress' \in [Session -> Request \cup {NoRequest}]
    BY <1>2, <1>6 DEF TypeOK, EndCopy, copies_left
  <2>3. copies_waiting' \in [Session -> Seq(Entry)]
    BY <1>2, <1>6 DEF TypeOK, EndCopy
  <2>4. last_clipboard_writers' \in [Session -> Writer \cup {NoWriter}]
    BY <1>1, <1>2, <1>6, SetLastCopyType DEF TypeOK, EndCopy
  <2>5. pastes_waiting' \in [Session -> Seq(Entry)]
    BY <1>2, <1>6 DEF TypeOK, EndCopy, pastes_left
  <2>6. replies' \in SUBSET Reply
    BY <1>1, <1>2, <1>4, <1>6, ResumedCopyType, JudgedPastesType DEF TypeOK, EndCopy
  <2> QED
    BY <1>3, <1>6, <2>1, <2>2, <2>3, <2>4, <2>5, <2>6 DEF TypeOK, EndCopy
<1>7. CASE NullConnectionInDrain(m)
  <2>1. MemoryLost
    BY <1>7 DEF NullConnectionInDrain
  <2>2. replies' \in SUBSET Reply
    <3> DEFINE queue == pastes_waiting[s]
    <3>1. queue \in Seq(Entry)
      BY <1>2 DEF TypeOK
    <3>2. PICK i \in DOMAIN queue :
             replies' = replies \cup
                {PasteReply(set_last_copy(m), queue[j].message) : j \in 1 .. i - 1}
      BY <1>7 DEF NullConnectionInDrain
    <3>3. \A j \in 1 .. i - 1 : queue[j] \in Entry
      BY <3>1, Elements
    <3>4. \A j \in 1 .. i - 1 : queue[j].message \in Message
      BY <3>3 DEF Entry
    <3> QED
      BY <3>2, <3>4, PasteReplyType DEF TypeOK
  <2> QED
    BY <1>3, <2>1, <2>2, MemoryLostType DEF TypeOK
<1> QED
  BY <1>5, <1>6, <1>7 DEF OnCopyEnd

LEMMA EnvironmentType ==
    ASSUME TypeOK, Environment
    PROVE  TypeOK'
<1>1. CASE ServiceDown
  BY <1>1, MemoryLostType DEF ServiceDown, TypeOK
<1>2. CASE ServiceUp
  BY <1>2 DEF ServiceUp, TypeOK
<1>3. CASE \E p \in Process : ProcessExit(p)
  BY <1>3 DEF ProcessExit, TypeOK
<1>4. CASE \E m \in Message : Send(m)
  BY <1>4 DEF Send, TypeOK
<1> QED
  BY <1>1, <1>2, <1>3, <1>4 DEF Environment

LEMMA TypeInit == Init => TypeOK
  BY DEF Init, TypeOK

LEMMA TypeStep == TypeOK /\ [Next]_service_vars => TypeOK'
<1> SUFFICES ASSUME TypeOK, [Next]_service_vars
             PROVE  TypeOK'
  OBVIOUS
<1>1. CASE \E m \in inbox : OnCopyBegin(m)
  BY <1>1, OnCopyBeginType
<1>2. CASE \E m \in inbox : OnCopyEnd(m)
  BY <1>2, OnCopyEndType
<1>3. CASE \E m \in inbox : OnPaste(m)
  BY <1>3, OnPasteType
<1>4. CASE \E p \in Process : OnConnection(p)
  BY <1>4 DEF OnConnection, TypeOK
<1>5. CASE Environment
  BY <1>5, EnvironmentType
<1>6. CASE UNCHANGED service_vars
  BY <1>6 DEF service_vars, TypeOK
<1> QED
  BY <1>1, <1>2, <1>3, <1>4, <1>5, <1>6 DEF Next, Handler

\* The maps, the ring and the replies of the service are always well typed; in
\* particular no writer is recorded without a path (set_last_copy).
THEOREM TypeCorrect == Spec => []TypeOK
  BY TypeInit, TypeStep, PTL DEF Spec

------------------------------------------------------------------------------
(***************************************************************************)
(* What the queues hold.  A waiting entry is a message that was sent, left    *)
(* the ring, has the type and the session of its queue; and pastes wait only *)
(* in a locked session.  This is inductive together with the type invariant, *)
(* and the safety properties below rest on it.                              *)
(***************************************************************************)
SettledIn(m, type, s) ==
    m \in sent \ inbox /\ m.type = type /\ SessionOfMessage(m) = s

RingInSent == inbox \subseteq sent

OneMessagePerRequest == \A m, n \in sent : m.request = n.request => m = n

CopiesSettled ==
    \A s \in Session : \A e \in ToSet(copies_waiting[s]) : SettledIn(e.message, "CopyBegin", s)

PastesSettled ==
    \A s \in Session : \A e \in ToSet(pastes_waiting[s]) : SettledIn(e.message, "Paste", s)

PastesLocked ==
    \A s \in Session : pastes_waiting[s] # <<>> => copies_in_progress[s] # NoRequest

QueueInv ==
    RingInSent /\ OneMessagePerRequest /\ CopiesSettled /\ PastesSettled /\ PastesLocked

LEMMA AppendElements ==
    ASSUME NEW S, NEW q \in Seq(S), NEW e \in S
    PROVE  /\ ToSet(Append(q, e)) = ToSet(q) \cup {e}
           /\ DOMAIN Append(q, e) = DOMAIN q \cup {Len(q) + 1}
           /\ \A i \in DOMAIN q : Append(q, e)[i] = q[i]
           /\ Append(q, e)[Len(q) + 1] = e
<1>1. Len(q) \in Nat /\ DOMAIN q = 1 .. Len(q)
  OBVIOUS
<1>2. DOMAIN Append(q, e) = 1 .. Len(q) + 1
  OBVIOUS
<1>3. \A i \in 1 .. Len(q) : Append(q, e)[i] = q[i]
  OBVIOUS
<1>4. Append(q, e)[Len(q) + 1] = e
  OBVIOUS
<1>5. DOMAIN Append(q, e) = DOMAIN q \cup {Len(q) + 1}
  BY <1>1, <1>2
<1>6. ToSet(Append(q, e)) = ToSet(q) \cup {e}
  BY <1>1, <1>3, <1>4, <1>5 DEF ToSet
<1> QED
  BY <1>1, <1>3, <1>4, <1>5, <1>6

LEMMA TailElements ==
    ASSUME NEW S, NEW q \in Seq(S), q # <<>>
    PROVE  /\ Head(q) \in ToSet(q) /\ Head(q) = q[1] /\ 1 \in DOMAIN q
           /\ ToSet(Tail(q)) \subseteq ToSet(q)
           /\ \A i \in DOMAIN Tail(q) : i + 1 \in DOMAIN q /\ Tail(q)[i] = q[i + 1]
<1>1. Len(q) \in Nat /\ DOMAIN q = 1 .. Len(q) /\ Len(q) > 0
  OBVIOUS
<1>2. DOMAIN Tail(q) = 1 .. Len(q) - 1
  OBVIOUS
<1>3. \A i \in 1 .. Len(q) - 1 : Tail(q)[i] = q[i + 1]
  OBVIOUS
<1>4. Head(q) = q[1] /\ 1 \in DOMAIN q
  BY <1>1
<1>5. \A i \in DOMAIN Tail(q) : i + 1 \in DOMAIN q /\ Tail(q)[i] = q[i + 1]
  BY <1>1, <1>2, <1>3
<1> QED
  BY <1>4, <1>5 DEF ToSet

LEMMA TakeSettles ==
    ASSUME RingInSent, NEW m \in inbox, sent' = sent, inbox' = inbox \ {m}
    PROVE  /\ RingInSent'
           /\ SettledIn(m, m.type, SessionOfMessage(m))'
           /\ \A x, type, s : SettledIn(x, type, s) => SettledIn(x, type, s)'
  BY DEF RingInSent, SettledIn, SessionOfMessage

LEMMA EmptyQueues ==
    ASSUME MemoryLost
    PROVE  CopiesSettled' /\ PastesSettled' /\ PastesLocked'
  BY DEF MemoryLost, CopiesSettled, PastesSettled, PastesLocked, ToSet

LEMMA OnCopyBeginQueues ==
    ASSUME TypeOK, QueueInv, NEW m \in inbox, OnCopyBegin(m)
    PROVE  QueueInv'
<1> DEFINE s == SessionOfMessage(m)
           c == find_connection(ProcessOf[m.request])
           e == [message |-> m, connection |-> c]
<1>1. m \in Message
  BY DEF TypeOK
<1>2. s \in Session /\ m.request \in Request
  BY <1>1, MessageFields
<1>3. /\ sent' = sent /\ inbox' = inbox \ {m} /\ m.type = "CopyBegin"
      /\ pastes_waiting' = pastes_waiting
  BY DEF OnCopyBegin, Take
<1>4. RingInSent' /\ OneMessagePerRequest'
  BY <1>3, TakeSettles DEF QueueInv, OneMessagePerRequest
<1>5. PastesSettled'
  BY <1>3, TakeSettles DEF QueueInv, PastesSettled
<1>6. CASE copies_in_progress[s] = NoRequest
  <2>1. /\ copies_in_progress' = [copies_in_progress EXCEPT ![s] = m.request]
        /\ copies_waiting' = copies_waiting
    BY <1>6 DEF OnCopyBegin
  <2>2. CopiesSettled'
    BY <1>3, <2>1, TakeSettles DEF QueueInv, CopiesSettled
  <2>3. PastesLocked'
    BY <1>2, <1>3, <2>1, InterceptorAssumption DEF QueueInv, PastesLocked, TypeOK
  <2> QED
    BY <1>4, <1>5, <2>2, <2>3 DEF QueueInv
<1>7. CASE copies_in_progress[s] # NoRequest
  <2>1. /\ copies_in_progress' = copies_in_progress
        /\ copies_waiting' = [copies_waiting EXCEPT ![s] = Append(@, e)]
    BY <1>7 DEF OnCopyBegin
  <2>2. e \in Entry /\ copies_waiting[s] \in Seq(Entry)
    BY <1>1, <1>2, EntryType DEF TypeOK
  <2>3. ToSet(copies_waiting'[s]) = ToSet(copies_waiting[s]) \cup {e}
    BY <1>2, <2>1, <2>2, AppendElements DEF TypeOK
  <2>4. \A t \in Session \ {s} : copies_waiting'[t] = copies_waiting[t]
    BY <2>1 DEF TypeOK
  <2>5. CopiesSettled'
    BY <1>3, <2>3, <2>4, TakeSettles DEF QueueInv, CopiesSettled
  <2>6. PastesLocked'
    BY <1>3, <2>1 DEF QueueInv, PastesLocked
  <2> QED
    BY <1>4, <1>5, <2>5, <2>6 DEF QueueInv
<1> QED
  BY <1>6, <1>7

LEMMA OnPasteQueues ==
    ASSUME TypeOK, QueueInv, NEW m \in inbox, OnPaste(m)
    PROVE  QueueInv'
<1> DEFINE s == SessionOfMessage(m)
           c == find_connection(ProcessOf[m.request])
           e == [message |-> m, connection |-> c]
<1>1. m \in Message
  BY DEF TypeOK
<1>2. s \in Session
  BY <1>1, MessageFields
<1>3. /\ sent' = sent /\ inbox' = inbox \ {m} /\ m.type = "Paste"
      /\ copies_waiting' = copies_waiting /\ copies_in_progress' = copies_in_progress
  BY DEF OnPaste, Take
<1>4. RingInSent' /\ OneMessagePerRequest'
  BY <1>3, TakeSettles DEF QueueInv, OneMessagePerRequest
<1>5. CopiesSettled'
  BY <1>3, TakeSettles DEF QueueInv, CopiesSettled
<1>6. CASE copies_in_progress[s] = NoRequest
  <2>1. pastes_waiting' = pastes_waiting
    BY <1>6 DEF OnPaste
  <2>2. PastesSettled' /\ PastesLocked'
    BY <1>3, <2>1, TakeSettles DEF QueueInv, PastesSettled, PastesLocked
  <2> QED
    BY <1>4, <1>5, <2>2 DEF QueueInv
<1>7. CASE copies_in_progress[s] # NoRequest
  <2>1. pastes_waiting' = [pastes_waiting EXCEPT ![s] = Append(@, e)]
    BY <1>7 DEF OnPaste
  <2>2. e \in Entry /\ pastes_waiting[s] \in Seq(Entry)
    BY <1>1, <1>2, EntryType DEF TypeOK
  <2>3. ToSet(pastes_waiting'[s]) = ToSet(pastes_waiting[s]) \cup {e}
    BY <1>2, <2>1, <2>2, AppendElements DEF TypeOK
  <2>4. \A t \in Session \ {s} : pastes_waiting'[t] = pastes_waiting[t]
    BY <2>1 DEF TypeOK
  <2>5. PastesSettled'
    BY <1>3, <2>3, <2>4, TakeSettles DEF QueueInv, PastesSettled
  <2>6. PastesLocked'
    BY <1>3, <1>7, <2>4 DEF QueueInv, PastesLocked
  <2> QED
    BY <1>4, <1>5, <2>5, <2>6 DEF QueueInv
<1> QED
  BY <1>6, <1>7

LEMMA OnCopyEndQueues ==
    ASSUME TypeOK, QueueInv, NEW m \in inbox, OnCopyEnd(m)
    PROVE  QueueInv'
<1> DEFINE s == SessionOfMessage(m)
<1>1. s \in Session
  BY MessageFields DEF TypeOK
<1>2. sent' = sent /\ inbox' = inbox \ {m}
  BY DEF OnCopyEnd, Take
<1>3. RingInSent' /\ OneMessagePerRequest'
  BY <1>2, TakeSettles DEF QueueInv, OneMessagePerRequest
<1>4. CASE EndWithoutCopy(m)
  <2>1. CopiesSettled' /\ PastesSettled'
    BY <1>2, <1>4, TakeSettles DEF QueueInv, CopiesSettled, PastesSettled, EndWithoutCopy
  <2>2. PastesLocked'
    BY <1>4 DEF QueueInv, PastesLocked, EndWithoutCopy
  <2> QED
    BY <1>3, <2>1, <2>2 DEF QueueInv
<1>5. CASE EndCopy(m)
  <2>1. /\ copies_in_progress' = [copies_in_progress EXCEPT ![s] = NoRequest]
        /\ pastes_waiting' = [pastes_waiting EXCEPT ![s] = <<>>]
        /\ copies_waiting' = [copies_waiting EXCEPT ![s] = IF @ = <<>> THEN @ ELSE Tail(@)]
    BY <1>5 DEF EndCopy, copies_left, pastes_left
  <2>2. copies_waiting[s] \in Seq(Entry)
    BY <1>1 DEF TypeOK
  <2>3. \A t \in Session : ToSet(copies_waiting'[t]) \subseteq ToSet(copies_waiting[t])
    BY <1>1, <2>1, <2>2, TailElements DEF TypeOK
  <2>4. CopiesSettled'
    BY <1>2, <2>3, TakeSettles DEF QueueInv, CopiesSettled
  <2>5. \A t \in Session : /\ t # s => /\ pastes_waiting'[t] = pastes_waiting[t]
                                       /\ copies_in_progress'[t] = copies_in_progress[t]
                           /\ t = s => pastes_waiting'[t] = <<>>
    BY <1>1, <2>1 DEF TypeOK
  <2>6. PastesSettled'
    BY <1>2, <2>5, TakeSettles DEF QueueInv, PastesSettled, ToSet
  <2>7. PastesLocked'
    BY <2>5 DEF QueueInv, PastesLocked
  <2> QED
    BY <1>3, <2>4, <2>6, <2>7 DEF QueueInv
<1>6. CASE NullConnectionInDrain(m)
  BY <1>3, <1>6, EmptyQueues DEF QueueInv, NullConnectionInDrain
<1> QED
  BY <1>4, <1>5, <1>6 DEF OnCopyEnd

LEMMA EnvironmentQueues ==
    ASSUME TypeOK, QueueInv, Environment
    PROVE  QueueInv'
<1>1. CASE ServiceDown
  BY <1>1, EmptyQueues DEF ServiceDown, QueueInv, RingInSent, OneMessagePerRequest
<1>2. CASE ServiceUp
  BY <1>2 DEF ServiceUp, QueueInv, RingInSent, OneMessagePerRequest, CopiesSettled,
              PastesSettled, PastesLocked, SettledIn, SessionOfMessage
<1>3. CASE \E p \in Process : ProcessExit(p)
  BY <1>3 DEF ProcessExit, QueueInv, RingInSent, OneMessagePerRequest, CopiesSettled,
              PastesSettled, PastesLocked, SettledIn, SessionOfMessage
<1>4. CASE \E m \in Message : Send(m)
  <2>1. PICK m \in Message : Send(m)
    BY <1>4
  <2>2. /\ \A n \in sent : n.request # m.request
        /\ inbox' = inbox \cup {m} /\ sent' = sent \cup {m}
        /\ copies_waiting' = copies_waiting /\ pastes_waiting' = pastes_waiting
        /\ copies_in_progress' = copies_in_progress
    BY <2>1 DEF Send
  <2>3. RingInSent' /\ OneMessagePerRequest'
    BY <2>2 DEF QueueInv, RingInSent, OneMessagePerRequest
  <2>4. \A x, type, s : SettledIn(x, type, s) => SettledIn(x, type, s)'
    BY <2>2 DEF SettledIn, SessionOfMessage
  <2> QED
    BY <2>2, <2>3, <2>4 DEF QueueInv, CopiesSettled, PastesSettled, PastesLocked
<1> QED
  BY <1>1, <1>2, <1>3, <1>4 DEF Environment

LEMMA QueueInit == Init => QueueInv
  BY DEF Init, QueueInv, RingInSent, OneMessagePerRequest, CopiesSettled, PastesSettled,
         PastesLocked, ToSet

LEMMA QueueStep == TypeOK /\ QueueInv /\ [Next]_service_vars => QueueInv'
<1> SUFFICES ASSUME TypeOK, QueueInv, [Next]_service_vars
             PROVE  QueueInv'
  OBVIOUS
<1>1. CASE \E m \in inbox : OnCopyBegin(m)
  BY <1>1, OnCopyBeginQueues
<1>2. CASE \E m \in inbox : OnCopyEnd(m)
  BY <1>2, OnCopyEndQueues
<1>3. CASE \E m \in inbox : OnPaste(m)
  BY <1>3, OnPasteQueues
<1>4. CASE (\E p \in Process : OnConnection(p)) \/ UNCHANGED service_vars
  <2>1. UNCHANGED <<copies_in_progress, copies_waiting, pastes_waiting, inbox, sent>>
    BY <1>4 DEF OnConnection, service_vars
  <2> QED
    BY <2>1 DEF QueueInv, RingInSent, OneMessagePerRequest, CopiesSettled, PastesSettled,
                PastesLocked, SettledIn, SessionOfMessage
<1>5. CASE Environment
  BY <1>5, EnvironmentQueues
<1> QED
  BY <1>1, <1>2, <1>3, <1>4, <1>5 DEF Next, Handler

LEMMA QueuesCorrect == Spec => [](TypeOK /\ QueueInv)
  BY TypeInit, TypeStep, QueueInit, QueueStep, PTL DEF Spec

\* No paste is stranded: one that waits always finds its session locked by a
\* copy, whose end will drain the queue (on_paste, internal_on_copy_end).
THEOREM NoPasteStranded == Spec => []PastesWaitOnlyWhileLocked
<1>1. TypeOK /\ QueueInv => PastesWaitOnlyWhileLocked
  <2> SUFFICES ASSUME TypeOK, QueueInv, NEW s \in Session
               PROVE  /\ pastes_waiting[s] # <<>> => copies_in_progress[s] # NoRequest
                      /\ \A i \in DOMAIN pastes_waiting[s] :
                            SessionOfMessage(pastes_waiting[s][i].message) = s
    BY DEF PastesWaitOnlyWhileLocked
  <2>1. \A i \in DOMAIN pastes_waiting[s] : pastes_waiting[s][i] \in ToSet(pastes_waiting[s])
    BY DEF ToSet
  <2> QED
    BY <2>1 DEF QueueInv, PastesLocked, PastesSettled, SettledIn
<1> QED
  BY <1>1, QueuesCorrect, PTL

------------------------------------------------------------------------------
(* The recorded writers.                                                    *)

\* A message that left the ring never returns to it, and stays sent.
LEMMA SettledGrows ==
    ASSUME QueueInv, [Next]_service_vars
    PROVE  sent \ inbox \subseteq sent' \ inbox'
<1>1. CASE \E m \in inbox : OnCopyBegin(m) \/ OnCopyEnd(m) \/ OnPaste(m)
  <2>1. PICK m \in inbox : OnCopyBegin(m) \/ OnCopyEnd(m) \/ OnPaste(m)
    BY <1>1
  <2>2. sent' = sent /\ inbox' = inbox \ {m}
    BY <2>1 DEF OnCopyBegin, OnCopyEnd, OnPaste, Take
  <2> QED
    BY <2>2
<1>2. CASE \E m \in Message : Send(m)
  <2>1. PICK m \in Message : Send(m)
    BY <1>2
  <2>2. /\ \A n \in sent : n.request # m.request
        /\ inbox' = inbox \cup {m} /\ sent' = sent \cup {m}
    BY <2>1 DEF Send
  <2> QED
    BY <2>2
<1>3. CASE ServiceUp
  BY <1>3 DEF ServiceUp
<1>4. CASE \/ \E p \in Process : OnConnection(p) \/ ProcessExit(p)
           \/ ServiceDown \/ UNCHANGED service_vars
  BY <1>4 DEF OnConnection, ProcessExit, ServiceDown, service_vars
<1> QED
  BY <1>1, <1>2, <1>3, <1>4 DEF Next, Handler, Environment

\* What LastWriterCompletedACopy says of one session and its recorded writer.
Completed(s, w) ==
    /\ SessionOf[w.process] = s
    /\ w.path = PathOf[w.process]
    /\ \E m \in sent \ inbox :
          m.type = "CopyEnd" /\ m.succeeded /\ ProcessOf[m.request] = w.process

LEMMA LastWriterStep ==
    ASSUME TypeOK, QueueInv, LastWriterCompletedACopy, [Next]_service_vars
    PROVE  LastWriterCompletedACopy'
<1> SUFFICES ASSUME NEW s \in Session, NEW w,
                    w = last_clipboard_writers'[s], w # NoWriter
             PROVE  Completed(s, w)'
  BY DEF LastWriterCompletedACopy, Completed
<1>1. \A v : Completed(s, v) => Completed(s, v)'
  BY SettledGrows DEF Completed
<1>2. CASE w = last_clipboard_writers[s]
  BY <1>1, <1>2 DEF LastWriterCompletedACopy, Completed
<1>3. CASE w # last_clipboard_writers[s]
  <2>1. PICK m \in inbox : OnCopyEnd(m) /\ EndCopy(m)
    <3>1. last_clipboard_writers' # last_clipboard_writers
      BY <1>3
    <3>2. ~MemoryLost
      BY DEF MemoryLost
    <3> QED
      BY <3>1, <3>2 DEF Next, Handler, Environment, OnCopyBegin, OnCopyEnd, OnPaste,
         OnConnection, EndWithoutCopy, NullConnectionInDrain, ServiceDown, ServiceUp,
         ProcessExit, Send, service_vars
  <2>2. m \in Message /\ SessionOfMessage(m) \in Session
    BY MessageFields DEF TypeOK
  <2>3. SessionOfMessage(m) = s /\ w = set_last_copy(m)
    BY <1>3, <2>1, <2>2 DEF EndCopy, TypeOK
  <2>4. /\ m.succeeded
        /\ w = [process |-> ProcessOf[m.request], path |-> PathOf[ProcessOf[m.request]]]
    BY <1>3, <2>3 DEF set_last_copy, get_process_full_path
  <2>5. m \in sent' \ inbox' /\ m.type = "CopyEnd"
    BY <2>1 DEF OnCopyEnd, Take, QueueInv, RingInSent
  <2> QED
    BY <2>3, <2>4, <2>5 DEF Completed, SessionOfMessage
<1> QED
  BY <1>2, <1>3

\* Whoever the service takes for the last writer of a session is of that session
\* and completed a copy in it, under the recorded path (set_last_copy).
THEOREM LastWriterCorrect == Spec => []LastWriterCompletedACopy
<1>1. Init => LastWriterCompletedACopy
  BY DEF Init, LastWriterCompletedACopy
<1>2. TypeOK /\ QueueInv /\ LastWriterCompletedACopy /\ [Next]_service_vars
         => LastWriterCompletedACopy'
  BY LastWriterStep
<1> QED
  BY <1>1, <1>2, QueuesCorrect, PTL DEF Spec

------------------------------------------------------------------------------
(* The answers to pastes.                                                   *)

LEMMA PastesJudgedStep ==
    ASSUME TypeOK, QueueInv, [Next]_service_vars
    PROVE  JudgedOnRecordedWriter
<1> SUFFICES ASSUME running', NEW m \in sent, NEW x \in replies' \ replies,
                    x.request = m.request, m.type = "Paste"
             PROVE  /\ x = PasteReply(last_clipboard_writers'[SessionOfMessage(m)], m)
                    /\ copies_in_progress'[SessionOfMessage(m)] = NoRequest
  BY DEF JudgedOnRecordedWriter
\* A reply to a message of another type is not a reply to m.
<1>1. \A n \in sent : n.type # "Paste" => x # Continue(n)
  BY DEF Continue, QueueInv, OneMessagePerRequest
<1>2. ASSUME NEW n \in inbox, OnCopyBegin(n)
      PROVE  FALSE
  BY <1>1, <1>2 DEF OnCopyBegin, Take, SendIf, QueueInv, RingInSent
<1>3. ASSUME NEW n \in inbox, OnPaste(n)
      PROVE  /\ x = PasteReply(last_clipboard_writers'[SessionOfMessage(m)], m)
             /\ copies_in_progress'[SessionOfMessage(m)] = NoRequest
  <2>1. /\ copies_in_progress[SessionOfMessage(n)] = NoRequest
        /\ x = PasteReply(last_clipboard_writers[SessionOfMessage(n)], n)
    BY <1>3 DEF OnPaste, SendIf
  <2>2. n = m
    BY <2>1 DEF PasteReply, QueueInv, RingInSent, OneMessagePerRequest
  <2> QED
    BY <1>3, <2>1, <2>2 DEF OnPaste
<1>4. ASSUME NEW n \in inbox, OnCopyEnd(n)
      PROVE  /\ x = PasteReply(last_clipboard_writers'[SessionOfMessage(m)], m)
             /\ copies_in_progress'[SessionOfMessage(m)] = NoRequest
  <2> DEFINE s == SessionOfMessage(n)
  <2>1. s \in Session
    BY MessageFields DEF TypeOK
  <2>2. x # Continue(n)
    BY <1>1, <1>4 DEF OnCopyEnd, Take, QueueInv, RingInSent
  <2>3. EndCopy(n)
    BY <1>4, <2>2 DEF OnCopyEnd, EndWithoutCopy, NullConnectionInDrain, MemoryLost, SendIf
  <2>4. x \notin resumed_copy(s)
    <3>1. CASE copies_waiting[s] = <<>>
      BY <3>1 DEF resumed_copy
    <3>2. CASE copies_waiting[s] # <<>>
      <4>1. Head(copies_waiting[s]) \in ToSet(copies_waiting[s])
        BY <2>1, <3>2, TailElements DEF TypeOK
      <4>2. SettledIn(Head(copies_waiting[s]).message, "CopyBegin", s)
        BY <2>1, <4>1 DEF QueueInv, CopiesSettled
      <4> QED
        BY <1>1, <3>2, <4>2 DEF resumed_copy, SendIf, SettledIn
    <3> QED
      BY <3>1, <3>2
  <2>5. x \in judged_pastes(n)
    BY <2>2, <2>3, <2>4 DEF EndCopy, SendIf
  <2>6. PICK e \in ToSet(pastes_waiting[s]) : x = PasteReply(set_last_copy(n), e.message)
    BY <2>5 DEF judged_pastes
  <2>7. SettledIn(e.message, "Paste", s)
    BY <2>1, <2>6 DEF QueueInv, PastesSettled
  <2>8. e.message = m
    BY <2>6, <2>7 DEF PasteReply, QueueInv, OneMessagePerRequest, SettledIn
  <2>9. last_clipboard_writers'[s] = set_last_copy(n) /\ copies_in_progress'[s] = NoRequest
    BY <2>1, <2>3 DEF EndCopy, copies_left, TypeOK
  <2> QED
    BY <2>6, <2>7, <2>8, <2>9 DEF SettledIn
<1>5. replies' # replies
  OBVIOUS
<1> QED
  BY <1>2, <1>3, <1>4, <1>5 DEF Next, Handler, Environment, OnConnection, ServiceDown,
     ServiceUp, ProcessExit, Send, service_vars

\* Every answer to a paste is the verdict on the writer recorded at that moment,
\* and leaves while no copy of the session is in progress.
THEOREM PastesJudgedCorrect == Spec => PastesJudgedOnRecordedWriter
<1>1. TypeOK /\ QueueInv /\ [Next]_service_vars => [JudgedOnRecordedWriter]_service_vars
  BY PastesJudgedStep
<1> QED
  BY <1>1, QueuesCorrect, PTL DEF Spec, PastesJudgedOnRecordedWriter

------------------------------------------------------------------------------
(***************************************************************************)
(* One answer per request.  What is answered left the ring, what waits is not *)
(* answered, and it waits in one position.                                  *)
(***************************************************************************)
WaitingIn(s) == ToSet(copies_waiting[s]) \cup ToSet(pastes_waiting[s])

RepliesSettled == \A x \in replies : \E m \in sent \ inbox : m.request = x.request

WaitingUnanswered ==
    \A s \in Session : \A e \in WaitingIn(s) : ~Replied(e.message.request)

OnePosition(q) == \A i, j \in DOMAIN q : q[i].message = q[j].message => i = j

OnePositionEach ==
    \A s \in Session : OnePosition(copies_waiting[s]) /\ OnePosition(pastes_waiting[s])

OneReply == \A x, y \in replies : x.request = y.request => x = y

ReplyInv == RepliesSettled /\ WaitingUnanswered /\ OnePositionEach /\ OneReply

\* Messages that left the ring, or are in it, are told apart by their request.
LEMMA SameRequest ==
    ASSUME QueueInv, NEW m \in sent, NEW n \in sent, m.request = n.request
    PROVE  m = n
  BY DEF QueueInv, OneMessagePerRequest

LEMMA WaitingSettled ==
    ASSUME QueueInv, NEW s \in Session, NEW e \in WaitingIn(s)
    PROVE  /\ e.message \in sent \ inbox
           /\ SessionOfMessage(e.message) = s
           /\ e \in ToSet(copies_waiting[s]) => e.message.type = "CopyBegin"
           /\ e \in ToSet(pastes_waiting[s]) => e.message.type = "Paste"
  BY DEF QueueInv, CopiesSettled, PastesSettled, SettledIn, WaitingIn

LEMMA InRingUnanswered ==
    ASSUME QueueInv, ReplyInv, NEW m \in inbox
    PROVE  ~Replied(m.request)
  BY SameRequest DEF QueueInv, RingInSent, ReplyInv, RepliesSettled, Replied

\* New replies to messages that left the ring, and were not answered before.
LEMMA RepliesGrow ==
    ASSUME QueueInv, ReplyInv, NEW N, replies' = replies \cup N,
           sent \ inbox \subseteq sent' \ inbox',
           \A x \in N : ~Replied(x.request) /\ \E m \in sent' \ inbox' : m.request = x.request,
           \A x, y \in N : x.request = y.request => x = y
    PROVE  RepliesSettled' /\ OneReply'
  BY DEF ReplyInv, RepliesSettled, OneReply, Replied

LEMMA OnePositionAppend ==
    ASSUME NEW q \in Seq(Entry), NEW e \in Entry, OnePosition(q),
           \A d \in ToSet(q) : d.message # e.message
    PROVE  OnePosition(Append(q, e))
<1>1. \A i \in DOMAIN q : q[i] \in ToSet(q)
  BY DEF ToSet
<1> QED
  BY <1>1, AppendElements DEF OnePosition

LEMMA OnePositionTail ==
    ASSUME NEW q \in Seq(Entry), q # <<>>, OnePosition(q)
    PROVE  /\ OnePosition(Tail(q))
           /\ \A e \in ToSet(Tail(q)) : e.message # Head(q).message
<1>1. \A i \in DOMAIN Tail(q) : i \in Nat /\ i > 0
  OBVIOUS
<1>2. OnePosition(Tail(q))
  BY <1>1, TailElements DEF OnePosition
<1>3. \A i \in DOMAIN Tail(q) : Tail(q)[i].message # Head(q).message
  BY <1>1, TailElements DEF OnePosition
<1> QED
  BY <1>2, <1>3 DEF ToSet

LEMMA OnCopyBeginReplies ==
    ASSUME TypeOK, QueueInv, ReplyInv, NEW m \in inbox, OnCopyBegin(m)
    PROVE  ReplyInv'
<1> DEFINE s == SessionOfMessage(m)
           c == find_connection(ProcessOf[m.request])
           e == [message |-> m, connection |-> c]
           r == Continue(m)
<1>1. m \in Message /\ s \in Session /\ m \in sent
  BY MessageFields DEF TypeOK, QueueInv, RingInSent
<1>2. sent' = sent /\ inbox' = inbox \ {m} /\ pastes_waiting' = pastes_waiting
  BY DEF OnCopyBegin, Take
<1>3. \A t \in Session : \A d \in WaitingIn(t) : d.message # m /\ d.message.request # m.request
  BY <1>1, WaitingSettled, SameRequest
<1>4. CASE copies_in_progress[s] = NoRequest
  <2>1. copies_waiting' = copies_waiting /\ replies' = replies \cup SendIf(c, r)
    BY <1>4 DEF OnCopyBegin
  <2>2. \A x \in SendIf(c, r) : x = r /\ x.request = m.request
    BY DEF SendIf, Continue
  <2>3. RepliesSettled' /\ OneReply'
    <3> DEFINE N == SendIf(c, r)
    <3>1. \A x \in N : ~Replied(x.request)
      BY <2>2, InRingUnanswered
    <3>2. \A x \in N : \E n \in sent' \ inbox' : n.request = x.request
      BY <1>1, <1>2, <2>2
    <3>3. \A x, y \in N : x = y
      BY <2>2
    <3>4. replies' = replies \cup N /\ sent \ inbox \subseteq sent' \ inbox'
      BY <1>2, <2>1
    <3> HIDE DEF N
    <3> QED
      BY <3>1, <3>2, <3>3, <3>4, RepliesGrow
  <2>4. WaitingUnanswered' /\ OnePositionEach'
    BY <1>2, <1>3, <2>1, <2>2
       DEF ReplyInv, WaitingUnanswered, OnePositionEach, OnePosition, WaitingIn, Replied
  <2> QED
    BY <2>3, <2>4 DEF ReplyInv
<1>5. CASE copies_in_progress[s] # NoRequest
  <2>1. replies' = replies /\ copies_waiting' = [copies_waiting EXCEPT ![s] = Append(@, e)]
    BY <1>5 DEF OnCopyBegin
  <2>2. e \in Entry /\ copies_waiting[s] \in Seq(Entry)
    BY <1>1, EntryType DEF TypeOK
  <2>3. \A t \in Session : copies_waiting'[t] =
            IF t = s THEN Append(copies_waiting[s], e) ELSE copies_waiting[t]
    BY <1>1, <2>1 DEF TypeOK
  <2>4. OnePosition(Append(copies_waiting[s], e))
    BY <1>1, <1>3, <2>2, OnePositionAppend DEF ReplyInv, OnePositionEach, WaitingIn
  <2>5. OnePositionEach'
    BY <1>2, <2>3, <2>4 DEF ReplyInv, OnePositionEach, OnePosition
  <2>6. ToSet(Append(copies_waiting[s], e)) = ToSet(copies_waiting[s]) \cup {e}
    BY <2>2, AppendElements
  <2>7. ~Replied(e.message.request)
    BY InRingUnanswered
  <2>8. WaitingUnanswered'
    BY <1>2, <2>1, <2>3, <2>6, <2>7 DEF ReplyInv, WaitingUnanswered, WaitingIn, Replied
  <2>9. RepliesSettled' /\ OneReply'
    BY <1>2, <2>1 DEF ReplyInv, RepliesSettled, OneReply
  <2> QED
    BY <2>5, <2>8, <2>9 DEF ReplyInv
<1> QED
  BY <1>4, <1>5

LEMMA OnPasteReplies ==
    ASSUME TypeOK, QueueInv, ReplyInv, NEW m \in inbox, OnPaste(m)
    PROVE  ReplyInv'
<1> DEFINE s == SessionOfMessage(m)
           c == find_connection(ProcessOf[m.request])
           e == [message |-> m, connection |-> c]
           r == PasteReply(last_clipboard_writers[s], m)
<1>1. m \in Message /\ s \in Session /\ m \in sent
  BY MessageFields DEF TypeOK, QueueInv, RingInSent
<1>2. sent' = sent /\ inbox' = inbox \ {m} /\ copies_waiting' = copies_waiting
  BY DEF OnPaste, Take
<1>3. \A t \in Session : \A d \in WaitingIn(t) : d.message # m /\ d.message.request # m.request
  BY <1>1, WaitingSettled, SameRequest
<1>4. CASE copies_in_progress[s] = NoRequest
  <2>1. pastes_waiting' = pastes_waiting /\ replies' = replies \cup SendIf(c, r)
    BY <1>4 DEF OnPaste
  <2>2. \A x \in SendIf(c, r) : x = r /\ x.request = m.request
    BY DEF SendIf, PasteReply
  <2>3. RepliesSettled' /\ OneReply'
    BY <1>1, <1>2, <2>1, <2>2, InRingUnanswered, RepliesGrow
  <2>4. WaitingUnanswered' /\ OnePositionEach'
    BY <1>2, <1>3, <2>1, <2>2
       DEF ReplyInv, WaitingUnanswered, OnePositionEach, OnePosition, WaitingIn, Replied
  <2> QED
    BY <2>3, <2>4 DEF ReplyInv
<1>5. CASE copies_in_progress[s] # NoRequest
  <2>1. replies' = replies /\ pastes_waiting' = [pastes_waiting EXCEPT ![s] = Append(@, e)]
    BY <1>5 DEF OnPaste
  <2>2. e \in Entry /\ pastes_waiting[s] \in Seq(Entry)
    BY <1>1, EntryType DEF TypeOK
  <2>3. \A t \in Session : pastes_waiting'[t] =
            IF t = s THEN Append(pastes_waiting[s], e) ELSE pastes_waiting[t]
    BY <1>1, <2>1 DEF TypeOK
  <2>4. OnePosition(Append(pastes_waiting[s], e))
    BY <1>1, <1>3, <2>2, OnePositionAppend DEF ReplyInv, OnePositionEach, WaitingIn
  <2>5. OnePositionEach'
    BY <1>2, <2>3, <2>4 DEF ReplyInv, OnePositionEach, OnePosition
  <2>6. ToSet(Append(pastes_waiting[s], e)) = ToSet(pastes_waiting[s]) \cup {e}
    BY <2>2, AppendElements
  <2>7. ~Replied(e.message.request)
    BY InRingUnanswered
  <2>8. WaitingUnanswered'
    BY <1>2, <2>1, <2>3, <2>6, <2>7 DEF ReplyInv, WaitingUnanswered, WaitingIn, Replied
  <2>9. RepliesSettled' /\ OneReply'
    BY <1>2, <2>1 DEF ReplyInv, RepliesSettled, OneReply
  <2> QED
    BY <2>5, <2>8, <2>9 DEF ReplyInv
<1> QED
  BY <1>4, <1>5

\* N answers waiting pastes of P, all judged on the writer w.
AnswersTo(N, P, w) == \A x \in N : \E e \in P : x = PasteReply(w, e.message)

\* Waiting pastes that are answered together: each was unanswered, and two
\* answers to the same request are the same answer.
LEMMA JudgedTogether ==
    ASSUME TypeOK, QueueInv, ReplyInv, NEW s \in Session, NEW w,
           NEW P \in SUBSET ToSet(pastes_waiting[s]),
           NEW N, AnswersTo(N, P, w)
    PROVE  /\ \A x \in N : ~Replied(x.request)
           /\ \A x \in N : \E e \in P : x.request = e.message.request
           /\ \A x, y \in N : x.request = y.request => x = y
<1>1. \A e \in P : e \in WaitingIn(s) /\ e.message \in sent
  BY WaitingSettled DEF WaitingIn
<1>2. \A e \in P : PasteReply(w, e.message).request = e.message.request
  BY DEF PasteReply
<1>3. \A e \in P : ~Replied(e.message.request)
  BY <1>1 DEF ReplyInv, WaitingUnanswered
<1>4. \A d, e \in P : d.message.request = e.message.request => d.message = e.message
  BY <1>1, SameRequest
<1>5. \A x \in N : \E e \in P : x = PasteReply(w, e.message) /\ x.request = e.message.request
  BY <1>2 DEF AnswersTo
<1>6. \A x \in N : ~Replied(x.request)
  BY <1>3, <1>5
<1>7. \A x, y \in N : x.request = y.request => x = y
  BY <1>4, <1>5
<1> QED
  BY <1>5, <1>6, <1>7

LEMMA EndCopyReplies ==
    ASSUME TypeOK, QueueInv, ReplyInv, NEW m \in inbox, OnCopyEnd(m), EndCopy(m)
    PROVE  ReplyInv'
<1> DEFINE s == SessionOfMessage(m)
           J == judged_pastes(m)
           R == resumed_copy(s)
           C == SendIf(find_connection(ProcessOf[m.request]), Continue(m))
           N == J \cup R \cup C
           waiting == copies_waiting[s]
<1>1. /\ s \in Session /\ m \in sent
      /\ waiting \in Seq(Entry)
  BY MessageFields DEF TypeOK, QueueInv, RingInSent
<1>2. sent' = sent /\ inbox' = inbox \ {m}
  BY DEF OnCopyEnd, Take
<1>3. /\ replies' = replies \cup N
      /\ \A t \in Session : copies_waiting'[t] =
            IF t = s /\ waiting # <<>> THEN Tail(waiting) ELSE copies_waiting[t]
      /\ \A t \in Session : pastes_waiting'[t] = IF t = s THEN <<>> ELSE pastes_waiting[t]
  BY <1>1 DEF EndCopy, pastes_left, TypeOK
\* Where each of the new replies comes from.
<1>4. /\ \A x \in J : ~Replied(x.request)
      /\ \A x \in J : \E e \in ToSet(pastes_waiting[s]) : x.request = e.message.request
      /\ \A x, y \in J : x.request = y.request => x = y
  <2>1. AnswersTo(J, ToSet(pastes_waiting[s]), set_last_copy(m))
    BY DEF judged_pastes, AnswersTo
  <2> HIDE DEF J
  <2> QED
    BY <1>1, <2>1, JudgedTogether
<1>7. \A x \in R : /\ waiting # <<>>
                   /\ x = Continue(Head(waiting).message)
                   /\ x.request = Head(waiting).message.request
                   /\ Head(waiting) \in ToSet(waiting)
  BY <1>1, TailElements DEF resumed_copy, SendIf, Continue
<1>8. \A x \in C : x = Continue(m) /\ x.request = m.request
  BY DEF SendIf, Continue
\* They answer different messages.
<1>9. \A e \in ToSet(pastes_waiting[s]) :
         /\ e \in WaitingIn(s) /\ e.message \in sent \ inbox
         /\ e.message.type = "Paste" /\ SessionOfMessage(e.message) = s
  BY <1>1, WaitingSettled DEF WaitingIn
<1>10. \A e \in ToSet(waiting) :
         /\ e \in WaitingIn(s) /\ e.message \in sent \ inbox
         /\ e.message.type = "CopyBegin" /\ SessionOfMessage(e.message) = s
  BY <1>1, WaitingSettled DEF WaitingIn
<1>11. \A x \in J, y \in R : x.request # y.request
  BY <1>4, <1>7, <1>9, <1>10, SameRequest
<1>12. \A x \in J, y \in C : x.request # y.request
  BY <1>1, <1>4, <1>8, <1>9, SameRequest
<1>13. \A x \in R, y \in C : x.request # y.request
  BY <1>1, <1>7, <1>8, <1>10, SameRequest
<1>14. \A x, y \in N : x.request = y.request => x = y
  BY <1>4, <1>7, <1>8, <1>11, <1>12, <1>13
<1>15. \A x \in N : ~Replied(x.request)
  <2>1. \A x \in R : ~Replied(x.request)
    BY <1>1, <1>7, <1>10 DEF ReplyInv, WaitingUnanswered
  <2>2. \A x \in C : ~Replied(x.request)
    BY <1>8, InRingUnanswered
  <2> QED
    BY <1>4, <2>1, <2>2
<1>16. \A x \in N : \E n \in sent' \ inbox' : n.request = x.request
  <2>1. \A x \in J : \E n \in sent' \ inbox' : n.request = x.request
    BY <1>2, <1>4, <1>9
  <2>2. \A x \in R : \E n \in sent' \ inbox' : n.request = x.request
    BY <1>2, <1>7, <1>10
  <2>3. \A x \in C : \E n \in sent' \ inbox' : n.request = x.request
    BY <1>1, <1>2, <1>8
  <2> QED
    BY <2>1, <2>2, <2>3
<1>17. RepliesSettled' /\ OneReply'
  <2>1. sent \ inbox \subseteq sent' \ inbox'
    BY <1>2
  <2> HIDE DEF N
  <2> QED
    BY <1>3, <1>14, <1>15, <1>16, <2>1, RepliesGrow
<1>18. OnePositionEach'
  <2>1. waiting # <<>> => OnePosition(Tail(waiting))
    BY <1>1, OnePositionTail DEF ReplyInv, OnePositionEach
  <2>2. OnePosition(<<>>)
    BY DEF OnePosition
  <2> QED
    BY <1>3, <2>1, <2>2 DEF ReplyInv, OnePositionEach, OnePosition
<1>19. WaitingUnanswered'
  <2> SUFFICES ASSUME NEW t \in Session,
                      NEW e \in ToSet(copies_waiting'[t]) \cup ToSet(pastes_waiting'[t]),
                      NEW x \in replies', x.request = e.message.request
               PROVE  FALSE
    BY DEF WaitingUnanswered, WaitingIn, Replied
  <2>1. e \in WaitingIn(t)
    <3>1. waiting # <<>> => ToSet(Tail(waiting)) \subseteq ToSet(waiting)
      BY <1>1, TailElements
    <3>2. ToSet(<<>>) = {}
      BY DEF ToSet
    <3> QED
      BY <1>3, <3>1, <3>2 DEF WaitingIn
  <2>2. e.message \in sent \ inbox /\ SessionOfMessage(e.message) = t
    BY <2>1, WaitingSettled
  <2>3. x \in N
    BY <1>3, <2>1 DEF ReplyInv, WaitingUnanswered, Replied
  <2>4. CASE x \in J
    <3>1. e.message.type = "Paste" /\ t = s
      BY <1>4, <1>9, <2>2, <2>4, SameRequest
    <3>2. e \in ToSet(copies_waiting[s])
      <4>1. waiting # <<>> => ToSet(Tail(waiting)) \subseteq ToSet(waiting)
        BY <1>1, TailElements
      <4>2. ToSet(<<>>) = {}
        BY DEF ToSet
      <4> QED
        BY <1>3, <3>1, <4>1, <4>2
    <3> QED
      BY <1>10, <3>1, <3>2
  <2>5. CASE x \in R
    <3>1. e.message = Head(waiting).message /\ t = s /\ waiting # <<>>
      BY <1>7, <1>10, <2>2, <2>5, SameRequest
    <3>2. \A d \in ToSet(Tail(waiting)) : d.message # Head(waiting).message
      BY <1>1, <3>1, OnePositionTail DEF ReplyInv, OnePositionEach
    <3>3. ToSet(<<>>) = {}
      BY DEF ToSet
    <3> QED
      BY <1>3, <3>1, <3>2, <3>3
  <2>6. CASE x \in C
    BY <1>1, <1>8, <2>2, <2>6, SameRequest
  <2> QED
    BY <2>3, <2>4, <2>5, <2>6
<1> QED
  BY <1>17, <1>18, <1>19 DEF ReplyInv

LEMMA OnCopyEndReplies ==
    ASSUME TypeOK, QueueInv, ReplyInv, NEW m \in inbox, OnCopyEnd(m)
    PROVE  ReplyInv'
<1> DEFINE s == SessionOfMessage(m)
           c == find_connection(ProcessOf[m.request])
           r == Continue(m)
<1>1. s \in Session /\ m \in sent
  BY MessageFields DEF TypeOK, QueueInv, RingInSent
<1>2. sent' = sent /\ inbox' = inbox \ {m}
  BY DEF OnCopyEnd, Take
<1>3. CASE EndWithoutCopy(m)
  <2>1. /\ copies_waiting' = copies_waiting /\ pastes_waiting' = pastes_waiting
        /\ replies' = replies \cup SendIf(c, r)
    BY <1>3 DEF EndWithoutCopy
  <2>2. \A x \in SendIf(c, r) : x = r /\ x.request = m.request
    BY DEF SendIf, Continue
  <2>3. \A t \in Session : \A d \in WaitingIn(t) : d.message.request # m.request
    BY <1>1, WaitingSettled, SameRequest
  <2>4. RepliesSettled' /\ OneReply'
    BY <1>1, <1>2, <2>1, <2>2, InRingUnanswered, RepliesGrow
  <2>5. WaitingUnanswered' /\ OnePositionEach'
    BY <2>1, <2>2, <2>3
       DEF ReplyInv, WaitingUnanswered, OnePositionEach, OnePosition, WaitingIn, Replied
  <2> QED
    BY <2>4, <2>5 DEF ReplyInv
<1>4. CASE EndCopy(m)
  BY <1>4, EndCopyReplies
<1>5. CASE NullConnectionInDrain(m)
  <2> DEFINE queue == pastes_waiting[s]
             w == set_last_copy(m)
  <2>1. PICK i \in DOMAIN queue :
           replies' = replies \cup {PasteReply(w, queue[j].message) : j \in 1 .. i - 1}
    BY <1>5 DEF NullConnectionInDrain
  <2> DEFINE P == {queue[j] : j \in 1 .. i - 1}
             N == {PasteReply(w, e.message) : e \in P}
  <2>2. P \in SUBSET ToSet(queue)
    <3>1. queue \in Seq(Entry)
      BY <1>1 DEF TypeOK
    <3> QED
      BY <3>1, Elements DEF ToSet
  <2>3. replies' = replies \cup N
    BY <2>1
  <2>4. /\ \A x \in N : ~Replied(x.request)
        /\ \A x \in N : \E e \in P : x.request = e.message.request
        /\ \A x, y \in N : x.request = y.request => x = y
    <3>1. AnswersTo(N, P, w)
      BY DEF AnswersTo
    <3> HIDE DEF N, P
    <3> QED
      BY <1>1, <2>2, <3>1, JudgedTogether
  <2>5. \A e \in P : e.message \in sent' \ inbox'
    BY <1>1, <1>2, <2>2, WaitingSettled DEF WaitingIn
  <2>6. RepliesSettled' /\ OneReply'
    <3>1. sent \ inbox \subseteq sent' \ inbox'
      BY <1>2
    <3>2. \A x \in N : \E n \in sent' \ inbox' : n.request = x.request
      BY <2>4, <2>5
    <3> HIDE DEF N
    <3> QED
      BY <2>3, <2>4, <3>1, <3>2, RepliesGrow
  <2>7. WaitingUnanswered' /\ OnePositionEach'
    BY <1>5 DEF NullConnectionInDrain, MemoryLost, WaitingUnanswered, WaitingIn, ToSet,
                OnePositionEach, OnePosition
  <2> QED
    BY <2>6, <2>7 DEF ReplyInv
<1> QED
  BY <1>3, <1>4, <1>5 DEF OnCopyEnd

LEMMA ReplyInit == Init => ReplyInv
  BY DEF Init, ReplyInv, RepliesSettled, WaitingUnanswered, OnePositionEach, OnePosition,
         OneReply, WaitingIn, ToSet

LEMMA ReplyStep == TypeOK /\ QueueInv /\ ReplyInv /\ [Next]_service_vars => ReplyInv'
<1> SUFFICES ASSUME TypeOK, QueueInv, ReplyInv, [Next]_service_vars
             PROVE  ReplyInv'
  OBVIOUS
<1>1. CASE \E m \in inbox : OnCopyBegin(m)
  BY <1>1, OnCopyBeginReplies
<1>2. CASE \E m \in inbox : OnCopyEnd(m)
  BY <1>2, OnCopyEndReplies
<1>3. CASE \E m \in inbox : OnPaste(m)
  BY <1>3, OnPasteReplies
<1>4. CASE \/ \E p \in Process : OnConnection(p) \/ ProcessExit(p)
           \/ \E m \in Message : Send(m)
           \/ ServiceUp \/ UNCHANGED service_vars
  <2>1. UNCHANGED <<copies_waiting, pastes_waiting, replies>>
    BY <1>4 DEF OnConnection, ProcessExit, Send, ServiceUp, service_vars
  <2>2. RepliesSettled'
    BY <2>1, SettledGrows DEF ReplyInv, RepliesSettled
  <2> QED
    BY <2>1, <2>2 DEF ReplyInv, WaitingUnanswered, OnePositionEach, OnePosition, OneReply,
                      WaitingIn, Replied
<1>5. CASE ServiceDown
  <2>1. replies' = replies
    BY <1>5 DEF ServiceDown
  <2>2. WaitingUnanswered' /\ OnePositionEach'
    BY <1>5 DEF ServiceDown, MemoryLost, WaitingUnanswered, WaitingIn, ToSet,
                OnePositionEach, OnePosition
  <2>3. RepliesSettled' /\ OneReply'
    BY <2>1, SettledGrows DEF ReplyInv, RepliesSettled, OneReply
  <2> QED
    BY <2>2, <2>3 DEF ReplyInv
<1> QED
  BY <1>1, <1>2, <1>3, <1>4, <1>5 DEF Next, Handler, Environment

LEMMA RepliesCorrect == Spec => [](TypeOK /\ QueueInv /\ ReplyInv)
  BY TypeInit, TypeStep, QueueInit, QueueStep, ReplyInit, ReplyStep, PTL DEF Spec

\* Every request is in one place only: in the ring, in one position of one
\* queue, or answered, and it is answered once.
THEOREM RequestsCorrect == Spec => []RequestsInOnePlace
<1>1. ASSUME TypeOK, QueueInv, ReplyInv
      PROVE  RequestsInOnePlace
  <2>1. \A s \in Session : \A i \in DOMAIN copies_waiting[s] :
           /\ copies_waiting[s][i] \in WaitingIn(s)
           /\ copies_waiting[s][i].message \in sent \ inbox
           /\ copies_waiting[s][i].message.type = "CopyBegin"
           /\ SessionOfMessage(copies_waiting[s][i].message) = s
    BY <1>1, WaitingSettled DEF WaitingIn, ToSet
  <2>2. \A s \in Session : \A i \in DOMAIN pastes_waiting[s] :
           /\ pastes_waiting[s][i] \in WaitingIn(s)
           /\ pastes_waiting[s][i].message \in sent \ inbox
           /\ pastes_waiting[s][i].message.type = "Paste"
           /\ SessionOfMessage(pastes_waiting[s][i].message) = s
    BY <1>1, WaitingSettled DEF WaitingIn, ToSet
  <2>3. ASSUME NEW r \in Request
        PROVE  /\ ~(InInbox(r) /\ InCopies(r)) /\ ~(InInbox(r) /\ InPastes(r))
               /\ ~(InInbox(r) /\ Replied(r))  /\ ~(InCopies(r) /\ InPastes(r))
               /\ ~(InCopies(r) /\ Replied(r)) /\ ~(InPastes(r) /\ Replied(r))
    <3>1. inbox \subseteq sent
      BY <1>1 DEF QueueInv, RingInSent
    <3>2. ~(InInbox(r) /\ InCopies(r))
      BY <1>1, <2>1, <3>1, SameRequest DEF InInbox, InCopies
    <3>3. ~(InInbox(r) /\ InPastes(r))
      BY <1>1, <2>2, <3>1, SameRequest DEF InInbox, InPastes
    <3>4. ~(InInbox(r) /\ Replied(r))
      BY <1>1, InRingUnanswered DEF InInbox
    <3>5. ~(InCopies(r) /\ InPastes(r))
      BY <1>1, <2>1, <2>2, SameRequest DEF InCopies, InPastes
    <3>6. ~(InCopies(r) /\ Replied(r))
      BY <1>1, <2>1 DEF InCopies, ReplyInv, WaitingUnanswered
    <3>7. ~(InPastes(r) /\ Replied(r))
      BY <1>1, <2>2 DEF InPastes, ReplyInv, WaitingUnanswered
    <3> QED
      BY <3>2, <3>3, <3>4, <3>5, <3>6, <3>7
  <2>4. \A s, t \in Session :
           \A i \in DOMAIN copies_waiting[s], j \in DOMAIN copies_waiting[t] :
              copies_waiting[s][i].message.request = copies_waiting[t][j].message.request
                 => s = t /\ i = j
    BY <1>1, <2>1, SameRequest DEF ReplyInv, OnePositionEach, OnePosition
  <2>5. \A s, t \in Session :
           \A i \in DOMAIN pastes_waiting[s], j \in DOMAIN pastes_waiting[t] :
              pastes_waiting[s][i].message.request = pastes_waiting[t][j].message.request
                 => s = t /\ i = j
    BY <1>1, <2>2, SameRequest DEF ReplyInv, OnePositionEach, OnePosition
  <2> QED
    BY <1>1, <2>3, <2>4, <2>5 DEF RequestsInOnePlace, ReplyInv, OneReply
<1> QED
  BY <1>1, RepliesCorrect, PTL

------------------------------------------------------------------------------
(***************************************************************************)
(* Nothing is forgotten.  A waiting entry lacks a connection only when its    *)
(* process is gone, so whoever is alive is answered when its turn comes.      *)
(***************************************************************************)
NullOnlyForDead ==
    \A s \in Session : \A e \in WaitingIn(s) :
        e.connection \/ ProcessOf[e.message.request] \notin alive

DownAfterCrash == running \/ crashes # 0

Waiting(m) == \E s \in Session : \E e \in WaitingIn(s) : e.message = m

Accounted ==
    crashes = 0 =>
        \A m \in sent : ProcessOf[m.request] \in alive =>
            m \in inbox \/ Waiting(m) \/ Replied(m.request)

ForgetInv == NullOnlyForDead /\ DownAfterCrash /\ Accounted

LEMMA TailCovers ==
    ASSUME NEW S, NEW q \in Seq(S), q # <<>>
    PROVE  ToSet(q) = {Head(q)} \cup ToSet(Tail(q))
<1>1. \A i \in DOMAIN q : i = 1 \/ (i - 1 \in DOMAIN Tail(q) /\ Tail(q)[i - 1] = q[i])
  OBVIOUS
<1>2. 1 \in DOMAIN q /\ Head(q) = q[1]
  OBVIOUS
<1>3. ToSet(Tail(q)) \subseteq ToSet(q)
  BY TailElements
<1>4. Head(q) \in ToSet(q)
  BY <1>2 DEF ToSet
<1>5. ASSUME NEW e \in ToSet(q) PROVE e = Head(q) \/ e \in ToSet(Tail(q))
  <2>1. PICK i \in DOMAIN q : q[i] = e
    BY <1>5 DEF ToSet
  <2> QED
    BY <1>1, <1>2, <2>1 DEF ToSet
<1> QED
  BY <1>3, <1>4, <1>5

\* Enough for a step that adds entries, answers the rest and leaves the
\* processes alone.
LEMMA AccountedKept ==
    ASSUME ForgetInv, NEW m \in inbox, sent' = sent, inbox' = inbox \ {m},
           alive' = alive, crashes' = crashes, replies \subseteq replies',
           \A n \in sent : Waiting(n) => Waiting(n)' \/ Replied(n.request)'
                                            \/ ProcessOf[n.request] \notin alive,
           Waiting(m)' \/ Replied(m.request)' \/ ProcessOf[m.request] \notin alive
    PROVE  Accounted'
  BY DEF ForgetInv, Accounted, Replied

LEMMA OnCopyBeginKeeps ==
    ASSUME TypeOK, ForgetInv, NEW m \in inbox, OnCopyBegin(m)
    PROVE  ForgetInv'
<1> DEFINE s == SessionOfMessage(m)
           c == find_connection(ProcessOf[m.request])
           e == [message |-> m, connection |-> c]
<1>1. m \in Message /\ s \in Session
  BY MessageFields DEF TypeOK
<1>2. /\ sent' = sent /\ inbox' = inbox \ {m} /\ alive' = alive /\ crashes' = crashes
      /\ running' = running /\ pastes_waiting' = pastes_waiting
  BY DEF OnCopyBegin, Take
<1>3. c \/ ProcessOf[m.request] \notin alive
  BY DEF find_connection
<1>4. CASE copies_in_progress[s] = NoRequest
  <2>1. copies_waiting' = copies_waiting /\ replies' = replies \cup SendIf(c, Continue(m))
    BY <1>4 DEF OnCopyBegin
  <2>2. Replied(m.request)' \/ ProcessOf[m.request] \notin alive
    <3>1. c => Continue(m) \in replies'
      BY <2>1 DEF SendIf
    <3>2. Continue(m).request = m.request
      BY DEF Continue
    <3> QED
      BY <1>3, <3>1, <3>2 DEF Replied
  <2>3. \A n : Waiting(n) => Waiting(n)'
    BY <1>2, <2>1 DEF Waiting, WaitingIn
  <2>4. Accounted'
    BY <1>2, <2>1, <2>2, <2>3, AccountedKept
  <2> QED
    BY <1>2, <2>1, <2>4 DEF ForgetInv, NullOnlyForDead, DownAfterCrash, WaitingIn
<1>5. CASE copies_in_progress[s] # NoRequest
  <2>1. replies' = replies /\ copies_waiting' = [copies_waiting EXCEPT ![s] = Append(@, e)]
    BY <1>5 DEF OnCopyBegin
  <2>2. e \in Entry /\ copies_waiting[s] \in Seq(Entry)
    BY <1>1, EntryType DEF TypeOK
  <2>3. \A t \in Session : ToSet(copies_waiting'[t]) =
            IF t = s THEN ToSet(copies_waiting[s]) \cup {e} ELSE ToSet(copies_waiting[t])
    <3>1. \A t \in Session : copies_waiting'[t] =
              IF t = s THEN Append(copies_waiting[s], e) ELSE copies_waiting[t]
      BY <1>1, <2>1 DEF TypeOK
    <3>2. ToSet(Append(copies_waiting[s], e)) = ToSet(copies_waiting[s]) \cup {e}
      BY <2>2, AppendElements
    <3> QED
      BY <3>1, <3>2
  <2>4. \A n : Waiting(n) => Waiting(n)'
    BY <1>2, <2>3 DEF Waiting, WaitingIn
  <2>5. Waiting(m)'
    <3>1. e \in WaitingIn(s)'
      BY <1>1, <2>3 DEF WaitingIn
    <3>2. e.message = m
      OBVIOUS
    <3> QED
      BY <1>1, <3>1, <3>2 DEF Waiting
  <2>6. Accounted'
    BY <1>2, <2>1, <2>4, <2>5, AccountedKept
  <2>7. NullOnlyForDead'
    BY <1>2, <1>3, <2>3 DEF ForgetInv, NullOnlyForDead, WaitingIn
  <2> QED
    BY <1>2, <2>6, <2>7 DEF ForgetInv, DownAfterCrash
<1> QED
  BY <1>4, <1>5

LEMMA OnPasteKeeps ==
    ASSUME TypeOK, ForgetInv, NEW m \in inbox, OnPaste(m)
    PROVE  ForgetInv'
<1> DEFINE s == SessionOfMessage(m)
           c == find_connection(ProcessOf[m.request])
           e == [message |-> m, connection |-> c]
<1>1. m \in Message /\ s \in Session
  BY MessageFields DEF TypeOK
<1>2. /\ sent' = sent /\ inbox' = inbox \ {m} /\ alive' = alive /\ crashes' = crashes
      /\ running' = running /\ copies_waiting' = copies_waiting
  BY DEF OnPaste, Take
<1>3. c \/ ProcessOf[m.request] \notin alive
  BY DEF find_connection
<1>4. CASE copies_in_progress[s] = NoRequest
  <2>1. /\ pastes_waiting' = pastes_waiting
        /\ replies' = replies \cup SendIf(c, PasteReply(last_clipboard_writers[s], m))
    BY <1>4 DEF OnPaste
  <2>2. Replied(m.request)' \/ ProcessOf[m.request] \notin alive
    <3>1. c => PasteReply(last_clipboard_writers[s], m) \in replies'
      BY <2>1 DEF SendIf
    <3>2. PasteReply(last_clipboard_writers[s], m).request = m.request
      BY DEF PasteReply
    <3> QED
      BY <1>3, <3>1, <3>2 DEF Replied
  <2>3. \A n : Waiting(n) => Waiting(n)'
    BY <1>2, <2>1 DEF Waiting, WaitingIn
  <2>4. Accounted'
    BY <1>2, <2>1, <2>2, <2>3, AccountedKept
  <2> QED
    BY <1>2, <2>1, <2>4 DEF ForgetInv, NullOnlyForDead, DownAfterCrash, WaitingIn
<1>5. CASE copies_in_progress[s] # NoRequest
  <2>1. replies' = replies /\ pastes_waiting' = [pastes_waiting EXCEPT ![s] = Append(@, e)]
    BY <1>5 DEF OnPaste
  <2>2. e \in Entry /\ pastes_waiting[s] \in Seq(Entry)
    BY <1>1, EntryType DEF TypeOK
  <2>3. \A t \in Session : ToSet(pastes_waiting'[t]) =
            IF t = s THEN ToSet(pastes_waiting[s]) \cup {e} ELSE ToSet(pastes_waiting[t])
    <3>1. \A t \in Session : pastes_waiting'[t] =
              IF t = s THEN Append(pastes_waiting[s], e) ELSE pastes_waiting[t]
      BY <1>1, <2>1 DEF TypeOK
    <3>2. ToSet(Append(pastes_waiting[s], e)) = ToSet(pastes_waiting[s]) \cup {e}
      BY <2>2, AppendElements
    <3> QED
      BY <3>1, <3>2
  <2>4. \A n : Waiting(n) => Waiting(n)'
    BY <1>2, <2>3 DEF Waiting, WaitingIn
  <2>5. Waiting(m)'
    <3>1. e \in WaitingIn(s)'
      BY <1>1, <2>3 DEF WaitingIn
    <3>2. e.message = m
      OBVIOUS
    <3> QED
      BY <1>1, <3>1, <3>2 DEF Waiting
  <2>6. Accounted'
    BY <1>2, <2>1, <2>4, <2>5, AccountedKept
  <2>7. NullOnlyForDead'
    BY <1>2, <1>3, <2>3 DEF ForgetInv, NullOnlyForDead, WaitingIn
  <2> QED
    BY <1>2, <2>6, <2>7 DEF ForgetInv, DownAfterCrash
<1> QED
  BY <1>4, <1>5

LEMMA OnCopyEndKeeps ==
    ASSUME TypeOK, ForgetInv, NEW m \in inbox, OnCopyEnd(m)
    PROVE  ForgetInv'
<1> DEFINE s == SessionOfMessage(m)
           c == find_connection(ProcessOf[m.request])
           waiting == copies_waiting[s]
<1>1. /\ s \in Session
      /\ waiting \in Seq(Entry)
  BY MessageFields DEF TypeOK
<1>2. sent' = sent /\ inbox' = inbox \ {m} /\ alive' = alive
  BY DEF OnCopyEnd, Take
<1>3. c \/ ProcessOf[m.request] \notin alive
  BY DEF find_connection
<1>4. SendIf(c, Continue(m)) \subseteq replies' =>
         Replied(m.request)' \/ ProcessOf[m.request] \notin alive
  BY <1>3 DEF SendIf, Replied, Continue
<1>5. CASE EndWithoutCopy(m)
  <2>1. /\ copies_waiting' = copies_waiting /\ pastes_waiting' = pastes_waiting
        /\ running' = running /\ crashes' = crashes
        /\ replies' = replies \cup SendIf(c, Continue(m))
    BY <1>5 DEF EndWithoutCopy
  <2>2. \A n : Waiting(n) => Waiting(n)'
    BY <2>1 DEF Waiting, WaitingIn
  <2>3. Accounted'
    BY <1>2, <1>4, <2>1, <2>2, AccountedKept
  <2> QED
    BY <1>2, <2>1, <2>3 DEF ForgetInv, NullOnlyForDead, DownAfterCrash, WaitingIn
<1>6. CASE EndCopy(m)
  <2>1. /\ running' = running /\ crashes' = crashes
        /\ replies' = replies \cup judged_pastes(m) \cup resumed_copy(s)
                              \cup SendIf(c, Continue(m))
    BY <1>6 DEF EndCopy
  <2>2. \A t \in Session :
           /\ copies_waiting'[t] = IF t = s /\ waiting # <<>> THEN Tail(waiting)
                                   ELSE copies_waiting[t]
           /\ pastes_waiting'[t] = IF t = s THEN <<>> ELSE pastes_waiting[t]
    BY <1>1, <1>6 DEF EndCopy, pastes_left, TypeOK
  <2>3. ToSet(<<>>) = {}
    BY DEF ToSet
  <2>4. waiting # <<>> => ToSet(waiting) = {Head(waiting)} \cup ToSet(Tail(waiting))
    BY <1>1, TailCovers
  <2>5. \A t \in Session : WaitingIn(t)' \subseteq WaitingIn(t)
    BY <2>2, <2>3, <2>4 DEF WaitingIn
  <2>6. NullOnlyForDead'
    BY <1>2, <2>5 DEF ForgetInv, NullOnlyForDead
  <2>7. ASSUME NEW n \in sent, Waiting(n), ProcessOf[n.request] \in alive
        PROVE  Waiting(n)' \/ Replied(n.request)'
    <3>1. PICK t \in Session : \E e \in WaitingIn(t) : e.message = n
      BY <2>7 DEF Waiting
    <3>2. PICK e \in WaitingIn(t) : e.message = n
      BY <3>1
    <3>3. e.connection
      BY <2>7, <3>2 DEF ForgetInv, NullOnlyForDead
    <3>4. CASE e \in ToSet(pastes_waiting[t]) /\ t = s
      <4>1. PasteReply(set_last_copy(m), n) \in replies'
        BY <2>1, <3>2, <3>4 DEF judged_pastes
      <4> QED
        BY <4>1 DEF Replied, PasteReply
    <3>5. CASE waiting # <<>> /\ e = Head(waiting)
      <4>1. Continue(n) \in replies'
        BY <2>1, <3>2, <3>3, <3>5 DEF resumed_copy, SendIf
      <4> QED
        BY <4>1 DEF Replied, Continue
    <3>6. CASE /\ ~(e \in ToSet(pastes_waiting[t]) /\ t = s)
               /\ ~(waiting # <<>> /\ e = Head(waiting))
      <4>1. e \in WaitingIn(t)'
        BY <2>2, <2>3, <2>4, <3>2, <3>6 DEF WaitingIn
      <4> QED
        BY <3>2, <4>1 DEF Waiting
    <3> QED
      BY <3>4, <3>5, <3>6
  <2>8. Accounted'
    BY <1>2, <1>4, <2>1, <2>7, AccountedKept
  <2> QED
    BY <2>1, <2>6, <2>8 DEF ForgetInv, DownAfterCrash
<1>7. CASE NullConnectionInDrain(m)
  <2>1. crashes' # 0
    BY <1>7 DEF NullConnectionInDrain, MemoryLost, TypeOK
  <2>2. NullOnlyForDead'
    BY <1>7 DEF NullConnectionInDrain, MemoryLost, NullOnlyForDead, WaitingIn, ToSet
  <2> QED
    BY <2>1, <2>2 DEF ForgetInv, DownAfterCrash, Accounted
<1> QED
  BY <1>5, <1>6, <1>7 DEF OnCopyEnd

LEMMA EnvironmentKeeps ==
    ASSUME TypeOK, ForgetInv, Environment
    PROVE  ForgetInv'
<1>1. CASE ServiceDown
  <2>1. crashes' # 0
    BY <1>1 DEF ServiceDown, MemoryLost, TypeOK
  <2>2. NullOnlyForDead'
    BY <1>1 DEF ServiceDown, MemoryLost, NullOnlyForDead, WaitingIn, ToSet
  <2> QED
    BY <2>1, <2>2 DEF ForgetInv, DownAfterCrash, Accounted
<1>2. CASE ServiceUp
  BY <1>2 DEF ServiceUp, ForgetInv, DownAfterCrash, Accounted, NullOnlyForDead, WaitingIn
<1>3. CASE \E p \in Process : ProcessExit(p)
  <2>1. /\ UNCHANGED <<copies_waiting, pastes_waiting, running, crashes, inbox, sent, replies>>
        /\ alive' \subseteq alive
    BY <1>3 DEF ProcessExit
  <2> QED
    BY <2>1 DEF ForgetInv, DownAfterCrash, Accounted, NullOnlyForDead, WaitingIn, Waiting, Replied
<1>4. CASE \E m \in Message : Send(m)
  <2>1. PICK m \in Message : Send(m)
    BY <1>4
  <2>2. /\ UNCHANGED <<copies_waiting, pastes_waiting, running, crashes, alive, replies>>
        /\ inbox' = inbox \cup {m} /\ sent' = sent \cup {m}
    BY <2>1 DEF Send
  <2> QED
    BY <2>2 DEF ForgetInv, DownAfterCrash, Accounted, NullOnlyForDead, WaitingIn, Waiting, Replied
<1> QED
  BY <1>1, <1>2, <1>3, <1>4 DEF Environment

LEMMA ForgetInit == Init => ForgetInv
  BY DEF Init, ForgetInv, NullOnlyForDead, DownAfterCrash, Accounted, WaitingIn, ToSet

LEMMA ForgetStep == TypeOK /\ ForgetInv /\ [Next]_service_vars => ForgetInv'
<1> SUFFICES ASSUME TypeOK, ForgetInv, [Next]_service_vars
             PROVE  ForgetInv'
  OBVIOUS
<1>1. CASE \E m \in inbox : OnCopyBegin(m)
  BY <1>1, OnCopyBeginKeeps
<1>2. CASE \E m \in inbox : OnCopyEnd(m)
  BY <1>2, OnCopyEndKeeps
<1>3. CASE \E m \in inbox : OnPaste(m)
  BY <1>3, OnPasteKeeps
<1>4. CASE (\E p \in Process : OnConnection(p)) \/ UNCHANGED service_vars
  <2>1. UNCHANGED <<copies_waiting, pastes_waiting, running, crashes, alive, inbox, sent, replies>>
    BY <1>4 DEF OnConnection, service_vars
  <2> QED
    BY <2>1 DEF ForgetInv, DownAfterCrash, Accounted, NullOnlyForDead, WaitingIn, Waiting, Replied
<1>5. CASE Environment
  BY <1>5, EnvironmentKeeps
<1> QED
  BY <1>1, <1>2, <1>3, <1>4, <1>5 DEF Next, Handler

\* While the service has not gone down, the request of a live process is in the
\* ring, waits in a queue, or was answered: none is forgotten.
THEOREM NothingForgotten == Spec => []NoRequestForgotten
<1>1. ForgetInv => NoRequestForgotten
  <2> SUFFICES ASSUME ForgetInv, crashes = 0, NEW m \in sent, ProcessOf[m.request] \in alive
               PROVE  \/ InInbox(m.request) \/ InCopies(m.request) \/ InPastes(m.request)
                      \/ Replied(m.request)
    BY DEF NoRequestForgotten
  <2>1. CASE m \in inbox
    BY <2>1 DEF InInbox
  <2>2. CASE Waiting(m)
    <3>1. PICK s \in Session : \E e \in WaitingIn(s) : e.message = m
      BY <2>2 DEF Waiting
    <3> QED
      BY <3>1 DEF WaitingIn, ToSet, InCopies, InPastes
  <2> QED
    BY <2>1, <2>2 DEF ForgetInv, Accounted
<1> QED
  BY <1>1, TypeInit, TypeStep, ForgetInit, ForgetStep, PTL DEF Spec

\* Whatever handler takes the service down had a paste of a dead process to
\* answer, with any number of crashes before.
THEOREM OnlyTheDead == Spec => OnlyTheDeadTakeTheServiceDown
<1>1. ASSUME TypeOK, ForgetInv, [Next]_service_vars, running, ~running', NEW m \in inbox \ inbox'
      PROVE  \E e \in ToSet(pastes_waiting[SessionOfMessage(m)]) :
                ProcessOf[e.message.request] \notin alive
  <2>1. PICK n \in inbox : OnCopyEnd(n)
    BY <1>1 DEF Next, Handler, Environment, OnCopyBegin, OnPaste, OnConnection, Take,
                ServiceDown, ServiceUp, ProcessExit, Send, service_vars
  <2>2. n = m
    BY <1>1, <2>1 DEF OnCopyEnd, Take
  <2>3. NullConnectionInDrain(m)
    BY <1>1, <2>1, <2>2 DEF OnCopyEnd, EndWithoutCopy, EndCopy
  <2> DEFINE s == SessionOfMessage(m)
  <2>4. s \in Session
    BY <1>1, MessageFields DEF TypeOK
  <2>5. PICK i \in DOMAIN pastes_waiting[s] : ~pastes_waiting[s][i].connection
    BY <2>3 DEF NullConnectionInDrain
  <2>6. pastes_waiting[s][i] \in ToSet(pastes_waiting[s])
    BY <2>5 DEF ToSet
  <2>7. ProcessOf[pastes_waiting[s][i].message.request] \notin alive
    BY <1>1, <2>4, <2>5, <2>6 DEF ForgetInv, NullOnlyForDead, WaitingIn
  <2> QED
    BY <2>6, <2>7
<1>2. TypeOK /\ ForgetInv /\ [Next]_service_vars => [DownForTheDead]_service_vars
  BY <1>1 DEF DownForTheDead
<1> QED
  BY <1>2, TypeInit, TypeStep, ForgetInit, ForgetStep, PTL DEF Spec, OnlyTheDeadTakeTheServiceDown
==============================================================================
