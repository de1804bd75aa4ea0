---------------------- MODULE ClipboardShieldMonitorProofs ----------------------
(***************************************************************************)
(* While nothing fails, the service and the hooks together are the reference  *)
(* monitor of ReferenceMonitor: for any threads, processes and sessions, any   *)
(* configuration and any number of calls.                                    *)
(***************************************************************************)
EXTENDS ClipboardShieldProofs

\* Nothing fails: no wait times out, no process ends, the service stays up, every
\* process is connected before its first call, and nobody writes through OLE (the
\* hook of OleSetClipboard runs without the clipboard being open).
FaultFree ==
    /\ ~Timeouts
    /\ Mortal = {}
    /\ MaxCrashes = 0
    /\ ReadyAtStart = Process
    /\ \A t \in Thread : "OleSetClipboard" \notin CallsOf[t]

------------------------------------------------------------------------------
(* The inductive invariant.                                                 *)

\* Everybody is up and connected.
UpInv ==
    /\ alive = Process /\ running /\ crashes = 0
    /\ \A p \in Process : ipc[p] /\ connected[p]

\* A thread that reads or writes through Win32 has the clipboard open, and only a
\* write gets past the original function, or has succeeded.
Placed(t) ==
    /\ call[t] # "OleSetClipboard"
    /\ pc[t] \notin {"pre_disconnect", "post_disconnect"}
    /\ call[t] \in NeedsOpen /\ pc[t] # "idle" => opened[SessionOfThread(t)] = t
    /\ pc[t] \in {"written", "post", "post_wait"} => call[t] \in Writes
    /\ pc[t] \in {"pre", "pre_wait", "original"} => ~succeeded[t]

PlacedInv == \A t \in Thread : Placed(t)

\* What is in the ring is what its sender t waits for.
Awaited(m, t) ==
    \/ /\ m.type = "CopyEnd"
       /\ pc[t] = "post_wait" /\ m.request = After(t) /\ m.succeeded = succeeded[t]
    \/ /\ m.type = (IF call[t] \in Writes THEN "CopyBegin" ELSE "Paste")
       /\ pc[t] = "pre_wait" /\ m.request = Before(t)

WireInv == \A m \in inbox : Awaited(m, m.request[1])

\* A copy in progress was taken from the ring.
TakenInv == \A s \in Session : \A m \in inbox : m.request # copies_in_progress[s]

\* The write of t was begun and not ended, as far as the service knows.
Begun(t) ==
    /\ call[t] \in Writes
    /\ \/ pc[t] \in {"original", "written", "post"}
       \/ pc[t] = "pre_wait" /\ ~InInbox(Before(t))
       \/ pc[t] = "post_wait" /\ InInbox(After(t))

BegunInv == \A t \in Thread : Begun(t) => copies_in_progress[SessionOfThread(t)] = Before(t)

\* t wrote the clipboard and the service has not recorded it.
Unrecorded(t) ==
    /\ succeeded[t]
    /\ \/ pc[t] \in {"written", "post"}
       \/ pc[t] = "post_wait" /\ InInbox(After(t))

\* The last writer that the service knows is the last one, unless a writer is about
\* to report.
Known(s) ==
    content[s] = IF last_clipboard_writers[s] = NoWriter THEN NoWriter
                 ELSE last_clipboard_writers[s].process

ContentInv ==
    /\ \A t \in Thread : Unrecorded(t) => content[SessionOfThread(t)] = ThreadProcess[t]
    /\ \A s \in Session :
        Known(s) \/ \E t \in Thread : SessionOfThread(t) = s /\ Unrecorded(t)

\* A reader was let through, or is about to be, on what the clipboard holds.
Permitted(t) == MayRead(content[SessionOfThread(t)], ThreadProcess[t])

Judged(t) ==
    call[t] = "GetClipboardData" =>
        /\ pc[t] = "pre_wait" => \A x \in replies :
              x.request = Before(t) /\ x.verdict = "Continue" => Permitted(t)
        /\ pc[t] = "original" /\ vouched[t] => Permitted(t)

VerdictInv == \A t \in Thread : Judged(t)

CalmInv ==
    UpInv /\ PlacedInv /\ WireInv /\ TakenInv /\ BegunInv /\ ContentInv /\ VerdictInv

\* What holds whatever fails.
Base == ShieldInv /\ ForgetInv /\ LastWriterCompletedACopy

------------------------------------------------------------------------------
(* The clipboard is open for one thread of a session at a time.             *)

\* Without timeouts no process gives up on the service.
LEMMA NobodyGaveUp ==
    ASSUME CalmInv, NEW p \in Process
    PROVE  ~GaveUp(p)
  BY DEF CalmInv, UpInv, PlacedInv, Placed, GaveUp

LEMMA WritersOpen ==
    ASSUME Base, PlacedInv, NEW t \in Thread, call[t] \in Writes
    PROVE  call[t] = "SetClipboardData" /\ call[t] \in NeedsOpen
  BY DEF PlacedInv, Placed, Writes, NeedsOpen

LEMMA OneHasItOpen ==
    ASSUME PlacedInv, NEW t \in Thread, NEW u \in Thread,
           SessionOfThread(t) = SessionOfThread(u),
           call[t] \in NeedsOpen, pc[t] # "idle", call[u] \in NeedsOpen, pc[u] # "idle"
    PROVE  t = u
  BY DEF PlacedInv, Placed

LEMMA WriteInSession ==
    ASSUME Base, PlacedInv, NEW t \in Thread, Begun(t) \/ Unrecorded(t)
    PROVE  call[t] = "SetClipboardData" /\ call[t] \in NeedsOpen /\ pc[t] # "idle"
<1>1. call[t] \in Writes
  BY DEF Begun, Unrecorded, PlacedInv, Placed
<1>2. pc[t] # "idle"
  BY DEF Begun, Unrecorded
<1> QED
  BY <1>1, <1>2, WritersOpen

LEMMA OneWriter ==
    ASSUME Base, PlacedInv, NEW t \in Thread, NEW u \in Thread,
           SessionOfThread(t) = SessionOfThread(u),
           call[t] \in NeedsOpen, pc[t] # "idle", Begun(u) \/ Unrecorded(u)
    PROVE  t = u
  BY WriteInSession, OneHasItOpen

\* The number of a request tells its thread and, with the call of that thread,
\* whether it comes before the call or after.
LEMMA NumbersDiffer ==
    ASSUME Base, NEW t \in Thread, NEW u \in Thread
    PROVE  /\ Before(t) = Before(u) => t = u
           /\ After(t) = After(u) => t = u
           /\ Before(t) # After(u)
<1>1. calls[t] \in Nat /\ calls[u] \in Nat
  BY ShieldAssumption DEF Base, ShieldInv, ShieldTypeOK
<1> QED
  BY <1>1 DEF Before, After

\* Who sends a message.
LEMMA SenderFacts ==
    ASSUME Base, NEW m \in inbox
    PROVE  /\ m \in Message /\ m \in sent /\ m.request[1] \in Thread
           /\ SessionOfMessage(m) = SessionOfThread(m.request[1])
           /\ SessionOfMessage(m) \in Session
           /\ ProcessOf[m.request] = ThreadProcess[m.request[1]]
           /\ m.request \in Request
<1>1. m \in Message /\ m \in sent
  BY DEF Base, ShieldInv, TypeOK, QueueInv, RingInSent
<1>2. m.request \in Request /\ SessionOfMessage(m) \in Session
  BY <1>1, MessageFields
<1> QED
  BY <1>1, <1>2, RequestParts DEF SessionOfMessage, SessionOfThread

\* What the recorded writer permits, the content does.
LEMMA KnownPermits ==
    ASSUME Base, UpInv, NEW m \in inbox, NEW t \in Thread, t = m.request[1],
           NEW s \in Session, s = SessionOfThread(t), Known(s),
           PasteReply(last_clipboard_writers[s], m).verdict = "Continue"
    PROVE  Permitted(t)
<1> DEFINE w == last_clipboard_writers[s]
           p == ThreadProcess[t]
<1>1. ProcessOf[m.request] = p /\ p \in Process
  BY SenderFacts, ThreadFacts
<1>2. check_copy(w, p) = "Allow"
  BY <1>1 DEF PasteReply
<1>3. get_process_full_path(p) = PathOf[p]
  BY <1>1 DEF get_process_full_path, UpInv
<1>4. CASE w = NoWriter
  BY <1>2, <1>3, <1>4 DEF check_copy, Permitted, MayRead, Known
<1>5. CASE w # NoWriter
  <2>1. w.path = PathOf[w.process] /\ w \in Writer
    BY <1>5 DEF Base, LastWriterCompletedACopy, ShieldInv, TypeOK
  <2>2. content[s] = w.process /\ w.process # NoWriter
    BY <1>5, <2>1, ShieldAssumption DEF Known, Writer
  <2> QED
    BY <1>2, <1>3, <1>5, <2>1, <2>2 DEF check_copy, Permitted, MayRead
<1> QED
  BY <1>4, <1>5

------------------------------------------------------------------------------
(* The service.                                                             *)

\* A handler takes one message of a thread, which is not in the ring any more.
HandlerTakes(m) ==
    /\ inbox' = inbox \ {m}
    /\ UNCHANGED <<sent, alive, client_vars>>

LEMMA TakenMessage ==
    ASSUME Base, WireInv, NEW m \in inbox, HandlerTakes(m), NEW t \in Thread, t = m.request[1]
    PROVE  /\ WireInv'
           /\ \A n \in inbox' : n \in inbox /\ n.request # m.request
           /\ \A u \in Thread :
                /\ InInbox(Before(u))' => InInbox(Before(u))
                /\ InInbox(After(u))' => InInbox(After(u))
           /\ \A u \in Thread \ {t} :
                /\ InInbox(Before(u)) => InInbox(Before(u))'
                /\ InInbox(After(u)) => InInbox(After(u))'
<1>1. \A n \in inbox' : n \in inbox /\ n.request # m.request
  BY SameRequest DEF HandlerTakes, Base, ShieldInv, QueueInv, RingInSent
<1>2. WireInv'
  BY <1>1 DEF WireInv, Awaited, HandlerTakes, client_vars, hook_vars, Before, After
<1>3. \A u \in Thread : Before(u)' = Before(u) /\ After(u)' = After(u)
  BY DEF HandlerTakes, client_vars, hook_vars, Before, After
<1>4. \A n \in inbox : n \in inbox' \/ n.request[1] = t
  BY DEF HandlerTakes
<1>5. \A u \in Thread : Before(u)[1] = u /\ After(u)[1] = u
  BY DEF Before, After
<1> QED
  BY <1>1, <1>2, <1>3, <1>4, <1>5 DEF InInbox

\* What is the same for the other threads after a handler.
LEMMA HandlerOthers ==
    ASSUME Base, WireInv, NEW m \in inbox, HandlerTakes(m), NEW t \in Thread, t = m.request[1]
    PROVE  /\ \A u \in Thread : Unrecorded(u)' => Unrecorded(u)
           /\ \A u \in Thread \ {t} :
                /\ Unrecorded(u) => Unrecorded(u)'
                /\ Begun(u)' => Begun(u)
           /\ PlacedInv => PlacedInv'
<1>1. UNCHANGED <<pc, call, calls, succeeded, opened>>
  BY DEF HandlerTakes, client_vars, hook_vars
<1>2. PlacedInv => PlacedInv'
  BY <1>1 DEF PlacedInv, Placed, SessionOfThread
<1> QED
  BY <1>1, <1>2, TakenMessage DEF Unrecorded, Begun

\* A CopyBegin finds its session free: the copy in progress would be that of a
\* thread that has the clipboard open.
LEMMA BeginFindsNone ==
    ASSUME Base, CalmInv, NEW m \in inbox, m.type = "CopyBegin"
    PROVE  copies_in_progress[SessionOfMessage(m)] = NoRequest
<1> DEFINE t == m.request[1]
           s == SessionOfMessage(m)
<1>1. t \in Thread /\ s = SessionOfThread(t) /\ s \in Session
  BY SenderFacts
<1>2. pc[t] = "pre_wait" /\ m.request = Before(t) /\ call[t] \in Writes
  BY DEF CalmInv, WireInv, Awaited
<1> SUFFICES ASSUME copies_in_progress[s] # NoRequest PROVE FALSE
  OBVIOUS
<1>3. PICK n \in sent : /\ n.type = "CopyBegin" /\ n.request = copies_in_progress[s]
                        /\ SessionOfMessage(n) = s
  BY <1>1 DEF Base, ShieldInv, RecordedInv
<1> DEFINE u == n.request[1]
<1>4. n.request \in Request /\ u \in Thread /\ SessionOfThread(u) = s
  BY <1>3, MessageFields, RequestParts
     DEF Base, ShieldInv, TypeOK, SessionOfMessage, SessionOfThread
<1>5. Active(n.request)
  BY <1>1, <1>3 DEF Base, ShieldInv, LocksInv
<1>6. ThreadProcess[u] \in alive /\ ~GaveUp(ThreadProcess[u])
  BY <1>4, ThreadFacts, NobodyGaveUp DEF CalmInv, UpInv
<1>7. n.request = Before(u) /\ pc[u] # "idle"
  BY <1>5, <1>6 DEF Active
<1>8. call[u] \in Writes
  BY <1>3, <1>7 DEF Base, ShieldInv, SentInv
<1>9. t = u
  BY <1>1, <1>2, <1>4, <1>7, <1>8, WritersOpen, OneHasItOpen DEF CalmInv
<1> QED
  BY <1>1, <1>2, <1>3, <1>7, <1>9 DEF CalmInv, TakenInv

LEMMA OnCopyBeginCalm ==
    ASSUME Base, CalmInv, NEW m \in inbox, OnCopyBegin(m), UNCHANGED client_vars
    PROVE  CalmInv'
<1> DEFINE t == m.request[1]
           s == SessionOfMessage(m)
<1>0. UpInv /\ PlacedInv /\ WireInv /\ TakenInv /\ BegunInv /\ ContentInv /\ VerdictInv
  BY DEF CalmInv
<1>1. /\ t \in Thread /\ s = SessionOfThread(t) /\ s \in Session
      /\ m \in Message /\ m.request \in Request
  BY SenderFacts
<1>2. m.type = "CopyBegin" /\ HandlerTakes(m)
  BY DEF OnCopyBegin, Take, HandlerTakes
<1>3. pc[t] = "pre_wait" /\ m.request = Before(t) /\ call[t] \in Writes
  BY <1>0, <1>2 DEF WireInv, Awaited
<1>4. UNCHANGED <<pc, call, calls, vouched, succeeded, ipc, connected, opened, content>>
  BY DEF client_vars, hook_vars
<1>5. /\ copies_in_progress' = [copies_in_progress EXCEPT ![s] = m.request]
      /\ \A x \in replies' : x \in replies \/ x = Continue(m)
      /\ UNCHANGED <<last_clipboard_writers, running, crashes, alive>>
  <2>1. copies_in_progress[s] = NoRequest
    BY <1>2, BeginFindsNone
  <2> QED
    BY <2>1 DEF OnCopyBegin, SendIf
<1>6. \A r \in Session :
         copies_in_progress'[r] = IF r = s THEN m.request ELSE copies_in_progress[r]
  BY <1>5 DEF Base, ShieldInv, TypeOK
<1>7. UpInv' /\ PlacedInv' /\ WireInv'
  BY <1>0, <1>1, <1>2, <1>4, <1>5, HandlerOthers, TakenMessage DEF UpInv
<1>8. TakenInv'
  BY <1>0, <1>1, <1>2, <1>6, TakenMessage DEF TakenInv
<1>9. BegunInv'
  <2> SUFFICES ASSUME NEW u \in Thread, Begun(u)'
               PROVE  copies_in_progress'[SessionOfThread(u)] = Before(u)'
    BY DEF BegunInv, SessionOfThread
  <2>1. Before(u)' = Before(u)
    BY <1>4 DEF Before
  <2>2. CASE u = t
    BY <1>1, <1>3, <1>6, <2>1, <2>2
  <2>3. CASE u # t
    <3>1. Begun(u)
      BY <1>0, <1>1, <1>2, <2>3, HandlerOthers
    <3>2. SessionOfThread(u) # s
      BY <1>0, <1>1, <1>3, <2>3, <3>1, WritersOpen, OneWriter
    <3> QED
      BY <1>0, <1>6, <2>1, <3>1, <3>2, ThreadFacts DEF BegunInv
  <2> QED
    BY <2>2, <2>3
<1>10. \A u \in Thread : Unrecorded(u)' <=> Unrecorded(u)
  <2>1. ~Unrecorded(t)
    BY <1>3 DEF Unrecorded
  <2> QED
    BY <1>0, <1>1, <1>2, <2>1, HandlerOthers
<1>11. ContentInv'
  BY <1>0, <1>4, <1>5, <1>10 DEF ContentInv, Known, SessionOfThread
<1>12. VerdictInv'
  <2> SUFFICES ASSUME NEW u \in Thread PROVE Judged(u)'
    BY DEF VerdictInv
  <2>1. Before(u)' = Before(u) /\ (Permitted(u)' <=> Permitted(u))
    BY <1>4 DEF Before, Permitted, SessionOfThread, MayRead
  <2>2. Continue(m).request = Before(t)
    BY <1>3 DEF Continue
  <2>3. call[u] = "GetClipboardData" => u # t
    BY <1>3 DEF Writes
  <2> QED
    BY <1>0, <1>1, <1>4, <1>5, <2>1, <2>2, <2>3, NumbersDiffer DEF VerdictInv, Judged
<1> QED
  BY <1>7, <1>8, <1>9, <1>11, <1>12 DEF CalmInv

LEMMA OnPasteCalm ==
    ASSUME Base, CalmInv, NEW m \in inbox, OnPaste(m), UNCHANGED client_vars
    PROVE  CalmInv'
<1> DEFINE t == m.request[1]
           s == SessionOfMessage(m)
<1>0. UpInv /\ PlacedInv /\ WireInv /\ TakenInv /\ BegunInv /\ ContentInv /\ VerdictInv
  BY DEF CalmInv
<1>1. /\ t \in Thread /\ s = SessionOfThread(t) /\ s \in Session
      /\ m \in Message /\ m.request \in Request
  BY SenderFacts
<1>2. m.type = "Paste" /\ HandlerTakes(m)
  BY DEF OnPaste, Take, HandlerTakes
<1>3. pc[t] = "pre_wait" /\ m.request = Before(t) /\ call[t] \notin Writes
  BY <1>0, <1>2 DEF WireInv, Awaited
<1>4. UNCHANGED <<pc, call, calls, vouched, succeeded, ipc, connected, opened, content>>
  BY DEF client_vars, hook_vars
<1>5. /\ \A x \in replies' : x \in replies \/ x = PasteReply(last_clipboard_writers[s], m)
      /\ UNCHANGED <<copies_in_progress, last_clipboard_writers, running, crashes, alive>>
  BY DEF OnPaste, SendIf
<1>6. UpInv' /\ PlacedInv' /\ WireInv'
  BY <1>0, <1>1, <1>2, <1>4, <1>5, HandlerOthers, TakenMessage DEF UpInv
<1>7. TakenInv'
  BY <1>0, <1>1, <1>2, <1>5, TakenMessage DEF TakenInv
<1>8. ~Begun(t)' /\ ~Unrecorded(t)
  BY <1>3, <1>4 DEF Begun, Unrecorded
<1>9. BegunInv'
  BY <1>0, <1>1, <1>2, <1>4, <1>5, <1>8, HandlerOthers DEF BegunInv, SessionOfThread, Before
<1>10. \A u \in Thread : Unrecorded(u)' <=> Unrecorded(u)
  BY <1>0, <1>1, <1>2, <1>8, HandlerOthers
<1>11. ContentInv'
  BY <1>0, <1>4, <1>5, <1>10 DEF ContentInv, Known, SessionOfThread
<1>12. VerdictInv'
  <2> DEFINE x == PasteReply(last_clipboard_writers[s], m)
  <2>1. ASSUME call[t] = "GetClipboardData", x.verdict = "Continue"
        PROVE  Permitted(t)
    <3>1. call[t] \in NeedsOpen /\ pc[t] # "idle"
      BY <1>3, <2>1 DEF NeedsOpen
    <3>2. Known(s)
      BY <1>0, <1>1, <1>8, <3>1, OneWriter DEF ContentInv
    <3> QED
      BY <1>0, <1>1, <2>1, <3>2, KnownPermits
  <2> SUFFICES ASSUME NEW u \in Thread PROVE Judged(u)'
    BY DEF VerdictInv
  <2>2. Before(u)' = Before(u) /\ (Permitted(u)' <=> Permitted(u))
    BY <1>4 DEF Before, Permitted, SessionOfThread, MayRead
  <2>3. x.request = Before(t)
    BY <1>3 DEF PasteReply
  <2> QED
    BY <1>0, <1>1, <1>4, <1>5, <2>1, <2>2, <2>3, NumbersDiffer DEF VerdictInv, Judged
<1> QED
  BY <1>6, <1>7, <1>9, <1>11, <1>12 DEF CalmInv

\* The copy that a CopyEnd finds is the one its own call began.
LEMMA EndFindsItsOwn ==
    ASSUME Base, CalmInv, NEW m \in inbox, m.type = "CopyEnd"
    PROVE  LET t == m.request[1]
           IN  /\ t \in Thread /\ Begun(t) /\ pc[t] = "post_wait" /\ m.request = After(t)
               /\ InInbox(After(t)) /\ m.succeeded = succeeded[t]
               /\ copies_in_progress[SessionOfMessage(m)] = Before(t)
               /\ Before(t) # NoRequest
<1> DEFINE t == m.request[1]
<1>1. t \in Thread /\ SessionOfMessage(m) = SessionOfThread(t)
  BY SenderFacts
<1>2. pc[t] = "post_wait" /\ m.request = After(t) /\ m.succeeded = succeeded[t]
  BY DEF CalmInv, WireInv, Awaited
<1>3. InInbox(After(t)) /\ call[t] \in Writes
  BY <1>1, <1>2 DEF InInbox, CalmInv, PlacedInv, Placed
<1>4. Begun(t)
  BY <1>2, <1>3 DEF Begun
<1>5. copies_in_progress[SessionOfMessage(m)] = Before(t)
  BY <1>1, <1>4 DEF CalmInv, BegunInv
<1>6. Before(t) \in Request
  BY <1>1, <1>2, Numbers DEF Base, ShieldInv, CallsInv
<1> QED
  BY <1>1, <1>2, <1>3, <1>4, <1>5, <1>6, InterceptorAssumption

LEMMA OnCopyEndIsEndCopy ==
    ASSUME Base, CalmInv, NEW m \in inbox, OnCopyEnd(m)
    PROVE  m.type = "CopyEnd" /\ EndCopy(m)
<1>1. m.type = "CopyEnd"
  BY DEF OnCopyEnd, Take
<1>2. copies_in_progress[SessionOfMessage(m)] # NoRequest
  BY <1>1, EndFindsItsOwn
<1>3. ASSUME NullConnectionInDrain(m) PROVE FALSE
  <2> DEFINE s == SessionOfMessage(m)
  <2>1. PICK i \in DOMAIN pastes_waiting[s] : ~pastes_waiting[s][i].connection
    BY <1>3 DEF NullConnectionInDrain
  <2>2. pastes_waiting[s][i] \in ToSet(pastes_waiting[s])
    BY DEF ToSet
  <2>3. s \in Session
    BY SenderFacts
  <2>4. PICK e \in WaitingIn(s) : ~e.connection
    BY <2>1, <2>2 DEF WaitingIn
  <2>5. e.message \in Message
    BY <2>3, <2>4, WaitingSettled DEF Base, ShieldInv, TypeOK
  <2>6. ProcessOf[e.message.request] \in alive
    BY <2>5, MessageFields DEF CalmInv, UpInv
  <2> QED
    BY <2>3, <2>4, <2>6 DEF Base, ForgetInv, NullOnlyForDead
<1> QED
  BY <1>1, <1>2, <1>3 DEF OnCopyEnd, EndWithoutCopy

\* Whom the end of a copy answers: its sender, a writer, and the pastes of the
\* session.
LEMMA EndAnswers ==
    ASSUME Base, CalmInv, NEW m \in inbox, EndCopy(m), NEW x \in replies' \ replies
    PROVE  \/ x.request = m.request
           \/ \E n \in sent : n.type = "CopyBegin" /\ x.request = n.request
           \/ \E n \in sent : SessionOfMessage(n) = SessionOfMessage(m) /\ x.request = n.request
<1> DEFINE s == SessionOfMessage(m)
<1>1. s \in Session /\ QueueInv /\ TypeOK
  BY SenderFacts DEF Base, ShieldInv
<1>2. CASE x \in judged_pastes(m)
  <2>1. PICK e \in ToSet(pastes_waiting[s]) : x = PasteReply(set_last_copy(m), e.message)
    BY <1>2 DEF judged_pastes
  <2>2. e \in WaitingIn(s)
    BY DEF WaitingIn
  <2> QED
    BY <1>1, <2>1, <2>2, WaitingSettled DEF PasteReply
<1>3. CASE x \in resumed_copy(s)
  <2>1. copies_waiting[s] # <<>> /\ x = Continue(Head(copies_waiting[s]).message)
    BY <1>3 DEF resumed_copy, SendIf
  <2>2. Head(copies_waiting[s]) \in ToSet(copies_waiting[s])
    BY <1>1, <2>1, TailElements DEF TypeOK
  <2> QED
    BY <1>1, <2>1, <2>2, WaitingSettled DEF Continue, WaitingIn
<1>4. CASE x \in SendIf(find_connection(ProcessOf[m.request]), Continue(m))
  BY <1>4 DEF SendIf, Continue
<1> QED
  BY <1>2, <1>3, <1>4 DEF EndCopy

LEMMA OnCopyEndCalm ==
    ASSUME Base, CalmInv, NEW m \in inbox, OnCopyEnd(m), UNCHANGED client_vars
    PROVE  CalmInv'
<1> DEFINE t == m.request[1]
           s == SessionOfMessage(m)
<1>0. UpInv /\ PlacedInv /\ WireInv /\ TakenInv /\ BegunInv /\ ContentInv /\ VerdictInv
  BY DEF CalmInv
<1>1. /\ t \in Thread /\ s = SessionOfThread(t) /\ s \in Session
      /\ m \in Message /\ m.request \in Request /\ ProcessOf[m.request] = ThreadProcess[t]
  BY SenderFacts
<1>2. m.type = "CopyEnd" /\ EndCopy(m) /\ HandlerTakes(m)
  BY OnCopyEndIsEndCopy DEF OnCopyEnd, Take, HandlerTakes
<1>3. /\ pc[t] = "post_wait" /\ m.request = After(t) /\ m.succeeded = succeeded[t]
      /\ Begun(t) /\ InInbox(After(t))
  BY <1>2, EndFindsItsOwn
<1>4. UNCHANGED <<pc, call, calls, vouched, succeeded, ipc, connected, opened, content>>
  BY DEF client_vars, hook_vars
<1>5. /\ copies_in_progress' = [copies_in_progress EXCEPT ![s] = NoRequest]
      /\ last_clipboard_writers' = [last_clipboard_writers EXCEPT ![s] = set_last_copy(m)]
      /\ UNCHANGED <<running, crashes, alive>>
  BY <1>2 DEF EndCopy, copies_left, OnCopyEnd
<1>6. \A r \in Session :
         /\ copies_in_progress'[r] = IF r = s THEN NoRequest ELSE copies_in_progress[r]
         /\ last_clipboard_writers'[r] = IF r = s THEN set_last_copy(m)
                                         ELSE last_clipboard_writers[r]
  BY <1>5 DEF Base, ShieldInv, TypeOK
<1>7. UpInv' /\ PlacedInv' /\ WireInv'
  BY <1>0, <1>1, <1>2, <1>4, <1>5, HandlerOthers, TakenMessage DEF UpInv
<1>8. TakenInv'
  <2>1. \A n \in inbox' : n \in inbox /\ n.request # NoRequest
    BY <1>0, <1>1, <1>2, TakenMessage, SenderFacts, InterceptorAssumption
  <2> QED
    BY <1>0, <1>6, <2>1 DEF TakenInv
<1>9. ~InInbox(After(t))'
  <2>1. \A n \in inbox' : n.request # m.request
    BY <1>0, <1>1, <1>2, TakenMessage
  <2> QED
    BY <1>3, <1>4, <2>1 DEF InInbox, After
<1>10. call[t] \in NeedsOpen /\ pc[t] # "idle"
  BY <1>0, <1>1, <1>3, WriteInSession
<1>11. BegunInv'
  <2> SUFFICES ASSUME NEW u \in Thread, Begun(u)'
               PROVE  copies_in_progress'[SessionOfThread(u)] = Before(u)'
    BY DEF BegunInv, SessionOfThread
  <2>1. u # t
    BY <1>3, <1>4, <1>9 DEF Begun
  <2>2. Begun(u)
    BY <1>0, <1>1, <1>2, <2>1, HandlerOthers
  <2>3. SessionOfThread(u) # s
    BY <1>0, <1>1, <1>10, <2>1, <2>2, OneWriter
  <2> QED
    BY <1>0, <1>4, <1>6, <2>2, <2>3, ThreadFacts DEF BegunInv, Before
<1>12. ContentInv'
  <2>1. \A u \in Thread : Unrecorded(u)' => Unrecorded(u)
    BY <1>0, <1>1, <1>2, HandlerOthers
  <2>2. ASSUME NEW r \in Session
        PROVE  Known(r)' \/ \E u \in Thread : SessionOfThread(u) = r /\ Unrecorded(u)'
    <3>1. CASE r = s /\ m.succeeded
      <4>1. Unrecorded(t)
        BY <1>3, <3>1 DEF Unrecorded
      <4>2. content[s] = ThreadProcess[t] /\ ThreadProcess[t] \in Process
        BY <1>0, <1>1, <4>1, ThreadFacts DEF ContentInv
      <4>3. get_process_full_path(ThreadProcess[t]) = PathOf[ThreadProcess[t]]
            /\ PathOf[ThreadProcess[t]] \in Path
        BY <1>0, <4>2, InterceptorAssumption DEF get_process_full_path, UpInv
      <4>4. set_last_copy(m) = [process |-> ThreadProcess[t], path |-> PathOf[ThreadProcess[t]]]
        BY <1>1, <3>1, <4>3, PathAssumption DEF set_last_copy
      <4>5. set_last_copy(m) \in Writer
        BY <4>2, <4>3, <4>4 DEF Writer
      <4> QED
        BY <1>1, <1>4, <1>6, <3>1, <4>2, <4>4, <4>5, ShieldAssumption DEF Known
    <3>2. CASE r = s /\ ~m.succeeded
      <4>1. last_clipboard_writers'[s] = last_clipboard_writers[s]
        BY <1>1, <1>6, <3>2 DEF set_last_copy
      <4>2. ~Unrecorded(t)
        BY <1>3, <3>2 DEF Unrecorded
      <4>3. Known(s)
        BY <1>0, <1>1, <1>10, <4>2, OneWriter DEF ContentInv
      <4> QED
        BY <1>4, <3>2, <4>1, <4>3 DEF Known
    <3>3. CASE r # s
      <4>1. Known(r)' <=> Known(r)
        BY <1>4, <1>6, <3>3 DEF Known
      <4>2. \A u \in Thread : SessionOfThread(u) = r /\ Unrecorded(u) => Unrecorded(u)'
        BY <1>0, <1>1, <1>2, <3>3, HandlerOthers
      <4> QED
        BY <1>0, <4>1, <4>2 DEF ContentInv
    <3> QED
      BY <3>1, <3>2, <3>3
  <2> QED
    BY <1>0, <1>4, <2>1, <2>2 DEF ContentInv, SessionOfThread
<1>13. VerdictInv'
  <2> SUFFICES ASSUME NEW u \in Thread PROVE Judged(u)'
    BY DEF VerdictInv
  <2>1. Before(u)' = Before(u) /\ (Permitted(u)' <=> Permitted(u))
    BY <1>4 DEF Before, Permitted, SessionOfThread, MayRead
  <2>2. ASSUME call[u] = "GetClipboardData", pc[u] = "pre_wait",
               NEW x \in replies' \ replies, x.request = Before(u)
        PROVE  FALSE
    <3>1. x.request # m.request
      BY <1>1, <1>3, <2>2, NumbersDiffer
    <3>2. call[u] \notin Writes /\ call[u] \in NeedsOpen
      BY <2>2 DEF Writes, NeedsOpen
    <3>3. Before(u)[1] = u
      BY DEF Before
    <3>4. ASSUME NEW n \in sent, n.type = "CopyBegin", x.request = n.request
          PROVE  FALSE
      BY <2>2, <3>2, <3>3, <3>4 DEF Base, ShieldInv, SentInv
    <3>5. ASSUME NEW n \in sent, SessionOfMessage(n) = s, x.request = n.request
          PROVE  FALSE
      <4>1. SessionOfThread(u) = s
        <5>1. n.request \in Request
          BY <3>5, MessageFields DEF Base, ShieldInv, TypeOK
        <5> QED
          BY <2>2, <3>3, <3>5, <5>1, RequestParts DEF SessionOfMessage, SessionOfThread
      <4>2. u = t
        BY <1>0, <1>1, <1>10, <2>2, <3>2, <4>1, OneHasItOpen
      <4> QED
        BY <1>3, <2>2, <4>2
    <3> QED
      BY <1>2, <2>2, <3>1, <3>4, <3>5, EndAnswers
  <2> QED
    BY <1>0, <1>4, <2>1, <2>2 DEF VerdictInv, Judged
<1> QED
  BY <1>7, <1>8, <1>11, <1>12, <1>13 DEF CalmInv

------------------------------------------------------------------------------
(* The hooks.                                                               *)

\* A step of t touches the other threads only through the clipboard, and sends only
\* requests of t.
Alone(t) ==
    /\ UNCHANGED <<copies_in_progress, last_clipboard_writers, replies, alive, running,
                   crashes, ipc, connected>>
    /\ \A u \in Thread \ {t} :
        /\ pc'[u] = pc[u] /\ call'[u] = call[u] /\ calls'[u] = calls[u]
        /\ vouched'[u] = vouched[u] /\ succeeded'[u] = succeeded[u]
        /\ opened[SessionOfThread(u)] = u => opened'[SessionOfThread(u)] = u
    /\ inbox \subseteq inbox'
    /\ \A m \in inbox' \ inbox : m.request[1] = t

LEMMA AloneOthers ==
    ASSUME Base, NEW t \in Thread, Alone(t), NEW u \in Thread \ {t}
    PROVE  /\ Before(u)' = Before(u) /\ After(u)' = After(u)
           /\ Begun(u)' <=> Begun(u)
           /\ Unrecorded(u)' <=> Unrecorded(u)
           /\ Placed(u) => Placed(u)'
           /\ \A m : Awaited(m, u) => Awaited(m, u)'
<1>1. Before(u)' = Before(u) /\ After(u)' = After(u)
  BY DEF Alone, Before, After
<1>2. Before(u)[1] = u /\ After(u)[1] = u
  BY DEF Before, After
<1>3. /\ InInbox(Before(u))' <=> InInbox(Before(u))
      /\ InInbox(After(u))' <=> InInbox(After(u))
  BY <1>1, <1>2 DEF Alone, InInbox
<1>4. Placed(u) => Placed(u)'
  BY DEF Alone, Placed, SessionOfThread
<1>5. \A m : Awaited(m, u) => Awaited(m, u)'
  BY <1>1 DEF Alone, Awaited
<1> QED
  BY <1>1, <1>3, <1>4, <1>5 DEF Alone, Begun, Unrecorded

\* What a step of one thread has to keep of its own.
LEMMA AloneKeepsRest ==
    ASSUME Base, CalmInv, NEW t \in Thread, Alone(t),
           Placed(t)',
           \A m \in inbox' : m.request[1] = t => Awaited(m, t)',
           Begun(t)' => copies_in_progress[SessionOfThread(t)] = Before(t)'
    PROVE  UpInv' /\ PlacedInv' /\ WireInv' /\ BegunInv'
<1>0. UpInv /\ PlacedInv /\ WireInv /\ BegunInv
  BY DEF CalmInv
<1>1. UpInv'
  BY <1>0 DEF UpInv, Alone
<1>2. PlacedInv'
  BY <1>0, AloneOthers DEF PlacedInv
<1>3. WireInv'
  <2> SUFFICES ASSUME NEW m \in inbox', NEW u, u = m.request[1] PROVE Awaited(m, u)'
    BY DEF WireInv, Awaited, Before, After
  <2>1. CASE u = t
    BY <2>1
  <2>2. CASE u # t
    <3>1. m \in inbox
      BY <2>2 DEF Alone
    <3>2. u \in Thread
      BY <3>1, SenderFacts
    <3> QED
      BY <1>0, <2>2, <3>1, <3>2, AloneOthers DEF WireInv
  <2> QED
    BY <2>1, <2>2
<1>4. BegunInv'
  BY <1>0, AloneOthers DEF BegunInv, Alone, SessionOfThread
<1> QED
  BY <1>1, <1>2, <1>3, <1>4

LEMMA AloneKeepsContent ==
    ASSUME Base, CalmInv, NEW t \in Thread, Alone(t), content' = content,
           Unrecorded(t)' <=> Unrecorded(t), Judged(t)'
    PROVE  ContentInv' /\ VerdictInv'
<1>0. ContentInv /\ VerdictInv
  BY DEF CalmInv
<1>1. \A u \in Thread : Unrecorded(u)' <=> Unrecorded(u)
  BY AloneOthers
<1>2. \A s : Known(s)' <=> Known(s)
  BY DEF Known, Alone
<1>3. ContentInv'
  BY <1>0, <1>1, <1>2 DEF ContentInv, SessionOfThread
<1>4. \A u \in Thread : Permitted(u)' <=> Permitted(u)
  BY DEF Permitted, SessionOfThread, MayRead
<1>5. VerdictInv'
  BY <1>0, <1>4, AloneOthers DEF VerdictInv, Judged, Alone
<1> QED
  BY <1>3, <1>5

\* A step that sends nothing leaves the ring as it is.
LEMMA NothingSent ==
    ASSUME CalmInv, UNCHANGED service_vars
    PROVE  /\ TakenInv'
           /\ UNCHANGED <<copies_in_progress, last_clipboard_writers, replies, alive, running,
                          crashes, inbox>>
  BY DEF CalmInv, TakenInv, service_vars

LEMMA NothingInRing ==
    ASSUME Base, CalmInv, NEW t \in Thread, ~Awaits(t), NEW m \in inbox
    PROVE  m.request[1] # t
  BY DEF CalmInv, WireInv, Awaited, Awaits

\* The hook returns: the thread has nothing to do with the clipboard any more.
LEMMA ReturnCalm ==
    ASSUME Base, CalmInv, NEW t \in Thread, Return(t), ~Unrecorded(t),
           \A m \in inbox : m.request[1] # t,
           UNCHANGED <<service_vars, call, calls, vouched, succeeded, ipc, connected, content>>
    PROVE  CalmInv'
<1>1. \A u \in Thread : pc'[u] = IF u = t THEN "idle" ELSE pc[u]
  BY DEF Return, GoTo, Base, ShieldInv, ShieldTypeOK
<1>2. \A s \in Session : opened[s] # t => opened'[s] = opened[s]
  BY DEF Return
<1>3. UNCHANGED <<copies_in_progress, last_clipboard_writers, replies, alive, running,
                  crashes, inbox>> /\ TakenInv'
  BY NothingSent
<1>4. Alone(t)
  BY <1>1, <1>2, <1>3, ThreadFacts DEF Alone
<1>5. Placed(t)' /\ ~Begun(t)' /\ ~Unrecorded(t)' /\ Judged(t)'
  <2>1. call[t] # "OleSetClipboard"
    BY DEF CalmInv, PlacedInv, Placed
  <2> QED
    BY <1>1, <2>1 DEF Placed, Begun, Unrecorded, Judged
<1> QED
  BY <1>3, <1>4, <1>5, AloneKeepsRest, AloneKeepsContent DEF CalmInv

LEMMA EnterCalm ==
    ASSUME FaultFree, Base, CalmInv, NEW t \in Thread, NEW f \in CallsOf[t], Enter(t, f)
    PROVE  CalmInv'
<1> DEFINE s == SessionOfThread(t)
<1>0. /\ pc[t] = "idle" /\ s \in Session /\ ThreadProcess[t] \in Process
      /\ connected[ThreadProcess[t]]
  BY ThreadFacts DEF Enter, CalmInv, UpInv
<1>1. ControlType /\ SharedType
  BY TypeParts DEF Base, ShieldInv
<1>2. \A u \in Thread : /\ pc'[u] = IF u = t THEN "pre" ELSE pc[u]
                        /\ call'[u] = IF u = t THEN f ELSE call[u]
                        /\ vouched'[u] = IF u = t THEN FALSE ELSE vouched[u]
                        /\ succeeded'[u] = IF u = t THEN FALSE ELSE succeeded[u]
  BY <1>0, <1>1 DEF Enter, GoTo, ControlType
<1>3. \A u \in Thread \ {t} : calls'[u] = calls[u]
  BY <1>1 DEF Enter, ControlType
<1>4. UNCHANGED <<ipc, connected, content>> /\ UNCHANGED service_vars
  BY DEF Enter
<1>5. UNCHANGED <<copies_in_progress, last_clipboard_writers, replies, alive, running,
                  crashes, inbox>> /\ TakenInv'
  BY <1>4, NothingSent
<1>6. f \in NeedsOpen => opened[s] = NoThread /\ opened' = [opened EXCEPT ![s] = t]
  BY DEF Enter
<1>7. f \notin NeedsOpen => opened' = opened
  BY DEF Enter
<1>8. \A u \in Thread \ {t} :
         opened[SessionOfThread(u)] = u => opened'[SessionOfThread(u)] = u
  BY <1>1, <1>6, <1>7, ShieldAssumption, ThreadFacts DEF SharedType
<1>9. Alone(t)
  BY <1>2, <1>3, <1>4, <1>5, <1>8 DEF Alone
<1>10. Placed(t)'
  <2>1. f # "OleSetClipboard"
    BY DEF FaultFree
  <2>2. f \in NeedsOpen => opened'[s] = t
    BY <1>0, <1>1, <1>6 DEF SharedType
  <2> QED
    BY <1>2, <2>1, <2>2 DEF Placed, SessionOfThread
<1>11. ~Begun(t)' /\ ~Unrecorded(t)' /\ ~Unrecorded(t) /\ Judged(t)'
  BY <1>0, <1>2 DEF Begun, Unrecorded, Judged
<1>12. \A m \in inbox' : m.request[1] # t
  BY <1>0, <1>5, NothingInRing DEF Awaits
<1> QED
  BY <1>4, <1>5, <1>9, <1>10, <1>11, <1>12, AloneKeepsRest, AloneKeepsContent DEF CalmInv

\* A request that is sent is new.
LEMMA SendKeepsTaken ==
    ASSUME Base, CalmInv, NEW m \in Message, Send(m)
    PROVE  /\ TakenInv'
           /\ \A x \in replies : x.request # m.request
           /\ inbox' = inbox \cup {m}
           /\ UNCHANGED <<copies_in_progress, last_clipboard_writers, replies, alive, running,
                          crashes>>
<1>1. \A n \in sent : n.request # m.request
  BY DEF Send
<1>2. \A s \in Session : m.request # copies_in_progress[s]
  BY <1>1, MessageFields, InterceptorAssumption DEF Base, ShieldInv, RecordedInv
<1>3. \A x \in replies : x.request # m.request
  BY <1>1 DEF Base, ShieldInv, ReplyInv, RepliesSettled
<1> QED
  BY <1>2, <1>3 DEF CalmInv, TakenInv, Send

LEMMA SendPreCalm ==
    ASSUME Base, CalmInv, NEW t \in Thread, SendPre(t)
    PROVE  CalmInv'
<1> DEFINE m == PreMessage(t)
<1>0. /\ pc[t] = "pre" /\ ThreadProcess[t] \in Process /\ ipc[ThreadProcess[t]]
      /\ Placed(t) /\ Judged(t)
  BY ThreadFacts DEF SendPre, CalmInv, UpInv, PlacedInv, VerdictInv
<1>1. Send(m) /\ GoTo(t, "pre_wait")
  BY <1>0 DEF SendPre, SendAndWait, PreMessage
<1>2. UNCHANGED <<call, calls, vouched, succeeded, ipc, connected, opened, content>>
  BY DEF SendPre
<1>3. \A u \in Thread : pc'[u] = IF u = t THEN "pre_wait" ELSE pc[u]
  BY <1>1 DEF GoTo, Base, ShieldInv, ShieldTypeOK
<1>4. m \in Message
  BY <1>0, MessagesOfHooks DEF Base, ShieldInv, CallsInv
<1>5. /\ TakenInv' /\ inbox' = inbox \cup {m}
      /\ \A x \in replies : x.request # m.request
      /\ UNCHANGED <<copies_in_progress, last_clipboard_writers, replies, alive, running,
                     crashes>>
  BY <1>1, <1>4, SendKeepsTaken
<1>6. m.request = Before(t) /\ m.request[1] = t /\ Before(t)' = Before(t)
  BY <1>2 DEF PreMessage, Before
<1>7. Alone(t)
  BY <1>2, <1>3, <1>5, <1>6 DEF Alone
<1>8. Placed(t)' /\ ~Unrecorded(t) /\ ~Unrecorded(t)'
  BY <1>0, <1>2, <1>3 DEF Placed, Unrecorded, SessionOfThread
<1>9. \A n \in inbox' : n.request[1] = t => Awaited(n, t)'
  <2>1. ASSUME NEW n, n = m PROVE Awaited(n, t)'
    BY <1>2, <1>3, <1>6, <2>1 DEF Awaited, PreMessage
  <2>2. \A n \in inbox : n.request[1] # t
    BY <1>0, NothingInRing DEF Awaits
  <2>3. \A n \in inbox' : n \in inbox \/ n = m
    BY <1>5
  <2> QED
    BY <2>1, <2>2, <2>3
<1>10. ~Begun(t)'
  BY <1>3, <1>5, <1>6 DEF Begun, InInbox
<1>11. Judged(t)'
  BY <1>3, <1>5, <1>6 DEF Judged
<1> QED
  BY <1>2, <1>5, <1>7, <1>8, <1>9, <1>10, <1>11, AloneKeepsRest, AloneKeepsContent DEF CalmInv

LEMMA SendPostCalm ==
    ASSUME Base, CalmInv, NEW t \in Thread, SendPost(t)
    PROVE  CalmInv'
<1> DEFINE m == PostMessage(t)
<1>0. /\ pc[t] = "post" /\ ThreadProcess[t] \in Process /\ ipc[ThreadProcess[t]]
      /\ Placed(t)
  BY ThreadFacts DEF SendPost, CalmInv, UpInv, PlacedInv
<1>1. Send(m) /\ GoTo(t, "post_wait") /\ opened' = opened
  BY <1>0 DEF SendPost, SendAndWait, PostMessage
<1>2. UNCHANGED <<call, calls, vouched, succeeded, ipc, connected, opened, content>>
  BY <1>1 DEF SendPost
<1>3. \A u \in Thread : pc'[u] = IF u = t THEN "post_wait" ELSE pc[u]
  BY <1>1 DEF GoTo, Base, ShieldInv, ShieldTypeOK
<1>4. m \in Message
  BY <1>0, MessagesOfHooks DEF Base, ShieldInv, CallsInv
<1>5. /\ TakenInv' /\ inbox' = inbox \cup {m}
      /\ UNCHANGED <<copies_in_progress, last_clipboard_writers, replies, alive, running,
                     crashes>>
  BY <1>1, <1>4, SendKeepsTaken
<1>6. m.request = After(t) /\ m.request[1] = t /\ Before(t)' = Before(t) /\ After(t)' = After(t)
  BY <1>2 DEF PostMessage, Before, After
<1>7. Alone(t)
  BY <1>2, <1>3, <1>5, <1>6 DEF Alone
<1>8. Placed(t)'
  BY <1>0, <1>2, <1>3 DEF Placed, SessionOfThread
<1>9. \A n \in inbox' : n.request[1] = t => Awaited(n, t)'
  <2>1. ASSUME NEW n, n = m PROVE Awaited(n, t)'
    BY <1>2, <1>3, <1>6, <2>1 DEF Awaited, PostMessage
  <2>2. \A n \in inbox : n.request[1] # t
    BY <1>0, NothingInRing DEF Awaits
  <2>3. \A n \in inbox' : n \in inbox \/ n = m
    BY <1>5
  <2> QED
    BY <2>1, <2>2, <2>3
<1>10. InInbox(After(t))'
  BY <1>5, <1>6 DEF InInbox
<1>11. Unrecorded(t)' <=> Unrecorded(t)
  BY <1>0, <1>2, <1>3, <1>10 DEF Unrecorded
<1>12. Begun(t)' => copies_in_progress[SessionOfThread(t)] = Before(t)'
  <2>1. Begun(t)' => Begun(t)
    BY <1>0, <1>2 DEF Begun
  <2> QED
    BY <1>6, <2>1 DEF CalmInv, BegunInv
<1>13. Judged(t)'
  BY <1>3 DEF Judged
<1> QED
  BY <1>2, <1>5, <1>7, <1>8, <1>9, <1>11, <1>12, <1>13, AloneKeepsRest, AloneKeepsContent
     DEF CalmInv

\* The answer that a thread takes is to its own request, which is not in the ring.
LEMMA TakenAnswer ==
    ASSUME Base, CalmInv, NEW t \in Thread, Awaits(t), NEW x \in replies, TakeReply(t, x)
    PROVE  /\ x.request = Current(t)
           /\ \A m \in inbox : m.request[1] # t
<1>1. ~GaveUp(ThreadProcess[t])
  BY ThreadFacts, NobodyGaveUp
<1>2. x.request = Current(t)
  BY <1>1, AnswerIsItsOwn DEF TakeReply, Base, ShieldInv
<1>3. ASSUME NEW m \in inbox, m.request[1] = t PROVE FALSE
  <2>1. m.request = Current(t)
    BY <1>3 DEF CalmInv, WireInv, Awaited, Current
  <2> QED
    BY <1>2, <2>1, InRingUnanswered DEF Base, ShieldInv, Replied
<1> QED
  BY <1>2, <1>3

LEMMA TakePreCalm ==
    ASSUME Base, CalmInv, NEW t \in Thread, TakePre(t)
    PROVE  CalmInv'
<1>0. pc[t] = "pre_wait" /\ Placed(t) /\ Judged(t)
  BY DEF TakePre, CalmInv, PlacedInv, VerdictInv
<1>1. PICK x \in replies :
         /\ TakeReply(t, x)
         /\ \/ call[t] \in Reads /\ Return(t) /\ UNCHANGED vouched
            \/ /\ call[t] \in Writes \/ x.verdict = "Continue"
               /\ GoTo(t, "original")
               /\ vouched' = [vouched EXCEPT ![t] = TRUE]
               /\ UNCHANGED opened
  BY DEF TakePre
<1>2. UNCHANGED <<service_vars, call, calls, succeeded, ipc, connected, content>>
  BY DEF TakePre
<1>3. x.request = Before(t) /\ \A m \in inbox : m.request[1] # t
  BY <1>0, <1>1, TakenAnswer DEF Awaits, Current
<1>4. ~Unrecorded(t)
  BY <1>0 DEF Unrecorded
<1>5. CASE Return(t) /\ UNCHANGED vouched
  BY <1>2, <1>3, <1>4, <1>5, ReturnCalm
<1>6. CASE /\ call[t] \in Writes \/ x.verdict = "Continue"
           /\ GoTo(t, "original")
           /\ vouched' = [vouched EXCEPT ![t] = TRUE]
           /\ UNCHANGED opened
  <2>1. \A u \in Thread : /\ pc'[u] = IF u = t THEN "original" ELSE pc[u]
                          /\ u # t => vouched'[u] = vouched[u]
    BY <1>6 DEF GoTo, Base, ShieldInv, ShieldTypeOK
  <2>2. UNCHANGED <<copies_in_progress, last_clipboard_writers, replies, alive, running,
                    crashes, inbox>> /\ TakenInv'
    BY <1>2, NothingSent
  <2>3. Alone(t)
    BY <1>2, <1>6, <2>1, <2>2 DEF Alone
  <2>4. Placed(t)' /\ ~Unrecorded(t)'
    BY <1>0, <1>2, <1>6, <2>1 DEF Placed, Unrecorded, SessionOfThread
  <2>5. Begun(t)' => copies_in_progress[SessionOfThread(t)] = Before(t)'
    <3>1. ~InInbox(Before(t))
      BY <1>3 DEF InInbox, Before
    <3>2. Begun(t)' => Begun(t)
      BY <1>0, <1>2, <3>1 DEF Begun
    <3>3. Before(t)' = Before(t)
      BY <1>2 DEF Before
    <3> QED
      BY <3>2, <3>3 DEF CalmInv, BegunInv
  <2>6. Judged(t)'
    <3>1. call[t] = "GetClipboardData" => Permitted(t)
      BY <1>0, <1>3, <1>6 DEF Judged, Writes
    <3>2. Permitted(t)' <=> Permitted(t)
      BY <1>2 DEF Permitted, SessionOfThread, MayRead
    <3> QED
      BY <1>2, <2>1, <3>1, <3>2 DEF Judged
  <2> QED
    BY <1>2, <1>3, <1>4, <2>2, <2>3, <2>4, <2>5, <2>6, AloneKeepsRest, AloneKeepsContent
       DEF CalmInv
<1> QED
  BY <1>1, <1>5, <1>6

LEMMA TakePostCalm ==
    ASSUME Base, CalmInv, NEW t \in Thread, TakePost(t)
    PROVE  CalmInv'
<1>1. PICK x \in replies : TakeReply(t, x)
  BY DEF TakePost
<1>2. /\ pc[t] = "post_wait" /\ Return(t)
      /\ UNCHANGED <<service_vars, call, calls, vouched, succeeded, ipc, connected, content>>
  BY DEF TakePost
<1>3. \A m \in inbox : m.request[1] # t
  BY <1>1, <1>2, TakenAnswer DEF Awaits
<1>4. ~Unrecorded(t)
  BY <1>2, <1>3 DEF Unrecorded, InInbox, After
<1> QED
  BY <1>2, <1>3, <1>4, ReturnCalm

LEMMA CheckPostCalm ==
    ASSUME Base, CalmInv, NEW t \in Thread, CheckPost(t)
    PROVE  CalmInv'
<1>0. /\ pc[t] = "written" /\ ThreadProcess[t] \in Process /\ connected[ThreadProcess[t]]
      /\ Placed(t)
  BY ThreadFacts DEF CheckPost, CalmInv, UpInv, PlacedInv
<1>1. GoTo(t, "post") /\ UNCHANGED opened
  BY <1>0 DEF CheckPost
<1>2. UNCHANGED <<service_vars, call, calls, vouched, succeeded, ipc, connected, content>>
  BY DEF CheckPost
<1>3. \A u \in Thread : pc'[u] = IF u = t THEN "post" ELSE pc[u]
  BY <1>1 DEF GoTo, Base, ShieldInv, ShieldTypeOK
<1>4. UNCHANGED <<copies_in_progress, last_clipboard_writers, replies, alive, running,
                  crashes, inbox>> /\ TakenInv'
  BY <1>2, NothingSent
<1>5. Alone(t)
  BY <1>1, <1>2, <1>3, <1>4 DEF Alone
<1>6. /\ Placed(t)' /\ Judged(t)'
      /\ Unrecorded(t)' <=> Unrecorded(t)
  BY <1>0, <1>1, <1>2, <1>3 DEF Placed, Unrecorded, Judged, SessionOfThread
<1>7. Begun(t)' => copies_in_progress[SessionOfThread(t)] = Before(t)'
  <2>1. Begun(t)' => Begun(t)
    BY <1>0, <1>2 DEF Begun
  <2>2. Before(t)' = Before(t)
    BY <1>2 DEF Before
  <2> QED
    BY <2>1, <2>2 DEF CalmInv, BegunInv
<1>8. \A m \in inbox' : m.request[1] # t
  BY <1>0, <1>4, NothingInRing DEF Awaits
<1> QED
  BY <1>2, <1>4, <1>5, <1>6, <1>7, <1>8, AloneKeepsRest, AloneKeepsContent DEF CalmInv

\* The original function of a write, done or not.
Wrote(t) ==
    /\ opened[SessionOfThread(t)] = t
    /\ content' = [content EXCEPT ![SessionOfThread(t)] = ThreadProcess[t]]
    /\ succeeded' = [succeeded EXCEPT ![t] = TRUE]

LEMMA OriginalCalm ==
    ASSUME Base, CalmInv, NEW t \in Thread, Original(t)
    PROVE  CalmInv'
<1> DEFINE s == SessionOfThread(t)
<1>0. /\ pc[t] = "original" /\ Placed(t) /\ s \in Session /\ ~succeeded[t]
      /\ ContentInv /\ PlacedInv /\ VerdictInv
  BY ThreadFacts DEF Original, CalmInv, PlacedInv, Placed
<1>1. UNCHANGED <<service_vars, call, calls, vouched, ipc, connected>>
  BY DEF Original
<1>2. \A m \in inbox : m.request[1] # t
  BY <1>0, NothingInRing DEF Awaits
<1>3. ~Unrecorded(t)
  BY <1>0 DEF Unrecorded
<1>4. CASE call[t] \in Reads
  <2>1. Return(t) /\ UNCHANGED <<succeeded, content>>
    BY <1>4 DEF Original, Reads, Writes
  <2> QED
    BY <1>1, <1>2, <1>3, <2>1, ReturnCalm
<1>5. CASE call[t] \in Writes
  <2>1. /\ GoTo(t, "written") /\ UNCHANGED opened
        /\ UNCHANGED <<succeeded, content>> \/ Wrote(t)
    <3>1. call[t] \in NeedsOpen
      BY <1>0, <1>5, WritersOpen
    <3> QED
      BY <1>5, <3>1 DEF Original, Reads, Writes, Wrote
  <2>2. \A u \in Thread : /\ pc'[u] = IF u = t THEN "written" ELSE pc[u]
                          /\ u # t => succeeded'[u] = succeeded[u]
    BY <2>1 DEF GoTo, Wrote, Base, ShieldInv, ShieldTypeOK
  <2>3. UNCHANGED <<copies_in_progress, last_clipboard_writers, replies, alive, running,
                    crashes, inbox>> /\ TakenInv'
    BY <1>1, NothingSent
  <2>4. Alone(t)
    BY <1>1, <2>1, <2>2, <2>3 DEF Alone
  <2>5. Placed(t)' /\ Judged(t)'
    BY <1>0, <1>1, <1>5, <2>1, <2>2 DEF Placed, Judged, SessionOfThread
  <2>6. Begun(t)' => copies_in_progress[s] = Before(t)'
    <3>1. Begun(t)' => Begun(t)
      BY <1>0, <1>1 DEF Begun
    <3>2. Before(t)' = Before(t)
      BY <1>1 DEF Before
    <3> QED
      BY <3>1, <3>2 DEF CalmInv, BegunInv
  <2>7. UpInv' /\ PlacedInv' /\ WireInv' /\ BegunInv'
    BY <1>2, <2>3, <2>4, <2>5, <2>6, AloneKeepsRest
  <2>8. CASE UNCHANGED <<succeeded, content>>
    <3>1. ~Unrecorded(t)'
      BY <1>0, <2>8 DEF Unrecorded
    <3> QED
      BY <1>3, <2>3, <2>4, <2>5, <2>7, <2>8, <3>1, AloneKeepsContent DEF CalmInv
  <2>9. CASE Wrote(t)
    <3>1. \A r \in Session : content'[r] = IF r = s THEN ThreadProcess[t] ELSE content[r]
      BY <2>9 DEF Wrote, Base, ShieldInv, ShieldTypeOK
    <3>2. Unrecorded(t)'
      BY <2>2, <2>9 DEF Unrecorded, Wrote, Base, ShieldInv, ShieldTypeOK
    <3>3. \A u \in Thread \ {t} : Unrecorded(u)' <=> Unrecorded(u)
      BY <2>4, AloneOthers
    <3>4. \A u \in Thread \ {t} : Unrecorded(u) => SessionOfThread(u) # s
      BY <1>0, <1>5, WritersOpen, OneWriter
    <3>5. ContentInv'
      <4>1. \A u \in Thread : Unrecorded(u)' => content'[SessionOfThread(u)] = ThreadProcess[u]
        BY <1>0, <3>1, <3>3, <3>4, ThreadFacts DEF ContentInv
      <4>2. \A r \in Session : r # s => (Known(r)' <=> Known(r))
        BY <2>3, <3>1 DEF Known
      <4>3. \A r \in Session :
               Known(r)' \/ \E u \in Thread : SessionOfThread(u) = r /\ Unrecorded(u)'
        BY <1>0, <3>2, <3>3, <4>2 DEF ContentInv
      <4> QED
        BY <4>1, <4>3 DEF ContentInv, SessionOfThread
    <3>6. VerdictInv'
      <4> SUFFICES ASSUME NEW u \in Thread, u # t PROVE Judged(u)'
        BY <2>5 DEF VerdictInv
      <4>1. ASSUME call[u] = "GetClipboardData", pc[u] # "idle"
            PROVE  Permitted(u)' <=> Permitted(u)
        <5>1. SessionOfThread(u) # s
          BY <1>0, <2>9, <4>1 DEF PlacedInv, Placed, NeedsOpen, Wrote
        <5>2. content'[SessionOfThread(u)] = content[SessionOfThread(u)]
          BY <3>1, <5>1, ThreadFacts
        <5> QED
          BY <5>2 DEF Permitted, SessionOfThread, MayRead
      <4>2. Judged(u) /\ Before(u)' = Before(u)
        BY <1>0, <2>4, AloneOthers DEF VerdictInv
      <4> QED
        BY <1>1, <2>2, <2>3, <4>1, <4>2 DEF Judged
    <3> QED
      BY <2>3, <2>7, <3>5, <3>6 DEF CalmInv
  <2> QED
    BY <2>1, <2>8, <2>9
<1> QED
  BY <1>4, <1>5 DEF Original

\* Nothing outside the service and the threads happens.
LEMMA NoFaultCalm ==
    ASSUME FaultFree, Base, CalmInv, ShieldNext
    PROVE  /\ ~Restart
           /\ \A p \in Process : ~Shakes(p) /\ ~Kill(p)
           /\ \A t \in Thread : ~TimeoutPre(t) /\ ~TimeoutPost(t) /\ ~Disconnect(t)
<1>1. ~Restart
  BY DEF Restart, ServiceDown, ServiceUp, FaultFree, CalmInv, UpInv
<1>2. \A p \in Process : ~Shakes(p) /\ ~Kill(p)
  BY DEF Shakes, Initialize, Connect, CompleteConnection, Kill, FaultFree, CalmInv, UpInv, Base,
         ShieldInv, ShieldTypeOK
<1>3. \A t \in Thread : ~Disconnect(t)
  BY DEF Disconnect, CalmInv, PlacedInv, Placed
<1> QED
  BY <1>1, <1>2, <1>3 DEF TimeoutPre, TimeoutPost, FaultFree

LEMMA CalmStep ==
    ASSUME FaultFree, Base, CalmInv, [ShieldNext]_shield_vars
    PROVE  CalmInv'
<1>1. CASE Serve
  BY <1>1, OnCopyBeginCalm, OnCopyEndCalm, OnPasteCalm DEF Serve
<1>2. ASSUME NEW t \in Thread,
             \/ SendPre(t) \/ TakePre(t) \/ Original(t)
             \/ CheckPost(t) \/ SendPost(t) \/ TakePost(t)
             \/ \E f \in CallsOf[t] : Enter(t, f)
      PROVE  CalmInv'
  BY <1>2, SendPreCalm, TakePreCalm, OriginalCalm, CheckPostCalm, SendPostCalm, TakePostCalm,
     EnterCalm
<1>3. CASE UNCHANGED shield_vars
  <2>1. UNCHANGED <<service_vars, client_vars>>
    BY <1>3 DEF shield_vars
  <2>2. UpInv' /\ PlacedInv'
    BY <2>1 DEF CalmInv, UpInv, PlacedInv, Placed, SessionOfThread, service_vars, client_vars,
                hook_vars
  <2>3. WireInv' /\ TakenInv'
    BY <2>1 DEF CalmInv, WireInv, Awaited, TakenInv, Before, After, InInbox, SessionOfThread,
                service_vars, client_vars, hook_vars
  <2>4. ASSUME NEW t \in Thread
        PROVE  /\ Begun(t)' <=> Begun(t)
               /\ Unrecorded(t)' <=> Unrecorded(t)
               /\ Before(t)' = Before(t)
               /\ Judged(t) => Judged(t)'
    BY <2>1 DEF Begun, Unrecorded, Judged, Permitted, Before, After, InInbox, SessionOfThread,
                service_vars, client_vars, hook_vars
  <2>5. BegunInv' /\ VerdictInv'
    BY <2>1, <2>4 DEF CalmInv, BegunInv, VerdictInv, SessionOfThread, service_vars
  <2>6. UNCHANGED <<content, last_clipboard_writers>>
    BY <2>1 DEF service_vars, client_vars, hook_vars
  <2>7. \A s \in Session : Known(s)' <=> Known(s)
    BY <2>6 DEF Known
  <2>8. ContentInv'
    BY <2>4, <2>6, <2>7 DEF CalmInv, ContentInv, SessionOfThread
  <2> QED
    BY <2>2, <2>3, <2>5, <2>8 DEF CalmInv
<1> QED
  BY <1>1, <1>2, <1>3, NoFaultCalm, ShieldCases

LEMMA CalmInit == FaultFree /\ ShieldInit => CalmInv
<1> SUFFICES ASSUME FaultFree, ShieldInit PROVE CalmInv
  OBVIOUS
<1>1. /\ \A t \in Thread : pc[t] = "idle" /\ call[t] = "GetClipboardData" /\ ~succeeded[t]
      /\ \A s \in Session : content[s] = NoWriter /\ last_clipboard_writers[s] = NoWriter
      /\ inbox = {}
  BY DEF ShieldInit, Init
<1>2. UpInv
  BY DEF ShieldInit, Init, FaultFree, UpInv
<1>3. PlacedInv /\ WireInv /\ TakenInv /\ BegunInv
  BY <1>1 DEF PlacedInv, Placed, WireInv, TakenInv, BegunInv, Begun
<1>4. ContentInv /\ VerdictInv
  BY <1>1 DEF ContentInv, Unrecorded, Known, VerdictInv, Judged
<1> QED
  BY <1>2, <1>3, <1>4 DEF CalmInv

LEMMA BaseHolds == ShieldSpec => []Base
<1>1. Spec => []ForgetInv
  <2>1. Init => TypeOK /\ ForgetInv
    BY TypeInit, ForgetInit
  <2>2. TypeOK /\ ForgetInv /\ [Next]_service_vars => (TypeOK /\ ForgetInv)'
    BY TypeStep, ForgetStep
  <2> QED
    BY <2>1, <2>2, PTL DEF Spec
<1>2. Base <=> ShieldInv /\ ForgetInv /\ LastWriterCompletedACopy
  BY DEF Base
<1> QED
  BY <1>1, <1>2, ShieldInvHolds, ShieldImplementsInterceptor, LastWriterCorrect, PTL

LEMMA CalmHolds ==
    ASSUME FaultFree
    PROVE  ShieldSpec => [](Base /\ CalmInv)
<1>1. ShieldInit => CalmInv
  BY CalmInit
<1>2. Base /\ CalmInv /\ [ShieldNext]_shield_vars => CalmInv'
  BY CalmStep
<1> QED
  BY <1>1, <1>2, BaseHolds, PTL DEF ShieldSpec

------------------------------------------------------------------------------
(* Each step is one of the reference monitor, or none of its business.       *)

Readers == {ThreadProcess[t] : t \in {u \in Thread : Reading(u)}}

\* A session has one reading thread, and it is the one with the clipboard open.
LEMMA OneReads ==
    ASSUME PlacedInv, NEW t \in Thread, call[t] \in NeedsOpen, pc[t] # "idle",
           NEW u \in Thread, Reading(u), SessionOfThread(u) = SessionOfThread(t)
    PROVE  t = u
<1>1. call[u] \in NeedsOpen /\ pc[u] # "idle"
  BY DEF Reading, NeedsOpen
<1> QED
  BY <1>1, OneHasItOpen

\* Only thread t may start or stop reading in a step of its own.
LEMMA OthersRead ==
    ASSUME Base, NEW t \in Thread, NEW u \in Thread \ {t},
           \/ SendPre(t) \/ TakePre(t) \/ Original(t)
           \/ CheckPost(t) \/ SendPost(t) \/ TakePost(t)
           \/ \E f \in CallsOf[t] : Enter(t, f)
    PROVE  Reading(u)' <=> Reading(u)
<1>1. ControlType /\ ShieldTypeOK
  BY TypeParts DEF Base, ShieldInv
<1>2. pc'[u] = pc[u]
  BY <1>1, StepOfThread, ThreadCases DEF Calls, Asks, Takes, GoesOn,
     SendPre, SendPost, GoTo, Return, ControlType
<1>3. call'[u] = call[u] /\ vouched'[u] = vouched[u]
  BY <1>1 DEF ControlType, SendPre, TakePre, Original, CheckPost, SendPost, TakePost, Enter
<1> QED
  BY <1>2, <1>3 DEF Reading

\* Nothing happens to what the monitor watches.
LEMMA Stutters ==
    ASSUME \A u \in Thread : Reading(u)' <=> Reading(u), content' = content
    PROVE  UNCHANGED Monitor!vars
<1>1. Readers' = Readers
  BY DEF Readers
<1> QED
  BY <1>1 DEF Monitor!vars, Readers

LEMMA TakePreMaps ==
    ASSUME FaultFree, Base, CalmInv, NEW t \in Thread, TakePre(t)
    PROVE  [Monitor!Next]_Monitor!vars
<1> DEFINE p == ThreadProcess[t]
<1>0. /\ \A u \in Thread \ {t} : Reading(u)' <=> Reading(u)
      /\ pc[t] = "pre_wait" /\ content' = content /\ call' = call
      /\ ~Reading(t) /\ PlacedInv /\ p \in Process
  BY OthersRead, ThreadFacts DEF TakePre, Reading, CalmInv
<1>1. CASE ~Reading(t)'
  BY <1>0, <1>1, Stutters
<1>2. CASE Reading(t)'
  <2>1. call[t] = "GetClipboardData" /\ call[t] \in NeedsOpen
    BY <1>0, <1>2 DEF Reading, NeedsOpen
  <2>2. \A u \in Thread : Reading(u) => ThreadProcess[u] # p
    BY <1>0, <2>1, OneReads DEF SessionOfThread
  <2>3. p \notin Readers /\ Readers' = Readers \cup {p}
    BY <1>0, <1>2, <2>2 DEF Readers
  <2>4. MayRead(content[SessionOf[p]], p)
    <3>1. Permitted(t)'
      BY <1>2, TakePreCalm DEF CalmInv, VerdictInv, Judged, Reading
    <3> QED
      BY <1>0, <3>1 DEF Permitted, SessionOfThread, MayRead
  <2>5. Monitor!StartRead(p)
    BY <1>0, <2>3, <2>4 DEF Monitor!StartRead, Readers
  <2> QED
    BY <1>0, <2>5 DEF Monitor!Next
<1> QED
  BY <1>1, <1>2

LEMMA OriginalMaps ==
    ASSUME FaultFree, Base, CalmInv, NEW t \in Thread, Original(t)
    PROVE  [Monitor!Next]_Monitor!vars
<1> DEFINE p == ThreadProcess[t]
           s == SessionOfThread(t)
<1>0. /\ \A u \in Thread \ {t} : Reading(u)' <=> Reading(u)
      /\ pc[t] = "original" /\ PlacedInv /\ p \in Process
  BY OthersRead, ThreadFacts DEF Original, CalmInv
<1>1. CASE call[t] \in Reads
  <2>1. Return(t) /\ UNCHANGED <<succeeded, content>>
    BY <1>1 DEF Original, Reads, Writes
  <2>2. ~Reading(t)'
    BY <2>1 DEF Return, GoTo, Reading, Base, ShieldInv, ShieldTypeOK
  <2>3. CASE ~Reading(t)
    BY <1>0, <2>1, <2>2, <2>3, Stutters
  <2>4. CASE Reading(t)
    <3>1. call[t] \in NeedsOpen
      BY <2>4 DEF Reading, NeedsOpen
    <3>2. \A u \in Thread \ {t} : Reading(u) => ThreadProcess[u] # p
      BY <1>0, <3>1, OneReads DEF SessionOfThread
    <3>3. p \in Readers /\ Readers' = Readers \ {p}
      BY <1>0, <2>2, <2>4, <3>2 DEF Readers
    <3>4. Monitor!EndRead(p)
      BY <2>1, <3>3 DEF Monitor!EndRead, Readers
    <3> QED
      BY <1>0, <3>4 DEF Monitor!Next
  <2> QED
    BY <2>3, <2>4
<1>2. CASE call[t] \in Writes
  <2>0. /\ call' = call /\ ~Reading(t) /\ ~Reading(t)'
    BY <1>2 DEF Original, Reading, Writes
  <2>1. call[t] \in NeedsOpen
    BY <1>2, WritersOpen, <1>0
  <2>2. content' = content \/ content' = [content EXCEPT ![s] = p]
    BY <1>2 DEF Original, Reads, Writes
  <2>3. CASE content' = content
    BY <1>0, <2>0, <2>3, Stutters
  <2>4. CASE content' = [content EXCEPT ![s] = p]
    <3>1. Readers' = Readers
      BY <1>0, <2>0 DEF Readers
    <3>2. \A q \in Readers : SessionOf[q] # SessionOf[p]
      BY <1>0, <2>0, <2>1, OneReads DEF SessionOfThread, Readers
    <3>3. Monitor!Write(p)
      BY <2>4, <3>1, <3>2 DEF Monitor!Write, Readers, SessionOfThread
    <3> QED
      BY <1>0, <3>3 DEF Monitor!Next
  <2> QED
    BY <2>2, <2>3, <2>4
<1> QED
  BY <1>1, <1>2 DEF Original

LEMMA StepMaps ==
    ASSUME FaultFree, Base, CalmInv, [ShieldNext]_shield_vars
    PROVE  [Monitor!Next]_Monitor!vars
<1>1. CASE Serve \/ UNCHANGED shield_vars
  <2>1. UNCHANGED client_vars
    BY <1>1 DEF Serve, shield_vars
  <2>2. content' = content /\ \A u \in Thread : Reading(u)' <=> Reading(u)
    BY <2>1 DEF client_vars, hook_vars, Reading
  <2> QED
    BY <2>2, Stutters
<1>2. ASSUME NEW t \in Thread,
             \/ SendPre(t) \/ CheckPost(t) \/ SendPost(t) \/ TakePost(t)
             \/ \E f \in CallsOf[t] : Enter(t, f)
      PROVE  [Monitor!Next]_Monitor!vars
  <2>1. content' = content /\ \A u \in Thread \ {t} : Reading(u)' <=> Reading(u)
    BY <1>2, OthersRead DEF SendPre, CheckPost, SendPost, TakePost, Enter
  <2>2. ~Reading(t) /\ ~Reading(t)'
    <3>1. ShieldTypeOK /\ ThreadProcess[t] \in Process /\ ipc[ThreadProcess[t]]
          /\ connected[ThreadProcess[t]]
      BY ThreadFacts DEF Base, ShieldInv, CalmInv, UpInv
    <3> QED
      BY <1>2, <3>1 DEF SendPre, CheckPost, SendPost, TakePost, Enter, GoTo, Return, Reading,
                        ShieldTypeOK
  <2> QED
    BY <2>1, <2>2, Stutters
<1>3. ASSUME NEW t \in Thread, TakePre(t) \/ Original(t)
      PROVE  [Monitor!Next]_Monitor!vars
  BY <1>3, TakePreMaps, OriginalMaps
<1> QED
  BY <1>1, <1>2, <1>3, NoFaultCalm, ShieldCases

------------------------------------------------------------------------------
(* Theorems.                                                                *)

\* The copy that a CopyEnd ends is the one its own call began, although
\* internal_on_copy_end looks only at the session: while nothing fails, no two
\* writes of a session are under way at once.
THEOREM EndsItsOwnCopy ==
    ASSUME FaultFree
    PROVE  ShieldSpec => []CopyEndEndsItsOwnCopy
<1>1. Base /\ CalmInv => CopyEndEndsItsOwnCopy
  <2> SUFFICES ASSUME Base, CalmInv, NEW m \in inbox, m.type = "CopyEnd"
               PROVE  copies_in_progress[SessionOfMessage(m)]
                          = <<m.request[1], m.request[2] - 1>>
    BY DEF CopyEndEndsItsOwnCopy
  <2> DEFINE t == m.request[1]
  <2>1. /\ t \in Thread /\ m.request = After(t)
        /\ copies_in_progress[SessionOfMessage(m)] = Before(t)
    BY EndFindsItsOwn
  <2>2. m.request[2] = 2 * calls[t]
    BY <2>1 DEF After
  <2> QED
    BY <2>1, <2>2 DEF Before
<1> QED
  BY <1>1, CalmHolds, PTL

\* Every read that is let through is one that the policy permits, given who really
\* wrote what the clipboard holds.
THEOREM ReadersObey ==
    ASSUME FaultFree
    PROVE  ShieldSpec => []ReadersObeyPolicy
<1>1. Base /\ CalmInv => ReadersObeyPolicy
  BY DEF CalmInv, VerdictInv, Judged, Permitted, ReadersObeyPolicy, Reading
<1> QED
  BY <1>1, CalmHolds, PTL

\* The service and the hooks together are a reference monitor: reads the policy
\* permits, no write in a session while it is read, and nothing else to see.
THEOREM ShieldImplementsMonitor ==
    ASSUME FaultFree
    PROVE  ShieldSpec => ImplementsMonitor
<1>1. ShieldInit => Monitor!Init
  <2> SUFFICES ASSUME ShieldInit PROVE Monitor!Init
    OBVIOUS
  <2>1. \A t \in Thread : ~Reading(t)
    BY DEF ShieldInit, Reading
  <2> QED
    BY <2>1 DEF ShieldInit, Monitor!Init
<1>2. Base /\ CalmInv /\ [ShieldNext]_shield_vars => [Monitor!Next]_Monitor!vars
  BY StepMaps
<1> QED
  BY <1>1, <1>2, CalmHolds, PTL DEF ShieldSpec, ImplementsMonitor, Monitor!Spec

------------------------------------------------------------------------------
(* Nobody waits for somebody who waits.                                     *)

\* One thread of each process uses the clipboard.
SingleThreaded ==
    \A t, u \in Thread : ThreadProcess[t] = ThreadProcess[u] => t = u

\* The request of a thread that waits was sent, before the call in the type of the
\* call, and its answer was not read.
TypeOfCall(m, t) ==
    pc[t] = "pre_wait" => m.type = IF call[t] \in Writes THEN "CopyBegin" ELSE "Paste"

Kept(t) ==
    Awaits(t) =>
        /\ Current(t) \notin discarded
        /\ \E m \in sent : m.request = Current(t) /\ TypeOfCall(m, t)

KeptInv == \A t \in Thread : Kept(t)

\* No copy has to wait.
NoCopyWaits == \A s \in Session : copies_waiting[s] = <<>>

LEMMA CurrentRequest ==
    ASSUME Base, NEW t \in Thread, Awaits(t)
    PROVE  Current(t) \in Request /\ ProcessOf[Current(t)] = ThreadProcess[t]
<1>1. calls[t] > 0
  BY DEF Base, ShieldInv, CallsInv, Awaits
<1>2. Before(t) \in Request /\ After(t) \in Request
  BY <1>1, Numbers DEF Base, ShieldInv
<1>3. Current(t) \in Request /\ Current(t)[1] = t
  BY <1>2 DEF Current, Before, After
<1> QED
  BY <1>3, RequestParts

\* What a thread reads, or empties, are answers to its own process.
LEMMA OthersKept ==
    ASSUME Base, KeptInv, NEW t \in Thread, NEW u \in Thread \ {t},
           ThreadProcess[u] # ThreadProcess[t], Kept(u),
           NEW D \in SUBSET {x.request : x \in Unread(ThreadProcess[t])},
           discarded' = discarded \cup D, sent \subseteq sent',
           Current(u)' = Current(u), Awaits(u)' => Awaits(u),
           pc'[u] = pc[u], call'[u] = call[u]
    PROVE  Kept(u)'
<1> SUFFICES ASSUME Awaits(u)' PROVE Kept(u)'
  BY DEF Kept
<1>1. Current(u) \notin D
  BY CurrentRequest DEF Unread
<1>2. \A m : TypeOfCall(m, u)' <=> TypeOfCall(m, u)
  BY DEF TypeOfCall
<1> QED
  BY <1>1, <1>2 DEF Kept

LEMMA KeptStep ==
    ASSUME Base, KeptInv, [ShieldNext]_shield_vars
    PROVE  KeptInv'
<1>0. /\ ShieldTypeOK /\ WaitersHold /\ SharedType /\ CallsInv /\ HoldersInv /\ DiscardedInv
      /\ ReplyInv
  BY TypeParts DEF Base, ShieldInv
<1>1. CASE /\ UNCHANGED <<discarded, calls, call>>
           /\ sent \subseteq sent'
           /\ \A t \in Thread : Awaits(t)' => pc'[t] = pc[t]
  <2> SUFFICES ASSUME NEW t \in Thread, Awaits(t)' PROVE Kept(t)'
    BY DEF KeptInv, Kept
  <2>1. /\ Awaits(t) /\ Current(t)' = Current(t)
        /\ \A m : TypeOfCall(m, t)' <=> TypeOfCall(m, t)
    BY <1>1 DEF Awaits, Current, Before, After, TypeOfCall
  <2> QED
    BY <1>1, <2>1 DEF KeptInv, Kept
<1>2. CASE Serve \/ Restart
  BY <1>1, <1>2, ServiceSteps DEF hook_vars
<1>3. ASSUME NEW p \in Process, Shakes(p) \/ Kill(p)
      PROVE  KeptInv'
  <2>1. UNCHANGED <<discarded, calls, call, sent>>
    BY <1>3, ShakeStep DEF Kill, ProcessExit
  <2>2. \A t \in Thread : Awaits(t)' => pc'[t] = pc[t]
    BY <1>3, ShakeStep DEF Kill, Awaits
  <2> QED
    BY <1>1, <2>1, <2>2
<1>4. CASE UNCHANGED shield_vars
  BY <1>1, <1>4 DEF shield_vars, service_vars, client_vars, hook_vars
<1>5. ASSUME NEW t \in Thread, Calls(t) \/ GoesOn(t) \/ GivesUp(t) \/ Takes(t) \/ Asks(t)
      PROVE  KeptInv'
  <2> DEFINE p == ThreadProcess[t]
  <2>0. /\ p \in Process /\ \A u \in Thread \ {t} : pc'[u] = pc[u]
    BY <1>0, <1>5, ThreadFacts, StepOfThread
  <2>1. \A u \in Thread \ {t} : calls'[u] = calls[u] /\ call'[u] = call[u]
    BY <1>5, CallsUnchanged DEF Calls, Enter, Base, ShieldInv, ShieldTypeOK
  <2>2. \A u \in Thread \ {t} : /\ Current(u)' = Current(u)
                                /\ Awaits(u)' <=> Awaits(u)
                                /\ \A m : TypeOfCall(m, u)' <=> TypeOfCall(m, u)
    BY <2>0, <2>1 DEF Current, Before, After, Awaits, TypeOfCall
  <2>3. CASE Calls(t) \/ GoesOn(t) \/ GivesUp(t)
    <3>1. ~Awaits(t)'
      BY <1>0, <2>3, MutexOfThread
    <3>2. UNCHANGED <<discarded, sent>>
      BY <2>3, <3>1, OthersSendNothing
         DEF Calls, GoesOn, GivesUp, Enter, Original, CheckPost, SendPre, SendPost, TimeoutPre,
             TimeoutPost, Disconnect, service_vars
    <3> QED
      BY <2>2, <3>1, <3>2 DEF KeptInv, Kept
  <2>4. CASE Takes(t)
    <3>1. Awaits(t) /\ ~Awaits(t)'
      BY <1>0, <2>4, MutexOfThread
    <3>2. sent' = sent
      BY <2>4, <3>1, OthersSendNothing DEF service_vars
    <3>3. PICK x \in Unread(p) : discarded' = discarded \cup {x.request}
      BY <2>4 DEF Takes, TakePre, TakePost, TakeReply
    <3>4. ASSUME NEW u \in Thread \ {t}, Awaits(u)
          PROVE  ThreadProcess[u] # p
      BY <1>0, <3>1, <3>4 DEF WaitersHold, Awaits
    <3>5. ASSUME NEW u \in Thread \ {t}, Awaits(u)
          PROVE  Kept(u)'
      BY <2>0, <2>1, <2>2, <3>2, <3>3, <3>4, <3>5, OthersKept DEF KeptInv
    <3> QED
      BY <2>2, <3>1, <3>5 DEF KeptInv, Kept
  <2>5. CASE Asks(t)
    <3>1. ipc_mutex[p] = NoThread
      BY <1>0, <2>5, MutexOfThread
    <3>2. PICK m \in Message : /\ Send(m) /\ SendAndWait(t, m)
                               /\ m.request = Current(t)'
                               /\ m \in {PreMessage(t), PostMessage(t)}
                               /\ UNCHANGED <<call, calls>>
      BY <1>0, <2>5, AskSends
    <3>10. TypeOfCall(m, t)'
      <4> SUFFICES ASSUME pc'[t] = "pre_wait"
                   PROVE  m.type = IF call[t] \in Writes THEN "CopyBegin" ELSE "Paste"
        BY <3>2 DEF TypeOfCall
      <4>1. m.request = Before(t)
        BY <3>2 DEF Current, Before
      <4>2. m = PreMessage(t)
        BY <3>2, <4>1, NumbersDiffer DEF PostMessage
      <4> QED
        BY <4>2 DEF PreMessage
    <3>3. PICK D \in SUBSET {x.request : x \in Unread(p)} : discarded' = discarded \cup D
      BY <3>2 DEF SendAndWait
    <3>4. sent' = sent \cup {m} /\ \A n \in sent : n.request # m.request
      BY <3>2 DEF Send
    <3>5. ~Replied(m.request)
      BY <1>0, <3>4 DEF ReplyInv, RepliesSettled, Replied
    <3>6. m.request \notin D /\ m.request \notin discarded
      BY <1>0, <3>5 DEF Unread, Replied, DiscardedInv
    <3>7. Kept(t)'
      BY <3>2, <3>3, <3>4, <3>6, <3>10 DEF Kept
    <3>8. ASSUME NEW u \in Thread \ {t}, Awaits(u)
          PROVE  ThreadProcess[u] # p
      BY <1>0, <3>1, <3>8, ShieldAssumption DEF WaitersHold, Awaits
    <3>9. ASSUME NEW u \in Thread \ {t}, Awaits(u)
          PROVE  Kept(u)'
      BY <2>0, <2>1, <2>2, <3>3, <3>4, <3>8, <3>9, OthersKept DEF KeptInv
    <3> QED
      BY <2>2, <3>7, <3>9 DEF KeptInv, Kept
  <2> QED
    BY <1>5, <2>3, <2>4, <2>5
<1> QED
  BY <1>0, <1>2, <1>3, <1>4, <1>5, ThreadCases

LEMMA NoCopyWaitsStep ==
    ASSUME FaultFree, Base, CalmInv, NoCopyWaits, [ShieldNext]_shield_vars
    PROVE  NoCopyWaits'
<1>1. CASE UNCHANGED copies_waiting
  BY <1>1 DEF NoCopyWaits
<1>2. CASE Serve
  <2>1. ASSUME NEW m \in inbox, OnCopyBegin(m) PROVE copies_waiting' = copies_waiting
    <3>1. copies_in_progress[SessionOfMessage(m)] = NoRequest
      BY <2>1, BeginFindsNone DEF OnCopyBegin, Take
    <3> QED
      BY <2>1, <3>1 DEF OnCopyBegin
  <2>2. ASSUME NEW m \in inbox, OnCopyEnd(m) PROVE NoCopyWaits'
    <3>1. EndCopy(m)
      BY <2>2, OnCopyEndIsEndCopy
    <3>2. copies_waiting' = [copies_waiting EXCEPT ![SessionOfMessage(m)] =
                                IF @ = <<>> THEN @ ELSE Tail(@)]
      BY <3>1 DEF EndCopy
    <3> QED
      BY <3>2 DEF NoCopyWaits, Base, ShieldInv, TypeOK
  <2>3. ASSUME NEW m \in inbox, OnPaste(m) PROVE copies_waiting' = copies_waiting
    BY <2>3 DEF OnPaste
  <2> QED
    BY <1>1, <1>2, <2>1, <2>2, <2>3 DEF Serve
<1>3. ASSUME NEW t \in Thread,
             \/ SendPre(t) \/ TakePre(t) \/ Original(t)
             \/ CheckPost(t) \/ SendPost(t) \/ TakePost(t)
             \/ \E f \in CallsOf[t] : Enter(t, f)
      PROVE  copies_waiting' = copies_waiting
  BY <1>3 DEF SendPre, SendAndWait, Send, TakePre, Original, CheckPost, SendPost, TakePost, Enter,
              service_vars
<1>4. CASE UNCHANGED shield_vars
  BY <1>1, <1>4 DEF shield_vars, service_vars
<1> QED
  BY <1>1, <1>2, <1>3, <1>4, NoFaultCalm, ShieldCases

\* A thread that gets no answer asked to read, and its request waits in a session
\* that is locked.
LEMMA UnansweredWaits ==
    ASSUME Base, CalmInv, KeptInv, NoCopyWaits, NEW t \in Thread, Unanswered(t)
    PROVE  /\ \E m \in sent : m.type = "Paste" /\ m.request = Current(t) /\ TypeOfCall(m, t)
           /\ copies_in_progress[SessionOfThread(t)] # NoRequest
<1> DEFINE s == SessionOfThread(t)
<1>1. /\ Awaits(t) /\ ~InInbox(Current(t)) /\ Current(t) \notin discarded
      /\ s \in Session /\ ThreadProcess[t] \in Process
  BY ThreadFacts DEF Unanswered, Awaits, KeptInv, Kept
<1>2. Current(t) \in Request /\ ProcessOf[Current(t)] = ThreadProcess[t]
  BY <1>1, CurrentRequest
<1>3. PICK m \in sent : m.request = Current(t) /\ TypeOfCall(m, t)
  BY <1>1 DEF KeptInv, Kept
<1>4. m \notin inbox
  BY <1>1, <1>3 DEF InInbox
<1>5. ~Replied(m.request)
  BY <1>1, <1>2, <1>3 DEF Unanswered, Unread, Replied
<1>6. Waiting(m)
  BY <1>1, <1>2, <1>3, <1>4, <1>5 DEF Base, ForgetInv, Accounted, CalmInv, UpInv
<1>7. PICK r \in Session : \E e \in WaitingIn(r) : e.message = m
  BY <1>6 DEF Waiting
<1>8. PICK e \in ToSet(pastes_waiting[r]) : e.message = m
  BY <1>7 DEF NoCopyWaits, WaitingIn, ToSet
<1>9. m.type = "Paste" /\ SessionOfMessage(m) = r
  BY <1>8, WaitingSettled DEF WaitingIn, Base, ShieldInv
<1>10. r = s
  BY <1>2, <1>3, <1>9 DEF SessionOfMessage, SessionOfThread
<1>11. pastes_waiting[r] # <<>>
  BY <1>8 DEF ToSet
<1> QED
  BY <1>3, <1>9, <1>10, <1>11 DEF Base, ShieldInv, QueueInv, PastesLocked

LEMMA NoCircle ==
    ASSUME SingleThreaded, Base, CalmInv, KeptInv, NoCopyWaits
    PROVE  NobodyWaitsInACircle
<1> SUFFICES ASSUME NEW t \in Thread, Unanswered(t)
             PROVE  /\ pc[t] = "pre_wait" /\ call[t] \in Reads
                    /\ \E u \in Thread :
                        /\ SessionOfThread(u) = SessionOfThread(t)
                        /\ Writing(u)
                        /\ ~Unanswered(u)
                        /\ ipc_mutex[ThreadProcess[u]] \in {NoThread, u}
  BY DEF NobodyWaitsInACircle
<1> DEFINE s == SessionOfThread(t)
<1>1. PICK m \in sent : m.type = "Paste" /\ m.request = Current(t) /\ TypeOfCall(m, t)
  BY UnansweredWaits
<1>2. s \in Session /\ copies_in_progress[s] # NoRequest
  BY UnansweredWaits, ThreadFacts
<1>3. PICK n \in sent : /\ n.type = "CopyBegin" /\ n.request = copies_in_progress[s]
                        /\ SessionOfMessage(n) = s
  BY <1>2 DEF Base, ShieldInv, RecordedInv
<1> DEFINE u == n.request[1]
<1>4. n.request \in Request /\ u \in Thread /\ SessionOfThread(u) = s
      /\ ThreadProcess[u] \in Process
  BY <1>3, MessageFields, RequestParts, ThreadFacts
     DEF Base, ShieldInv, TypeOK, SessionOfMessage, SessionOfThread
<1>5. Active(n.request)
  BY <1>2, <1>3 DEF Base, ShieldInv, LocksInv
<1>6. /\ n.request = Before(u)
      /\ \/ pc[u] \in {"pre_wait", "original", "written", "post"}
         \/ pc[u] = "post_wait" /\ InInbox(After(u))
  BY <1>4, <1>5, NobodyGaveUp DEF Active, CalmInv, UpInv
<1>7. Writing(u)
  BY <1>3, <1>4, <1>6 DEF Base, ShieldInv, SentInv, Writing
<1>8. ~Unanswered(u)
  <2> SUFFICES ASSUME Unanswered(u) PROVE FALSE
    OBVIOUS
  <2>1. pc[u] = "pre_wait" /\ Current(u) = Before(u)
    BY <1>6 DEF Unanswered, Current
  <2>2. PICK k \in sent : k.type = "Paste" /\ k.request = Current(u)
    BY <1>4, UnansweredWaits
  <2>3. k = n
    BY <1>3, <1>6, <2>1, <2>2, SameRequest DEF Base, ShieldInv
  <2> QED
    BY <1>3, <2>2, <2>3
<1>9. ipc_mutex[ThreadProcess[u]] \in {NoThread, u}
  <2>1. ipc_mutex[ThreadProcess[u]] \in Thread \cup {NoThread}
    BY <1>4 DEF Base, ShieldInv, ShieldTypeOK
  <2>2. ipc_mutex[ThreadProcess[u]] # NoThread =>
            ThreadProcess[ipc_mutex[ThreadProcess[u]]] = ThreadProcess[u]
    BY <1>4 DEF Base, ShieldInv, HoldersInv
  <2> QED
    BY <1>4, <2>1, <2>2 DEF SingleThreaded
<1>10. pc[t] = "pre_wait" /\ call[t] \in Reads
  <2>1. pc[t] \in {"pre_wait", "post_wait"} /\ calls[t] \in Nat
        /\ call[t] \in Writes \cup Reads
    BY ShieldAssumption DEF Unanswered, Base, ShieldInv, ShieldTypeOK
  <2>2. pc[t] = "pre_wait"
    <3> SUFFICES ASSUME pc[t] = "post_wait" PROVE FALSE
      BY <2>1
    <3>1. m.request[2] = 2 * calls[t]
      BY <1>1 DEF Current, After
    <3>2. PICK k \in Nat : m.request[2] = 2 * k - 1
      BY <1>1 DEF Base, ShieldInv, SentInv
    <3> QED
      BY <2>1, <3>1, <3>2
  <2>3. call[t] \notin Writes
    BY <1>1, <2>2 DEF TypeOfCall
  <2> QED
    BY <2>1, <2>2, <2>3
<1> QED
  BY <1>4, <1>7, <1>8, <1>9, <1>10

\* While nothing fails, nobody writes through OLE and each process has one thread,
\* whoever waits without an answer is kept by a writer who does not wait himself
\* and can take the mutex for his CopyEnd: the safety that EveryCallReturns rests on.
THEOREM NoCircularWait ==
    ASSUME FaultFree, SingleThreaded
    PROVE  ShieldSpec => []NobodyWaitsInACircle
<1>1. ShieldInit => KeptInv /\ NoCopyWaits
  <2> SUFFICES ASSUME ShieldInit PROVE KeptInv /\ NoCopyWaits
    OBVIOUS
  <2>1. \A t \in Thread : ~Awaits(t)
    BY DEF ShieldInit, Awaits
  <2> QED
    BY <2>1 DEF ShieldInit, Init, KeptInv, Kept, NoCopyWaits
<1>2. Base /\ CalmInv /\ KeptInv /\ NoCopyWaits /\ [ShieldNext]_shield_vars
        => (KeptInv /\ NoCopyWaits)'
  BY KeptStep, NoCopyWaitsStep
<1>3. Base /\ CalmInv /\ KeptInv /\ NoCopyWaits => NobodyWaitsInACircle
  BY NoCircle
<1> QED
  BY <1>1, <1>2, <1>3, CalmHolds, PTL DEF ShieldSpec
==============================================================================
