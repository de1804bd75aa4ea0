----------------------------- MODULE Interceptor -----------------------------
(***************************************************************************)
(* The coordination of copies and pastes in the service (class Interceptor  *)
(* of libvts), seen from the service.                                      *)
(*                                                                         *)
(* Hooked processes send CopyBegin before they write the clipboard, CopyEnd *)
(* after, and Paste before they read it.  The service keeps, for each       *)
(* Windows session, the copy in progress, the copies and pastes that wait   *)
(* for it and the last process known to have written.  One thread pulls the *)
(* messages and runs their handlers, so handlers are atomic with respect to *)
(* each other; each is one action here.                                     *)
(*                                                                         *)
(* The clients are left open: a live process may send any request at any    *)
(* time.  Requests are told apart by an identity of the model (the payload  *)
(* on the wire carries process, thread and session, no sequence number).    *)
(* ClipboardShield composes this module with the clients as they are coded. *)
(***************************************************************************)
EXTENDS FirewallRules, FiniteSets

CONSTANTS
    Process,        \* hooked processes, a process id together with its unique id
    Session,        \* Windows sessions
    SessionOf,      \* SessionOf[p]: the session p runs in
    PathOf,         \* PathOf[p]: the path of the executable of p
    Request,        \* identities of requests
    ProcessOf,      \* ProcessOf[r]: the process that sends r
    Config,         \* the parsed configuration
    NoRequest,      \* no copy in progress
    NoWriter,       \* nobody is known to have written
    MaxCrashes      \* bound on the times the service goes down

ASSUME InterceptorAssumption ==
    /\ SessionOf \in [Process -> Session]
    /\ PathOf \in [Process -> Path]
    /\ ProcessOf \in [Request -> Process]
    /\ NoRequest \notin Request
    /\ MaxCrashes \in Nat

VARIABLES
    copies_in_progress,     \* per session, the request of the copy in progress
    copies_waiting,         \* per session, the copies to resume, in order
    pastes_waiting,         \* per session, the pastes to answer when the copy ends
    last_clipboard_writers, \* per session, the last process that completed a copy
    return_paths,           \* the processes whose return ring is mapped (libvts/IPC)
    running,                \* the service process exists
    crashes,                \* how often it went down
    alive,                  \* the hooked processes that exist
    inbox,                  \* messages in the ring of the service
    sent,                   \* every message sent so far
    replies                 \* every reply pushed to a client so far

service_vars == <<copies_in_progress, copies_waiting, pastes_waiting,
                  last_clipboard_writers, return_paths, running, crashes,
                  alive, inbox, sent, replies>>

\* A request on the wire; succeeded is extra_data[0], zero but in a CopyEnd.
Message == [request : Request, type : {"CopyBegin", "Paste"}, succeeded : {FALSE}]
           \cup [request : Request, type : {"CopyEnd"}, succeeded : BOOLEAN]

\* What the queues hold: the message and whether its return path was found
\* (the connection is a null pointer otherwise).
Entry == [message : Message, connection : BOOLEAN]

Writer == [process : Process, path : Path]

Reply == [request : Request, verdict : {"Continue", "Cancel"}]

SessionOfMessage(m) == SessionOf[ProcessOf[m.request]]

\* A service that has just started, with any set of clients connected.
Init ==
    /\ copies_in_progress = [s \in Session |-> NoRequest]
    /\ copies_waiting = [s \in Session |-> <<>>]
    /\ pastes_waiting = [s \in Session |-> <<>>]
    /\ last_clipboard_writers = [s \in Session |-> NoWriter]
    /\ return_paths \in SUBSET Process
    /\ running = TRUE
    /\ crashes = 0
    /\ alive = Process
    /\ inbox = {}
    /\ sent = {}
    /\ replies = {}

------------------------------------------------------------------------------
(* Helpers of the handlers.                                                 *)

\* The path of a process can be determined only while it exists.
get_process_full_path(p) == IF p \in alive THEN PathOf[p] ELSE EmptyPath

\* Defect for OnlyTheDeadTakeTheServiceDown: a return path that is not known is
\* not opened.
find_known_connection(p) == p \in return_paths

\* A return path is cached by process, and opened again while the process
\* that owns the memory exists.
find_connection(p) == p \in return_paths \/ p \in alive

Reconnect(p) ==
    return_paths' = IF find_connection(p) THEN return_paths \cup {p} ELSE return_paths

\* A process may always paste what it copied; otherwise the rules decide from
\* the path of the last writer and that of the reader.
check_copy(writer, p) ==
    IF writer # NoWriter /\ writer.process = p
    THEN "Allow"
    ELSE run_permissions_logic(Config,
                               IF writer = NoWriter THEN EmptyPath ELSE writer.path,
                               get_process_full_path(p))

PasteReply(writer, m) ==
    [request |-> m.request,
     verdict |-> IF check_copy(writer, ProcessOf[m.request]) = "Allow"
                 THEN "Continue" ELSE "Cancel"]

Continue(m) == [request |-> m.request, verdict |-> "Continue"]

\* Replies reach only a client whose return path is known.
SendIf(connection, reply) == IF connection THEN {reply} ELSE {}

\* Defect for TypeOK: the writer is recorded although its path is unknown.
set_last_copy_unchecked(m) ==
    LET p == ProcessOf[m.request]
    IN  IF m.succeeded
        THEN [process |-> p, path |-> get_process_full_path(p)]
        ELSE last_clipboard_writers[SessionOfMessage(m)]

\* Defect for LastWriterCompletedACopy: the outcome of the copy is not looked at.
set_last_copy_always(m) ==
    LET p == ProcessOf[m.request]
    IN  IF get_process_full_path(p) # EmptyPath
        THEN [process |-> p, path |-> get_process_full_path(p)]
        ELSE last_clipboard_writers[SessionOfMessage(m)]

\* Defect for ImplementsMonitor: an entry of the map is never overwritten, as
\* with insert() in place of operator[].
set_last_copy_once(m) ==
    LET p == ProcessOf[m.request]
        last == last_clipboard_writers[SessionOfMessage(m)]
    IN  IF last = NoWriter /\ m.succeeded /\ get_process_full_path(p) # EmptyPath
        THEN [process |-> p, path |-> get_process_full_path(p)]
        ELSE last

\* The last writer is recorded only when the path of the process that ended
\* its copy can still be determined.
set_last_copy(m) ==
    LET p == ProcessOf[m.request]
    IN  IF m.succeeded /\ get_process_full_path(p) # EmptyPath
        THEN [process |-> p, path |-> get_process_full_path(p)]
        ELSE last_clipboard_writers[SessionOfMessage(m)]

\* What the end of a copy does to its session, in four parts.

\* Defect for NoRequestForgotten: the resumed copy is not told.
nothing_resumed(s) == {}

\* The first waiting copy is told to go on.
resumed_copy(s) ==
    IF copies_waiting[s] = <<>> THEN {}
    ELSE SendIf(Head(copies_waiting[s]).connection, Continue(Head(copies_waiting[s]).message))

\* Defect for EveryCallReturns, NobodyWaitsInACircle and LocksBelongToACopy: the
\* entry stays.
copies_kept(s) == copies_in_progress

\* The resumed copy is written over the one that ended, and then the map entry
\* is erased: no copy is in progress afterwards.
copies_left(s) == [copies_in_progress EXCEPT ![s] = NoRequest]

\* Defect for PastesJudgedOnRecordedWriter: judged before the writer is recorded.
judged_on_previous_writer(m) ==
    {PasteReply(last_clipboard_writers[SessionOfMessage(m)], e.message) :
        e \in ToSet(pastes_waiting[SessionOfMessage(m)])}

\* The waiting pastes are judged on the writer that has just been recorded.
judged_pastes(m) ==
    {PasteReply(set_last_copy(m), e.message) : e \in ToSet(pastes_waiting[SessionOfMessage(m)])}

\* Defect for RequestsInOnePlace and PastesWaitOnlyWhileLocked: no pop_front().
pastes_kept(s) == pastes_waiting

pastes_left(s) == [pastes_waiting EXCEPT ![s] = <<>>]

------------------------------------------------------------------------------
(* The handlers, one action each.                                           *)

\* The service process is gone, with everything it keeps in memory.
MemoryLost ==
    /\ running' = FALSE
    /\ crashes' = crashes + 1
    /\ copies_in_progress' = [s \in Session |-> NoRequest]
    /\ copies_waiting' = [s \in Session |-> <<>>]
    /\ pastes_waiting' = [s \in Session |-> <<>>]
    /\ last_clipboard_writers' = [s \in Session |-> NoWriter]
    /\ return_paths' = {}

\* The message leaves the ring and its return path is looked up.
Take(m, type) ==
    /\ running
    /\ m \in inbox
    /\ m.type = type
    /\ inbox' = inbox \ {m}

\* Defect for CopyEndEndsItsOwnCopy: the copy is let through and not recorded.
OnCopyBeginUnrecorded(m) ==
    LET connection == find_connection(ProcessOf[m.request])
    IN  /\ Take(m, "CopyBegin")
        /\ Reconnect(ProcessOf[m.request])
        /\ replies' = replies \cup SendIf(connection, Continue(m))
        /\ UNCHANGED <<copies_in_progress, copies_waiting, pastes_waiting,
                       last_clipboard_writers, running, crashes, alive, sent>>

OnCopyBegin(m) ==
    LET s == SessionOfMessage(m)
        connection == find_connection(ProcessOf[m.request])
    IN  /\ Take(m, "CopyBegin")
        /\ Reconnect(ProcessOf[m.request])
        /\ \/ /\ copies_in_progress[s] = NoRequest
              /\ copies_in_progress' = [copies_in_progress EXCEPT ![s] = m.request]
              /\ replies' = replies \cup SendIf(connection, Continue(m))
              /\ UNCHANGED copies_waiting
           \/ /\ copies_in_progress[s] # NoRequest
              /\ copies_waiting' = [copies_waiting EXCEPT ![s] =
                     Append(@, [message |-> m, connection |-> connection])]
              /\ UNCHANGED <<copies_in_progress, replies>>
        /\ UNCHANGED <<pastes_waiting, last_clipboard_writers, running, crashes,
                       alive, sent>>

\* The branch commented "This should never happen.": nothing is recorded and
\* nobody is resumed, but the sender is answered.
EndWithoutCopy(m) ==
    /\ copies_in_progress[SessionOfMessage(m)] = NoRequest
    /\ replies' = replies \cup SendIf(find_connection(ProcessOf[m.request]), Continue(m))
    /\ UNCHANGED <<copies_in_progress, copies_waiting, pastes_waiting,
                   last_clipboard_writers, running, crashes>>

\* The first waiting copy is resumed, the session unlocked, the writer recorded
\* and the waiting pastes are judged, in this order.
EndCopy(m) ==
    LET s == SessionOfMessage(m)
    IN  /\ copies_in_progress[s] # NoRequest
        /\ \A e \in ToSet(pastes_waiting[s]) : e.connection
        /\ copies_in_progress' = copies_left(s)
        /\ copies_waiting' = [copies_waiting EXCEPT ![s] = IF @ = <<>> THEN @ ELSE Tail(@)]
        /\ last_clipboard_writers' = [last_clipboard_writers EXCEPT ![s] = set_last_copy(m)]
        /\ pastes_waiting' = pastes_left(s)
        /\ replies' = replies \cup judged_pastes(m) \cup resumed_copy(s)
              \cup SendIf(find_connection(ProcessOf[m.request]), Continue(m))
        /\ UNCHANGED <<running, crashes>>

\* A waiting paste whose connection is null is dereferenced while the queue is
\* drained: the pastes before it are answered and the service dies.
NullConnectionInDrain(m) ==
    LET queue == pastes_waiting[SessionOfMessage(m)]
    IN  /\ copies_in_progress[SessionOfMessage(m)] # NoRequest
        /\ \E i \in DOMAIN queue :
              /\ ~queue[i].connection
              /\ \A j \in 1 .. i - 1 : queue[j].connection
              /\ replies' = replies \cup
                    {PasteReply(set_last_copy(m), queue[j].message) : j \in 1 .. i - 1}
        /\ MemoryLost

OnCopyEnd(m) ==
    /\ Take(m, "CopyEnd")
    /\ \/ EndWithoutCopy(m) /\ Reconnect(ProcessOf[m.request])
       \/ EndCopy(m) /\ Reconnect(ProcessOf[m.request])
       \/ NullConnectionInDrain(m)
    /\ UNCHANGED <<alive, sent>>

OnPaste(m) ==
    LET s == SessionOfMessage(m)
        connection == find_connection(ProcessOf[m.request])
    IN  /\ Take(m, "Paste")
        /\ Reconnect(ProcessOf[m.request])
        /\ \/ /\ copies_in_progress[s] = NoRequest
              /\ replies' = replies \cup
                    SendIf(connection, PasteReply(last_clipboard_writers[s], m))
              /\ UNCHANGED pastes_waiting
           \/ /\ copies_in_progress[s] # NoRequest
              /\ pastes_waiting' = [pastes_waiting EXCEPT ![s] =
                     Append(@, [message |-> m, connection |-> connection])]
              /\ UNCHANGED replies
        /\ UNCHANGED <<copies_in_progress, copies_waiting, last_clipboard_writers,
                       running, crashes, alive, sent>>

\* A process completes the connection handshake (abstracted to its effect).
OnConnection(p) ==
    /\ running
    /\ p \in alive
    /\ p \notin return_paths
    /\ return_paths' = return_paths \cup {p}
    /\ UNCHANGED <<copies_in_progress, copies_waiting, pastes_waiting,
                   last_clipboard_writers, running, crashes, alive, inbox, sent, replies>>

Handler ==
    \/ \E m \in inbox : OnCopyBegin(m) \/ OnCopyEnd(m) \/ OnPaste(m)
    \/ \E p \in Process : OnConnection(p)

------------------------------------------------------------------------------
(* The environment of the handlers.                                         *)

\* The service is stopped or killed: everything it knew was in memory.
ServiceDown ==
    /\ running
    /\ crashes < MaxCrashes
    /\ MemoryLost
    /\ UNCHANGED <<alive, inbox, sent, replies>>

\* A new service maps the memory the clients kept alive under its name and
\* clears it (allocate_shared_memory): the messages in it are gone.
ServiceUp ==
    /\ ~running
    /\ running' = TRUE
    /\ inbox' = {}
    /\ UNCHANGED <<copies_in_progress, copies_waiting, pastes_waiting,
                   last_clipboard_writers, return_paths, crashes, alive, sent, replies>>

\* A hooked process ends, whatever it was doing.
ProcessExit(p) ==
    /\ p \in alive
    /\ alive' = alive \ {p}
    /\ UNCHANGED <<copies_in_progress, copies_waiting, pastes_waiting,
                   last_clipboard_writers, return_paths, running, crashes, inbox,
                   sent, replies>>

\* A live process pushes a request, whether or not the service is there.
Send(m) ==
    /\ ProcessOf[m.request] \in alive
    /\ \A n \in sent : n.request # m.request
    /\ inbox' = inbox \cup {m}
    /\ sent' = sent \cup {m}
    /\ UNCHANGED <<copies_in_progress, copies_waiting, pastes_waiting,
                   last_clipboard_writers, return_paths, running, crashes, alive, replies>>

Environment ==
    \/ ServiceDown
    \/ ServiceUp
    \/ \E p \in Process : ProcessExit(p)
    \/ \E m \in Message : Send(m)

Next == Handler \/ Environment

Spec == Init /\ [][Next]_service_vars

------------------------------------------------------------------------------
(* Properties.                                                              *)

\* The service's maps and the wire hold what the code puts in them.
TypeOK ==
    /\ copies_in_progress \in [Session -> Request \cup {NoRequest}]
    /\ copies_waiting \in [Session -> Seq(Entry)]
    /\ pastes_waiting \in [Session -> Seq(Entry)]
    /\ last_clipboard_writers \in [Session -> Writer \cup {NoWriter}]
    /\ return_paths \in SUBSET Process
    /\ running \in BOOLEAN
    /\ crashes \in Nat
    /\ alive \in SUBSET Process
    /\ inbox \in SUBSET Message
    /\ sent \in SUBSET Message
    /\ replies \in SUBSET Reply

InInbox(r)  == \E m \in inbox : m.request = r
InCopies(r) == \E s \in Session : \E i \in DOMAIN copies_waiting[s] :
                    copies_waiting[s][i].message.request = r
InPastes(r) == \E s \in Session : \E i \in DOMAIN pastes_waiting[s] :
                    pastes_waiting[s][i].message.request = r
Replied(r)  == \E x \in replies : x.request = r

\* No request is answered twice: it is in the ring, or waits for a copy to
\* end, or has its one reply, never two of these, and it waits in one queue
\* position only.
RequestsInOnePlace ==
    /\ \A r \in Request :
        /\ ~(InInbox(r) /\ InCopies(r)) /\ ~(InInbox(r) /\ InPastes(r))
        /\ ~(InInbox(r) /\ Replied(r))  /\ ~(InCopies(r) /\ InPastes(r))
        /\ ~(InCopies(r) /\ Replied(r)) /\ ~(InPastes(r) /\ Replied(r))
    /\ \A s, t \in Session : \A i \in DOMAIN copies_waiting[s], j \in DOMAIN copies_waiting[t] :
        copies_waiting[s][i].message.request = copies_waiting[t][j].message.request
            => s = t /\ i = j
    /\ \A s, t \in Session : \A i \in DOMAIN pastes_waiting[s], j \in DOMAIN pastes_waiting[t] :
        pastes_waiting[s][i].message.request = pastes_waiting[t][j].message.request
            => s = t /\ i = j
    /\ \A x, y \in replies : x.request = y.request => x = y

\* While the service stays up, it forgets no request of a live process: the
\* request is still in the ring, waits in a queue, or was answered.
NoRequestForgotten ==
    crashes = 0 =>
        \A m \in sent : ProcessOf[m.request] \in alive =>
            InInbox(m.request) \/ InCopies(m.request) \/ InPastes(m.request)
                \/ Replied(m.request)

\* A paste waits only while a copy of its session is in progress, so whenever
\* that copy ends somebody is there to answer it: no paste is stranded.
PastesWaitOnlyWhileLocked ==
    \A s \in Session :
        /\ pastes_waiting[s] # <<>> => copies_in_progress[s] # NoRequest
        /\ \A i \in DOMAIN pastes_waiting[s] :
                SessionOfMessage(pastes_waiting[s][i].message) = s

\* Whoever is recorded as the last writer of a session runs in that session
\* and did report a successful copy, and the recorded path is its own.
LastWriterCompletedACopy ==
    \A s \in Session :
        LET w == last_clipboard_writers[s]
        IN  w # NoWriter =>
                /\ SessionOf[w.process] = s
                /\ w.path = PathOf[w.process]
                /\ \E m \in sent \ inbox : /\ m.type = "CopyEnd"
                                           /\ m.succeeded
                                           /\ ProcessOf[m.request] = w.process

\* The pastes that a step answers.
JudgedOnRecordedWriter ==
    running' =>
        \A m \in sent : \A x \in replies' \ replies :
            (x.request = m.request /\ m.type = "Paste") =>
                LET s == SessionOfMessage(m)
                IN  /\ x = PasteReply(last_clipboard_writers'[s], m)
                    /\ copies_in_progress'[s] = NoRequest

\* Every paste is answered with what the rules say of the writer recorded when
\* the answer leaves, and at a moment when no copy of the session is in
\* progress: a paste that waited for a copy is judged on the outcome of that
\* copy, not on what preceded it.
PastesJudgedOnRecordedWriter == [][JudgedOnRecordedWriter]_service_vars

\* The handler in which the service goes down had a paste of a dead process to
\* answer.
DownForTheDead ==
    (running /\ ~running') =>
        \A m \in inbox \ inbox' :
            \E e \in ToSet(pastes_waiting[SessionOfMessage(m)]) :
                ProcessOf[e.message.request] \notin alive

\* No handler takes the service down on behalf of live processes: the null
\* connection that internal_on_copy_end dereferences (Interceptor.cpp:380) is
\* that of a process which ended between the paste it sent and the handling of
\* it, even when the service has lost the return paths in between.
OnlyTheDeadTakeTheServiceDown == [][DownForTheDead]_service_vars

\* doc/Configuration.md:49, on the configuration `policy deny': it "will
\* prevent any process from reading the clipboard from any other process. A
\* process can still copy from itself to itself" -- what a paste of a live
\* process would be answered now.
LockdownSeparatesProcesses ==
    \A p \in alive :
        LET w == last_clipboard_writers[SessionOf[p]]
        IN  (w # NoWriter /\ w.process # p) => check_copy(w, p) = "Deny"
==============================================================================
