--------------------------- MODULE ClipboardShield ---------------------------
(***************************************************************************)
(* The whole protocol: the service of Interceptor together with the hook    *)
(* DLL inside the hooked processes (ClipboardFirewallDll) and the Windows    *)
(* clipboard they share.                                                   *)
(*                                                                         *)
(* A thread of a hooked process calls a clipboard function.  The hook asks   *)
(* the service first (CopyBegin or Paste), calls the original function, and   *)
(* after a write reports the outcome (CopyEnd).  Threads of one process take *)
(* turns on ipc_mutex, which is held while the answer is awaited.  Threads    *)
(* of different processes meet in the service and in the clipboard.         *)
(*                                                                         *)
(* The request number 2k-1 of a thread is what its k-th call asks before the *)
(* original function, 2k what it reports after it.                          *)
(***************************************************************************)
EXTENDS Interceptor

CONSTANTS
    Thread,             \* the threads that use the clipboard
    ThreadProcess,      \* ThreadProcess[t]: the process of thread t
    NoThread,           \* nobody holds a mutex, or the clipboard
    CallsOf,            \* CallsOf[t]: the hooked functions thread t calls
    MaxCalls,           \* bound on the calls of a thread
    ReadyAtStart,       \* the processes that are already connected
    Timeouts,           \* the hooks, and the service, may stop waiting
    Mortal              \* the processes that may end in the middle of a call

Writes == {"SetClipboardData", "OleSetClipboard"}
Reads  == {"GetClipboardData", "OleGetClipboard"}

\* The functions that require the caller to have opened the clipboard.
NeedsOpen == {"SetClipboardData", "GetClipboardData"}

ASSUME ShieldAssumption ==
    /\ ThreadProcess \in [Thread -> Process]
    /\ NoThread \notin Thread
    /\ NoWriter \notin Process \cup Writer
    /\ CallsOf \in [Thread -> SUBSET (Writes \cup Reads)]
    /\ MaxCalls \in Nat
    /\ ReadyAtStart \subseteq Process
    /\ Timeouts \in BOOLEAN
    /\ Mortal \subseteq Process
    /\ Request = Thread \X (1 .. 2 * MaxCalls)
    /\ ProcessOf = [r \in Request |-> ThreadProcess[r[1]]]

VARIABLES
    pc,         \* where each thread is
    call,       \* the function it called last
    calls,      \* how many calls it made
    vouched,    \* the service let the current call go on
    succeeded,  \* the original function wrote the clipboard
    ipc_mutex,  \* per process, the thread that is in send_and_wait
    ipc,        \* per process, the IPC object exists
    handshake,  \* per process, where the constructor of the IPC object is
    connected,  \* per process, DllState::connected
    discarded,  \* the requests whose replies are not in the queue any more
    opened,     \* per session, the thread that has the clipboard open
    content     \* per session, the process that wrote what the clipboard holds

hook_vars == <<pc, call, calls, vouched, succeeded, ipc_mutex, ipc, connected,
               discarded, opened, content>>

client_vars == <<hook_vars, handshake>>

shield_vars == <<service_vars, client_vars>>

\* idle; pre: about to take ipc_mutex for CopyBegin or Paste; pre_wait:
\* awaiting the answer; original: in the original function; written: the
\* original function returned; post and post_wait: the same for CopyEnd;
\* pre_disconnect and post_disconnect: the wait timed out, ipc_mutex is released
\* and disconnect is not called yet.
Location == {"idle", "pre", "pre_wait", "pre_disconnect", "original", "written",
             "post", "post_wait", "post_disconnect", "dead"}

\* The constructor has sent Connection, and waits with ipc_mutex held and without
\* a limit, for a confirmation that is under way or will never come.
Handshake == {"none", "sent", "confirmed", "lost"}

SessionOfThread(t) == SessionOf[ThreadProcess[t]]

Before(t) == <<t, 2 * calls[t] - 1>>
After(t)  == <<t, 2 * calls[t]>>

\* The answers that reached process p, or are on their way, and were not read.
Unread(p) == {x \in replies : ProcessOf[x.request] = p /\ x.request \notin discarded}

ShieldInit ==
    /\ Init
    /\ return_paths = ReadyAtStart
    /\ pc = [t \in Thread |-> "idle"]
    /\ call = [t \in Thread |-> "GetClipboardData"]
    /\ calls = [t \in Thread |-> 0]
    /\ vouched = [t \in Thread |-> FALSE]
    /\ succeeded = [t \in Thread |-> FALSE]
    /\ ipc_mutex = [p \in Process |-> NoThread]
    /\ ipc = [p \in Process |-> p \in ReadyAtStart]
    /\ handshake = [p \in Process |-> "none"]
    /\ connected = [p \in Process |-> TRUE]
    /\ discarded = {}
    /\ opened = [s \in Session |-> NoThread]
    /\ content = [s \in Session |-> NoWriter]

------------------------------------------------------------------------------
(* Steps of the hooks.                                                      *)

\* Neither a call nor the constructor of the IPC object holds ipc_mutex.
MutexFree(p) == ipc_mutex[p] = NoThread /\ handshake[p] = "none"

Release(p) == ipc_mutex' = [ipc_mutex EXCEPT ![p] = NoThread]

GoTo(t, l) == pc' = [pc EXCEPT ![t] = l]

\* The hook returns, and the caller closes the clipboard if it had opened it.
Return(t) ==
    /\ GoTo(t, "idle")
    /\ opened' = [s \in Session |-> IF opened[s] = t THEN NoThread ELSE opened[s]]

\* A thread calls a hooked function, for the Win32 ones with the clipboard
\* open.  The hook of a disconnected process goes straight to the original.
Enter(t, f) ==
    LET p == ThreadProcess[t]
        s == SessionOfThread(t)
    IN  /\ pc[t] = "idle"
        /\ calls[t] < MaxCalls
        /\ f \in NeedsOpen => opened[s] = NoThread
        /\ opened' = IF f \in NeedsOpen THEN [opened EXCEPT ![s] = t] ELSE opened
        /\ call' = [call EXCEPT ![t] = f]
        /\ calls' = [calls EXCEPT ![t] = @ + 1]
        /\ vouched' = [vouched EXCEPT ![t] = FALSE]
        /\ succeeded' = [succeeded EXCEPT ![t] = FALSE]
        /\ GoTo(t, IF connected[p] THEN "pre" ELSE "original")
        /\ UNCHANGED <<service_vars, ipc_mutex, ipc, handshake, connected, discarded, content>>

\* send_and_wait empties the queue first.  An answer that has not been moved
\* to the queue yet survives, so any part of the unread ones may go.
SendAndWait(t, m) ==
    LET p == ThreadProcess[t]
    IN  /\ ipc_mutex' = [ipc_mutex EXCEPT ![p] = t]
        /\ \E D \in SUBSET {x.request : x \in Unread(p)} : discarded' = discarded \cup D
        /\ Send(m)

\* clipboard_write_pre and clipboard_read_pre, up to the wait.
SendPre(t) ==
    LET p == ThreadProcess[t]
        type == IF call[t] \in Writes THEN "CopyBegin" ELSE "Paste"
    IN  /\ pc[t] = "pre"
        /\ MutexFree(p)
        /\ \/ /\ ipc[p]
              /\ SendAndWait(t, [request |-> Before(t), type |-> type, succeeded |-> FALSE])
              /\ GoTo(t, "pre_wait")
           \/ /\ ~ipc[p]
              /\ GoTo(t, "original")
              /\ UNCHANGED <<service_vars, ipc_mutex, discarded>>
        /\ UNCHANGED <<call, calls, vouched, succeeded, ipc, handshake, connected, opened, content>>

\* Any answer in the queue wakes the thread: nothing says what it answers.
TakeReply(t, x) ==
    /\ x \in Unread(ThreadProcess[t])
    /\ discarded' = discarded \cup {x.request}
    /\ Release(ThreadProcess[t])

\* A read whose answer is not Continue returns without calling the original.
\* A write goes on whatever the answer is.
TakePre(t) ==
    /\ pc[t] = "pre_wait"
    /\ \E x \in replies :
        /\ TakeReply(t, x)
        /\ \/ /\ call[t] \in Reads /\ x.verdict # "Continue"
              /\ Return(t)
              /\ UNCHANGED vouched
           \/ /\ call[t] \in Writes \/ x.verdict = "Continue"
              /\ GoTo(t, "original")
              /\ vouched' = [vouched EXCEPT ![t] = TRUE]
              /\ UNCHANGED opened
    /\ UNCHANGED <<service_vars, call, calls, succeeded, ipc, handshake, connected, content>>

\* Defect for RepliesReachTheirRequester: a timeout does not disconnect.
TimeoutPreStaysConnected(t) ==
    /\ Timeouts
    /\ pc[t] = "pre_wait"
    /\ Release(ThreadProcess[t])
    /\ GoTo(t, "original")
    /\ UNCHANGED <<service_vars, call, calls, vouched, succeeded, ipc, handshake,
                   connected, discarded, opened, content>>

\* The mutex is released at the end of its scope, before the hook disconnects:
\* another thread that saw the process connected may send in between.
TimeoutPre(t) ==
    /\ Timeouts
    /\ pc[t] = "pre_wait"
    /\ Release(ThreadProcess[t])
    /\ GoTo(t, "pre_disconnect")
    /\ UNCHANGED <<service_vars, call, calls, vouched, succeeded, ipc, handshake,
                   connected, discarded, opened, content>>

\* The process gives up on the service for good, and the call goes on.
Disconnect(t) ==
    /\ connected' = [connected EXCEPT ![ThreadProcess[t]] = FALSE]
    /\ \/ /\ pc[t] = "pre_disconnect"
          /\ GoTo(t, "original")
          /\ UNCHANGED opened
       \/ /\ pc[t] = "post_disconnect"
          /\ Return(t)
    /\ UNCHANGED <<service_vars, call, calls, vouched, succeeded, ipc_mutex, ipc,
                   handshake, discarded, content>>

\* The original function.  A write may fail; OleSetClipboard opens the
\* clipboard itself, and fails while another thread has it open.
Original(t) ==
    LET s == SessionOfThread(t)
    IN  /\ pc[t] = "original"
        /\ \/ /\ call[t] \in Reads
              /\ Return(t)
              /\ UNCHANGED <<succeeded, content>>
           \/ /\ call[t] \in Writes
              /\ \/ UNCHANGED <<succeeded, content>>
                 \/ /\ opened[s] = IF call[t] \in NeedsOpen THEN t ELSE NoThread
                    /\ content' = [content EXCEPT ![s] = ThreadProcess[t]]
                    /\ succeeded' = [succeeded EXCEPT ![t] = TRUE]
              /\ GoTo(t, "written")
              /\ UNCHANGED opened
        /\ UNCHANGED <<service_vars, call, calls, vouched, ipc_mutex, ipc, handshake, connected,
                       discarded>>

\* clipboard_write_post tests connected before it takes the mutex.
CheckPost(t) ==
    /\ pc[t] = "written"
    /\ \/ /\ connected[ThreadProcess[t]]
          /\ GoTo(t, "post")
          /\ UNCHANGED opened
       \/ /\ ~connected[ThreadProcess[t]]
          /\ Return(t)
    /\ UNCHANGED <<service_vars, call, calls, vouched, succeeded, ipc_mutex, ipc, handshake,
                   connected, discarded, content>>

SendPost(t) ==
    LET p == ThreadProcess[t]
    IN  /\ pc[t] = "post"
        /\ MutexFree(p)
        /\ \/ /\ ipc[p]
              /\ SendAndWait(t, [request |-> After(t), type |-> "CopyEnd",
                                 succeeded |-> succeeded[t]])
              /\ GoTo(t, "post_wait")
              /\ UNCHANGED opened
           \/ /\ ~ipc[p]
              /\ Return(t)
              /\ UNCHANGED <<service_vars, ipc_mutex, discarded>>
        /\ UNCHANGED <<call, calls, vouched, succeeded, ipc, handshake, connected, content>>

TakePost(t) ==
    /\ pc[t] = "post_wait"
    /\ \E x \in replies : TakeReply(t, x)
    /\ Return(t)
    /\ UNCHANGED <<service_vars, call, calls, vouched, succeeded, ipc, handshake, connected, content>>

\* Defect for EveryCallReturns: the mutex is not released on the timeout path.
TimeoutPostKeepsMutex(t) ==
    /\ Timeouts
    /\ pc[t] = "post_wait"
    /\ GoTo(t, "post_disconnect")
    /\ UNCHANGED <<service_vars, call, calls, vouched, succeeded, ipc_mutex, ipc,
                   handshake, connected, discarded, opened, content>>

TimeoutPost(t) ==
    /\ Timeouts
    /\ pc[t] = "post_wait"
    /\ Release(ThreadProcess[t])
    /\ GoTo(t, "post_disconnect")
    /\ UNCHANGED <<service_vars, call, calls, vouched, succeeded, ipc, handshake,
                   connected, discarded, opened, content>>

\* What thread t does once it has called.
Proceed(t) ==
    \/ SendPre(t) \/ TakePre(t) \/ TimeoutPre(t)
    \/ Original(t)
    \/ CheckPost(t) \/ SendPost(t) \/ TakePost(t) \/ TimeoutPost(t)
    \/ Disconnect(t)

------------------------------------------------------------------------------
(* The processes, and the composition.                                      *)

\* DllState::initialize takes ipc_mutex and creates the IPC object; the hooks are
\* already in place.  The constructor sends Connection.
Initialize(p) ==
    /\ p \in alive
    /\ ~ipc[p]
    /\ MutexFree(p)
    /\ handshake' = [handshake EXCEPT ![p] = "sent"]
    /\ UNCHANGED <<service_vars, hook_vars>>

\* The service opens the return path and confirms, unless it has stopped waiting
\* for the process or cannot open it (module Connection has the cases).
Connect(p) ==
    /\ handshake[p] = "sent"
    /\ \/ /\ OnConnection(p)
          /\ handshake' = [handshake EXCEPT ![p] = "confirmed"]
       \/ /\ Timeouts /\ running /\ p \in alive
          /\ handshake' = [handshake EXCEPT ![p] = "lost"]
          /\ UNCHANGED service_vars
    /\ UNCHANGED hook_vars

\* The constructor returns, and ipc_mutex is released.
CompleteConnection(p) ==
    /\ p \in alive
    /\ handshake[p] = "confirmed"
    /\ handshake' = [handshake EXCEPT ![p] = "none"]
    /\ ipc' = [ipc EXCEPT ![p] = TRUE]
    /\ UNCHANGED <<service_vars, pc, call, calls, vouched, succeeded, ipc_mutex,
                   connected, discarded, opened, content>>

\* Windows closes the clipboard of a process that ends.
Kill(p) ==
    LET Threads == {t \in Thread : ThreadProcess[t] = p}
    IN  /\ p \in Mortal
        /\ ProcessExit(p)
        /\ pc' = [t \in Thread |-> IF t \in Threads THEN "dead" ELSE pc[t]]
        /\ opened' = [s \in Session |-> IF opened[s] \in Threads THEN NoThread ELSE opened[s]]
        /\ UNCHANGED <<call, calls, vouched, succeeded, ipc_mutex, ipc, handshake, connected,
                       discarded, content>>

Serve ==
    /\ \E m \in inbox : OnCopyBegin(m) \/ OnCopyEnd(m) \/ OnPaste(m)
    /\ UNCHANGED client_vars

\* A Connection that the ring held when the service started is cleared.
Restart ==
    /\ \/ ServiceDown /\ UNCHANGED handshake
       \/ /\ ServiceUp
          /\ handshake' = [p \in Process |->
                 IF handshake[p] = "sent" THEN "lost" ELSE handshake[p]]
    /\ UNCHANGED hook_vars

ShieldNext ==
    \/ Serve
    \/ Restart
    \/ \E p \in Process :
          Initialize(p) \/ Connect(p) \/ CompleteConnection(p) \/ Kill(p)
    \/ \E t \in Thread : Proceed(t) \/ \E f \in CallsOf[t] : Enter(t, f)

\* The service handles what it receives, and a call or a constructor that has
\* begun goes on.
\* Nothing obliges a thread to call, a process to end or the service to
\* restart.
Fairness ==
    /\ WF_shield_vars(Serve)
    /\ \A t \in Thread : WF_shield_vars(Proceed(t))
    /\ WF_shield_vars(\E p \in Process : Connect(p) \/ CompleteConnection(p))

ShieldSpec == ShieldInit /\ [][ShieldNext]_shield_vars /\ Fairness
------------------------------------------------------------------------------
(* Properties.                                                              *)

\* The state of the hooks has its type, and a thread awaits an answer exactly
\* when it holds the mutex of its process (unless the process was killed), which
\* nobody does while the IPC object is under construction.
ShieldTypeOK ==
    /\ pc \in [Thread -> Location]
    /\ call \in [Thread -> Writes \cup Reads]
    /\ calls \in [Thread -> 0 .. MaxCalls]
    /\ vouched \in [Thread -> BOOLEAN]
    /\ succeeded \in [Thread -> BOOLEAN]
    /\ ipc_mutex \in [Process -> Thread \cup {NoThread}]
    /\ ipc \in [Process -> BOOLEAN]
    /\ handshake \in [Process -> Handshake]
    /\ connected \in [Process -> BOOLEAN]
    /\ discarded \in SUBSET Request
    /\ opened \in [Session -> Thread \cup {NoThread}]
    /\ content \in [Session -> Process \cup {NoWriter}]
    /\ \A t \in Thread : pc[t] # "dead" =>
          (pc[t] \in {"pre_wait", "post_wait"} <=> ipc_mutex[ThreadProcess[t]] = t)
    /\ \A p \in Process : handshake[p] # "none" => ~ipc[p] /\ ipc_mutex[p] = NoThread

\* What the configuration says of process p reading what w wrote.
MayRead(w, p) ==
    w = p \/ run_permissions_logic(Config, IF w = NoWriter THEN EmptyPath ELSE PathOf[w],
                                   PathOf[p]) = "Allow"

\* A read of the clipboard that the service let through.  OleGetClipboard only
\* returns an object; its data is read later, through GetClipboardData.
Reading(t) == pc[t] = "original" /\ call[t] = "GetClipboardData" /\ vouched[t]

\* As long as nobody writes through OLE and nothing fails, the service and the
\* hooks together are a reference monitor of the clipboard: every read that
\* is let through is one the policy permits given who really wrote the content.
Monitor == INSTANCE ReferenceMonitor
              WITH reading <- {ThreadProcess[t] : t \in {u \in Thread : Reading(u)}}

ImplementsMonitor == Monitor!Spec

\* doc/Configuration.md:27: the policy "`deny` forbids any process from reading the
\* clipboard, unless otherwise allowed by another rule" -- here there is no other
\* rule, and the reader and the writer are different programs.
DenyPolicyForbidsReading ==
    (Config.default_policy = "Deny" /\ Config.source_rules = <<>> /\ Config.destination_rules = <<>>)
    =>
    \A t \in Thread :
        Reading(t) =>
            LET w == content[SessionOfThread(t)]
            IN  w # NoWriter => PathOf[w] = PathOf[ThreadProcess[t]]

\* doc/Configuration.md:5: ClipboardShield "can either allow or deny the
\* request accordingly, depending on which program last copied to the
\* clipboard".
ReadersObeyPolicy ==
    \A t \in Thread :
        Reading(t) => MayRead(content[SessionOfThread(t)], ThreadProcess[t])

\* The copy a CopyEnd ends is the one the same call began.  The service looks only
\* at the session (internal_on_copy_end), so this rests on the clients never being
\* inside two writes of one session at a time.  (With OLE writers they are, and the
\* branch commented "This should never happen.", Interceptor.cpp:344, is taken.)
CopyEndEndsItsOwnCopy ==
    \A m \in inbox :
        m.type = "CopyEnd" =>
            copies_in_progress[SessionOfMessage(m)] = <<m.request[1], m.request[2] - 1>>

\* The process does not take the service's answers into account any more, or a
\* thread of it is about to call disconnect.
GaveUp(p) ==
    \/ ~connected[p]
    \/ \E t \in Thread :
          ThreadProcess[t] = p /\ pc[t] \in {"pre_disconnect", "post_disconnect"}

\* No session is locked for a copy that is over: the copy in progress belongs
\* to a call that has yet to be ended, unless its process is gone or gave up on
\* the service.  (Resumed copies, late connections, lost answers and restarts of
\* the service included.)
LocksBelongToACopy ==
    \A s \in Session :
        LET r == copies_in_progress[s]
        IN  r # NoRequest =>
                LET t == r[1]
                    p == ThreadProcess[t]
                IN  \/ p \notin alive
                    \/ GaveUp(p)
                    \/ /\ r = Before(t)
                       /\ pc[t] \in {"pre_wait", "original", "written", "post"}
                    \/ /\ r = Before(t)
                       /\ pc[t] = "post_wait"
                       /\ InInbox(After(t))

\* While no thread of its process has timed out, each thread gets the answer to
\* its own request, although nothing in an answer says what it answers: the
\* mutex keeps one request under way at a time and every answer is read.  (A
\* thread that times out releases the mutex before it disconnects,
\* DllState.cpp:178-179, 189-190 and 203-204; one that sends in between may take
\* the answer that came late.)
RepliesReachTheirRequester ==
    [][\A t \in Thread :
        (pc[t] \in {"pre_wait", "post_wait"} /\ discarded' # discarded
            /\ pc'[t] # pc[t] /\ ~GaveUp(ThreadProcess[t])) =>
                discarded' \ discarded =
                    {IF pc[t] = "pre_wait" THEN Before(t) ELSE After(t)}]_shield_vars

\* The request under way of a thread that waits.
Current(t) == IF pc[t] = "pre_wait" THEN Before(t) ELSE After(t)

\* t waits, and nothing is on the way between it and the service.
Unanswered(t) ==
    /\ pc[t] \in {"pre_wait", "post_wait"}
    /\ ~InInbox(Current(t))
    /\ \A x \in Unread(ThreadProcess[t]) : x.request # Current(t)

\* t is in a write of which the service has yet to handle the end.
Writing(t) ==
    /\ call[t] \in Writes
    /\ \/ pc[t] \in {"pre_wait", "original", "written", "post"}
       \/ pc[t] = "post_wait" /\ InInbox(After(t))

\* Nobody waits for somebody who waits: only a read is kept waiting, and that for
\* a writer who has what it needs to reach its CopyEnd, by which on_copy_end
\* answers the read.  (While nothing fails, with Win32 writers and one thread in
\* each process; a second one could hold the mutex, DllState.cpp:186.)
NobodyWaitsInACircle ==
    \A t \in Thread :
        Unanswered(t) =>
            /\ pc[t] = "pre_wait" /\ call[t] \in Reads
            /\ \E u \in Thread :
                /\ SessionOfThread(u) = SessionOfThread(t)
                /\ Writing(u)
                /\ ~Unanswered(u)
                /\ ipc_mutex[ThreadProcess[u]] \in {NoThread, u}

\* Nobody will answer the Connection of process p: it was lost, or the service is
\* gone and will clear it when it starts.
Stranded(p) == handshake[p] = "lost" \/ (handshake[p] = "sent" /\ ~running)

\* Every call of a hooked function comes back, but for those that meet a mutex held
\* by a constructor that waits for a confirmation nobody sends: complete_connection
\* of the DLL waits without a limit (SharedMemory.h:269, DllState.cpp:38-42).  (The
\* calls are bounded here, so from some moment on none is under way.)
EveryCallReturns ==
    <>[](\A t \in Thread : pc[t] \in {"idle", "dead"} \/ Stranded(ThreadProcess[t]))
==============================================================================
