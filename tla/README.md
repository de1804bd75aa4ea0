# ClipboardShield in TLA+

A model of [ClipboardShield](../src/README.md), a clipboard firewall for Windows,
with the runs that model-check it and the proofs that hold for every size.
Paths below are relative to `src/Src/` of the repository unless they start with
`doc/` or `Deviare-`.

Contents: [the system](#the-system), [modules](#modules), [runs](#runs),
[fairness](#fairness), [findings](#what-the-code-gets-wrong),
[proofs](#proofs), [limits](#limits-of-the-model), [plan](#plan).

## The system

A DLL injected into every application hooks four clipboard functions.  Before an
application reads or writes the clipboard, the hook asks a Windows service, which
knows who wrote last and decides by a configuration file.

| component | state | operations | interacts with |
|---|---|---|---|
| Rules (`libvts/Rules.h`) | source and destination rules, default policy | `check_permission*`, `check_combined_permissions`, `run_permissions_logic` | called by the coordination for each paste |
| Configuration parser (`libvts/Rules.h`, `parse_config_string`) | rules so far, pointer to the last rule | one branch per directive | builds the rules when the service starts |
| Coordination (`libvts/Interceptor.cpp`) | per session: `copies_in_progress`, `copies_waiting`, `pastes_waiting`, `last_clipboard_writers` | `on_copy_begin`, `on_copy_end`, `on_paste` | called by the service's IPC thread, answers through the return ring of each client |
| Service IPC (`libvts/IPC.cpp`) | `return_paths` by pid | `handle_message`, `find_connection`, `handle_connection` | pulls the service's ring |
| Message ring (`common/IpcStructures.h`) | slots, head of a linked list, digests | `push_new_message`, `pull_messages` | shared by all processes of the machine |
| Endpoints (`common/SharedMemory.h`) | the mapping, a pool of events, events by pid | allocation, `ConnectionWait` | connection handshake |
| Hook DLL (`ClipboardFirewallDll/`) | `connected`, `ipc`, `ipc_mutex`, reentrancy locks | the four hooks, `send_and_wait`, `disconnect` | the application's threads; the service |
| Process tracking (`libvts/hook.cpp`, `DeviarePdOverrides.cpp`) | `hooked_processes`, `processes_being_hooked` | creation, destruction, polling, injection | driver events, scheduler, connection handshake |
| Scheduler (`libvts/Scheduler.cpp`, `Coroutine.cpp`) | queue of coroutines | add, resume, yield | runs the injections |
| Process monitor (`libvts/DeviarePD.cpp`, `Deviare-Process-Monitor/`) | driver handle, pending reads, event list | IOCTL, read, notify callback | calls process tracking |
| Service shell (`ClipboardFirewallService/`) | service status | start, stop | `Interceptor::start`, `stop` |
| Injector, installers, tray icon, tools | none of interest | | |

What is hard here:

- **Interleaving of writers and readers of a session.**  A copy is three steps
  (CopyBegin, the original function, CopyEnd) of one process; others of the same
  session wait for it.  The service sees only messages.
- **Two threads of one process** share one request/answer channel in which
  nothing says what an answer answers.
- **Failure.**  Applications are killed between two steps, answers come after the
  client stopped waiting (5 s), the service is restarted and remembers nothing.
- **Liveness.**  A paste that waits depends on somebody else's CopyEnd.
- **Combination of rules.**  The first matching group and subrule win, denial
  prevails over permission, the default comes last, an unknown writer is another case.

What makes each component correct:

- rules and parser: a text means what its grammar says, whoever reads and writes;
- coordination: each request is answered once, no paste is stranded, a paste is
  judged on the outcome of the copy it waited for, only completed copies are recorded;
- whole protocol: no process reads what its policy denies given who *really* wrote
  the clipboard; every hooked call returns; no session stays locked for nothing;
- ring: no message lost, duplicated or torn; no slot lost or shared; pushes end;
- handshake: who waits is woken, with the right outcome, and by its own process;
- process tracking: every live process is tried, once, and the one that was
  examined is the one that is injected; `start` returns.

`PROJECT.json` lists the hazards at their lines, with the properties that cover them.

## Modules

| module | what it models | proved in |
|---|---|---|
| `FirewallRules` | the decision procedure, as operators over rules | `FirewallConfigProofs` |
| `FirewallConfig` | the parser as a machine that reads one line per step, and a declarative reading of the same text by line positions | `FirewallConfigProofs` |
| `Interceptor` | the service's coordination: one action per handler, an open environment | `InterceptorProofs` |
| `ReferenceMonitor` | abstract: each session has a content with a writer; a read happens only if the policy lets it, never during a write | `ClipboardShieldMonitorProofs` |
| `ClipboardShield` | `Interceptor` composed with the hooks of the applications and the Windows clipboard; refines `Interceptor` and `ReferenceMonitor` | `ClipboardShieldProofs`, `ClipboardShieldMonitorProofs` |
| `Mailbox` | abstract: what is posted is handled once and whole, in any order | `MessageRingProofs` |
| `MessageRing` | the shared-memory block, one action per access of a client or of the reader; refines `Mailbox` | `MessageRingProofs` |
| `Connection` | events, waits and confirmations between the service's two threads and the DLLs | `ConnectionProofs` |
| `ProcessTracking` | which processes the service tries to hook: the start, the driver or the polling thread, coroutines, reuse of ids | `ProcessTrackingProofs` |

The modules `MC...` hold the constants of the small instances.  `Interceptor` uses
the ring as `Mailbox` describes it (a set of messages, handled in any order) and
the handshake as one step (`OnConnection`), around which `ClipboardShield` puts the two steps of the
client.  `MessageRing` and `Connection` open these two boxes;
`ProcessTracking` is what makes a process come to the handshake.

**FirewallRules.**  A path is an atomic value.  The code asks two things of paths:
string equality (`run_permissions_logic`) and whether they open the same file
(`paths_are_equivalent`); `FileOf` gives the second, so one file may have two paths.  An
empty path opens nothing (`Opens`).
`FirewallPolicy` is ordered as the `enum class` is.

**FirewallConfig.**  A line is its indentation, its directive and its argument;
the argument is empty where a directive has no path (`split_line`), which the parser accepts.
`ReadLine` dispatches as the `else if` chain does; `last_rule` is the vector and
index the C++ pointer points to; `DenyLine` has the doubled `if (!indented)` of
`Rules.h:233`.  `TextSays` and `TextVerdict` give the meaning of the text without
building any rule: positions, nearest directive above, first match.  `WellPlaced` says which
lines the parser goes on after.

**Interceptor.**  The per-session maps are functions, an absent key being `NoRequest`,
`<<>>` or `NoWriter`.  All handlers run on the one thread that pulls the service's
ring (`SharedMemory.h:132`), so each is one atomic action.  `EndCopy` names the four
things that `internal_on_copy_end` does in order: `resumed_copy`, `copies_left`,
`set_last_copy`, `judged_pastes`/`pastes_left`.  An entry of a queue records
whether its connection was found; a null one in the paste queue kills the service
(`NullConnectionInDrain`, `Interceptor.cpp:380`).  The ring is a set: any pending
message may be handled next, which includes the reverse order in which
`pull_messages` delivers a batch.  Requests carry an identity that exists in the
model only; `sent` and `replies` are history.  The environment may send any
request in any order (more than the hooks do), end processes, and lose the
service's memory.

**ClipboardShield.**  Each thread of an application walks through a hook:
`Enter`, `SendPre`, `TakePre` or `TimeoutPre`, `Original`, `CheckPost`, `SendPost`,
`TakePost` or `TimeoutPost`.  `ipc_mutex` is held while an answer is awaited, as in
`DllState.cpp`; `connected` is tested before the mutex is taken, so a thread can
still send after another one disconnected the process.  A wait that times out releases the
mutex, and `Disconnect` is a step of its own after that (`DllState.cpp:178-179`): in between
another thread may send, and take the late answer.  `GaveUp` is a process in or past that gap.
The IPC object is constructed by `Initialize` (`Connection` is sent), `Connect` (the service
confirms, or nobody does) and `CompleteConnection`; `handshake` says how far it is, and until
it is through `ipc_mutex` is held (`MutexFree`) by the thread of `DllState::initialize`, which waits without a limit.
`Stranded` is a process whose confirmation will never come.  `TakePre` and `TakePost`
take *any* unread answer of the process.  `SendAndWait` clears the queue, but an
answer still in the ring survives, hence any subset of the unread ones may go.
Windows itself is external: `opened` (a thread must open the clipboard for the
Win32 functions, `OleSetClipboard` opens it itself), `content` (who really wrote).

**MessageRing.**  `Push(c)` is `push_new_message` cut at each access to shared memory:
claim a slot (compare-and-swap of its type), copy the payload, read the head, swap
it, compute the digest, store it, set the event.  `Pull` is `pull_messages`: wait,
detach the list, read each slot when its digest matches what is in it and free it,
then handle the payloads.  A digest is the pair of what it is computed from: the bytes of
the payload, and the next index, which the code hashes with the slot.  Messages have an identity
of their own, but equal messages have equal bytes (`BytesOf`), since a client
repeats its requests byte for byte; that is what makes an old digest match a new
message.  Any free slot may be claimed, which covers a scan overtaken by frees
behind it.  A client may die between any two steps.

**Connection.**  `Hook(p)` is the coroutine (`get_connection_event`, `Inject`,
`Complete` or `TimeOut`), `Ipc` the IPC thread (`handle_connection` looks the event
up, `Open` opens the return ring and confirms, `Set` sets the event that was looked
up), `Dll(p)` the side of the process.  Between the three steps of `Ipc` the other
thread may cancel the wait, return the event to the pool, and hand it to another
process.  `setter` and `woken_by` are history: whose Connection set an event, and
whose woke a wait.  A restart clears the memory of the service and its ring, and
leaves the rings of the clients.

**ProcessTracking.**  A process is one incarnation of a process id (`PidOf`).  Windows
gives an id to another incarnation when the first one has ended and no handle of
it is held (`Held`).  `OpenProcess` refuses the processes in `Protected`: the lists the service
makes itself leave them out (`Openable`), the driver's list has them, and their coroutine returns.  `Start` is `Interceptor::start`; `Monitor` is the thread that
compares two lists of processes, either the driver's client (by id, woken by an
event) or the polling thread (by id and start time, which starts only after
`start` is through); `Resume` is the scheduler with its coroutines, which may end
by an exception.  `hook_process` is one stretch between `Begin` and `Finish`, during which anything
may happen.  `tried`, `threw` and `in_gap` are history.

## Runs

| run | instance | shows |
|---|---|---|
| `config` | all texts of up to 4 lines, 2 executables and a link to one of them; directives without a path in texts of up to 2 lines (209,644 states) | the parser and the rules decide what the text says, for known and unknown writers; the parser stops at the first line that is not well placed; one more rule line only acts in its own direction |
| `interceptor` | 5 requests, 3 processes, 2 sessions, deaths, any set of open connections, and a crash and restart in behaviours of up to 3 requests (1.53 million states up to symmetry) | the safety of the coordination; the service's death is reached through the null connection, and only for a dead process |
| `shield` | 3 processes with one thread and 2 calls each, Win32 writers, any readers, nothing fails (77,752 states) | the composition implements `ReferenceMonitor`; a CopyEnd ends its own copy; nobody waits in a circle; every call returns without any timeout |
| `shield_faults` | 2 processes, 3 threads, OLE writers, late connection, timeouts, a kill, a restart (892,128 states) | locks, answers and liveness under failure, but for a process that gave up or whose connection was lost |
| `ring` | 2 slots, 2 clients with two equal messages each, one of which may die anywhere (64,104 states) | the ring implements `Mailbox`; its lists are whole; unless a client is overtaken by its own late digest, the reader spins only for a client that has yet to store its digest, and all pushes are handled |
| `connection` | 3 processes and events, one process mortal and with a ring that may not open; a restart with 2 of them (206,802 states, up to the order of equal processes and events) | events have one owner; a hooked process is connected, waits are ended by their own process and no message is unexpected or dropped, but for the races named in the properties; no DLL waits for good but in four cases |
| `tracking` | 4 processes: three share an id, and one of these cannot be opened; one is there at the start and its hooking may throw; with and without the driver (500,150 states) | hooked once, injected by an id that is its own, never slips through between scan, monitor and coroutines, tried, `start` returns, but for the refused process and the gaps named in the properties |
| `ring_late_digest` | the same as `ring` | refutes a statement, [below](#what-the-code-gets-wrong) |
| `config_orphan_deny`, `same_executable`, `shield_overlap`, `deny_after_restart` | | each refutes one statement of the repository, [below](#what-the-code-gets-wrong) |

Why the bounds are enough.  *config*: four lines hold two groups with a subrule
each, two groups of one executable, or a policy between them, so every pair of
constructs meets in either order; the link distinguishes path equality from file
equality.  A directive without a path matches nobody, so all it does is to be the group that
the next subrule goes to, which two lines show (`MCShortWithoutPath`; the proofs have no such bound).  *interceptor*: a copy in progress, a waiting copy, a waiting paste and
a CopyEnd of the same session take four requests; the fifth is in another session,
so a confusion of sessions would show.  Requests of one process are
interchangeable (symmetry; the run has no liveness property).  A behaviour
with a crash has at most three requests (`MCFewAfterCrash`): one handled before it,
one lost in it and one that meets the new service; a crash returns to an initial
state except for `sent`, `replies` and `alive`, so more of them would repeat what is
explored without it.  `shield_faults` and the proofs have crashes without this bound.  *shield*: two calls per
thread let a process read after it wrote, write again while others wait, and
overtake; three processes give a writer, a waiting writer and a reader at once.
*shield_faults*: one call per thread, because each fault multiplies the states; two
threads share a process since mutex, answers and disconnection meet only there, and that
process connects late, so that both meet its handshake too.
*ring*: four messages through two slots, so that slots are reused, scans fail,
swaps fail, and a slot can be freed, claimed and linked again between a client's
read of the head and its swap; the messages of a client are equal, so old
digests match.  *connection*: three processes are what a mix-up of events can
involve (the one that gave up, the one its event was handed to, and the one that
this misled owner misleads in turn).  With a restart
(`MCTwoWithRestart`) two suffice, because the restart forgets all waits.  The events are
interchangeable and so are the two immortal processes, hence it is enough to create the
events and to begin with those processes in order (`MCInOrder`).  The proofs have no such bounds.
*tracking*: two incarnations of one id give reuse, and the one that cannot be opened
comes before, between or after them; the process of the start is found both by the scan and by the monitor.

Deadlock is not checked: every run ends when the bounded calls, requests or lines
are used up, every process was hooked or is gone, or, in `ring`, the reader waits for
the digest of a client that died.

## Fairness

`Interceptor` and `FirewallConfig` are checked for safety and have no fairness.
All fairness is weak, of whole threads rather than of single choices.

- `MessageRing`: the reader (`Pull`), and each client inside a push (`Push(c)`).
  The wait of the code times out after 100 ms, but a timeout then does nothing, so
  the reader relies on the event.  Nobody has to begin a push.  A dead client does
  nothing, so its `Push` is disabled.
- `Connection`: the IPC thread (`Ipc`), each coroutine (`Hook(p)`: the scheduler
  resumes all coroutines in turn, `Scheduler.cpp`), each DLL (`Dll(p)`).
- `ProcessTracking`: `Start`, `Monitor`, `Resume`, one thread each.  Nobody has to be born or end.
- `ClipboardShield`, three kinds:
  - `Serve`: the service's thread keeps pulling, with a timeout of 100 ms
    (`SharedMemory.h:137`), and handles all it pulled (`IpcStructures.h:183`);
  - the steps of a handshake that has begun (`Connect`, `CompleteConnection`): the service
    handles the Connection and the constructor takes the confirmation.  With timeouts the
    Connection may be lost instead, and that process is then `Stranded`;
  - `Proceed(t)`, one thread after it called: original functions of Windows return;
    a mutex is granted in the end; a wait has a finite timeout (`default_timeout`), so
    where timeouts are enabled one of answer and timeout occurs.

Weak fairness is enough for `ClipboardShield`: `Proceed(t)` stays enabled while an answer is there or a
timeout may fire.  A thread that waits for `ipc_mutex` is granted it because, in
the runs, the others make finitely many calls.  Nothing obliges a thread to call, a
process to die or to begin to connect, the service to stop or to come back.

## What the code gets wrong

- **A resumed copy is forgotten** (`shield_overlap`; `Interceptor.cpp:354-360`).  The
  waiting copy is stored over the entry that ended, then the entry is erased.
  While the resumed process writes, the session is not locked: a paste goes through,
  judged on the previous writer, and reads content that its policy denies.  No
  failure is needed: two writers, one of them in `OleSetClipboard`, and a reader.  The
  CopyEnd of the resumed copy then takes the branch commented "This should never
  happen." (`Interceptor.cpp:344`), so its writer is not recorded.
- **`policy deny` and an unknown writer** (`deny_after_restart`; `Rules.h:303`).  A paste whose
  writer the service does not know is allowed whatever the policy is, but `doc/Configuration.md:27`
  says that the policy `deny` forbids any process from reading unless another rule allows it.  The service knows nothing
  after a restart, so one program reads what another one wrote before it.
- **`deny` without a group** (`config_orphan_deny`; `Rules.h:233`) writes through a null
  pointer, where `allow` throws.
- **Two processes of one executable** (`same_executable`; `Rules.h:307`) may paste from
  each other under `policy deny`, which `doc/Configuration.md:49` excludes.

- **A late digest blocks the service** (`ring_late_digest`; `IpcStructures.h:152`).  The
  digest is stored after the slot is linked.  When the reader finds an old digest that
  already matches, it frees the slot before the store; another client claims
  it, and the store falls on that client's message.  The reader then waits for
  a digest that never matches, and no process of the machine is answered any more.

The first of these is the only obstacle in fault-free operation (`shield`): with Win32
writers, which Windows keeps apart because the clipboard is open during the
call, no copy ever waits and the refinement of `ReferenceMonitor` holds.

Also seen in the models, without a statement in the repository to hold it against.
The properties name these cases as exceptions, or the hazards list them.

In the parser, which is laxer than the grammar of `doc/Configuration.md:73-79`:

- `policy` is accepted anywhere, indented or repeated (the last one wins), where the
  grammar has it once, first and at the margin;
- a directive without a path is accepted, and the subrules below it go to a group that is
  about nobody.

In the coordination:

- a waiting paste with a null connection kills the service (`Interceptor.cpp:380`);
  `OnlyTheDeadTakeTheServiceDown` shows that it takes a process that ended between
  its paste and the handling of it;
- with three OLE writers and no timeouts, the second waiting copy is never resumed (the
  CopyEnd of the first one finds no copy in progress), so its thread waits for the full
  timeout, disconnects, and its process is never filtered again;
- a thread that waits for the service with `ipc_mutex` held blocks the thread of its
  process whose CopyEnd would unlock the session, until the timeout;
- a thread whose wait timed out releases `ipc_mutex` before it disconnects (`DllState.cpp:178-179`,
  `189-190`, `203-204`), so another one that still saw the process connected may send, and take
  the answer to the first one's request for its own.

In the handshake:

- a Connection that comes after the service gave up is ignored, and the DLL waits for its
  confirmation for good, with `ipc_mutex` held (`IPC.cpp:81`), so every hooked call
  of the process hangs;
- the service reports a connection although opening the return ring failed (`IPC.cpp:92`),
  or although the event was set for another process (`SharedMemory.h:183`);
- a client that died in a push leaves its slot claimed for good, or linked without a
  digest, for which the reader then waits.

In the tracking:

- a process born after the scan of the start and before the monitor's first list is never
  tried.  With the driver the list may come first, in polling mode it always comes last, after
  the start has waited for all injections;
- an exception in a coroutine of the scan leaves its event unset, so `start` waits for good
  (`DeviarePdOverrides.cpp:106`), and in polling mode nothing is tracked then;
- with the driver, an id that passes to another process between two lists goes unseen
  (`DeviarePD.cpp:625` compares ids only), and a late entry in `hooked_processes` keeps
  a later process of that id from being tried (`hook.cpp:569`);
- a process whose hooking failed is not tried again (`hook.cpp:558`);
- nor is one that `OpenProcess` refuses: the lists of the service pass over it
  (`Interceptor.cpp:287-290`), its coroutine returns (`hook.cpp:548-550`), and with the driver its id
  is not new afterwards, so nothing reports it again.

## Proofs

The theorems hold for every value of the constants that satisfies the module's
assumption: `PathAssumption` and `TextAssumption` for rules and parser,
`InterceptorAssumption`, `ShieldAssumption`, `RingAssumption`,
`ConnectionAssumption`, `TrackingAssumption`.  These say that the constants have their types
and that null values are not values; beyond that, `ShieldAssumption` numbers the requests of a
thread, `ConnectionAssumption` has at least as many events as processes, and
`TrackingAssumption` gives the processes of the start different ids.

| module | theorem | states |
|---|---|---|
| `FirewallConfigProofs` | `TypeCorrect` | `[]TypeOK` |
| | `AcceptedTextsCorrect` | `[]OnlyWellPlacedTextsAreParsed` |
| | `VerdictsCorrect` | `[]VerdictMatchesText` |
| | `UnknownSourcesCorrect` | `[]UnknownSourceMatchesText` |
| | `DirectionCorrect` | `RuleLinesActInTheirDirection` |
| `InterceptorProofs` | `TypeCorrect` | `[]TypeOK` |
| | `NoPasteStranded` | `[]PastesWaitOnlyWhileLocked` |
| | `LastWriterCorrect` | `[]LastWriterCompletedACopy` |
| | `PastesJudgedCorrect` | `PastesJudgedOnRecordedWriter` |
| | `RequestsCorrect` | `[]RequestsInOnePlace` |
| | `NothingForgotten` | `[]NoRequestForgotten` |
| | `OnlyTheDead` | `OnlyTheDeadTakeTheServiceDown` |
| `ClipboardShieldProofs` | `ShieldImplementsInterceptor` | `ShieldSpec => Spec` |
| | `ShieldTypeCorrect` | `[]ShieldTypeOK` |
| | `LocksCorrect` | `[]LocksBelongToACopy` |
| | `AnswersCorrect` | `RepliesReachTheirRequester` |
| `ClipboardShieldMonitorProofs` | `ShieldImplementsMonitor` | `ImplementsMonitor`, if `FaultFree` |
| | `EndsItsOwnCopy` | `[]CopyEndEndsItsOwnCopy`, if `FaultFree` |
| | `ReadersObey` | `[]ReadersObeyPolicy`, if `FaultFree` |
| | `NoCircularWait` | `[]NobodyWaitsInACircle`, if `FaultFree` and `SingleThreaded` |
| `MessageRingProofs` | `TypeCorrect` | `[]TypeOK` |
| | `RingImplementsMailbox` | `ImplementsMailbox` |
| | `ListsStayWhole` | `[]ListsAreWhole` |
| | `ReaderWaitsForAWriter` | `MismatchesHaveAWriter` |
| `ConnectionProofs` | `TypeCorrect` | `[]TypeOK` |
| | `OwnersCorrect` | `[]EventsHaveOneOwner` |
| | `HookedCorrect` | `[]HookedMeansConnected` |
| | `WaitsCorrect` | `[]WaitsAreForThemselves` |
| | `ConnectionsExpected` | `[]UnexpectedConnection` |
| | `ConfirmationsExpected` | `[]UnexpectedConfirmation` |
| | `NoConnectionDropped` | `[]ConnectionsAreUnderWay` |
| `ProcessTrackingProofs` | `TypeCorrect` | `[]TypeOK` |
| | `BeingHookedCorrect` | `[]BeingHookedIsExact` |
| | `InjectionCorrect` | `[]HookingHitsItsProcess` |
| | `HookedOnceCorrect` | `HookedOnce` |
| | `NoneMissed` | `[]NoProcessIsMissed` |

**FirewallConfig.**  The properties speak of positions in the text, the state holds two
vectors of rules, so the invariant `TextInv` has to connect them.  `Copied` says that a
vector lists the headers of its kind in the order of the text: there is an increasing
enumeration of their positions such that the n-th rule is that header, with the group's
members as subrules, in order again by an increasing enumeration.  `LastOf` says that
`last_rule` points to the last header's rule, which is why a new subrule goes where
`Copied` wants it; `DefaultOf` and `GrammarOf` (the lines are well placed) are the rest of the text.  One lemma per kind of line
shows that each is kept.  An increasing enumeration keeps the least element, so the
first match in a vector is the least matching position in the text, which is what the
verdict of the text is defined by.  `RuleLinesActInTheirDirection` is about one line, a main
directive or a subrule, and not about a group: a group contains its exceptions, which act
against it, so a `source-deny` group with an `allow` subrule can allow a paste that was denied.

**Interceptor.**  `TypeOK` is inductive.  `QueueInv` adds that entries are filed under
their own session, that whatever waits or was recorded was taken from the ring
(`sent \ inbox`), and that pastes wait only in locked sessions: without the second
part one cannot exclude that a message is queued twice, because a step only shows
that it leaves the ring.  `ReplyInv` adds that what is in the ring is unanswered and
waits nowhere, what waits is unanswered, each request has one queue position and
one reply; it is what makes "one place" inductive, since moving an entry from a
queue to a reply needs that no second position and no earlier reply exist.  In
`EndCopy` three kinds of replies leave in one step (pastes, resumed copy, the
sender), and the proof shows their requests are different.  `ForgetInv` says a waiting entry
has a null connection only if its process is dead, so nobody alive is dropped
when its turn comes.  Each invariant has one lemma per handler and one for the
environment.  `OnlyTheDead` follows from the same fact.

**ClipboardShield.**  Every step of the composition is a step or a stutter of
`Interceptor`, because a thread sends only requests of its own process that were
never sent before (requests are numbered by the call, `SentInv`); so the theorems
above hold of the composition.  `PendingInv` says that the answers to a
process that has not given up were all read but for the one awaited: a thread sends only with the mutex, and
releases it with the answer or by a timeout, after which the process has given up (`GivingUpLasts`).  With `ReplyInv` (one answer per
request) this gives `RepliesReachTheirRequester`.  `LocksInv` follows each copy from its
CopyBegin to its CopyEnd through both sides; `RecordedInv` ties it to a message that
was really sent.

**The reference monitor.**  The property of the whole system, that nobody reads what the
policy denies given who *really* wrote, holds only while nothing fails and nobody writes
through `OleSetClipboard`; `shield_overlap` refutes it otherwise.  `FaultFree` says so of the constants:
no timeouts, nobody dies, the service stays, all are connected at the start, no OLE
writers.  The run `shield` is such an instance, and the theorems hold for any
processes, sessions, threads, rules and numbers of calls.  `CalmInv` is the argument:

- Windows lets one thread per session have the clipboard open, so at most one thread
  of a session is in a Win32 function (`PlacedInv`), and its copy, once begun, is
  the one in progress (`BegunInv`, with `WireInv` and `TakenInv`: the ring holds only what its
  sender waits for, and no copy that was begun);
- the writer that the service recorded is the one who wrote what the clipboard holds,
  unless a writer of the session has yet to report (`ContentInv`);
- a verdict is right when it is given, because a paste is judged only when no copy is in
  progress, and stays right until the read, because the reader has the clipboard
  open and nobody can write (`VerdictInv`).

Each step then maps to a step of the monitor or a stutter.

**Nobody waits in a circle.**  This is the safety half of `EveryCallReturns`.  Whoever waits
without an answer is a reader, kept by a copy in progress (`NoRequestForgotten`, `PastesWaitOnlyWhileLocked`;
`NoCopyWaits`: with Win32 writers no copy is ever queued), and `LocksBelongToACopy` leads from that copy
to a writer who has its end yet to report.  That one does not wait without an answer, since
only a read does; `KeptInv` says that the answer to a waiting thread is never
thrown away by `SendAndWait`.  `SingleThreaded` is needed: a second thread of the
writer's process may hold `ipc_mutex` while it waits for the writer (`DllState.cpp:186`).

**MessageRing.**  `PointersInv`: the two heads and
the links lead to linked slots, no two to the same one, hence a freed slot is not
pointed to any more.  `OwnersInv`: clients that prepare have claimed slots of their own.
`MessagesInv` and `FreshInv`: the ring, the reader and the handled messages are disjoint, and a
message to be linked is new.  Nothing is assumed of digests: a mismatch only delays the
reader, and a match frees the slot of a message that is whole, since
the payload is copied before the slot is linked.
For `ListsAreWhole`, a list is the least set that has its first slot and is closed under
the links (`Chain`), not a recursion over them, so what one step does to it
(a slot pushed at the head, the head detached, the first slot freed) is an argument about closed sets.
The least closed set alone would allow links in a circle; `Ends` excludes that (every set of linked slots has one whose
link leads out of it), and it is kept because a slot is linked in front of what it points to,
and what is freed is the front (`EndsInFront`).
`DigestInv` ties a slot whose digest does not match to a client that holds the right one
and has yet to store it; `Overtaken` is the one case in which a store falls
on another client's slot.

**Connection.**  A process sends one Connection in the life of a service and none before it is
injected (`SendingInv`, `UnheardInv`); its confirmations count the services that
opened its ring (`ConfirmationsInv`), which bounds them by the restarts.
`HandlingInv` and `SetterInv` follow the looked-up handle: it is that of the process's
own wait until the wait gives up or was ended by another's event.  That second case
is why the property is a relation between processes (`Misled`).
`WayInv` follows a Connection of a DLL that waits through ring, IPC thread and confirmation; what ends
it on the way is one of the cases that stay true once they are (`ExcusedForGood`).

**ProcessTracking.**  `UniqueInv` (an id names one among the processes that run or are held)
makes the id that is injected name the process that was examined, since a
coroutine holds its handle while it hooks.  `BeingHookedIsExact` is inductive.
`TriedInv` says that a process that was tried is on record, or has thrown, or its id was
reused; only `OnProcessDestroyed` erases records, and `KeysInv` shows that it does so to a
process that still runs only after its id served another.
`NoneMissed` says that no wake-up is lost.  `RecordInv` (what is on record was tried) makes an id
that a coroutine skips the id of a process that was tried or shared its id, and
`MonitorInv` orders the scan and the first list of the monitor.  A comparison then
schedules every process that is new to it, and one born after the list was
read leaves the driver's event set, or another poll to come.  Excepted are `Protected` processes,
those tried, an id that was reused, and the gap between the scan and the first list.

Only model-checked:

- everything under fairness: `EveryCallReturns`, `PushesAreHandled`,
  `EveryConnectionIsDecided`, `StartReturns`, `EveryProcessIsTried`;
- the statements that the runs refute.

Every other property of a passing run is stated by a theorem.

## Limits of the model

- Windows: clipboard formats, ownership, `OpenClipboard` by unhooked processes and
  delayed rendering are left out.  `SetClipboardData(format, NULL)` returns NULL
  and is reported as a failed copy (`Hooks.cpp:27`); the model's write fails or
  succeeds as reported.
- `OleGetClipboard` returns an object whose data is read later, so the monitor
  counts `GetClipboardData` as the read.
- Fail-open behaviour is kept as the code has it: a disconnected process is not
  filtered (`DllState.cpp:13`), an unknown reader or writer is allowed.  The
  refinement is therefore stated for connected processes without failures.
- A live process always has a path (`get_process_full_path` fails only for a dead one).
- In `Interceptor` the handshake is one step (`OnConnection`).  `ClipboardShield` has the
  client's steps around it, and a Connection that is lost for any of the reasons that `Connection` opens up.
- A refusal of `OpenProcess` lasts as long as the process (`Protected`): one that is
  refused at one moment and granted at another is left out.
- In `Interceptor`, `ClipboardShield` and `Connection` a process is a pid together with its unique id.
  Reuse of pids is in `ProcessTracking` only; `return_paths` by pid alone, which is never
  pruned, is listed as a hazard.
- Memory is sequentially consistent (the code uses interlocked operations and a barrier).
- The ring of a restarted service is cleared in one step (`ServiceUp`); a push that
  overlaps the `memset`, and then links a slot that counts as free, is left out.
- In `Connection` a process starts with its DLL absent; one that the old service had connected is
  injected again and sends nothing, as `DllState::initialize` does nothing twice.
- Handles, and the calls of Windows that create them, do not run out.

Not modelled:

- the self-test (`DllState.cpp:63-77`), during which other threads' calls do nothing,
  and the installation of the hooks;
- how a process is injected: tokens, integrity levels, 32 and 64 bit injectors, code
  generation (`hook.cpp`, `CFManualInjector/`): a sequence of Windows calls that
  succeeds or fails, which is how `Inject` and `Finish` have it;
- the read-ahead mode of the driver and of its client: this program passes a member
  that is 0, so it never selects it;
- the service shell, the order of construction and destruction of the members of
  `Interceptor`, and `stop`: what is hard in them is the use of memory outside its lifetime,
  which is listed under hazards and has no document to be held against;
- installers, tray icon, tools;
- the vendored libraries (asmjit, Deviare-InProc, rapidjson), about 95,000 of the 105,000 lines of the
  source tree.  Of the program's own code, the core (`libvts`, `common`,
  `ClipboardFirewallDll`) has about 5,800 lines; the rest of it is what is
  listed here, wrappers of Windows calls, and logging.

## Plan

1. *(done)* rules, parser, coordination, hooks, composition, first proofs.
2. *(done)* `MessageRing` and `Mailbox`: slots, list head, digest, death of a writer
   between two steps; the refinement, proved.
3. *(done)* `Connection`: event pool, `ConnectionWait`, late messages, restarts; proved but
   for liveness.
4. *(done)* `ProcessTracking`: both ways of noticing processes, coroutines, reuse of ids;
   proved but for liveness.
5. *(done)* proofs about `ClipboardShield` and `FirewallConfig`.
6. *(done)* the refinement of `ReferenceMonitor` and the absence of circular waits, proved; the
   lists and digests of the ring; nothing dropped in the handshake; no process missed.
7. Left: the self-test and delayed rendering in `ClipboardShield`; reuse of ids in
   `Connection`; the service's life cycle with `Interceptor::stop`.
