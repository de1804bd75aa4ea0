----------------------------- MODULE MessageRing -----------------------------
(***************************************************************************)
(* The shared-memory block through which processes send messages            *)
(* (common/IpcStructures.h): an array of slots, each claimed by writing its  *)
(* type, linked into a list by compare-and-swap of the head, and detached    *)
(* with the whole list by the one thread that reads.  The writer computes a  *)
(* digest of the slot and stores it after it has linked the slot; the reader  *)
(* waits until the digest matches what it reads.                            *)
(*                                                                         *)
(* The k-th message of client c is <<c, k>>.  Its digest tells apart what it *)
(* is computed from, the bytes of the payload and the index of the next slot; *)
(* requests of one client repeat byte for byte, so BytesOf need not be        *)
(* injective.  Memory is sequentially consistent.                           *)
(***************************************************************************)
EXTENDS Naturals, Sequences, FiniteSets

CONSTANTS
    Client,         \* the threads that push
    Slot,           \* the indices of the array
    invalid,        \* max_messages: the index that ends a list
    Bytes,          \* the contents of payloads, without next_message
    BytesOf,        \* BytesOf[m]: those of message m
    MaxPushes,      \* bound on the messages of a client
    NoMessage,      \* what a slot holds after memset
    Mortal          \* the clients that may die in the middle of a push

Message == Client \X (1 .. MaxPushes)

ASSUME RingAssumption ==
    /\ IsFiniteSet(Slot)
    /\ Slot # {}
    /\ invalid \notin Slot
    /\ NoMessage \notin Message
    /\ MaxPushes \in Nat
    /\ BytesOf \in [Message -> Bytes]
    /\ Mortal \subseteq Client

Index == Slot \cup {invalid}

\* A digest, and what cannot be the digest of anything (a block of zeros).
NoDigest == [bytes |-> NoMessage, next |-> invalid]
Digest == [bytes : Bytes, next : Index] \cup {NoDigest}

VARIABLES
    claimed,        \* per slot, its type is not Free
    payload,        \* per slot, the message copied there last
    next_message,   \* per slot
    digest,         \* per slot
    first_message,  \* the head of the list
    signaled,       \* the auto-reset event of the reader
    pc,             \* where each client is in push_new_message
    index,          \* per client, the slot it claimed
    computed,       \* per client, the digest it computed and has not stored
    pushes,         \* per client, the messages it began to push
    dead,           \* the clients that died
    reader,         \* where the reader is in pull_messages
    cursor,         \* the next slot of the list it detached
    payloads,       \* what it read and has not handled
    handled         \* the messages it handled

ring == <<claimed, payload, next_message, digest, first_message, signaled>>
client_vars == <<pc, index, computed, pushes, dead>>
reader_vars == <<reader, cursor, payloads, handled>>
vars == <<ring, client_vars, reader_vars>>

\* idle: not pushing; claim: looking for a free slot; copy: about to copy the
\* payload; aim: about to read the head; link: about to swap it; hash: about to
\* compute the digest; store: about to store it; signal: about to set the event.
Location == {"idle", "claim", "copy", "aim", "link", "hash", "store", "signal"}

Init ==
    /\ claimed = [s \in Slot |-> FALSE]
    /\ payload = [s \in Slot |-> NoMessage]
    /\ next_message \in {[s \in Slot |-> i] : i \in Slot}
    /\ digest = [s \in Slot |-> NoDigest]
    /\ first_message = invalid
    /\ signaled = FALSE
    /\ pc = [c \in Client |-> "idle"]
    /\ index = [c \in Client |-> invalid]
    /\ computed = [c \in Client |-> NoDigest]
    /\ pushes = [c \in Client |-> 0]
    /\ dead = {}
    /\ reader = "wait"
    /\ cursor = invalid
    /\ payloads = <<>>
    /\ handled = {}

------------------------------------------------------------------------------
(* push_new_message.                                                        *)

\* The message client c is pushing, or pushed last.
Current(c) == <<c, pushes[c]>>

Step(c, from, to) ==
    /\ c \notin dead
    /\ pc[c] = from
    /\ pc' = [pc EXCEPT ![c] = to]

Begin(c) ==
    /\ Step(c, "idle", "claim")
    /\ pushes[c] < MaxPushes
    /\ pushes' = [pushes EXCEPT ![c] = @ + 1]
    /\ UNCHANGED <<ring, index, computed, dead, reader_vars>>

\* Defect for TypeOK: the array is scanned once, free slot or not.
ClaimOnce(c) ==
    /\ Step(c, "claim", "copy")
    /\ \E i \in Index :
        /\ i = invalid => \A s \in Slot : claimed[s]
        /\ i # invalid => ~claimed[i]
        /\ claimed' = [s \in Slot |-> claimed[s] \/ s = i]
        /\ index' = [index EXCEPT ![c] = i]
    /\ UNCHANGED <<payload, next_message, digest, first_message, signaled,
                   computed, pushes, dead, reader_vars>>

\* A slot whose type is Free is claimed by compare-and-swap.  The scan takes the
\* first it finds so, which may be any one that is free now: slots behind the
\* scan may have been freed since.  While none is free the client spins.
Claim(c) ==
    /\ Step(c, "claim", "copy")
    /\ \E s \in Slot :
        /\ ~claimed[s]
        /\ claimed' = [claimed EXCEPT ![s] = TRUE]
        /\ index' = [index EXCEPT ![c] = s]
    /\ UNCHANGED <<payload, next_message, digest, first_message, signaled,
                   computed, pushes, dead, reader_vars>>

\* The slot is the client's own, and not in any list, until it is linked.
Copy(c) ==
    /\ Step(c, "copy", "aim")
    /\ payload' = [payload EXCEPT ![index[c]] = Current(c)]
    /\ UNCHANGED <<claimed, next_message, digest, first_message, signaled,
                   index, computed, pushes, dead, reader_vars>>

\* The head is read and written to the slot.
Aim(c) ==
    /\ Step(c, "aim", "link")
    /\ next_message' = [next_message EXCEPT ![index[c]] = first_message]
    /\ UNCHANGED <<claimed, payload, digest, first_message, signaled,
                   index, computed, pushes, dead, reader_vars>>

\* Defect for ListsAreWhole: the head is stored, not compared and swapped.
LinkBlindly(c) ==
    /\ Step(c, "link", "hash")
    /\ first_message' = index[c]
    /\ UNCHANGED <<claimed, payload, next_message, digest, signaled,
                   index, computed, pushes, dead, reader_vars>>

\* The swap succeeds when the head is the index that was read, whatever
\* happened to that slot in between; otherwise the client reads the head again.
Link(c) ==
    /\ \/ /\ Step(c, "link", "hash")
          /\ first_message = next_message[index[c]]
          /\ first_message' = index[c]
       \/ /\ Step(c, "link", "aim")
          /\ first_message # next_message[index[c]]
          /\ UNCHANGED first_message
    /\ UNCHANGED <<claimed, payload, next_message, digest, signaled,
                   index, computed, pushes, dead, reader_vars>>

\* What the hash of a slot is computed from.  Its type is hashed too; that was
\* written when the slot was claimed and does not change until it is freed.
Md5Of(s) ==
    IF payload[s] = NoMessage THEN NoDigest
    ELSE [bytes |-> BytesOf[payload[s]], next |-> next_message[s]]

\* Defect for MismatchesHaveAWriter: the digest is that of a slot without a
\* successor, whatever slot it was linked in front of.
HashAlone(c) ==
    /\ Step(c, "hash", "store")
    /\ computed' = [computed EXCEPT ![c] = [Md5Of(index[c]) EXCEPT !.next = invalid]]
    /\ UNCHANGED <<ring, index, pushes, dead, reader_vars>>

\* The digest is computed over the slot, not over the payload that was pushed.
Hash(c) ==
    /\ Step(c, "hash", "store")
    /\ computed' = [computed EXCEPT ![c] = Md5Of(index[c])]
    /\ UNCHANGED <<ring, index, pushes, dead, reader_vars>>

Store(c) ==
    /\ Step(c, "store", "signal")
    /\ digest' = [digest EXCEPT ![index[c]] = computed[c]]
    /\ UNCHANGED <<claimed, payload, next_message, first_message, signaled,
                   index, computed, pushes, dead, reader_vars>>

\* Defect for PushesAreHandled: the event is set only for an empty ring.
SignalIfEmpty(c) ==
    /\ Step(c, "signal", "idle")
    /\ signaled' = (signaled \/ (first_message = index[c] /\ next_message[index[c]] = invalid))
    /\ index' = [index EXCEPT ![c] = invalid]
    /\ UNCHANGED <<claimed, payload, next_message, digest, first_message,
                   computed, pushes, dead, reader_vars>>

Signal(c) ==
    /\ Step(c, "signal", "idle")
    /\ signaled' = TRUE
    /\ index' = [index EXCEPT ![c] = invalid]
    /\ UNCHANGED <<claimed, payload, next_message, digest, first_message,
                   computed, pushes, dead, reader_vars>>

\* The process of a client ends, wherever the client is.
Die(c) ==
    /\ c \in Mortal \ dead
    /\ dead' = dead \cup {c}
    /\ UNCHANGED <<ring, pc, index, computed, pushes, reader_vars>>

Push(c) ==
    \/ Claim(c) \/ Copy(c) \/ Aim(c) \/ Link(c)
    \/ Hash(c) \/ Store(c) \/ Signal(c)

------------------------------------------------------------------------------
(* pull_messages, repeated by the thread of IncomingSharedMemory.           *)

\* A wait that times out does nothing.
Wake ==
    /\ reader = "wait"
    /\ signaled
    /\ signaled' = FALSE
    /\ reader' = "detach"
    /\ UNCHANGED <<claimed, payload, next_message, digest, first_message,
                   client_vars, cursor, payloads, handled>>

\* Defect for ImplementsMailbox: the head is read, not exchanged.
DetachNothing ==
    /\ reader = "detach"
    /\ cursor' = first_message
    /\ reader' = "read"
    /\ UNCHANGED <<ring, client_vars, payloads, handled>>

Detach ==
    /\ reader = "detach"
    /\ cursor' = first_message
    /\ first_message' = invalid
    /\ reader' = "read"
    /\ UNCHANGED <<claimed, payload, next_message, digest, signaled,
                   client_vars, payloads, handled>>

\* A slot whose digest matches is read and freed; until then the reader spins.
\* The index of the next slot was read before.
Read ==
    /\ reader = "read"
    /\ cursor # invalid
    /\ digest[cursor] = Md5Of(cursor)
    /\ payloads' = Append(payloads, payload[cursor])
    /\ claimed' = [claimed EXCEPT ![cursor] = FALSE]
    /\ cursor' = next_message[cursor]
    /\ UNCHANGED <<payload, next_message, digest, first_message, signaled,
                   client_vars, reader, handled>>

\* At the end of the list the messages are handled, in the order of the list.
Handle ==
    /\ reader = "read"
    /\ cursor = invalid
    /\ payloads # <<>>
    /\ handled' = handled \cup {Head(payloads)}
    /\ payloads' = Tail(payloads)
    /\ UNCHANGED <<ring, client_vars, reader, cursor>>

Rest ==
    /\ reader = "read"
    /\ cursor = invalid
    /\ payloads = <<>>
    /\ reader' = "wait"
    /\ UNCHANGED <<ring, client_vars, cursor, payloads, handled>>

Pull == Wake \/ Detach \/ Read \/ Handle \/ Rest

------------------------------------------------------------------------------
Next ==
    \/ \E c \in Client : Begin(c) \/ Push(c) \/ Die(c)
    \/ Pull

\* The reader runs, and so does a client in the middle of a push.  Nothing
\* obliges a client to push, or to die.
Fairness == WF_vars(Pull) /\ \A c \in Client : WF_vars(Push(c))

Spec == Init /\ [][Next]_vars /\ Fairness
------------------------------------------------------------------------------
(* Properties.                                                              *)

\* The clients that claimed a slot and have not linked it, dead ones included.
Preparing == {c \in Client : pc[c] \in {"copy", "aim", "link"}}

\* The slots that are linked, or detached and not freed.
Linked == {s \in Slot : claimed[s] /\ \A c \in Preparing : index[c] # s}

\* The state has its type, and a client past its claim has a slot.
TypeOK ==
    /\ claimed \in [Slot -> BOOLEAN]
    /\ payload \in [Slot -> Message \cup {NoMessage}]
    /\ next_message \in [Slot -> Index]
    /\ digest \in [Slot -> Digest]
    /\ first_message \in Index
    /\ signaled \in BOOLEAN
    /\ pc \in [Client -> Location]
    /\ index \in [Client -> Index]
    /\ computed \in [Client -> Digest]
    /\ pushes \in [Client -> 0 .. MaxPushes]
    /\ dead \in SUBSET Client
    /\ reader \in {"wait", "detach", "read"}
    /\ cursor \in Index
    /\ payloads \in Seq(Message)
    /\ handled \in SUBSET Message
    /\ \A c \in Client : pc[c] \notin {"idle", "claim"} => index[c] \in Slot

\* S has the slots that the links in next lead to from those of S.
Closed(next, S) == \A s \in S : next[s] \in S \cup {invalid}

\* The slots that a list starting at index i goes through: the least closed set
\* that has i.
Chain(next, i) ==
    {s \in Slot : \A S \in SUBSET Slot :
                    {i} \ {invalid} \subseteq S /\ Closed(next, S) => s \in S}

\* Whoever follows the links in next through the slots of S gets out: no slots of S
\* lead only to one another.
Ends(next, S) == \A T \in SUBSET S : T # {} => \E s \in T : next[s] \notin T

\* The lists lose no slot and share none, and they end: a claimed slot is in
\* exactly one of the list of the ring, the list the reader detached and the hands
\* of a client that has not linked it, and the links of a list go in no circle
\* (push_new_message and pull_messages together).
ListsAreWhole ==
    LET pushed == Chain(next_message, first_message)
        detached == Chain(next_message, cursor)
    IN  /\ Linked = pushed \cup detached
        /\ pushed \cap detached = {}
        /\ Ends(next_message, Linked)
        /\ \A c, d \in Preparing : c # d => index[c] # index[d]

\* Two clients are at work on one slot: the reader freed it on a digest left by
\* an earlier message with the same bytes, before the first client stored its
\* own, and the second client claimed it.  (One that has only the event left to
\* set does nothing to the slot any more.)
Overtaken ==
    \E c, d \in Client :
        /\ c # d
        /\ pc[c] \in {"hash", "store"}
        /\ pc[d] \notin {"idle", "claim", "signal"}
        /\ index[c] = index[d]

\* The clients that linked a slot and have not stored its digest.
Digesting == {c \in Client : pc[c] \in {"hash", "store"}}

\* The slots whose digest is not, or not yet, that of what they hold.
Unsettled == {s \in Linked : digest[s] # Md5Of(s)}

\* The messages in the ring, or read and not handled.
Contents == {payload[s] : s \in Linked} \cup {payloads[i] : i \in DOMAIN payloads}

\* Every message is handled once and as it was pushed, whoever dies.
Box == INSTANCE Mailbox WITH box <- Contents

ImplementsMailbox == Box!Spec

\* While nobody is overtaken, a slot on which the reader of pull_messages spins is
\* one whose client has yet to store the digest: no other mismatch arises, and
\* none outlives the store.
MismatchesHaveAWriter ==
    []~Overtaken => [](Unsettled \subseteq {index[c] : c \in Digesting})

\* doc/Configuration.md:5: when a process attempts to paste, ClipboardShield
\* "intercepts that request and compares the operation to the rules".  So, as
\* long as nobody dies, every message whose push began is handled.
EveryPushIsHandled ==
    [](dead = {}) =>
        \A m \in Message : m[2] <= pushes[m[1]] ~> m \in handled

\* It is when no client is overtaken, although the ring is smaller than what the
\* clients push and the swaps and the scans of push_new_message may fail time
\* and again.  After an overtaking the late store can leave a digest that never
\* matches, and the reader then spins for good.
PushesAreHandled == []~Overtaken => EveryPushIsHandled
==============================================================================
