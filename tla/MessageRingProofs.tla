--------------------------- MODULE MessageRingProofs ---------------------------
(***************************************************************************)
(* MessageRing implements Mailbox, for every set of clients and slots and     *)
(* any number of messages.                                                  *)
(***************************************************************************)
EXTENDS MessageRing, TLAPS

------------------------------------------------------------------------------
(* The inductive invariant.                                                 *)

\* The list of the reader exists only while it reads.
ReaderInv == reader # "read" => cursor = invalid /\ payloads = <<>>

\* Each client that prepares a message has a slot of its own.
OwnersInv ==
    /\ \A c \in Preparing : claimed[index[c]]
    /\ \A c, d \in Preparing : c # d => index[c] # index[d]

\* The heads and the links lead to linked slots, no two of them to one slot.
PointersInv ==
    /\ first_message \in Linked \cup {invalid}
    /\ cursor \in Linked \cup {invalid}
    /\ first_message = cursor => cursor = invalid
    /\ \A s \in Linked :
        /\ next_message[s] \in Linked \cup {invalid}
        /\ next_message[s] = first_message => first_message = invalid
        /\ next_message[s] = cursor => cursor = invalid
    /\ \A s, t \in Linked :
        next_message[s] = next_message[t] => s = t \/ next_message[s] = invalid

\* The clients that began to push a message and have not linked it.
Posting == {c \in Client : pc[c] \in {"claim", "copy", "aim", "link"}}

\* The ring and the reader hold different messages, none of them handled, and
\* none that a client has yet to link.
MessagesInv ==
    /\ \A s \in Linked : payload[s] \in Message
    /\ \A s, t \in Linked : payload[s] = payload[t] => s = t
    /\ \A i \in DOMAIN payloads : \A s \in Linked : payloads[i] # payload[s]
    /\ \A i, j \in DOMAIN payloads : payloads[i] = payloads[j] => i = j
    /\ \A s \in Linked : payload[s] \notin handled
    /\ \A i \in DOMAIN payloads : payloads[i] \notin handled

\* A client numbers its messages, and writes the current one to its slot.
FreshInv ==
    /\ \A c \in Client : pc[c] # "idle" => pushes[c] > 0
    /\ \A c \in Client : pc[c] \in {"aim", "link"} => payload[index[c]] = Current(c)
    /\ \A m \in Contents \cup handled : m[2] <= pushes[m[1]]
    /\ \A c \in Posting : Current(c) \notin Contents \cup handled

IInv == TypeOK /\ ReaderInv /\ OwnersInv /\ PointersInv /\ MessagesInv /\ FreshInv

------------------------------------------------------------------------------
(* Facts about messages.                                                    *)

LEMMA CurrentIsMessage ==
    ASSUME TypeOK, NEW c \in Client, pushes[c] > 0
    PROVE  Current(c) \in Message /\ Current(c)[1] = c /\ Current(c)[2] = pushes[c]
<1>1. pushes[c] \in 1 .. MaxPushes
  BY RingAssumption DEF TypeOK
<1> QED
  BY <1>1 DEF Current, Message

LEMMA ContentsAreMessages ==
    ASSUME TypeOK, MessagesInv
    PROVE  Contents \subseteq Message
<1>1. \A i \in DOMAIN payloads : payloads[i] \in Message
  BY DEF TypeOK
<1> QED
  BY <1>1 DEF Contents, MessagesInv

LEMMA DigestType ==
    ASSUME TypeOK, NEW s \in Slot
    PROVE  Md5Of(s) \in Digest
<1>1. payload[s] \in Message \cup {NoMessage} /\ next_message[s] \in Index
  BY DEF TypeOK
<1>2. CASE payload[s] = NoMessage
  BY <1>2 DEF Md5Of, Digest
<1>3. CASE payload[s] # NoMessage
  <2>1. BytesOf[payload[s]] \in Bytes
    BY <1>1, <1>3, RingAssumption
  <2> QED
    BY <1>1, <1>3, <2>1 DEF Md5Of, Digest
<1> QED
  BY <1>2, <1>3

------------------------------------------------------------------------------
(* Types.                                                                   *)

LEMMA TypeInductive ==
    ASSUME IInv, Next
    PROVE  TypeOK'
<1> USE DEF IInv, TypeOK, Index, Location, ring, client_vars, reader_vars
<1>1. ASSUME NEW c \in Client, Begin(c) PROVE TypeOK'
  <2>1. pushes[c] + 1 \in 0 .. MaxPushes
    BY <1>1, RingAssumption DEF Begin
  <2> QED
    BY <1>1, <2>1 DEF Begin, Step
<1>2. ASSUME NEW c \in Client, Claim(c) PROVE TypeOK'
  <2> PICK s \in Slot : /\ ~claimed[s]
                        /\ claimed' = [claimed EXCEPT ![s] = TRUE]
                        /\ index' = [index EXCEPT ![c] = s]
    BY <1>2 DEF Claim
  <2>1. claimed' \in [Slot -> BOOLEAN] /\ index' \in [Client -> Index]
    OBVIOUS
  <2>2. pc' \in [Client -> Location]
    BY <1>2 DEF Claim, Step
  <2>3. \A d \in Client : pc'[d] \notin {"idle", "claim"} => index'[d] \in Slot
    BY <1>2 DEF Claim, Step
  <2> QED
    BY <1>2, <2>1, <2>2, <2>3 DEF Claim
<1>3. ASSUME NEW c \in Client, Copy(c) PROVE TypeOK'
  <2>1. Current(c) \in Message
    BY <1>3, CurrentIsMessage DEF Copy, Step, FreshInv
  <2>2. index[c] \in Slot
    BY <1>3 DEF Copy, Step
  <2> QED
    BY <1>3, <2>1, <2>2 DEF Copy, Step
<1>4. ASSUME NEW c \in Client, Aim(c) PROVE TypeOK'
  <2>1. index[c] \in Slot
    BY <1>4 DEF Aim, Step
  <2> QED
    BY <1>4, <2>1 DEF Aim, Step
<1>5. ASSUME NEW c \in Client, Link(c) PROVE TypeOK'
  <2>1. index[c] \in Slot
    BY <1>5 DEF Link, Step
  <2> QED
    BY <1>5, <2>1 DEF Link, Step
<1>6. ASSUME NEW c \in Client, Hash(c) PROVE TypeOK'
  <2>1. index[c] \in Slot
    BY <1>6 DEF Hash, Step
  <2>2. Md5Of(index[c]) \in Digest
    BY <2>1, DigestType
  <2> QED
    BY <1>6, <2>2 DEF Hash, Step
<1>7. ASSUME NEW c \in Client, Store(c) PROVE TypeOK'
  BY <1>7 DEF Store, Step
<1>8. ASSUME NEW c \in Client, Signal(c) PROVE TypeOK'
  BY <1>8 DEF Signal, Step
<1>9. ASSUME NEW c \in Client, Die(c) PROVE TypeOK'
  BY <1>9, RingAssumption DEF Die
<1>10. ASSUME Wake PROVE TypeOK'
  BY <1>10 DEF Wake
<1>11. ASSUME Detach PROVE TypeOK'
  BY <1>11 DEF Detach
<1>12. ASSUME Read PROVE TypeOK'
  <2>1. cursor \in Linked
    BY <1>12 DEF Read, PointersInv
  <2>2. cursor \in Slot /\ payload[cursor] \in Message
    BY <2>1 DEF MessagesInv, Linked
  <2> QED
    BY <1>12, <2>2 DEF Read
<1>13. ASSUME Handle PROVE TypeOK'
  <2>1. Head(payloads) \in Message /\ Tail(payloads) \in Seq(Message)
    BY <1>13 DEF Handle
  <2> QED
    BY <1>13, <2>1 DEF Handle
<1>14. ASSUME Rest PROVE TypeOK'
  BY <1>14 DEF Rest
<1> QED
  BY <1>1, <1>2, <1>3, <1>4, <1>5, <1>6, <1>7, <1>8, <1>9, <1>10, <1>11, <1>12, <1>13,
     <1>14 DEF Next, Push, Pull

------------------------------------------------------------------------------
(* The slots and their owners.                                              *)

\* A step that moves no slot between a client and the lists, and writes only to
\* slots that are not linked.
Quiet ==
    /\ Preparing' = Preparing
    /\ \A c \in Preparing : index'[c] = index[c]
    /\ \A s \in Linked : next_message'[s] = next_message[s] /\ payload'[s] = payload[s]
    /\ UNCHANGED <<claimed, first_message, cursor, payloads, handled>>

LEMMA QuietKeepsLists ==
    ASSUME IInv, Quiet
    PROVE  /\ Linked' = Linked
           /\ Contents' = Contents
           /\ OwnersInv' /\ PointersInv' /\ MessagesInv'
<1>1. Linked' = Linked
  BY DEF Quiet, Linked
<1>2. Contents' = Contents
  BY <1>1 DEF Quiet, Contents
<1>3. OwnersInv'
  BY DEF Quiet, IInv, OwnersInv
<1>4. PointersInv'
  BY <1>1 DEF Quiet, IInv, PointersInv
<1>5. MessagesInv'
  BY <1>1 DEF Quiet, IInv, MessagesInv
<1> QED
  BY <1>1, <1>2, <1>3, <1>4, <1>5

LEMMA OwnSlot ==
    ASSUME IInv, NEW c \in Preparing
    PROVE  index[c] \in Slot /\ claimed[index[c]] /\ index[c] \notin Linked
  BY DEF IInv, TypeOK, OwnersInv, Preparing, Linked

\* The steps of a client that leave the lists alone.
LEMMA ClientIsQuiet ==
    ASSUME IInv, NEW c \in Client,
           Begin(c) \/ Copy(c) \/ Aim(c) \/ Hash(c) \/ Store(c) \/ Signal(c) \/ Die(c)
    PROVE  Quiet
<1> USE DEF IInv, TypeOK, Step, Preparing, Quiet, ring, client_vars, reader_vars
<1>1. CASE Begin(c)
  BY <1>1 DEF Begin
<1>2. CASE Copy(c)
  <2>1. index[c] \notin Linked
    BY <1>2, OwnSlot DEF Copy
  <2>2. \A s \in Linked : payload'[s] = payload[s]
    BY <1>2, <2>1 DEF Copy, Linked
  <2> QED
    BY <1>2, <2>2 DEF Copy
<1>3. CASE Aim(c)
  <2>1. index[c] \notin Linked
    BY <1>3, OwnSlot DEF Aim
  <2>2. \A s \in Linked : next_message'[s] = next_message[s]
    BY <1>3, <2>1 DEF Aim, Linked
  <2> QED
    BY <1>3, <2>2 DEF Aim
<1>4. CASE Hash(c)
  BY <1>4 DEF Hash
<1>5. CASE Store(c)
  BY <1>5 DEF Store
<1>6. CASE Signal(c)
  BY <1>6 DEF Signal
<1>7. CASE Die(c)
  BY <1>7 DEF Die
<1> QED
  BY <1>1, <1>2, <1>3, <1>4, <1>5, <1>6, <1>7

LEMMA ReaderIsQuiet ==
    ASSUME IInv, Wake \/ Rest
    PROVE  Quiet
  BY DEF Wake, Rest, Quiet, Preparing, ring, client_vars, reader_vars

\* A claim takes a slot that nobody has.
LEMMA ClaimLists ==
    ASSUME IInv, NEW c \in Client, Claim(c)
    PROVE  /\ Linked' = Linked
           /\ Contents' = Contents
           /\ OwnersInv' /\ PointersInv' /\ MessagesInv'
<1> PICK s \in Slot : /\ ~claimed[s]
                      /\ claimed' = [claimed EXCEPT ![s] = TRUE]
                      /\ index' = [index EXCEPT ![c] = s]
  BY DEF Claim
<1>1. Preparing' = Preparing \cup {c} /\ c \notin Preparing
  BY DEF Claim, Step, Preparing, IInv, TypeOK
<1>2. index'[c] = s /\ \A d \in Preparing : index'[d] = index[d]
  BY <1>1 DEF IInv, TypeOK, Preparing
<1>3. claimed'[s] /\ \A t \in Slot : t # s => claimed'[t] = claimed[t]
  BY DEF IInv, TypeOK
<1>4. \A d \in Preparing : index[d] # s
  BY DEF IInv, OwnersInv
<1>5. Linked' = Linked
  BY <1>1, <1>2, <1>3, <1>4 DEF Linked
<1>6. UNCHANGED <<payload, next_message, first_message, cursor, payloads, handled>>
  BY DEF Claim, reader_vars
<1>7. Contents' = Contents
  BY <1>5, <1>6 DEF Contents
<1>8. OwnersInv'
  <2>1. \A d \in Preparing' : claimed'[index'[d]]
    BY <1>1, <1>2, <1>3, OwnSlot DEF IInv, OwnersInv
  <2>2. \A d, e \in Preparing' : d # e => index'[d] # index'[e]
    BY <1>1, <1>2, <1>4 DEF IInv, OwnersInv
  <2> QED
    BY <2>1, <2>2 DEF OwnersInv
<1>9. PointersInv'
  BY <1>5, <1>6 DEF IInv, PointersInv
<1>10. MessagesInv'
  BY <1>5, <1>6 DEF IInv, MessagesInv
<1> QED
  BY <1>5, <1>7, <1>8, <1>9, <1>10

\* A swap that succeeds puts the slot of the client at the head of the list.
LEMMA LinkLists ==
    ASSUME IInv, NEW c \in Client, Link(c), first_message = next_message[index[c]]
    PROVE  /\ Linked' = Linked \cup {index[c]}
           /\ Contents' = Contents \cup {Current(c)}
           /\ Current(c) \in Message /\ Current(c) \notin Contents \cup handled
           /\ OwnersInv' /\ PointersInv' /\ MessagesInv'
<1> DEFINE i == index[c]
<1>1. c \in Preparing /\ Preparing' = Preparing \ {c}
  BY DEF Link, Step, Preparing, IInv, TypeOK
<1>2. i \in Slot /\ claimed[i] /\ i \notin Linked
  BY <1>1, OwnSlot
<1>3. first_message' = i
  BY DEF Link
<1>4. UNCHANGED <<claimed, payload, next_message, index, pushes, cursor, payloads, handled>>
  BY DEF Link, reader_vars
<1>5. \A d \in Preparing \ {c} : index[d] # i
  BY <1>1 DEF IInv, OwnersInv
<1>6. Linked' = Linked \cup {i}
  BY <1>1, <1>2, <1>4, <1>5 DEF Linked
<1>7. pc[c] = "link" /\ c \in Posting
  BY DEF Link, Step, Posting
<1>8. payload[i] = Current(c) /\ pushes[c] > 0
  BY <1>7 DEF IInv, FreshInv
<1>9. Current(c) \in Message /\ Current(c) \notin Contents \cup handled
  BY <1>7, <1>8, CurrentIsMessage DEF IInv, FreshInv
<1>10. Contents' = Contents \cup {Current(c)}
  BY <1>4, <1>6, <1>8 DEF Contents
<1>11. OwnersInv'
  BY <1>1, <1>4 DEF IInv, OwnersInv
<1>12. PointersInv'
  <2>1. first_message' \in Linked' /\ cursor' \in Linked' \cup {invalid}
    BY <1>3, <1>4, <1>6 DEF IInv, PointersInv
  <2>2. first_message' # cursor' /\ i # invalid
    BY <1>2, <1>3, <1>4, RingAssumption DEF IInv, PointersInv
  <2>3. \A s \in Linked' : next_message'[s] \in Linked' \cup {invalid}
    BY <1>4, <1>6 DEF IInv, PointersInv
  <2>4. \A s \in Linked' : next_message'[s] # first_message'
    BY <1>2, <1>3, <1>4, <1>6, <2>2 DEF IInv, PointersInv
  <2>5. \A s \in Linked' : next_message'[s] = cursor' => cursor' = invalid
    BY <1>4, <1>6 DEF IInv, PointersInv
  <2>6. \A s \in Linked : next_message[s] = next_message[i] => next_message[i] = invalid
    BY DEF IInv, PointersInv
  <2>7. \A s, t \in Linked' :
          next_message'[s] = next_message'[t] => s = t \/ next_message'[s] = invalid
    BY <1>4, <1>6, <2>6 DEF IInv, PointersInv
  <2> QED
    BY <2>1, <2>2, <2>3, <2>4, <2>5, <2>7 DEF PointersInv
<1>13. MessagesInv'
  <2>1. \A s \in Linked : payload[s] \in Contents
    BY DEF Contents
  <2>2. \A n \in DOMAIN payloads : payloads[n] \in Contents
    BY DEF Contents
  <2>3. \A s, t \in Linked' : payload'[s] = payload'[t] => s = t
    BY <1>4, <1>6, <1>8, <1>9, <2>1 DEF IInv, MessagesInv
  <2>4. \A n \in DOMAIN payloads' : \A s \in Linked' : payloads'[n] # payload'[s]
    BY <1>4, <1>6, <1>8, <1>9, <2>2 DEF IInv, MessagesInv
  <2>5. \A s \in Linked' : payload'[s] \in Message /\ payload'[s] \notin handled'
    BY <1>4, <1>6, <1>8, <1>9 DEF IInv, MessagesInv
  <2>6. \A m, n \in DOMAIN payloads' : payloads'[m] = payloads'[n] => m = n
    BY <1>4 DEF IInv, MessagesInv
  <2>7. \A n \in DOMAIN payloads' : payloads'[n] \notin handled'
    BY <1>4 DEF IInv, MessagesInv
  <2> QED
    BY <2>3, <2>4, <2>5, <2>6, <2>7 DEF MessagesInv
<1> QED
  BY <1>6, <1>9, <1>10, <1>11, <1>12, <1>13

\* A swap that fails changes nothing.
LEMMA FailedLinkIsQuiet ==
    ASSUME IInv, NEW c \in Client, Link(c), first_message # next_message[index[c]]
    PROVE  Quiet
  BY DEF Link, Step, Quiet, Preparing, IInv, TypeOK, reader_vars

\* The reader takes the whole list.
LEMMA DetachLists ==
    ASSUME IInv, Detach
    PROVE  /\ Contents' = Contents
           /\ OwnersInv' /\ PointersInv' /\ MessagesInv'
<1>1. cursor = invalid /\ cursor' = first_message /\ first_message' = invalid
  BY DEF Detach, IInv, ReaderInv
<1>2. UNCHANGED <<claimed, payload, next_message, pc, index, payloads, handled>>
  BY DEF Detach, client_vars
<1>3. Linked' = Linked /\ Preparing' = Preparing
  BY <1>2 DEF Linked, Preparing
<1>4. Contents' = Contents
  BY <1>2, <1>3 DEF Contents
<1>5. OwnersInv'
  BY <1>2, <1>3 DEF IInv, OwnersInv
<1>6. PointersInv'
  BY <1>1, <1>2, <1>3 DEF IInv, PointersInv
<1>7. MessagesInv'
  BY <1>2, <1>3 DEF IInv, MessagesInv
<1> QED
  BY <1>4, <1>5, <1>6, <1>7

\* The reader copies the message and frees the slot, to which nothing leads.
LEMMA ReadLists ==
    ASSUME IInv, Read
    PROVE  /\ Contents' = Contents
           /\ OwnersInv' /\ PointersInv' /\ MessagesInv'
<1> DEFINE m == payload[cursor]
<1>1. cursor \in Linked /\ cursor \in Slot
  BY DEF Read, IInv, PointersInv, Linked
<1>2. UNCHANGED <<payload, next_message, first_message, pc, index, handled>>
  BY DEF Read, client_vars
<1>3. cursor' = next_message[cursor] /\ payloads' = Append(payloads, m)
  BY DEF Read
<1>4. Preparing' = Preparing
  BY <1>2 DEF Preparing
<1>5. \A s \in Slot : claimed'[s] = (claimed[s] /\ s # cursor)
  BY DEF Read, IInv, TypeOK
<1>6. Linked' = Linked \ {cursor}
  BY <1>2, <1>4, <1>5 DEF Linked
<1>7. m \in Message /\ payloads \in Seq(Message)
  BY <1>1 DEF IInv, MessagesInv, TypeOK
<1>8. /\ DOMAIN payloads' = DOMAIN payloads \cup {Len(payloads) + 1}
      /\ Len(payloads) + 1 \notin DOMAIN payloads
      /\ \A i \in DOMAIN payloads : payloads'[i] = payloads[i]
      /\ payloads'[Len(payloads) + 1] = m
  BY <1>3, <1>7
<1>9. Contents' = Contents
  <2>1. {payload'[s] : s \in Linked'} \cup {m} = {payload[s] : s \in Linked}
    BY <1>1, <1>2, <1>6
  <2>2. {payloads'[i] : i \in DOMAIN payloads'} = {payloads[i] : i \in DOMAIN payloads} \cup {m}
    BY <1>8
  <2> QED
    BY <2>1, <2>2 DEF Contents
<1>10. OwnersInv'
  <2>1. \A c \in Preparing : index[c] \in Slot /\ index[c] # cursor
    BY <1>1, OwnSlot
  <2> QED
    BY <1>2, <1>4, <1>5, <2>1 DEF IInv, OwnersInv
<1>11. PointersInv'
  <2>1. cursor # invalid
    BY DEF Read
  <2>2. next_message[cursor] # cursor /\ first_message # cursor
    BY <1>1, <2>1 DEF IInv, PointersInv
  <2>3. \A s \in Linked' : next_message[s] # cursor
    BY <1>6, <2>1 DEF IInv, PointersInv
  <2>4. first_message \in Linked' \cup {invalid} /\ cursor' \in Linked' \cup {invalid}
    BY <1>1, <1>3, <1>6, <2>2 DEF IInv, PointersInv
  <2>5. first_message = cursor' => cursor' = invalid
    BY <1>1, <1>3 DEF IInv, PointersInv
  <2>6. \A s \in Linked' : next_message[s] \in Linked' \cup {invalid}
    BY <1>6, <2>3 DEF IInv, PointersInv
  <2>7. \A s \in Linked' : next_message[s] = cursor' => cursor' = invalid
    BY <1>1, <1>3, <1>6 DEF IInv, PointersInv
  <2> QED
    BY <1>2, <1>6, <2>4, <2>5, <2>6, <2>7 DEF IInv, PointersInv
<1>12. MessagesInv'
  <2>1. \A i \in DOMAIN payloads : payloads[i] # m
    BY <1>1 DEF IInv, MessagesInv
  <2>2. \A s \in Linked' : payload[s] # m
    BY <1>1, <1>6 DEF IInv, MessagesInv
  <2>3. m \notin handled
    BY <1>1 DEF IInv, MessagesInv
  <2>4. \A i \in DOMAIN payloads' : \A s \in Linked' : payloads'[i] # payload'[s]
    BY <1>2, <1>6, <1>8, <2>2 DEF IInv, MessagesInv
  <2>5. \A i, j \in DOMAIN payloads' : payloads'[i] = payloads'[j] => i = j
    BY <1>8, <2>1 DEF IInv, MessagesInv
  <2>6. \A i \in DOMAIN payloads' : payloads'[i] \notin handled'
    BY <1>2, <1>8, <2>3 DEF IInv, MessagesInv
  <2> QED
    BY <1>2, <1>6, <2>4, <2>5, <2>6 DEF IInv, MessagesInv
<1> QED
  BY <1>9, <1>10, <1>11, <1>12

\* The first of the messages that were read is handled.
LEMMA HandleLists ==
    ASSUME IInv, Handle
    PROVE  /\ Head(payloads) \in Contents
           /\ Contents' = Contents \ {Head(payloads)}
           /\ handled' = handled \cup {Head(payloads)}
           /\ OwnersInv' /\ PointersInv' /\ MessagesInv'
<1> DEFINE m == Head(payloads)
<1>1. payloads # <<>> /\ payloads' = Tail(payloads) /\ handled' = handled \cup {m}
  BY DEF Handle
<1>2. UNCHANGED <<claimed, payload, next_message, first_message, cursor, pc, index>>
  BY DEF Handle, ring, client_vars
<1>3. Linked' = Linked /\ Preparing' = Preparing
  BY <1>2 DEF Linked, Preparing
<1>4. payloads \in Seq(Message)
  BY DEF IInv, TypeOK
<1>5. /\ m = payloads[1] /\ 1 \in DOMAIN payloads
      /\ \A i \in DOMAIN payloads' : /\ payloads'[i] = payloads[i + 1]
                                     /\ i + 1 \in DOMAIN payloads /\ i + 1 # 1
  BY <1>1, <1>4
<1>6. \A j \in DOMAIN payloads : j # 1 => j - 1 \in DOMAIN payloads' /\ payloads'[j - 1] = payloads[j]
  BY <1>1, <1>4
<1>7. \A s \in Linked : payload[s] # m
  BY <1>5 DEF IInv, MessagesInv
<1>8. \A i \in DOMAIN payloads' : payloads'[i] # m
  BY <1>5 DEF IInv, MessagesInv
<1>9. Contents' = Contents \ {m}
  <2>1. Contents' \subseteq Contents \ {m}
    BY <1>2, <1>3, <1>5, <1>7, <1>8 DEF Contents
  <2>2. Contents \ {m} \subseteq Contents'
    BY <1>2, <1>3, <1>5, <1>6 DEF Contents
  <2> QED
    BY <2>1, <2>2
<1>10. m \in Contents
  BY <1>5 DEF Contents
<1>11. OwnersInv' /\ PointersInv'
  BY <1>2, <1>3 DEF IInv, OwnersInv, PointersInv
<1>12. MessagesInv'
  <2>1. \A i, j \in DOMAIN payloads' : payloads'[i] = payloads'[j] => i = j
    <3>1. \A i \in DOMAIN payloads' : i \in Nat
      BY <1>1, <1>4
    <3> QED
      BY <1>5, <3>1 DEF IInv, MessagesInv
  <2>2. \A i \in DOMAIN payloads' : \A s \in Linked' : payloads'[i] # payload'[s]
    BY <1>2, <1>3, <1>5 DEF IInv, MessagesInv
  <2>3. \A s \in Linked' : payload'[s] \notin handled'
    BY <1>1, <1>2, <1>3, <1>7 DEF IInv, MessagesInv
  <2>4. \A i \in DOMAIN payloads' : payloads'[i] \notin handled'
    BY <1>1, <1>5, <1>8 DEF IInv, MessagesInv
  <2> QED
    BY <1>2, <1>3, <2>1, <2>2, <2>3, <2>4 DEF IInv, MessagesInv
<1> QED
  BY <1>1, <1>9, <1>10, <1>11, <1>12

------------------------------------------------------------------------------
(* Messages are new when they are linked.                                   *)

LEMMA KeepsFresh ==
    ASSUME IInv,
           UNCHANGED pushes,
           Contents' \cup handled' = Contents \cup handled,
           Posting' \subseteq Posting,
           \A d \in Client : pc'[d] # "idle" => pc[d] # "idle",
           \A d \in Client : pc'[d] \in {"aim", "link"} => payload'[index'[d]] = Current(d)
    PROVE  FreshInv'
<1>1. \A d \in Client : Current(d)' = Current(d)
  BY DEF Current
<1>2. \A d \in Client : pc'[d] # "idle" => pushes'[d] > 0
  BY DEF IInv, FreshInv
<1>3. \A d \in Client : pc'[d] \in {"aim", "link"} => payload'[index'[d]] = Current(d)'
  BY <1>1
<1>4. \A m \in Contents' \cup handled' : m[2] <= pushes'[m[1]]
  BY DEF IInv, FreshInv
<1>5. \A d \in Posting' : Current(d)' \notin Contents' \cup handled'
  BY <1>1 DEF IInv, FreshInv, Posting
<1> QED
  BY <1>2, <1>3, <1>4, <1>5 DEF FreshInv

LEMMA BeginFresh ==
    ASSUME IInv, NEW c \in Client, Begin(c)
    PROVE  FreshInv'
<1>1. Contents' = Contents /\ handled' = handled
  BY ClientIsQuiet, QuietKeepsLists DEF Quiet
<1>2. pc[c] = "idle" /\ pc' = [pc EXCEPT ![c] = "claim"] /\ pushes' = [pushes EXCEPT ![c] = @ + 1]
  BY DEF Begin, Step
<1>3. pc \in [Client -> Location] /\ pushes \in [Client -> 0 .. MaxPushes] /\ MaxPushes \in Nat
  BY RingAssumption DEF IInv, TypeOK
<1>4. \A d \in Client : pushes[d] \in Nat /\ pushes'[d] = IF d = c THEN pushes[d] + 1 ELSE pushes[d]
  BY <1>2, <1>3
<1>5. \A d \in Client : pc'[d] = IF d = c THEN "claim" ELSE pc[d]
  BY <1>2, <1>3
<1>6. \A m \in Contents \cup handled : m \in Message /\ m[1] \in Client /\ m[2] \in Nat
  BY <1>3, ContentsAreMessages DEF IInv, TypeOK, Message
<1>7. \A d \in Client : pc'[d] # "idle" => pushes'[d] > 0
  BY <1>4, <1>5 DEF IInv, FreshInv
<1>8. \A d \in Client : pc'[d] \in {"aim", "link"} => payload'[index'[d]] = Current(d)'
  <2> SUFFICES ASSUME NEW d \in Client, pc'[d] \in {"aim", "link"}
               PROVE  payload'[index'[d]] = Current(d)'
    OBVIOUS
  <2>1. d # c /\ pc[d] \in {"aim", "link"}
    BY <1>5
  <2>2. payload[index[d]] = Current(d)
    BY <2>1 DEF IInv, FreshInv
  <2>3. payload' = payload /\ index' = index
    BY DEF Begin, ring
  <2> QED
    BY <1>4, <2>1, <2>2, <2>3 DEF Current
<1>9. \A m \in Contents' \cup handled' : m[2] <= pushes'[m[1]]
  BY <1>1, <1>4, <1>6 DEF IInv, FreshInv
<1>10. \A d \in Posting' : Current(d)' \notin Contents' \cup handled'
  <2> SUFFICES ASSUME NEW d \in Client, d \in Posting' PROVE Current(d)' \notin Contents \cup handled
    BY <1>1 DEF Posting
  <2>1. CASE d = c
    <3>1. Current(c)' = <<c, pushes[c] + 1>>
      BY <1>4 DEF Current
    <3>2. \A m \in Contents \cup handled : m[1] = c => m[2] < pushes[c] + 1
      BY <1>4, <1>6 DEF IInv, FreshInv
    <3> QED
      BY <1>4, <2>1, <3>1, <3>2
  <2>2. CASE d # c
    BY <1>4, <1>5, <2>2 DEF IInv, FreshInv, Posting, Current
  <2> QED
    BY <2>1, <2>2
<1> QED
  BY <1>7, <1>8, <1>9, <1>10 DEF FreshInv

LEMMA CopyFresh ==
    ASSUME IInv, NEW c \in Client, Copy(c)
    PROVE  FreshInv'
<1>1. Contents' = Contents /\ handled' = handled
  BY ClientIsQuiet, QuietKeepsLists DEF Quiet
<1>2. \A d \in Client : pc'[d] = IF d = c THEN "aim" ELSE pc[d]
  BY DEF Copy, Step, IInv, TypeOK
<1>3. pc[c] = "copy" /\ index' = index /\ pushes' = pushes
  BY DEF Copy, Step
<1>4. c \in Preparing /\ index[c] \in Slot
  BY <1>3, OwnSlot DEF Preparing
<1>5. \A s \in Slot : payload'[s] = IF s = index[c] THEN Current(c) ELSE payload[s]
  BY <1>4 DEF Copy, IInv, TypeOK
<1>6. \A d \in Client : pc'[d] \in {"aim", "link"} => payload'[index'[d]] = Current(d)
  <2> SUFFICES ASSUME NEW d \in Client, d # c, pc[d] \in {"aim", "link"}
               PROVE  payload'[index[d]] = Current(d)
    BY <1>2, <1>3, <1>4, <1>5
  <2>1. d \in Preparing /\ index[d] \in Slot /\ index[d] # index[c]
    BY <1>4, OwnSlot DEF Preparing, IInv, OwnersInv
  <2> QED
    BY <1>5, <2>1 DEF IInv, FreshInv
<1> QED
  BY <1>1, <1>2, <1>3, <1>6, KeepsFresh DEF Posting

LEMMA LinkFresh ==
    ASSUME IInv, NEW c \in Client, Link(c), first_message = next_message[index[c]]
    PROVE  FreshInv'
<1>1. Contents' = Contents \cup {Current(c)} /\ Current(c) \in Message
  BY LinkLists
<1>2. pc[c] = "link" /\ \A d \in Client : pc'[d] = IF d = c THEN "hash" ELSE pc[d]
  BY DEF Link, Step, IInv, TypeOK
<1>3. UNCHANGED <<payload, index, pushes, handled>>
  BY DEF Link, reader_vars
<1>4. \A d \in Client : Current(d)' = Current(d)
  BY <1>3 DEF Current
<1>5. \A d \in Client : pc'[d] # "idle" => pushes'[d] > 0
  BY <1>2, <1>3 DEF IInv, FreshInv
<1>6. \A d \in Client : pc'[d] \in {"aim", "link"} => payload'[index'[d]] = Current(d)'
  BY <1>2, <1>3, <1>4 DEF IInv, FreshInv
<1>7. Current(c)[2] <= pushes[Current(c)[1]]
  <2>1. pushes[c] \in Nat
    BY RingAssumption DEF IInv, TypeOK
  <2> QED
    BY <2>1 DEF Current
<1>8. \A m \in Contents' \cup handled' : m[2] <= pushes'[m[1]]
  BY <1>1, <1>3, <1>7 DEF IInv, FreshInv
<1>9. \A d \in Posting' : Current(d)' \notin Contents' \cup handled'
  <2> SUFFICES ASSUME NEW d \in Posting, d # c PROVE Current(d) \notin Contents' \cup handled'
    BY <1>2, <1>4 DEF Posting
  <2>1. Current(d) # Current(c)
    BY DEF Current
  <2> QED
    BY <1>1, <1>3, <2>1 DEF IInv, FreshInv
<1> QED
  BY <1>5, <1>6, <1>8, <1>9 DEF FreshInv

\* The other steps post nothing.
LEMMA OtherFresh ==
    ASSUME IInv, Contents' \cup handled' = Contents \cup handled,
           \/ \E c \in Client : \/ Claim(c) \/ Aim(c) \/ Hash(c) \/ Store(c) \/ Signal(c)
                                \/ Die(c)
                                \/ Link(c) /\ first_message # next_message[index[c]]
           \/ Pull
    PROVE  FreshInv'
<1>1. UNCHANGED <<payload, pushes>>
  BY DEF Claim, Aim, Hash, Store, Signal, Die, Link, Pull, Wake, Detach, Read, Handle, Rest,
         ring, client_vars
<1>2. \A d \in Client : /\ pc'[d] # "idle" => pc[d] # "idle"
                        /\ d \in Posting' => d \in Posting
                        /\ pc'[d] \in {"aim", "link"} =>
                              (pc[d] \in {"aim", "link"} /\ index'[d] = index[d])
  <2> USE DEF Posting, Step, IInv, TypeOK
  <2>1. ASSUME NEW c \in Client, Claim(c) PROVE <1>2
    BY <2>1 DEF Claim
  <2>2. ASSUME NEW c \in Client, Aim(c) \/ Hash(c) \/ Store(c) PROVE <1>2
    BY <2>2 DEF Aim, Hash, Store
  <2>3. ASSUME NEW c \in Client, Signal(c) PROVE <1>2
    BY <2>3 DEF Signal
  <2>4. ASSUME NEW c \in Client, Link(c), first_message # next_message[index[c]] PROVE <1>2
    BY <2>4 DEF Link
  <2>5. ASSUME Pull \/ \E c \in Client : Die(c) PROVE <1>2
    BY <2>5 DEF Pull, Wake, Detach, Read, Handle, Rest, Die, client_vars
  <2> QED
    BY <2>1, <2>2, <2>3, <2>4, <2>5
<1>3. \A d \in Client : pc'[d] \in {"aim", "link"} => payload'[index'[d]] = Current(d)
  BY <1>1, <1>2 DEF IInv, FreshInv
<1>4. Posting' \subseteq Posting
  BY <1>2 DEF Posting
<1> QED
  BY <1>1, <1>2, <1>3, <1>4, KeepsFresh

------------------------------------------------------------------------------
(* The invariant is inductive, and each step is one of Mailbox.             *)

LEMMA ReaderInductive ==
    ASSUME IInv, Next
    PROVE  ReaderInv'
<1> USE DEF IInv, ReaderInv
<1>1. CASE \E c \in Client : Begin(c) \/ Push(c) \/ Die(c)
  BY <1>1 DEF Push, Begin, Claim, Copy, Aim, Link, Hash, Store, Signal, Die, reader_vars
<1>2. CASE Pull
  BY <1>2 DEF Pull, Wake, Detach, Read, Handle, Rest
<1> QED
  BY <1>1, <1>2 DEF Next

LEMMA InitIInv ==
    ASSUME Init
    PROVE  IInv /\ Contents = {} /\ handled = {}
<1> USE DEF Init
<1>1. Linked = {} /\ Preparing = {} /\ Posting = {}
  BY DEF Linked, Preparing, Posting
<1>2. payloads = <<>> /\ DOMAIN payloads = {}
  OBVIOUS
<1>3. Contents = {} /\ handled = {}
  BY <1>1, <1>2 DEF Contents
<1>4. TypeOK
  <2>1. next_message \in [Slot -> Index]
    <3>1. PICK i \in Slot : next_message = [s \in Slot |-> i]
      OBVIOUS
    <3> QED
      BY <3>1 DEF Index
  <2>2. /\ NoDigest \in Digest
        /\ digest \in [Slot -> Digest]
        /\ computed \in [Client -> Digest]
    BY DEF Digest
  <2>3. pushes \in [Client -> 0 .. MaxPushes]
    <3>1. 0 \in 0 .. MaxPushes
      BY RingAssumption
    <3> QED
      BY <3>1
  <2>4. /\ claimed \in [Slot -> BOOLEAN]
        /\ payload \in [Slot -> Message \cup {NoMessage}]
        /\ first_message \in Index
        /\ signaled \in BOOLEAN
        /\ pc \in [Client -> Location]
        /\ index \in [Client -> Index]
    BY DEF Index, Location
  <2>5. /\ dead \in SUBSET Client
        /\ reader \in {"wait", "detach", "read"}
        /\ cursor \in Index
        /\ handled \in SUBSET Message
    BY DEF Index
  <2>6. payloads \in Seq(Message)
    BY <1>2
  <2>7. \A c \in Client : pc[c] \notin {"idle", "claim"} => index[c] \in Slot
    OBVIOUS
  <2> QED
    BY <2>1, <2>2, <2>3, <2>4, <2>5, <2>6, <2>7 DEF TypeOK
<1>5. ReaderInv /\ OwnersInv /\ PointersInv /\ MessagesInv
  BY <1>1, <1>2, <1>3 DEF ReaderInv, OwnersInv, PointersInv, MessagesInv
<1>6. FreshInv
  BY <1>1, <1>3 DEF FreshInv
<1> QED
  BY <1>3, <1>4, <1>5, <1>6 DEF IInv

\* What a step does to the messages.
Stutters == Contents' = Contents /\ handled' = handled

Posts(m) ==
    /\ m \in Message /\ m \notin Contents \cup handled
    /\ Contents' = Contents \cup {m} /\ handled' = handled

Handles(m) ==
    /\ m \in Message /\ m \in Contents
    /\ Contents' = Contents \ {m} /\ handled' = handled \cup {m}

LEMMA StepOfClient ==
    ASSUME IInv, NEW c \in Client, Begin(c) \/ Push(c) \/ Die(c)
    PROVE  /\ OwnersInv' /\ PointersInv' /\ MessagesInv' /\ FreshInv'
           /\ Stutters \/ Posts(Current(c))
<1>1. handled' = handled
  BY DEF Begin, Push, Claim, Copy, Aim, Link, Hash, Store, Signal, Die, reader_vars
<1>2. CASE Begin(c)
  BY <1>1, <1>2, ClientIsQuiet, QuietKeepsLists, BeginFresh DEF Stutters
<1>3. CASE Copy(c)
  BY <1>1, <1>3, ClientIsQuiet, QuietKeepsLists, CopyFresh DEF Stutters
<1>4. CASE Aim(c) \/ Hash(c) \/ Store(c) \/ Signal(c) \/ Die(c)
  <2>1. /\ OwnersInv' /\ PointersInv' /\ MessagesInv' /\ Contents' = Contents
    BY <1>4, ClientIsQuiet, QuietKeepsLists
  <2> QED
    BY <1>1, <1>4, <2>1, OtherFresh DEF Stutters
<1>5. CASE Claim(c)
  BY <1>1, <1>5, ClaimLists, OtherFresh DEF Stutters
<1>6. CASE Link(c) /\ first_message = next_message[index[c]]
  BY <1>1, <1>6, LinkLists, LinkFresh DEF Posts
<1>7. CASE Link(c) /\ first_message # next_message[index[c]]
  BY <1>1, <1>7, FailedLinkIsQuiet, QuietKeepsLists, OtherFresh DEF Stutters
<1> QED
  BY <1>2, <1>3, <1>4, <1>5, <1>6, <1>7 DEF Push

LEMMA StepOfReader ==
    ASSUME IInv, Pull
    PROVE  /\ OwnersInv' /\ PointersInv' /\ MessagesInv' /\ FreshInv'
           /\ Stutters \/ Handles(Head(payloads))
<1>1. CASE Wake \/ Rest
  <2>1. /\ OwnersInv' /\ PointersInv' /\ MessagesInv' /\ Contents' = Contents
        /\ handled' = handled
    BY <1>1, ReaderIsQuiet, QuietKeepsLists DEF Quiet
  <2> QED
    BY <2>1, OtherFresh DEF Stutters
<1>2. CASE Detach
  <2>1. handled' = handled
    BY <1>2 DEF Detach
  <2> QED
    BY <1>2, <2>1, DetachLists, OtherFresh DEF Stutters
<1>3. CASE Read
  <2>1. handled' = handled
    BY <1>3 DEF Read
  <2> QED
    BY <1>3, <2>1, ReadLists, OtherFresh DEF Stutters
<1>4. CASE Handle
  <2>1. Contents' \cup handled' = Contents \cup handled
    BY <1>4, HandleLists
  <2>2. Head(payloads) \in Message
    BY <1>4, HandleLists, ContentsAreMessages DEF IInv
  <2> QED
    BY <1>4, <2>1, <2>2, HandleLists, OtherFresh DEF Handles
<1> QED
  BY <1>1, <1>2, <1>3, <1>4 DEF Pull

LEMMA StepIInv ==
    ASSUME IInv, [Next]_vars
    PROVE  IInv' /\ (Stutters \/ \E m \in Message : Posts(m) \/ Handles(m))
<1>1. CASE Next
  <2>1. TypeOK' /\ ReaderInv'
    BY <1>1, TypeInductive, ReaderInductive
  <2>2. CASE \E c \in Client : Begin(c) \/ Push(c) \/ Die(c)
    BY <2>1, <2>2, StepOfClient DEF IInv, Posts
  <2>3. CASE Pull
    BY <2>1, <2>3, StepOfReader DEF IInv, Handles
  <2> QED
    BY <1>1, <2>2, <2>3 DEF Next
<1>2. CASE UNCHANGED vars
  <2> USE <1>2 DEF vars, ring, client_vars, reader_vars
  <2>1. Linked' = Linked /\ Preparing' = Preparing /\ Posting' = Posting
    BY DEF Linked, Preparing, Posting
  <2>2. Contents' = Contents
    BY <2>1 DEF Contents
  <2>3. TypeOK' /\ ReaderInv'
    BY DEF IInv, TypeOK, ReaderInv
  <2>4. OwnersInv' /\ PointersInv' /\ MessagesInv'
    BY <2>1 DEF IInv, OwnersInv, PointersInv, MessagesInv
  <2>5. FreshInv'
    BY <2>1, <2>2 DEF IInv, FreshInv, Current
  <2> QED
    BY <2>2, <2>3, <2>4, <2>5 DEF IInv, Stutters
<1> QED
  BY <1>1, <1>2

LEMMA IInvHolds == Spec => []IInv
<1>1. Init => IInv
  BY InitIInv
<1>2. IInv /\ [Next]_vars => IInv'
  BY StepIInv
<1> QED
  BY <1>1, <1>2, PTL DEF Spec

------------------------------------------------------------------------------
(* The lists, followed from their heads.                                    *)

LEMMA ChainLeast ==
    ASSUME NEW next, NEW i, NEW S \in SUBSET Slot, {i} \ {invalid} \subseteq S, Closed(next, S)
    PROVE  Chain(next, i) \subseteq S
  BY DEF Chain

LEMMA ChainCloses ==
    ASSUME NEW next \in [Slot -> Index], NEW i \in Index
    PROVE  /\ Chain(next, i) \in SUBSET Slot
           /\ {i} \ {invalid} \subseteq Chain(next, i)
           /\ Closed(next, Chain(next, i))
<1>1. Chain(next, i) \in SUBSET Slot
  BY DEF Chain
<1>2. {i} \ {invalid} \subseteq Chain(next, i)
  BY DEF Chain, Index
<1>3. ASSUME NEW s \in Chain(next, i), next[s] # invalid
      PROVE  next[s] \in Chain(next, i)
  <2>1. s \in Slot /\ next[s] \in Slot
    BY <1>1, <1>3 DEF Index
  <2>2. ASSUME NEW S \in SUBSET Slot, {i} \ {invalid} \subseteq S, Closed(next, S)
        PROVE  next[s] \in S
    BY <1>3, <2>2 DEF Chain, Closed
  <2> QED
    BY <2>1, <2>2 DEF Chain
<1> QED
  BY <1>1, <1>2, <1>3 DEF Closed

\* A list is its first slot and the list that follows it.
LEMMA ChainUnfolds ==
    ASSUME NEW next \in [Slot -> Index], NEW i \in Slot
    PROVE  Chain(next, i) = {i} \cup Chain(next, next[i])
<1>1. i \in Index /\ next[i] \in Index /\ i # invalid
  BY RingAssumption DEF Index
<1>2. Chain(next, i) \subseteq {i} \cup Chain(next, next[i])
  <2>1. Closed(next, {i} \cup Chain(next, next[i]))
    BY <1>1, ChainCloses DEF Closed
  <2>2. {i} \cup Chain(next, next[i]) \in SUBSET Slot
    BY <1>1, ChainCloses
  <2> QED
    BY <2>1, <2>2, ChainLeast
<1>3. {next[i]} \ {invalid} \subseteq Chain(next, i)
  BY <1>1, ChainCloses DEF Closed
<1>4. Chain(next, next[i]) \subseteq Chain(next, i)
  BY <1>1, <1>3, ChainCloses, ChainLeast
<1> QED
  BY <1>1, <1>2, <1>4, ChainCloses

LEMMA ChainOfNothing ==
    ASSUME NEW next
    PROVE  Chain(next, invalid) = {}
<1>1. Closed(next, {})
  BY DEF Closed
<1> QED
  BY <1>1, ChainLeast

\* A list is the same when its slots lead where they led.
LEMMA ChainSame ==
    ASSUME NEW next \in [Slot -> Index], NEW next2 \in [Slot -> Index], NEW i \in Index,
           \A s \in Chain(next, i) : next2[s] = next[s]
    PROVE  Chain(next2, i) = Chain(next, i)
<1>1. Closed(next2, Chain(next, i))
  BY ChainCloses DEF Closed
<1>2. Chain(next2, i) \subseteq Chain(next, i)
  BY <1>1, ChainCloses, ChainLeast
<1>3. Closed(next, Chain(next2, i))
  BY <1>2, ChainCloses DEF Closed
<1> QED
  BY <1>2, <1>3, ChainCloses, ChainLeast

\* Both lists are within what is linked.
LEMMA ChainsAreLinked ==
    ASSUME IInv
    PROVE  /\ Chain(next_message, first_message) \subseteq Linked
           /\ Chain(next_message, cursor) \subseteq Linked
<1>1. Linked \in SUBSET Slot /\ Closed(next_message, Linked)
  BY DEF IInv, PointersInv, Closed, Linked
<1> QED
  BY <1>1, ChainLeast DEF IInv, PointersInv

\* What a step that moves no slot does to the lists.
LEMMA UnmovedLists ==
    ASSUME IInv, TypeOK', ListsAreWhole, Linked' = Linked, OwnersInv',
           UNCHANGED <<first_message, cursor>>,
           \A s \in Linked : next_message'[s] = next_message[s]
    PROVE  ListsAreWhole'
<1>1. /\ next_message \in [Slot -> Index] /\ next_message' \in [Slot -> Index]
      /\ first_message \in Index /\ cursor \in Index
  BY DEF IInv, TypeOK
<1>2. /\ Chain(next_message', first_message) = Chain(next_message, first_message)
      /\ Chain(next_message', cursor) = Chain(next_message, cursor)
  BY <1>1, ChainSame, ChainsAreLinked
<1>3. \A c, d \in Preparing' : c # d => index'[c] # index'[d]
  BY DEF OwnersInv
<1>4. Ends(next_message', Linked)
  BY DEF ListsAreWhole, Ends
<1> QED
  BY <1>2, <1>3, <1>4 DEF ListsAreWhole

\* A slot put in front of a list that ends makes a list that ends.
LEMMA EndsInFront ==
    ASSUME NEW next, NEW S, NEW i, Ends(next, S), i \notin S, next[i] # i,
           \A s \in S : next[s] # i
    PROVE  Ends(next, S \cup {i})
<1> SUFFICES ASSUME NEW T \in SUBSET (S \cup {i}), T # {}
             PROVE  \E s \in T : next[s] \notin T
  BY DEF Ends
<1>1. CASE T \ {i} = {}
  BY <1>1
<1>2. CASE T \ {i} # {}
  <2>1. PICK s \in T \ {i} : next[s] \notin T \ {i}
    BY <1>2 DEF Ends
  <2> QED
    BY <2>1
<1> QED
  BY <1>1, <1>2

LEMMA LinkWhole ==
    ASSUME IInv, ListsAreWhole, NEW c \in Client, Link(c),
           first_message = next_message[index[c]]
    PROVE  ListsAreWhole'
<1> DEFINE i == index[c]
<1>1. c \in Preparing
  BY DEF Link, Step, Preparing
<1>2. i \in Slot /\ i \notin Linked
  BY <1>1, OwnSlot
<1>3. first_message' = i /\ next_message' = next_message /\ cursor' = cursor
  BY DEF Link, reader_vars
<1>4. Linked' = Linked \cup {i} /\ OwnersInv'
  BY LinkLists
<1>5. Chain(next_message, i) = {i} \cup Chain(next_message, first_message)
  BY <1>2, ChainUnfolds DEF IInv, TypeOK
<1>6. i \notin Chain(next_message, cursor)
  BY <1>2, ChainsAreLinked
<1>7. \A d, e \in Preparing' : d # e => index'[d] # index'[e]
  BY <1>4 DEF OwnersInv
<1>8. \A s \in Linked \cup {i} : next_message[s] # i
  BY <1>2, RingAssumption DEF Link, IInv, PointersInv
<1>9. Ends(next_message, Linked \cup {i})
  BY <1>2, <1>8, EndsInFront DEF ListsAreWhole
<1> QED
  BY <1>3, <1>4, <1>5, <1>6, <1>7, <1>9 DEF ListsAreWhole

LEMMA DetachWhole ==
    ASSUME IInv, ListsAreWhole, Detach
    PROVE  ListsAreWhole'
<1>1. cursor = invalid /\ cursor' = first_message /\ first_message' = invalid
  BY DEF Detach, IInv, ReaderInv
<1>2. UNCHANGED <<claimed, next_message, pc, index>>
  BY DEF Detach, client_vars
<1>3. Linked' = Linked /\ Preparing' = Preparing
  BY <1>2 DEF Linked, Preparing
<1> QED
  BY <1>1, <1>2, <1>3, ChainOfNothing DEF ListsAreWhole

LEMMA ReadWhole ==
    ASSUME IInv, ListsAreWhole, Read
    PROVE  ListsAreWhole'
<1> DEFINE rest == Chain(next_message, next_message[cursor])
<1>1. cursor \in Linked /\ cursor \in Slot /\ cursor # invalid
  BY DEF Read, IInv, PointersInv, Linked
<1>2. cursor' = next_message[cursor]
  BY DEF Read
<1>3. UNCHANGED <<next_message, first_message, pc, index>>
  BY DEF Read, client_vars
<1>4. Linked' = Linked \ {cursor}
  <2>1. \A s \in Slot : claimed'[s] = (claimed[s] /\ s # cursor)
    BY DEF Read, IInv, TypeOK
  <2> QED
    BY <1>3, <2>1 DEF Linked, Preparing
<1>5. Chain(next_message, cursor) = {cursor} \cup rest
  BY <1>1, ChainUnfolds DEF IInv, TypeOK
<1>6. cursor \notin rest
  <2> DEFINE S == Linked \ {cursor}
  <2>1. S \in SUBSET Slot
    BY DEF Linked
  <2>2. \A s \in Linked : next_message[s] \in S \cup {invalid}
    BY <1>1 DEF IInv, PointersInv
  <2>3. Closed(next_message, S) /\ {next_message[cursor]} \ {invalid} \subseteq S
    BY <1>1, <2>2 DEF Closed
  <2> QED
    BY <2>1, <2>3, ChainLeast
<1>7. \A c, d \in Preparing' : c # d => index'[c] # index'[d]
  BY ReadLists DEF OwnersInv
<1>8. Ends(next_message, Linked \ {cursor})
  BY DEF ListsAreWhole, Ends
<1> QED
  BY <1>2, <1>3, <1>4, <1>5, <1>6, <1>7, <1>8 DEF ListsAreWhole

LEMMA StepWhole ==
    ASSUME IInv, ListsAreWhole, [Next]_vars
    PROVE  ListsAreWhole'
<1>0. IInv' /\ TypeOK' /\ OwnersInv'
  BY StepIInv DEF IInv
<1>1. CASE Quiet
  BY <1>0, <1>1, QuietKeepsLists, UnmovedLists DEF Quiet
<1>2. ASSUME NEW c \in Client, Claim(c) PROVE ListsAreWhole'
  BY <1>0, <1>2, ClaimLists, UnmovedLists DEF Claim, reader_vars
<1>3. ASSUME NEW c \in Client, Link(c) PROVE ListsAreWhole'
  <2>1. CASE first_message = next_message[index[c]]
    BY <1>3, <2>1, LinkWhole
  <2>2. CASE first_message # next_message[index[c]]
    BY <1>1, <1>3, <2>2, FailedLinkIsQuiet
  <2> QED
    BY <2>1, <2>2
<1>4. CASE Handle
  <2>1. UNCHANGED <<claimed, next_message, first_message, cursor, pc, index>>
    BY <1>4 DEF Handle, ring, client_vars
  <2>2. Linked' = Linked
    BY <2>1 DEF Linked, Preparing
  <2> QED
    BY <1>0, <2>1, <2>2, UnmovedLists
<1>5. CASE UNCHANGED vars
  BY <1>1, <1>5 DEF vars, ring, client_vars, reader_vars, Quiet, Preparing
<1> QED
  BY <1>1, <1>2, <1>3, <1>4, <1>5, ClientIsQuiet, ReaderIsQuiet, DetachWhole, ReadWhole
     DEF Next, Push, Pull

------------------------------------------------------------------------------
(* Digests.                                                                 *)

\* A client that is about to store a digest computed it from what its slot holds,
\* and a linked slot has its digest or a client that is going to store it.
DigestInv ==
    /\ \A c \in Client : pc[c] = "store" => computed[c] = Md5Of(index[c])
    /\ Unsettled \subseteq {index[c] : c \in Digesting}

\* A step that stores no digest, writes to no slot that is linked or that a client
\* has linked and not finished with, and links no slot but for such a client.
Settled ==
    /\ UNCHANGED <<digest, computed>>
    /\ \A c \in Client : pc'[c] = "store" => pc[c] = "store"
    /\ \A c \in Digesting : /\ c \in Digesting' /\ index'[c] = index[c]
                            /\ next_message'[index[c]] = next_message[index[c]]
                            /\ payload'[index[c]] = payload[index[c]]
    /\ \A s \in Linked : next_message'[s] = next_message[s] /\ payload'[s] = payload[s]
    /\ Linked' \subseteq Linked \cup {index'[c] : c \in Digesting'}

LEMMA SettledKeepsDigests ==
    ASSUME DigestInv, Settled
    PROVE  DigestInv'
<1>1. \A c \in Client : pc'[c] = "store" => computed'[c] = Md5Of(index[c])'
  BY DEF DigestInv, Settled, Digesting, Md5Of
<1>2. \A s \in Linked : digest'[s] = digest[s] /\ Md5Of(s)' = Md5Of(s)
  BY DEF Settled, Md5Of
<1>3. {index[c] : c \in Digesting} \subseteq {index'[c] : c \in Digesting'}
  BY DEF Settled
<1>4. Unsettled' \subseteq {index'[c] : c \in Digesting'}
  BY <1>2, <1>3 DEF DigestInv, Settled, Unsettled
<1> QED
  BY <1>1, <1>4 DEF DigestInv, Md5Of, Settled, Digesting

\* A client that nobody shares a slot with writes only to that.
LEMMA PreparingSettles ==
    ASSUME IInv, ~Overtaken, NEW c \in Client, Copy(c) \/ Aim(c)
    PROVE  Settled
<1>1. Quiet /\ Linked' = Linked
  BY ClientIsQuiet, QuietKeepsLists
<1>2. pc[c] \in {"copy", "aim"} /\ pc'[c] \in {"aim", "link"}
      /\ \A d \in Client : d # c => pc'[d] = pc[d]
  BY DEF Copy, Aim, Step, IInv, TypeOK
<1>3. \A d \in Digesting : d # c /\ index[d] # index[c] /\ index[d] \in Slot
  BY <1>2 DEF Digesting, Overtaken, IInv, TypeOK
<1>4. UNCHANGED <<digest, computed, index>>
  BY DEF Copy, Aim
<1>5. \A s \in Slot : s # index[c] => next_message'[s] = next_message[s] /\ payload'[s] = payload[s]
  BY DEF Copy, Aim, IInv, TypeOK
<1> QED
  BY <1>1, <1>2, <1>3, <1>4, <1>5 DEF Settled, Quiet, Digesting

LEMMA OthersSettle ==
    ASSUME IInv,
           \/ \E c \in Client : Begin(c) \/ Claim(c) \/ Link(c) \/ Signal(c) \/ Die(c)
           \/ Pull
           \/ UNCHANGED vars
    PROVE  Settled
<1> USE DEF Settled, Digesting
<1>1. ASSUME NEW c \in Client, Begin(c) \/ Signal(c) \/ Die(c) PROVE Settled
  <2>1. Linked' = Linked
    BY <1>1, ClientIsQuiet, QuietKeepsLists
  <2> QED
    BY <1>1, <2>1 DEF Begin, Signal, Die, Step, ring, IInv, TypeOK
<1>2. ASSUME NEW c \in Client, Claim(c) PROVE Settled
  <2>1. Linked' = Linked
    BY <1>2, ClaimLists
  <2> QED
    BY <1>2, <2>1 DEF Claim, Step, IInv, TypeOK
<1>3. ASSUME NEW c \in Client, Link(c) PROVE Settled
  <2>1. UNCHANGED <<payload, next_message, digest, computed, index>>
    BY <1>3 DEF Link
  <2>2. pc[c] = "link" /\ pc'[c] \in {"hash", "aim"}
        /\ \A d \in Client : d # c => pc'[d] = pc[d]
    BY <1>3 DEF Link, Step, IInv, TypeOK
  <2>3. CASE first_message = next_message[index[c]]
    <3>1. Linked' = Linked \cup {index[c]}
      BY <1>3, <2>3, LinkLists
    <3>2. c \in Digesting'
      BY <1>3, <2>3 DEF Link, Step, IInv, TypeOK
    <3> QED
      BY <2>1, <2>2, <3>1, <3>2
  <2>4. CASE first_message # next_message[index[c]]
    <3>1. Linked' = Linked
      BY <1>3, <2>4, FailedLinkIsQuiet, QuietKeepsLists
    <3> QED
      BY <2>1, <2>2, <3>1
  <2> QED
    BY <2>3, <2>4
<1>4. CASE Pull
  <2>1. UNCHANGED <<payload, next_message, digest, computed, pc, index>>
    BY <1>4 DEF Pull, Wake, Detach, Read, Handle, Rest, ring, client_vars
  <2>2. \A s \in Slot : claimed'[s] => claimed[s]
    BY <1>4 DEF Pull, Wake, Detach, Read, Handle, Rest, ring, IInv, TypeOK
  <2>3. Linked' \subseteq Linked
    BY <2>1, <2>2 DEF Linked, Preparing
  <2> QED
    BY <2>1, <2>3
<1>5. CASE UNCHANGED vars
  BY <1>5 DEF vars, ring, client_vars, Linked, Preparing
<1> QED
  BY <1>1, <1>2, <1>3, <1>4, <1>5

LEMMA HashDigests ==
    ASSUME IInv, DigestInv, NEW c \in Client, Hash(c)
    PROVE  DigestInv'
<1>1. Linked' = Linked
  BY ClientIsQuiet, QuietKeepsLists
<1>2. UNCHANGED <<payload, next_message, digest, index>>
  BY DEF Hash, ring
<1>3. pc[c] = "hash" /\ \A d \in Client : pc'[d] = IF d = c THEN "store" ELSE pc[d]
  BY DEF Hash, Step, IInv, TypeOK
<1>4. \A d \in Client : computed'[d] = IF d = c THEN Md5Of(index[c]) ELSE computed[d]
  BY DEF Hash, IInv, TypeOK
<1>5. Digesting' = Digesting
  BY <1>3 DEF Digesting
<1>6. \A s : Md5Of(s)' = Md5Of(s)
  BY <1>2 DEF Md5Of
<1>7. Unsettled' \subseteq {index'[d] : d \in Digesting'}
  BY <1>1, <1>2, <1>5, <1>6 DEF DigestInv, Unsettled
<1>8. \A d \in Client : pc'[d] = "store" => computed'[d] = Md5Of(index[d])
  BY <1>3, <1>4 DEF DigestInv
<1> QED
  BY <1>2, <1>7, <1>8 DEF DigestInv, Md5Of

LEMMA StoreDigests ==
    ASSUME IInv, DigestInv, NEW c \in Client, Store(c)
    PROVE  DigestInv'
<1>1. Linked' = Linked
  BY ClientIsQuiet, QuietKeepsLists
<1>2. UNCHANGED <<payload, next_message, computed, index>>
  BY DEF Store
<1>3. pc[c] = "store" /\ \A d \in Client : pc'[d] = IF d = c THEN "signal" ELSE pc[d]
  BY DEF Store, Step, IInv, TypeOK
<1>4. index[c] \in Slot
  BY <1>3 DEF IInv, TypeOK
<1>5. \A s \in Slot : digest'[s] = IF s = index[c] THEN computed[c] ELSE digest[s]
  BY <1>4 DEF Store, IInv, TypeOK
<1>6. \A s : Md5Of(s)' = Md5Of(s)
  BY <1>2 DEF Md5Of
<1>7. Digesting' = Digesting \ {c}
  BY <1>3 DEF Digesting
<1>8. computed[c] = Md5Of(index[c])
  BY <1>3 DEF DigestInv
<1>9. Unsettled' \subseteq Unsettled \ {index[c]}
  BY <1>1, <1>5, <1>6, <1>8 DEF Unsettled, Linked
<1>10. Unsettled' \subseteq {index'[d] : d \in Digesting'}
  BY <1>2, <1>7, <1>9 DEF DigestInv
<1>11. \A d \in Client : pc'[d] = "store" => computed'[d] = Md5Of(index[d])
  BY <1>2, <1>3 DEF DigestInv
<1> QED
  BY <1>2, <1>10, <1>11 DEF DigestInv, Md5Of

LEMMA DigestStep ==
    ASSUME IInv, DigestInv, ~Overtaken, [Next]_vars
    PROVE  DigestInv'
<1>1. ASSUME NEW c \in Client, Begin(c) \/ Push(c) \/ Die(c) PROVE DigestInv'
  <2>1. CASE Copy(c) \/ Aim(c)
    BY <2>1, PreparingSettles, SettledKeepsDigests
  <2>2. CASE Begin(c) \/ Claim(c) \/ Link(c) \/ Signal(c) \/ Die(c)
    BY <2>2, OthersSettle, SettledKeepsDigests
  <2> QED
    BY <1>1, <2>1, <2>2, HashDigests, StoreDigests DEF Push
<1>2. CASE Pull \/ UNCHANGED vars
  BY <1>2, OthersSettle, SettledKeepsDigests
<1> QED
  BY <1>1, <1>2 DEF Next

------------------------------------------------------------------------------
(* What holds.                                                              *)

\* The ring has its type: in particular a client never leaves the scan of
\* push_new_message without a slot, and a message that is read is one that was
\* pushed, not what the cleared block held.
THEOREM TypeCorrect == Spec => []TypeOK
<1>1. IInv => TypeOK
  BY DEF IInv
<1> QED
  BY <1>1, IInvHolds, PTL

\* Whatever clients do and wherever they die, the steps of push_new_message and
\* pull_messages lose no message that was linked, handle none twice, and handle
\* each as it was pushed.
THEOREM RingImplementsMailbox == Spec => ImplementsMailbox
<1>1. Init => Box!Init
  BY InitIInv DEF Box!Init
<1>2. IInv /\ [Next]_vars => [Box!Next]_<<Contents, handled>>
  <2> SUFFICES ASSUME IInv, [Next]_vars PROVE [Box!Next]_<<Contents, handled>>
    OBVIOUS
  <2>1. CASE Stutters
    BY <2>1 DEF Stutters
  <2>2. ASSUME NEW m \in Message, Posts(m) PROVE Box!Next
    BY <2>2 DEF Posts, Box!Next, Box!Post
  <2>3. ASSUME NEW m \in Message, Handles(m) PROVE Box!Next
    BY <2>3 DEF Handles, Box!Next, Box!Handle
  <2> QED
    BY <2>1, <2>2, <2>3, StepIInv
<1> QED
  BY <1>1, <1>2, IInvHolds, PTL DEF Spec, ImplementsMailbox, Box!Spec

\* The compare-and-swap of the head, the exchange of it and the one thread that
\* frees slots keep the lists whole, however the clients and the reader interleave
\* and wherever a client dies: no slot is lost from a list, none is in two, and no
\* slots lead only to one another, so that who follows a list comes to its end.
THEOREM ListsStayWhole == Spec => []ListsAreWhole
<1>1. Init => ListsAreWhole
  <2> SUFFICES ASSUME Init PROVE ListsAreWhole
    OBVIOUS
  <2>1. Linked = {} /\ Preparing = {}
    BY DEF Init, Linked, Preparing
  <2> QED
    BY <2>1, ChainOfNothing DEF Init, ListsAreWhole, Ends
<1>2. IInv /\ ListsAreWhole /\ [Next]_vars => ListsAreWhole'
  BY StepWhole
<1> QED
  BY <1>1, <1>2, IInvHolds, PTL DEF Spec

\* The digest that the reader waits for is on its way, or it is never right: the
\* store of a digest after the link (push_new_message) races with the reader and
\* with nobody else, until a client is overtaken.
THEOREM ReaderWaitsForAWriter == Spec => MismatchesHaveAWriter
<1>1. Init => DigestInv
  BY DEF Init, DigestInv, Unsettled, Linked
<1>2. IInv /\ DigestInv /\ ~Overtaken /\ [Next]_vars => DigestInv'
  BY DigestStep
<1>3. DigestInv => Unsettled \subseteq {index[c] : c \in Digesting}
  BY DEF DigestInv
<1> QED
  BY <1>1, <1>2, <1>3, IInvHolds, PTL DEF Spec, MismatchesHaveAWriter
==============================================================================
