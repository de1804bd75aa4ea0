------------------------------- MODULE Mailbox -------------------------------
(***************************************************************************)
(* What the shared-memory ring promises its two sides (IpcStructures.h):    *)
(* a message that was posted is handled once, whole, and nothing else is     *)
(* handled.  The order in which messages are handled is not promised.        *)
(***************************************************************************)
CONSTANT Message        \* the messages that can be posted

VARIABLES
    box,                \* posted and not yet handled
    handled             \* handled so far

Init == box = {} /\ handled = {}

Post(m) ==
    /\ m \notin box \cup handled
    /\ box' = box \cup {m}
    /\ UNCHANGED handled

Handle(m) ==
    /\ m \in box
    /\ box' = box \ {m}
    /\ handled' = handled \cup {m}

Next == \E m \in Message : Post(m) \/ Handle(m)

Spec == Init /\ [][Next]_<<box, handled>>
==============================================================================
