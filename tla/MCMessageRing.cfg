\* Two slots, two clients of two equal messages each; one client may die.
SPECIFICATION Spec
CONSTANTS
    c1 = c1
    c2 = c2
    Client = {c1, c2}
    Slot = {0, 1}
    invalid = invalid
    Bytes = {c1, c2}
    BytesOf <- MCBytesOf
    MaxPushes = 2
    NoMessage = NoMessage
    Mortal = {c1}
INVARIANTS
    TypeOK
    ListsAreWhole
PROPERTIES
    ImplementsMailbox
    MismatchesHaveAWriter
    PushesAreHandled
\* Every client may have pushed its messages, or the reader may wait for a
\* client that died.
CHECK_DEADLOCK FALSE
