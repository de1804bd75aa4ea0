\* The same ring, nobody dies: is every message handled?
SPECIFICATION Spec
CONSTANTS
    c1 = c1
    c2 = c2
    Client = {c1, c2}
    Slot = {0, 1}
    invalid = invalid
    Bytes = {c1, c2}
    BytesOf <- MCBytesOf
    MaxPushes = 2
    NoMessage = NoMessage
    Mortal = {}
PROPERTIES
    EveryPushIsHandled
\* Every client may have pushed its messages.
CHECK_DEADLOCK FALSE
