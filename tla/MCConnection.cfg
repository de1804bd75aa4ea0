\* Three processes and as many events; the ring of one may fail to open and it
\* may end, and the service may restart once (then with two processes).
SPECIFICATION Spec
CONSTANTS
    p1 = p1
    p2 = p2
    p3 = p3
    e1 = e1
    e2 = e2
    e3 = e3
    Process = {p1, p2, p3}
    Event = {e1, e2, e3}
    NoEvent = NoEvent
    NoProcess = NoProcess
    Unopenable = {p1}
    Mortal = {p1}
    MaxRestarts = 1
CONSTRAINT MCConstraint
INVARIANTS
    TypeOK
    EventsHaveOneOwner
    HookedMeansConnected
    WaitsAreForThemselves
    UnexpectedConnection
    UnexpectedConfirmation
    ConnectionsAreUnderWay
PROPERTIES
    EveryConnectionIsDecided
\* Every process may have been hooked.
CHECK_DEADLOCK FALSE
