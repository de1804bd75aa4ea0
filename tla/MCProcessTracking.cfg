\* With the driver and without; the hooking of one process may fail by an
\* exception.
SPECIFICATION Spec
CONSTANTS
    p1 = p1
    p2 = p2
    p3 = p3
    p4 = p4
    pid1 = pid1
    pid2 = pid2
    Process = {p1, p2, p3, p4}
    Pid = {pid1, pid2}
    PidOf <- MCPidOf
    NoProcess = NoProcess
    AtStart = {p3}
    Modes = {"driver", "polling"}
    Throwing = {p3}
    Protected = {p4}
INVARIANTS
    TypeOK
    BeingHookedIsExact
    HookingHitsItsProcess
    NoProcessIsMissed
PROPERTIES
    HookedOnce
    StartReturns
    EveryProcessIsTried
\* With the driver, every process may have come and gone.
CHECK_DEADLOCK FALSE
