\* The configuration of a complete lock-down and several windows of one executable.
SPECIFICATION Spec
CONSTANTS
    p1 = p1
    p2 = p2
    p3 = p3
    s1 = s1
    s2 = s2
    keepass = keepass
    notepad = notepad
    r1 = r1
    r2 = r2
    r3 = r3
    r4 = r4
    r5 = r5
    WithRules = FALSE
    AfterCrash = 2
    EmptyPath = EmptyPath
    NoFile = NoFile
    NoRequest = NoRequest
    NoWriter = NoWriter
    Process = {p1, p2, p3}
    Session = {s1, s2}
    Request = {r1, r2}
    Path <- MCPath
    FileOf <- MCFileOf
    SessionOf <- MCSessionOf
    PathOf <- MCPathOf
    ProcessOf <- MCProcessOf
    Config <- MCConfig
    MaxCrashes = 0
INVARIANT
    LockdownSeparatesProcesses
CHECK_DEADLOCK FALSE
