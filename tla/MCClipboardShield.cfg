\* Win32 writers and any readers, nothing fails.
SPECIFICATION ShieldSpec
CONSTANTS
    p1 = p1
    p2 = p2
    p3 = p3
    t1 = t1
    t2 = t2
    t3 = t3
    s1 = s1
    keepass = keepass
    notepad = notepad
    EmptyPath = EmptyPath
    NoFile = NoFile
    NoRequest = NoRequest
    NoWriter = NoWriter
    NoThread = NoThread
    Process = {p1, p2, p3}
    Session = {s1}
    Thread = {t1, t2, t3}
    ThreadProcess <- OneThreadEach
    ReadyAtStart = {p1, p2, p3}
    CallsOf <- Win32Writers
    MaxCalls = 2
    Timeouts = FALSE
    Mortal = {}
    MaxCrashes = 0
    Request <- MCRequest
    ProcessOf <- MCProcessOf
    Path <- MCPath
    FileOf <- MCFileOf
    SessionOf <- MCSessionOf
    PathOf <- MCPathOf
    Config <- MCConfig
INVARIANTS
    CopyEndEndsItsOwnCopy
    NobodyWaitsInACircle
PROPERTIES
    ImplementsMonitor
    EveryCallReturns
\* Every thread may have made its calls.
CHECK_DEADLOCK FALSE
