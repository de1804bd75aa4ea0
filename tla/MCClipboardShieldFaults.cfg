\* OLE writers, two threads of one process, timeouts, kills, a restart of the service.
SPECIFICATION ShieldSpec
CONSTANTS
    p1 = p1
    p2 = p2
    p3 = p3
    t1 = t1
    t2 = t2
    t3 = t3
    s1 = s1
    keepass = keepass
    notepad = notepad
    EmptyPath = EmptyPath
    NoFile = NoFile
    NoRequest = NoRequest
    NoWriter = NoWriter
    NoThread = NoThread
    Process = {p1, p2}
    Session = {s1}
    Thread = {t1, t2, t3}
    ThreadProcess <- TwoThreadsOfTwo
    ReadyAtStart = {p1}
    CallsOf <- OneCallEach
    MaxCalls = 1
    Timeouts = TRUE
    Mortal = {p1}
    MaxCrashes = 1
    Request <- MCRequest
    ProcessOf <- MCProcessOf
    Path <- MCPath
    FileOf <- MCFileOf
    SessionOf <- MCSessionOf
    PathOf <- MCPathOf
    Config <- MCConfig
INVARIANTS
    ShieldTypeOK
    LocksBelongToACopy
PROPERTIES
    RepliesReachTheirRequester
    EveryCallReturns
CHECK_DEADLOCK FALSE
