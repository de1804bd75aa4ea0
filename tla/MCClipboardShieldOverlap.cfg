\* A writer that uses OLE.
SPECIFICATION ShieldSpec
CONSTANTS
    p1 = p1
    p2 = p2
    p3 = p3
    t1 = t1
    t2 = t2
    t3 = t3
    s1 = s1
    keepass = keepass
    notepad = notepad
    EmptyPath = EmptyPath
    NoFile = NoFile
    NoRequest = NoRequest
    NoWriter = NoWriter
    NoThread = NoThread
    Process = {p1, p2, p3}
    Session = {s1}
    Thread = {t1, t2, t3}
    ThreadProcess <- OneThreadEach
    ReadyAtStart = {p1, p2, p3}
    CallsOf <- AnyCalls
    MaxCalls = 1
    Timeouts = FALSE
    Mortal = {}
    MaxCrashes = 0
    Request <- MCRequest
    ProcessOf <- MCProcessOf
    Path <- MCPath
    FileOf <- MCFileOf
    SessionOf <- MCSessionOf
    PathOf <- MCPathOf
    Config <- MCConfig
INVARIANT
    ReadersObeyPolicy
CHECK_DEADLOCK FALSE
