\* Every interleaving of five requests of three processes in two sessions,
\* and a restart of the service in the behaviours of up to three.
SPECIFICATION Spec
CONSTANTS
    p1 = p1
    p2 = p2
    p3 = p3
    s1 = s1
    s2 = s2
    keepass = keepass
    notepad = notepad
    r1 = r1
    r2 = r2
    r3 = r3
    r4 = r4
    r5 = r5
    WithRules = TRUE
    AfterCrash = 3
    EmptyPath = EmptyPath
    NoFile = NoFile
    NoRequest = NoRequest
    NoWriter = NoWriter
    Process = {p1, p2, p3}
    Session = {s1, s2}
    Request = {r1, r2, r3, r4, r5}
    Path <- MCPath
    FileOf <- MCFileOf
    SessionOf <- MCSessionOf
    PathOf <- MCPathOf
    ProcessOf <- MCProcessOf
    Config <- MCConfig
    MaxCrashes = 1
CONSTRAINT MCFewAfterCrash
SYMMETRY MCSymmetry
INVARIANTS
    TypeOK
    RequestsInOnePlace
    NoRequestForgotten
    PastesWaitOnlyWhileLocked
    LastWriterCompletedACopy
PROPERTIES
    PastesJudgedOnRecordedWriter
    OnlyTheDeadTakeTheServiceDown
\* Every request may have been used.
CHECK_DEADLOCK FALSE
