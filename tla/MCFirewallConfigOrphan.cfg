\* A subrule before any main directive.
SPECIFICATION Spec
CONSTANTS
    notepad = notepad
    link = link
    keepass = keepass
    fileA = fileA
    fileB = fileB
    EmptyPath = EmptyPath
    NoFile = NoFile
    Path <- MCPath
    TextPath <- MCTextPath
    FileOf <- MCFileOf
    MaxLines = 2
INVARIANT
    OrphanSubruleIsRejected
CHECK_DEADLOCK FALSE
