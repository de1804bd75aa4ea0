\* All texts of up to MaxLines lines over two different files, one of them
\* under two names.
SPECIFICATION Spec
CONSTANTS
    notepad = notepad
    link = link
    keepass = keepass
    fileA = fileA
    fileB = fileB
    EmptyPath = EmptyPath
    NoFile = NoFile
    Path <- MCPath
    TextPath <- MCTextPath
    FileOf <- MCFileOf
    MaxLines = 4
CONSTRAINT
    MCShortWithoutPath
INVARIANTS
    TypeOK
    VerdictMatchesText
    UnknownSourceMatchesText
    OnlyWellPlacedTextsAreParsed
PROPERTIES
    RuleLinesActInTheirDirection
\* A rejected or parsed text is the end of the parser's work.
CHECK_DEADLOCK FALSE
