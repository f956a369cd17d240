SPECIFICATION Spec
CONSTANTS
    Letters <- MCLetters
    Signs <- MCSigns
    Pieces <- DoubleQuoted
    MaxPieces = 2
    MaxWords = 2
    Programs <- MCPrograms
    Chatter <- MCChatter
    OwnArgs <- MCOwnArgs
INVARIANTS
    TypeOK
    RunsTheAlias
    FailsOnlyWhenMust
PROPERTIES
    LookupEnds
