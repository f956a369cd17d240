SPECIFICATION Spec
CONSTANTS
    Letters <- MCLetters
    Signs <- MCSigns
    Pieces <- SingleQuoted
    MaxPieces = 2
    MaxWords = 2
    Programs <- MCPrograms
    Chatter <- MCChatter
    OwnArgs <- MCOwnArgs
INVARIANTS
    RunsTheAlias
