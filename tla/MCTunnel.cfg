SPECIFICATION Spec
CONSTANTS
    MaxChunks = 3
    EarlyData = FALSE
INVARIANTS
    TypeOK
PROPERTIES
    Relays
    Delivers
    Terminates
