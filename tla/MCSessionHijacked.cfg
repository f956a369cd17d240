SPECIFICATION Spec
CONSTANTS
    Platforms = {"unix"}
    Conns = {k1}
    ExitCodes = {0, 2}
    MaxSignals = 0
INVARIANTS
    AllConnectionsDrained
