SPECIFICATION Spec
CONSTANTS
    Platforms = {"unix", "windows"}
    Conns = {k1}
    ExitCodes = {0, 2}
    MaxSignals = 3
INVARIANTS
    TypeOK
    ChildHasProxy
    ExitCodePropagates
    RequestsDrained
    SignalsInOrder
    OrphansExplained
PROPERTIES
    Terminates
    SignalsReachChild
