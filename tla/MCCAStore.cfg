SPECIFICATION Spec
CONSTANTS
    r1 = r1
    r2 = r2
    s1 = s1
    s2 = s2
    corporate = corporate
    system = system
    Absent = Absent
    Torn = Torn
    Old = Old
    Runs = {r1, r2}
    Setups = {s1, s2}
    Forced = {s2}
    RootsOf <- MCRoots
    Regimes = {"orderly", "faulty"}
INVARIANTS
    TypeOK
    HoldsOnePair
    ChildTrustsProxy
PROPERTIES
    SteadyCA
    ImplementsRegister
    RunGetsCA
