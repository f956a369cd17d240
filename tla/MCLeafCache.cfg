SPECIFICATION Spec
CONSTANTS
    c1 = c1
    c2 = c2
    c3 = c3
    c4 = c4
    h1 = h1
    h2 = h2
    Callers <- MCCallers
    Hosts <- MCHosts
    Nobody = Nobody
    Failed = Failed
    NoHost = NoHost
INVARIANTS
    TypeOK
    NoConcurrentMapAccess
    OneLeafPerHost
PROPERTIES
    EveryCallReturns
    ImplementsAtomic
