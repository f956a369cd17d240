SPECIFICATION ChildSpec
CONSTANTS
    Tokens = {t1, t2}
    CredHosts <- MCCredHosts
    Targets <- MCTargets
    Patterns <- MCChildPatterns
    MaxEntries <- FlagsOnly
    ParentVars <- MCParentVars
    MaxSaid = 2
INVARIANTS
    SkipsOnlyBypassed
