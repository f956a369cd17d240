SPECIFICATION ChildSpec
CONSTANTS
    Tokens = {t1, t2}
    CredHosts <- MCCredHosts
    Targets <- MCTargets
    Patterns <- MCChildPatterns
    MaxEntries <- AllSources
    ParentVars <- MCParentVars
    MaxSaid = 4
SYMMETRY MCSymmetry
INVARIANTS
    ChildTypeOK
    HighestPriorityWins
    BypassHonoured
    TokenForItsHost
    EnvironmentMerged
    WarnedUnlessByPort
    PatternsReachBothSides
