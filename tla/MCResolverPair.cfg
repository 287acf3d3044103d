CONSTANTS
    Keys <- MCKeys
    Names <- MCNames
    Lits <- MCLits
    Lines <- MCLines
    MaxAddr = 20
    MaxDepth = 12
    MaxRounds = 3
SPECIFICATION Spec
INVARIANT TypeOK
INVARIANT CrashOnlyOnCycle
INVARIANT LegacyReferencesResolve
PROPERTY ResolutionTerminates
CHECK_DEADLOCK FALSE
