CONSTANTS
    Keys <- MCKeys
    Names <- MCNames
    Lits <- MCLits
    Lines <- MCLines
    MaxAddr = 20
    MaxDepth = 12
    MaxRounds = 3
    Rewrite <- SearchAndSubstitute
SPECIFICATION Spec
INVARIANT ResolvedValuesCorrect
CHECK_DEADLOCK FALSE
