CONSTANTS
    Keys <- MCKeys
    Cands <- MCCands
    Rows <- MCUndefinedRows
    MaxRows = 2
    MaxLen = 6
SPECIFICATION Spec
PROPERTY GenFilesTerminates
CHECK_DEADLOCK FALSE
