CONSTANTS
    Keys <- MCKeys
    Cands <- MCCands
    Rows <- MCRows
    MaxRows = 2
    MaxLen = 6
SPECIFICATION Spec
INVARIANT TypeOK
INVARIANT EveryCombinationOnce
INVARIANT FilesAsIntended
PROPERTY GenFilesTerminates
CHECK_DEADLOCK FALSE
