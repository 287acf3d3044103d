CONSTANTS
    Keys <- MCPrefixKeys
    Cands <- MCCands
    Rows <- MCPrefixRows
    MaxRows = 2
    MaxLen = 6
SPECIFICATION Spec
INVARIANT FilesAsIntended
CHECK_DEADLOCK FALSE
