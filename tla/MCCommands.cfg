CONSTANTS
    Plain <- MCPlain
    Cmds <- MCCmds
    MaxCmds = 3
SPECIFICATION Spec
INVARIANT TypeOK
INVARIANT CommandsRemoved
CHECK_DEADLOCK FALSE
