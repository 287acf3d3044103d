CONSTANTS
    Plain <- MCPlain
    Cmds <- MCFatalCmds
    MaxCmds = 3
SPECIFICATION Spec
INVARIANT FatalBeforeSideEffects
CHECK_DEADLOCK FALSE
