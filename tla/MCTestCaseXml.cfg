CONSTANTS
    Skeleton <- MCSkeleton
    WorkDir <- MCWorkDir
    Directives <- MCDirectives
    MaxDirs = 2
SPECIFICATION Spec
INVARIANT ReapplyIsNoop
CHECK_DEADLOCK FALSE
