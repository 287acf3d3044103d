CONSTANTS
    ArgLists <- MCArgLists
    JobFiles <- MCJobFiles
    c = c  t = t  x = x  o1 = o1  old = old
    Names = {c, t, x, o1, old}
    Files = {c, t}
    Existing = {old}
    MaxTime = 2
SPECIFICATION Spec
\* the driver really stops: after its last job, an exit, an exception, or a
\* pipeline that never returns
CHECK_DEADLOCK FALSE
INVARIANTS TypeOK JobsFromLines
