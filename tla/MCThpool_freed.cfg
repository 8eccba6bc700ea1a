\* thpool_destroy against the last step of thread_do.
CONSTANTS
    Thread = {t1, t2}
    Job = {j1}
    Waiter = {}
    NULL = NULL
    MaxPauses = 0
    Destroys = TRUE
SPECIFICATION Spec
SYMMETRY Symmetry
INVARIANT FreedAfterUse
CHECK_DEADLOCK FALSE
