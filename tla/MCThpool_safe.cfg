\* Three threads, more jobs than threads asleep, a waiting user, a pause and
\* the end of the pool.  A destroyed pool stops, so deadlock is not an error.
CONSTANTS
    Thread = {t1, t2, t3}
    Job = {j1, j2, j3}
    Waiter = {c1}
    NULL = NULL
    MaxPauses = 1
    Destroys = TRUE
SPECIFICATION Spec
SYMMETRY Symmetry
INVARIANT NoLostWakeup
INVARIANT FreedAfterLoop
PROPERTY WaitMeansIdle
PROPERTY ImplementsJobPool
CHECK_DEADLOCK FALSE
