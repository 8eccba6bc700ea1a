\* Three threads, a waiting user and the end of the pool, which then stops, so
\* deadlock is not an error.
CONSTANTS
    Thread = {t1, t2, t3}
    Job = {j1, j2}
    Waiter = {c1}
    NULL = NULL
    MaxPauses = 0
    Destroys = TRUE
SPECIFICATION FairSpec
PROPERTY StartsQueuedJobs
PROPERTY WaitReturns
PROPERTY DestroyReturns
CHECK_DEADLOCK FALSE
