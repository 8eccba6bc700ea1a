\* Handlers that free a message, reply to it or arm a timer with it, which
\* comes back to their own queue; one message per job.  An assertion may end
\* the process, so deadlock is no error.
CONSTANTS
    Msg = {m1, m2, m3}
    NULL = NULL
    Worker = {w1, w2}
    HandlerTypes = {1}
    Returns = {0, 2, 3}
    TimerTypes = {1}
    TaskSands = 1
    RouteSands = 2
    TimerSands = 2
    MaxJobs = 2
SPECIFICATION Spec
SYMMETRY WorkerSymmetry
INVARIANT SerialHandlers
INVARIANT TaskListedOnce
INVARIANT NonemptyFlagged
INVARIANT OneOwner
CHECK_DEADLOCK FALSE
