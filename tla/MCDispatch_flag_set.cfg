\* Handlers that reply to every message, one message per job.
CONSTANTS
    Msg = {m1, m2, m3, m4, m5}
    NULL = NULL
    Worker = {w1, w2, w3}
    HandlerTypes = {1}
    Returns = {3}
    TimerTypes = {}
    TaskSands = 1
    RouteSands = 2
    TimerSands = 2
    MaxJobs = 2
SPECIFICATION Spec
SYMMETRY WorkerSymmetry
INVARIANT TaskFlagSet
