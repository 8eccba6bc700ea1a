\* More messages than the sands of one job.
CONSTANTS
    Msg = {m1, m2, m3}
    NULL = NULL
    Worker = {w1, w2}
    HandlerTypes = {1}
    Returns = {0}
    TimerTypes = {}
    TaskSands = 2
    RouteSands = 2
    TimerSands = 2
    MaxJobs = 2
SPECIFICATION Spec
SYMMETRY WorkerSymmetry
INVARIANT WorkScheduled
