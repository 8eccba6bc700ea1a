\* Handlers that free a message or reply to it, with sands to spare.
CONSTANTS
    Msg = {m1, m2, m3}
    NULL = NULL
    Worker = {w1, w2, w3}
    HandlerTypes = {1}
    Returns = {0, 3}
    TimerTypes = {}
    TaskSands = 4
    RouteSands = 2
    TimerSands = 2
    MaxJobs = 2
SPECIFICATION Spec
SYMMETRY WorkerSymmetry
INVARIANT TaskFlagSet
INVARIANT NoAbort
