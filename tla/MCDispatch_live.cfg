\* As many sands as there can be messages: no worker gives up a queue.
CONSTANTS
    Msg = {m1, m2}
    NULL = NULL
    Worker = {w1, w2}
    HandlerTypes = {1}
    Returns = {0, 3}
    TimerTypes = {}
    TaskSands = 3
    RouteSands = 2
    TimerSands = 2
    MaxJobs = 2
SPECIFICATION FairSpec
INVARIANT WorkScheduled
PROPERTY Handled
PROPERTY Replied
