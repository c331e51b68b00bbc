\* tboard_kill cancels executors that tboard_destroy may already have joined.
CONSTANTS
    t1 = t1
    t2 = t2
    c1 = c1
    c2 = c2
    S = 1
    MAX_SECONDARIES = 1
    MAX_TASKS = 1
    Tasks <- MCTasks
    Callers <- OneCaller
    SpuriousWakeups = FALSE
    NoTask = NoTask
SPECIFICATION Spec
INVARIANT NoCancelOfJoinedThread
