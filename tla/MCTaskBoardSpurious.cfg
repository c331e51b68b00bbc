\* tboard_kill waits on tcond once, with no predicate: a spurious wake-up returns early.
CONSTANTS
    t1 = t1
    t2 = t2
    c1 = c1
    c2 = c2
    S = 1
    MAX_SECONDARIES = 1
    MAX_TASKS = 1
    Tasks <- MCTasks
    Callers <- OneCaller
    SpuriousWakeups = TRUE
    NoTask = NoTask
SPECIFICATION Spec
INVARIANT KillReturnsAfterJoin
