\* The board's shutdown handshake and task accounting, two threads that may call tboard_kill,
\* each under the application's tmutex protocol.
CONSTANTS
    t1 = t1
    t2 = t2
    c1 = c1
    c2 = c2
    S = 1
    MAX_SECONDARIES = 1
    MAX_TASKS = 1
    Tasks <- MCTasks
    Callers <- TwoCallers
    SpuriousWakeups = FALSE
    NoTask = NoTask
SPECIFICATION Spec
INVARIANT TypeOK
INVARIANT TaskFreedExactlyOnce
INVARIANT TaskCountMatchesLive
INVARIANT KillReturnsAfterJoin
PROPERTY KillAndDestroyComplete
