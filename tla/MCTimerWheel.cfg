CONSTANTS
    w1 = w1
    w2 = w2
    s1 = s1
    id1 = id1
    None = None
    e1 = e1
    e2 = e2
    e3 = e3
    Info <- MCInfo
    Workers <- MCWorkers
    Events <- SlotAndTimeout
    MaxTime = 4
    Early = 1
    LongBits = 8
    TimeoutBits = 9

SPECIFICATION Spec

INVARIANT TypeOK
PROPERTY TimerServiceSpec
