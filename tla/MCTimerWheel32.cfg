CONSTANTS
    w1 = w1
    w2 = w2
    s1 = s1
    id1 = id1
    None = None
    e1 = e1
    e2 = e2
    e3 = e3
    Info <- CloseInfo
    Workers <- OneWorker
    Events <- CloseOnly
    MaxTime = 17
    Early = 1
    LongBits = 4
    TimeoutBits = 6

SPECIFICATION Spec

INVARIANT NotEarly
