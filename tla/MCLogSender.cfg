SPECIFICATION Spec

CONSTANTS
    Threads = {t1, t2}
    queue_capacity = 2
    max_batch = 1
    high_water_mark = 2
    MaxMsgs = 3
    MaxLosses = 2

INVARIANTS
    NothingVanishes
    PausedIsLifted

PROPERTIES
    QueueIsSent

CHECK_DEADLOCK FALSE
