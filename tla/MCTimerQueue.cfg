SPECIFICATION Spec
CONSTANTS
    Delays = {0, 2}
    MaxTimers = 3
    MaxPending = 1
    MaxTime = 1
INVARIANTS
    ArmedForEarliest
    EachTimerInOnePlace
PROPERTIES
    FiresInOrder
    TimerFires
CHECK_DEADLOCK FALSE
