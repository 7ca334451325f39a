SPECIFICATION Spec
CONSTANTS
    MaxThreads = 2
    MaxConns = 4
    MaxFds = 2
INVARIANTS
    LiveIsInTable
    ClosedIsLeaving
    SubLoopBatchIsAlive
PROPERTIES
    CloseIsReported
CHECK_DEADLOCK FALSE
