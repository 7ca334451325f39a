SPECIFICATION Spec
CONSTANTS
    SndBuf = 1
    HighWaterMark = 2
    MaxSend = 3
    MaxArrive = 2
INVARIANTS
    OutputInOrder
    WriteInterestExact
    HalfCloseAfterLastByte
    NoLostEdge
    EofShowsEverything
PROPERTIES
    PausedResumes
    ArrivedIsShown
CHECK_DEADLOCK FALSE
