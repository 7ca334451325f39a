SPECIFICATION Spec

CONSTANTS
    MaxLines = 5

INVARIANTS
    ServedInOrder
    CloseIsLast

PROPERTIES
    WaitingClientIsAnswered

CHECK_DEADLOCK FALSE
