SPECIFICATION Spec
CONSTANTS
    Producers = {p1, p2}
    Items = {m1, m2, m3, m4}
    Empty = empty
    Capacity = 2
    MaxBatch = 1
INVARIANTS
    NoItemStranded
    DropsAccounted
PROPERTIES
    ImplementsBoundedFifo
    AcceptedIsDrained
CHECK_DEADLOCK FALSE
