SPECIFICATION Spec

CONSTANTS
    Socks = {s1, s2, s3}
    NoSock = nosock
    kInitialBackoffMs = 1
    kMaxBackoffMs = 3
    MaxTimers = 3

INVARIANTS
    TypeOK
    NoSocketLost
    DisconnectIsFinal
    ToldTheTruth

PROPERTIES
    KeepsTrying

CHECK_DEADLOCK FALSE
