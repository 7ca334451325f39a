SPECIFICATION Spec

CONSTANTS
    kInitialSize = 4
    kPrependSize = 3
    kReadSize = 3
    kTypeCount = 2
    kMaxMethodLen = 2
    kMaxFrameSize = 18
    LogTraffic <- MCLogTraffic
    RpcTraffic <- MCRpcTraffic

INVARIANTS
    DeliversWhatArrived
    NothingAfterBadFrame
    LeavesLessThanAFrame

CHECK_DEADLOCK FALSE
