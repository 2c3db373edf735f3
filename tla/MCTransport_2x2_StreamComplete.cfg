CONSTANTS
    NumMappers = 2
    NumReducers = 2
    MapQueueSize = 3
    ReduceQueueSize = 2
    MsgSizes <- MCMsgSizes
    MaxMsgs <- MCMaxMsgs2
    WireCap = 6
    SendLowat = 4
    RecvSplits = TRUE

SPECIFICATION Spec
INVARIANT StreamComplete
