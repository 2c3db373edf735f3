CONSTANTS
    NumMappers = 2
    NumReducers = 2
    MapQueueSize = 3
    ReduceQueueSize = 2
    MsgSizes <- MCMsgSizes1
    MaxMsgs <- MCMaxMsgs22
    WireCap = 5
    SendLowat = 5
    RecvSplits = FALSE

SPECIFICATION Spec
INVARIANT SenderDrained
