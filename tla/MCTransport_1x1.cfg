CONSTANTS
    NumMappers = 1
    NumReducers = 1
    MapQueueSize = 3
    ReduceQueueSize = 2
    MsgSizes <- MCMsgSizes
    MaxMsgs <- MCMaxMsgs1
    WireCap = 6
    SendLowat = 4
    RecvSplits = TRUE

SPECIFICATION Spec
INVARIANT TypeOK
INVARIANT PerPairFIFO
INVARIANT StreamComplete
INVARIANT SenderDrained
PROPERTY Termination
