CONSTANTS
    m1 = m1
    m2 = m2
    Mappers = {m1, m2}
    NumReducers = 2
    Keys <- MCKeys
    Values <- MCValues
    Shards <- MCShards
    MaxOutput = 16
    QueueSize = 16
    PoolSize = 20
    Modes = {"incremental", "batch", "maponly"}
    MaxCalls = 2
SPECIFICATION Spec
INVARIANT RoutedAsAsked
INVARIANT ReduceComplete
