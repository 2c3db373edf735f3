CONSTANTS
    Keys <- MCKeys
    Values <- MCValues
    PoolSize = 20
    MaxInserts = 4
SPECIFICATION Spec
INVARIANT IterTypeOK
INVARIANT RunsSorted
INVARIANT RunsComplete
INVARIANT SpillOnlyWhenFull
PROPERTY ReduceKeysAscending
INVARIANT VisitedComplete
PROPERTY ReduceTerminates
