CONSTANTS
    FlagSpace <- MCAcceptedThenAbortFlags
    MapperRegistry <- MCMapperRegistry
    IncrementalReducerRegistry <- MCIncrementalReducerRegistry
    BatchReducerRegistry <- MCBatchReducerRegistry
    ReaderRegistry <- MCReaderRegistry
SPECIFICATION Spec
INVARIANT NoConfigAbort
