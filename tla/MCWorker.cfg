CONSTANTS
    FlagSpace <- MCRoleFlags
    MapperRegistry <- MCMapperRegistry
    IncrementalReducerRegistry <- MCIncrementalReducerRegistry
    BatchReducerRegistry <- MCBatchReducerRegistry
    ReaderRegistry <- MCReaderRegistry
SPECIFICATION Spec
INVARIANT ResourcesBeforeUse
