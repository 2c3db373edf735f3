CONSTANTS
    m1 = m1
    m2 = m2
    Mappers = {m1, m2}
    NumReducers = 2
    TextInputs <- MCTextInputs
    ProtoInputs <- MCProtoInputs
    Formats = {"text", "protofile"}
    OutputFormats = {"text"}
    LineLengths = {3, 5}
    MapperClasses = {"WordCountMapper", "WordCountMapperWithCombiner"}
    Modes = {"incremental", "batch"}
    Launches = {"reducers_first"}
SPECIFICATION Spec
INVARIANT JobOutputCorrect
