CONSTANTS
    m1 = m1
    m2 = m2
    Mappers = {m1, m2}
    NumReducers = 2
    TextInputs <- MCPassInputs
    ProtoInputs = {}
    Formats = {"text"}
    OutputFormats = {"text", "protofile"}
    LineLengths = {6}
    MapperClasses = {"WordCountMapper", "WordCountMapperWithCombiner"}
    Modes = {"incremental", "batch"}
    Launches = {"reducers_first"}
SPECIFICATION Spec
INVARIANT JobOutputCorrect
SYMMETRY MCMapperSymmetry
