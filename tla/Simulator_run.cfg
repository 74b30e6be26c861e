SPECIFICATION Spec
CONSTANTS
    WIDTH = 32
    NUM_REGISTERS = 32
    Inputs <- AllInputs
    MaxCycles = 2
    Nothing = Nothing
INVARIANTS
    TypeOK
    ErrorsAreTheMistakes
    LabelsNameInstructions
    RunsWhatIsWellFormed
    LaunchIsAsWritten
    ProgramIsAsWritten
    WordsDecodeAsWritten
    StatusTellsTheTruth
PROPERTY
    ReadableRunsEnd
CHECK_DEADLOCK FALSE
