SPECIFICATION Spec
CONSTANTS
    WIDTH = 32
    NUM_REGISTERS = 32
    Inputs <- Endless
    MaxCycles = 2
    Nothing = Nothing
PROPERTY
    EveryRunEnds
CHECK_DEADLOCK FALSE
