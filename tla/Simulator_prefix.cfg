SPECIFICATION Spec
CONSTANTS
    WIDTH = 32
    NUM_REGISTERS = 32
    Inputs <- SinglePrograms
    MaxCycles = 2
    Nothing = Nothing
INVARIANT
    PrefixMakesScalar
CHECK_DEADLOCK FALSE
