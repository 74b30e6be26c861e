SPECIFICATION Spec
CONSTANTS
    WIDTH = 32
    NUM_REGISTERS = 32
    Inputs <- SingleTests
    MaxCycles = 2
    Nothing = Nothing
INVARIANT
    StoresKeepTheirOperands
CHECK_DEADLOCK FALSE
