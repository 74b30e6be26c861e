SPECIFICATION FairSpec
CONSTANTS
    WIDTH = 4
    NUM_REGISTERS = 6
    WARPS_PER_CORE = 2
    THREADS_PER_WARP = 2
    Programs <- AllPrograms
    BaseAddress = 1
    NumWarpsPerBlock = 2
    BlockIds = {0, 1}
    FetcherFeedback = TRUE
    None = None
INVARIANTS
    TypeOK
    CoreInvariant
    PipelineInvariant
    OneWarpInPipeline
    UnitsFollowTheWarp
    InstructionIsCurrent
    SpecialRegistersFresh
    QuietWhenDone
PROPERTIES
    EveryFetchRetires
    EveryBlockEnds
    ImplementsSimtMachine
    ImplementsBuiltMachine
