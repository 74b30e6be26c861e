SPECIFICATION FairSpec
CONSTANTS
    NUM_CORES = 3
    KernelSizes = {0, 1, 2, 4, 5}
INVARIANTS
    TypeOK
    DoneMeansAllFinished
    NoBlockRunsTwice
    CompletionIsFresh
    HandshakeInvariant
PROPERTIES
    BlockIdIsStable
    EveryBlockRuns
    ImplementsContract
    OneAtATimeMarksDone
