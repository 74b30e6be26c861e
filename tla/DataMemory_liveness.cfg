SPECIFICATION FairSpec
CONSTANTS
    NUM_CORES = 2
    LSUS_PER_CORE = 2
    NUM_CONSUMERS = 4
    NUM_CHANNELS = 1
    RESET_EDGES = 3
    WRITE_ENABLE = TRUE
    Addresses = {0, 1}
    Values = {0, 1}
    None = None
PROPERTIES
    EveryRequestIsAnswered
    ImplementsAtomicMemory
