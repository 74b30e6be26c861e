SPECIFICATION Spec
CONSTANTS
    NUM_CORES = 2
    LSUS_PER_CORE = 3
    NUM_CONSUMERS = 6
    NUM_CHANNELS = 2
    RESET_EDGES = 3
    WRITE_ENABLE = TRUE
    Addresses = {0}
    Values = {0, 1}
    None = None
INVARIANTS
    TypeOK
    OneChannelPerConsumer
    ServingIsExact
    ReadyHasItsChannel
    HandshakeSettled
    ExecuteAfterAnswers
    MemoryInvariant
PROPERTY
    ImplementsAtomicMemory
