SPECIFICATION FairSpec
CONSTANTS
    NUM_CORES = 2
    KernelSizes = {2}
PROPERTY
    LastBlockMarksDone
