\* A dropped request strands the batch on EP2 IN.
CONSTANTS
    QueueLen = 1
    RingDepth = 1
    Contention = TRUE
    BatchFrames = 1
    MaxBatch = 2
    MaxTransfers = 1
    MaxCommands = 0
    MaxResets = 0
    MaxFaults = 0
SPECIFICATION FairSpec
PROPERTY BatchArrives
