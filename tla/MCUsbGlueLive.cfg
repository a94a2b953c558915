\* Liveness of all endpoints, with dropped requests.
CONSTANTS
    QueueLen = 2
    RingDepth = 1
    Contention = TRUE
    BatchFrames = 1
    MaxBatch = 2
    MaxTransfers = 1
    MaxCommands = 1
    MaxResets = 1
    MaxFaults = 2
SPECIFICATION FairSpec
PROPERTIES OutResumes BatchArrivesOrStrands
