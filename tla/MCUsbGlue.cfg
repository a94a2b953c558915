\* Safety: resets and faults anywhere, and a queue that can be full.
CONSTANTS
    QueueLen = 2
    RingDepth = 1
    Contention = TRUE
    BatchFrames = 2
    MaxBatch = 2
    MaxTransfers = 2
    MaxCommands = 1
    MaxResets = 1
    MaxFaults = 1
SPECIFICATION Spec
INVARIANTS BatchesOnce BuffersOwned FramesAccounted NotForgotten
