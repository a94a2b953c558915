\* A failed single-shot frame is submitted again.
CONSTANTS
    MaxFrame = 2
    SingleShot <- MCSingleShot
    InstallMayFail = FALSE
    TxQueueLen = 2
    MaxBusOffs = 0
    MaxFails = 1
    RingDepth = 1
    TxDoneDepth = 4
    MaxCommands = 1
SPECIFICATION Spec
INVARIANT SingleShotOnce
