\* A completion erased by the teardown is sent again.
CONSTANTS
    MaxFrame = 1
    SingleShot <- NoSingleShot
    InstallMayFail = FALSE
    TxQueueLen = 2
    MaxBusOffs = 0
    MaxFails = 0
    RingDepth = 1
    TxDoneDepth = 4
    MaxCommands = 2
SPECIFICATION Spec
INVARIANT NeverDuplicated
