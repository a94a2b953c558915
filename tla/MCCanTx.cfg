\* Three frames, the second one single-shot; a bus-off, a failed attempt, failed
\* installs and settings commands.
CONSTANTS
    MaxFrame = 3
    SingleShot <- MCSingleShot
    InstallMayFail = TRUE
    TxQueueLen = 2
    MaxBusOffs = 1
    MaxFails = 1
    RingDepth = 2
    TxDoneDepth = 2
    MaxCommands = 3
SPECIFICATION FairSpec
INVARIANTS Ownership NoFrameLost BusOrder OncePerFrame VerdictOnItsWay
PROPERTIES VerdictArrives Delivered
