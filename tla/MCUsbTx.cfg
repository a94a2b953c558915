\* Three frames, two alerts, a calibration; ticks of two digits to the base 2.
CONSTANTS
    BufSize = 15
    MaxDlc = 2
    ByteMod = 2
    Shapes <- MCShapes
    RingDepth = 2
    EvtDepth = 1
    MaxDrain = 1
    CalibPeriod = 2
    Kinds = {"ABOVE_ERR_WARN", "BELOW_ERR_WARN"}
    MaxAlerts = 2
    MaxTime = 4
SPECIFICATION FairSpec
INVARIANTS HostInStep TicksRight RecordsInOrder
PROPERTIES CalibrationPaced AllReach
