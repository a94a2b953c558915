\* Two slots, either producer; both indices wrap twice.
CONSTANTS
    Capacity = 2
    MaxFrame = 5
    MaxReports = 1
SPECIFICATION FairSpec
INVARIANTS NoOverwrite LosslessRetry
PROPERTIES FifoSpec AllDelivered
CHECK_DEADLOCK FALSE
