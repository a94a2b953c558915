\* Four commands, transfers of up to two records, whole or cut short.
CONSTANTS
    BufSize = 22
    MaxDlc = 2
    ByteMod = 2
    Btrs = {"x0016", "x532F", "x011C", "other"}
    Records <- MCRecords
    MaxRecords = 2
    MaxCommands = 4
SPECIFICATION FairSpec
INVARIANTS SettledAsAsked TransfersDecoded
PROPERTY AllApplied
