\* Transfers over a bus that delays and loses frames, with broadcasts.
CONSTANTS
    Pieces <- MCPieces
    BlockSize = 2
    STmin = 1
    WftMax = 1
    NBs = 5
    NCr = 7
    SnMod = 3
    MaxDelay = 2
    ForeignPeer = TRUE
    MaxFaults = 3
    MaxBroadcasts = 2
SPECIFICATION FairSpec
INVARIANTS MessagesIntact InStep BlockKept AllArrive
PROPERTY TransfersEnd
