\* The handshake with its retries, timeouts and driver calls that may never return.
CONSTANTS
    Tasks = {rx, tx}
    Configs = {off, on}
    Boot = off
    WaitPolls = 1
    MaxSeq = 6
SPECIFICATION FairSpec
INVARIANTS TeardownAlone RequestNotLost
PROPERTIES GuardSpec HandshakeEnds
