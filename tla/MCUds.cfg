\* Downloads of four blocks over a counter of three values.
CONSTANTS
    S3Timeout = 3
    LockTime = 3
    MaxAttempts = 2
    BscMod = 3
    Size = 4
    MaxElapsed = 2
    MaxLost = 2
    MaxRestarts = 1
SPECIFICATION Spec
INVARIANTS TransferGuarded BlocksOnce OneKeyPerSeed GuessesLimited LapsesInSilence
PROPERTY RestartIsTold
