SPECIFICATION BackfillSpec
CONSTANTS
    Window = 6
    Frequency = 4
    ChunkSize = 2
    RefreshEvery = 1
    DsFirst = 2
    Quiet = FALSE
    Lag = 2
    MaxTip = 14
    MaxRestarts = 2
INVARIANTS
    DbNoGap
CHECK_DEADLOCK FALSE
