SPECIFICATION MCSpec
CONSTANTS
    reader = reader
    r1 = r1
    r2 = r2
    r3 = r3
    r4 = r4
    w1 = w1
    w2 = w2
    Unused = Unused
    Capacity = 3
    MaxSeq = 5
    Content <- Fees
    Retention = 3
    FeeRetention = 2
    MaxRetries = 2
    Readers = {reader}
    Faults = {"prepare", "ledger", "commit", "checkpoint"}
    MaxFaults = 2
    MaxCrashes = 1
    MaxLedger = 5
    Window = 6
    Frequency = 4
    ChunkSize = 2
    RefreshEvery = 1
    DsFirst = 2
    Quiet = TRUE
    Lag = 2
    MaxTip = 14
    MaxRestarts = 2
    Requests = {r1, r2, r3, r4}
    Workers = {w1, w2}
    Limit = 3
    QueueSize = 1
    Idle = Idle
    Exited = Exited
    HistoryWindow = 3
    FeeStatsWindow = 1
    MaxOld = 5
    MaxStarts = 3
    MaxMeta = 7
SYMMETRY Symmetry
INVARIANTS
    LatestLedgers
    DistributionIsRight
    BackfillResumes
    EverythingOnce
    SlotsAccounted
    MigratesWholly
PROPERTIES
    CachesAgree
CHECK_DEADLOCK FALSE
