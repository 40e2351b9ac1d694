SPECIFICATION MCSpec
CONSTANTS
    c1 = c1
    c2 = c2
    n1 = n1
    n2 = n2
    Worker = {w1, w2, w3}
    Ranges <- ThreeRanges
    MinBatchSize = 0
    MaxBatchSize = 4
    Interval = 3
    MaxUint32 = 31
    Call = {c1, c2}
    Node = {n1, n2}
    NodeOf <- Processes
    NoCall = NoCall
    Table = {ledgers, trades}
    LedgerTable = ledgers
    RetentionCount = 2
    BatchSize = 1
    Modulus = 16
    MaxLedger = 6
    InitHistory <- Histories
    Reingested = {2, 5}
    Key = {k1, k2}
    Ledger = {l1, l2}
    LookupBatchSize = 2
    MaxId = 3
    alice = alice
    bob = bob
    carol = carol
    issuer = issuer
    token = token
    signKey = signKey
    xlm = xlm
    usd = usd
    eur = eur
    lp = lp
    balanceId = balanceId
    id1 = id1
    id2 = id2
    None = None
    Ledgers <- TwoLedgers
    Whitelists <- Lists
    GCPeriod = 1
    MaxTime = 2
    Parts = {"parallel", "reaper", "lookup", "trades", "filters", "effects"}
INVARIANTS
    Restartable
    TradesAddUp
    FiltersHold
    EffectsRetrace
PROPERTIES
    ReapsWholeOldLedgers
    ReferencesResolve
CHECK_DEADLOCK FALSE
