SPECIFICATION MCSpec
CONSTANTS
    account = account
    datum = datum
    offer = offer
    line = line
    line2 = line2
    balance = balance
    pool = pool
    s1 = s1
    s2 = s2
    usd = usd
    eur = eur
    claimable = claimable
    c1 = c1
    b1 = b1
    b2 = b2
    Native = Native
    PoolShare = PoolShare
    None = None
    Absent = Absent
    Spent = Spent
    Key = {account, datum, offer, line, line2, balance, pool}
    KindOf <- Kinds
    Contents <- EntryContents
    Groups <- EntryGroups
    MaxBatch = 1
    CompactionWindow = 1
    Frequency = 2
    MaxLedger = 3
    VerifyBatch = 1
    MaxRetries = 2
    Entries = {offer, pool}
    Values = {1, 2}
    Window = 2
    MaxBookLedger = 4
    MaxRebuilds = 1
INVARIANTS
    TablesMirror
    VerifiesTruly
    StatsAddUp
    BookIsRight
CHECK_DEADLOCK FALSE
