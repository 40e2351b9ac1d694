SPECIFICATION MCSpec
CONSTANTS
    r1 = r1
    r2 = r2
    r3 = r3
    r4 = r4
    tx = tx
    bump = bump
    bad = bad
    NoHash = NoHash
    Unused = Unused
    Request = {r1, r2, r3, r4}
    Hash = {tx, bump, bad}
    HashOf <- SubmittedHash
    SeqOf <- Seqs
    InnerOf <- Inner
    Malformed = {bad}
    SinceWindow = 1
    SubmissionTimeout = 2
    TickMax = 1
    MaxClosed = 2
    MaxCalls = 2
    FirstLedger = 2
    MaxLedger = 4
    TxSpan = 4
    LedgerSpan = 16
    MaxOrder = 9
    Attempts = 4
    Rows <- ApiRows
    Requests <- LedgersAscending
    ObjectGroups <- FiveGroups
    Parts = {"history"}
INVARIANTS
    RowsComeOnce
CHECK_DEADLOCK FALSE
