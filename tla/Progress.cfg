SPECIFICATION MCSpec
CONSTANTS
    w1 = w1
    w2 = w2
    c1 = c1
    c2 = c2
    n1 = n1
    n2 = n2
    NoCall = NoCall
    ledgers = ledgers
    tradesTable = tradesTable
    k1 = k1
    k2 = k2
    l1 = l1
    offer = offer
    pool = pool
    r1 = r1
    r2 = r2
    r3 = r3
    tx = tx
    NoHash = NoHash
    NoJob = NoJob
    Exited = Exited
    Unused = Unused
    FirstLedger = 2
    MaxLedger = 4
    TxSpan = 4
    LedgerSpan = 16
    MaxOrder = 9
    Attempts = 4
    Rows <- ApiRows
    Requests <- StreamRequests
PROPERTIES
    CallsReturn
    StaleIsRepaired
CHECK_DEADLOCK FALSE
