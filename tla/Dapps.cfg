SPECIFICATION MCSpec
CONSTANTS
    s1 = s1
    m1 = m1
    u1 = u1
    u2 = u2
    x = x
    y = y
    z = z
    p1 = p1
    p2 = p2
    NoPool = NoPool
    mexc = mexc
    okx = okx
    bitget = bitget
    NoPrice = NoPrice
    NoArgument = NoArgument
    push = push
    api = api
    Unused = Unused
    poll1 = poll1
    poll2 = poll2
    f1 = f1
    f2 = f2
    dest = dest
    NoTx = NoTx
    Requests = {f1, f2}
    Destination <- SameDestination
    Limit = 2
    MaxAttempts = 2
    Seconds = {0, 1}
    MaxSequence = 3
    MaxClock = 1
    Subscriber = {s1}
    Merchant = {m1}
    Terms <- TwoTerms
    Bucket = 2
    Funds = 4
    MaxTtl = 50
    MaxTs = 8
    MaxNow = 7
    MaxServices = 2
    MaxSubs = 3
SYMMETRY Symmetry
INVARIANTS
    LastDecides
    PaymentsAddUp
    
    
    ServicesKeepTrack
PROPERTIES
    EndedIsFinal
    ApprovedIsCharged
    
CHECK_DEADLOCK FALSE
