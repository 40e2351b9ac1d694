SPECIFICATION MCSpec
CONSTANTS
    a = a
    b = b
    c = c
    NoNode = NoNode
    Node = {a, b, c}
    Live = {a, b}
    CurrentVersion <- Upgrade
    CheckpointFrequency = 2
    InitHistory = {}
    MaxLedgerPerFlush = 2
    MaxLedger = 7
    Commands <- AllCommands
    MaxCommands = 3
    MaxFaults = 2
INVARIANTS
    ProcessesValid
    StateMatchesLastLedger
    HistoryIntact
    LoadTestUndone
PROPERTIES
    ImplementsIngestedState
    FollowsNetwork
CHECK_DEADLOCK FALSE
