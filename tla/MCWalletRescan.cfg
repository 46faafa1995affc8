CONSTANTS
    c1 = c1
    c2 = c2
    k1 = k1
    k2 = k2
    NoClient = NoClient
    Clients = {c1, c2}
    Keys = {k1, k2}
    Tip = 5
    Window = 1
    TxAt <- MCTxAt
    Unreadable = {1}
    DumpTime <- MCDumpTime
    Files <- MCFiles
    ElectrumFiles = {{k1, k2}}
    StartHeights = {0, 3, 7}
    Requests <- MCRequests
    MaxCalls = 4
    HdWallet = TRUE
    NoName = NoName
SPECIFICATION Spec
INVARIANTS TypeOK OneRescanAtATime NamesAsGiven
PROPERTIES ImportmultiResultsHonest RescansReported
CHECK_DEADLOCK FALSE
