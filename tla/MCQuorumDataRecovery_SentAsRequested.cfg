CONSTANTS
    r = r
    p1 = p1
    p2 = p2
    q1 = q1
    q2 = q2
    Peers = {p1, p2}
    ScannedQuorums <- MCScannedQuorums
    Me = r
    Members <- MCTwoPeerMembers
    ValidMembers <- MCTwoPeerValid
    MnList <- MCTwoPeerMnList
    ProTxHash <- MCProTxHash
    SyncMode = "Always"
    SrvVvec <- MCSrvVvec
    SrvEnc <- MCSrvEnc
    RequestTimeout = 1
    ExpirationTimeout = 3
    PoolSize = 1
    MaxChan = 1
    Shutdown = FALSE
    SyncLoss = FALSE
    Byz = {}
SPECIFICATION Spec
PROPERTIES SentAsRequested
