CONSTANTS
    r = r
    p1 = p1
    p2 = p2
    q1 = q1
    q2 = q2
    Peers = {p1}
    Byz = {p1}
    ScannedQuorums <- MCOneQuorum
    Me = r
    Members <- MCOnePeerMembers
    ValidMembers <- MCOnePeerValid
    MnList <- MCOnePeerMnList
    ProTxHash <- MCProTxHash
    SyncMode = "OnlyIfTypeMember"
    SrvVvec <- MCSrvVvec
    SrvEnc <- MCSrvEnc
    RequestTimeout = 1
    ExpirationTimeout = 3
    PoolSize = 1
    MaxChan = 1
    Shutdown = TRUE
    SyncLoss = TRUE
SPECIFICATION MCSpec
INVARIANTS NoNullVvecDeref
PROPERTIES RecoveryTerminates StopJoins


