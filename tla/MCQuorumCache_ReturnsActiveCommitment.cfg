\* reorganisations that may mine another commitment for a quorum hash
CONSTANTS
    h1 = h1
    h2 = h2
    h3 = h3
    c1 = c1
    c2 = c2
    QuorumHashes = {h1, h2}
    Commitments = {c1, c2}
    DkgVvec <- MCDkgVvec
    IsMember <- MCIsMember
    MinedChoices <- MCAnyMined
    CacheSize = 1
    MaxReorgs = 2
    NoQc = NoQc
    NoVvec = NoVvec
    NoQuorum = NoQuorum
SPECIFICATION Spec
PROPERTIES ReturnsActiveCommitment
