\* reorganisations that take commitments off the chain and put them back;
\* a cache of max_size 1 is truncated at its third entry
CONSTANTS
    h1 = h1
    h2 = h2
    h3 = h3
    c1 = c1
    c2 = c2
    QuorumHashes = {h1, h2, h3}
    Commitments = {c1, c2}
    DkgVvec <- MCDkgVvec
    IsMember <- MCIsMember
    MinedChoices <- MCOneMined
    CacheSize = 1
    MaxReorgs = 2
    NoQc = NoQc
    NoVvec = NoVvec
    NoQuorum = NoQuorum
SPECIFICATION Spec
INVARIANTS TypeOK
