\* Verify over every commitment of the model's shape, and
\* CheckLLMQCommitment over every transaction header, chain position and
\* anchor with representative commitments
CONSTANTS
    Size = 2
    MinSize = 1
    CurrentVersion = 1
    TxCurrentVersion = 1
    t1 = t1
    t2 = t2
    KnownTypes = {t1}
    Inputs <- MCInputs
SPECIFICATION Spec
INVARIANTS AcceptedMembersAreReal CheckFollowsSpecOrder
