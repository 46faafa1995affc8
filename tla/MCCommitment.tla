---------------------------- MODULE MCCommitment ----------------------------
(* One quorum type t1 of Size 2 and minSize 1 next to an unconfigured     *)
(* type t2; a chain of heights 0..2 with a side branch forking above 0.   *)
EXTENDS Commitment

CONSTANTS t1, t2

\* bit vectors of the right length and one bit too long
BitVecs == TupleOf(BOOLEAN, Size) \cup TupleOf(BOOLEAN, Size + 1)

Main1 == Block(1, "main")
Main2 == Block(2, "main")
Side1 == Block(1, "side")
Side2 == Block(2, "side")

Qc(hash, type, s, v, key) ==
    [nVersion |-> 1, llmqType |-> type, quorumHash |-> hash,
     signers |-> s, validMembers |-> v, pubKeyValid |-> key,
     vvecHashNull |-> ~key, membersSigValid |-> key, membersSigBy |-> {0},
     quorumSigValid |-> key, quorumSigOk |-> key]

\* every commitment of type t1 or t2 anchored at block 1 of the main chain
MCAllQc ==
    [nVersion : 0..2, llmqType : {t1, t2}, quorumHash : {Main1},
     signers : BitVecs, validMembers : BitVecs, pubKeyValid : BOOLEAN,
     vvecHashNull : BOOLEAN, membersSigValid : BOOLEAN,
     membersSigBy : SUBSET Positions, quorumSigValid : BOOLEAN,
     quorumSigOk : BOOLEAN]

\* a valid commitment, one with too few signers, the null commitment and
\* a null commitment one bit too long, of either type at every anchor
MCTxQc ==
    {Qc(a, ty, body[1], body[2], body[3]) :
        a \in {Block(0, "main"), Main1, Main2, Side1, Block(1, "unknown")},
        ty \in {t1, t2},
        body \in {<<<<TRUE, FALSE>>, <<TRUE, TRUE>>, TRUE>>,
                  <<<<FALSE, FALSE>>, <<TRUE, TRUE>>, TRUE>>,
                  <<<<FALSE, FALSE>>, <<FALSE, FALSE>>, FALSE>>,
                  <<<<FALSE, FALSE, FALSE>>, <<FALSE, FALSE, FALSE>>, FALSE>>}}

MCOneTx == {[form |-> "exact", nVersion |-> 1, nHeight |-> 2]}
MCAllTx == [form : {"exact", "short", "trailing"}, nVersion : 0..2, nHeight : 1..3]

MCAllPrev == {Main1, Main2, Side1, Side2}

\* every commitment in a valid transaction, and the representative
\* commitments in every transaction at every chain position
MCInputs ==
    (MCAllQc \X MCOneTx \X {Main1}) \cup (MCTxQc \X MCAllTx \X MCAllPrev)
=============================================================================
