------------------------------ MODULE Commitment ------------------------------
(***************************************************************************)
(* CFinalCommitment::Verify, VerifyNull and VerifySizes and the consensus  *)
(* check CheckLLMQCommitment (src/llmq/commitment.cpp), with GetTxPayload  *)
(* (src/evo/specialtx.h).                                                  *)
(*                                                                         *)
(* The checks are pure.  A behaviour picks one input (a commitment, the    *)
(* size of the member list of its quorum base block, a commitment special  *)
(* transaction and the block it would extend) and then applies the checks  *)
(* to it; out records the last result.                                     *)
(*                                                                         *)
(* Bit i of a bit vector (0-based in the code) is element i+1 here.  BLS   *)
(* keys and signatures are reduced to what the checks ask of them: whether *)
(* they are well-formed and which members' keys an aggregated signature    *)
(* was made with.                                                          *)
(***************************************************************************)
EXTENDS Naturals, Sequences, SequencesExt, FiniteSets

CONSTANTS
    Size,             \* llmq_params.size
    MinSize,          \* llmq_params.minSize
    CurrentVersion,   \* CFinalCommitment::CURRENT_VERSION
    TxCurrentVersion, \* CFinalCommitmentTxPayload::CURRENT_VERSION
    KnownTypes,       \* the types in Params().GetConsensus().llmqs
    Inputs            \* the <<commitment, transaction, pindexPrev>> a
                      \* behaviour may check

ASSUME 1 <= MinSize /\ MinSize <= Size

\* A block of the index: its height and its branch ("main" or "side", which
\* fork above height 0); an "unknown" block is a hash not in the block index.
Block(h, br) == [h |-> h, br |-> br]

\* The members of the quorum are positions 0..Size-1; Verify sees the first
\* nMembers of them (GetAllQuorumMembers may return fewer than Size).
Positions == 0..(Size - 1)

VARIABLES
    qc,         \* the commitment under check
    nMembers,   \* members.size() for its quorum base block
    tx,         \* the transaction carrying it: [form, nVersion, nHeight]
    prev,       \* pindexPrev
    out         \* the last check and its result

vars == <<qc, nMembers, tx, prev, out>>

-----------------------------------------------------------------------------
(* Helpers of CFinalCommitment kept in commitment.h                        *)

Bit(v, i) == v[i + 1]

CountBits(v) == Cardinality({i \in DOMAIN v : v[i]})

CountSigners(c) == CountBits(c.signers)

CountValidMembers(c) == CountBits(c.validMembers)

\* the canonical null form: no bit set, no aggregated public key
IsNull(c) == CountSigners(c) = 0 /\ CountValidMembers(c) = 0 /\ ~c.pubKeyValid

-----------------------------------------------------------------------------
(* CFinalCommitment                                                        *)

VerifySizes(c) ==
    /\ Len(c.signers) = Size
    /\ Len(c.validMembers) = Size

\* (variant: the loop starts one past members.size())
VerifyExcessBitsFromNext(c, n) ==
    \A i \in (n + 1)..(Size - 1) : ~Bit(c.validMembers, i) /\ ~Bit(c.signers, i)

\* no validMembers or signers bit at or beyond members.size()
VerifyExcessBits(c, n) ==
    \A i \in n..(Size - 1) : ~Bit(c.validMembers, i) /\ ~Bit(c.signers, i)

\* the members whose operator keys membersSig is checked against
MemberPubKeys(c, n) == {i \in 0..(n - 1) : Bit(c.signers, i)}

\* membersSig.VerifySecureAggregated(memberPubKeys, commitmentHash)
VerifyMembersSig(c, n) == c.membersSigValid /\ c.membersSigBy = MemberPubKeys(c, n)

Verify(c, n, checkSigs) ==
    /\ c.nVersion # 0 /\ c.nVersion <= CurrentVersion
    /\ c.llmqType \in KnownTypes
    /\ VerifySizes(c)
    /\ CountValidMembers(c) >= MinSize
    /\ CountSigners(c) >= MinSize
    /\ c.pubKeyValid
    /\ ~c.vvecHashNull
    /\ c.membersSigValid
    /\ c.quorumSigValid
    /\ VerifyExcessBits(c, n)
    /\ checkSigs => /\ VerifyMembersSig(c, n)
                    /\ c.quorumSigOk

VerifyNull(c) ==
    /\ c.llmqType \in KnownTypes
    /\ IsNull(c) /\ VerifySizes(c)

-----------------------------------------------------------------------------
(* CheckLLMQCommitment                                                     *)

\* GetTxPayload: the payload deserializes ("short" throws) and nothing is
\* left over ("trailing" leaves bytes in the stream)
GetTxPayload(t) == t.form = "exact"

\* pindexPrev->GetAncestor(h): nullptr above pindexPrev
GetAncestor(b, h) ==
    IF h > b.h THEN Block(h, "none")
    ELSE IF h = 0 THEN Block(0, "main") ELSE Block(h, b.br)

\* (variant: the type is checked before the quorum hash is looked up)
CheckLLMQCommitmentTypeFirst(t, b, c, n) ==
    IF ~GetTxPayload(t) THEN "bad-qc-payload"
    ELSE IF t.nVersion = 0 \/ t.nVersion > TxCurrentVersion THEN "bad-qc-version"
    ELSE IF t.nHeight # b.h + 1 THEN "bad-qc-height"
    ELSE IF c.llmqType \notin KnownTypes THEN "bad-qc-type"
    ELSE IF c.quorumHash.br = "unknown" THEN "bad-qc-quorum-hash"
    ELSE IF c.quorumHash # GetAncestor(b, c.quorumHash.h) THEN "bad-qc-quorum-hash"
    ELSE IF IsNull(c) THEN (IF VerifyNull(c) THEN "ok" ELSE "bad-qc-invalid-null")
    ELSE IF ~Verify(c, n, FALSE) THEN "bad-qc-invalid"
    ELSE "ok"

\* the reject reason of the first failing check, or "ok"; signatures are
\* not checked here
CheckLLMQCommitment(t, b, c, n) ==
    IF ~GetTxPayload(t) THEN "bad-qc-payload"
    ELSE IF t.nVersion = 0 \/ t.nVersion > TxCurrentVersion THEN "bad-qc-version"
    ELSE IF t.nHeight # b.h + 1 THEN "bad-qc-height"
    ELSE IF c.quorumHash.br = "unknown" THEN "bad-qc-quorum-hash"
    ELSE IF c.quorumHash # GetAncestor(b, c.quorumHash.h) THEN "bad-qc-quorum-hash"
    ELSE IF c.llmqType \notin KnownTypes THEN "bad-qc-type"
    ELSE IF IsNull(c) THEN (IF VerifyNull(c) THEN "ok" ELSE "bad-qc-invalid-null")
    ELSE IF ~Verify(c, n, FALSE) THEN "bad-qc-invalid"
    ELSE "ok"

-----------------------------------------------------------------------------

NoOut == [op |-> "none", sigs |-> FALSE, ok |-> FALSE, reason |-> "none"]

Init ==
    /\ \E in \in Inputs : qc = in[1] /\ tx = in[2] /\ prev = in[3]
    /\ nMembers \in 0..Size
    /\ out = NoOut

\* the block processor verifies the commitment of a connected block with
\* signatures, the mining and relay paths without
VerifyCommitment ==
    /\ \E checkSigs \in BOOLEAN :
         out' = [NoOut EXCEPT !.op = "Verify", !.sigs = checkSigs,
                              !.ok = Verify(qc, nMembers, checkSigs)]
    /\ UNCHANGED <<qc, nMembers, tx, prev>>

VerifyNullCommitment ==
    /\ out' = [NoOut EXCEPT !.op = "VerifyNull", !.ok = VerifyNull(qc)]
    /\ UNCHANGED <<qc, nMembers, tx, prev>>

CheckTx ==
    /\ LET r == CheckLLMQCommitment(tx, prev, qc, nMembers)
       IN out' = [NoOut EXCEPT !.op = "Check", !.ok = (r = "ok"), !.reason = r]
    /\ UNCHANGED <<qc, nMembers, tx, prev>>

Next == VerifyCommitment \/ VerifyNullCommitment \/ CheckTx

Spec == Init /\ [][Next]_vars

-----------------------------------------------------------------------------
(* Properties                                                              *)

\* the bits of v among the first n members
RealBits(v, n) == {i \in 0..(n - 1) : Bit(v, i)}

\* A commitment Verify accepts has at least minSize valid members and
\* minSize signers among the members GetAllQuorumMembers returns for its
\* base block, not merely minSize bits: the bit counts and the loop over
\* the positions past members.size() together guarantee it.
AcceptedMembersAreReal ==
    out.op = "Verify" /\ out.ok =>
        /\ Cardinality(RealBits(qc.validMembers, nMembers)) >= MinSize
        /\ Cardinality(RealBits(qc.signers, nMembers)) >= MinSize

\* Section 4.2 of the design: the checks of a commitment transaction, in
\* order, each with its reject reason.
SpecChecks(t, b, c, n) ==
    << [pass |-> t.form = "exact", reason |-> "bad-qc-payload"],
       [pass |-> t.nVersion \in 1..TxCurrentVersion, reason |-> "bad-qc-version"],
       [pass |-> t.nHeight = b.h + 1, reason |-> "bad-qc-height"],
       [pass |-> c.quorumHash.br # "unknown", reason |-> "bad-qc-quorum-hash"],
       [pass |-> c.quorumHash.h <= b.h /\ (c.quorumHash.h = 0 \/ c.quorumHash.br = b.br),
        reason |-> "bad-qc-quorum-hash"],
       [pass |-> c.llmqType \in KnownTypes, reason |-> "bad-qc-type"],
       [pass |-> IsNull(c) => VerifyNull(c), reason |-> "bad-qc-invalid-null"],
       [pass |-> IsNull(c) \/ Verify(c, n, FALSE), reason |-> "bad-qc-invalid"] >>

SpecReason(t, b, c, n) ==
    LET failed == SelectSeq(SpecChecks(t, b, c, n), LAMBDA k : ~k.pass)
    IN IF failed = <<>> THEN "ok" ELSE Head(failed).reason

\* CheckLLMQCommitment rejects a commitment transaction with the reason of
\* the first check of section 4.2 it fails, and accepts it iff it fails
\* none: an unknown or side-branch quorum hash is "bad-qc-quorum-hash", a
\* wrong height "bad-qc-height", whatever else is wrong with it.
CheckFollowsSpecOrder ==
    out.op = "Check" => out.reason = SpecReason(tx, prev, qc, nMembers)

=============================================================================
