----------------------- MODULE MCQuorumDataRecovery -----------------------
(* Two quorums of one LLMQ type.  R (r) is a valid member of q1; in q2 it  *)
(* holds a position whose validMembers bit is not set, so it only syncs    *)
(* q2's vvec.  With one peer, quorums have two positions; with two, three. *)
(* p1 can serve everything of q1, p2 only its vvec; both serve the vvec of *)
(* q2.  In the sorted masternode list r comes second: p1 < r < p2.         *)
EXTENDS QuorumDataRecovery

CONSTANTS r, p1, p2, q1, q2

MCScannedQuorums == <<q1, q2>>
MCOneQuorum == <<q1>>
MCProTxHash == [n \in {p1, r, p2} |-> CASE n = p1 -> 1 [] n = r -> 2 [] OTHER -> 3]

MCOnePeerMembers == [q \in {q1, q2} |-> IF q = q1 THEN <<r, p1>> ELSE <<p1, r>>]
MCOnePeerValid == [q \in {q1, q2} |-> IF q = q1 THEN <<TRUE, TRUE>> ELSE <<TRUE, FALSE>>]
MCOnePeerMnList == {r, p1}

MCTwoPeerMembers == [q \in {q1, q2} |-> IF q = q1 THEN <<r, p1, p2>> ELSE <<p1, p2, r>>]
MCTwoPeerValid == [q \in {q1, q2} |-> IF q = q1 THEN <<TRUE, TRUE, TRUE>>
                                                ELSE <<TRUE, TRUE, FALSE>>]
MCTwoPeerMnList == {p1, r, p2}

MCSrvVvec == [p \in Peers |-> [q \in {q1, q2} |-> TRUE]]
MCSrvEnc == [p \in Peers |-> [q \in {q1, q2} |-> p = p1 /\ q = q1]]

\* The liveness run starts where recovery is needed: no quorum has its vvec
\* (Init allows any data already built from evoDb or the DKG).
MCInit == Init /\ \A q \in Quorums : ~hasVvec[q]
MCSpec == MCInit /\ [][Next]_vars /\ Fairness
=============================================================================
