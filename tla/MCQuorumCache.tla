---------------------------- MODULE MCQuorumCache ----------------------------
(* Quorum hashes h1..h3, two candidate commitments c1, c2.               *)
(* The local DKG session rebuilds the vvec of commitment c1 of h1, where *)
(* this node is a member.  A cache of max_size 1 is truncated at its     *)
(* third entry.                                                          *)
EXTENDS QuorumCache

CONSTANTS h1, h2, h3, c1, c2

MCDkgVvec == [h \in QuorumHashes |-> IF h = h1 THEN {c1} ELSE {}]
MCIsMember == [h \in QuorumHashes |-> h = h1]

\* a reorganisation may mine either commitment, or none, for any hash
MCAnyMined == [h \in QuorumHashes |-> Commitments \cup {NoQc}]

\* a reorganisation takes a hash's commitment off the chain or puts the
\* same one back: h1 and h3 have c1, h2 has c2
MCOneMined == [h \in QuorumHashes |-> {IF h = h2 THEN c2 ELSE c1, NoQc}]
=============================================================================
