--------------------------- MODULE QuorumConnections ---------------------------
(***************************************************************************)
(* CQuorumManager::EnsureQuorumConnections (src/llmq/quorums.cpp), run by  *)
(* UpdatedBlockTip for each new tip once the chain is synced, for one LLMQ *)
(* type: the masternode quorum connections this node keeps.                *)
(*                                                                         *)
(* Time is relative to the tip.  phase is nHeight % dkgInterval; rounds    *)
(* holds the recent DKG rounds, newest first, so rounds[1] is the round    *)
(* whose base block is curDkgBlock and rounds[i] started (i-1) intervals   *)
(* before it.  Only the newest MaxRounds rounds are kept.                  *)
(***************************************************************************)
EXTENDS Naturals, Sequences, SequencesExt, FiniteSets

CONSTANTS
    DkgInterval,  \* llmq_params.dkgInterval
    MineDelay,    \* blocks from a round's base block to its mined commitment
    KeepOld,      \* llmq_params.keepOldConnections
    MaxRounds,    \* rounds remembered
    CanFail       \* whether a DKG round may end without a mined commitment

ASSUME /\ 0 < MineDelay /\ MineDelay < DkgInterval
       /\ 0 < KeepOld /\ KeepOld + 1 < MaxRounds

\* a DKG round: whether this node is one of its members, whether it ends
\* with a mined commitment, whether connections to its members are open
Round == [member : BOOLEAN, formed : BOOLEAN, conn : BOOLEAN]

\* a round as it starts: no connections yet
NewRound == [member : BOOLEAN, formed : IF CanFail THEN BOOLEAN ELSE {TRUE}, conn : {FALSE}]

VARIABLES
    phase,    \* the tip's height modulo dkgInterval
    rounds,   \* the recent rounds, newest first
    synced    \* masternodeSync.IsBlockchainSynced()

vars == <<phase, rounds, synced>>

-----------------------------------------------------------------------------

\* the commitment of round i is mined at or below the tip
Mined(rs, ph, i) == rs[i].formed /\ (i > 1 \/ ph >= MineDelay)

\* ScanQuorums(llmqType, pindexNew, keepOldConnections): the newest
\* KeepOld quorums mined at or below the tip
ScanQuorums(rs, ph, n) ==
    LET minedIdx == {i \in 1..Len(rs) : Mined(rs, ph, i)}
    IN {i \in minedIdx : Cardinality({j \in minedIdx : j < i}) < n}

\* connmanQuorumsToDelete is every quorum with connections but the current
\* DKG round; for each of the last quorums, CLLMQUtils::EnsureQuorumConnections
\* opens (or keeps) the connections if this node is a member, and otherwise
\* the connections are removed if it has any.  Quorums outside the last
\* quorums are not visited.
EnsureQuorumConnections(rs, ph) ==
    LET lastQuorums == ScanQuorums(rs, ph, KeepOld)
        toDelete == {i \in 1..Len(rs) : rs[i].conn} \ {1}
    IN [i \in 1..Len(rs) |->
          IF i \in lastQuorums
            THEN [rs[i] EXCEPT !.conn = IF rs[i].member THEN TRUE
                                        ELSE @ /\ i \notin toDelete]
            ELSE rs[i]]

\* the newest MaxRounds rounds
Remembered(rs) == IF Len(rs) <= MaxRounds THEN rs ELSE SubSeq(rs, 1, MaxRounds)

\* a new tip: a new DKG round starts every dkgInterval blocks; then
\* UpdatedBlockTip returns early unless synced
NewTip ==
    LET ph == (phase + 1) % DkgInterval
    IN /\ phase' = ph
       /\ \E r \in NewRound :
            LET rs == IF ph = 0 THEN Remembered(<<r>> \o rounds) ELSE rounds
            IN rounds' = IF synced THEN EnsureQuorumConnections(rs, ph) ELSE rs
       /\ UNCHANGED synced

\* the DKG session of the current round connects to its members
DkgConnect ==
    /\ rounds[1].member /\ ~rounds[1].conn
    /\ rounds' = [rounds EXCEPT ![1].conn = TRUE]
    /\ UNCHANGED <<phase, synced>>

BlockchainSynced ==
    /\ ~synced
    /\ synced' = TRUE
    /\ UNCHANGED <<phase, rounds>>

Init ==
    /\ phase = 0
    /\ rounds \in [1..1 -> NewRound]
    /\ synced \in BOOLEAN

Next == NewTip \/ DkgConnect \/ BlockchainSynced

Spec == Init /\ [][Next]_vars

-----------------------------------------------------------------------------
(* Properties                                                              *)

TypeOK ==
    /\ phase \in 0..(DkgInterval - 1)
    /\ rounds \in Seq(Round) /\ 1 <= Len(rounds) /\ Len(rounds) <= MaxRounds
    /\ synced \in BOOLEAN

\* Section 4.3 of the design: on every new tip (once synced) the
\* connections to quorums that fell outside the keepOldConnections window
\* are torn down, except those of the round in its DKG.
StaleConnectionsClosed ==
    [][NewTip /\ synced =>
        \A i \in 2..Len(rounds') :
            rounds'[i].conn => i \in ScanQuorums(rounds', phase', KeepOld)]_vars

=============================================================================
