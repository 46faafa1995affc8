----------------------------- MODULE QuorumCache -----------------------------
(***************************************************************************)
(* The quorum cache of CQuorumManager (src/llmq/quorums.cpp) for one LLMQ *)
(* type: GetQuorum, HasQuorum, BuildQuorumFromCommitment with              *)
(* ReadContributions / BuildQuorumContributions / WriteContributions, the  *)
(* bounded mapQuorumsCache, and the vvec part of a QDATA installed into    *)
(* the cached CQuorum, with the secret key share when the contributions  *)
(* half decrypts.                                                          *)
(*                                                                         *)
(* A quorum hash names the block a DKG round started at.  Reorganisations  *)
(* may take the commitment mined for that hash off the active chain and     *)
(* mine another one for the same hash.  A verification vector (vvec) is    *)
(* named by the commitment whose quorumVvecHash it matches.                *)
(***************************************************************************)
EXTENDS Naturals, Sequences, SequencesExt, FiniteSets

CONSTANTS
    QuorumHashes,   \* quorum base blocks of the type (model values)
    Commitments,    \* the different final commitments a round may end with
    DkgVvec,        \* [QuorumHashes -> SUBSET Commitments]: commitments whose
                    \* vvec the local DKG session's verified contributions rebuild
    IsMember,       \* [QuorumHashes -> BOOLEAN]: this node is a valid member
    MinedChoices,   \* [QuorumHashes -> SUBSET (Commitments \cup {NoQc})]: what
                    \* the branches a reorganisation moves between mine for h
    CacheSize,      \* max_size of mapQuorumsCache[llmqType]; the unordered_lru_cache
                    \* truncates to it once it holds more than twice as many
    MaxReorgs,      \* bound on the reorganisations of a behaviour
    NoQc,           \* no commitment mined for the hash on the active chain
    NoVvec,         \* quorumVvec == nullptr / no evoDb record
    NoQuorum        \* GetQuorum returned nullptr

ASSUME /\ NoQc \notin Commitments /\ NoVvec \notin Commitments
       /\ \A h \in QuorumHashes : DkgVvec[h] \subseteq Commitments
       /\ \A h \in QuorumHashes : MinedChoices[h] \subseteq Commitments \cup {NoQc}
       /\ CacheSize >= 1

VARIABLES
    mined,    \* quorumBlockProcessor: the commitment mined for each hash on the active chain
    cache,    \* mapQuorumsCache[llmqType]: quorum hash -> CQuorum
    lru,      \* the cache's keys, least recently used first
    db,       \* evoDb (DB_QUORUM_QUORUM_VVEC, DB_QUORUM_SK_SHARE) under MakeQuorumKey
    got,      \* what the last GetQuorum call returned
    reorgs,   \* reorganisations so far
    vvecSeen  \* history: the <<hash, commitment>> pairs some CQuorum held a vvec for

vars == <<mined, cache, lru, db, got, reorgs, vvecSeen>>

\* a CQuorum: its commitment, the vvec it holds and whether skShare is valid
Quorum == [qc : Commitments, vvec : Commitments \cup {NoVvec}, sk : BOOLEAN]
Record == [vvec : Commitments \cup {NoVvec}, sk : BOOLEAN]
NoRecord == [vvec |-> NoVvec, sk |-> FALSE]

Cached == DOMAIN cache

-----------------------------------------------------------------------------
(* CQuorum                                                                 *)

\* CQuorum::SetVerificationVector: accepted only if it hashes to quorumVvecHash
SetVerificationVector(obj, v) == v = obj.qc

\* CQuorum::WriteContributions: the vvec and a valid skShare are written;
\* a missing one leaves the record as it was
WriteContributions(h, obj) ==
    db' = [db EXCEPT ![h] = [vvec |-> IF obj.vvec # NoVvec THEN obj.vvec ELSE @.vvec,
                             sk |-> @.sk \/ obj.sk]]

\* CQuorum::ReadContributions into a freshly built CQuorum for commitment c:
\* fails without a vvec record; the skShare record is read if there is one
ReadContributions(h, c) ==
    IF db[h].vvec = NoVvec THEN NoRecord ELSE db[h]

-----------------------------------------------------------------------------
(* CQuorumManager                                                          *)

\* (variant: the cache is asked whether the quorum exists)
HasQuorumOrCached(h) == mined[h] # NoQc \/ h \in Cached

\* HasQuorum: quorumBlockProcessor->HasMinedCommitment
HasQuorum(h) == mined[h] # NoQc

\* BuildQuorumContributions: the verified contributions of the local DKG
\* session aggregate to the commitment's vvec, and to a skShare if a member
BuildQuorumContributions(h, c) ==
    IF c \in DkgVvec[h] THEN [vvec |-> c, sk |-> IsMember[h]] ELSE NoRecord

\* (variant: the cache is never truncated)
CacheInsertUnbounded(h, obj) ==
    /\ cache' = [k \in Cached \cup {h} |-> IF k = h THEN obj ELSE cache[k]]
    /\ lru' = Append(lru, h)

\* insert into the bounded cache (h is not in it): once it holds more than
\* 2 * CacheSize entries, the least recently used go until CacheSize remain
CacheInsert(h, obj) ==
    LET all == Append(lru, h)
        keep == IF Len(all) > 2 * CacheSize THEN SubSeq(all, Len(all) - CacheSize + 1, Len(all))
                                            ELSE all
    IN /\ cache' = [k \in ToSet(keep) |-> IF k = h THEN obj ELSE cache[k]]
       /\ lru' = keep

\* move a key to the most recently used end
Touch(h) == lru' = Append(SelectSeq(lru, LAMBDA k : k # h), h)

\* BuildQuorumFromCommitment: read the contributions from evoDb or rebuild
\* them from the DKG (and write them), then insert into the cache
BuildQuorumFromCommitment(h) ==
    LET c == mined[h]
        read == ReadContributions(h, c)
        built == BuildQuorumContributions(h, c)
        obj == [qc |-> c, vvec |-> IF read.vvec # NoVvec THEN read.vvec ELSE built.vvec,
                sk |-> IF read.vvec # NoVvec THEN read.sk ELSE built.sk]
    IN /\ IF read.vvec = NoVvec /\ built.vvec # NoVvec
            THEN WriteContributions(h, obj)
            ELSE UNCHANGED db
       /\ CacheInsert(h, obj)
       /\ got' = [h |-> h, q |-> obj]
       /\ vvecSeen' = IF obj.vvec # NoVvec THEN vvecSeen \cup {<<h, c>>} ELSE vvecSeen

\* GetQuorum(llmqType, pindexQuorum)
GetQuorum(h) ==
    /\ \/ /\ ~HasQuorum(h)
          /\ got' = [h |-> h, q |-> NoQuorum]
          /\ UNCHANGED <<cache, lru, db, vvecSeen>>
       \/ /\ HasQuorum(h) /\ h \in Cached
          /\ got' = [h |-> h, q |-> cache[h]]
          /\ Touch(h)
          /\ UNCHANGED <<cache, db, vvecSeen>>
       \/ /\ HasQuorum(h) /\ h \notin Cached
          /\ BuildQuorumFromCommitment(h)
    /\ UNCHANGED <<mined, reorgs>>

\* ProcessMessage(QDATA) for a matched request asking for the vvec, and
\* with enc # "none" for the encrypted contributions too: the quorum is
\* taken from the cache ("Quorum not found" otherwise) and a vvec that
\* passes SetVerificationVector is installed in it.  The contributions half
\* then either yields a valid skShare (enc = "ok") or returns on "Not a
\* member", "Failed to decrypt" or "Invalid secret key share" (enc =
\* "fail") before WriteContributions, with the vvec left installed.
ReceiveQData(h, v, enc) ==
    /\ h \in Cached
    /\ SetVerificationVector(cache[h], v)
    /\ enc = "ok" => IsMember[h]
    /\ LET obj == [cache[h] EXCEPT !.vvec = v, !.sk = @ \/ enc = "ok"]
       IN /\ cache' = [cache EXCEPT ![h] = obj]
          /\ IF enc = "fail" THEN UNCHANGED db ELSE WriteContributions(h, obj)
    /\ vvecSeen' = vvecSeen \cup {<<h, v>>}
    /\ UNCHANGED <<mined, lru, got, reorgs>>

\* a reorganisation takes the commitment for h off the active chain, or
\* replaces it with another one mined for the same quorum hash
Reorg(h) ==
    /\ reorgs < MaxReorgs
    /\ \E c \in MinedChoices[h] \ {mined[h]} : mined' = [mined EXCEPT ![h] = c]
    /\ reorgs' = reorgs + 1
    /\ UNCHANGED <<cache, lru, db, got, vvecSeen>>

-----------------------------------------------------------------------------

Init ==
    /\ mined \in {f \in [QuorumHashes -> Commitments \cup {NoQc}] :
                    \A h \in QuorumHashes : f[h] \in MinedChoices[h]}
    /\ cache = <<>>
    /\ lru = <<>>
    /\ db = [h \in QuorumHashes |-> NoRecord]
    /\ got = [h |-> CHOOSE h \in QuorumHashes : TRUE, q |-> NoQuorum]
    /\ reorgs = 0
    /\ vvecSeen = {}

Next ==
    \E h \in QuorumHashes :
        \/ GetQuorum(h)
        \/ \E v \in Commitments, enc \in {"none", "ok", "fail"} : ReceiveQData(h, v, enc)
        \/ Reorg(h)

Spec == Init /\ [][Next]_vars

-----------------------------------------------------------------------------
(* Properties                                                              *)

TypeOK ==
    /\ mined \in [QuorumHashes -> Commitments \cup {NoQc}]
    /\ Cached \subseteq QuorumHashes /\ \A h \in Cached : cache[h] \in Quorum
    /\ Cardinality(Cached) <= 2 * CacheSize
    /\ lru \in Seq(QuorumHashes) /\ ToSet(lru) = Cached /\ Len(lru) = Cardinality(Cached)
    /\ db \in [QuorumHashes -> Record]
    /\ got \in [h : QuorumHashes, q : Quorum \cup {NoQuorum}]
    /\ reorgs \in 0..MaxReorgs
    /\ vvecSeen \subseteq QuorumHashes \X Commitments

\* Building a quorum again from the same commitment, after the cache
\* evicted it, yields a CQuorum with a vvec whenever an earlier CQuorum of
\* that commitment held one (the design's idempotence of a rebuild): the
\* vvec came from the DKG, from evoDb or from a QDATA, and in each case
\* WriteContributions must have put it where ReadContributions finds it.
RebuildKeepsVvec ==
    [][\A h \in QuorumHashes :
         (GetQuorum(h) /\ h \notin Cached /\ <<h, mined[h]>> \in vvecSeen)
            => got'.q.vvec # NoVvec]_vars

\* A CQuorum returned by GetQuorum is built on the commitment that is
\* mined for its quorum hash on the active chain.
ReturnsActiveCommitment ==
    [][\A h \in QuorumHashes : GetQuorum(h) /\ got'.q # NoQuorum => got'.q.qc = mined[h]]_vars

\* Every cached CQuorum holds, if any, the vvec that hashes to its own
\* commitment's quorumVvecHash, whether it came from the DKG, from evoDb
\* through ReadContributions or from a peer's QDATA.
VvecMatchesCommitment ==
    \A h \in Cached : cache[h].vvec \in {NoVvec, cache[h].qc}

=============================================================================
