------------------------- MODULE QuorumDataRecovery -------------------------
(***************************************************************************)
(* The quorum data recovery protocol of src/llmq/quorums.cpp, seen from   *)
(* one masternode R that recovers the verification vector (vvec) and its  *)
(* secret key share (skShare) of the quorums it belongs to, from the      *)
(* other members of those quorums (the Peers).                            *)
(*                                                                         *)
(* R's side: UpdatedBlockTip (request-table cleanup and                   *)
(* TriggerQuorumDataRecoveryThreads), the recovery task of                *)
(* StartQuorumDataRecoveryThread run on the worker pool, RequestQuorumData *)
(* and the QDATA branch of ProcessMessage.  The peers' side: the QGETDATA *)
(* branch of ProcessMessage and their own request-table cleanup.  Time is *)
(* the age of every time stamp, capped just above the threshold it is     *)
(* compared with, so that the abstraction is exact and the state finite.  *)
(***************************************************************************)
EXTENDS Integers, Sequences, SequencesExt, FiniteSets

CONSTANTS
    Me,               \* R's activeMasternodeInfo.proTxHash
    Peers,            \* the other members of R's quorums (model values)
    Byz,              \* peers answering QGETDATA with arbitrary content
    ScannedQuorums,   \* ScanQuorums(tip, signingActiveQuorumCount+1), newest first
    Members,          \* [quorum -> Seq(Peers \cup {Me})]: CQuorum::members
    ValidMembers,     \* [quorum -> Seq(BOOLEAN)]: qc->validMembers, params.size long
    MnList,           \* the valid masternodes of the list at the tip
    ProTxHash,        \* [Peers \cup {Me} -> Nat]: the order of the proTxHashes
    SyncMode,         \* QvvecSyncMode of the quorum type: "Always", "OnlyIfTypeMember", "Disabled"
    SrvVvec,          \* [Peers -> [quorum -> BOOLEAN]]: peer holds the quorum's vvec
    SrvEnc,           \* [Peers -> [quorum -> BOOLEAN]]: peer holds contributions for R
    RequestTimeout,   \* nRequestTimeout of the recovery task (10 s)
    ExpirationTimeout,\* CQuorumDataRequest expiry (300 s), in the same unit
    PoolSize,         \* worker threads of the quorum manager's pool
    MaxChan,          \* bound on the messages queued on one connection direction
    Shutdown,         \* CQuorumManager::Stop may be called in the behaviours
    SyncLoss          \* IsBlockchainSynced() may turn false again (a reset of
                      \* masternodeSync, outside this repository)

Quorums == Range(ScannedQuorums)

ASSUME /\ Byz \subseteq Peers /\ Me \notin Peers
       /\ \A q \in Quorums : /\ ToSet(Members[q]) \subseteq Peers \cup {Me}
                            /\ 0 < Len(Members[q]) /\ Len(Members[q]) <= Len(ValidMembers[q])
       /\ SyncMode \in {"Always", "OnlyIfTypeMember", "Disabled"}
       \* 10 s against 300 s: a request outlives several request timeouts
       /\ 0 < RequestTimeout /\ RequestTimeout + 1 < ExpirationTimeout
       /\ PoolSize >= 1 /\ MaxChan >= 1 /\ Shutdown \in BOOLEAN /\ SyncLoss \in BOOLEAN

VARIABLES
    reqs,       \* R's mapQuorumDataRequests entries (peer, true): [Peers -> Req \cup {NoReq}]
    srvReqs,    \* each peer's mapQuorumDataRequests entry (R, false)
    chanTo,     \* QGETDATA messages on the connection R -> peer
    chanFrom,   \* QDATA messages on the connection peer -> R
    connected,  \* an authenticated masternode connection R <-> peer exists
    pending,    \* AddPendingMasternode was called for the peer
    penalized,  \* R has called Misbehaving() with a positive score on the peer
    srvPenalized, \* the peer has called Misbehaving() with a positive score on R
    hasVvec,    \* R's CQuorum::quorumVvec != nullptr
    hasSk,      \* R's CQuorum::skShare.IsValid()
    dbVvec,     \* evoDb holds (DB_QUORUM_QUORUM_VVEC, quorumKey)
    dbSk,       \* evoDb holds (DB_QUORUM_SK_SHARE, quorumKey)
    thr,        \* the recovery task of each quorum
    queue,      \* recovery tasks pushed to the worker pool, not yet running
    synced,     \* masternodeSync.IsBlockchainSynced()
    crashed,    \* R dereferenced a null quorumVvec
    pool        \* the worker pool: "running"; "stopping" once Stop() raised
                \* quorumThreadInterrupt and waits in workerPool.stop(true);
                \* "stopped" once that returned

vars == <<reqs, srvReqs, chanTo, chanFrom, connected, pending, penalized, srvPenalized,
          hasVvec, hasSk, dbVvec, dbSk, thr, queue, synced, crashed, pool>>

VVEC == "vvec"   \* CQuorumDataRequest::QUORUM_VERIFICATION_VECTOR
ENC  == "enc"    \* CQuorumDataRequest::ENCRYPTED_CONTRIBUTIONS
Masks == SUBSET {VVEC, ENC} \ {{}}
NoReq == [none |-> TRUE]
NoPeer == "none"
Errors == {"NONE", "VVEC_MISSING", "NO_MEMBER", "ENC_MISSING"}
Payload == {"good", "bad", "absent"}
TaskPc == {"idle", "queued", "sync", "pick", "request", "aborted"}
AgeCap == ExpirationTimeout     \* ages are capped here: only >= Expiration matters
TaskAgeCap == RequestTimeout + 1  \* only > nRequestTimeout matters

Req == [q : Quorums, mask : Masks, age : 0..AgeCap, processed : BOOLEAN]
SrvReq == [q : Quorums, mask : Masks, age : 0..AgeCap]
GetData == [q : Quorums, mask : Masks]
Data == [q : Quorums, mask : Masks, err : Errors, vvec : Payload, enc : Payload]
Task == [pc : TaskPc, mask : SUBSET {VVEC, ENC}, tries : Nat,
         cur : Peers \cup {NoPeer}, age : 0..TaskAgeCap, ticked : BOOLEAN]

\* CQuorumDataRequest::IsExpired
IsExpired(r) == r.age >= ExpirationTimeout

\* fQuorumDataRecoveryThreadRunning
Running(q) == thr[q].pc # "idle"

-----------------------------------------------------------------------------
(* CQuorum's member lookups, on the members of the quorum base block and   *)
(* the commitment's validMembers.  Indices are 0-based, as in the code.    *)

\* CQuorum::GetMemberIndex: the first position of x, or -1
GetMemberIndex(q, x) == SelectInSeq(Members[q], LAMBDA m : m = x) - 1

\* CQuorum::IsValidMember: the validMembers bit of the first position of x
IsValidMember(q, x) ==
    LET i == GetMemberIndex(q, x) IN i # -1 /\ ValidMembers[q][i + 1]

\* CQuorum::GetPubKeyShare(memberIdx) is valid: memberIdx is a size_t, so the
\* -1 of GetMemberIndex arrives as SIZE_MAX and fails the bound check
GetPubKeyShare(q, memberIdx, vvec) ==
    /\ vvec
    /\ memberIdx # -1 /\ memberIdx < Len(Members[q])
    /\ ValidMembers[q][memberIdx + 1]

ByProTxHash(a, b) == ProTxHash[a] < ProTxHash[b]

\* fWeAreQuorumMember: pQuorum->IsValidMember(proTxHash)
WeAreQuorumMember == [q \in Quorums |-> IsValidMember(q, Me)]

\* vecMemberHashes of the recovery task: the valid members but R, sorted
MemberHashes ==
    [q \in Quorums |-> SetToSortSeq({m \in ToSet(Members[q]) : IsValidMember(q, m) /\ m # Me},
                                    ByProTxHash)]

\* GetQuorumRecoveryStartOffset: R's position in the sorted valid masternode
\* list (0 if absent), modulo validMembers.size()
StartOffset ==
    [q \in Quorums |->
        LET sorted == SetToSortSeq(MnList, ByProTxHash)
            nIndex == IF Me \in MnList THEN SelectInSeq(sorted, LAMBDA m : m = Me) - 1 ELSE 0
        IN nIndex % Len(ValidMembers[q])]

-----------------------------------------------------------------------------
(* Misbehaving(): only whether a peer was ever scored is kept.  The ban  *)
(* that a score of 100 brings is a disconnect, which ConnectionLost can    *)
(* take at any time anyway.                                                *)

Disconnect(p) ==
    /\ connected' = [connected EXCEPT ![p] = FALSE]
    /\ chanTo' = [chanTo EXCEPT ![p] = <<>>]
    /\ chanFrom' = [chanFrom EXCEPT ![p] = <<>>]

\* R's errorHandler(strError, nScore) ending the handling of a QDATA of p
Misbehaving(p, n) ==
    /\ penalized' = [penalized EXCEPT ![p] = @ \/ n > 0]
    /\ chanFrom' = [chanFrom EXCEPT ![p] = Tail(@)]
    /\ UNCHANGED <<connected, chanTo>>

-----------------------------------------------------------------------------
(* TriggerQuorumDataRecoveryThreads                                       *)

WeAreQuorumTypeMember == \E q \in Quorums : WeAreQuorumMember[q]

SyncCurrent ==
    \/ SyncMode = "Always"
    \/ SyncMode = "OnlyIfTypeMember" /\ WeAreQuorumTypeMember

\* nDataMask computed for quorum q
DataMask(q) ==
    (IF (WeAreQuorumMember[q] \/ SyncCurrent) /\ ~hasVvec[q] THEN {VVEC} ELSE {})
    \cup (IF WeAreQuorumMember[q] /\ ~hasSk[q] THEN {ENC} ELSE {})

\* StartQuorumDataRecoveryThread: flag set, task pushed to the pool
NewTask(mask) == [pc |-> "queued", mask |-> mask, tries |-> 0,
                  cur |-> NoPeer, age |-> TaskAgeCap, ticked |-> FALSE]

TriggerQuorumDataRecoveryThreads ==
    LET start == {q \in Quorums : ~Running(q) /\ DataMask(q) # {}}
    IN /\ thr' = [q \in Quorums |-> IF q \in start THEN NewTask(DataMask(q))
                                                  ELSE thr[q]]
       /\ queue' = queue \o SelectSeq(ScannedQuorums, LAMBDA q : q \in start)

\* (variant: the cleanup loop erases nothing)
CleanupNothing(rs) == rs

\* "Cleanup expired data requests": the expired entries are erased
CleanupExpired(rs) == [p \in Peers |-> IF rs[p] # NoReq /\ IsExpired(rs[p])
                                      THEN NoReq ELSE rs[p]]

\* UpdatedBlockTip of R: expired requests are erased, recovery triggered
UpdatedBlockTip ==
    /\ synced
    /\ reqs' = CleanupExpired(reqs)
    /\ TriggerQuorumDataRecoveryThreads
    /\ UNCHANGED <<srvReqs, chanTo, chanFrom, connected, pending, penalized, srvPenalized,
                   hasVvec, hasSk, dbVvec, dbSk, synced, crashed, pool>>

-----------------------------------------------------------------------------
(* The recovery task of StartQuorumDataRecoveryThread.                    *)

\* quorumThreadInterrupt has been raised by Stop()
Interrupted == pool # "running"

\* a worker of the pool takes the oldest queued task; once stop(true)
\* returned the pool has no threads
StartWorker ==
    /\ queue # <<>> /\ pool # "stopped"
    /\ Cardinality({q \in Quorums : thr[q].pc \in {"sync", "pick", "request"}}) < PoolSize
    /\ thr' = [thr EXCEPT ![Head(queue)].pc = "sync"]
    /\ queue' = Tail(queue)
    /\ UNCHANGED <<reqs, srvReqs, chanTo, chanFrom, connected, pending, penalized,
                   srvPenalized, hasVvec, hasSk, dbVvec, dbSk, synced, crashed, pool>>

\* the wait for IsBlockchainSynced() is over; vecMemberHashes is built
RecoverySynced(q) ==
    /\ thr[q].pc = "sync"
    /\ synced /\ ~Interrupted
    /\ thr' = [thr EXCEPT ![q].pc = "pick"]
    /\ UNCHANGED <<reqs, srvReqs, chanTo, chanFrom, connected, pending, penalized,
                   srvPenalized, hasVvec, hasSk, dbVvec, dbSk, queue, synced, crashed, pool>>

\* (variant: the sync wait does not look at quorumThreadInterrupt)
RecoveryAbortedAfterSync(q) ==
    /\ thr[q].pc = "sync"
    /\ synced /\ Interrupted
    /\ thr' = [thr EXCEPT ![q].pc = "aborted"]
    /\ UNCHANGED <<reqs, srvReqs, chanTo, chanFrom, connected, pending, penalized,
                   srvPenalized, hasVvec, hasSk, dbVvec, dbSk, queue, synced, crashed, pool>>

\* the sync wait ends on the interrupt and the task returns at "Aborted",
\* leaving fQuorumDataRecoveryThreadRunning set
RecoveryAborted(q) ==
    /\ thr[q].pc = "sync"
    /\ Interrupted
    /\ thr' = [thr EXCEPT ![q].pc = "aborted"]
    /\ UNCHANGED <<reqs, srvReqs, chanTo, chanFrom, connected, pending, penalized,
                   srvPenalized, hasVvec, hasSk, dbVvec, dbSk, queue, synced, crashed, pool>>

Elapsed(t) == t.age > RequestTimeout

\* the member tried next: vecMemberHashes[(nMyStartOffset + nTries) % size]
NextMember(q) ==
    MemberHashes[q][((StartOffset[q] + thr[q].tries) % Len(MemberHashes[q])) + 1]

AlreadyAsked(p) == reqs[p] # NoReq /\ ~IsExpired(reqs[p])

\* (variant: off by one in "nTries >= vecMemberHashes.size()")
AllTriedLate(q) == thr[q].tries > Len(MemberHashes[q])

\* every member was tried once
AllTried(q) == thr[q].tries >= Len(MemberHashes[q])

\* head of the while loop, run about once a second: drop the data kinds
\* received, stop on success or when every member was tried, and after a
\* timeout pick the next member
RecoveryLoop(q) ==
    LET t == [thr[q] EXCEPT !.ticked = FALSE]
        mask == t.mask \ ((IF hasVvec[q] THEN {VVEC} ELSE {})
                          \cup (IF hasSk[q] THEN {ENC} ELSE {}))
        p == NextMember(q)
    IN /\ thr[q].pc = "pick"
       /\ \/ /\ Interrupted                                      \* loop left, "Done"
             /\ thr' = [thr EXCEPT ![q] = [t EXCEPT !.pc = "idle"]]
             /\ UNCHANGED pending
          \/ /\ ~Interrupted /\ mask = {}                         \* "Success"
             /\ thr' = [thr EXCEPT ![q] = [t EXCEPT !.pc = "idle", !.mask = mask]]
             /\ UNCHANGED pending
          \/ /\ ~Interrupted /\ mask # {} /\ ~Elapsed(t)
             /\ thr' = [thr EXCEPT ![q] = [t EXCEPT !.pc = "request", !.mask = mask]]
             /\ UNCHANGED pending
          \/ /\ ~Interrupted /\ mask # {} /\ Elapsed(t)
             /\ AllTried(q)                                        \* "All tried but failed"
             /\ thr' = [thr EXCEPT ![q] = [t EXCEPT !.pc = "idle", !.mask = mask]]
             /\ UNCHANGED pending
          \/ /\ ~Interrupted /\ mask # {} /\ Elapsed(t)
             /\ ~AllTried(q)
             /\ AlreadyAsked(p)                                    \* "Already asked"
             /\ thr' = [thr EXCEPT ![q] = [t EXCEPT !.mask = mask, !.cur = p,
                                                    !.tries = @ + 1]]
             /\ UNCHANGED pending
          \/ /\ ~Interrupted /\ mask # {} /\ Elapsed(t)
             /\ ~AllTried(q)
             /\ ~AlreadyAsked(p)                                   \* "Connect"
             /\ thr' = [thr EXCEPT ![q] = [t EXCEPT !.pc = "request", !.mask = mask,
                                                    !.cur = p, !.tries = @ + 1, !.age = 0]]
             /\ pending' = [pending EXCEPT ![p] = TRUE]
    /\ UNCHANGED <<reqs, srvReqs, chanTo, chanFrom, connected, penalized, srvPenalized,
                   hasVvec, hasSk, dbVvec, dbSk, queue, synced, crashed, pool>>

(* RequestQuorumData(pFrom, llmqType, pQuorumIndex, nDataMask, proTxHash): *)
(* the entry is emplace()d, so an existing expired entry stays as it was, *)
(* and the message pushed is the entry in the table.                      *)
RequestAccepted(p) == ~AlreadyAsked(p)

RequestEntry(p, q, mask) ==
    IF reqs[p] = NoReq THEN [q |-> q, mask |-> mask, age |-> 0, processed |-> FALSE]
                       ELSE reqs[p]

RequestQuorumData(p, q, mask) ==
    LET e == RequestEntry(p, q, mask)
    IN /\ reqs' = [reqs EXCEPT ![p] = e]
       /\ chanTo' = [chanTo EXCEPT ![p] = Append(@, [q |-> e.q, mask |-> e.mask])]

\* the ForEachNode body for the connection to the current member, then the
\* one second sleep back to the loop head
RecoveryRequest(q) ==
    LET t == thr[q]
        p == t.cur
    IN /\ t.pc = "request"
       /\ \/ /\ ~(p # NoPeer /\ connected[p])
             /\ thr' = [thr EXCEPT ![q].pc = "pick"]
             /\ UNCHANGED <<reqs, chanTo, chanFrom, connected>>
          \/ /\ p # NoPeer /\ connected[p]
             /\ RequestAccepted(p)                                 \* "Requested"
             /\ Len(chanTo[p]) < MaxChan
             /\ RequestQuorumData(p, q, t.mask)
             /\ thr' = [thr EXCEPT ![q] = [@ EXCEPT !.pc = "pick", !.age = 0]]
             /\ UNCHANGED <<chanFrom, connected>>
          \/ /\ p # NoPeer /\ connected[p]
             /\ ~RequestAccepted(p)
             /\ IF reqs[p].processed                               \* "Processed"
                THEN /\ Disconnect(p)
                     /\ thr' = [thr EXCEPT ![q] = [@ EXCEPT !.pc = "pick", !.cur = NoPeer]]
                ELSE /\ thr' = [thr EXCEPT ![q].pc = "pick"]        \* "Waiting"
                     /\ UNCHANGED <<chanTo, chanFrom, connected>>
             /\ UNCHANGED reqs
    /\ UNCHANGED <<srvReqs, pending, penalized, srvPenalized, hasVvec, hasSk, dbVvec, dbSk,
                   queue, synced, crashed, pool>>

-----------------------------------------------------------------------------
(* ProcessMessage(QDATA) at R, for the message at the head of the         *)
(* connection from peer p.                                                 *)

\* the echoed request equals the table entry (operator!= of CQuorumDataRequest)
LikeRequested(m, e) == m.q = e.q /\ m.mask = e.mask

\* errorHandler with a penalized, for the three table checks
RejectData(p) ==
    /\ Misbehaving(p, 10)
    /\ UNCHANGED <<reqs, hasVvec, hasSk, dbVvec, dbSk, crashed>>

\* CQuorum::SetVerificationVector: the hash must match qc->quorumVvecHash
SetVerificationVector(m) == m.vvec = "good"

\* (variant: the vvec as it was before SetVerificationVector ran)
VvecBeforeSet(q, m) == hasVvec[q]

\* HasVerificationVector() once the vvec part of the QDATA was absorbed
VvecAfterSet(q, m) == hasVvec[q] \/ VVEC \in m.mask

\* decryption of every contribution, then CQuorum::SetSecretKeyShare: the
\* share must match GetPubKeyShare(GetMemberIndex(R)), invalid without a vvec
SetSecretKeyShare(q, m, vvec) ==
    m.enc = "good" /\ GetPubKeyShare(q, GetMemberIndex(q, Me), vvec)

\* CQuorum::WriteContributions: what is in memory is written, nothing erased
WriteContributions(q, vvec, sk) ==
    /\ dbVvec' = [dbVvec EXCEPT ![q] = @ \/ vvec]
    /\ dbSk' = [dbSk EXCEPT ![q] = @ \/ sk]

\* the entry is marked processed; the payload is then absorbed in order:
\* the vvec, the contributions, then WriteContributions.  The first check
\* that fails ends the handler.
AbsorbData(p, m) ==
    LET q == m.q
        wantE == ENC \in m.mask
        vvecBad == VVEC \in m.mask /\ ~SetVerificationVector(m)
        vvec == VvecAfterSet(q, m)
        noVvec == wantE /\ ~vvec                        \* quorumVvec->size() on nullptr
        noMember == wantE /\ GetMemberIndex(q, Me) = -1  \* "Not a member of the quorum"
        encBad == wantE /\ ~SetSecretKeyShare(q, m, vvec)  \* "Failed to decrypt" / "Invalid secret key share"
        sk == hasSk[q] \/ wantE
        outcome == IF m.err # "NONE" THEN "error"
                   ELSE IF vvecBad THEN "vvecBad"
                   ELSE IF noVvec THEN "noVvec"
                   ELSE IF noMember THEN "noMember"
                   ELSE IF encBad THEN "encBad"
                   ELSE "written"
    IN /\ reqs' = [reqs EXCEPT ![p].processed = TRUE]
       /\ Misbehaving(p, IF outcome \in {"vvecBad", "encBad"} THEN 10 ELSE 0)
       /\ crashed' = (crashed \/ outcome = "noVvec")
       /\ hasVvec' = IF outcome \in {"noMember", "encBad", "written"}
                       THEN [hasVvec EXCEPT ![q] = vvec] ELSE hasVvec
       /\ hasSk' = IF outcome = "written" THEN [hasSk EXCEPT ![q] = sk] ELSE hasSk
       /\ IF outcome = "written" THEN WriteContributions(q, vvec, sk)
                                 ELSE UNCHANGED <<dbVvec, dbSk>>

ProcessQData(p) ==
    LET m == Head(chanFrom[p])
        e == reqs[p]
    IN /\ connected[p] /\ chanFrom[p] # <<>>
       /\ \/ e = NoReq /\ RejectData(p)                        \* "Not requested"
          \/ e # NoReq /\ e.processed /\ RejectData(p)         \* "Already received"
          \/ e # NoReq /\ ~e.processed /\ ~LikeRequested(m, e)
             /\ RejectData(p)                                  \* "Not like requested"
          \/ e # NoReq /\ ~e.processed /\ LikeRequested(m, e)
             /\ AbsorbData(p, m)
       /\ UNCHANGED <<srvReqs, pending, srvPenalized, thr, queue, synced, pool>>

-----------------------------------------------------------------------------
(* ProcessMessage(QGETDATA) at peer p, for the message at the head of the *)
(* connection from R.  "Request limit exceeded" scores R but does not     *)
(* return: the request is still answered.                                  *)

ServeError(p, m) ==
    CASE VVEC \in m.mask /\ ~SrvVvec[p][m.q] -> "VVEC_MISSING"
      [] ENC \in m.mask /\ GetMemberIndex(m.q, Me) = -1 -> "NO_MEMBER"
      [] ENC \in m.mask /\ ~SrvEnc[p][m.q]   -> "ENC_MISSING"
      [] OTHER                               -> "NONE"

Reply(p, m, err, vv, en) ==
    [q |-> m.q, mask |-> m.mask, err |-> err,
     vvec |-> IF err = "NONE" /\ VVEC \in m.mask THEN vv ELSE "absent",
     enc |-> IF err = "NONE" /\ ENC \in m.mask THEN en ELSE "absent"]

\* the peer's table update, its score of R and the reply
Serve(p, m, reply) ==
    LET dup == srvReqs[p] # NoReq /\ ~IsExpired(srvReqs[p])   \* "Request limit exceeded"
    IN /\ srvReqs' = [srvReqs EXCEPT ![p] = IF dup THEN @
                                           ELSE [q |-> m.q, mask |-> m.mask, age |-> 0]]
       /\ srvPenalized' = [srvPenalized EXCEPT ![p] = @ \/ dup]
       /\ chanTo' = [chanTo EXCEPT ![p] = Tail(@)]
       /\ chanFrom' = [chanFrom EXCEPT ![p] = Append(@, reply)]
       /\ UNCHANGED connected

ProcessQGetData(p) ==
    LET m == Head(chanTo[p])
    IN /\ connected[p] /\ chanTo[p] # <<>>
       /\ Len(chanFrom[p]) < MaxChan
       /\ IF p \in Byz
            THEN \E err \in Errors, vv \in {"good", "bad"}, en \in {"good", "bad"} :
                    Serve(p, m, Reply(p, m, err, vv, en))
            ELSE Serve(p, m, Reply(p, m, ServeError(p, m), "good", "good"))
       /\ UNCHANGED <<reqs, pending, penalized, hasVvec, hasSk, dbVvec, dbSk, thr,
                      queue, synced, crashed, pool>>

\* UpdatedBlockTip of peer p: its expired entries are erased
PeerUpdatedBlockTip(p) ==
    /\ srvReqs[p] # NoReq /\ IsExpired(srvReqs[p])
    /\ srvReqs' = [srvReqs EXCEPT ![p] = NoReq]
    /\ UNCHANGED <<reqs, chanTo, chanFrom, connected, pending, penalized, srvPenalized,
                   hasVvec, hasSk, dbVvec, dbSk, thr, queue, synced, crashed, pool>>

-----------------------------------------------------------------------------
(* Environment: time, the connection manager, chain sync.                 *)

Older(a, cap) == IF a < cap THEN a + 1 ELSE a

Tick ==
    /\ reqs' = [p \in Peers |-> IF reqs[p] = NoReq THEN NoReq
                                ELSE [reqs[p] EXCEPT !.age = Older(@, AgeCap)]]
    /\ srvReqs' = [p \in Peers |-> IF srvReqs[p] = NoReq THEN NoReq
                                   ELSE [srvReqs[p] EXCEPT !.age = Older(@, AgeCap)]]
    \* the recovery loop sleeps one second per iteration, far below the
    \* unit of time here: every looping task iterates between two ticks
    /\ \A q \in Quorums : thr[q].pc \in {"pick", "request"} => ~thr[q].ticked
    /\ thr' = [q \in Quorums |-> [thr[q] EXCEPT !.age = Older(@, TaskAgeCap),
                                           !.ticked = @ \/ thr[q].pc \in {"pick", "request"}]]
    /\ UNCHANGED <<chanTo, chanFrom, connected, pending, penalized, srvPenalized, hasVvec,
                   hasSk, dbVvec, dbSk, queue, synced, crashed, pool>>

\* the connection manager opens a pending masternode connection
Connect(p) ==
    /\ pending[p] /\ ~connected[p]
    /\ connected' = [connected EXCEPT ![p] = TRUE]
    /\ pending' = [pending EXCEPT ![p] = FALSE]
    /\ UNCHANGED <<reqs, srvReqs, chanTo, chanFrom, penalized, srvPenalized, hasVvec, hasSk,
                   dbVvec, dbSk, thr, queue, synced, crashed, pool>>

\* the connection drops, losing what is in flight on it
ConnectionLost(p) ==
    /\ connected[p]
    /\ Disconnect(p)
    /\ UNCHANGED <<reqs, srvReqs, pending, penalized, srvPenalized, hasVvec, hasSk,
                   dbVvec, dbSk, thr, queue, synced, crashed, pool>>

\* masternodeSync is reset and waits for the chain again
SyncLost ==
    /\ SyncLoss /\ synced
    /\ synced' = FALSE
    /\ UNCHANGED <<reqs, srvReqs, chanTo, chanFrom, connected, pending, penalized,
                   srvPenalized, hasVvec, hasSk, dbVvec, dbSk, thr, queue, crashed, pool>>

\* CQuorumManager::Stop: quorumThreadInterrupt(), then clear_queue(): the
\* queued tasks never run and keep their flag set
Stop ==
    /\ Shutdown /\ pool = "running"
    /\ pool' = "stopping"
    /\ queue' = <<>>
    /\ UNCHANGED <<reqs, srvReqs, chanTo, chanFrom, connected, pending, penalized,
                   srvPenalized, hasVvec, hasSk, dbVvec, dbSk, thr, synced, crashed>>

\* workerPool.stop(true) returns once no worker runs a task and the tasks
\* pushed meanwhile have run
StopJoined ==
    /\ pool = "stopping"
    /\ queue = <<>> /\ \A q \in Quorums : thr[q].pc \notin {"sync", "pick", "request"}
    /\ pool' = "stopped"
    /\ UNCHANGED <<reqs, srvReqs, chanTo, chanFrom, connected, pending, penalized,
                   srvPenalized, hasVvec, hasSk, dbVvec, dbSk, thr, queue, synced, crashed>>

BlockchainSynced ==
    /\ ~synced
    /\ synced' = TRUE
    /\ UNCHANGED <<reqs, srvReqs, chanTo, chanFrom, connected, pending, penalized,
                   srvPenalized, hasVvec, hasSk, dbVvec, dbSk, thr, queue, crashed, pool>>

-----------------------------------------------------------------------------

\* every quorum was built by BuildQuorumFromCommitment: its vvec and skShare
\* were read from evoDb or aggregated from the DKG and written to it
Init ==
    /\ reqs = [p \in Peers |-> NoReq]
    /\ srvReqs = [p \in Peers |-> NoReq]
    /\ chanTo = [p \in Peers |-> <<>>]
    /\ chanFrom = [p \in Peers |-> <<>>]
    /\ connected = [p \in Peers |-> FALSE]
    /\ pending = [p \in Peers |-> FALSE]
    /\ penalized = [p \in Peers |-> FALSE]
    /\ srvPenalized = [p \in Peers |-> FALSE]
    /\ hasVvec \in [Quorums -> BOOLEAN]
    /\ hasSk \in {f \in [Quorums -> BOOLEAN] : \A q \in Quorums : f[q] => hasVvec[q]}
    /\ dbVvec = hasVvec
    /\ dbSk = hasSk
    /\ thr = [q \in Quorums |-> [pc |-> "idle", mask |-> {}, tries |-> 0,
                                 cur |-> NoPeer, age |-> TaskAgeCap, ticked |-> FALSE]]
    /\ queue = <<>>
    /\ synced \in BOOLEAN
    /\ crashed = FALSE
    /\ pool = "running"

RecoveryStep(q) ==
    RecoverySynced(q) \/ RecoveryAborted(q) \/ RecoveryLoop(q) \/ RecoveryRequest(q)

Next ==
    \/ UpdatedBlockTip
    \/ StartWorker
    \/ \E q \in Quorums : RecoveryStep(q)
    \/ \E p \in Peers : ProcessQData(p) \/ ProcessQGetData(p) \/ PeerUpdatedBlockTip(p)
    \/ \E p \in Peers : Connect(p) \/ ConnectionLost(p)
    \/ Tick
    \/ BlockchainSynced \/ SyncLost
    \/ Stop \/ StopJoined

\* The worker threads, the message handler, the scheduler of blocks and
\* time and the thread in Stop() keep running; a lost connection is not
\* assumed to recur.  Neither chain sync nor Stop() is assumed to come:
\* the properties that need sync say so.
Fairness ==
    /\ WF_vars(StartWorker)
    /\ \A q \in Quorums : WF_vars(RecoveryStep(q))
    /\ \A p \in Peers : WF_vars(ProcessQData(p)) /\ WF_vars(ProcessQGetData(p))
    /\ WF_vars(UpdatedBlockTip)
    /\ WF_vars(Tick)
    /\ WF_vars(StopJoined)
    /\ \A p \in Peers : WF_vars(Connect(p))

Spec == Init /\ [][Next]_vars /\ Fairness

-----------------------------------------------------------------------------
(* Properties                                                              *)

TypeOK ==
    /\ reqs \in [Peers -> Req \cup {NoReq}]
    /\ srvReqs \in [Peers -> SrvReq \cup {NoReq}]
    /\ chanTo \in [Peers -> Seq(GetData)]
    /\ chanFrom \in [Peers -> Seq(Data)]
    /\ \A p \in Peers : Len(chanTo[p]) <= MaxChan /\ Len(chanFrom[p]) <= MaxChan
    /\ connected \in [Peers -> BOOLEAN] /\ pending \in [Peers -> BOOLEAN]
    /\ penalized \in [Peers -> BOOLEAN] /\ srvPenalized \in [Peers -> BOOLEAN]
    /\ hasVvec \in [Quorums -> BOOLEAN] /\ hasSk \in [Quorums -> BOOLEAN]
    /\ dbVvec \in [Quorums -> BOOLEAN] /\ dbSk \in [Quorums -> BOOLEAN]
    /\ thr \in [Quorums -> Task]
    /\ \A q \in Quorums : thr[q].tries <= Len(MemberHashes[q])
    /\ queue \in Seq(Quorums)
    /\ synced \in BOOLEAN /\ crashed \in BOOLEAN
    /\ pool \in {"running", "stopping", "stopped"}

\* The QDATA handler never reaches pQuorum->quorumVvec->size() while the
\* quorum has no verification vector: a recovery task asks for the
\* encrypted contributions alone only once the vvec is there.
NoNullVvecDeref == ~crashed

\* Once the chain stays synced, every recovery task started by
\* TriggerQuorumDataRecoveryThreads ends and clears
\* fQuorumDataRecoveryThreadRunning, or the manager is stopped: it tries
\* each member once, and a request left in the table after expiry is erased
\* at the next block.
RecoveryTerminates ==
    <>[]synced => \A q \in Quorums : Running(q) ~> (~Running(q) \/ Interrupted)

\* Stop() returns: once quorumThreadInterrupt is raised every task on a
\* worker leaves it, whether it waits for chain sync that never comes, walks
\* the members or waits for an answer, and the tasks a new block pushes in
\* the meantime return at once, so workerPool.stop(true) does not wait
\* forever.
StopJoins == pool = "stopping" ~> pool = "stopped"

\* Every QGETDATA that RequestQuorumData pushes to a peer asks for the
\* quorum and the data kinds that the calling recovery task asked for.
SentAsRequested ==
    [][\A p \in Peers :
         Len(chanTo'[p]) > Len(chanTo[p]) =>
            \E q \in Quorums : /\ thr[q].pc = "request" /\ thr[q].cur = p
                               /\ Last(chanTo'[p]) = [q |-> q, mask |-> thr[q].mask]]_vars

\* An honest peer answers a QGETDATA only when it holds no unexpired
\* request from R: a duplicate within the expiry is refused.
DuplicateRefused ==
    [][\A p \in Peers \ Byz :
         Len(chanFrom'[p]) > Len(chanFrom[p]) =>
            srvReqs[p] = NoReq \/ IsExpired(srvReqs[p])]_vars

\* Once connections stop dropping and every message is delivered before
\* time moves on, every quorum whose missing data a member can serve ends up
\* with that data: the recovery tasks that every new block re-triggers reach
\* a member that answers within the request timeout.
Recovered(q) ==
    /\ (WeAreQuorumMember[q] \/ SyncCurrent) => hasVvec[q]
    /\ WeAreQuorumMember[q] => hasSk[q]

InFlight == \E p \in Peers : chanTo[p] # <<>> \/ chanFrom[p] # <<>>

EventuallyRecovered ==
    (<>[]synced /\ <>[][(\A p \in Peers : ~ConnectionLost(p)) /\ (Tick => ~InFlight)]_vars)
        => \A q \in Quorums : <>Recovered(q)
=============================================================================
