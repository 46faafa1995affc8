------------------------------ MODULE QuorumScan ------------------------------
(***************************************************************************)
(* CQuorumManager::ScanQuorums (src/llmq/quorums.cpp) for one LLMQ type:  *)
(* the newest nCountRequested quorums mined at or below a start block,    *)
(* served from, extended beyond, and stored into scanQuorumsCache.        *)
(*                                                                         *)
(* Blocks are the heights of one chain: the cache is keyed by block hash,  *)
(* so the blocks of another branch are other keys.  A quorum is named by   *)
(* the height of its base block, a multiple of the DKG interval; its      *)
(* commitment is mined later in that interval, before the next base block. *)
(***************************************************************************)
EXTENDS Naturals, Sequences, SequencesExt, FiniteSets

CONSTANTS
    MaxHeight,   \* blocks 1..MaxHeight
    Interval,    \* dkgInterval: quorum base blocks are its multiples
    MaxCount,    \* largest nCountRequested of a call
    CacheSize    \* scanQuorumsCache[llmqType].max_size()

Heights == 1..MaxHeight
NoBlock == 0     \* pindexStart == nullptr, or the pprev of the first block
Bases == {h \in Heights : h % Interval = 0}
\* the blocks after its base in which a quorum's commitment can be mined
Lags == 1..(Interval - 1)

\* the mined commitments: base block -> the block it is mined in
MinedIndex == UNION {[B -> Heights] : B \in SUBSET Bases}
IsMinedIndex(f) == \A h \in DOMAIN f : f[h] - h \in Lags

ASSUME CacheSize >= 1 /\ MaxCount >= 1 /\ Interval >= 2

VARIABLES
    mined,   \* the quorums whose commitment is mined: base -> block mined in
    cache,   \* scanQuorumsCache[llmqType]: start block -> quorums, newest first
    lru,     \* the cache's keys, least recently used first
    ret      \* [start, count, result] of the last ScanQuorums call

vars == <<mined, cache, lru, ret>>

-----------------------------------------------------------------------------
(* The commitment index of quorumBlockProcessor                           *)

\* the quorums whose commitment is mined at or below block b, newest
\* commitment first
MinedUntil(b) ==
    SortSeq(SetToSeq({h \in DOMAIN mined : mined[h] <= b}), LAMBDA x, y : mined[x] > mined[y])

\* GetMinedCommitmentsUntilBlock(llmqType, pindex, maxCount)
GetMinedCommitmentsUntilBlock(b, n) ==
    SubSeq(MinedUntil(b), 1, IF n < Len(MinedUntil(b)) THEN n ELSE Len(MinedUntil(b)))

Prefix(s, n) == SubSeq(s, 1, IF n < Len(s) THEN n ELSE Len(s))

MaxOf(a, b) == IF a > b THEN a ELSE b

-----------------------------------------------------------------------------
(* The bounded cache (unordered_lru_cache)                                *)

\* get(): a hit makes the key the most recently used
CacheGet(b) ==
    IF b \in DOMAIN cache THEN Append(SelectSeq(lru, LAMBDA k : k # b), b) ELSE lru

CacheEmplace(b, v, order) ==
    LET keys == Append(SelectSeq(order, LAMBDA k : k # b), b)
        kept == IF Len(keys) > CacheSize THEN Tail(keys) ELSE keys
    IN /\ cache' = [k \in ToSet(kept) |-> IF k = b THEN v ELSE cache[k]]
       /\ lru' = kept

-----------------------------------------------------------------------------
(* ScanQuorums(llmqType, pindexStart, nCountRequested)                    *)

\* (variant: the rest is scanned from before the newest cached quorum)
ContinueAtNewest(s) == s[1] - 1

\* where the scan for the rest starts: the block before the oldest cached
\* quorum's base block (vecResultQuorums.back()->pindexQuorum->pprev)
ContinueBefore(s) == s[Len(s)] - 1

ScanQuorums(b, n) ==
    LET hit == b \in DOMAIN cache
        cached == IF hit THEN cache[b] ELSE <<>>
        \* a hit with enough quorums is answered from the cache alone
        served == hit /\ Len(cached) >= n
        from == IF hit /\ Len(cached) > 0 THEN ContinueBefore(cached) ELSE b
        nScan == IF ~hit THEN MaxOf(n, CacheSize)
                 ELSE IF Len(cached) > 0 THEN n - Len(cached) ELSE n
        result == cached \o GetMinedCommitmentsUntilBlock(from, nScan)
    IN \/ /\ n = 0
          /\ ret' = [start |-> b, count |-> n, result |-> <<>>]
          /\ UNCHANGED <<cache, lru>>
       \/ /\ n > 0 /\ served
          /\ ret' = [start |-> b, count |-> n, result |-> Prefix(cached, n)]
          /\ lru' = CacheGet(b)
          /\ UNCHANGED cache
       \/ /\ n > 0 /\ ~served
          /\ ret' = [start |-> b, count |-> n, result |-> Prefix(result, n)]
          /\ IF Len(result) > 0 /\ ~hit
               THEN CacheEmplace(b, Prefix(result, CacheSize), CacheGet(b))
               ELSE /\ lru' = CacheGet(b)
                    /\ UNCHANGED cache

Scan == \E b \in Heights, n \in 0..MaxCount : ScanQuorums(b, n)

-----------------------------------------------------------------------------

Init ==
    /\ mined \in {f \in MinedIndex : IsMinedIndex(f)}
    /\ cache = <<>>
    /\ lru = <<>>
    /\ ret = [start |-> NoBlock, count |-> 0, result |-> <<>>]

Next == Scan /\ UNCHANGED mined

Spec == Init /\ [][Next]_vars

-----------------------------------------------------------------------------
(* Properties                                                              *)

TypeOK ==
    /\ mined \in MinedIndex
    /\ DOMAIN cache \subseteq Heights
    /\ \A b \in DOMAIN cache : cache[b] \in Seq(Heights) /\ Len(cache[b]) <= CacheSize
    /\ lru \in Seq(Heights) /\ ToSet(lru) = DOMAIN cache /\ Len(lru) <= CacheSize
    /\ ret.start \in Heights \cup {NoBlock} /\ ret.count \in 0..MaxCount
    /\ ret.result \in Seq(Heights)

\* The promise of ScanQuorums, without the cache.
ScanSpec == INSTANCE QuorumScanSpec

\* QuorumScan implements QuorumScanSpec: whatever scanQuorumsCache holds,
\* every ScanQuorums(b, n) returns exactly the newest n quorums mined at or
\* below b, newest first, as a walk down the chain from b finds them: an
\* exact or larger cache entry is cut to n, and a smaller one is extended by
\* a scan that starts before its oldest quorum.
ScanRefinesSpec == ScanSpec!Spec

=============================================================================
