---------------------------- MODULE QuorumScanSpec ----------------------------
(***************************************************************************)
(* What CQuorumManager::ScanQuorums promises its callers (section 4 of the *)
(* design), without scanQuorumsCache: a call for start block b and count n *)
(* returns the newest n quorums whose commitment is mined at or below b,   *)
(* newest commitment first, and leaves the mined commitments alone.        *)
(*                                                                         *)
(* QuorumScan, with its cache, is checked to implement this specification. *)
(***************************************************************************)
EXTENDS Naturals, Sequences

CONSTANTS
    MaxHeight,   \* blocks 1..MaxHeight
    Interval,    \* dkgInterval: quorum base blocks are its multiples
    MaxCount     \* largest nCountRequested of a call

VARIABLES
    mined,   \* the quorums whose commitment is mined: base -> block mined in
    ret      \* [start, count, result] of the last call

\* the quorums of the newest n commitments mined at or below block b,
\* walking the chain down from b one block at a time
RECURSIVE NewestMined(_, _)
NewestMined(b, n) ==
    LET here == {h \in DOMAIN mined : mined[h] = b}
    IN IF n = 0 \/ b = 0 THEN <<>>
       ELSE IF here # {} THEN <<CHOOSE h \in here : TRUE>> \o NewestMined(b - 1, n - 1)
       ELSE NewestMined(b - 1, n)

Init ==
    /\ mined \in {f \in UNION {[B -> 1..MaxHeight] : B \in SUBSET {h \in 1..MaxHeight : h % Interval = 0}} :
                    \A h \in DOMAIN f : f[h] - h \in 1..(Interval - 1)}
    /\ ret = [start |-> 0, count |-> 0, result |-> <<>>]

Scan(b, n) ==
    /\ ret' = [start |-> b, count |-> n, result |-> NewestMined(b, n)]
    /\ UNCHANGED mined

Next == \E b \in 1..MaxHeight, n \in 0..MaxCount : Scan(b, n)

Spec == Init /\ [][Next]_<<mined, ret>>

=============================================================================
