----------------------------- MODULE WalletRescan -----------------------------
(***************************************************************************)
(* The key import RPCs of src/wallet/rpcdump.cpp (importprivkey,           *)
(* importaddress, importpubkey, importwallet, importelectrumwallet,        *)
(* importmulti, importprunedfunds, removeprunedfunds), abortrescan and    *)
(* the dump RPCs, run by concurrent RPC threads against one wallet.        *)
(*                                                                         *)
(* A key (or script) k is paid by one transaction, in block TxAt[k]; found *)
(* holds the keys whose transaction the wallet has.  Blocks 0..Tip have    *)
(* time b.  The wallet side the RPCs call (WalletRescanReserver,           *)
(* RescanFromTime, ScanForWalletTransactions, AbortRescan) is not in the   *)
(* repository: it is modelled as its interface behaves, the scan as one   *)
(* step per block, each taking cs_main and cs_wallet.                      *)
(***************************************************************************)
EXTENDS Integers, Sequences, FiniteSets, DumpString

CONSTANTS
    Clients,        \* RPC threads
    Keys,           \* keys and scripts
    Tip,            \* height (and time) of the tip
    Window,         \* TIMESTAMP_WINDOW
    TxAt,           \* [Keys -> 1..Tip]: the block of the transaction paying k
    Unreadable,     \* blocks whose ReadBlockFromDisk fails (pruned, corrupt)
    DumpTime,       \* [Keys -> Nat]: the creation time a wallet dump records
    Files,          \* the dumps importwallet may read: [keys -> the name the
                    \* dumping wallet's address book gave the key]
    ElectrumFiles,  \* the key sets of the exports importelectrumwallet may read
    StartHeights,   \* the "index" arguments of importelectrumwallet
    Requests,       \* importmulti arrays: sequences of <<key, priv, ts, valid>>
    MaxCalls,       \* bound on the RPC calls of a behaviour
    HdWallet,       \* the wallet has an HD chain
    NoClient,
    NoName          \* no address-book entry

ASSUME /\ TxAt \in [Keys -> 1..Tip] /\ Unreadable \subseteq 1..Tip /\ HdWallet \in BOOLEAN
       /\ NoClient \notin Clients
       /\ \A rq \in Requests : \A i \in DOMAIN rq :
             rq[i] \in Keys \X BOOLEAN \X Nat \X BOOLEAN

TIMESTAMP_MIN == 0

\* the label of importprivkey, importaddress, importpubkey and importmulti
\* when the call gives none: ""
DefaultLabel == <<>>

VARIABLES
    keys,       \* HaveKey: private keys in the wallet
    watch,      \* HaveWatchOnly: watch-only scripts
    found,      \* keys whose transaction is in mapWallet
    scanning,   \* fScanningWallet: the thread holding the WalletRescanReserver
    abortFlag,  \* fAbortRescan
    csMain,     \* the thread holding cs_main and cs_wallet across its call
    th,         \* per thread: the call in progress
    calls,      \* calls made so far
    last,       \* the reply of the last call returned
    book        \* mapAddressBook: the name of each key, or NoName

vars == <<keys, watch, found, scanning, abortFlag, csMain, th, calls, last, book>>

\* pc: "idle"; "rescan" before ScanForWalletTransactions starts; "scan"
\* while it walks the blocks (next, the last unreadable one in failed, 0 if
\* none); "scanned" once it returned.  t is the time RescanFromTime was
\* given, claims the <<key, time>> pairs a successful reply vouches for
\* (every transaction paying key at or after time was found by the scan),
\* hits the keys whose transaction this call's scan found.
Idle == [pc |-> "idle", rpc |-> "none", n |-> 0, t |-> 0, next |-> 0, failed |-> 0,
         req |-> <<>>, res |-> <<>>, claims |-> {}, hits |-> {}]

MaxI(a, b) == IF a > b THEN a ELSE b
MinOf(S) == CHOOSE x \in S : \A y \in S : x <= y

IsMine(k) == k \in keys \cup watch

-----------------------------------------------------------------------------
(* Calls                                                                   *)

\* a new call of thread c
Call(c) ==
    /\ th[c].pc = "idle" /\ calls < MaxCalls
    /\ calls' = calls + 1

\* LOCK(cs_wallet) or LOCK2(cs_main, cs_wallet) can be taken: no thread
\* holds them across its call
CsWalletFree == csMain = NoClient

\* the call returns; the WalletRescanReserver it holds is released
Return(c, n, rpc, ok, claims) ==
    /\ last' = [rpc |-> rpc, n |-> n, ok |-> ok, claims |-> claims, hits |-> th[c].hits]
    /\ scanning' = IF scanning = c THEN NoClient ELSE scanning

\* the call returns at once (an error, or no rescan)
Reply(c, rpc, ok, claims) ==
    /\ UNCHANGED th
    /\ Return(c, calls + 1, rpc, ok, claims)

\* RescanFromTime(t): the scan starts at the earliest block with a time of
\* at least t - TIMESTAMP_WINDOW; without one nothing is scanned
RescanFor(c, rpc, t, claims, req, res) ==
    /\ th' = [th EXCEPT ![c] = [Idle EXCEPT !.pc = IF t - Window <= Tip THEN "rescan" ELSE "scanned",
                                            !.rpc = rpc, !.n = calls + 1, !.t = t,
                                            !.next = MaxI(t - Window, 0), !.claims = claims,
                                            !.req = req, !.res = res]]
    /\ scanning' = c
    /\ UNCHANGED last

Rescan(c, rpc, t, claims) == RescanFor(c, rpc, t, claims, <<>>, <<>>)

\* RescanFromTime's result: the time after the last block it failed to read
ScannedTime(c) == IF th[c].failed # 0 THEN th[c].failed + Window + 1 ELSE th[c].t

\* the thread's scan returned: not aborted and complete from time t
RescanOk(c, t) == ~abortFlag /\ ScannedTime(c) <= t

\* (variant: the reservation is not asked for)
importprivkeyUnreserved(c) ==
    \E k \in Keys, rescan \in BOOLEAN :
      /\ Call(c) /\ CsWalletFree
      /\ book' = [book EXCEPT ![k] = DefaultLabel]
      /\ IF k \in keys
           THEN Reply(c, "importprivkey", TRUE, {}) /\ UNCHANGED keys
         ELSE /\ keys' = keys \cup {k}
              /\ IF rescan THEN Rescan(c, "importprivkey", TIMESTAMP_MIN, {<<k, TIMESTAMP_MIN>>})
                           ELSE Reply(c, "importprivkey", TRUE, {})
      /\ UNCHANGED <<watch, found, abortFlag, csMain>>

\* importprivkey: under cs_wallet, reserve if rescanning; the key's address
\* gets the label; a key already in the wallet returns at once, without a
\* rescan
importprivkey(c) ==
    \E k \in Keys, rescan \in BOOLEAN :
      /\ Call(c) /\ CsWalletFree
      /\ IF rescan /\ scanning # NoClient
           THEN Reply(c, "importprivkey", FALSE, {}) /\ UNCHANGED <<keys, book>>
         ELSE /\ book' = [book EXCEPT ![k] = DefaultLabel]
              /\ IF k \in keys
                   THEN Reply(c, "importprivkey", TRUE, {}) /\ UNCHANGED keys
                 ELSE /\ keys' = keys \cup {k}
                      /\ IF rescan THEN Rescan(c, "importprivkey", TIMESTAMP_MIN, {<<k, TIMESTAMP_MIN>>})
                                   ELSE Reply(c, "importprivkey", TRUE, {})
      /\ UNCHANGED <<watch, found, abortFlag, csMain>>

importprivkeyRescanned(c) ==
    /\ th[c].pc = "scanned" /\ th[c].rpc = "importprivkey"
    /\ th' = [th EXCEPT ![c] = Idle]
    /\ LET ok == RescanOk(c, TIMESTAMP_MIN)
       IN Return(c, th[c].n, "importprivkey", ok, IF ok THEN th[c].claims ELSE {})
    /\ UNCHANGED <<keys, watch, found, abortFlag, csMain, calls, book>>

\* ImportScript / ImportAddress: refused if the key is spendable
ImportScript(k) == k \notin keys

\* importaddress and importpubkey: reserve (a reservation held elsewhere is
\* reported at once, without a lock), then import under cs_wallet and give
\* the address the label
ImportWatchOnly(c, rpc) ==
    \E k \in Keys, rescan \in BOOLEAN :
      /\ Call(c)
      /\ IF rescan /\ scanning # NoClient
           THEN Reply(c, rpc, FALSE, {}) /\ UNCHANGED <<watch, book>>
         ELSE /\ CsWalletFree
              /\ IF ~ImportScript(k)
                   THEN Reply(c, rpc, FALSE, {}) /\ UNCHANGED <<watch, book>>
                 ELSE /\ watch' = watch \cup {k}
                      /\ book' = [book EXCEPT ![k] = DefaultLabel]
                      /\ IF rescan THEN Rescan(c, rpc, TIMESTAMP_MIN, {<<k, TIMESTAMP_MIN>>})
                                   ELSE Reply(c, rpc, TRUE, {})
      /\ UNCHANGED <<keys, found, abortFlag, csMain>>

importaddress(c) == ImportWatchOnly(c, "importaddress")

importpubkey(c) == ImportWatchOnly(c, "importpubkey")

\* after the rescan of importaddress / importpubkey
ImportWatchOnlyRescanned(c) ==
    /\ th[c].pc = "scanned" /\ th[c].rpc \in {"importaddress", "importpubkey"}
    /\ th' = [th EXCEPT ![c] = Idle]
    /\ LET ok == RescanOk(c, TIMESTAMP_MIN)
       IN Return(c, th[c].n, th[c].rpc, ok, IF ok THEN th[c].claims ELSE {})
    /\ UNCHANGED <<keys, watch, found, abortFlag, csMain, calls, book>>

\* the name importwallet reads from the token "label=..." that dumpwallet
\* wrote for a key named name
ReadLabel(name) == DecodeDumpString(LabelToken(EncodeDumpString(name)))

\* the address book after importwallet added the keys added of dump f:
\* each gets the label read from its line
RestoredBook(f, added) == [k \in Keys |-> IF k \in added THEN ReadLabel(f[k]) ELSE book[k]]

\* (variant: nTimeBegin stays the tip's time)
importwalletFromTip(c) ==
    \E f \in Files :
      /\ Call(c)
      /\ IF scanning # NoClient
           THEN Reply(c, "importwallet", FALSE, {}) /\ UNCHANGED <<keys, book>>
           ELSE /\ CsWalletFree
                /\ LET added == DOMAIN f \ keys
                   IN /\ keys' = keys \cup added
                      /\ book' = RestoredBook(f, added)
                      /\ Rescan(c, "importwallet", Tip, {<<k, DumpTime[k]>> : k \in added})
      /\ UNCHANGED <<watch, found, abortFlag, csMain>>

\* importwallet: reserve, then add the dump's keys that are not there yet,
\* each with its label; the rescan starts at the earliest creation time
\* among them, or at the tip's time.  The dump's redeem scripts (the
\* script loop) are left out: whether a P2SH output is the wallet's
\* depends on the keys of its script.
importwallet(c) ==
    \E f \in Files :
      /\ Call(c)
      /\ IF scanning # NoClient
           THEN Reply(c, "importwallet", FALSE, {}) /\ UNCHANGED <<keys, book>>
           ELSE /\ CsWalletFree
                /\ LET added == DOMAIN f \ keys
                       nTimeBegin == MinOf({Tip} \cup {DumpTime[k] : k \in added})
                   IN /\ keys' = keys \cup added
                      /\ book' = RestoredBook(f, added)
                      /\ Rescan(c, "importwallet", nTimeBegin, {<<k, DumpTime[k]>> : k \in added})
      /\ UNCHANGED <<watch, found, abortFlag, csMain>>

importwalletRescanned(c) ==
    /\ th[c].pc = "scanned" /\ th[c].rpc = "importwallet"
    /\ th' = [th EXCEPT ![c] = Idle]
    /\ LET ok == RescanOk(c, th[c].t)
       IN Return(c, th[c].n, "importwallet", ok, IF ok THEN th[c].claims ELSE {})
    /\ UNCHANGED <<keys, watch, found, abortFlag, csMain, calls, book>>

\* (variant: an index above the tip is not lowered to it)
importelectrumwalletUncapped(c) ==
    \E f \in ElectrumFiles, h \in StartHeights :
      LET added == f \ keys
          nStartHeight == h
      IN /\ Call(c) /\ CsWalletFree
         /\ keys' = keys \cup added
         /\ IF scanning # NoClient
              THEN /\ Reply(c, "importelectrumwallet", FALSE, {})
                   /\ UNCHANGED csMain
              ELSE /\ th' = [th EXCEPT ![c] = [Idle EXCEPT !.pc = "rescan", !.rpc = "importelectrumwallet",
                                                           !.n = calls + 1, !.t = nStartHeight,
                                                           !.next = nStartHeight,
                                                           !.claims = {<<k, nStartHeight>> : k \in added}]]
                   /\ scanning' = c
                   /\ csMain' = c
                   /\ UNCHANGED last
         /\ UNCHANGED <<watch, found, abortFlag, book>>

\* importelectrumwallet: under LOCK2(cs_main, cs_wallet) for the whole call,
\* add the export's new keys, then reserve (after the keys are added) and
\* scan from block nStartHeight, capped at the tip
importelectrumwallet(c) ==
    \E f \in ElectrumFiles, h \in StartHeights :
      LET added == f \ keys
          nStartHeight == IF Tip < h THEN Tip ELSE h
      IN /\ Call(c) /\ CsWalletFree
         /\ keys' = keys \cup added
         /\ IF scanning # NoClient
              THEN /\ Reply(c, "importelectrumwallet", FALSE, {})
                   /\ UNCHANGED csMain
              ELSE /\ th' = [th EXCEPT ![c] = [Idle EXCEPT !.pc = "rescan", !.rpc = "importelectrumwallet",
                                                           !.n = calls + 1, !.t = nStartHeight,
                                                           !.next = nStartHeight,
                                                           !.claims = {<<k, nStartHeight>> : k \in added}]]
                   /\ scanning' = c
                   /\ csMain' = c
                   /\ UNCHANGED last
         /\ UNCHANGED <<watch, found, abortFlag, book>>

\* the result of ScanForWalletTransactions is not looked at
importelectrumwalletRescanned(c) ==
    /\ th[c].pc = "scanned" /\ th[c].rpc = "importelectrumwallet"
    /\ th' = [th EXCEPT ![c] = Idle]
    /\ Return(c, th[c].n, "importelectrumwallet", TRUE, th[c].claims)
    /\ csMain' = NoClient
    /\ UNCHANGED <<keys, watch, found, abortFlag, calls, book>>

-----------------------------------------------------------------------------
(* importmulti                                                             *)

\* GetImportTimestamp, raised to minimumTimestamp
ImportTimestamp(r) == MaxI(r[3], 1)

\* ProcessImport on the wallet w = [keys, watch, book]: the scriptPubKey is
\* made watch-only and given the label, then the private key is added;
\* refused if the request is malformed or the wallet can already spend the
\* script
ProcessImport(w, r) ==
    LET key == r[1]  priv == r[2]  valid == r[4]
    IN IF ~valid \/ key \in w.keys THEN [ok |-> FALSE, w |-> w]
       ELSE [ok |-> TRUE,
             w |-> [keys |-> IF priv THEN w.keys \cup {key} ELSE w.keys,
                    watch |-> w.watch \cup {key},
                    book |-> [w.book EXCEPT ![key] = DefaultLabel]]]

\* the requests processed in order: the wallet after them and the results
RECURSIVE ProcessAll(_, _)
ProcessAll(w, rs) ==
    IF rs = <<>> THEN [w |-> w, res |-> <<>>]
    ELSE LET one == ProcessImport(w, Head(rs))
             rest == ProcessAll(one.w, Tail(rs))
         IN [w |-> rest.w, res |-> <<one.ok>> \o rest.res]

\* (variant: nLowestTimestamp is never lowered below the tip's time)
importmultiFromTip(c) ==
    \E rq \in Requests, rescan \in BOOLEAN :
      LET done == ProcessAll([keys |-> keys, watch |-> watch, book |-> book], rq)
      IN /\ Call(c)
         /\ IF rescan /\ scanning # NoClient
              THEN Reply(c, "importmulti", FALSE, {}) /\ UNCHANGED <<keys, watch, book>>
              ELSE /\ CsWalletFree
                   /\ keys' = done.w.keys /\ watch' = done.w.watch /\ book' = done.w.book
                   /\ IF rescan /\ \E i \in DOMAIN rq : done.res[i]
                        THEN RescanFor(c, "importmulti", Tip, {}, rq, done.res)
                        ELSE Reply(c, "importmulti", TRUE, {})
         /\ UNCHANGED <<found, abortFlag, csMain>>

\* importmulti: reserve if rescanning, then process every request under
\* cs_wallet; rescan from the lowest timestamp if one request succeeded
importmulti(c) ==
    \E rq \in Requests, rescan \in BOOLEAN :
      LET done == ProcessAll([keys |-> keys, watch |-> watch, book |-> book], rq)
          nLowestTimestamp == MinOf({Tip} \cup {ImportTimestamp(rq[i]) : i \in DOMAIN rq})
          fRunScan == \E i \in DOMAIN rq : done.res[i]
      IN /\ Call(c)
         /\ IF rescan /\ scanning # NoClient
              THEN Reply(c, "importmulti", FALSE, {}) /\ UNCHANGED <<keys, watch, book>>
              ELSE /\ CsWalletFree
                   /\ keys' = done.w.keys /\ watch' = done.w.watch /\ book' = done.w.book
                   /\ IF rescan /\ fRunScan
                        THEN RescanFor(c, "importmulti", nLowestTimestamp, {}, rq, done.res)
                        ELSE Reply(c, "importmulti", TRUE, {})
         /\ UNCHANGED <<found, abortFlag, csMain>>

\* after the rescan: an abort fails the call; if the scan stopped short of
\* nLowestTimestamp, every successful result whose timestamp lies before
\* the scanned time is turned into an error
importmultiRescanned(c) ==
    /\ th[c].pc = "scanned" /\ th[c].rpc = "importmulti"
    /\ th' = [th EXCEPT ![c] = Idle]
    /\ LET rq == th[c].req
           scannedTime == ScannedTime(c)
           stands(i) == scannedTime <= th[c].t \/ scannedTime <= rq[i][3]
           claims == {<<rq[i][1], rq[i][3]>> : i \in {j \in DOMAIN rq : th[c].res[j] /\ stands(j)}}
       IN Return(c, th[c].n, "importmulti", ~abortFlag, IF abortFlag THEN {} ELSE claims)
    /\ UNCHANGED <<keys, watch, found, abortFlag, csMain, calls, book>>

-----------------------------------------------------------------------------
(* Other RPCs                                                              *)

\* importprunedfunds: a transaction with a merkle proof of a block of the
\* active chain is added under cs_wallet if it is the wallet's
importprunedfunds(c) ==
    \E k \in Keys, proofOk \in BOOLEAN :
      /\ Call(c) /\ CsWalletFree
      /\ IF proofOk /\ IsMine(k)
           THEN found' = found \cup {k} /\ Reply(c, "importprunedfunds", TRUE, {})
           ELSE UNCHANGED found /\ Reply(c, "importprunedfunds", FALSE, {})
      /\ UNCHANGED <<keys, watch, abortFlag, csMain, book>>

\* removeprunedfunds: ZapSelectTx under cs_wallet
removeprunedfunds(c) ==
    \E k \in Keys :
      /\ Call(c) /\ CsWalletFree
      /\ found' = found \ {k}
      /\ Reply(c, "removeprunedfunds", k \in found, {})
      /\ UNCHANGED <<keys, watch, abortFlag, csMain, book>>

\* abortrescan takes no lock: it only reads IsScanning and IsAbortingRescan
abortrescan(c) ==
    /\ th[c].pc = "idle" /\ calls < MaxCalls
    /\ calls' = calls + 1
    /\ IF scanning = NoClient \/ abortFlag
         THEN UNCHANGED abortFlag /\ Reply(c, "abortrescan", FALSE, {})
         ELSE abortFlag' = TRUE /\ Reply(c, "abortrescan", TRUE, {})
    /\ UNCHANGED <<keys, watch, found, csMain, book>>

-----------------------------------------------------------------------------
(* Dump RPCs: under cs_main and cs_wallet, read the wallet and reply       *)

\* dumpprivkey: the key of an address, an error if the wallet lacks it
dumpprivkey(c) ==
    \E k \in Keys :
      /\ Call(c) /\ CsWalletFree
      /\ Reply(c, "dumpprivkey", k \in keys, {})
      /\ UNCHANGED <<keys, watch, found, abortFlag, csMain, book>>

\* dumphdinfo: the seed and mnemonic, an error unless the wallet is HD
dumphdinfo(c) ==
    /\ Call(c) /\ CsWalletFree
    /\ Reply(c, "dumphdinfo", HdWallet, {})
    /\ UNCHANGED <<keys, watch, found, abortFlag, csMain, book>>

\* dumpwallet: refused if the file already exists, else every key is
\* written with its birth time
dumpwallet(c) ==
    \E exists \in BOOLEAN :
      /\ Call(c) /\ CsWalletFree
      /\ Reply(c, "dumpwallet", ~exists, {})
      /\ UNCHANGED <<keys, watch, found, abortFlag, csMain, book>>

-----------------------------------------------------------------------------
(* ScanForWalletTransactions, as the wallet behaves                        *)

\* the scan starts by clearing fAbortRescan
ScanStart(c) ==
    /\ th[c].pc = "rescan" /\ csMain \in {NoClient, c}
    /\ abortFlag' = FALSE
    /\ th' = [th EXCEPT ![c].pc = "scan"]
    /\ UNCHANGED <<keys, watch, found, scanning, csMain, calls, last, book>>

\* one block under cs_main and cs_wallet: stop if aborted or past the tip;
\* a block that cannot be read is remembered as failed_block
ScanBlock(c) ==
    LET b == th[c].next
        hit == {k \in Keys : IsMine(k) /\ TxAt[k] = b}
    IN /\ th[c].pc = "scan" /\ csMain \in {NoClient, c}
       /\ IF abortFlag \/ b > Tip
            THEN th' = [th EXCEPT ![c].pc = "scanned"] /\ UNCHANGED found
          ELSE IF b \in Unreadable
            THEN th' = [th EXCEPT ![c].failed = b, ![c].next = b + 1] /\ UNCHANGED found
          ELSE /\ found' = found \cup hit
               /\ th' = [th EXCEPT ![c].hits = @ \cup hit, ![c].next = b + 1]
       /\ UNCHANGED <<keys, watch, scanning, abortFlag, csMain, calls, last, book>>

-----------------------------------------------------------------------------

NoReply == [rpc |-> "none", n |-> 0, ok |-> TRUE, claims |-> {}, hits |-> {}]

Init ==
    /\ keys = {} /\ watch = {} /\ found = {}
    /\ scanning = NoClient /\ abortFlag = FALSE /\ csMain = NoClient
    /\ th = [c \in Clients |-> Idle]
    /\ calls = 0
    /\ last = NoReply
    /\ book = [k \in Keys |-> NoName]

Next ==
    \/ \E c \in Clients :
         \/ importprivkey(c) \/ importprivkeyRescanned(c)
         \/ importaddress(c) \/ importpubkey(c) \/ ImportWatchOnlyRescanned(c)
         \/ importwallet(c) \/ importwalletRescanned(c)
         \/ importelectrumwallet(c) \/ importelectrumwalletRescanned(c)
         \/ importmulti(c) \/ importmultiRescanned(c)
         \/ importprunedfunds(c) \/ removeprunedfunds(c) \/ abortrescan(c)
         \/ dumpprivkey(c) \/ dumphdinfo(c) \/ dumpwallet(c)
         \/ ScanStart(c) \/ ScanBlock(c)

Spec == Init /\ [][Next]_vars

-----------------------------------------------------------------------------
(* Properties                                                              *)

Pc == {"idle", "rescan", "scan", "scanned"}

TypeOK ==
    /\ keys \subseteq Keys /\ watch \subseteq Keys /\ found \subseteq Keys
    /\ scanning \in Clients \cup {NoClient} /\ abortFlag \in BOOLEAN
    /\ csMain \in Clients \cup {NoClient}
    /\ \A c \in Clients : th[c].pc \in Pc /\ th[c].next \in 0..(Tip + 1)
    /\ calls \in 0..MaxCalls
    /\ \A k \in Keys : book[k] = NoName \/ book[k] \in Seq(0..255)

\* Two rescans never run at once: every thread between its reservation and
\* its return holds the WalletRescanReserver, so a second import that
\* wants to rescan is told the wallet is rescanning.
OneRescanAtATime == \A c \in Clients : th[c].pc # "idle" => scanning = c

\* a reply is new in this step
Replied == last'.n # last.n

\* every pair the reply vouches for was found by the call's own scan
Vouched(r) == \A p \in r.claims : TxAt[p[1]] >= p[2] => p[1] \in r.hits

\* importmulti reports a request as successful only if the rescan found
\* the transactions at or after the request's timestamp: when a block
\* could not be read, the results of requests older than the scanned time
\* are replaced by errors, whatever other threads import, scan or abort in
\* between.
ImportmultiResultsHonest ==
    [][Replied /\ last'.rpc = "importmulti" => Vouched(last')]_vars

\* importprivkey, importaddress, importpubkey and importwallet, when they
\* rescan, return success only after a rescan that found every transaction
\* of the keys they added from the key's creation time on; an aborted or
\* incomplete rescan is an error.
RescansReported ==
    [][Replied /\ last'.rpc \in {"importprivkey", "importaddress", "importpubkey", "importwallet"}
         => Vouched(last')]_vars

\* The address book holds only names some call gave: the default label of
\* importprivkey, importaddress, importpubkey and importmulti, or, for a
\* key importwallet restored, exactly the name the dump recorded for it,
\* whatever bytes it holds.  dumpwallet's EncodeDumpString must keep each
\* name inside its one "label=" token of the line, and importwallet's
\* DecodeDumpString must turn the token back into the name, while other
\* threads import and relabel keys in between.
NamesAsGiven ==
    \A k \in Keys :
        book[k] \in {NoName, DefaultLabel} \cup {f[k] : f \in {g \in Files : k \in DOMAIN g}}

=============================================================================
