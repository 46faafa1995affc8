# TLA+ models of the LLMQ quorum subsystem and the wallet import RPCs

This directory holds TLA+ specifications of the long-living masternode quorum
(LLMQ) code in `src/llmq/` and of the key import RPCs in
`src/wallet/rpcdump.cpp`, with the TLC configurations that check them.
`PROJECT.json` lists every component, run, mutant, finding and hazard. It also
maps each TLA+ definition to the source lines it translates.

## The system

| part | source | role |
|---|---|---|
| Commitment | `src/llmq/commitment.cpp` (`CFinalCommitment::Verify`, `VerifyNull`, `VerifySizes`) | the on-chain record of a DKG round and its structural and signature checks |
| Commitment validator | `src/llmq/commitment.cpp` (`CheckLLMQCommitment`) | consensus check of a commitment special transaction against the block it is in |
| Quorum | `src/llmq/quorums.cpp` (`CQuorum`) | a commitment plus its members, verification vector (vvec) and this node's secret key share (skShare); persisted to evoDb |
| Quorum manager | `src/llmq/quorums.cpp` (`CQuorumManager`) | builds quorums from commitments and caches them (`GetQuorum`, `ScanQuorums`); reacts to new blocks (`UpdatedBlockTip`, `EnsureQuorumConnections`); runs background tasks on a worker pool |
| Quorum data requests | `src/llmq/quorums.cpp` (`RequestQuorumData`, `ProcessMessage`) | the QGETDATA/QDATA exchange by which a masternode asks a quorum member for a vvec or for the encrypted contributions it needs to rebuild its skShare |
| Recovery tasks | `src/llmq/quorums.cpp` (`TriggerQuorumDataRecoveryThreads`, `StartQuorumDataRecoveryThread`) | on every block, one task per quorum that lacks data; it walks the quorum's members, asking one at a time with a timeout |
| Wallet dump/import RPCs | `src/wallet/rpcdump.cpp` | `importprivkey`, `importaddress`, `importpubkey`, `importwallet`, `importelectrumwallet`, `importmulti`, `importprunedfunds`, `removeprunedfunds`, `abortrescan`, `dumpprivkey`, `dumphdinfo`, `dumpwallet`, run by concurrent RPC threads against one wallet |
| RPC utilities, dummy wallet, headers, test fixture | `src/rpc/util.cpp`, `src/dummywallet.cpp`, `*.h`, `src/wallet/test/` | formatting, stubs and declarations |

How the LLMQ parts interact:

1. A new block reaches `UpdatedBlockTip` once the chain is synced. It
   refreshes the quorum connections (`EnsureQuorumConnections`), sweeps
   expired entries from the request table `mapQuorumDataRequests`, then
   triggers recovery.
2. Recovery computes a data mask for each of the last quorums: the vvec if it
   is missing, the contributions if this node is a member without a skShare.
   It pushes a task for each quorum whose mask is not empty.
3. The task waits for sync, then loops. It drops the kinds of data already
   received. After a timeout it picks the next member and asks it with
   `RequestQuorumData`.
4. The member's QGETDATA handler records the request in its own table and
   answers with a QDATA.
5. The requester's QDATA handler matches the answer against its table entry.
   It installs the vvec, then decrypts and aggregates the contributions into
   the skShare, then writes both to evoDb.
6. `GetQuorum` serves quorums from `mapQuorumsCache` or builds them from the
   mined commitment, reading evoDb or the local DKG; `ScanQuorums` lists the
   newest quorums below a block through `scanQuorumsCache`. Commitments reach
   the chain through `CheckLLMQCommitment` and `CFinalCommitment::Verify`.

The wallet RPCs share one wallet: an import that rescans takes the
`WalletRescanReserver` (one rescan at a time) and then calls
`RescanFromTime` or `ScanForWalletTransactions`, which walk the chain block
by block under `cs_main` and `cs_wallet`; `abortrescan` sets the abort flag
the scan polls. `importelectrumwallet` holds `cs_main` and `cs_wallet`
across its whole call, its scan included.

## Modules

| module | models | MC module / cfgs |
|---|---|---|
| `QuorumDataRecovery` | the request protocol and the recovery tasks | `MCQuorumDataRecovery` |
| `QuorumCache` | `GetQuorum`, `HasQuorum`, `BuildQuorumFromCommitment`, `mapQuorumsCache`, the QDATA handler's install into the cached quorum, reorganisations | `MCQuorumCache` |
| `QuorumScan` | `ScanQuorums` with `scanQuorumsCache` | `QuorumScan.cfg` |
| `QuorumConnections` | `EnsureQuorumConnections` over DKG rounds | `QuorumConnections_StaleConnectionsClosed.cfg` |
| `Commitment` | `Verify`, `VerifyNull`, `VerifySizes`, `CheckLLMQCommitment`, `GetTxPayload` | `MCCommitment` |
| `WalletRescan` | the wallet dump and import RPCs and `abortrescan` | `MCWalletRescan` |
| `DumpString` | `EncodeDumpString`, `DecodeDumpString`: the label encoding of the dump file | `MCWalletRescan` |
| `QuorumScanSpec` | what `ScanQuorums` promises, without the cache (abstract) | refined by `QuorumScan` |

### `QuorumDataRecovery` (the request protocol and the recovery tasks)


It is seen from one masternode R, which recovers data from a set of `Peers`.
The peers are the other members of R's quorums.

The quorums are given as data: each quorum's `Members`, the commitment's
`ValidMembers` bits, the valid masternode list `MnList` and the order of the
proTxHashes. The values the code derives from them are operators translated
from the code:
- `GetMemberIndex`, `IsValidMember` and `GetPubKeyShare` of `CQuorum`;
- `WeAreQuorumMember` (`fWeAreQuorumMember`);
- `MemberHashes`, the sorted `vecMemberHashes` of a recovery task;
- `StartOffset` (`GetQuorumRecoveryStartOffset`).

All quorums of one type have the same size, so every task of a block starts
at the same offset. `SetSecretKeyShare` compares the share with
`GetPubKeyShare(GetMemberIndex(R))`. There the -1 of a non-member arrives as
`SIZE_MAX` and fails the bound check.

State:

| variable | code |
|---|---|
| `reqs[p]` | R's entry `(p, true)` of `mapQuorumDataRequests`: quorum, mask, age, processed flag |
| `srvReqs[p]` | peer p's entry `(R, false)` |
| `chanTo[p]`, `chanFrom[p]` | QGETDATA and QDATA messages in flight on the connection |
| `connected`, `pending` | the masternode connection, and `AddPendingMasternode` |
| `penalized`, `srvPenalized` | whether `Misbehaving` was ever called with a positive score |
| `hasVvec`, `hasSk` | `CQuorum::quorumVvec != nullptr`, `skShare.IsValid()` |
| `dbVvec`, `dbSk` | the two evoDb records `WriteContributions` writes |
| `thr[q]` | the recovery task of quorum q: program counter, `nDataMask`, `nTries`, `pCurrentMemberHash`, age of `nTimeLastSuccess` |
| `queue` | tasks pushed to the worker pool and not yet running |
| `synced` | `IsBlockchainSynced()` |
| `crashed` | R has dereferenced a null `quorumVvec` (line 686) |
| `pool` | the worker pool: `"running"`; `"stopping"` once `Stop()` raised `quorumThreadInterrupt` and waits in `workerPool.stop(true)`; `"stopped"` once that returned |

Actions:

| action | code |
|---|---|
| `UpdatedBlockTip` | `UpdatedBlockTip` with `CleanupExpired` and `TriggerQuorumDataRecoveryThreads` |
| `StartWorker` | a pool thread takes the oldest queued task |
| `RecoverySynced` | the task's wait for sync ends |
| `RecoveryAborted` | the wait for sync ends on the interrupt: the task returns at "Aborted" and keeps `fQuorumDataRecoveryThreadRunning` set (`pc = "aborted"`) |
| `RecoveryLoop` | one pass of the loop head: the loop left on the interrupt ("Done", flag cleared), drop received data, "Success", "All tried but failed", "Already asked", "Connect" |
| `RecoveryRequest` | the `ForEachNode` body: `RequestQuorumData` and its "Requested", "Processed" and "Waiting" results |
| `ProcessQData` | the QDATA branch of `ProcessMessage` |
| `ProcessQGetData` | the QGETDATA branch at a peer (a `Byz` peer answers with any error and any payload) |
| `PeerUpdatedBlockTip` | a peer's own sweep |
| `Stop`, `StopJoined` | `CQuorumManager::Stop`: `quorumThreadInterrupt()` and `clear_queue()` (the dropped tasks keep their flag), then the return of `workerPool.stop(true)` once no worker runs a task; the pool runs tasks pushed in between and none after |
| `Tick`, `Connect`, `ConnectionLost`, `BlockchainSynced`, `SyncLost` | the environment: time, the connection manager, chain sync, and sync lost again (a reset of `masternodeSync`, whose code is not in this repository) |

`Stop` happens only when the constant `Shutdown` is TRUE and `SyncLost`
only when `SyncLoss` is TRUE: both are on in `recovery_byzantine` and off in
the other recovery runs. `UpdatedBlockTip` stays possible after `Stop`,
since the repository does not show when the validation interface stops
calling it. A task only starts once the chain is synced (`UpdatedBlockTip`
returns early otherwise), so without `SyncLost` the interrupt check of the
sync wait could never matter.

Abstractions:

- **Time.** Time is the age of each timestamp, in units of the request
  timeout. It is capped just above the threshold it is compared with. The
  loop sleeps 1 s per pass, far below that unit, so `Tick` waits until every
  looping task has made a pass (the `ticked` flag).
- **Payloads.** A vvec or a set of contributions is `"good"` or `"bad"`.
  "Bad" stands for a failed hash check, a failed decryption, or a key share
  that does not match.
- **Scores.** Misbehaviour scores are reduced to "was scored". A ban is a
  disconnect, which `ConnectionLost` can take at any time.
- **Channels.** Messages on one connection are FIFO. A lost connection loses
  what is in flight on it. `MaxChan` bounds each direction.


### `QuorumCache` (the quorum cache)

State: `mined[h]`, the commitment the active chain holds for quorum hash
`h` (or `NoQc`); `cache` and `lru`, `mapQuorumsCache` with its
least-recently-used order; `db[h]`, the evoDb vvec and skShare records
under `MakeQuorumKey`; `got`, what the last `GetQuorum` returned;
`vvecSeen`, a history variable: the hash and commitment pairs some CQuorum
has held a vvec for.

Actions: `GetQuorum(h)` (its three branches: no mined commitment, cache hit,
`BuildQuorumFromCommitment` with `ReadContributions`, or with
`BuildQuorumContributions` and `WriteContributions`, then the bounded
insert); `ReceiveQData(h, v, enc)`, the QDATA handler for a matched request
asking for the vvec: `SetVerificationVector`'s hash check, then, for
`enc = "ok"`, a valid skShare (only if this node is a member) and
`WriteContributions`, or, for `enc = "fail"`, a return on "Not a member",
"Failed to decrypt" or "Invalid secret key share" before the write, with the
vvec left installed; `Reorg(h)`, a reorganisation that
takes the commitment for `h` off the chain or mines another one for the same
hash, at most `MaxReorgs` times.

The bounded insert follows `unordered_lru_cache`, which is not in this
repository: the cache grows to twice its `max_size`, and the next insert
drops the least recently used entries until `max_size` remain.

### `QuorumScan` (`ScanQuorums`)

Quorum base blocks are the multiples of `Interval` (`dkgInterval`);
`mined` maps the base block of each quorum whose commitment is mined to the
block it was mined in, one to `Interval - 1` blocks later, so before the next
base block (the mining window lies inside the DKG interval). It is fixed per
behaviour. `GetMinedCommitmentsUntilBlock(b, n)` lists the quorums whose
commitment is mined at or below `b`, newest commitment first. `ScanQuorums(b, n)` is the whole function: `n = 0`, a cache hit
with enough quorums (cut to `n`), or a miss or short hit extended from the
block before the oldest cached quorum, and the emplace into the bounded
`scanQuorumsCache`. It is checked against the definition "the newest `n`
quorums whose commitment is mined at or below `b`". A continuation from the
base block itself, rather than from its `pprev`, is not a bug under this
chain: the quorum's own commitment is mined after its base. The mutant of
the continuation uses the newest cached quorum instead of the oldest.

### Abstract specifications and refinement

- `QuorumScanSpec` has only the mined commitments and the last result. A
  call returns `NewestMined(b, n)`, a RECURSIVE walk down the chain from
  `b` that is written independently of the code's sort-and-cut.
  `QuorumScan` instantiates it with the identity mapping (`mined`, `ret`),
  and `ScanRefinesSpec` checks it: every cache step is a stutter of the
  abstract specification, and every call is one of its `Scan` steps.

### `QuorumConnections` (`EnsureQuorumConnections`)

Time is relative to the tip: `phase` is `nHeight % dkgInterval`, `rounds`
the recent DKG rounds, newest first, each with whether this node is a
member, whether the round ended with a mined commitment, and whether its
connections are open. `NewTip` is `UpdatedBlockTip` (the new round every
`dkgInterval` blocks, then `EnsureQuorumConnections` once synced);
`DkgConnect` is the DKG session's own connecting; `BlockchainSynced` is sync.

### `Commitment` (commitment checks)

The checks are pure operators; a behaviour picks one input (commitment,
member count, transaction, previous block) from `Inputs` and applies
`Verify` (with or without signatures), `VerifyNull` or `CheckLLMQCommitment`
to it. Bit `i` of a bit vector is element `i+1`; BLS keys and signatures are
reduced to well-formedness and to which members' keys made an aggregate.
`MCCommitment` enumerates every commitment of a two-member type, and every
transaction header, branch and anchor for the validator.

### `WalletRescan` (the wallet import RPCs)

State:

| variable | code |
|---|---|
| `keys`, `watch` | `HaveKey`, `HaveWatchOnly` |
| `found` | the keys whose paying transaction is in `mapWallet` |
| `scanning` | `fScanningWallet`, i.e. which thread holds the `WalletRescanReserver` |
| `abortFlag` | `fAbortRescan` |
| `csMain` | the thread holding `cs_main` and `cs_wallet` across its call (`importelectrumwallet`); `CsWalletFree` is the guard of every step that takes `cs_wallet` |
| `th[c]` | thread `c`'s call in progress: RPC, program counter, rescan start time, next block, last unreadable block, importmulti requests and results, and the pairs the reply will vouch for |
| `calls`, `last` | calls made so far; the last reply |
| `book` | `mapAddressBook`: the name of each key, or `NoName` |

`importaddress`, `importpubkey`, `importwallet` and `importmulti` reserve
before they lock, so while `importelectrumwallet` holds the locks and the
reservation they are refused at once; `importprivkey` and the others wait
for the lock. `dumpprivkey`, `dumphdinfo` and `dumpwallet` are one action each: they wait
for `cs_main` and `cs_wallet` like the imports and reply from the wallet
state (whether the key is there, whether the wallet is HD, whether the
dump file already exists); the text they write is left out, except the
label encoding, which `DumpString` models byte by byte.

`DumpString` holds the two pure operators of the dump file's labels.
`EncodeDumpString` is `EncodeByte` over every byte (`HexByte` is the two
lowercase digits of `HexStr`); `DecodeDumpString` is the recursive
`DecodeFrom` over 0-based positions, with the `pos+2 < length` guard, the
hex arithmetic `(ch >> 6) * 9 + ((ch - '0') & 15)` on a signed `char`
(`SignedChar`, `Nibble`) and the result cut to an unsigned char.
`LabelToken` is what `importwallet`'s `std::getline` and
`boost::split(" ")` leave of the text after `label=`: the bytes up to the
first newline or space (the rest would be read as further tokens or lines,
which the model drops).

`book` is `mapAddressBook`: `importprivkey` (before its `HaveKey` return),
`importaddress`, `importpubkey` and `importmulti` give a key the label of
the call, `DefaultLabel` (`""`, the only label argument enumerated);
`importwallet` gives each key it adds `ReadLabel` of the name its dump
recorded, the name passed through `EncodeDumpString`, `LabelToken` and
`DecodeDumpString` (`RestoredBook`). A dump in `Files` maps its keys to
those names. `NamesAsGiven` says the book only holds names some call gave,
so a restored key carries exactly its dumped name, whatever another thread
imports or relabels in between. The two dumps of the MC module hold names
with a space, a newline, `%`, `#`, digits, DEL, NUL and bytes of 128 and
more, the bytes at every boundary of the encoding and of the decoder's
hex arithmetic.

Each import RPC is one action for its part under `cs_wallet` (argument checks,
reservation, key import) and, when it rescans, one action for the part
after the scan returns (`importprivkeyRescanned`, `ImportWatchOnlyRescanned`,
`importwalletRescanned`, `importelectrumwalletRescanned`,
`importmultiRescanned`). `ProcessImport` and `ProcessAll` are the
importmulti request loop, `ImportTimestamp` is `GetImportTimestamp` raised to
the minimum.

The wallet side the RPCs call is not in the repository and is modelled as
its interface behaves: `ScanStart` clears the abort flag, `ScanBlock` reads
one block under `cs_main`, stops on an abort or past the tip, and remembers
an unreadable block; `ScannedTime` is `RescanFromTime`'s result (the time
after the last block it failed to read). Keys, scripts and files are model
values; a key is paid by one transaction in block `TxAt[k]`, and block `b`
has time `b`.

## Runs

| run | cfg | expect | what it shows |
|---|---|---|---|
| `recovery` | `MCQuorumDataRecovery.cfg` | pass | `TypeOK`; `NoNullVvecDeref`: the QDATA handler never reaches the null vvec; `EventuallyRecovered`: once connections stop dropping and answers come within the timeout, R gets every vvec and skShare it needs, for two quorums that start without them |
| `recovery_byzantine` | `MCQuorumDataRecovery_Byz.cfg` | pass | a peer answering arbitrarily cannot make R reach the null vvec (`NoNullVvecDeref`; the type invariant is the `recovery` run's); `RecoveryTerminates`: once the chain stays synced, every recovery task still ends and clears its running flag, unless the manager is stopped; `StopJoins`: `Stop()` always returns, with a chain sync that can be lost again: every task on a worker sees the interrupt, one waiting for sync included |
| `stale_request_resent` | `MCQuorumDataRecovery_SentAsRequested.cfg` | violation | `RequestQuorumData` sends the expired request left in the table, not the one asked for |
| `duplicate_served` | `MCQuorumDataRecovery_DuplicateRefused.cfg` | violation | a duplicate QGETDATA is scored but still answered |
| `cache_safety` | `MCQuorumCache.cfg` | pass | `TypeOK`, with the cache bound: while commitments leave and return to the chain and QDATA answers install vvecs and key shares, `mapQuorumsCache` never holds more than twice its `max_size` |
| `vvec_lost_on_rebuild` | `MCQuorumCache_RebuildKeepsVvec.cfg` | violation | `RebuildKeepsVvec`: a good vvec with failing contributions is installed but not written to evoDb, so after an eviction the quorum is rebuilt from the same commitment without it |
| `cache_stale_after_reorg` | `MCQuorumCache_ReturnsActiveCommitment.cfg` | violation | after a reorg re-mines a cached hash, `GetQuorum` returns the old commitment's quorum |
| `db_vvec_unchecked` | `MCQuorumCache_VvecMatchesCommitment.cfg` | violation | a quorum rebuilt after such a reorg loads the old vvec from evoDb unchecked |
| `scan_exact` | `QuorumScan.cfg` | pass | `ScanRefinesSpec`: `QuorumScan` with its cache implements `QuorumScanSpec`, so `ScanQuorums` returns exactly the quorums of the newest `n` commitments, whatever the cache holds |
| `commitment_checks` | `MCCommitment.cfg` | pass | accepted commitments have `minSize` real members and signers (`AcceptedMembersAreReal`), and `CheckLLMQCommitment` rejects with the reason of the first failing check of the design's order |
| `stale_connections_kept` | `QuorumConnections_StaleConnectionsClosed.cfg` | violation | connections to quorums that left the `keepOldConnections` window stay open |
| `wallet_rescans` | `MCWalletRescan.cfg` | pass | with two RPC threads: one rescan at a time (`OneRescanAtATime`), no import reports a key as rescanned whose transaction its scan did not find (`ImportmultiResultsHonest`, `RescansReported`); a key `importwallet` restores gets exactly the name its dump recorded (`NamesAsGiven`) |

Every property of a passing run is also checked to fail under a mutant of
the code (`PROJECT.json`, "mutants"): a dropped guard, a missing hash check,
an unbounded cache, an off-by-one, a scan from the wrong block.

### Bounds

- **Recovery.** One peer, `RequestTimeout = 1`, `ExpirationTimeout = 3`, one
  worker and one message per direction. `ExpirationTimeout` must exceed
  `RequestTimeout + 1`, as 300 s against 10 s does in the code. Liveness
  checking is much slower than safety checking, so the two liveness
  properties are checked on different instances. `recovery` has two
  quorums, and R is a member of `q1` only. The two quorums share the request
  table, so one quorum's expired request can be re-sent by the other
  quorum's task. The run starts from `MCInit`, where no quorum has its vvec
  yet. `recovery_byzantine` has one quorum, also starts from `MCInit`, and
  adds `Stop` and the loss of sync. There a Byzantine peer's answer marks the entry processed, and the
  task keeps re-sending that expired entry until a block erases it. The
  violation runs use two peers: p2 serves only vvecs, and it is Byzantine
  where the run says so. Two peers or two quorums with a Byzantine peer
  exceed the time budget once liveness is checked.
  The code always starts four workers (`quorums.cpp:181`); the runs use one.
  With two, `recovery` still passes (737,707 states), but in nearly three
  minutes, too close to the budget to keep.
- **Cache.** Three quorum hashes against a cache of `max_size` 1, so the
  third insert truncates the cache to its newest entry; two commitments, so a hash can be re-mined with another; two
  reorganisations, so a commitment can leave and come back.
- **Scan.** Heights 1..11 with `Interval = 3`: quorums at 3, 6 and 9, each
  mined one or two blocks after its base; counts 0..3 and a scan cache of
  two entries of two quorums: enough for a hit with too few quorums, a hit
  with more, an eviction, and start blocks between a base and its mining
  block.
- **Connections.** `dkgInterval = 3`, a commitment mined two blocks into the
  round, `keepOldConnections = 2` and four remembered rounds: a quorum leaves
  the window while the node still has connections to it.
- **Commitments.** Two members with `minSize = 1`: bit vectors of the right
  length and one too long, set bits at and past `members.size()`.
- **Wallet.** Two threads, two keys and five blocks. Block 1, which pays
  `k1`, cannot be read; `k2` is paid in block 3. The importmulti requests
  include one alone whose timestamp is the time a scan cut at block 1
  reaches, and a pair of an older one and one at that time, so a cut scan
  demotes one result and keeps the other; a dump records `k2` as created
  at time 3, so a restore of `k2` alone scans past the unreadable block and
  succeeds;
  the electrum start heights include one above the tip. Four calls per
  behaviour let one thread reserve, another be refused or abort, and two
  more calls run after them. `HdWallet = TRUE`: whether the wallet is HD
  only decides `dumphdinfo`'s reply. Two dumps of both keys, with names
  of three bytes that hold a separator, an escaped byte or a byte the
  decoder's signed-char arithmetic could get wrong, so a restored key can
  carry either dump's name or be relabelled by another import.

### Fairness

- **Recovery.** The pool workers, the recovery task steps and the message
  handlers are weakly fair: they are threads that run whenever they have
  work. So are new blocks, the passage of time, the connection manager's
  opening of pending connections and the thread waiting in `Stop()`.
  `ConnectionLost` is not fair: losses may happen at any time, or never.
  Chain sync and `Stop` are not fair either: sync depends on the network,
  and `Stop` comes only at shutdown. `RecoveryTerminates` and
  `EventuallyRecovered` take as a premise that the chain stays synced from
  some point on; `StopJoins` needs no premise. `EventuallyRecovered` takes as its premise
  that connections eventually stop dropping and that no time passes while a
  message is in flight; without these recovery can be starved forever, and
  the code does not claim otherwise.
- The other modules check safety only. The wallet run does not check
  deadlock: new calls are not required to come.

## Findings

See `PROJECT.json`. In short:

1. **Stale request re-sent.** `RequestQuorumData` keeps an expired entry
   (`emplace` does not replace it) and re-sends it.
2. **Duplicate still served.** The QGETDATA duplicate check does not return.
3. **vvec lost on rebuild.** A vvec installed from a QDATA whose
   contributions fail is not persisted, so the quorum rebuilt after an
   eviction lacks it.
4. **Stale cached quorum after a reorg.** `GetQuorum` only asks
   `HasQuorum`, so a hash re-mined with another commitment is served from
   the cache with the old one.
5. **evoDb vvec unchecked.** `ReadContributions` installs the stored vvec
   without comparing it with the commitment's `quorumVvecHash`.
6. **Stale connections kept.** `EnsureQuorumConnections` never walks
   `connmanQuorumsToDelete`, so connections to quorums that left the window
   stay open.

The wallet model found no violation. Its hazards without a property
(the electrum import ignoring the scan result, keys imported before the
reservation fails, a negative start height) are listed in `PROJECT.json`.

## Not modelled

- `StartCachePopulatorThread`: its only effect is to warm the public key
  share cache, which the model reduces to whether a share is valid;
  `Start` only sizes the pool (`PoolSize`);
- the length of the interruptible sleeps: a sleep is one step, and what it
  waits for is the next step;
- `CQuorum::IsMember`, which this code never calls, and the public key share
  cache behind `GetPubKeyShare` (only whether a share is valid is kept);
- a reorganisation during a `ScanQuorums` call;
- the recovery tasks together with the cache's eviction: the per-object
  `fQuorumDataRecoveryThreadRunning` flag of a rebuilt CQuorum (a hazard in
  `PROJECT.json`); the composed state space exceeds the time budget of the
  recovery run;
- the text the dump RPCs write apart from the label encoding, the rest of
  the file parsing and key encoding; the
  redeem scripts of `importwallet` and `dumpwallet`, since whether a P2SH
  output is the wallet's depends on the keys of its script (the dump and
  restore of a script written with time 0 is a hazard in `PROJECT.json`); `importelectrumwallet` with a negative start height,
  which dereferences a null block;
- `src/rpc/util.cpp`, `src/dummywallet.cpp`, the headers and the test
  fixture: formatting, stubs and declarations.
