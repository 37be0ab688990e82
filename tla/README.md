# Verification of Miningcore

TLA+ models of the part of Miningcore that decides who gets paid what: submitted
shares are checked and counted at a difficulty, counted shares become rows of the
share table, found blocks become credits, credits become transfers. A model of
the DAG files that Ethash pools verify shares with stands beside them. The models
are checked with TLC on small instances; every safety property of a passing run
is also proved with TLAPS for every value of the constants, under hypotheses that
section 4 names.

Paths below are relative to `src/src/Miningcore/`, those that start with `Native/` to
`src/src/`, and those that start with `docs/` to `src/`.

## 1. The system

```
 miner --TCP--> StratumConnection --> BitcoinPool --> BitcoinJobManager --RPC--> coin daemon
                 (ban manager,          | Share                 ^                 ^   wallet
                  vardiff)              v                       | templates       |
                                   MessageBus --> ShareRelay ~~ZeroMQ~~> ShareReceiver --> MessageBus
                                        |                                          |
                                        v                                          |
                                   ShareRecorder --> PostgreSQL: shares, blocks    |
                                        |  \-> recovery file --> importer (-rs)    |
                                        v                                          |
              PayoutManager --> payout handler --(gettransaction, sendmany)--------+
                    |  \-> payout scheme (PPLNS, PPLNSBF, PROP, SOLO)
                    v
              PostgreSQL: balances, balance_changes, payments  <-- REST API (thresholds)
```

One process hosts all of it. Components talk through the message bus (synchronous
publish/subscribe in memory), through PostgreSQL and through the daemon's RPC.

| component | state it keeps | operations | what is hard | what makes it correct |
|---|---|---|---|---|
| payment processing: `PayoutManager`, `PayoutHandlerBase`, `BitcoinPayoutHandler` | tables blocks, balances, balance_changes, payments; what the running task has read | classify pending blocks, credit a block, read balances, transfer, book | every await can fail, succeed unnoticed or be the last thing the process does; what was read before an await is used after it; the wallet and the database do not commit together | a block is credited once, a transfer is booked once, books agree, nobody is overpaid |
| payout schemes and share table: `PaymentSchemes/*`, `ShareRepository` | table shares | read a page, compute rewards, delete discarded rows | paging by timestamp, the row that crosses the window, rows deleted for one block that another still needs, cancellation in the middle | the distribution is what the scheme defines over all shares ever stored |
| share recorder: `Mining/ShareRecorder.cs` | Rx buffer and queue, Polly policies, recovery file | buffer, store a batch, retry, break the circuit, fall back to the file, import | commits with a lost answer, nested policies, process end with shares in memory | no share vanishes, no share is stored twice, the importer's report is true |
| Bitcoin pool: `BitcoinPool`, `BitcoinJobManager(Base)`, `BitcoinJob`, `BitcoinWorkerContext`, extra nonces | current job, valid jobs per worker, submissions per job, extra nonce counter, session cache | subscribe, authorize, submit, new template, submit block | job updates and submissions interleave; a block is submitted with a token the miner's disconnect cancels | an accepted share is published once, an accepted block is recorded, no share counts twice |
| stratum: `StratumServer`, `StratumConnection` | receive pipe, send queue of 16, registered connections | accept, read, dispatch, send, shut down | three tasks per connection, bounded buffers on both sides, shutdown from any of them | every connection ends, is unregistered once and frees what it holds |
| Ethash DAG cache: `EthashLight`, `Cache`, `Native/libethhash` | table of caches, one handle per epoch, one file per epoch | look up or create, evict, pre-generate, generate, seal, map, compute | generation takes minutes, runs under the token of one request and can be cancelled, fail or be cut off by the end of the process; eviction disposes of handles others may hold | a file with a magic number is complete; no share is verified with a deleted or half-made DAG |
| ban manager, `PoolBase.ConsiderBan`, zombie checks | ban cache, escalation counts, throttle windows | ban, escalate, throttle | several callers with different durations on the same address | a ban is never shortened; the throttle's promise |
| variable difficulty: `VarDiffManager`, `WorkerContextBase` | time buffer, difficulty, previous and pending difficulty | update on a share, idle update, apply | two updaters per worker, unsynchronised hand-over | a retarget is applied once, within limits; shares are valued at a difficulty the miner was given |
| config hot reload | pool registry, pool tasks | file event, reload, start, stop | events during a reload, pools started elsewhere | the running pools are those of the last configuration |
| share relay and receiver | queues, ZeroMQ sockets | publish, receive, reconnect | PUB/SUB drops | a relayed share is stored at most once |
| not part of accounting | | stats recorder, notifications, metrics, partition manager, API queries, admin panel, Nicehash lookup, hash libraries | | see `components` in `PROJECT.json` |

The other coin families (Alephium, Beam, Conceal, Cryptonote, Equihash, Ergo,
Ethereum, Handshake, Kaspa, Nexa, Pearl, Progpow, Satoshicash, Warthog, Xelis,
Zano) override the same hooks as the Bitcoin family, which serves as the
reference here.

`hazards` in `PROJECT.json` lists what can go wrong at which line, and which
property watches it. Hazards of components that are not modelled carry a note
instead.

One fact about the code shapes what the accounting models can promise and is
easy to overlook. `BitcoinJobManager` downloads a table of addresses
(`BitcoinJobManager.cs:45`, `468-499`). For a coin in that table it alternates
the coinbase destination between the pool's address and the downloaded one
(`175-180`, `422`, `444`). A block mined on a job of the second kind is submitted
to the network, and then `IsBlockCandidate` is cleared so that the share is
stored as an ordinary one (`417-430`). Such a block never becomes a row of
table blocks. No configuration option or document of the repository mentions
it; operators should read those lines. `ShareSubmission` models the alternation
(`external`, `IsStealth`) as the code has it: `AcceptedIsRecorded` therefore
speaks of blocks that pay the pool, and `ShareBook` says that no other block is
published as one. Both except jobs during whose making the flag was written
(`Torn`, section 5). The accounting models start at the rows that are published, so
that "every block is credited" means every *recorded* block.

## 2. Modules

| module | models | kind |
|---|---|---|
| `Payout` | payment processing of one pool | specification, properties, inductive invariant, liveness |
| `PoolLedger` | what the database promises to a reader | abstract specification, implemented by `Payout` |
| `PayoutProofs` | theorems about `Payout` | TLAPS |
| `ShareAccounting` | payout schemes over the share table, step by step | specification, compared with the definition of the schemes |
| `SumLemmas` | induction and sums over finite sets | TLAPS |
| `ShareAccountingProofs`, `ShareScanProofs` | theorems about `ShareAccounting` | TLAPS |
| `ShareRecorder` | recorder, recovery file, importer | specification, properties |
| `ShareRecorderProofs` | theorems about `ShareRecorder` | TLAPS |
| `ShareSubmission` | jobs, connections, submitted shares and blocks of a Bitcoin pool | specification, properties |
| `ShareBook` | what the pool promises to the accounting | abstract specification, implemented by `ShareSubmission` |
| `ShareSubmissionProofs` | theorems about `ShareSubmission` | TLAPS |
| `WorkerDifficulty` | the difficulty of one miner, changed by three tasks without a lock | specification, properties |
| `WorkerDifficultyProofs` | theorems about `WorkerDifficulty` | TLAPS |
| `DagCache` | Ethash caches, their generation and their files | specification, properties |
| `DagCacheProofs` | theorems about `DagCache` | TLAPS |
| `MCPayout`, `MCShareAccounting`, `MCShareRecorder`, `MCShareSubmission`, `MCWorkerDifficulty`, `MCDagCache` | instances for TLC | |

The modules meet where one component hands data to the next: what
`ShareSubmission` appends to `journal` is what `ShareRecorder` receives, the rows
of `ShareRecorder` are the shares of `ShareAccounting`, and the contract of a
scheme there is `SchemeCredits` in `Payout`.

A definition named *Mutant of X* is a plausible bug in X. It is not used by the
specification; `mutants` in `PROJECT.json` says which property notices it.

### Payout

State. `chain`, `wallet`, `sent` are the daemon; `status`, `balance`, `credited`,
`reset`, `paid`, `threshold` the database; `pc`, `todo`, `verdict`, `payees`,
`owed`, `queue`, `answered`, `delivered`, `attempts` the memory of the one
background task. `ncredit`, `nsent`, `nrec`, `lost`, `dup`, `crashes` are history
that only properties and bounds read. `pc` names the await the task is at, so
every value of `pc` is a point where anything else may happen.

| actions | code |
|---|---|
| `StartRun`, `ClassifyBlock`, `UpdateBlock`, `RunFails` | `PayoutManager.UpdatePoolBalancesAsync`, `BitcoinPayoutHandler.ClassifyBlocksAsync`, `PayoutHandlerBase.UpdateBlockRewardBalancesAsync` |
| `ReadBalances`, `SendManyOk`, `SendManyLost`, `SendManyError`, `SendManyLocked`, `UnlockWallet`, `UnlockFails` | `PayoutPoolBalancesAsync`, `PayoutAsync` with sendmany and its unlock-and-retry |
| `SendToAddress`, `AddSuccess`, `SendEachDone` | `PayoutAsync` for wallets with a broken sendmany |
| `PersistOk`, `PersistRetry`, `PersistFails` | `PersistPaymentsAsync` with its retry policy |
| `BlockFound`, `ChainSettles`, `ChainReorganises`, `WalletRelocks`, `SetMinerSettings`, `Crash` | recorder, chain, wallet, REST API, process |

Amounts are naturals of the smallest fraction the database keeps; `Round` is
`Math.Round` to `payoutDecimalPlaces` with ties to even, `Unit` its granularity.
A payout scheme appears by its contract only (`SchemeCredits`: any credits whose
sum is at most the remaining reward); that the schemes keep this contract is
`NeverOverDistributed` of `ShareAccounting`. A scheme may throw in any run. The
constant `Stuck` is the set of blocks whose scheme may do so in *every* run, because
the exception depends on the block and its shares only (hazard at
`PPLNSBFPaymentScheme.cs:80`). A transaction that commits without
the caller learning it is a step of its own kind everywhere a transaction occurs.

Left out: the pool and its payment processing are enabled throughout
(`PayoutManager.cs:84`; the admin endpoints can switch them off, and a run is then
skipped: safety is not affected, and liveness assumes that they are on). `sent` is
what a payee is sent before fees: with `MinersPayTxFees` the wallet takes the fee of
sendmany out of the payees' amounts (`BitcoinPayoutHandler.cs:216-246`), while the
amounts that are booked stay the same.

### ShareAccounting

`archive` holds every share ever stored and `shares` the indices of the rows
that still exist, so that a property can compare what a scheme computed from the
remaining rows with its definition over all of them. `blocks` and `run` are the
block table and the list the payment run works through; `outcome` records what a
confirmed block handed out and which shares it counted. `task` says where
`UpdateBalancesAsync` is; `block`, `before`, `inclusive`, `page`, `row`, `done`,
`acc`, `remaining`, `scores`, `rewards`, `cutoff` are its locals and `counted` the
shares it has looked at.

| actions | code |
|---|---|
| `StartRun`, `OrphanBlock` | `PayoutManager.UpdatePoolBalancesAsync` |
| `BeginBlock`, `BeginSolo` | the call of `UpdateBalancesAsync` and the locals of `CalculateRewardsAsync` |
| `ReadPage`, `ReadCancelled`, `LeaveLoop`, `NextPage`, `LastPage` | the page loop and `ReadSharesBeforeAsync` |
| `CountPPLNS`, `CountPROP` | its body, one share at a time |
| `Write`, `ThrowOverflow`, `ThrowMissingKey`, `ThrowCancelled`, `DatabaseFails` | the end of `UpdateBalancesAsync` with `DeleteSharesBeforeAsync`, commit and roll-back |
| `StoreShare`, `Stop`, `Restart` | recorder and host |

A page is read with a connection of its own, outside the transaction, so shares are
stored, queries fail and the host stops between any two steps. A cancelled token
ends the loop between pages and makes the next query that takes it throw. The scheme
is a variable that is chosen initially and never changes, so that one run covers all
four.

Scores are exact naturals (the reward is a multiple of every divisor that
occurs): rounding of decimals is left out. Shares enter in the order of
`Created`; a share imported late from the recovery file with an older `Created`
is left out.

### ShareRecorder

`buffer`, `queue` and `batch` are the three places a share can be in memory (Rx
buffer, buffers waiting for `Concat`, the batch in the policy). `attempt`,
`circuit` and `failures` are the Polly retry and circuit breaker. `db` and `file` count
rows and lines per share. `AttemptSucceeds`, `AttemptFails`,
`CommitAnswerLost` and `AttemptThrows` are the four ways an attempt can end,
`ExecuteFallback` and `FallbackFails` the two ways the fallback can. `StartRecovery` to
`LastImportAnswerLost` are `RecoverSharesAsync`, with its quirk that a failed
chunk stays in the list and only the import at the end of the file retries it.

Batches and lines are unordered. Delays are left out: time passes between any
two steps. A line that is torn or cannot be parsed counts as lost with the failed
write that produced it. The recorder's pool lookup always succeeds (a pool added
by hot reload after the recorder was built is not in its dictionary).

### ShareSubmission and ShareBook

State. `tip`, `wire`, `won` are the daemon and the chain; `made`, `drafts`, `current`,
`zigzag`, `external` the job manager; `en1` and `validJobs` the worker contexts;
`submissions` the shares whose keys are in the duplicate tables (a share names its job,
so one set stands for all tables); `pc` and `share` the one request each connection has under way.
`journal` is what was sent over the message bus. `low`, `unanswered` and `dropped`
are history that says where a share or an answer got lost.

| actions | code |
|---|---|
| `UpdateJob`, `SelectAddress`, `MarkStealth`, `SendJob` | `BitcoinJobManager.UpdateJob`, `BitcoinPool.OnNewJobAsync`, `OnVarDiffUpdateAsync`, `BitcoinWorkerContext.AddJob` |
| `OnSubscribe`, `Disconnect` | `BitcoinPool.OnSubscribeAsync`, `StratumConnection` |
| `SubmitShare`, `SubmitLowShare` | `BitcoinPool.OnSubmitAsync` up to the block submission, `BitcoinJob.ProcessShare` |
| `DaemonSubmitBlock`, `BlockAccepted`, `AnswerLost` | `BitcoinJobManagerBase.SubmitBlockAsync`, the rest of `SubmitShareAsync`, the RPC client's error answers |
| `RespondAndPublish`, `QueueStalled` | the end of `OnSubmitAsync`, `StratumConnection.SendAsync` |
| `OtherBlock`, `Crash` | the network, the process |

A template fetched earlier may be installed after a later one, because
`UpdateJob` is also started outside the pipeline that orders it
(`BitcoinJobManager.cs:429`). That update also uses up the "is new" answer, so
the job is not broadcast before the rebroadcast timer. The model covers both by letting
`UpdateJob` choose any height up to the tip and `SendJob` come at any time. Once an
external address is known, `nextBlockIsExternal` is read twice without a lock while a
job is made (lines 177 and 178). `SelectAddress` is the first read and leaves a
draft, `MarkStealth` the second; an accepted block may write the flag in
between, and several updates may be under way at once.

A miner sends extra nonce 2, time and nonce as text, and the key of the duplicate
check is made of these texts. The header is made from what they stand for and from
the version bits, which are not in the key. `Means` gives for each text the nonces it
may stand for. A text that stands for two is a version-rolling miner; two texts that stand
for one are an extra nonce 2 with a `0x` or an odd last digit
(`StringExtensions.cs:14-26`), since its length is never checked. `Key` and `Work` are
the two views of a share: one header may be counted as a share several times, and the
promise that remains is that it is recorded as a *block* at most once. Two
connections may have the same extra nonce (a resumed session, whose cache is never
pruned, `BitcoinPool.cs:48`; or a counter that rolled over), so the table of a
job is all that separates their shares. A send to a connection that is already gone
returns silently, and its share is still published; only a full queue throws.

Left out: refused submissions that leave no trace are no steps; every job has a
coinbase of its own, although the code's timestamp has a resolution of a second
(`BitcoinJob.cs:272`). The duplicate tables stay after a crash; since nobody can
submit to a job of an earlier process, nothing reads them.

`ShareBook` has two actions, `Win` and `Publish`. A header is won once. A key is
published once, and as a block only if the network accepted it, it pays the pool and its
header is not recorded as a block yet.

### WorkerDifficulty

The request handler, the idle updater and the job broadcast each have a program
counter; every access to `Difficulty`, `PreviousDifficulty` and
`pendingDifficulty` is a step. Only the update of `VarDiffContext`, which is under
a lock, is one step; the new difficulty depends on share times and is any
difficulty. `ProcessShare` is the difficulty check of
`BitcoinJob.ProcessShareInternal`, `UpdateVarDiff` and `ApplyAndNotify` are
`PoolBase.UpdateVarDiffAsync`, `BitcoinPool.OnVarDiffUpdateAsync`,
`WorkerContextBase.ApplyPendingDifficulty` and the set_difficulty message,
`SuggestDifficulty` is `OnSuggestDifficultyAsync`. A share may be a block candidate:
it skips the difficulty check (`BitcoinJob.cs:412-415`) and is credited with the
difficulty read first.

The other places that set a difficulty are no steps: the static difficulty at
authorization, the NiceHash minimum and the minimum difficulty of `mining.configure`
(`BitcoinPool.cs:402-420`) switch variable difficulty off for the connection. Such a
connection has no retargets to interleave with and no previous difficulty to fall back on, so a
share in flight across that one change is refused. The model is about connections
that keep variable difficulty.

A `double?` is a flag and a value, and neither is read or written together with the
other. A reader that comes while one changes from or to null can see the flag with
the value 0; `PreviousTorn`, `PendingFlag` and `PendingTorn` are these reads. An
exception ends the connection, except in the idle updater and in the handler of a
suggestion, where it is logged and the message to the miner is lost.

The miner sends shares of the difficulty it works at or better ones, and shares that
meet none; the difficulty of a block candidate is never looked at, so the model's candidates
meet none. `behind` of a share counts the changes since the difficulty the miner worked at,
`raced` records a write of `PreviousDifficulty` between its two reads, `doubt`
overlapping changes or a lost message, `candidate` a block candidate. The properties name
them as the exceptions, so they say how far the unsynchronised code can be trusted.

### DagCache

`recent`, `cached`, `future` are the table of `EthashLight`, `handle`,
`generated`, `owner`, `progress` the fields and the lock of each `Cache` object and
what `libethhash` has computed for it, `nodes` and `magic` the files, `stale` the epochs
whose DAG is still mapped with no handle, and whether an eviction or a generation that was
given up left it behind. `GetCached`,
`GetCachedAndPregenerate`, `TakeFuture` and `CreateCache` are the four paths
through the section under `cacheLock`. `AlreadyGenerated`, `MapFile`,
`CreateFile`, `ComputeNode`, `Seal`, `Abort`, `OpenFails`, `CreateFails` and `SealFails` are
`Cache.GenerateAsync` and `ethash_full_new`. One node stands for the stretch between
two calls of the progress callback (1 % of the DAG).

`Dispose` is `Cache.Dispose` with `ethash_full_delete`: the handle goes, and `Unmap`
says what becomes of the mapping. The address it hands to munmap lies
`MagicNumSize` bytes into the mapping; `Unmaps` is what Linux does with such an
address: it refuses it, so an evicted DAG stays mapped until the process ends. `Abort` and
`SealFails` call munmap in the same way. `HandlesAreFound` bounds the damage: an epoch that
was evicted is not mapped a second time, except by a spare object. A generation that is given up has no such bound,
since each new attempt maps the file again.

A pre-generation runs under the token of the request that started it: the
connection's end cancels it, and it is not retried. When an epoch is already in
the table and the future object is used up, a second object for an epoch in the
table may come into being; `spare` and `clobbered` follow what it can do.
`NewEpoch` makes the one assumption on time: an epoch lasts days and a generation at most
hours. A limit of three caches is the smallest for which an eviction never meets a request.

Left out: the mode without a `dagDir`; that the pages of the mapping are not
synchronised to disk before the magic number is written (the files are what the
operating system shows, so a power failure is not modelled); a sealed file that
cannot be opened or read for a moment, which the code takes for a missing or
unfinished one and creates anew (`io.c:65`, `79`); several heads on one table (two
pools whose coins have the same symbol share one `EthashLight`, `EthashFactory`) and several
tables on one `dagDir` (coins with different symbols and the same epochs). `HandleAlive`
and `OneWriter` therefore speak of one network and one table.

## 3. Runs

Twelve runs; all bounds are constants of the configurations.

| run | shows | instance |
|---|---|---|
| `payout_sendmany` | crediting and sendmany with an encrypted wallet: `CreditedOnce`, `ConfirmedOnlyIfMature`, `BooksAgree`, `NeverOverdrawn`, `BookedOnce`, `NoOverpayment`, `SettledForever`, `NoDustTransfer` | 2 blocks, a miner, a recipient and the pool's own address as recipient, one forgotten transfer, one commit retried unnoticed, one crash, one retry |
| `payout_sendtoaddress` | the same for concurrent sendtoaddress calls with rounding (`Unit` 4 against odd amounts): the inductive invariant `IInv`, of which `NeverOverdrawn`, `BookedOnce` and the type are parts | 2 blocks, 2 miners, one of them also a recipient |
| `payout_liveness` | `Payout` implements `PoolLedger`; every recorded block settles and every balance over its threshold is paid, except for what a block whose scheme throws in every run holds back | 2 blocks, the older in `Stuck`, 1 miner, one crash, one lost answer |
| `shares_orderly` | all four schemes, shares arriving and queries failing between pages, blocks confirmed oldest first: the distribution is exactly the scheme's definition, pending blocks keep the rows they need, PROP and SOLO pay the whole reward, PROP loses no share, no scheme throws (the "should never happen" branch is not taken, the finder has a counted share) | 4 shares of score 1 or 2, 3 blocks, window 3, pages of 2 |
| `shares_adverse` | equal timestamps in any order, blocks out of order, cancellation: no block hands out more than its reward; paging misses only shares that tie with a counted one | 3 shares, 2 blocks, window 5, pages of 2 |
| `recorder_faults` | `NothingLost`, `StoredOnce`, `ReportIsTrue`, `NoAttemptWhileOpen`, `EventuallyDurable` with every fault enabled | 3 shares, batches and chunks of 2, the code's 3 retries and breaker limit 2, one import |
| `submission` | `ValidSharesCounted`, `AcceptedIsRecorded`, the limit on a worker's jobs, and that `ShareSubmission` implements `ShareBook` | 2 connections with one extra nonce, 2 texts of which one stands for the winning header and the other for both, 2 jobs of which a worker keeps one, 2 shares, chain of height 2, one fault |
| `difficulty` | `CreditIsMet`, `FairShareAccepted`, `MinerInStep` | difficulties 1 and 2, send queue of 1; nothing else is bounded |
| `dag` | `MagicMeansComplete`, `HandleAlive`, `CompleteDag`, `OneWriter`, `HandlesAreFound` | 2 connections, 4 epochs of which 2 have passed, table of 3, DAG of 2 nodes, 2 objects per epoch, one fault |
| `shares_prop_rounds`, `shares_stop`, `recorder_file` | disagreements, see section 5 | |

Why the bounds are enough. A page of two is the smallest page that can end
inside a moment with several shares, and four shares are two pages
and the boundary between them. A window of 3 with scores 1 and 2 is reached
exactly, crossed, and missed. Three blocks are the fewest with one confirmed, one in the
same run and one that is pending. In `Payout` one incident of each kind is enough
because the counting properties (`BookedOnce`) bound the damage per incident
rather than forbid it, and the theorems cover any number. In `ShareRecorder`
three shares make one full batch and one closed by the timer, and a file with
more lines than one chunk. In `submission` one extra nonce is the adverse case
(every two connections collide), two jobs of which one is kept make one that was
dropped, and one that is torn by a block won on the other; two shares are the fewest that
can be one header under two keys, two headers under one key, two shares of two
connections, or two blocks at one height, and on a chain of height 2 the pool can win
twice. The theorems put no bound on any of them. The instance of `difficulty`
has no bound on steps: connections come and go for ever. Two difficulties give both
directions of a change, and a queue of one is filled by the first message; a queue
of two, checked once, shows nothing new, and the theorems hold for any. In `dag` the
third epoch fills the table and the fourth evicts; two nodes make a file that is
begun, half and complete. Symmetry is used for miners in `ShareAccounting` and for
connections in `ShareSubmission` and `DagCache`, where no definition tells them apart, and
only in runs without liveness.

Deadlock is checked for `Payout`, whose task never stops, and for
`ShareSubmission`, `WorkerDifficulty` and `DagCache`, where connections can always
come and go. `ShareRecorder` and `ShareAccounting` end when the bound on shares
is used up.

Fairness. `Payout.FairSpec`: the timer ticks and every await ends (weak fairness
of the task); the chain settles a coinbase; a call the loop repeats in every run
succeeds some time (strong fairness of the success of each such call, of the transaction
of a block in `Stuck` only when it distributes nothing). The last one is
the assumption an operator makes about daemon and database; without it nothing
can be promised, and nothing stronger is assumed: any finite number of failures,
and infinitely many, may come between. For a block in `Stuck` nothing is assumed: the
loop has no catch per block (`PayoutManager.cs:164-193`), so its exception ends the run.
`EveryBlockSettles` says that it may hold back the blocks after it and never one
before it (the run puts the older block in `Stuck`; with the younger one there it passes as well), `EveryBalanceIsPaid` that payments may wait as long as it does; without
the exceptions both are false in this run. `ShareRecorder.FairSpec`: the Rx timer
closes a buffer and `Concat` goes on; the database may refuse for ever, since
the recovery file is there for that.

## 4. Proofs

`PayoutProofs`. The constants are arbitrary up to the assumptions named in
`Payout` (finite set of blocks, positive unit and minimum payment, percentages
within 0..100). `Invariance` proves `Spec => []IInv`. The safety properties are
not inductive by themselves, because the task acts on memory that may be stale.
`IInv` adds what that memory says of the database:

* `VerdictsAreFresh`: a classified block is still pending, and one classified as
  confirmed has matured. Only this makes it safe that the transaction writes by id
  without looking at the status again. It holds since one task writes statuses, a
  crash erases the memory, and maturity is stable.
* `PayoutShape`: where in `PayoutAsync` which part of the payout state is in use,
  and that queue, answered and delivered transfers are disjoint.
* `AmountsAreCovered`: amounts in memory are at least the minimum payment, and
  covered by the balance as long as no committed transaction was retried.
* `SentIsBooked`: without incidents, what was sent is what was or will be booked,
  up to rounding.

From it follow `TypeCorrect`, `CreditedExactlyOnce`, `ConfirmedMature`,
`BooksAlwaysAgree`, `NoOverdraft`, `BookedAtMostOnce`, `NobodyOverpaid`, and the
action properties `BlocksStaySettled` and `EveryTransferIsWorthIt`.
`PayoutImplementsLedger` shows that every step maps to a step of `PoolLedger` or
a stutter, under `MaxDup = 0`: a booking retried after it had committed is
exactly what the ledger excludes. The lemmas on `Round` (at most half a unit away,
never negative) are where arithmetic is used.

`ShareRecorderProofs`. For any set of shares, batch and chunk sizes, retries and
breaker limit. `RecorderInv` joins the checked properties with what makes them
inductive: `BatchInv` (a batch exists exactly while an execution is under way),
`ImportInv` and `ReportInv` (lines of the file are unread, in the list or stored,
as long as no import failed), `BreakerInv` (no attempt is under way while the circuit is
open). Theorems: `RecorderTypeCorrect`, `RecorderInvariance`, `NoShareIsLost`,
`StoredBlocksAnnounced`, `SuccessIsReportedTruthfully`, `OpenCircuitIsHonoured`. `NoShareIsStoredTwice` assumes at most one import of
the file (importing it again stores everything again, as the tool warns of
nothing) and uses two more invariants: the places a share can be in are disjoint
(`DisjointInv`), and a share none of whose commits went unnoticed has at most one
row or line in all (`OnceInv`).

`ShareSubmissionProofs`. For any connections, texts and their meanings, extra nonces
and bounds. `SubmissionInvariance` proves `SubmissionInv`: the type, the two safety
properties and what the unfinished requests know. `KeyInv` says that keys tell registered
shares apart, although headers do not; `ChainInv` that every block that was won has a
height of its own, and that what is recorded as a block was won; `RegisteredInv` that all that is
in flight, on the wire, won or published has passed the duplicate check; `FlightInv` that a
share is in at most one request and not yet published; `VerdictInv` that a
request at "accepted" or "respondBlock" is about a block that was won (and at
the latter pays the pool or is torn); `AwaitedInv` that a block on the wire is still
awaited or has been given up, without which a late acceptance could belong to
a request that has gone on. From it `SubmissionTypeCorrect`,
`AcceptedBlocksRecorded`, `CheckedSharesCounted`, and `SubmissionImplementsBook`:
every step is a `Win`, a `Publish` or a stutter of `ShareBook`. That a header is recorded
once rests on the chain and not on the duplicate check: two shares with one header have one
job, so one height, and `ChainInv` makes them the same share.

`WorkerDifficultyProofs`. For any difficulties and queue capacity.
`DifficultyInvariance` proves `DifficultyInv`: the type, `LocalInv` (what a task's
local variable holds at which point), `ChangeInv` (as long as nothing is in doubt: at
most one change is under way, the miner and the queue together lag behind
`difficulty` by exactly the messages not sent yet, `previous` is the difficulty
before the last change, and a share at most one change behind meets one of the
two), and `HandlerInv` (what the handler's position says of the share). From
it `DifficultyTypeCorrect`, `SharesEarnTheirCredit`, `FairSharesAccepted` and
`MinerStaysInStep`. The case the proof turns on is a change that begins between the handler's
reads of the current and the previous difficulty.

`DagCacheProofs`. For any connections, epochs, sizes and limits. `DagInvariance` proves
`DagInv`: the types of what the files depend on (`StateType`), `LockInv` (who is
generating holds the lock of its object, and nobody else does), `ProgressInv`
(the nodes computed so far are in the file unless it was emptied by another
object), `SealedInv` (an object with a handle has a sealed file), and
`MagicMeansComplete`. `SealedFilesComplete` and `SharesMeetCompleteDags` follow.
`TableInv` adds the shape of the table (which epochs it holds, in which order, and one
object for each), which gives `TypeCorrect`. Eviction is about the order of epochs:
`LifeInvariance` proves `LifeInv`, which says how recent the objects are that
requests and generations hold (`WorkInv`, `FutureInv`), that only older ones have
been disposed of (`DisposedInv`), that every object in use is in the table, the future one or
a spare (`FoundInv`), and who generates it (`OwnerInv`). It needs `NumCaches >= 3`, the
code's default; with two, `HandleAlive` is false. From it `HandlesStayAlive` and
`WritersAreSpares`. `HandlesStayFound` adds `EvictedInv`: an epoch that was evicted has passed,
and the table has nothing for it.

`SumLemmas`. The library states induction with an operator as parameter, which the
provers cannot instantiate. `NatSetInduction` and `SubsetInduction` state it for a *set*
(of numbers, of subsets of a finite set) instead, and follow from well-foundedness of
`<`. With them `SumExists` and `SumUnique` show that `SumFunctionOnSet` has the value
its recursion describes, and the rest are the laws the proofs cite: adding an element
(`SumInsert`), changing one summand (`SumUpdate`), monotony, scaling, subsets, zeros.

`ShareAccountingProofs` and `ShareScanProofs`. For any finite set of miners, positive
scores, window and page size, and any bounds on shares and blocks.

* `ShapeInvariance` proves `ShapeInv`: types, control, and `Sums` (a miner's reward
  and what remains add up to no more than the reward, and what remains covers the rest of the
  window). `TypeCorrect` follows. `SumInv` speaks of the sum over all miners and gives
  `RewardsBounded`; neither has a hypothesis.
* `ScanInvariance` proves `ScanAll`. `TimeInv` orders shares and blocks by `Created`,
  `DeletedInv` says that deleted rows are older than all that are left, and `ScanInv`
  follows the page loop: at its head what is not represented among the counted
  shares lies below the bound of the next query (`LoopInv`), within a page it is on the rest
  of the page or older than a full page (`PageInv`, `RestInv`), and no gap opens
  (`NoGaps`). SOLO deletes by miner and is exempt. `OnlyTiesMissed` follows without a hypothesis.
* `EveryShareRewarded` (PROP) adds `CompleteInv` (a scan that ended by itself has represented
  every row) and `RoundInv` (a deleted row was counted). Shares with
  equal `Created` may be missed at the end of a page, and a stop ends the loop early:
  hence the hypotheses `DistinctTimes` and `~MayStop`.
* `PendingSharesStay` (PPLNS) rests on `WindowInv` (the accumulated score is that of the
  counted shares, capped) and `KeepInv`: above a deleted row lies a full window, for
  every pending block and for the present. `KeepInv` survives a commit only because
  no older block is pending (`OrderInv`), so `~SkipsBlocks` is assumed; ties
  and stops do no harm.
* `SchemesDoNotThrow` adds `OwnInv` (the share a pending block was found with is still a
  row), `CreditInv` and `LastPageInv`. It assumes all of the above, and that
  something is to be distributed: `BlockReward > 0` and `FinderPercent < 100`. With
  nothing left to distribute the first share takes the branch that "should never happen".
* `ExactDistribution` adds `RewardInv`: at every step the rewards so far are the parts
  that the definition (`Due`) gives the counted shares. At the end, shares that
  were not counted lie outside the window and are due nothing.
* `WholeReward` (PROP, SOLO) adds `PropInv`, the range of the divisor, and assumes that
  divisions are exact: the reward is a multiple of every total score that can occur. The instance of
  `shares_orderly` (2520, totals up to 8) meets it. Ties are allowed.

Only model-checked: the liveness properties `EveryBlockSettles`, `EveryBalanceIsPaid`
and `EventuallyDurable`, because the provers do not handle fairness and `ENABLED`.

## 5. Where code and text disagree

* `shares_prop_rounds`. PROP deletes rows strictly older than the newest share
  of the round, so that share (normally the block's own) is rewarded again in the next
  round; `PROPPaymentScheme.cs:195`.
* `shares_stop`. A block reached while the host is stopping is committed as
  confirmed although the page loop ended early; its miners get nothing or part,
  and no later run looks at the block again; `PPLNSPaymentScheme.cs:167`. The other
  schemes have the same loop.
* `recorder_file`. A commit whose answer was lost counts as failed. After the last retry
  its shares are appended to a file whose header says they "could not be
  committed", and importing it stores them again; `ShareRecorder.cs:158`.

Two more are built into the models and show as exceptions of their properties:

* A block accepted between the two reads of `nextBlockIsExternal`
  (`BitcoinJobManager.cs:177`, `178`) leaves a job that pays one address and is marked for
  the other. The comment at line 437 speaks of "pool address blocks only"; a block of such
  a job is recorded although it does not pay the pool (the payment task then finds no
  wallet transaction for it), or hidden although it does. `Torn` names these jobs in
  `AcceptedIsRecorded` and where `ShareBook` is instantiated.
* `ethash_full_delete`, which "frees" a handler (`Native/libethhash/ethash.h:114`), hands
  munmap an address that is not the start of a page (`Native/libethhash/internal.c:387`, `476`). On Linux the
  call fails, nobody looks at the result, and every evicted DAG stays mapped until the process
  ends: `stale`, `HandlesAreFound`.

Two promises hold only because blocks are confirmed oldest first. If
gettransaction answers with an error for an older block and not for a younger one
(`BitcoinPayoutHandler.cs:136` skips it), `PendingSharesKept`, `DistributionIsExact`
and `SchemeNeverThrows` fail. `shares_orderly` therefore sets `SkipsBlocks = FALSE`,
and `shares_adverse`, which sets it to `TRUE`, checks the weaker promises.

## 6. Not modelled, and why

* How templates reach the job manager (polling, ZeroMQ, timers) and how a job
  serialises its block: the models use the outcome, any template in any order.
* Stratum transport (`StratumServer`, `StratumConnection`): sockets, pipes and TLS,
  whose semantics lie in libraries. What the pool sees of a connection is in the
  models: one request at a time, a bounded send queue, cancellation.
* Extra nonce provider: one counter; its outcome, colliding extra nonces, is
  the adverse case of `ShareSubmission`.
* Ban manager, zombie and effort checks: single statements on concurrent
  dictionaries and wall-clock comparisons. Configuration hot reload: file
  events and a debounce by wall clock. Their hazards are listed.
* Share relay: ZeroMQ PUB/SUB, whose losses are the library's.
* Hash functions, serialisation (pure computation without a small reference),
  hashrate statistics (floating point that no decision uses), notifications,
  metrics, API queries (output only).
* The other coin families. They override the same hooks as the Bitcoin family;
  their wire formats and daemons differ.

Worth adding next: the hot reload against `docs/features/config-hot-reload.md`;
a composition of `ShareRecorder` and `ShareAccounting` through the share table, with
rows imported late (older `Created`); bans against
`docs/features/connection-hardening.md`.
