-------------------------- MODULE ShareAccounting --------------------------
(***************************************************************************)
(* The share table and the payout schemes that consume it: PPLNS, PPLNSBF, *)
(* PROP and SOLO.  A scheme runs inside the transaction that confirms a    *)
(* block; it reads shares page by page, newest first, turns them into      *)
(* rewards and deletes the shares it regards as discarded.  Every page is  *)
(* read with a connection of its own, outside the transaction, so shares   *)
(* may be stored and the host may be stopped between any two steps.        *)
(*                                                                         *)
(* A share's score (difficulty / networkdifficulty) is a natural number,   *)
(* in the unit in which Window is the PPLNS factor.  Decimal divisions are *)
(* exact: BlockReward is a multiple of every divisor that can occur.       *)
(* Time is the order of the Created columns.                               *)
(***************************************************************************)
EXTENDS Integers, Sequences, FiniteSets, Functions

CONSTANTS
    Miners,         \* addresses that submit shares
    Scores,         \* possible scores of a share
    Schemes,        \* payout schemes to choose the pool's from
    Window,         \* PPLNS factor, in units of score
    FinderPercent,  \* PPLNSBF: blockFinderPercentage
    BlockReward,    \* reward left for the scheme (after recipients)
    PageSize,       \* rows per read (50000 and 100000 in the code)
    DistinctTimes,  \* no two shares have the same Created
    SkipsBlocks,    \* the daemon may fail to answer for an older block only
    MayStop,        \* the host may be stopped (cancellation) during a run
    MaxShares,      \* bound: shares ever submitted
    MaxBlocks       \* bound: blocks ever found

ASSUME SchemesAssumption == Schemes \subseteq {"PPLNS", "PPLNSBF", "PROP", "SOLO"}
ASSUME NumbersAssumption ==
    /\ Window \in Nat \ {0} /\ PageSize \in Nat \ {0} /\ BlockReward \in Nat
    /\ FinderPercent \in 0..100 /\ Scores \subseteq Nat \ {0}
    /\ MaxShares \in Nat /\ MaxBlocks \in Nat
ASSUME MinersAssumption == IsFiniteSet(Miners)

VARIABLES
    scheme,    \* payoutScheme of the pool's configuration; never changes
    now,       \* the clock
    archive,   \* every share ever stored: <<[miner, created, score], ...>>
    shares,    \* indices of the rows of table shares
    blocks,    \* rows of table blocks: <<[miner, created, status], ...>>
    outcome,   \* block -> what its confirmation distributed (history)
    run,       \* memory of the payment task: matured blocks to confirm
    stopping,  \* the cancellation token: "no" or "yes"
    failure,   \* exception that ended the last run, or "none"
    \* UpdateBalancesAsync and CalculateRewardsAsync: where they are, their locals
    task,      \* "idle", "loop" (head of the page loop), "rows" or "write"
    block,     \* the block being confirmed, 0 if none
    before, inclusive,  \* the next page's bound on Created
    page, row,          \* the page read last and the index of its next row
    done, acc, remaining, scores, rewards,
    cutoff,    \* shareCutOffDate; 0 is null
    counted    \* shares counted so far (history)

tables == <<scheme, now, archive, shares, blocks, outcome>>
pageVars == <<before, inclusive, page, row>>
sumVars == <<done, acc, remaining, scores, rewards, cutoff, counted>>
locals == <<task, block, pageVars, sumVars>>
vars == <<tables, run, stopping, failure, locals>>

Nobody == [m \in Miners |-> 0]
Created(s) == archive[s].created
Pending == {b \in DOMAIN blocks : blocks[b].status = "pending"}
PPLNS == scheme \in {"PPLNS", "PPLNSBF"}

Total(r) == SumFunctionOnSet(r, Miners)

-----------------------------------------------------------------------------
(* ShareRepository *)

\* Mutant of Found: the bound itself is read again with every page.
FoundInclusive == {s \in shares : Created(s) <= before}

\* ReadSharesBeforeAsync: the rows its WHERE clause selects.
Found == {s \in shares : Created(s) < before \/ (inclusive /\ Created(s) = before)}

\* Mutant of IsPage: the oldest rows come first.
IsPageOldestFirst(p) ==
    /\ \A i, j \in DOMAIN p : i < j => p[i] # p[j] /\ Created(p[i]) <= Created(p[j])
    /\ Len(p) = PageSize \/ Range(p) = Found
    /\ \A s \in Found \ Range(p), i \in DOMAIN p : Created(s) >= Created(p[i])

\* ReadSharesBeforeAsync: ORDER BY created DESC FETCH NEXT PageSize ROWS ONLY.  The
\* database may return rows with equal Created in any order.
IsPage(p) ==
    /\ \A i, j \in DOMAIN p : i < j => p[i] # p[j] /\ Created(p[i]) >= Created(p[j])
    /\ Len(p) = PageSize \/ Range(p) = Found
    /\ \A s \in Found \ Range(p), i \in DOMAIN p : Created(s) <= Created(p[i])

\* Mutant of SharesBefore: the condition on Created is missing.
SharesOfPool == shares

\* Mutant of SharesBefore: the cutoff itself is included.
SharesUpTo == {s \in shares : Created(s) <= cutoff}

\* CountSharesBeforeAsync, DeleteSharesBeforeAsync
SharesBefore == {s \in shares : Created(s) < cutoff}

-----------------------------------------------------------------------------
FinderReward == IF scheme = "PPLNSBF" THEN (BlockReward * FinderPercent) \div 100 ELSE 0
Distributed == BlockReward - FinderReward

Init ==
    /\ scheme \in Schemes
    /\ now = 1
    /\ archive = <<>> /\ shares = {}
    /\ blocks = <<>> /\ outcome = <<>>
    /\ run = {} /\ stopping = "no" /\ failure = "none"
    /\ task = "idle" /\ block = 0
    /\ before = 0 /\ inclusive = TRUE /\ page = <<>> /\ row = 1
    /\ done = FALSE /\ acc = 0 /\ remaining = 0 /\ scores = Nobody /\ rewards = Nobody
    /\ cutoff = 0 /\ counted = {}

\* A share is stored; a block candidate inserts its block in the same
\* transaction, with the share's Created.
StoreShare(m, score, isBlock) ==
    /\ Len(archive) < MaxShares
    /\ isBlock => Len(blocks) < MaxBlocks
    /\ archive' = Append(archive, [miner |-> m, created |-> now, score |-> score])
    /\ shares' = shares \cup {Len(archive) + 1}
    /\ IF isBlock
         THEN /\ blocks' = Append(blocks, [miner |-> m, created |-> now, status |-> "pending"])
              /\ outcome' = Append(outcome, [rewards |-> Nobody, counted |-> {}])
         ELSE UNCHANGED <<blocks, outcome>>
    /\ now' \in IF DistinctTimes THEN {now + 1} ELSE {now, now + 1}
    /\ UNCHANGED <<scheme, run, stopping, failure, locals>>

-----------------------------------------------------------------------------
(* PayoutManager.UpdatePoolBalancesAsync *)

\* ClassifyBlocksAsync found matured blocks.  Older coinbases mature first, so
\* an older block is left out only when the daemon did not answer for it.
StartRun(S) ==
    /\ run = {} /\ stopping = "no"
    /\ S # {} /\ S \subseteq Pending
    /\ SkipsBlocks \/ \A b \in S, c \in Pending : c < b => c \in S
    /\ run' = S
    /\ failure' = "none"
    /\ UNCHANGED <<tables, stopping, locals>>

\* A pending block that is not in the current run is orphaned.
OrphanBlock(b) ==
    /\ run = {} /\ b \in Pending
    /\ blocks' = [blocks EXCEPT ![b].status = "orphaned"]
    /\ UNCHANGED <<scheme, now, archive, shares, outcome, run, stopping, failure, locals>>

IsNextBlock(b) == b \in run /\ \A c \in run : b <= c

\* UpdateBalancesAsync is left; its locals go.
EndTask ==
    /\ task' = "idle" /\ block' = 0
    /\ before' = 0 /\ inclusive' = TRUE /\ page' = <<>> /\ row' = 1
    /\ done' = FALSE /\ acc' = 0 /\ remaining' = 0 /\ scores' = Nobody /\ rewards' = Nobody
    /\ cutoff' = 0 /\ counted' = {}

\* The transaction throws and is rolled back; the run ends.
Throw(reason) ==
    /\ failure' = reason
    /\ run' = {}
    /\ EndTask
    /\ UNCHANGED <<tables, stopping>>

\* The transaction commits.
Commit(amounts, deleted) ==
    /\ blocks' = [blocks EXCEPT ![block].status = "confirmed"]
    /\ outcome' = [outcome EXCEPT ![block] = [rewards |-> amounts, counted |-> counted]]
    /\ shares' = shares \ deleted
    /\ run' = run \ {block}
    /\ EndTask
    /\ UNCHANGED <<scheme, now, archive, stopping, failure>>

-----------------------------------------------------------------------------
(* CalculateRewardsAsync *)

\* Mutant of Start: the block's own timestamp is excluded from the first page.
StartExclusive(b) ==
    /\ block' = b /\ before' = blocks[b].created /\ inclusive' = FALSE
    /\ remaining' = Distributed
    /\ rewards' = [Nobody EXCEPT ![blocks[b].miner] = FinderReward]
    /\ UNCHANGED <<page, row, done, acc, scores, cutoff, counted>>

\* The locals when the loop is entered.
Start(b) ==
    /\ block' = b /\ before' = blocks[b].created /\ inclusive' = TRUE
    /\ remaining' = Distributed
    /\ rewards' = [Nobody EXCEPT ![blocks[b].miner] = FinderReward]
    /\ UNCHANGED <<page, row, done, acc, scores, cutoff, counted>>

\* UpdateBalancesAsync is called for the next block of the run.
BeginBlock(b) ==
    /\ task = "idle" /\ IsNextBlock(b) /\ scheme # "SOLO"
    /\ task' = "loop"
    /\ Start(b)
    /\ UNCHANGED <<tables, run, stopping, failure>>

\* SOLO reads no shares: the finder gets the whole reward.
BeginSolo(b) ==
    /\ task = "idle" /\ IsNextBlock(b) /\ scheme = "SOLO"
    /\ task' = "write" /\ block' = b
    /\ rewards' = [Nobody EXCEPT ![blocks[b].miner] = BlockReward]
    /\ cutoff' = blocks[b].created
    /\ UNCHANGED <<tables, run, stopping, failure, pageVars, done, acc, remaining, scores, counted>>

\* The loop goes on and reads a page.
ReadPage ==
    /\ task = "loop" /\ ~done /\ stopping = "no"
    /\ \E n \in 0..PageSize : \E p \in [1..n -> Found] : IsPage(p) /\ page' = p
    /\ inclusive' = FALSE /\ row' = 1 /\ task' = "rows"
    /\ UNCHANGED <<tables, run, stopping, failure, block, before, sumVars>>

\* A query that is given the cancelled token throws.
ReadCancelled ==
    /\ task = "loop" /\ ~done /\ stopping = "yes"
    /\ Throw("cancelled")

\* The loop ends: done, or the token is cancelled.
LeaveLoop ==
    /\ task = "loop" /\ (done \/ stopping = "yes")
    /\ task' = "write"
    /\ UNCHANGED <<tables, run, stopping, failure, block, pageVars, sumVars>>

MoreRows == row <= Len(page) /\ ~done

\* The accumulated score would cross the threshold.
Crosses(s) == acc + archive[s].score >= Window

\* Mutant of Score: the share that crosses the window counts in full.
ScoreUncapped(s) == archive[s].score

\* The score of a share, capped where it crosses the window.
Score(s) == IF Crosses(s) THEN Window - acc ELSE archive[s].score

RewardOf(s) == (Score(s) * Distributed) \div Window

\* PROP computes the rewards once all scores are known.
FinalRewards ==
    IF scheme = "PROP" /\ acc > 0
      THEN [m \in Miners |-> (scores[m] * BlockReward) \div acc]
      ELSE rewards

\* "This should never happen": nothing is left of the reward before the window is
\* full (PPLNS, PPLNSBF), or before the last page was read (PROP).
Overflow ==
    \/ /\ task = "rows" /\ PPLNS /\ MoreRows
       /\ remaining - RewardOf(page[row]) <= 0 /\ ~Crosses(page[row])
    \/ task = "write" /\ scheme = "PROP" /\ ~done /\ Total(FinalRewards) >= BlockReward

\* PPLNS, PPLNSBF: one share of a page.
CountPPLNS ==
    LET s == page[row]
    IN  /\ task = "rows" /\ PPLNS /\ MoreRows /\ ~Overflow
        /\ acc' = acc + Score(s)
        /\ remaining' = remaining - RewardOf(s)
        /\ cutoff' = IF Crosses(s) THEN Created(s) ELSE cutoff
        /\ done' = Crosses(s)
        /\ rewards' = [rewards EXCEPT ![archive[s].miner] = @ + RewardOf(s)]
        /\ counted' = counted \cup {s}
        /\ row' = row + 1
        /\ UNCHANGED <<tables, run, stopping, failure, task, block, before, inclusive, page, scores>>

\* Mutant of AddScore: a later share overwrites the score of its miner.
OverwriteScore(s) == [scores EXCEPT ![archive[s].miner] = archive[s].score]

AddScore(s) == [scores EXCEPT ![archive[s].miner] = @ + archive[s].score]

\* PROP: one share of a page.
CountPROP ==
    LET s == page[row]
    IN  /\ task = "rows" /\ scheme = "PROP" /\ MoreRows
        /\ acc' = acc + archive[s].score
        /\ scores' = AddScore(s)
        /\ cutoff' = IF Created(s) > cutoff THEN Created(s) ELSE cutoff
        /\ counted' = counted \cup {s}
        /\ row' = row + 1
        /\ UNCHANGED <<tables, run, stopping, failure, task, block, before, inclusive, page,
                       done, remaining, rewards>>

\* A full page: the next one starts before its last row.
NextPage ==
    /\ task = "rows" /\ ~MoreRows /\ Len(page) = PageSize
    /\ before' = Created(page[Len(page)])
    /\ task' = "loop"
    /\ UNCHANGED <<tables, run, stopping, failure, block, inclusive, page, row, sumVars>>

\* A short page is the last one.
LastPage ==
    /\ task = "rows" /\ ~MoreRows /\ Len(page) < PageSize
    /\ done' = (done \/ scheme = "PROP")
    /\ task' = "write"
    /\ UNCHANGED <<tables, run, stopping, failure, block, pageVars,
                   acc, remaining, scores, rewards, cutoff, counted>>

-----------------------------------------------------------------------------
(* UpdateBalancesAsync after the loop *)

\* The usage text of a balance change looks up the address in the dictionary of
\* counted shares; PPLNSBF may credit a finder who is not in it.
MissingKey ==
    /\ scheme = "PPLNSBF"
    /\ \E m \in Miners : rewards[m] > 0 /\ \A s \in counted : archive[s].miner # m

\* The rows a scheme deletes.
Discarded ==
    IF cutoff = 0 THEN {}
    ELSE IF scheme = "SOLO" THEN {s \in shares : archive[s].miner = blocks[block].miner}
    ELSE SharesBefore

\* The balances and the block are written and the discarded rows deleted; only the
\* queries on these rows are given the token.
Write ==
    /\ task = "write" /\ ~Overflow /\ ~MissingKey /\ (stopping = "no" \/ cutoff = 0)
    /\ Commit(FinalRewards, Discarded)

ThrowOverflow == Overflow /\ Throw("overflow")

ThrowMissingKey == task = "write" /\ MissingKey /\ Throw("missing key")

ThrowCancelled ==
    /\ task = "write" /\ ~Overflow /\ ~MissingKey /\ stopping = "yes" /\ cutoff # 0
    /\ Throw("cancelled")

\* A query fails for good (after the retries of shareReadFaultPolicy).
DatabaseFails == task # "idle" /\ Throw("database")

\* The host asks its services to stop; later the process is started again.
Stop ==
    /\ MayStop /\ stopping = "no" /\ run # {}
    /\ stopping' = "yes"
    /\ UNCHANGED <<tables, run, failure, locals>>

Restart ==
    /\ stopping = "yes"
    /\ stopping' = "no" /\ run' = {}
    /\ EndTask
    /\ UNCHANGED <<tables, failure>>

Step ==
    \/ ReadPage \/ ReadCancelled \/ LeaveLoop
    \/ CountPPLNS \/ CountPROP \/ NextPage \/ LastPage
    \/ Write \/ ThrowOverflow \/ ThrowMissingKey \/ ThrowCancelled \/ DatabaseFails

Next ==
    \/ \E m \in Miners, score \in Scores, isBlock \in BOOLEAN : StoreShare(m, score, isBlock)
    \/ \E S \in SUBSET Pending : StartRun(S)
    \/ \E b \in DOMAIN blocks : OrphanBlock(b) \/ BeginBlock(b) \/ BeginSolo(b)
    \/ Step
    \/ Stop \/ Restart

Spec == Init /\ [][Next]_vars

-----------------------------------------------------------------------------
(* What the schemes promise, stated over every share ever stored, whether its *)
(* row still exists or not.                                                   *)

Confirmed == {b \in DOMAIN blocks : blocks[b].status = "confirmed"}
ScoreOf(S) == SumFunctionOnSet([s \in DOMAIN archive |-> archive[s].score], S)
UpTo(b) == {s \in DOMAIN archive : Created(s) <= blocks[b].created}

\* The part of a share's score that lies in the window of block b (for shares
\* with distinct times): the window is filled from the newest share down.
InWindow(b, s) ==
    LET left == Window - ScoreOf({t \in UpTo(b) : Created(t) > Created(s)})
    IN  IF left <= 0 THEN 0 ELSE IF left < archive[s].score THEN left ELSE archive[s].score

Needed(b) == {s \in UpTo(b) : InWindow(b, s) > 0}

\* What the definition of PPLNS(BF) gives each miner for block b.
Due(b) ==
    [m \in Miners |->
        (IF m = blocks[b].miner THEN FinderReward ELSE 0)
        + SumFunctionOnSet([s \in UpTo(b) |-> (InWindow(b, s) * Distributed) \div Window],
                           {s \in UpTo(b) : archive[s].miner = m})]

\* The tables and the locals have the right shapes, and no miner gets more than a
\* whole block.
TypeOK ==
    /\ scheme \in Schemes
    /\ now \in 1..(MaxShares + 1)
    /\ archive \in Seq([miner : Miners, created : Nat, score : Scores])
    /\ shares \subseteq DOMAIN archive
    /\ blocks \in Seq([miner : Miners, created : Nat,
                       status : {"pending", "confirmed", "orphaned"}])
    /\ Len(outcome) = Len(blocks)
    /\ \A b \in DOMAIN outcome : outcome[b].rewards \in [Miners -> 0..BlockReward]
    /\ run \subseteq Pending
    /\ stopping \in {"no", "yes"}
    /\ failure \in {"none", "overflow", "missing key", "cancelled", "database"}
    /\ task \in {"idle", "loop", "rows", "write"}
    /\ block \in run \cup {0}
    /\ before \in Nat /\ inclusive \in BOOLEAN
    /\ page \in Seq(DOMAIN archive) /\ row \in Nat
    /\ done \in BOOLEAN /\ acc \in Nat /\ remaining \in 0..BlockReward
    /\ scores \in [Miners -> Nat] /\ rewards \in [Miners -> 0..BlockReward]
    /\ cutoff \in Nat /\ counted \subseteq DOMAIN archive

\* PPLNS and PPLNSBF credit every miner with exactly the share of the reward its
\* work in the window earned, although pages are read one by one and earlier
\* blocks have deleted rows (UpdateBalancesAsync, CalculateRewardsAsync).
DistributionIsExact ==
    PPLNS => \A b \in Confirmed : outcome[b].rewards = Due(b)

\* The rows deleted with one block ("discarded shares") are never rows that a
\* block still pending needs (DeleteSharesBeforeAsync).
PendingSharesKept ==
    PPLNS => \A b \in Pending : Needed(b) \subseteq shares

\* However shares tie, blocks are skipped or the host stops, the schemes never
\* hand out more than the reward of the block.
NeverOverDistributed == \A b \in Confirmed : Total(outcome[b].rewards) <= BlockReward

\* Whatever rows tie at the end of a page, a moment that has shares newer than
\* the oldest counted share is represented: paging drops no share except one
\* that has the Created of another share that is counted.
OnlyTiesAreMissed ==
    \A b \in Confirmed : \A t \in outcome[b].counted :
        \A s \in UpTo(b) : Created(s) > Created(t) =>
            \E u \in outcome[b].counted : Created(u) = Created(s)

\* No scheme ends a payment run with an exception: a window that is reached exactly
\* ends the scan before the branch marked "this should never happen", and the finder
\* that PPLNSBF credits has a counted share.
SchemeNeverThrows == failure \notin {"overflow", "missing key"}

\* PROP and SOLO hand out the whole reward of every confirmed block, although
\* PROP divides it by what earlier blocks have left in the table.
WholeRewardPaid ==
    scheme \in {"PROP", "SOLO"} =>
        \A b \in Confirmed : Total(outcome[b].rewards) = BlockReward

\* PROP: work done up to a confirmed block has been rewarded in some round.
NoShareLost ==
    scheme = "PROP" =>
        \A b \in Confirmed : \A s \in UpTo(b) :
            \E c \in Confirmed : s \in outcome[c].counted

\* PROP: a share is rewarded in one round only.
OneRoundPerShare ==
    scheme = "PROP" =>
        \A b, c \in Confirmed : b # c => outcome[b].counted \cap outcome[c].counted = {}
=============================================================================
