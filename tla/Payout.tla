------------------------------- MODULE Payout -------------------------------
(***************************************************************************)
(* Payment processing of one pool: PayoutManager.ProcessPoolsAsync drives  *)
(* a payout handler (PayoutHandlerBase, BitcoinPayoutHandler) against the  *)
(* pool database (blocks, balances, balance_changes, payments) and the     *)
(* coin daemon's wallet.                                                   *)
(*                                                                         *)
(* One background task runs the loop.  Every await on the database or on   *)
(* the daemon is a point where the chain moves on, the API changes a       *)
(* miner's settings, the call fails, the answer is lost or the process     *)
(* dies; each such point is a value of pc.  What the task read before the  *)
(* await stays in its memory (verdict, payees, owed, delivered) and is     *)
(* used after it.                                                          *)
(*                                                                         *)
(* Amounts are natural numbers of the smallest fraction the database keeps *)
(* (decimal); Unit is 10^-payoutDecimalPlaces in that fraction, the        *)
(* granularity the wallet is asked to pay in.                              *)
(***************************************************************************)
EXTENDS Integers, FiniteSets, FiniteSetsExt

CONSTANTS
    Blocks,          \* rows of table blocks, numbered in order of Created
    Miners,          \* addresses that submit shares
    Recipients,      \* poolConfig.RewardRecipients (addresses)
    PoolAddress,     \* poolConfig.Address
    Percentage,      \* recipient -> percentage of every block reward
    Reward,          \* block -> amount of its coinbase transaction
    MinimumPayment,  \* paymentProcessing.minimumPayment
    Thresholds,      \* payment thresholds the API may be asked to store
    Unit,            \* payout granularity (payoutDecimalPlaces)
    BrokenSendMany,  \* HasBrokenSendMany: pay one by one with sendtoaddress
    Encrypted,       \* the daemon's wallet has a passphrase
    WalletPassword,  \* ... and it is configured (walletPassword)
    Stuck,           \* blocks whose payout scheme may throw in every run
    RetryCount,      \* retries of PersistPaymentsAsync (8 in the code)
    MaxLost,         \* bound: transfers the pool forgets
    MaxDup,          \* bound: commits that apply but report failure
    MaxCrashes       \* bound: crashes and restarts

Addresses == Miners \cup Recipients

ASSUME BlocksAssumption == Blocks \subseteq Nat /\ IsFiniteSet(Blocks)
ASSUME RewardAssumption == Reward \in [Blocks -> Nat]
ASSUME PercentageAssumption == Percentage \in [Recipients -> 0..100]
ASSUME ThresholdAssumption ==
    MinimumPayment \in Nat \ {0} /\ Thresholds \subseteq Nat
ASSUME UnitAssumption == Unit \in Nat \ {0}
ASSUME ModeAssumption ==
    BrokenSendMany \in BOOLEAN /\ Encrypted \in BOOLEAN /\ WalletPassword \in BOOLEAN
ASSUME StuckAssumption == Stuck \subseteq Blocks
ASSUME BoundsAssumption ==
    RetryCount \in Nat /\ MaxLost \in Nat /\ MaxDup \in Nat /\ MaxCrashes \in Nat

VARIABLES
    \* coin daemon
    chain,       \* block -> what gettransaction says of its coinbase
    wallet,      \* "locked": it asks for its passphrase; or "open"
    sent,        \* address -> total the wallet was asked to transfer to it
    \* pool database
    status,      \* block -> blocks.status, "none" before the row exists
    balance,     \* address -> balances.amount (0 when there is no row)
    credited,    \* address -> sum of its "Reward for block" balance_changes
    reset,       \* address -> sum of its "Balance reset" balance_changes
    paid,        \* address -> sum of its payments rows
    threshold,   \* address -> COALESCE(miner_settings.paymentthreshold, minimum)
    \* memory of the payment task
    pc,          \* where the task waits
    todo,        \* pending blocks that are not classified yet
    verdict,     \* block -> status ClassifyBlocksAsync gave it, or "skip"
    payees,      \* addresses of the balances that were read
    owed,        \* address -> Balance.Amount that was read
    queue,       \* sendtoaddress: transfers that have not been tried
    answered,    \* sendtoaddress: transfers whose txid is not stored yet
    delivered,   \* addresses PersistPaymentsAsync is given
    attempts,    \* retries PersistPaymentsAsync has used
    \* history, read by properties and bounds only
    ncredit,     \* block -> times its reward was credited
    nsent,       \* address -> transfers to it
    nrec,        \* address -> times a transfer to it was booked
    lost,        \* times a transfer was made and forgotten
    dup,         \* times a booking was retried although it had committed
    crashes

daemon == <<chain, wallet, sent>>
db == <<status, balance, credited, reset, paid, threshold>>
memory == <<pc, todo, verdict, payees, owed, queue, answered, delivered,
            attempts>>
history == <<ncredit, nsent, nrec, lost, dup, crashes>>
vars == <<daemon, db, memory, history>>

Verdicts == {"skip", "pending", "confirmed", "orphaned"}
PCs == {"idle", "classify", "update", "send", "unlock", "resend", "sendEach",
        "persist"}

-----------------------------------------------------------------------------
(* Amounts *)

\* block.Reward * (recipient.Percentage / 100)
RecipientAmount(b, r) == (Reward[b] * Percentage[r]) \div 100

\* What UpdateBlockRewardBalancesAsync leaves for the payout scheme.
RewardRemaining(b) ==
    Reward[b] - MapThenSumSet(LAMBDA r : RecipientAmount(b, r), Recipients)

\* The contract of IPayoutScheme.UpdateBalancesAsync: it credits miners with
\* amounts that do not exceed the remaining reward (module ShareAccounting has
\* the schemes themselves).
SchemeCredits(b) ==
    {d \in [Miners -> 0..Reward[b]] :
        MapThenSumSet(LAMBDA m : d[m], Miners) <= RewardRemaining(b)}

\* All balance changes of a confirmed block: reward recipients other than the
\* pool's own wallet, then the scheme.
Credit(b, d, a) ==
    (IF a \in Recipients \ {PoolAddress} THEN RecipientAmount(b, a) ELSE 0)
    + (IF a \in Miners THEN d[a] ELSE 0)

\* Math.Round(amount, payoutDecimalPlaces): to nearest, ties to even.
Round(x) ==
    LET q == x \div Unit
        r == x % Unit
    IN  IF 2 * r < Unit \/ (2 * r = Unit /\ q % 2 = 0)
          THEN q * Unit
          ELSE q * Unit + Unit

\* Mutant of Booked: books the rounded amount for sendmany too.
BookedRounded(a) == Round(owed[a])

\* The Balance.Amount that is booked for a delivered transfer: the balance that
\* was read (sendmany) or the rounded amount that was sent (sendtoaddress).
Booked(a) == IF BrokenSendMany THEN Round(owed[a]) ELSE owed[a]

-----------------------------------------------------------------------------
(* Initial state: an empty database and a task that waits for its timer *)

Zero == [a \in Addresses |-> 0]
NoVerdict == [b \in Blocks |-> "skip"]

Init ==
    /\ chain = [b \in Blocks |-> "immature"]
    /\ wallet = IF Encrypted THEN "locked" ELSE "open"
    /\ sent = Zero
    /\ status = [b \in Blocks |-> "none"]
    /\ balance = Zero /\ credited = Zero /\ reset = Zero /\ paid = Zero
    /\ threshold = [a \in Addresses |-> MinimumPayment]
    /\ pc = "idle"
    /\ todo = {} /\ verdict = NoVerdict
    /\ payees = {} /\ owed = Zero
    /\ queue = {} /\ answered = {} /\ delivered = {}
    /\ attempts = 0
    /\ ncredit = [b \in Blocks |-> 0]
    /\ nsent = Zero /\ nrec = Zero
    /\ lost = 0 /\ dup = 0 /\ crashes = 0

\* The task gives up this run; everything it read is gone.
Abort ==
    /\ pc' = "idle"
    /\ todo' = {} /\ verdict' = NoVerdict
    /\ payees' = {} /\ owed' = Zero
    /\ queue' = {} /\ answered' = {} /\ delivered' = {}
    /\ attempts' = 0

-----------------------------------------------------------------------------
(* The world around the payment task *)

\* ShareRecorder inserts the row of a found block.
BlockFound(b) ==
    /\ status[b] = "none"
    /\ status' = [status EXCEPT ![b] = "pending"]
    /\ UNCHANGED <<daemon, balance, credited, reset, paid, threshold, memory, history>>

\* The chain settles a coinbase: it matures, or its block is orphaned.
ChainSettles(b) ==
    /\ chain[b] = "immature"
    /\ \E c \in {"generate", "orphan"} : chain' = [chain EXCEPT ![b] = c]
    /\ UNCHANGED <<wallet, sent, db, memory, history>>

\* A reorganisation brings an orphaned block back, and it matures.
ChainReorganises(b) ==
    /\ chain[b] = "orphan"
    /\ chain' = [chain EXCEPT ![b] = "generate"]
    /\ UNCHANGED <<wallet, sent, db, memory, history>>

\* walletpassphrase expires (it unlocks for five seconds).
WalletRelocks ==
    /\ Encrypted /\ wallet = "open"
    /\ wallet' = "locked"
    /\ UNCHANGED <<chain, sent, db, memory, history>>

\* Mutant of EffectiveThreshold: stores what the miner asked for.
UncheckedThreshold(t) == t

\* Math.Max(mapped.PaymentThreshold, pool.PaymentProcessing.MinimumPayment)
EffectiveThreshold(t) == IF t > MinimumPayment THEN t ELSE MinimumPayment

\* POST .../pools/{poolId}/miners/{address}/settings (by the miner or an admin)
SetMinerSettings(a, t) ==
    /\ threshold[a] # EffectiveThreshold(t)
    /\ threshold' = [threshold EXCEPT ![a] = EffectiveThreshold(t)]
    /\ UNCHANGED <<daemon, status, balance, credited, reset, paid, memory, history>>

\* Transfers that were made and are still only in the task's memory.
InMemory == answered \cup delivered

\* The process dies and comes back.
Crash ==
    /\ pc # "idle" /\ crashes < MaxCrashes
    /\ crashes' = crashes + 1
    /\ InMemory # {} => lost < MaxLost
    /\ lost' = IF InMemory = {} THEN lost ELSE lost + 1
    /\ Abort
    /\ UNCHANGED <<daemon, db, ncredit, nsent, nrec, dup>>

-----------------------------------------------------------------------------
(* PayoutManager.UpdatePoolBalancesAsync *)

\* Mutant of PendingBlocks: reads every block.
AllBlocks == {b \in Blocks : status[b] # "none"}

\* GetPendingBlocksForPoolAsync
PendingBlocks == {b \in Blocks : status[b] = "pending"}

\* The timer ticks: ConfigureAsync, then GetPendingBlocksForPoolAsync.  (When
\* one of them fails the task goes back to its timer and nothing happened.  The
\* pool and its payment processing are enabled in the configuration: a pool an
\* operator switches off is not visited, the next run simply comes later.)
StartRun ==
    /\ pc = "idle"
    /\ todo' = PendingBlocks
    /\ pc' = IF PendingBlocks = {} THEN "update" ELSE "classify"
    /\ UNCHANGED <<daemon, db, verdict, payees, owed, queue, answered, delivered,
                   attempts, history>>

\* What gettransaction may answer for a block; "error" is every error but -5,
\* the -500 RpcClient makes of a failed request included.
Replies(b) ==
    {"error"} \cup
    (CASE chain[b] = "immature" -> {"immature"}
       [] chain[b] = "generate" -> {"generate"}
       [] OTHER -> {"error-5", "no details", "orphan"})

\* Mutants of Classify: credits immature blocks; skips orphans.
ClassifyEagerly(reply) ==
    CASE reply = "error" -> "skip"
      [] reply \in {"immature", "generate"} -> "confirmed"
      [] OTHER -> "orphaned"
ClassifyNoOrphans(reply) ==
    CASE reply = "immature" -> "pending"
      [] reply = "generate" -> "confirmed"
      [] OTHER -> "skip"

\* The status ClassifyBlocksAsync gives a block, "skip" when it is left out.
Classify(reply) ==
    CASE reply = "error" -> "skip"
      [] reply = "immature" -> "pending"
      [] reply = "generate" -> "confirmed"
      [] OTHER -> "orphaned"

\* One answer of the gettransaction batch.
ClassifyBlock(b) ==
    /\ pc = "classify" /\ b \in todo
    /\ \E reply \in Replies(b) : verdict' = [verdict EXCEPT ![b] = Classify(reply)]
    /\ todo' = todo \ {b}
    /\ pc' = IF todo' = {} THEN "update" ELSE "classify"
    /\ UNCHANGED <<daemon, db, payees, owed, queue, answered, delivered, attempts, history>>

Classified == {b \in Blocks : verdict[b] # "skip"}

\* updatedBlocks.OrderBy(x => x.Created)
IsNextBlock(b) == b \in Classified /\ \A c \in Classified : b <= c

\* Mutant of MustCredit: credits on every update but an orphan's.
CreditUnlessOrphaned(b) == verdict[b] # "orphaned"

\* The reward of the block is distributed in this transaction.
MustCredit(b) == verdict[b] = "confirmed"

\* The effect of the block's database transaction.
SettleBlock(b) ==
    /\ status' = [status EXCEPT ![b] = verdict[b]]
    /\ IF MustCredit(b)
         THEN \E d \in SchemeCredits(b) :
                /\ balance' = [a \in Addresses |-> balance[a] + Credit(b, d, a)]
                /\ credited' = [a \in Addresses |-> credited[a] + Credit(b, d, a)]
                /\ ncredit' = [ncredit EXCEPT ![b] = @ + 1]
         ELSE UNCHANGED <<balance, credited, ncredit>>
    /\ UNCHANGED <<reset, paid, threshold>>

\* RunTx commits and the loop goes on with the next block; or the commit
\* applies but its acknowledgement does not arrive and the run ends.
UpdateBlock(b) ==
    /\ pc = "update" /\ IsNextBlock(b)
    /\ SettleBlock(b)
    /\ \/ /\ verdict' = [verdict EXCEPT ![b] = "skip"]
          /\ UNCHANGED <<pc, todo, payees, owed, queue, answered, delivered, attempts>>
       \/ Abort
    /\ UNCHANGED <<daemon, nsent, nrec, lost, dup, crashes>>

\* A transaction or a read throws; ProcessPoolsAsync logs it and the run ends.
RunFails ==
    /\ pc = "update"
    /\ Abort
    /\ UNCHANGED <<daemon, db, history>>

-----------------------------------------------------------------------------
(* PayoutManager.PayoutPoolBalancesAsync and BitcoinPayoutHandler.PayoutAsync *)

\* Mutant of OverThreshold: strictly over.
StrictlyOverThreshold == {a \in Addresses : balance[a] > threshold[a]}

OverThreshold == {a \in Addresses : balance[a] >= threshold[a]}

\* GetPoolBalancesOverThresholdAsync; thresholds are positive, so the filter
\* Amount > 0 keeps every balance.
ReadBalances ==
    /\ pc = "update" /\ Classified = {}
    /\ IF OverThreshold = {}
         THEN Abort
         ELSE /\ payees' = OverThreshold
              /\ owed' = [a \in Addresses |-> IF a \in OverThreshold THEN balance[a] ELSE 0]
              /\ pc' = IF BrokenSendMany THEN "sendEach" ELSE "send"
              /\ queue' = IF BrokenSendMany THEN OverThreshold ELSE {}
              /\ UNCHANGED <<todo, verdict, answered, delivered, attempts>>
    /\ UNCHANGED <<daemon, db, history>>

\* The wallet executes a transfer of the rounded amounts to the addresses S; it
\* refuses an amount of zero.  The amounts are the ones the handler asks for:
\* where MinersPayTxFees is set the wallet takes its fee off them, which the
\* pool neither learns nor books.
Transfer(S) ==
    /\ \A a \in S : Round(owed[a]) > 0
    /\ sent' = [a \in Addresses |-> IF a \in S THEN sent[a] + Round(owed[a]) ELSE sent[a]]
    /\ nsent' = [a \in Addresses |-> IF a \in S THEN nsent[a] + 1 ELSE nsent[a]]

\* sendmany returns a txid; a wallet the handler unlocked is locked again (that
\* call's own failure is ignored).
SendManyOk ==
    /\ pc \in {"send", "resend"} /\ wallet = "open"
    /\ Transfer(payees)
    /\ delivered' = payees
    /\ pc' = "persist"
    /\ wallet' \in IF pc = "resend" THEN {"locked", "open"} ELSE {"open"}
    /\ UNCHANGED <<chain, db, todo, verdict, payees, owed, queue, answered, attempts, ncredit, nrec, lost, dup, crashes>>

\* Mutant of SendManyLost: tries again after an error of the transport.
SendManyAgain ==
    /\ pc \in {"send", "resend"} /\ wallet = "open" /\ lost < MaxLost
    /\ Transfer(payees)
    /\ pc' = "resend"
    /\ UNCHANGED <<chain, wallet, db, todo, verdict, payees, owed, queue, answered,
                   delivered, attempts, ncredit, nrec, lost, dup, crashes>>

\* The wallet executes the transfer but the handler gets an error (-500 from
\* RpcClient) or an empty txid, which PersistPaymentsAsync refuses.
SendManyLost ==
    /\ pc \in {"send", "resend"} /\ wallet = "open" /\ lost < MaxLost
    /\ Transfer(payees)
    /\ lost' = lost + 1
    /\ Abort
    /\ UNCHANGED <<chain, wallet, db, ncredit, nrec, dup, crashes>>

\* sendmany is refused or never reaches the daemon.
SendManyError ==
    /\ pc \in {"send", "resend"}
    /\ Abort
    /\ UNCHANGED <<daemon, db, history>>

\* RPC_WALLET_UNLOCK_NEEDED, the first time and with a password configured.
SendManyLocked ==
    /\ pc = "send" /\ wallet = "locked" /\ WalletPassword
    /\ pc' = "unlock"
    /\ UNCHANGED <<daemon, db, todo, verdict, payees, owed, queue, answered, delivered,
                   attempts, history>>

\* walletpassphrase: on success didUnlockWallet is set, goto tryTransfer.
UnlockWallet ==
    /\ pc = "unlock"
    /\ wallet' = "open"
    /\ pc' = "resend"
    /\ UNCHANGED <<chain, sent, db, todo, verdict, payees, owed, queue, answered,
                   delivered, attempts, history>>

\* ... on an error the run ends (the wallet may have been unlocked all the same).
UnlockFails ==
    /\ pc = "unlock"
    /\ wallet' \in {wallet, "open"}
    /\ Abort
    /\ UNCHANGED <<chain, sent, db, history>>

-----------------------------------------------------------------------------
(* BitcoinPayoutHandler.PayoutAsync for wallets with a broken sendmany: up to *)
(* eight concurrent sendtoaddress calls that share successBalances and        *)
(* txFailures.                                                                *)

\* sendtoaddress to one address: a txid, a lost answer, or an error.
SendToAddress(a) ==
    /\ pc = "sendEach" /\ a \in queue
    /\ queue' = queue \ {a}
    /\ \/ /\ wallet = "open"
          /\ Transfer({a})
          /\ \/ answered' = answered \cup {a} /\ lost' = lost
             \/ lost < MaxLost /\ lost' = lost + 1 /\ answered' = answered
       \/ UNCHANGED <<sent, nsent, answered, lost>>
    /\ UNCHANGED <<chain, wallet, db, pc, todo, verdict, payees, owed, delivered,
                   attempts, ncredit, nrec, dup, crashes>>

\* successBalances.Add: not synchronised, so an insertion that races with
\* another one may be lost, or throw and be counted as a failed transfer.
AddSuccess(a) ==
    /\ pc = "sendEach" /\ a \in answered
    /\ answered' = answered \ {a}
    /\ \/ delivered' = delivered \cup {a} /\ lost' = lost
       \/ /\ answered # {a} /\ lost < MaxLost
          /\ lost' = lost + 1 /\ delivered' = delivered
    /\ UNCHANGED <<daemon, db, pc, todo, verdict, payees, owed, queue, attempts, ncredit, nsent, nrec, dup, crashes>>

\* Mutant of SendEachDone: books failed transfers as well.
SendEachDoneAll ==
    /\ pc = "sendEach" /\ queue = {} /\ answered = {}
    /\ pc' = "persist"
    /\ delivered' = payees
    /\ UNCHANGED <<daemon, db, todo, verdict, payees, owed, queue, answered, attempts,
                   history>>

\* Parallel.ForEachAsync is done; the successes are booked, if there are any.
SendEachDone ==
    /\ pc = "sendEach" /\ queue = {} /\ answered = {}
    /\ IF delivered = {}
         THEN Abort
         ELSE pc' = "persist" /\ UNCHANGED <<todo, verdict, payees, owed, queue, answered,
                                             delivered, attempts>>
    /\ UNCHANGED <<daemon, db, history>>

-----------------------------------------------------------------------------
(* PayoutHandlerBase.PersistPaymentsAsync *)

\* Mutant of HasPaymentRow: recipients get payments rows too.
AlwaysPaymentRow(a) == TRUE

\* A payments row is written for everyone who is not a reward recipient.
HasPaymentRow(a) == a \notin Recipients

\* The effect of its transaction: the payments rows, and the amounts taken off
\* the balances.
BookPayments ==
    LET amt(a) == IF a \in delivered THEN Booked(a) ELSE 0
    IN  /\ paid' = [a \in Addresses |-> IF HasPaymentRow(a) THEN paid[a] + amt(a) ELSE paid[a]]
        /\ balance' = [a \in Addresses |-> balance[a] - amt(a)]
        /\ reset' = [a \in Addresses |-> reset[a] + amt(a)]
        /\ nrec' = [a \in Addresses |-> IF a \in delivered THEN nrec[a] + 1 ELSE nrec[a]]
        /\ UNCHANGED <<status, credited, threshold>>

\* Mutant of PersistOk: the run goes on with the payments in memory.
PersistOkKeeps ==
    /\ pc = "persist"
    /\ BookPayments
    /\ nrec[CHOOSE a \in delivered : TRUE] < 3
    /\ UNCHANGED <<daemon, memory, ncredit, nsent, lost, dup, crashes>>

\* The transaction commits.  Whether the caller learns it or gets an exception
\* that is not retried, the run ends.
PersistOk ==
    /\ pc = "persist"
    /\ BookPayments
    /\ Abort
    /\ UNCHANGED <<daemon, ncredit, nsent, lost, dup, crashes>>

\* WaitAndRetryAsync(RetryCount, ...)
CanRetry == attempts < RetryCount

\* DbException or TimeoutException: the policy retries.
PersistRetry ==
    /\ pc = "persist" /\ CanRetry
    /\ attempts' = attempts + 1
    /\ \/ UNCHANGED <<db, nrec, dup>>                    \* rolled back
       \/ dup < MaxDup /\ dup' = dup + 1 /\ BookPayments \* it had committed
    /\ UNCHANGED <<daemon, pc, todo, verdict, payees, owed, queue, answered, delivered, ncredit, nsent, lost, crashes>>

\* The last retry fails, or an exception the policy does not handle.
PersistFails ==
    /\ pc = "persist" /\ lost < MaxLost
    /\ lost' = lost + 1
    /\ Abort
    /\ UNCHANGED <<daemon, db, ncredit, nsent, nrec, dup, crashes>>

-----------------------------------------------------------------------------
Environment ==
    \/ \E b \in Blocks : BlockFound(b) \/ ChainSettles(b) \/ ChainReorganises(b)
    \/ WalletRelocks
    \/ \E a \in Addresses, t \in Thresholds : SetMinerSettings(a, t)
    \/ Crash

PaymentTask ==
    \/ StartRun
    \/ \E b \in Blocks : ClassifyBlock(b) \/ UpdateBlock(b)
    \/ RunFails
    \/ ReadBalances
    \/ SendManyOk \/ SendManyLost \/ SendManyError \/ SendManyLocked
    \/ UnlockWallet \/ UnlockFails
    \/ \E a \in Addresses : SendToAddress(a) \/ AddSuccess(a)
    \/ SendEachDone
    \/ PersistOk \/ PersistRetry \/ PersistFails

Next == Environment \/ PaymentTask

Spec == Init /\ [][Next]_vars

-----------------------------------------------------------------------------
(* Properties *)

TypeOK ==
    /\ chain \in [Blocks -> {"immature", "generate", "orphan"}]
    /\ wallet \in {"open", "locked"}
    /\ sent \in [Addresses -> Nat]
    /\ status \in [Blocks -> {"none", "pending", "confirmed", "orphaned"}]
    /\ balance \in [Addresses -> Int]
    /\ credited \in [Addresses -> Nat]
    /\ reset \in [Addresses -> Nat]
    /\ paid \in [Addresses -> Nat]
    /\ threshold \in [Addresses -> Nat]
    /\ pc \in PCs
    /\ todo \subseteq Blocks
    /\ verdict \in [Blocks -> Verdicts]
    /\ payees \subseteq Addresses
    /\ owed \in [Addresses -> Nat]
    /\ queue \subseteq Addresses
    /\ answered \subseteq Addresses
    /\ delivered \subseteq Addresses
    /\ attempts \in 0..RetryCount
    /\ ncredit \in [Blocks -> Nat]
    /\ nsent \in [Addresses -> Nat]
    /\ nrec \in [Addresses -> Nat]
    /\ lost \in 0..MaxLost
    /\ dup \in 0..MaxDup
    /\ crashes \in 0..MaxCrashes

\* A block's reward is credited exactly once: never for a block that is not
\* confirmed, and not again after a crash, a failed run or a commit whose
\* acknowledgement was lost.  (UpdatePoolBalancesAsync classifies from memory
\* and updates blocks by id without looking at their status again; what
\* protects it is that credit and status change in one transaction.)
CreditedOnce ==
    \A b \in Blocks : ncredit[b] = IF status[b] = "confirmed" THEN 1 ELSE 0

\* A block is confirmed only when its coinbase has matured, although the answer
\* of the daemon is applied some awaits after it was given.
ConfirmedOnlyIfMature ==
    \A b \in Blocks : status[b] = "confirmed" => chain[b] = "generate"

\* balances, balance_changes and payments tell one story: a balance is the sum
\* of its changes, and the payments of a miner are the resets of its balance.
BooksAgree ==
    \A a \in Addresses :
        /\ balance[a] = credited[a] - reset[a]
        /\ paid[a] = IF a \in Recipients THEN 0 ELSE reset[a]

\* How far a balance may fall below zero: sendtoaddress books the rounded
\* amount, at most half a payout unit more than the balance.
TwiceOverdraft == IF BrokenSendMany THEN Unit ELSE 0

\* Booking a payment never takes more than the balance holds, although the
\* amount was read before the transfer and the transaction may be retried: as
\* long as no retried transaction had already committed.
NeverOverdrawn ==
    dup = 0 => \A a \in Addresses : 2 * balance[a] >= -TwiceOverdraft

\* Transfers to a that are made but not booked yet.
InFlight(a) == IF a \in InMemory THEN 1 ELSE 0

\* Every transfer is booked exactly once, except that each incident (a lost
\* answer, a booking given up, a crash between transfer and booking, a racing
\* Add) forgets at most one transfer per address and each retry of a committed
\* transaction books at most one transfer per address again.
BookedOnce ==
    \A a \in Addresses :
        /\ nsent[a] - nrec[a] - InFlight(a) <= lost
        /\ nsent[a] - nrec[a] - InFlight(a) >= -dup

\* Without such an incident no address receives more than it was credited with,
\* beyond half a payout unit for every transfer.
NoOverpayment ==
    (lost = 0 /\ dup = 0) =>
        \A a \in Addresses : 2 * sent[a] <= 2 * credited[a] + Unit * nsent[a]

\* Confirmed and orphaned are final, and no row disappears: a classification
\* from memory never overwrites a later one.
Settled ==
    \A b \in Blocks :
        /\ status[b] \in {"confirmed", "orphaned"} => status'[b] = status[b]
        /\ status[b] = "pending" => status'[b] # "none"
SettledForever == [][Settled]_vars

\* No transfer is smaller than the pool's minimum payment (rounding aside),
\* whatever threshold a miner asked for through the API.
NotDust ==
    \A a \in Addresses :
        nsent'[a] # nsent[a] => 2 * (sent'[a] - sent[a]) >= 2 * MinimumPayment - Unit
NoDustTransfer == [][NotDust]_vars

-----------------------------------------------------------------------------
(* The inductive invariant: what the memory of the task says of the database. *)

\* What was classified is still pending, and was classified by the chain's word.
VerdictsAreFresh ==
    /\ todo # {} => pc = "classify"
    /\ Classified # {} => pc \in {"classify", "update"}
    /\ \A b \in Blocks :
        /\ b \in todo => status[b] = "pending"
        /\ verdict[b] # "skip" => status[b] = "pending"
        /\ verdict[b] = "confirmed" => chain[b] = "generate"

\* Which part of the payout state is in use at which point of PayoutAsync.
PayoutShape ==
    /\ pc \in {"idle", "classify", "update"} => payees = {}
    /\ pc = "sendEach" => BrokenSendMany
    /\ pc \in {"send", "unlock", "resend"} => ~BrokenSendMany
    /\ queue # {} \/ answered # {} => pc = "sendEach"
    /\ delivered # {} => pc \in {"sendEach", "persist"}
    /\ queue \cup answered \cup delivered \subseteq payees
    /\ queue \cap answered = {}
    /\ (queue \cup answered) \cap delivered = {}

\* Amounts in memory are payable, and as long as nothing was booked twice they
\* are covered by the balances.
AmountsAreCovered ==
    /\ \A a \in Addresses : threshold[a] >= MinimumPayment
    /\ \A a \in payees : owed[a] >= MinimumPayment
    /\ dup = 0 => \A a \in payees : owed[a] <= balance[a]

\* The amount of the transfer to a that is made but not booked.
InFlightAmount(a) == IF a \in InMemory THEN Booked(a) ELSE 0

\* Without incidents, what was sent is what was or will be booked: exactly for
\* sendtoaddress, up to rounding for sendmany.
SentIsBooked ==
    (lost = 0 /\ dup = 0) =>
        \A a \in Addresses :
            /\ nsent[a] = 0 => sent[a] = 0
            /\ BrokenSendMany => sent[a] = reset[a] + InFlightAmount(a)
            /\ 2 * sent[a] <= 2 * (reset[a] + InFlightAmount(a)) + Unit * nsent[a]

BlocksInv == CreditedOnce /\ ConfirmedOnlyIfMature /\ VerdictsAreFresh
BalancesInv == AmountsAreCovered /\ NeverOverdrawn

IInv ==
    /\ TypeOK
    /\ BlocksInv
    /\ BooksAgree
    /\ PayoutShape
    /\ BalancesInv
    /\ BookedOnce
    /\ SentIsBooked

-----------------------------------------------------------------------------
(* Refinement *)

Ledger == INSTANCE PoolLedger
    WITH Blocks <- Blocks, Addresses <- Addresses, TwiceOverdraft <- TwiceOverdraft,
         status <- status, balance <- balance, credited <- credited, reset <- reset

\* The payment task, with all its failures and retries, implements the ledger
\* (as long as no transaction is retried that had committed: MaxDup = 0).
ImplementsLedger == Ledger!Spec

-----------------------------------------------------------------------------
(* Liveness.  The task never stops by itself: the timer ticks and every await *)
(* ends, in success or failure (WF).  A call that is tried again and again    *)
(* succeeds some time (SF on the success of every call the loop repeats), and *)
(* the chain settles every coinbase.  One call of the loop need not succeed   *)
(* however often it is repeated: UpdateBalancesAsync of a block in Stuck,     *)
(* whose exception depends on the block and its shares only.                  *)

ClassifyAnswered(b) == ClassifyBlock(b) /\ (verdict'[b] # "skip")

\* The transaction of a block commits; it distributes no reward of a block whose
\* payout scheme throws.
BlockCommitted(b) ==
    /\ b \in Stuck => ~MustCredit(b)
    /\ UpdateBlock(b) /\ pc' = "update"

Fairness ==
    /\ WF_vars(PaymentTask)
    /\ \A b \in Blocks :
        /\ WF_vars(ChainSettles(b))
        /\ SF_vars(ClassifyAnswered(b))
        /\ SF_vars(BlockCommitted(b))
    /\ SF_vars(ReadBalances)
    /\ SF_vars(SendManyLocked)
    /\ SF_vars(UnlockWallet)
    /\ SF_vars(SendManyOk)
    /\ \A a \in Addresses : SF_vars(SendToAddress(a) /\ a \in answered')
    /\ SF_vars(PersistOk)

FairSpec == Spec /\ Fairness

\* The block is matured, its reward is not distributed, and the attempt may throw
\* in every run.
Failing(b) == b \in Stuck /\ status[b] = "pending" /\ chain[b] = "generate"

\* Every recorded block is settled in the end, whatever calls fail and whenever
\* the process dies, with one exception: the loop over the updated blocks has no
\* catch of its own (PayoutManager.UpdatePoolBalancesAsync), so a block whose
\* payout scheme throws in every run may hold back itself and the younger ones.
\* It never holds back an older one, and a failure that passes holds back none.
EveryBlockSettles ==
    \A b \in Blocks :
        \/ <>[](\E c \in Blocks : c <= b /\ Failing(c))
        \/ status[b] = "pending" ~> status[b] \in {"confirmed", "orphaned"}

\* Every balance that reaches the payment threshold is paid out in the end, with
\* the same exception: while a matured block fails in every run, ProcessPoolsAsync
\* need not get to PayoutPoolBalancesAsync, and no miner of the pool is paid.
EveryBalanceIsPaid ==
    \/ <>[](\E c \in Blocks : Failing(c))
    \/ \A a \in Addresses :
        balance[a] >= threshold[a] ~> balance[a] < threshold[a]
=============================================================================
