----------------------- MODULE ShareAccountingProofs -----------------------
(***************************************************************************)
(* Theorems about the payout schemes, for every set of miners and scores,  *)
(* every window, page size and reward, and any number of shares and blocks.*)
(***************************************************************************)
EXTENDS ShareAccounting, SumLemmas, TLAPS

ShareRow == [miner : Miners, created : Nat, score : Scores]
BlockRow == [miner : Miners, created : Nat, status : {"pending", "confirmed", "orphaned"}]
OutcomeRow == [rewards : [Miners -> 0..BlockReward], counted : SUBSET Nat]

\* A step that ends the task of confirming a block without a commit.
Aborts ==
    /\ EndTask /\ run' = {}
    /\ failure' \in {failure, "overflow", "missing key", "cancelled", "database"}
    /\ stopping' \in {stopping, "no"}
    /\ UNCHANGED tables

-----------------------------------------------------------------------------
(* The shapes of the tables and of the locals. *)

Tables ==
    /\ scheme \in Schemes
    /\ now \in Nat /\ 1 <= now /\ now <= Len(archive) + 1 /\ Len(archive) <= MaxShares
    /\ archive \in Seq(ShareRow)
    /\ shares \subseteq DOMAIN archive
    /\ blocks \in Seq(BlockRow)
    /\ outcome \in Seq(OutcomeRow)
    /\ Len(outcome) = Len(blocks)

Control ==
    /\ run \subseteq Pending
    /\ stopping \in {"no", "yes"}
    /\ failure \in {"none", "overflow", "missing key", "cancelled", "database"}
    /\ task \in {"idle", "loop", "rows", "write"}
    /\ (task = "idle") = (block = 0)
    /\ block # 0 => IsNextBlock(block)
    /\ stopping = "yes" => MayStop

Locals ==
    /\ before \in Nat /\ inclusive \in BOOLEAN
    /\ page \in Seq(DOMAIN archive) /\ row \in Nat /\ 1 <= row
    /\ done \in BOOLEAN /\ acc \in Nat /\ remaining \in Nat
    /\ scores \in [Miners -> Nat] /\ rewards \in [Miners -> Nat]
    /\ cutoff \in Nat /\ counted \subseteq DOMAIN archive
    /\ scheme = "SOLO" => task \in {"idle", "write"} /\ counted = {}

\* No miner's reward exceeds what is no longer remaining; the remaining part covers
\* what is left of the window.
Sums ==
    /\ task # "idle" /\ PPLNS =>
         /\ acc <= Window /\ (~done => acc < Window)
         /\ remaining * Window >= Distributed * (Window - acc)
         /\ \A m \in Miners : rewards[m] + remaining <= BlockReward
    /\ \A m \in Miners : rewards[m] <= BlockReward /\ scores[m] <= acc
    /\ remaining <= BlockReward

\* No local survives the task.
Idle ==
    task = "idle" => /\ done = FALSE /\ acc = 0 /\ scores = Nobody /\ rewards = Nobody
                     /\ cutoff = 0 /\ counted = {}

ShapeInv == Tables /\ Control /\ Locals /\ Sums /\ Idle

-----------------------------------------------------------------------------
(* Facts about the constants and the operators. *)

\* Quotients: the floor of a fraction is a natural number and does not exceed it.
LEMMA DivFacts ==
    ASSUME NEW x \in Nat, NEW d \in Nat, d > 0
    PROVE  /\ x \div d \in Nat
           /\ (x \div d) * d <= x
           /\ x < (x \div d) * d + d
  OBVIOUS

\* A product of natural numbers is one.
LEMMA ProductNat == ASSUME NEW x \in Nat, NEW y \in Nat PROVE x * y \in Nat
  OBVIOUS

\* Products keep the order.
LEMMA ProductMonotone ==
    ASSUME NEW x \in Int, NEW y \in Int, NEW z \in Nat, x <= y
    PROVE  x * z <= y * z /\ z * x <= z * y
  OBVIOUS

\* A positive factor can be cancelled.
LEMMA CancelFactor ==
    ASSUME NEW x \in Int, NEW y \in Int, NEW z \in Nat, z > 0, x * z <= y * z
    PROVE  x <= y
<1>1. SUFFICES ASSUME y + 1 <= x PROVE FALSE
  OBVIOUS
<1>2. (y + 1) * z <= x * z
  BY <1>1, ProductMonotone
<1>3. (y + 1) * z = y * z + z /\ y * z \in Int /\ x * z \in Int
  OBVIOUS
<1> QED
  BY <1>2, <1>3

\* A part of a number in the ratio of x to d, x at most d, is at most the number.
LEMMA PartOf ==
    ASSUME NEW x \in Nat, NEW d \in Nat, d > 0, x <= d, NEW n \in Nat
    PROVE  (x * n) \div d \in Nat /\ (x * n) \div d <= n
<1> DEFINE q == (x * n) \div d
<1>1. x * n \in Nat
  BY ProductNat
<1>2. q \in Nat /\ q * d <= x * n
  BY <1>1, DivFacts
<1>3. x * n <= d * n
  BY ProductMonotone
<1>4. q * d <= n * d
  BY <1>1, <1>2, <1>3, ProductNat
<1> HIDE DEF q
<1> QED
  BY <1>2, <1>4, CancelFactor DEF q

\* The finder's part of PPLNSBF and the rest make up the reward.
LEMMA FinderFacts ==
    /\ FinderReward \in Nat /\ FinderReward <= BlockReward
    /\ Distributed \in Nat /\ Distributed + FinderReward = BlockReward
<1>1. BlockReward \in Nat /\ FinderPercent \in Nat /\ FinderPercent <= 100
  BY NumbersAssumption
<1>2. (FinderPercent * BlockReward) \div 100 \in Nat /\ (FinderPercent * BlockReward) \div 100 <= BlockReward
  BY <1>1, PartOf
<1>3. FinderPercent * BlockReward = BlockReward * FinderPercent
  BY <1>1
<1>4. FinderReward \in Nat /\ FinderReward <= BlockReward
  BY <1>1, <1>2, <1>3 DEF FinderReward
<1> QED
  BY <1>1, <1>4 DEF Distributed

-----------------------------------------------------------------------------
(* The kinds of steps. *)

\* Every step is one of these; the steps that throw, and a restart, abort the task.
LEMMA Cases ==
    ASSUME [Next]_vars
    PROVE  \/ \E m \in Miners, score \in Scores, isBlock \in BOOLEAN : StoreShare(m, score, isBlock)
           \/ \E S \in SUBSET Pending : StartRun(S)
           \/ \E b \in DOMAIN blocks : OrphanBlock(b)
           \/ \E b \in DOMAIN blocks : BeginBlock(b)
           \/ \E b \in DOMAIN blocks : BeginSolo(b)
           \/ ReadPage \/ LeaveLoop \/ CountPPLNS \/ CountPROP \/ NextPage \/ LastPage
           \/ Write \/ Stop \/ Aborts
           \/ UNCHANGED vars
<1>1. ASSUME NEW reason \in {"overflow", "missing key", "cancelled", "database"}, Throw(reason)
      PROVE  Aborts
  BY <1>1 DEF Throw, Aborts
<1>2. Restart => Aborts
  BY DEF Restart, Aborts, tables
<1>3. ReadCancelled \/ ThrowOverflow \/ ThrowMissingKey \/ ThrowCancelled \/ DatabaseFails => Aborts
  BY <1>1 DEF ReadCancelled, ThrowOverflow, ThrowMissingKey, ThrowCancelled, DatabaseFails
<1> QED
  BY <1>2, <1>3 DEF Next, Step

\* One field of one block changes.
LEMMA StatusUpdate ==
    ASSUME blocks \in Seq(BlockRow), NEW b \in DOMAIN blocks,
           NEW st \in {"pending", "confirmed", "orphaned"},
           blocks' = [blocks EXCEPT ![b].status = st]
    PROVE  /\ blocks' \in Seq(BlockRow) /\ Len(blocks') = Len(blocks)
           /\ DOMAIN blocks' = DOMAIN blocks
           /\ \A c \in DOMAIN blocks : /\ blocks'[c].created = blocks[c].created
                                       /\ blocks'[c].miner = blocks[c].miner
           /\ \A c \in DOMAIN blocks : c # b => blocks'[c].status = blocks[c].status
           /\ blocks'[b].status = st
<1> DEFINE new == [blocks[b] EXCEPT !.status = st]
<1>1. blocks[b] \in BlockRow
  OBVIOUS
<1>2. new \in BlockRow /\ new.created = blocks[b].created /\ new.miner = blocks[b].miner /\ new.status = st
  BY <1>1 DEF BlockRow
<1>3. blocks' = [blocks EXCEPT ![b] = new]
  OBVIOUS
<1> HIDE DEF new
<1> QED
  BY <1>2, <1>3

\* The outcome of one block changes.
LEMMA OutcomeUpdate ==
    ASSUME outcome \in Seq(OutcomeRow), NEW b \in DOMAIN outcome, NEW o \in OutcomeRow,
           outcome' = [outcome EXCEPT ![b] = o]
    PROVE  /\ outcome' \in Seq(OutcomeRow) /\ Len(outcome') = Len(outcome)
           /\ DOMAIN outcome' = DOMAIN outcome
           /\ \A c \in DOMAIN outcome : c # b => outcome'[c] = outcome[c]
           /\ outcome'[b] = o
  OBVIOUS

\* One row is added to the archive.
LEMMA ArchiveAppend ==
    ASSUME archive \in Seq(ShareRow), NEW r \in ShareRow, archive' = Append(archive, r)
    PROVE  /\ archive' \in Seq(ShareRow) /\ Len(archive') = Len(archive) + 1
           /\ DOMAIN archive = 1..Len(archive)
           /\ DOMAIN archive' = DOMAIN archive \cup {Len(archive) + 1}
           /\ Len(archive) + 1 \notin DOMAIN archive
           /\ \A s \in DOMAIN archive : archive'[s] = archive[s]
           /\ archive'[Len(archive) + 1] = r
  OBVIOUS

\* One block is added.
LEMMA BlocksAppend ==
    ASSUME blocks \in Seq(BlockRow), NEW r \in BlockRow, blocks' = Append(blocks, r)
    PROVE  /\ blocks' \in Seq(BlockRow) /\ Len(blocks') = Len(blocks) + 1
           /\ DOMAIN blocks = 1..Len(blocks)
           /\ DOMAIN blocks' = DOMAIN blocks \cup {Len(blocks) + 1}
           /\ Len(blocks) + 1 \notin DOMAIN blocks
           /\ \A b \in DOMAIN blocks : blocks'[b] = blocks[b]
           /\ blocks'[Len(blocks) + 1] = r
  OBVIOUS

\* What a stored share changes.
LEMMA StoreFacts ==
    ASSUME Tables, NEW m \in Miners, NEW score \in Scores, NEW isBlock \in BOOLEAN,
           StoreShare(m, score, isBlock)
    PROVE  /\ Tables'
           /\ DOMAIN archive' = DOMAIN archive \cup {Len(archive) + 1}
           /\ Len(archive) + 1 \notin DOMAIN archive
           /\ \A s \in DOMAIN archive : archive'[s] = archive[s]
           /\ archive'[Len(archive) + 1] = [miner |-> m, created |-> now, score |-> score]
           /\ shares' = shares \cup {Len(archive) + 1}
           /\ now' \in {now, now + 1} /\ (DistinctTimes => now' = now + 1)
           /\ DOMAIN blocks \subseteq DOMAIN blocks'
           /\ \A b \in DOMAIN blocks : blocks'[b] = blocks[b] /\ outcome'[b] = outcome[b]
           /\ \A b \in DOMAIN blocks' : b \notin DOMAIN blocks =>
                /\ blocks'[b] = [miner |-> m, created |-> now, status |-> "pending"]
                /\ \A c \in DOMAIN blocks : c < b
                /\ outcome'[b] = [rewards |-> Nobody, counted |-> {}]
<1> DEFINE r == [miner |-> m, created |-> now, score |-> score]
           d == [miner |-> m, created |-> now, status |-> "pending"]
           o == [rewards |-> Nobody, counted |-> {}]
<1>1. r \in ShareRow /\ d \in BlockRow
  BY DEF Tables, ShareRow, BlockRow
<1>2. o \in OutcomeRow
  BY NumbersAssumption DEF OutcomeRow, Nobody
<1>3. archive' = Append(archive, r) /\ shares' = shares \cup {Len(archive) + 1}
      /\ scheme' = scheme /\ Len(archive) < MaxShares
  BY DEF StoreShare
<1>4. now' \in {now, now + 1} /\ (DistinctTimes => now' = now + 1)
  BY DEF StoreShare
<1>5. archive \in Seq(ShareRow) /\ blocks \in Seq(BlockRow) /\ outcome \in Seq(OutcomeRow)
      /\ Len(outcome) = Len(blocks)
  BY DEF Tables
<1>6. /\ archive' \in Seq(ShareRow) /\ Len(archive') = Len(archive) + 1
      /\ DOMAIN archive' = DOMAIN archive \cup {Len(archive) + 1}
      /\ Len(archive) + 1 \notin DOMAIN archive
      /\ \A s \in DOMAIN archive : archive'[s] = archive[s]
      /\ archive'[Len(archive) + 1] = r
  BY <1>1, <1>3, <1>5, ArchiveAppend
<1>7. /\ blocks' \in Seq(BlockRow) /\ outcome' \in Seq(OutcomeRow) /\ Len(outcome') = Len(blocks')
      /\ DOMAIN blocks \subseteq DOMAIN blocks'
      /\ \A b \in DOMAIN blocks : blocks'[b] = blocks[b] /\ outcome'[b] = outcome[b]
      /\ \A b \in DOMAIN blocks' : b \notin DOMAIN blocks =>
           blocks'[b] = d /\ (\A c \in DOMAIN blocks : c < b) /\ outcome'[b] = o
  <2>1. CASE isBlock
    <3>1. blocks' = Append(blocks, d) /\ outcome' = Append(outcome, o)
      BY <2>1 DEF StoreShare
    <3>2. outcome' \in Seq(OutcomeRow) /\ Len(outcome') = Len(outcome) + 1
          /\ (\A b \in 1..Len(outcome) : outcome'[b] = outcome[b]) /\ outcome'[Len(outcome) + 1] = o
      BY <1>2, <1>5, <3>1
    <3> HIDE DEF o, d
    <3>3. /\ blocks' \in Seq(BlockRow) /\ Len(blocks') = Len(blocks) + 1
          /\ DOMAIN blocks = 1..Len(blocks)
          /\ DOMAIN blocks' = DOMAIN blocks \cup {Len(blocks) + 1}
          /\ \A b \in DOMAIN blocks : blocks'[b] = blocks[b]
          /\ blocks'[Len(blocks) + 1] = d
      BY <1>1, <1>5, <3>1, BlocksAppend
    <3> QED
      BY <1>5, <3>2, <3>3
  <2>2. CASE ~isBlock
    BY <1>5, <2>2 DEF StoreShare
  <2> QED
    BY <2>1, <2>2
<1> HIDE DEF r, d, o
<1>8. Tables'
  <2>1. now \in Nat /\ 1 <= now /\ now <= Len(archive) + 1 /\ Len(archive) \in Nat /\ MaxShares \in Nat
    BY NumbersAssumption DEF Tables
  <2>2. now' \in Nat /\ 1 <= now' /\ now' <= Len(archive') + 1 /\ Len(archive') <= MaxShares
    BY <1>3, <1>4, <1>6, <2>1
  <2>3. shares' \subseteq DOMAIN archive'
    BY <1>3, <1>6 DEF Tables
  <2> QED
    BY <1>3, <1>6, <1>7, <2>2, <2>3 DEF Tables
<1> QED
  BY <1>3, <1>4, <1>6, <1>7, <1>8 DEF r, d, o

\* The columns of a block.
LEMMA BlockFacts ==
    ASSUME Tables, NEW b \in DOMAIN blocks
    PROVE  blocks[b].miner \in Miners /\ blocks[b].created \in Nat /\ b \in Nat /\ b # 0
<1>1. blocks[b] \in BlockRow /\ b \in 1..Len(blocks) /\ Len(blocks) \in Nat
  BY DEF Tables
<1>2. blocks[b].miner \in Miners /\ blocks[b].created \in Nat
  BY <1>1 DEF BlockRow
<1> QED
  BY <1>1, <1>2

\* Scores are positive.
LEMMA ScorePositive ==
    ASSUME Tables, NEW s \in DOMAIN archive
    PROVE  /\ archive[s].score \in Nat /\ archive[s].score > 0
           /\ archive[s].miner \in Miners /\ archive[s].created \in Nat
<1>1. archive[s] \in ShareRow
  BY DEF Tables
<1>2. archive[s].score \in Scores /\ archive[s].miner \in Miners /\ archive[s].created \in Nat
  BY <1>1 DEF ShareRow
<1> DEFINE x == archive[s].score
<1>3. Scores \subseteq Nat \ {0}
  BY NumbersAssumption
<1>4. x \in Nat /\ x # 0
  BY <1>2, <1>3, Zenon
<1> HIDE DEF x
<1>5. x \in Nat /\ x > 0
  BY <1>4
<1> QED
  BY <1>2, <1>5 DEF x

-----------------------------------------------------------------------------
(* Invariance of the shapes. *)

\* Initially the tables are empty and no block is being confirmed.
LEMMA ShapeInit == Init => ShapeInv
<1> SUFFICES ASSUME Init PROVE ShapeInv
  OBVIOUS
<1>1. Tables
  BY NumbersAssumption DEF Init, Tables
<1>2. Control
  BY DEF Init, Control, Pending
<1>3. Nobody \in [Miners -> Nat] /\ \A m \in Miners : Nobody[m] = 0
  BY DEF Nobody
<1>4. Locals
  <2>1. page \in Seq(DOMAIN archive) /\ before \in Nat /\ row \in Nat /\ 1 <= row /\ acc \in Nat
        /\ remaining \in Nat /\ cutoff \in Nat /\ counted = {}
    BY DEF Init
  <2>2. inclusive \in BOOLEAN /\ done \in BOOLEAN /\ task = "idle"
        /\ scores \in [Miners -> Nat] /\ rewards \in [Miners -> Nat]
    BY <1>3, Zenon DEF Init
  <2> QED
    BY <2>1, <2>2, Zenon DEF Locals
<1>5. Sums
  BY <1>3, NumbersAssumption DEF Init, Sums
<1>6. Idle
  BY DEF Init, Idle
<1> QED
  BY <1>1, <1>2, <1>4, <1>5, <1>6 DEF ShapeInv

\* The locals when no block is being confirmed.
LEMMA EndShape ==
    ASSUME EndTask
    PROVE  Locals' /\ Sums' /\ Idle' /\ task' = "idle" /\ block' = 0
<1>1. Nobody \in [Miners -> Nat] /\ \A m \in Miners : Nobody[m] = 0
  BY DEF Nobody
<1>2. Locals'
  <2>1. page' \in Seq(DOMAIN archive') /\ before' \in Nat /\ row' \in Nat /\ 1 <= row' /\ acc' \in Nat
        /\ remaining' \in Nat /\ cutoff' \in Nat /\ counted' = {}
    BY DEF EndTask
  <2>2. inclusive' \in BOOLEAN /\ done' \in BOOLEAN /\ task' = "idle"
        /\ scores' \in [Miners -> Nat] /\ rewards' \in [Miners -> Nat]
    BY <1>1, Zenon DEF EndTask
  <2> QED
    BY <2>1, <2>2, Zenon DEF Locals
<1>3. Sums'
  BY <1>1, NumbersAssumption DEF EndTask, Sums
<1>4. Idle'
  BY DEF EndTask, Idle
<1> QED
  BY <1>2, <1>3, <1>4 DEF EndTask

\* The row the scan of PPLNS is at: its score is positive and fits the window, and its
\* reward fits what is remaining.
LEMMA RowFacts ==
    ASSUME ShapeInv, task = "rows", PPLNS, MoreRows
    PROVE  /\ page[row] \in DOMAIN archive
           /\ archive[page[row]] \in ShareRow
           /\ Score(page[row]) \in Nat /\ Score(page[row]) > 0
           /\ acc + Score(page[row]) <= Window
           /\ (~Crosses(page[row]) => acc + Score(page[row]) < Window)
           /\ (Crosses(page[row]) => acc + Score(page[row]) = Window)
           /\ RewardOf(page[row]) \in Nat
           /\ RewardOf(page[row]) * Window <= Score(page[row]) * Distributed
           /\ RewardOf(page[row]) <= remaining
           /\ (remaining - RewardOf(page[row])) * Window
                >= Distributed * (Window - (acc + Score(page[row])))
<1> DEFINE s == page[row]
<1>1. row \in 1..Len(page) /\ ~done /\ task # "idle" /\ PPLNS /\ page \in Seq(DOMAIN archive)
  BY DEF MoreRows, ShapeInv, Locals
<1>2. s \in DOMAIN archive
  BY <1>1
<1>3. archive[s] \in ShareRow
  BY <1>2 DEF ShapeInv, Tables
<1>4. archive[s].score \in Nat /\ archive[s].score > 0
  BY <1>2, ScorePositive DEF ShapeInv
<1>5. acc \in Nat /\ acc < Window /\ Window \in Nat /\ remaining \in Nat /\ Distributed \in Nat
      /\ remaining * Window >= Distributed * (Window - acc)
  BY <1>1, FinderFacts, NumbersAssumption DEF ShapeInv, Sums, Locals
<1> HIDE DEF s
<1>6. /\ Score(s) \in Nat /\ Score(s) > 0 /\ acc + Score(s) <= Window
      /\ (~Crosses(s) => acc + Score(s) < Window)
      /\ (Crosses(s) => acc + Score(s) = Window)
  BY <1>4, <1>5 DEF Score, Crosses
<1> DEFINE x == Score(s)
           q == RewardOf(s)
           D == Distributed
<1>x. x \in Nat /\ x > 0 /\ acc + x <= Window
  BY <1>6
<1> HIDE DEF x, D
<1>7. x * D \in Nat /\ D \in Nat
  BY <1>5, <1>x, ProductNat DEF D
<1>8. q = (x * D) \div Window
  BY DEF RewardOf, x, D
<1> HIDE DEF q
<1>9. q \in Nat /\ q * Window <= x * D
  BY <1>5, <1>7, <1>8, DivFacts
<1>10. (remaining - q) * Window = remaining * Window - q * Window
       /\ q * Window \in Int /\ remaining * Window \in Int
  BY <1>5, <1>9
<1>11. D * (Window - (acc + x)) = D * (Window - acc) - x * D /\ D * (Window - acc) \in Int
  <2>1. Window - (acc + x) = (Window - acc) - x /\ Window - acc \in Int
    BY <1>5, <1>x
  <2>2. D * ((Window - acc) - x) = D * (Window - acc) - D * x
    BY <1>7, <1>x, <2>1
  <2> QED
    BY <1>7, <1>x, <2>1, <2>2
<1>d. remaining * Window >= D * (Window - acc)
  BY <1>5 DEF D
<1>12. (remaining - q) * Window >= D * (Window - (acc + x))
  BY <1>7, <1>9, <1>10, <1>11, <1>d
<1>13. Window - (acc + x) \in Nat
  BY <1>5, <1>x
<1>14. D * (Window - (acc + x)) >= 0 * Window
  BY <1>7, <1>13, <1>5, ProductNat
<1>15. 0 * Window <= (remaining - q) * Window
  BY <1>5, <1>7, <1>9, <1>10, <1>12, <1>13, <1>14, ProductNat
<1>16. q <= remaining
  BY <1>5, <1>9, <1>15, CancelFactor
<1> QED
  BY <1>2, <1>3, <1>6, <1>9, <1>12, <1>16 DEF x, q, D, s

\* The same of a share that is counted.
LEMMA CountFacts ==
    ASSUME ShapeInv, CountPPLNS
    PROVE  /\ page[row] \in DOMAIN archive
           /\ archive[page[row]] \in ShareRow
           /\ Score(page[row]) \in Nat /\ Score(page[row]) > 0
           /\ acc + Score(page[row]) <= Window
           /\ (~Crosses(page[row]) => acc + Score(page[row]) < Window)
           /\ (Crosses(page[row]) => acc + Score(page[row]) = Window)
           /\ RewardOf(page[row]) \in Nat
           /\ RewardOf(page[row]) * Window <= Score(page[row]) * Distributed
           /\ RewardOf(page[row]) <= remaining
           /\ (remaining - RewardOf(page[row])) * Window
                >= Distributed * (Window - (acc + Score(page[row])))
<1>1. task = "rows" /\ PPLNS /\ MoreRows
  BY DEF CountPPLNS
<1> QED
  BY <1>1, RowFacts

\* The rewards written for a block are at most the block's reward.
LEMMA FinalFacts ==
    ASSUME ShapeInv
    PROVE  FinalRewards \in [Miners -> 0..BlockReward]
<1>1. acc \in Nat /\ BlockReward \in Nat /\ rewards \in [Miners -> Nat] /\ scores \in [Miners -> Nat]
      /\ \A m \in Miners : rewards[m] <= BlockReward /\ scores[m] <= acc
  BY NumbersAssumption DEF ShapeInv, Locals, Sums
<1>2. ASSUME acc > 0, NEW m \in Miners
      PROVE  (scores[m] * BlockReward) \div acc \in 0..BlockReward
  <2>1. scores[m] \in Nat /\ scores[m] <= acc
    BY <1>1
  <2>2. (scores[m] * BlockReward) \div acc \in Nat /\ (scores[m] * BlockReward) \div acc <= BlockReward
    BY <1>1, <1>2, <2>1, PartOf
  <2> QED
    BY <1>1, <2>2
<1>3. rewards \in [Miners -> 0..BlockReward]
  BY <1>1
<1> QED
  BY <1>2, <1>3 DEF FinalRewards

\* Steps of the loop that leave the tables, the run and the sums alone.
LEMMA ShapeStill ==
    ASSUME ShapeInv, UNCHANGED <<tables, run, stopping, failure, block>>,
           UNCHANGED <<acc, remaining, scores, rewards, cutoff, counted>>,
           task # "idle", task' \in {"loop", "rows", "write"}, scheme # "SOLO",
           done' \in BOOLEAN, PPLNS => done' = done,
           before' \in Nat, inclusive' \in BOOLEAN,
           page' \in Seq(DOMAIN archive), row' \in Nat, 1 <= row'
    PROVE  ShapeInv'
<1>1. Tables'
  BY DEF ShapeInv, Tables, tables
<1>2. Control'
  BY DEF ShapeInv, Control, tables, Pending, IsNextBlock
<1>3. Locals'
  <2>1. scores' \in [Miners -> Nat] /\ rewards' \in [Miners -> Nat] /\ cutoff' \in Nat
        /\ acc' \in Nat /\ remaining' \in Nat /\ counted' \subseteq DOMAIN archive'
    BY DEF ShapeInv, Locals, tables
  <2> QED
    BY <2>1, Zenon DEF Locals, tables
<1>4. Sums'
  BY DEF ShapeInv, Sums, PPLNS, Distributed, FinderReward, tables
<1>5. Idle'
  BY DEF Idle
<1> QED
  BY <1>1, <1>2, <1>3, <1>4, <1>5 DEF ShapeInv

\* Every step keeps the shapes.
LEMMA ShapeNext == ShapeInv /\ [Next]_vars => ShapeInv'
<1> SUFFICES ASSUME ShapeInv, [Next]_vars PROVE ShapeInv'
  OBVIOUS
<1>t. Tables /\ Control /\ Locals /\ Sums /\ Idle
  BY DEF ShapeInv
<1>1. ASSUME NEW m \in Miners, NEW score \in Scores, NEW isBlock \in BOOLEAN,
             StoreShare(m, score, isBlock)
      PROVE  ShapeInv'
  <2>1. /\ Tables' /\ DOMAIN archive \subseteq DOMAIN archive'
        /\ DOMAIN blocks \subseteq DOMAIN blocks'
        /\ \A b \in DOMAIN blocks : blocks'[b] = blocks[b]
    BY <1>t, <1>1, StoreFacts, ZenonT(30)
  <2>2. UNCHANGED <<scheme, run, stopping, failure>> /\ UNCHANGED locals
    BY <1>1 DEF StoreShare
  <2>3. UNCHANGED <<task, block, before, inclusive, page, row, done, acc, remaining, scores,
                    rewards, cutoff, counted>>
    BY <2>2 DEF locals, pageVars, sumVars
  <2>4. Pending \subseteq Pending'
    BY <2>1, Zenon DEF Pending
  <2>5. Control'
    BY <1>t, <2>2, <2>3, <2>4 DEF Control, IsNextBlock
  <2>6. Locals'
    <3>1. page' \in Seq(DOMAIN archive')
      BY <1>t, <2>1, <2>3 DEF Locals
    <3> QED
      BY <1>t, <2>1, <2>2, <2>3, <3>1, Zenon DEF Locals
  <2>7. Sums'
    BY <1>t, <2>2, <2>3 DEF Sums, PPLNS, Distributed, FinderReward
  <2>8. Idle'
    BY <1>t, <2>3 DEF Idle
  <2> QED
    BY <2>1, <2>5, <2>6, <2>7, <2>8 DEF ShapeInv
<1>2. ASSUME NEW S \in SUBSET Pending, StartRun(S)
      PROVE  ShapeInv'
  <2>1. UNCHANGED <<tables, stopping, locals>> /\ run = {} /\ run' = S /\ failure' = "none"
    BY <1>2 DEF StartRun
  <2>3. UNCHANGED <<task, block, before, inclusive, page, row, done, acc, remaining, scores,
                    rewards, cutoff, counted>>
        /\ UNCHANGED <<scheme, now, archive, shares, blocks, outcome>>
    BY <2>1 DEF locals, pageVars, sumVars, tables
  <2>4. Tables'
    BY <1>t, <2>3 DEF Tables
  <2>5. Control'
    <3>1. block = 0
      BY <1>t, <2>1 DEF Control, IsNextBlock
    <3> QED
      BY <1>t, <2>1, <2>3, <3>1 DEF Control, Pending
  <2>6. Locals'
    BY <1>t, <2>3, Zenon DEF Locals
  <2>7. Sums'
    BY <1>t, <2>3 DEF Sums, PPLNS, Distributed, FinderReward
  <2>8. Idle'
    BY <1>t, <2>3 DEF Idle
  <2> QED
    BY <2>4, <2>5, <2>6, <2>7, <2>8 DEF ShapeInv
<1>3. ASSUME NEW b \in DOMAIN blocks, OrphanBlock(b)
      PROVE  ShapeInv'
  <2>1. run = {} /\ blocks' = [blocks EXCEPT ![b].status = "orphaned"]
        /\ UNCHANGED <<scheme, now, archive, shares, outcome, run, stopping, failure>>
        /\ UNCHANGED locals
    BY <1>3 DEF OrphanBlock
  <2>3. UNCHANGED <<task, block, before, inclusive, page, row, done, acc, remaining, scores,
                    rewards, cutoff, counted>>
    BY <2>1 DEF locals, pageVars, sumVars
  <2>2. blocks' \in Seq(BlockRow) /\ Len(blocks') = Len(blocks)
    BY <1>t, <2>1, StatusUpdate DEF Tables
  <2>4. Tables'
    BY <1>t, <2>1, <2>2 DEF Tables
  <2>5. Control'
    BY <1>t, <2>1, <2>3 DEF Control, IsNextBlock
  <2>6. Locals'
    BY <1>t, <2>1, <2>3, Zenon DEF Locals
  <2>7. Sums'
    BY <1>t, <2>1, <2>3 DEF Sums, PPLNS, Distributed, FinderReward
  <2>8. Idle'
    BY <1>t, <2>3 DEF Idle
  <2> QED
    BY <2>4, <2>5, <2>6, <2>7, <2>8 DEF ShapeInv
<1>4. ASSUME NEW b \in DOMAIN blocks, BeginBlock(b) \/ BeginSolo(b)
      PROVE  ShapeInv'
  <2>1. /\ task = "idle" /\ IsNextBlock(b) /\ block' = b
        /\ UNCHANGED <<scheme, now, archive, shares, blocks, outcome, run, stopping, failure>>
        /\ UNCHANGED <<page, row, done, acc, scores, counted>>
    BY <1>4 DEF BeginBlock, BeginSolo, Start, tables, pageVars
  <2>2. blocks[b].miner \in Miners /\ blocks[b].created \in Nat /\ b \in Nat /\ b # 0
    BY <1>t, BlockFacts
  <2>3. /\ done = FALSE /\ acc = 0 /\ scores = Nobody /\ rewards = Nobody /\ cutoff = 0
        /\ counted = {} /\ Nobody \in [Miners -> Nat] /\ \A m \in Miners : Nobody[m] = 0
    BY <1>t, <2>1 DEF Idle, Nobody
  <2>4. FinderReward \in Nat /\ FinderReward <= BlockReward /\ Distributed \in Nat
        /\ Distributed + FinderReward = BlockReward /\ BlockReward \in Nat /\ Window \in Nat /\ Window > 0
    BY FinderFacts, NumbersAssumption
  <2>5. Tables'
    BY <1>t, <2>1 DEF Tables
  <2>6. Control'
    <3>1. task' \in {"loop", "write"}
      BY <1>4 DEF BeginBlock, BeginSolo
    <3> QED
      BY <1>t, <2>1, <2>2, <3>1 DEF Control, IsNextBlock, Pending
  <2>7. PPLNS' = PPLNS /\ Distributed' = Distributed
    BY <2>1 DEF PPLNS, Distributed, FinderReward
  <2>8. CASE BeginBlock(b)
    <3>1. /\ before' = blocks[b].created /\ inclusive' = TRUE /\ remaining' = Distributed
          /\ cutoff' = cutoff /\ task' = "loop" /\ scheme # "SOLO"
          /\ rewards' = [Nobody EXCEPT ![blocks[b].miner] = FinderReward]
      BY <2>8 DEF BeginBlock, Start
    <3>2. rewards' \in [Miners -> Nat]
          /\ \A m \in Miners : rewards'[m] = IF m = blocks[b].miner THEN FinderReward ELSE 0
      BY <2>2, <2>3, <2>4, <3>1
    <3>3. Locals'
      <4>1. scores' \in [Miners -> Nat] /\ remaining' \in Nat /\ before' \in Nat /\ cutoff' \in Nat
            /\ acc' \in Nat /\ counted' \subseteq DOMAIN archive' /\ row' \in Nat /\ 1 <= row'
            /\ page' \in Seq(DOMAIN archive')
        BY <1>t, <2>1, <2>2, <2>3, <2>4, <3>1 DEF Locals
      <4>2. done' \in BOOLEAN /\ inclusive' \in BOOLEAN /\ scheme' # "SOLO"
        BY <2>1, <2>3, <3>1, Zenon
      <4> QED
        BY <3>2, <4>1, <4>2, Zenon DEF Locals
    <3>4. Sums'
      <4>1. acc' = 0 /\ \A m \in Miners : scores'[m] = 0
        BY <2>1, <2>3
      <4>2. remaining' * Window >= Distributed' * (Window - acc')
        BY <2>4, <2>7, <3>1, <4>1
      <4>3. \A m \in Miners : /\ rewards'[m] + remaining' <= BlockReward
                              /\ rewards'[m] <= BlockReward /\ scores'[m] <= acc'
        BY <2>4, <3>1, <3>2, <4>1
      <4> QED
        BY <2>4, <3>1, <4>1, <4>2, <4>3 DEF Sums
    <3>5. Idle'
      BY <3>1 DEF Idle
    <3> QED
      BY <2>5, <2>6, <3>3, <3>4, <3>5 DEF ShapeInv
  <2>9. CASE BeginSolo(b)
    <3>1. /\ UNCHANGED <<before, inclusive, remaining>>
          /\ cutoff' = blocks[b].created /\ task' = "write" /\ scheme = "SOLO"
          /\ rewards' = [Nobody EXCEPT ![blocks[b].miner] = BlockReward]
      BY <2>9 DEF BeginSolo, pageVars
    <3>2. rewards' \in [Miners -> Nat] /\ \A m \in Miners : rewards'[m] <= BlockReward
      BY <2>2, <2>3, <2>4, <3>1
    <3>3. Locals'
      <4>1. scores' \in [Miners -> Nat] /\ remaining' \in Nat /\ before' \in Nat /\ cutoff' \in Nat
            /\ acc' \in Nat /\ counted' = {} /\ row' \in Nat /\ 1 <= row'
            /\ page' \in Seq(DOMAIN archive')
        BY <1>t, <2>1, <2>2, <2>3, <2>4, <3>1 DEF Locals
      <4>2. done' \in BOOLEAN /\ inclusive' \in BOOLEAN /\ task' = "write"
        BY <1>t, <2>1, <2>3, <3>1, Zenon DEF Locals
      <4> QED
        BY <3>2, <4>1, <4>2, Zenon DEF Locals
    <3>4. Sums'
      <4>1. ~PPLNS
        BY <3>1 DEF PPLNS
      <4>2. \A m \in Miners : scores'[m] <= acc'
        BY <2>1, <2>3
      <4> QED
        BY <1>t, <2>7, <3>1, <3>2, <4>1, <4>2 DEF Sums
    <3>5. Idle'
      BY <3>1 DEF Idle
    <3> QED
      BY <2>5, <2>6, <3>3, <3>4, <3>5 DEF ShapeInv
  <2> QED
    BY <1>4, <2>8, <2>9
<1>5. CASE ReadPage
  <2>1. PICK n \in 0..PageSize : \E p \in [1..n -> Found] : IsPage(p) /\ page' = p
    BY <1>5 DEF ReadPage
  <2>2. page' \in [1..n -> Found] /\ n \in Nat
    BY <2>1, NumbersAssumption
  <2>3. Found \subseteq DOMAIN archive
    BY <1>t DEF Tables, Found
  <2>4. page' \in Seq(DOMAIN archive)
    <3>1. page' \in [1..n -> DOMAIN archive]
      BY <2>2, <2>3
    <3> QED
      BY <2>2, <3>1
  <2>5. /\ UNCHANGED <<tables, run, stopping, failure, block>>
        /\ UNCHANGED <<acc, remaining, scores, rewards, cutoff, counted>>
        /\ UNCHANGED <<before, done>> /\ inclusive' = FALSE /\ row' = 1
        /\ task = "loop" /\ task' = "rows"
    BY <1>5 DEF ReadPage, sumVars
  <2>6. scheme # "SOLO" /\ before' \in Nat /\ row' \in Nat /\ 1 <= row'
    BY <1>t, <2>5 DEF Locals
  <2>7. done' \in BOOLEAN /\ inclusive' \in BOOLEAN
    BY <1>t, <2>5, Zenon DEF Locals
  <2> QED
    BY <2>4, <2>5, <2>6, <2>7, ShapeStill
<1>6. CASE LeaveLoop \/ NextPage \/ LastPage
  <2>1. /\ UNCHANGED <<tables, run, stopping, failure, block>>
        /\ UNCHANGED <<acc, remaining, scores, rewards, cutoff, counted>>
        /\ UNCHANGED <<inclusive, page, row>>
        /\ task # "idle" /\ task' \in {"loop", "rows", "write"}
        /\ (before' = before \/ (before' = Created(page[Len(page)]) /\ Len(page) = PageSize))
        /\ (done' = done \/ done' = (done \/ scheme = "PROP"))
    BY <1>6 DEF LeaveLoop, NextPage, LastPage, sumVars, pageVars
  <2>2. scheme # "SOLO"
    BY <1>6, <1>t DEF LeaveLoop, NextPage, LastPage, Locals
  <2>3. before' \in Nat /\ page' \in Seq(DOMAIN archive) /\ row' \in Nat /\ 1 <= row'
    <3>1. CASE Len(page) = PageSize
      <4>1. page[Len(page)] \in DOMAIN archive
        BY <1>t, <3>1, NumbersAssumption DEF Locals
      <4>2. Created(page[Len(page)]) \in Nat
        BY <1>t, <4>1, ScorePositive DEF Created
      <4> QED
        BY <1>t, <2>1, <4>2 DEF Locals
    <3>2. CASE Len(page) # PageSize
      BY <1>t, <2>1, <3>2 DEF Locals
    <3> QED
      BY <3>1, <3>2
  <2>4. done' \in BOOLEAN /\ inclusive' \in BOOLEAN /\ (PPLNS => done' = done)
    <3>1. PPLNS => scheme # "PROP"
      BY DEF PPLNS
    <3> QED
      BY <1>t, <2>1, <3>1, Zenon DEF Locals
  <2> QED
    BY <2>1, <2>2, <2>3, <2>4, ShapeStill
<1>7. CASE CountPPLNS
  <2> DEFINE s == page[row]
  <2>1. /\ s \in DOMAIN archive /\ archive[s] \in ShareRow
        /\ Score(s) \in Nat /\ Score(s) > 0
        /\ acc + Score(s) <= Window
        /\ (~Crosses(s) => acc + Score(s) < Window)
        /\ RewardOf(s) \in Nat /\ RewardOf(s) <= remaining
        /\ (remaining - RewardOf(s)) * Window >= Distributed * (Window - (acc + Score(s)))
    BY <1>7, CountFacts
  <2>2. /\ task = "rows" /\ PPLNS
        /\ acc' = acc + Score(s) /\ remaining' = remaining - RewardOf(s)
        /\ cutoff' = (IF Crosses(s) THEN Created(s) ELSE cutoff)
        /\ done' = Crosses(s)
        /\ rewards' = [rewards EXCEPT ![archive[s].miner] = @ + RewardOf(s)]
        /\ counted' = counted \cup {s} /\ row' = row + 1
    BY <1>7 DEF CountPPLNS
  <2>3. UNCHANGED <<scheme, now, archive, shares, blocks, outcome, run, stopping, failure,
                    task, block, before, inclusive, page, scores>>
    BY <1>7 DEF CountPPLNS, tables
  <2>4. archive[s].miner \in Miners /\ Created(s) \in Nat
    BY <1>t, <2>1, ScorePositive DEF Created
  <2> HIDE DEF s
  <2>5. Tables'
    BY <1>t, <2>3 DEF Tables
  <2>6. Control'
    BY <1>t, <2>3 DEF Control, IsNextBlock, Pending
  <2>7. /\ acc \in Nat /\ remaining \in Nat /\ rewards \in [Miners -> Nat] /\ scores \in [Miners -> Nat]
        /\ row \in Nat /\ cutoff \in Nat /\ BlockReward \in Nat /\ 1 <= row
        /\ \A m \in Miners : rewards[m] + remaining <= BlockReward /\ scores[m] <= acc
    BY <1>t, <2>2, NumbersAssumption DEF Locals, Sums
  <2>8. /\ rewards' \in [Miners -> Nat]
        /\ \A m \in Miners : rewards'[m] = IF m = archive[s].miner THEN rewards[m] + RewardOf(s) ELSE rewards[m]
    BY <2>1, <2>2, <2>4, <2>7
  <2>9. acc' \in Nat /\ remaining' \in Nat /\ remaining' <= remaining /\ acc' >= acc
    BY <2>1, <2>2, <2>7
  <2>10. Locals'
    <3>1. cutoff' \in Nat /\ row' \in Nat /\ 1 <= row' /\ counted' \subseteq DOMAIN archive'
          /\ page' \in Seq(DOMAIN archive') /\ scores' \in [Miners -> Nat] /\ before' \in Nat
      BY <1>t, <2>1, <2>2, <2>3, <2>4, <2>7 DEF Locals
    <3>2. done' \in BOOLEAN
      BY <2>2 DEF Crosses
    <3>3. inclusive' \in BOOLEAN /\ scheme' # "SOLO"
      BY <1>t, <2>2, <2>3 DEF Locals, PPLNS
    <3> QED
      BY <2>8, <2>9, <3>1, <3>2, <3>3, Zenon DEF Locals
  <2>11. Sums'
    <3>1. PPLNS' = PPLNS /\ Distributed' = Distributed
      BY <2>3 DEF PPLNS, Distributed, FinderReward
    <3>2. acc' <= Window /\ (~done' => acc' < Window)
      BY <2>1, <2>2
    <3>3. remaining' * Window >= Distributed' * (Window - acc')
      BY <2>1, <2>2, <3>1
    <3>4. ASSUME NEW m \in Miners
          PROVE  rewards'[m] + remaining' <= BlockReward /\ rewards'[m] <= BlockReward
                 /\ scores'[m] <= acc'
      <4>1. rewards[m] \in Nat /\ scores[m] \in Nat /\ rewards'[m] \in Nat
            /\ rewards[m] + remaining <= BlockReward /\ scores[m] <= acc
        BY <2>7, <2>8
      <4>2. rewards'[m] = rewards[m] + RewardOf(s) \/ rewards'[m] = rewards[m]
        BY <2>8
      <4> QED
        BY <2>1, <2>2, <2>3, <2>7, <2>9, <4>1, <4>2
    <3>5. remaining' <= BlockReward
      BY <1>t, <2>7, <2>9 DEF Sums
    <3> QED
      BY <3>2, <3>3, <3>4, <3>5 DEF Sums
  <2>12. Idle'
    BY <2>2, <2>3 DEF Idle
  <2> QED
    BY <2>5, <2>6, <2>10, <2>11, <2>12 DEF ShapeInv
<1>8. CASE CountPROP
  <2> DEFINE s == page[row]
  <2>1. row \in 1..Len(page) /\ page \in Seq(DOMAIN archive)
    BY <1>8, <1>t DEF CountPROP, MoreRows, Locals
  <2>2. s \in DOMAIN archive
    BY <2>1
  <2>3. archive[s].score \in Nat /\ archive[s].miner \in Miners /\ Created(s) \in Nat
    BY <1>t, <2>2, ScorePositive DEF Created
  <2>4. /\ task = "rows" /\ scheme = "PROP"
        /\ acc' = acc + archive[s].score
        /\ scores' = [scores EXCEPT ![archive[s].miner] = @ + archive[s].score]
        /\ cutoff' = (IF Created(s) > cutoff THEN Created(s) ELSE cutoff)
        /\ counted' = counted \cup {s} /\ row' = row + 1
    BY <1>8 DEF CountPROP, AddScore
  <2>5. UNCHANGED <<scheme, now, archive, shares, blocks, outcome, run, stopping, failure,
                    task, block, before, inclusive, page, done, remaining, rewards>>
    BY <1>8 DEF CountPROP, tables
  <2> HIDE DEF s
  <2>6. Tables'
    BY <1>t, <2>5 DEF Tables
  <2>7. Control'
    BY <1>t, <2>5 DEF Control, IsNextBlock, Pending
  <2>8. acc \in Nat /\ scores \in [Miners -> Nat] /\ cutoff \in Nat
        /\ \A m \in Miners : scores[m] <= acc
    BY <1>t DEF Locals, Sums
  <2>9. /\ scores' \in [Miners -> Nat] /\ acc' \in Nat
        /\ \A m \in Miners : scores'[m] <= acc'
    <3>1. scores' \in [Miners -> Nat]
      BY <2>3, <2>4, <2>8
    <3>2. ASSUME NEW m \in Miners PROVE scores'[m] <= acc'
      <4>1. scores'[m] = scores[m] + archive[s].score \/ scores'[m] = scores[m]
        BY <2>3, <2>4, <2>8
      <4>2. scores[m] \in Nat /\ scores[m] <= acc
        BY <2>8
      <4> QED
        BY <2>3, <2>4, <2>8, <4>1, <4>2
    <3> QED
      BY <2>3, <2>4, <2>8, <3>1, <3>2
  <2>10. Locals'
    <3>1. cutoff' \in Nat /\ row' \in Nat /\ 1 <= row' /\ counted' \subseteq DOMAIN archive'
          /\ page' \in Seq(DOMAIN archive') /\ before' \in Nat /\ remaining' \in Nat
          /\ rewards' \in [Miners -> Nat]
      BY <1>t, <2>2, <2>3, <2>4, <2>5, <2>8 DEF Locals
    <3>2. inclusive' \in BOOLEAN /\ done' \in BOOLEAN /\ scheme' # "SOLO"
      BY <1>t, <2>4, <2>5 DEF Locals
    <3> QED
      BY <2>9, <3>1, <3>2, Zenon DEF Locals
  <2>11. Sums'
    <3>1. ~PPLNS'
      BY <2>4, <2>5 DEF PPLNS
    <3> QED
      BY <1>t, <2>5, <2>9, <3>1 DEF Sums
  <2>12. Idle'
    BY <2>4, <2>5 DEF Idle
  <2> QED
    BY <2>6, <2>7, <2>10, <2>11, <2>12 DEF ShapeInv
<1>9. CASE Write
  <2>1. /\ task = "write"
        /\ blocks' = [blocks EXCEPT ![block].status = "confirmed"]
        /\ outcome' = [outcome EXCEPT ![block] = [rewards |-> FinalRewards, counted |-> counted]]
        /\ shares' = shares \ Discarded /\ run' = run \ {block} /\ EndTask
        /\ UNCHANGED <<scheme, now, archive, stopping, failure>>
    BY <1>9 DEF Write, Commit
  <2>2. block \in run /\ run \subseteq Pending /\ block \in DOMAIN blocks
    BY <1>t, <2>1 DEF Control, IsNextBlock, Pending
  <2>3. /\ blocks' \in Seq(BlockRow) /\ Len(blocks') = Len(blocks)
        /\ DOMAIN blocks' = DOMAIN blocks
        /\ \A c \in DOMAIN blocks : c # block => blocks'[c].status = blocks[c].status
    BY <1>t, <2>1, <2>2, StatusUpdate DEF Tables
  <2>4. outcome' \in Seq(OutcomeRow) /\ Len(outcome') = Len(outcome)
    <3>1. FinalRewards \in [Miners -> 0..BlockReward]
      BY FinalFacts
    <3>2. counted \in SUBSET Nat
      BY <1>t DEF Locals, Tables
    <3> DEFINE o == [rewards |-> FinalRewards, counted |-> counted]
    <3>3. o \in OutcomeRow
      BY <3>1, <3>2 DEF OutcomeRow
    <3> HIDE DEF o
    <3>4. outcome' = [outcome EXCEPT ![block] = o] /\ outcome \in Seq(OutcomeRow)
      BY <1>t, <2>1 DEF o, Tables
    <3>5. block \in DOMAIN outcome
      BY <1>t, <2>2 DEF Tables
    <3> QED
      BY <3>3, <3>4, <3>5, OutcomeUpdate
  <2>5. Tables'
    BY <1>t, <2>1, <2>3, <2>4 DEF Tables
  <2>6. Locals' /\ Sums' /\ Idle' /\ task' = "idle" /\ block' = 0
    BY <2>1, EndShape
  <2>7. Control'
    <3>1. run' \subseteq Pending'
      BY <2>1, <2>2, <2>3 DEF Pending
    <3> QED
      BY <1>t, <2>1, <2>6, <3>1 DEF Control
  <2> QED
    BY <2>5, <2>6, <2>7 DEF ShapeInv
<1>10. CASE Stop
  <2>1. UNCHANGED <<scheme, now, archive, shares, blocks, outcome, run, failure,
                   task, block, before, inclusive, page, row, done, acc, remaining, scores,
                   rewards, cutoff, counted>>
        /\ stopping' = "yes" /\ MayStop
    BY <1>10 DEF Stop, tables, locals, pageVars, sumVars
  <2>2. Tables'
    BY <1>t, <2>1 DEF Tables
  <2>3. Control'
    BY <1>t, <2>1 DEF Control, IsNextBlock, Pending
  <2>4. Locals'
    BY <1>t, <2>1, Zenon DEF Locals
  <2>5. Sums'
    BY <1>t, <2>1 DEF Sums, PPLNS, Distributed, FinderReward
  <2>6. Idle'
    BY <1>t, <2>1 DEF Idle
  <2> QED
    BY <2>2, <2>3, <2>4, <2>5, <2>6 DEF ShapeInv
<1>11. CASE Aborts
  <2>1. EndTask /\ run' = {} /\ UNCHANGED <<scheme, now, archive, shares, blocks, outcome>>
        /\ failure' \in {failure, "overflow", "missing key", "cancelled", "database"}
        /\ stopping' \in {stopping, "no"}
    BY <1>11 DEF Aborts, tables
  <2>2. Tables'
    BY <1>t, <2>1 DEF Tables
  <2>3. Locals' /\ Sums' /\ Idle' /\ task' = "idle" /\ block' = 0
    BY <2>1, EndShape
  <2>4. Control'
    BY <1>t, <2>1, <2>3 DEF Control, IsNextBlock
  <2> QED
    BY <2>2, <2>3, <2>4 DEF ShapeInv
<1>12. CASE UNCHANGED vars
  <2>1. UNCHANGED <<scheme, now, archive, shares, blocks, outcome, run, stopping, failure,
                   task, block, before, inclusive, page, row, done, acc, remaining, scores,
                   rewards, cutoff, counted>>
    BY <1>12 DEF vars, tables, locals, pageVars, sumVars
  <2>2. Tables'
    BY <1>t, <2>1 DEF Tables
  <2>3. Control'
    BY <1>t, <2>1 DEF Control, IsNextBlock, Pending
  <2>4. Locals'
    BY <1>t, <2>1, Zenon DEF Locals
  <2>5. Sums'
    BY <1>t, <2>1 DEF Sums, PPLNS, Distributed, FinderReward
  <2>6. Idle'
    BY <1>t, <2>1 DEF Idle
  <2> QED
    BY <2>2, <2>3, <2>4, <2>5, <2>6 DEF ShapeInv
<1> QED
  BY <1>1, <1>2, <1>3, <1>4, <1>5, <1>6, <1>7, <1>8, <1>9, <1>10, <1>11, <1>12, Cases, ZenonT(60)

\* The shapes are an invariant of the specification.
THEOREM ShapeInvariance == Spec => []ShapeInv
<1>1. Init => ShapeInv
  BY ShapeInit
<1>2. ShapeInv /\ [Next]_vars => ShapeInv'
  BY ShapeNext
<1> QED
  BY <1>1, <1>2, PTL DEF Spec

\* The tables and the locals of the payment task always have their types, and no
\* miner is given more than the reward of the block.
THEOREM TypeCorrect == Spec => []TypeOK
<1>1. ShapeInv => TypeOK
  <2> SUFFICES ASSUME ShapeInv PROVE TypeOK
    OBVIOUS
  <2>t. Tables /\ Control /\ Locals /\ Sums
    BY DEF ShapeInv
  <2>1. /\ scheme \in Schemes /\ now \in 1..(MaxShares + 1) /\ archive \in Seq(ShareRow)
        /\ shares \subseteq DOMAIN archive /\ blocks \in Seq(BlockRow) /\ Len(outcome) = Len(blocks)
    BY <2>t, NumbersAssumption DEF Tables
  <2>2. \A b \in DOMAIN outcome : outcome[b].rewards \in [Miners -> 0..BlockReward]
    <3>1. \A b \in DOMAIN outcome : outcome[b] \in OutcomeRow
      BY <2>t DEF Tables
    <3> QED
      BY <3>1 DEF OutcomeRow
  <2>3. /\ run \subseteq Pending /\ stopping \in {"no", "yes"}
        /\ failure \in {"none", "overflow", "missing key", "cancelled", "database"}
        /\ task \in {"idle", "loop", "rows", "write"} /\ block \in run \cup {0}
    BY <2>t DEF Control, IsNextBlock
  <2>4. remaining \in 0..BlockReward /\ rewards \in [Miners -> 0..BlockReward]
    BY <2>t, NumbersAssumption DEF Locals, Sums
  <2> QED
    BY <2>t, <2>1, <2>2, <2>3, <2>4, Zenon DEF Locals, TypeOK, ShareRow, BlockRow
<1> QED
  BY <1>1, ShapeInvariance, PTL

\* What confirming a block changes.
LEMMA WriteFacts ==
    ASSUME ShapeInv, Write
    PROVE  /\ task = "write" /\ block \in run /\ block \in Pending /\ block \in DOMAIN blocks
           /\ DOMAIN blocks' = DOMAIN blocks
           /\ \A c \in DOMAIN blocks : /\ blocks'[c].created = blocks[c].created
                                       /\ blocks'[c].miner = blocks[c].miner
           /\ Pending' = Pending \ {block}
           /\ Confirmed' = Confirmed \cup {block} /\ Confirmed \subseteq DOMAIN blocks
           /\ outcome'[block] = [rewards |-> FinalRewards, counted |-> counted]
           /\ \A c \in DOMAIN blocks : c # block => outcome'[c] = outcome[c]
           /\ shares' = shares \ Discarded /\ run' = run \ {block}
           /\ UNCHANGED <<scheme, now, archive, stopping, failure>>
<1>t. Tables /\ Control
  BY DEF ShapeInv
<1>1. /\ task = "write"
      /\ blocks' = [blocks EXCEPT ![block].status = "confirmed"]
      /\ outcome' = [outcome EXCEPT ![block] = [rewards |-> FinalRewards, counted |-> counted]]
      /\ shares' = shares \ Discarded /\ run' = run \ {block}
      /\ UNCHANGED <<scheme, now, archive, stopping, failure>>
  BY DEF Write, Commit
<1>2. block \in run /\ block \in Pending /\ block \in DOMAIN blocks
  BY <1>t, <1>1 DEF Control, IsNextBlock, Pending
<1>3. /\ DOMAIN blocks' = DOMAIN blocks
      /\ \A c \in DOMAIN blocks : /\ blocks'[c].created = blocks[c].created
                                  /\ blocks'[c].miner = blocks[c].miner
      /\ \A c \in DOMAIN blocks : c # block => blocks'[c].status = blocks[c].status
      /\ blocks'[block].status = "confirmed"
  BY <1>t, <1>1, <1>2, StatusUpdate DEF Tables
<1>4. Pending' = Pending \ {block} /\ Confirmed' = Confirmed \cup {block}
  <2>1. \A c \in DOMAIN blocks : c \in Pending' <=> c \in Pending /\ c # block
    BY <1>3 DEF Pending
  <2>2. \A c \in DOMAIN blocks : c \in Confirmed' <=> c \in Confirmed \/ c = block
    BY <1>3 DEF Confirmed
  <2>3. Pending' \subseteq DOMAIN blocks /\ Pending \subseteq DOMAIN blocks
        /\ Confirmed' \subseteq DOMAIN blocks /\ Confirmed \subseteq DOMAIN blocks
    BY <1>3 DEF Pending, Confirmed
  <2> QED
    BY <1>2, <2>1, <2>2, <2>3
<1>5. /\ outcome'[block] = [rewards |-> FinalRewards, counted |-> counted]
      /\ \A c \in DOMAIN blocks : c # block => outcome'[c] = outcome[c]
  <2>1. outcome \in Seq(OutcomeRow) /\ DOMAIN outcome = 1..Len(outcome)
    BY <1>t DEF Tables
  <2>2. DOMAIN blocks = 1..Len(blocks) /\ Len(outcome) = Len(blocks)
    BY <1>t DEF Tables
  <2>3. block \in DOMAIN outcome /\ DOMAIN outcome = DOMAIN blocks
    BY <1>2, <2>1, <2>2
  <2> DEFINE o == [rewards |-> FinalRewards, counted |-> counted]
  <2>4. outcome' = [outcome EXCEPT ![block] = o]
    BY <1>1
  <2> HIDE DEF o
  <2>5. outcome'[block] = o /\ \A c \in DOMAIN outcome : c # block => outcome'[c] = outcome[c]
    BY <2>3, <2>4
  <2> QED
    BY <2>3, <2>5 DEF o
<1> QED
  BY <1>1, <1>2, <1>3, <1>4, <1>5 DEF Confirmed

-----------------------------------------------------------------------------
(* The rewards of a block never exceed its reward. *)

SumInv ==
    /\ task # "idle" /\ PPLNS => Total(rewards) + remaining = BlockReward
    /\ scheme = "PROP" => Total(scores) = acc /\ rewards = Nobody
    /\ task # "idle" /\ scheme = "SOLO" => Total(rewards) = BlockReward

\* Nobody gets nothing in total.
LEMMA TotalNobody == Total(Nobody) = 0
<1>1. \A m \in Miners : Nobody[m] = 0
  BY DEF Nobody
<1> QED
  BY <1>1, MinersAssumption, SumZero DEF Total

\* One miner gets more.
LEMMA TotalAdd ==
    ASSUME NEW f \in [Miners -> Nat], NEW m \in Miners, NEW x \in Nat
    PROVE  Total([f EXCEPT ![m] = @ + x]) = Total(f) + x /\ Total(f) \in Int
<1> DEFINE g == [f EXCEPT ![m] = @ + x]
<1>1. \A n \in Miners : f[n] \in Int /\ g[n] \in Int
  OBVIOUS
<1>2. \A n \in Miners : n # m => g[n] = f[n]
  OBVIOUS
<1>3. g[m] - f[m] = x /\ f[m] \in Int
  OBVIOUS
<1> HIDE DEF g
<1>4. SumFunctionOnSet(g, Miners) = SumFunctionOnSet(f, Miners) + (g[m] - f[m])
  BY <1>1, <1>2, MinersAssumption, SumUpdate
<1>5. SumFunctionOnSet(f, Miners) \in Int
  BY <1>1, MinersAssumption, SumInt
<1> QED
  BY <1>3, <1>4, <1>5 DEF Total, g

\* One miner gets all.
LEMMA TotalOne ==
    ASSUME NEW m \in Miners, NEW x \in Nat
    PROVE  Total([Nobody EXCEPT ![m] = x]) = x
<1>1. Nobody \in [Miners -> Nat] /\ Nobody[m] = 0
  BY DEF Nobody
<1>2. [Nobody EXCEPT ![m] = x] = [Nobody EXCEPT ![m] = @ + x]
  BY <1>1
<1> QED
  BY <1>1, <1>2, TotalAdd, TotalNobody

\* PROP: the parts of the reward add up to the reward at most.
LEMMA TotalParts ==
    ASSUME NEW f \in [Miners -> Nat], NEW a \in Nat, a > 0, Total(f) = a
    PROVE  Total([m \in Miners |-> (f[m] * BlockReward) \div a]) <= BlockReward
<1> DEFINE q == [m \in Miners |-> (f[m] * BlockReward) \div a]
           h == [m \in Miners |-> a * q[m]]
           g == [m \in Miners |-> BlockReward * f[m]]
<1>0. BlockReward \in Nat
  BY NumbersAssumption
<1>1. ASSUME NEW m \in Miners
      PROVE  q[m] \in Nat /\ h[m] = a * q[m] /\ g[m] = BlockReward * f[m]
             /\ h[m] \in Int /\ g[m] \in Int /\ h[m] <= g[m] /\ f[m] \in Int
  <2>1. f[m] * BlockReward \in Nat /\ f[m] \in Nat
    BY <1>0, ProductNat
  <2>2. (f[m] * BlockReward) \div a \in Nat /\ ((f[m] * BlockReward) \div a) * a <= f[m] * BlockReward
    BY <2>1, DivFacts
  <2>3. q[m] = (f[m] * BlockReward) \div a /\ h[m] = a * q[m] /\ g[m] = BlockReward * f[m]
    OBVIOUS
  <2>4. q[m] \in Nat /\ q[m] * a <= f[m] * BlockReward
    BY <2>2, <2>3
  <2> HIDE DEF q, h, g
  <2> QED
    BY <1>0, <2>1, <2>3, <2>4
<1> HIDE DEF q, h, g
<1>2. Total(h) = a * Total(q)
  BY <1>1, MinersAssumption, SumScaled DEF Total
<1>3. Total(g) = BlockReward * Total(f)
  <2>1. \A m \in Miners : f[m] \in Int /\ g[m] = BlockReward * f[m]
    BY <1>1
  <2>2. BlockReward \in Int
    BY <1>0
  <2> QED
    BY <2>1, <2>2, MinersAssumption, SumScaled DEF Total
<1>4. Total(h) <= Total(g)
  BY <1>1, MinersAssumption, SumMonotone DEF Total
<1>5. Total(q) \in Int
  BY <1>1, MinersAssumption, SumInt DEF Total
<1>6. Total(q) * a <= BlockReward * a
  BY <1>0, <1>2, <1>3, <1>4, <1>5
<1>7. Total(q) <= BlockReward
  BY <1>0, <1>5, <1>6, CancelFactor
<1> QED
  BY <1>7 DEF q

\* What is written for a block is at most its reward.
LEMMA FinalTotal ==
    ASSUME ShapeInv, SumInv, task # "idle"
    PROVE  Total(FinalRewards) <= BlockReward
<1>0. acc \in Nat /\ BlockReward \in Nat /\ remaining \in Nat /\ scores \in [Miners -> Nat]
      /\ rewards \in [Miners -> Nat] /\ scheme \in {"PPLNS", "PPLNSBF", "PROP", "SOLO"}
  BY NumbersAssumption, SchemesAssumption DEF ShapeInv, Locals, Tables
<1>1. CASE scheme = "PROP" /\ acc > 0
  BY <1>0, <1>1, TotalParts DEF FinalRewards, SumInv
<1>2. CASE scheme = "PROP" /\ ~(acc > 0)
  BY <1>0, <1>2, TotalNobody DEF FinalRewards, SumInv
<1>3. CASE scheme # "PROP"
  <2>1. FinalRewards = rewards
    BY <1>3 DEF FinalRewards
  <2>2. Total(rewards) \in Int
    BY <1>0, MinersAssumption, SumInt DEF Total
  <2>3. PPLNS \/ scheme = "SOLO"
    BY <1>0, <1>3 DEF PPLNS
  <2> QED
    BY <1>0, <2>1, <2>2, <2>3 DEF SumInv
<1> QED
  BY <1>1, <1>2, <1>3

\* Initially there is nothing to add up.
LEMMA SumInit == Init => SumInv /\ NeverOverDistributed
<1> SUFFICES ASSUME Init PROVE SumInv /\ NeverOverDistributed
  OBVIOUS
<1>1. SumInv
  BY TotalNobody DEF Init, SumInv
<1>2. Confirmed = {}
  BY DEF Init, Confirmed
<1> QED
  BY <1>1, <1>2 DEF NeverOverDistributed

\* Every step keeps the sums.
LEMMA SumNext ==
    ShapeInv /\ SumInv /\ NeverOverDistributed /\ [Next]_vars => SumInv' /\ NeverOverDistributed'
<1> SUFFICES ASSUME ShapeInv, SumInv, NeverOverDistributed, [Next]_vars
             PROVE  SumInv' /\ NeverOverDistributed'
  OBVIOUS
<1>t. Tables /\ Control /\ Locals /\ Sums /\ Idle
  BY DEF ShapeInv
<1>e. ASSUME EndTask PROVE SumInv'
  BY <1>e, TotalNobody DEF EndTask, SumInv
<1>u. ASSUME UNCHANGED <<scheme, task, rewards, remaining, scores, acc>> PROVE SumInv'
  BY <1>u DEF SumInv, PPLNS, Total
<1>n. ASSUME UNCHANGED <<blocks, outcome>> PROVE NeverOverDistributed'
  BY <1>n DEF NeverOverDistributed, Confirmed, Total
<1>1. ASSUME NEW m \in Miners, NEW score \in Scores, NEW isBlock \in BOOLEAN,
             StoreShare(m, score, isBlock)
      PROVE  SumInv' /\ NeverOverDistributed'
  <2>1. /\ \A b \in DOMAIN blocks : blocks'[b] = blocks[b] /\ outcome'[b] = outcome[b]
        /\ \A b \in DOMAIN blocks' : b \notin DOMAIN blocks =>
             blocks'[b] = [miner |-> m, created |-> now, status |-> "pending"]
    BY <1>t, <1>1, StoreFacts, ZenonT(30)
  <2>2. \A b \in Confirmed' : b \in Confirmed /\ outcome'[b] = outcome[b]
    BY <2>1 DEF Confirmed
  <2>3. NeverOverDistributed'
    BY <2>2 DEF NeverOverDistributed, Total
  <2>4. UNCHANGED <<scheme, task, rewards, remaining, scores, acc>>
    BY <1>1 DEF StoreShare, locals, sumVars
  <2> QED
    BY <1>u, <2>3, <2>4
<1>2. ASSUME NEW S \in SUBSET Pending, StartRun(S)
      PROVE  SumInv' /\ NeverOverDistributed'
  BY <1>2, <1>u, <1>n DEF StartRun, tables, locals, sumVars
<1>3. ASSUME NEW b \in DOMAIN blocks, OrphanBlock(b)
      PROVE  SumInv' /\ NeverOverDistributed'
  <2>1. blocks' = [blocks EXCEPT ![b].status = "orphaned"] /\ outcome' = outcome
    BY <1>3 DEF OrphanBlock
  <2>2. /\ DOMAIN blocks' = DOMAIN blocks /\ blocks'[b].status = "orphaned"
        /\ \A c \in DOMAIN blocks : c # b => blocks'[c].status = blocks[c].status
    BY <1>t, <2>1, StatusUpdate DEF Tables
  <2>3. Confirmed' \subseteq Confirmed
    BY <2>2 DEF Confirmed
  <2>4. NeverOverDistributed'
    BY <2>1, <2>3 DEF NeverOverDistributed, Total
  <2> QED
    BY <1>3, <1>u, <2>4 DEF OrphanBlock, locals, sumVars
<1>4. ASSUME NEW b \in DOMAIN blocks, BeginBlock(b) \/ BeginSolo(b)
      PROVE  SumInv' /\ NeverOverDistributed'
  <2>1. UNCHANGED <<scheme, blocks, outcome, acc, scores>> /\ task = "idle"
    BY <1>4 DEF BeginBlock, BeginSolo, Start, tables
  <2>2. blocks[b].miner \in Miners /\ BlockReward \in Nat /\ FinderReward \in Nat
        /\ Distributed \in Nat /\ Distributed + FinderReward = BlockReward
    BY <1>t, BlockFacts, FinderFacts, NumbersAssumption
  <2>3. CASE BeginBlock(b)
    <3>1. remaining' = Distributed /\ rewards' = [Nobody EXCEPT ![blocks[b].miner] = FinderReward]
          /\ scheme # "SOLO"
      BY <2>3 DEF BeginBlock, Start
    <3>2. Total(rewards') = FinderReward
      BY <2>2, <3>1, TotalOne
    <3>3. scheme = "PROP" => rewards' = Nobody
      <4>1. scheme = "PROP" => FinderReward = 0
        BY DEF FinderReward
      <4> QED
        BY <3>1, <4>1 DEF Nobody
    <3>4. Total(rewards') + remaining' = BlockReward
      BY <2>2, <3>1, <3>2
    <3>5. Total(scores') = Total(scores) /\ Total(rewards)' = Total(rewards') /\ Total(scores)' = Total(scores')
      BY <2>1 DEF Total
    <3> QED
      BY <1>n, <2>1, <3>1, <3>3, <3>4, <3>5 DEF SumInv
  <2>4. CASE BeginSolo(b)
    <3>1. rewards' = [Nobody EXCEPT ![blocks[b].miner] = BlockReward] /\ scheme = "SOLO"
      BY <2>4 DEF BeginSolo
    <3>2. Total(rewards') = BlockReward /\ Total(rewards)' = Total(rewards')
      BY <2>2, <3>1, TotalOne DEF Total
    <3> QED
      BY <1>n, <2>1, <3>1, <3>2 DEF SumInv, PPLNS
  <2> QED
    BY <1>4, <2>3, <2>4
<1>5. CASE ReadPage \/ LeaveLoop \/ NextPage \/ LastPage
  <2>1. UNCHANGED <<scheme, blocks, outcome, rewards, remaining, scores, acc>> /\ task # "idle"
    BY <1>5 DEF ReadPage, LeaveLoop, NextPage, LastPage, tables, sumVars
  <2>2. SumInv'
    BY <2>1 DEF SumInv, PPLNS, Total
  <2> QED
    BY <1>n, <2>1, <2>2
<1>6. CASE CountPPLNS
  <2> DEFINE s == page[row]
  <2>1. s \in DOMAIN archive /\ RewardOf(s) \in Nat /\ RewardOf(s) <= remaining
    BY <1>6, CountFacts
  <2>2. archive[s].miner \in Miners
    BY <1>t, <2>1, ScorePositive
  <2>3. /\ PPLNS /\ task # "idle" /\ UNCHANGED <<scheme, blocks, outcome>>
        /\ remaining' = remaining - RewardOf(s)
        /\ rewards' = [rewards EXCEPT ![archive[s].miner] = @ + RewardOf(s)]
    BY <1>6 DEF CountPPLNS, tables
  <2> HIDE DEF s
  <2>4. rewards \in [Miners -> Nat] /\ remaining \in Nat
    BY <1>t DEF Locals
  <2>5. Total(rewards') = Total(rewards) + RewardOf(s) /\ Total(rewards) \in Int
    BY <2>1, <2>2, <2>3, <2>4, TotalAdd
  <2>6. Total(rewards') + remaining' = BlockReward /\ Total(rewards)' = Total(rewards')
    BY <2>1, <2>3, <2>4, <2>5 DEF SumInv, Total
  <2> QED
    BY <1>n, <2>3, <2>6 DEF SumInv, PPLNS
<1>7. CASE CountPROP
  <2> DEFINE s == page[row]
  <2>1. row \in 1..Len(page) /\ page \in Seq(DOMAIN archive)
    BY <1>7, <1>t DEF CountPROP, MoreRows, Locals
  <2>2. archive[s].score \in Nat /\ archive[s].miner \in Miners
    BY <1>t, <2>1, ScorePositive
  <2>3. /\ scheme = "PROP" /\ UNCHANGED <<scheme, blocks, outcome, rewards>>
        /\ acc' = acc + archive[s].score
        /\ scores' = [scores EXCEPT ![archive[s].miner] = @ + archive[s].score]
    BY <1>7 DEF CountPROP, AddScore, tables
  <2> HIDE DEF s
  <2>4. scores \in [Miners -> Nat] /\ acc \in Nat
    BY <1>t DEF Locals
  <2>5. Total(scores') = Total(scores) + archive[s].score
    BY <2>2, <2>3, <2>4, TotalAdd
  <2>6. Total(scores') = acc' /\ Total(scores)' = Total(scores')
    BY <2>3, <2>5 DEF SumInv, Total
  <2> QED
    BY <1>n, <2>3, <2>6 DEF SumInv, PPLNS
<1>8. CASE Write
  <2>1. EndTask /\ task = "write"
    BY <1>8 DEF Write, Commit
  <2>4. /\ outcome'[block] = [rewards |-> FinalRewards, counted |-> counted]
        /\ \A c \in DOMAIN blocks : c # block => outcome'[c] = outcome[c]
        /\ Confirmed' = Confirmed \cup {block} /\ Confirmed \subseteq DOMAIN blocks
    BY <1>8, WriteFacts
  <2>5. Total(FinalRewards) <= BlockReward
    BY <2>1, FinalTotal
  <2>6. ASSUME NEW b \in Confirmed' PROVE Total(outcome'[b].rewards) <= BlockReward
    <3>1. CASE b = block
      BY <2>4, <2>5, <3>1
    <3>2. CASE b # block
      BY <2>4, <3>2 DEF NeverOverDistributed
    <3> QED
      BY <3>1, <3>2
  <2>7. NeverOverDistributed'
    BY <2>6 DEF NeverOverDistributed, Total
  <2> QED
    BY <1>e, <2>1, <2>7
<1>9. CASE Aborts
  BY <1>9, <1>e, <1>n DEF Aborts, tables
<1>10. CASE Stop \/ UNCHANGED vars
  BY <1>10, <1>u, <1>n DEF Stop, vars, tables, locals, sumVars
<1> QED
  BY <1>1, <1>2, <1>3, <1>4, <1>5, <1>6, <1>7, <1>8, <1>9, <1>10, Cases, ZenonT(60)

\* However shares tie, blocks are skipped or the host stops, no scheme ever hands out
\* more than the reward of a block (CalculateRewardsAsync).
THEOREM RewardsBounded == Spec => []NeverOverDistributed
<1>1. Init => ShapeInv /\ SumInv /\ NeverOverDistributed
  BY ShapeInit, SumInit
<1>2. (ShapeInv /\ SumInv /\ NeverOverDistributed) /\ [Next]_vars
        => (ShapeInv /\ SumInv /\ NeverOverDistributed)'
  BY ShapeNext, SumNext
<1> QED
  BY <1>1, <1>2, PTL DEF Spec
=============================================================================
