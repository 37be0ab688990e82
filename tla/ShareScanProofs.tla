-------------------------- MODULE ShareScanProofs --------------------------
(***************************************************************************)
(* Theorems about which shares a payout scheme counts and deletes.  They   *)
(* rest on an invariant of the page loop: what the rows already counted,   *)
(* the rest of the page and the bound of the next page cover together.     *)
(***************************************************************************)
EXTENDS ShareAccountingProofs

\* The clock, the order of blocks and the share each block was found with.
TimeInv ==
    /\ \A s \in DOMAIN archive : 1 <= Created(s) /\ Created(s) <= now
    /\ \A b \in DOMAIN blocks : blocks[b].created <= now
    /\ \A b, c \in DOMAIN blocks : b < c => blocks[b].created <= blocks[c].created
    /\ \A b \in DOMAIN blocks : \E s \in DOMAIN archive :
          Created(s) = blocks[b].created /\ archive[s].miner = blocks[b].miner
    /\ DistinctTimes => \A s \in DOMAIN archive : Created(s) < now
    /\ DistinctTimes => \A s, t \in DOMAIN archive : Created(s) = Created(t) => s = t

\* A deleted row is older than every row that is left, and than the present.
DeletedInv ==
    scheme # "SOLO" =>
        \A s \in DOMAIN archive : s \notin shares =>
            Created(s) < now /\ \A t \in shares : Created(s) < Created(t)

\* The rows of the table the scan of the current block is about.
Rows == {s \in shares : Created(s) <= blocks[block].created}

\* A share with this Created has been counted.
Seen(s) == \E u \in counted : Created(u) = Created(s)

Scanning == scheme # "SOLO" /\ task # "idle"

\* A moment newer than a counted share is represented among the counted ones.
NoGaps ==
    /\ counted \subseteq Rows
    /\ \A t \in counted, s \in UpTo(block) : Created(s) > Created(t) => Seen(s)
    /\ cutoff # 0 => \E s \in counted : cutoff = Created(s)

\* Before a page is read: what is not represented lies within the bound.
LoopInv ==
    /\ before <= blocks[block].created
    /\ \A s \in Rows : Seen(s) \/ Created(s) < before \/ (inclusive = TRUE /\ Created(s) = before)
    /\ \A u \in counted : inclusive = FALSE /\ Created(u) >= before

\* The page: rows of the table, newest first, counted as far as the index says.
PageInv ==
    /\ inclusive = FALSE /\ row <= Len(page) + 1 /\ Len(page) <= PageSize
    /\ \A i \in 1..Len(page) : page[i] \in Rows
    /\ \A i, j \in 1..Len(page) : i < j => page[i] # page[j] /\ Created(page[i]) >= Created(page[j])
    /\ \A i \in 1..Len(page) : i < row => page[i] \in counted

\* What is not represented is on the rest of the page, or older than a full page.
RestInv ==
    /\ \A i \in 1..Len(page) : row <= i => page[i] \notin counted
    /\ \A u \in counted, i \in 1..Len(page) :
          Created(u) >= Created(page[i]) \/ \E j \in 1..Len(page) : j < row /\ u = page[j]
    /\ \A s \in Rows :
          \/ Seen(s)
          \/ \E j \in 1..Len(page) : row <= j /\ Created(page[j]) = Created(s)
          \/ Len(page) = PageSize /\ \A j \in 1..Len(page) : Created(s) <= Created(page[j])

ScanInv ==
    Scanning => /\ NoGaps
                /\ task = "loop" /\ ~done => LoopInv
                /\ task = "rows" => PageInv
                /\ task = "rows" /\ ~done => RestInv
                /\ scheme = "PROP" /\ done => task = "write"

\* The counted shares of confirmed blocks were stored.
OutcomeInv == \A b \in Confirmed : outcome[b].counted \subseteq DOMAIN archive

-----------------------------------------------------------------------------
(* The clock and the table. *)

\* Initially there are no shares and no blocks.
LEMMA TimeInit == Init => TimeInv /\ DeletedInv /\ OutcomeInv /\ ScanInv /\ OnlyTiesAreMissed
<1> SUFFICES ASSUME Init PROVE TimeInv /\ DeletedInv /\ OutcomeInv /\ ScanInv /\ OnlyTiesAreMissed
  OBVIOUS
<1>1. DOMAIN archive = {} /\ DOMAIN blocks = {} /\ task = "idle"
  BY DEF Init
<1> QED
  BY <1>1, Zenon DEF TimeInv, DeletedInv, OutcomeInv, Confirmed, ScanInv, Scanning, OnlyTiesAreMissed

\* A share is stored: it is the newest, and a block found with it the last one.
LEMMA TimeStore ==
    ASSUME Tables, TimeInv, NEW m \in Miners, NEW score \in Scores, NEW isBlock \in BOOLEAN,
           StoreShare(m, score, isBlock)
    PROVE  TimeInv'
<1>0. PICK n : n = Len(archive) + 1
  OBVIOUS
<1>1. /\ DOMAIN archive' = DOMAIN archive \cup {n} /\ n \notin DOMAIN archive
      /\ \A s \in DOMAIN archive : archive'[s] = archive[s]
      /\ archive'[n] = [miner |-> m, created |-> now, score |-> score]
      /\ now' \in {now, now + 1} /\ (DistinctTimes => now' = now + 1)
      /\ DOMAIN blocks \subseteq DOMAIN blocks'
      /\ \A b \in DOMAIN blocks : blocks'[b] = blocks[b]
      /\ \A b \in DOMAIN blocks' : b \notin DOMAIN blocks =>
           /\ blocks'[b] = [miner |-> m, created |-> now, status |-> "pending"]
           /\ \A c \in DOMAIN blocks : c < b
  BY <1>0, StoreFacts, ZenonT(60)
<1>2. now \in Nat /\ 1 <= now /\ (\A s \in DOMAIN archive : Created(s) \in Nat)
      /\ (\A b \in DOMAIN blocks : blocks[b].created \in Nat /\ b \in Nat)
  BY ScorePositive, BlockFacts DEF Tables, Created
<1>3. now' >= now /\ now' \in Nat
  BY <1>1, <1>2
<1>4. \A s \in DOMAIN archive : Created(s)' = Created(s) /\ Created(s) <= now /\ 1 <= Created(s)
  BY <1>1 DEF Created, TimeInv
<1>5. Created(n)' = now /\ archive'[n].miner = m
  BY <1>1 DEF Created
<1>6. \A s \in DOMAIN archive' : s \in DOMAIN archive \/ s = n
  BY <1>1
<1>7. \A s \in DOMAIN archive' : 1 <= Created(s)' /\ Created(s)' <= now'
  BY <1>2, <1>3, <1>4, <1>5, <1>6
<1>8. \A b \in DOMAIN blocks' : \/ b \in DOMAIN blocks /\ blocks'[b].created = blocks[b].created
                                                    /\ blocks'[b].miner = blocks[b].miner
                                \/ /\ b \notin DOMAIN blocks /\ blocks'[b].created = now
                                   /\ blocks'[b].miner = m /\ \A c \in DOMAIN blocks : c < b
  BY <1>1
<1>9. \A b \in DOMAIN blocks' : blocks'[b].created <= now'
  BY <1>2, <1>3, <1>8 DEF TimeInv
<1>10. ASSUME NEW b \in DOMAIN blocks', NEW c \in DOMAIN blocks', b < c
       PROVE  blocks'[b].created <= blocks'[c].created
  <2>1. CASE c \in DOMAIN blocks
    <3>1. b \in DOMAIN blocks
      <4>1. SUFFICES ASSUME b \notin DOMAIN blocks PROVE FALSE
        OBVIOUS
      <4>2. c < b
        BY <1>8, <2>1, <4>1
      <4>3. b \in Nat /\ c \in Nat
        <5>1. Tables'
          BY StoreFacts
        <5> QED
          BY <5>1 DEF Tables
      <4> QED
        BY <1>10, <4>2, <4>3
    <3> QED
      BY <1>8, <1>10, <2>1, <3>1 DEF TimeInv
  <2>2. CASE c \notin DOMAIN blocks
    <3>1. blocks'[c].created = now
      BY <1>8, <2>2
    <3>2. blocks'[b].created = now \/ (b \in DOMAIN blocks /\ blocks'[b].created = blocks[b].created)
      BY <1>8
    <3> QED
      BY <1>2, <3>1, <3>2 DEF TimeInv
  <2> QED
    BY <2>1, <2>2
<1>11. ASSUME NEW b \in DOMAIN blocks'
       PROVE  \E s \in DOMAIN archive' : Created(s)' = blocks'[b].created /\ archive'[s].miner = blocks'[b].miner
  <2>1. CASE b \in DOMAIN blocks
    <3>1. PICK s \in DOMAIN archive : Created(s) = blocks[b].created /\ archive[s].miner = blocks[b].miner
      BY <2>1 DEF TimeInv
    <3> QED
      BY <1>1, <1>4, <1>8, <2>1, <3>1
  <2>2. CASE b \notin DOMAIN blocks
    BY <1>1, <1>5, <1>8, <2>2
  <2> QED
    BY <2>1, <2>2
<1>12. ASSUME DistinctTimes PROVE \A s \in DOMAIN archive' : Created(s)' < now'
  <2>1. now' = now + 1
    BY <1>1, <1>12
  <2> QED
    BY <1>2, <1>4, <1>5, <1>6, <2>1
<1>13. ASSUME DistinctTimes, NEW s \in DOMAIN archive', NEW t \in DOMAIN archive', Created(s)' = Created(t)'
       PROVE  s = t
  <2>1. \A u \in DOMAIN archive : Created(u) < now
    BY <1>13 DEF TimeInv
  <2>2. \A u \in DOMAIN archive : Created(u)' # now
    BY <1>2, <1>4, <2>1
  <2>3. s \in DOMAIN archive /\ t \in DOMAIN archive => s = t
    BY <1>4, <1>13 DEF TimeInv
  <2> QED
    BY <1>5, <1>6, <1>13, <2>2, <2>3
<1> QED
  BY <1>7, <1>9, <1>10, <1>11, <1>12, <1>13 DEF TimeInv

\* The new share n, and what stays.
Stores(n, m, score) ==
    /\ DOMAIN archive' = DOMAIN archive \cup {n} /\ n \notin DOMAIN archive
    /\ shares' = shares \cup {n}
    /\ archive'[n] = [miner |-> m, created |-> now, score |-> score]
    /\ \A s \in DOMAIN archive : archive'[s] = archive[s]
    /\ now' \in Nat /\ now' >= now /\ (DistinctTimes => now' = now + 1)
    /\ Confirmed' = Confirmed /\ Confirmed \subseteq DOMAIN blocks
    /\ Pending \subseteq Pending' /\ DOMAIN blocks \subseteq DOMAIN blocks'
    /\ \A b \in DOMAIN blocks : blocks'[b] = blocks[b] /\ outcome'[b] = outcome[b]
    /\ \A b \in Pending' : b \in Pending \/ (b \notin DOMAIN blocks /\ blocks'[b].created = now
                                             /\ blocks'[b].miner = m)
    /\ UNCHANGED <<scheme, run, stopping, failure, task, block, before, inclusive, page, row,
                   done, acc, remaining, scores, rewards, cutoff, counted>>

\* StoreShare has this effect for a new share.
LEMMA StoreNew ==
    ASSUME ShapeInv, NEW m \in Miners, NEW score \in Scores, NEW isBlock \in BOOLEAN,
           StoreShare(m, score, isBlock)
    PROVE  \E n : Stores(n, m, score)
<1>1. PICK n : n = Len(archive) + 1
  OBVIOUS
<1>2. Tables
  BY DEF ShapeInv
<1>3. /\ DOMAIN archive' = DOMAIN archive \cup {n} /\ n \notin DOMAIN archive
      /\ shares' = shares \cup {n}
      /\ \A s \in DOMAIN archive : archive'[s] = archive[s]
      /\ archive'[n] = [miner |-> m, created |-> now, score |-> score]
      /\ now' \in {now, now + 1} /\ (DistinctTimes => now' = now + 1)
      /\ DOMAIN blocks \subseteq DOMAIN blocks'
      /\ \A b \in DOMAIN blocks : blocks'[b] = blocks[b] /\ outcome'[b] = outcome[b]
      /\ \A b \in DOMAIN blocks' : b \notin DOMAIN blocks =>
           blocks'[b] = [miner |-> m, created |-> now, status |-> "pending"]
  BY <1>1, <1>2, StoreFacts, ZenonT(60)
<1>4. now' \in Nat /\ now' >= now
  BY <1>2, <1>3 DEF Tables
<1>5. Confirmed' = Confirmed /\ Confirmed \subseteq DOMAIN blocks
  <2>1. \A b \in DOMAIN blocks' : b \notin DOMAIN blocks => blocks'[b].status # "confirmed"
    BY <1>3
  <2> QED
    BY <1>3, <2>1, Zenon DEF Confirmed
<1>6. Pending \subseteq Pending'
  BY <1>3, Zenon DEF Pending
<1>7. \A b \in Pending' : b \in Pending \/ (b \notin DOMAIN blocks /\ blocks'[b].created = now
                                                                 /\ blocks'[b].miner = m)
  BY <1>3 DEF Pending
<1>8. UNCHANGED <<scheme, run, stopping, failure, task, block, before, inclusive, page, row,
                  done, acc, remaining, scores, rewards, cutoff, counted>>
  BY DEF StoreShare, locals, pageVars, sumVars
<1> QED
  BY <1>3, <1>4, <1>5, <1>6, <1>7, <1>8 DEF Stores

\* A block as recent as the clock was found with a share of that time, still a row.
LEMMA Twin ==
    ASSUME Tables, TimeInv, DeletedInv, NEW b \in DOMAIN blocks, now <= blocks[b].created
    PROVE  \E s \in DOMAIN archive : /\ Created(s) = now /\ blocks[b].created = now
                                     /\ scheme # "SOLO" => s \in shares
<1>1. blocks[b].created = now
  BY BlockFacts DEF Tables, TimeInv
<1>2. PICK s \in DOMAIN archive : Created(s) = blocks[b].created
  BY DEF TimeInv
<1>3. scheme # "SOLO" => s \in shares
  <2>1. SUFFICES ASSUME scheme # "SOLO", s \notin shares PROVE FALSE
    OBVIOUS
  <2>2. now < now
    BY <1>1, <1>2, <2>1 DEF DeletedInv
  <2> QED
    BY <2>2 DEF Tables
<1> QED
  BY <1>1, <1>2, <1>3

\* A share is stored.
LEMMA ScanStore ==
    ASSUME ShapeInv, TimeInv, DeletedInv, OutcomeInv, ScanInv, OnlyTiesAreMissed,
           NEW m \in Miners, NEW score \in Scores, NEW isBlock \in BOOLEAN,
           StoreShare(m, score, isBlock)
    PROVE  DeletedInv' /\ OutcomeInv' /\ ScanInv' /\ OnlyTiesAreMissed'
<1>t. Tables /\ Control /\ Locals
  BY DEF ShapeInv
<1>p. PICK n : Stores(n, m, score)
  BY StoreNew
<1>0. /\ DOMAIN archive' = DOMAIN archive \cup {n} /\ n \notin DOMAIN archive
      /\ shares' = shares \cup {n}
      /\ archive'[n] = [miner |-> m, created |-> now, score |-> score]
      /\ \A s \in DOMAIN archive : archive'[s] = archive[s]
      /\ now' \in Nat /\ now' >= now
      /\ Confirmed' = Confirmed /\ Confirmed \subseteq DOMAIN blocks
      /\ DOMAIN blocks \subseteq DOMAIN blocks'
      /\ \A b \in DOMAIN blocks : blocks'[b] = blocks[b] /\ outcome'[b] = outcome[b]
      /\ UNCHANGED <<scheme, task, block, before, inclusive, page, row, done, cutoff, counted>>
  BY <1>p DEF Stores
<1>1. Created(n)' = now
  BY <1>0 DEF Created
<1>2. \A s \in DOMAIN archive : Created(s)' = Created(s) /\ Created(s) \in Nat /\ Created(s) <= now
  BY <1>0, <1>t, ScorePositive DEF Created, TimeInv
<1>3. now \in Nat /\ shares \subseteq DOMAIN archive /\ counted \subseteq DOMAIN archive
  BY <1>t DEF Tables, Locals
<1>4. DeletedInv'
  <2>1. SUFFICES ASSUME scheme # "SOLO", NEW s \in DOMAIN archive', s \notin shares'
                 PROVE  Created(s)' < now' /\ \A t \in shares' : Created(s)' < Created(t)'
    BY <1>0 DEF DeletedInv
  <2>2. s \in DOMAIN archive /\ s \notin shares
    BY <1>0, <2>1
  <2>3. Created(s) < now /\ (\A t \in shares : Created(s) < Created(t)) /\ Created(s)' = Created(s)
    BY <1>2, <2>1, <2>2 DEF DeletedInv
  <2>4. Created(s)' < now'
    BY <1>0, <1>2, <1>3, <2>2, <2>3
  <2>5. ASSUME NEW t \in shares' PROVE Created(s)' < Created(t)'
    <3>1. CASE t = n
      BY <1>1, <2>3, <3>1
    <3>2. CASE t \in shares
      BY <1>2, <1>3, <2>3, <3>2
    <3> QED
      BY <1>0, <3>1, <3>2
  <2> QED
    BY <2>4, <2>5
<1>5. OutcomeInv'
  BY <1>0 DEF OutcomeInv
<1>6. ASSUME NEW b \in DOMAIN blocks, NEW s \in UpTo(b)'
      PROVE  \E t \in UpTo(b) : Created(t) = Created(s)' /\ (s = n => (scheme # "SOLO" => t \in shares))
                                /\ (s # n => t = s)
  <2>1. s \in DOMAIN archive' /\ Created(s)' <= blocks[b].created
    BY <1>0, <1>6 DEF UpTo
  <2>2. CASE s = n
    <3>1. now <= blocks[b].created
      BY <1>1, <2>1, <2>2
    <3>2. PICK t \in DOMAIN archive : Created(t) = now /\ blocks[b].created = now
                                      /\ (scheme # "SOLO" => t \in shares)
      BY <1>t, <3>1, Twin
    <3>3. t \in UpTo(b) /\ Created(t) = Created(s)'
      BY <1>1, <1>3, <2>2, <3>2 DEF UpTo
    <3> QED
      BY <2>2, <3>2, <3>3
  <2>3. CASE s # n
    <3>1. s \in DOMAIN archive /\ Created(s)' = Created(s)
      BY <1>0, <1>2, <2>1, <2>3
    <3>2. s \in UpTo(b)
      BY <2>1, <3>1 DEF UpTo
    <3> QED
      BY <2>3, <3>1, <3>2
  <2> QED
    BY <2>2, <2>3
<1>7. OnlyTiesAreMissed'
  <2>1. SUFFICES ASSUME NEW b \in Confirmed, NEW t \in outcome[b].counted, NEW s \in UpTo(b)',
                        Created(s)' > Created(t)'
                 PROVE  \E u \in outcome[b].counted : Created(u)' = Created(s)'
    BY <1>0 DEF OnlyTiesAreMissed
  <2>2. outcome[b].counted \subseteq DOMAIN archive /\ b \in DOMAIN blocks
    BY <1>0 DEF OutcomeInv
  <2>3. PICK r \in UpTo(b) : Created(r) = Created(s)'
    BY <1>6, <2>2
  <2>4. Created(r) > Created(t)
    BY <1>2, <2>1, <2>2, <2>3
  <2>5. PICK u \in outcome[b].counted : Created(u) = Created(r)
    BY <2>4 DEF OnlyTiesAreMissed
  <2>6. Created(u)' = Created(s)'
    BY <1>2, <2>2, <2>3, <2>5
  <2> QED
    BY <2>6
<1>8. ScanInv'
  <2> SUFFICES ASSUME Scanning' PROVE ScanInv'
    BY DEF ScanInv
  <2>1. Scanning /\ NoGaps /\ block \in DOMAIN blocks /\ blocks'[block] = blocks[block] /\ block' = block
    <3>1. scheme # "SOLO" /\ task # "idle"
      BY <1>0 DEF Scanning
    <3>2. block \in DOMAIN blocks
      BY <1>t, <3>1 DEF Control, IsNextBlock, Pending
    <3> QED
      BY <1>0, <3>1, <3>2 DEF Scanning, ScanInv
  <2>2. counted \subseteq Rows /\ Rows \subseteq shares
    BY <2>1 DEF NoGaps, Rows
  <2>3. Rows \subseteq Rows' /\ \A s \in Rows' : \E t \in Rows : Created(t) = Created(s)'
    <3>1. Rows \subseteq Rows'
      BY <1>0, <1>2, <1>3, <2>1 DEF Rows
    <3>2. ASSUME NEW s \in Rows' PROVE \E t \in Rows : Created(t) = Created(s)'
      <4>b. PICK b \in DOMAIN blocks : b = block
        BY <2>1
      <4>1. s \in shares' /\ s \in UpTo(b)'
        BY <1>0, <1>3, <2>1, <3>2, <4>b DEF Rows, UpTo
      <4>2. PICK t \in UpTo(b) : Created(t) = Created(s)' /\ (s = n => (scheme # "SOLO" => t \in shares))
                                 /\ (s # n => t = s)
        BY <1>6, <4>1
      <4>3. t \in shares
        BY <1>0, <2>1, <4>1, <4>2 DEF Scanning
      <4> QED
        BY <4>b, <4>2, <4>3 DEF Rows, UpTo
    <3> QED
      BY <3>1, <3>2
  <2>4. \A s \in DOMAIN archive' : Seen(s)' <=> \E u \in counted : Created(u) = Created(s)'
    BY <1>0, <1>2, <1>3 DEF Seen
  <2>5. /\ \A s \in DOMAIN archive : Seen(s)' <=> Seen(s)
        /\ \A s \in Rows' : \E t \in Rows : Created(t) = Created(s)' /\ (Seen(s)' <=> Seen(t))
    BY <1>0, <1>2, <1>3, <2>2, <2>3 DEF Seen
  <2>6. NoGaps'
    <3>1. counted' \subseteq Rows'
      BY <1>0, <2>2, <2>3
    <3>2. ASSUME NEW t \in counted', NEW s \in UpTo(block)', Created(s)' > Created(t)'
          PROVE  Seen(s)'
      <4>b. PICK b \in DOMAIN blocks : b = block
        BY <2>1
      <4>1. s \in UpTo(b)' /\ t \in counted
        BY <1>0, <3>2, <4>b DEF UpTo
      <4>2. PICK r \in UpTo(b) : Created(r) = Created(s)'
        BY <1>6, <4>1
      <4>3. Created(r) > Created(t)
        BY <1>2, <1>3, <3>2, <4>1, <4>2
      <4>4. Seen(r)
        BY <2>1, <4>1, <4>3, <4>b DEF NoGaps
      <4>5. PICK u \in counted : Created(u) = Created(r)
        BY <4>4 DEF Seen
      <4>6. Created(u)' = Created(s)' /\ u \in counted'
        BY <1>0, <1>2, <1>3, <4>2, <4>5
      <4> QED
        BY <4>6 DEF Seen
    <3>3. cutoff' # 0 => \E s \in counted' : cutoff' = Created(s)'
      BY <1>0, <1>2, <1>3, <2>1 DEF NoGaps
    <3> QED
      BY <3>1, <3>2, <3>3 DEF NoGaps
  <2>7. ASSUME task = "loop", ~done PROVE LoopInv'
    <3>1. LoopInv
      BY <2>1, <2>7 DEF ScanInv
    <3>2. \A s \in Rows' : Seen(s)' \/ Created(s)' < before' \/ (inclusive' = TRUE /\ Created(s)' = before')
      BY <1>0, <2>5, <3>1 DEF LoopInv
    <3>3. \A u \in counted' : inclusive' = FALSE /\ Created(u)' >= before'
      BY <1>0, <1>2, <1>3, <3>1 DEF LoopInv
    <3>4. before' <= blocks'[block'].created
      BY <1>0, <2>1, <3>1 DEF LoopInv
    <3> QED
      BY <3>2, <3>3, <3>4 DEF LoopInv
  <2>8. ASSUME task = "rows" PROVE PageInv'
    <3>1. PageInv
      BY <2>1, <2>8 DEF ScanInv
    <3>2. \A i \in 1..Len(page) : page[i] \in Rows' /\ page[i] \in DOMAIN archive
      BY <1>3, <2>2, <2>3, <3>1 DEF PageInv
    <3>3. \A i \in 1..Len(page) : Created(page[i])' = Created(page[i])
      BY <1>0, <1>2, <3>2 DEF Created
    <3> QED
      BY <1>0, <3>1, <3>2, <3>3 DEF PageInv
  <2>9. ASSUME task = "rows", ~done PROVE RestInv'
    <3>1. PageInv /\ RestInv
      BY <2>1, <2>9 DEF ScanInv
    <3>2. \A i \in 1..Len(page) : page[i] \in DOMAIN archive
      BY <1>3, <2>2, <3>1 DEF PageInv
    <3>3. \A i \in 1..Len(page) : Created(page[i])' = Created(page[i])
      BY <1>0, <1>2, <3>2 DEF Created
    <3>4. \A i \in 1..Len(page') : row' <= i => page'[i] \notin counted'
      BY <1>0, <3>1 DEF RestInv
    <3>5. \A u \in counted', i \in 1..Len(page') :
             Created(u)' >= Created(page[i])' \/ \E j \in 1..Len(page') : j < row' /\ u = page'[j]
      BY <1>0, <1>2, <1>3, <3>1, <3>3 DEF RestInv
    <3>6. ASSUME NEW s \in Rows'
          PROVE  \/ Seen(s)'
                 \/ \E j \in 1..Len(page) : row <= j /\ Created(page[j]) = Created(s)'
                 \/ Len(page) = PageSize /\ \A j \in 1..Len(page) : Created(s)' <= Created(page[j])
      <4>1. PICK t \in Rows : Created(t) = Created(s)' /\ (Seen(s)' <=> Seen(t))
        BY <2>5
      <4> QED
        BY <3>1, <4>1 DEF RestInv
    <3>7. \A s \in Rows' : \/ Seen(s)'
                           \/ \E j \in 1..Len(page') : row' <= j /\ Created(page[j])' = Created(s)'
                           \/ Len(page') = PageSize /\ \A j \in 1..Len(page') : Created(s)' <= Created(page[j])'
      <4>1. page' = page /\ row' = row
        BY <1>0
      <4> QED
        BY <3>3, <3>6, <4>1
    <3> QED
      BY <3>4, <3>5, <3>7 DEF RestInv
  <2>10. scheme' = "PROP" /\ done' => task' = "write"
    BY <1>0, <2>1 DEF ScanInv
  <2> QED
    BY <1>0, <2>6, <2>7, <2>8, <2>9, <2>10 DEF ScanInv
<1> QED
  BY <1>4, <1>5, <1>7, <1>8

-----------------------------------------------------------------------------
(* The steps of the scan. *)

\* The tables the scan depends on stay.
Still == UNCHANGED <<scheme, now, archive, shares, blocks, outcome, block>>

\* While the tables stay, so do the rows, and what is counted stays represented.
LEMMA StillFacts ==
    ASSUME Still
    PROVE  /\ Rows' = Rows
           /\ \A s : Created(s)' = Created(s)
           /\ \A s : Seen(s)' <=> \E u \in counted' : Created(u) = Created(s)
           /\ \A b : UpTo(b)' = UpTo(b)
           /\ UpTo(block)' = UpTo(block)
           /\ blocks'[block'].created = blocks[block].created
           /\ Scanning' <=> scheme # "SOLO" /\ task' # "idle"
  BY DEF Still, Rows, Created, Seen, UpTo, Scanning

\* The loop is entered.
LEMMA ScanBegin ==
    ASSUME ShapeInv, NEW b \in DOMAIN blocks, BeginBlock(b)
    PROVE  ScanInv'
<1>1. /\ UNCHANGED <<scheme, now, archive, shares, blocks, outcome>> /\ block' = b /\ task = "idle"
      /\ task' = "loop" /\ before' = blocks[b].created /\ inclusive' = TRUE
      /\ UNCHANGED <<done, cutoff, counted>>
  BY DEF BeginBlock, Start, tables
<1>2. counted' = {} /\ cutoff' = 0 /\ done' = FALSE
  BY <1>1 DEF ShapeInv, Idle
<1>3. NoGaps'
  BY <1>2 DEF NoGaps
<1>4. LoopInv'
  <2>1. before' \in Nat /\ before' = blocks'[block'].created
    BY <1>1, BlockFacts DEF ShapeInv
  <2>2. \A s \in Rows' : Created(s)' \in Nat /\ Created(s)' <= before'
    BY <1>1, <2>1, ScorePositive DEF ShapeInv, Tables, Rows, Created
  <2>3. \A s \in Rows' : Created(s)' < before' \/ Created(s)' = before'
    BY <2>1, <2>2
  <2> QED
    BY <1>1, <1>2, <2>1, <2>3 DEF LoopInv
<1> QED
  BY <1>1, <1>2, <1>3, <1>4 DEF ScanInv

\* A page is read.
LEMMA ScanRead ==
    ASSUME ShapeInv, ScanInv, ReadPage
    PROVE  ScanInv'
<1>t. Tables /\ Locals
  BY DEF ShapeInv
<1>1. /\ Still /\ task = "loop" /\ ~done /\ inclusive' = FALSE /\ row' = 1 /\ task' = "rows"
      /\ UNCHANGED <<done, cutoff, counted>>
  BY DEF ReadPage, Still, tables, sumVars
<1>2. Scanning /\ NoGaps /\ LoopInv
  BY <1>1, <1>t DEF Locals, ScanInv, Scanning
<1>3. PICK n \in 0..PageSize : \E p \in [1..n -> Found] : IsPage(p) /\ page' = p
  BY DEF ReadPage
<1>4. PICK p \in [1..n -> Found] : IsPage(p) /\ page' = p
  BY <1>3
<1>5. Len(p) = n /\ DOMAIN p = 1..Len(p) /\ n <= PageSize /\ n \in Nat /\ PageSize \in Nat
  BY <1>3, <1>4, NumbersAssumption
<1>6. /\ \A i, j \in 1..Len(p) : i < j => p[i] # p[j] /\ Created(p[i]) >= Created(p[j])
      /\ Len(p) = PageSize \/ Range(p) = Found
      /\ \A s \in Found \ Range(p), i \in 1..Len(p) : Created(s) <= Created(p[i])
  BY <1>4, <1>5 DEF IsPage
<1>7. \A i \in 1..Len(p) : p[i] \in Found
  BY <1>4, <1>5
<1>8. \A s \in Range(p) : \E j \in 1..Len(p) : p[j] = s
  BY <1>5 DEF Range
<1>9. /\ before \in Nat /\ blocks[block].created \in Int /\ counted \subseteq shares
      /\ \A s \in shares : Created(s) \in Int
  <2>1. block \in DOMAIN blocks
    BY <1>1 DEF ShapeInv, Control, IsNextBlock, Pending
  <2>2. blocks[block].created \in Nat
    BY <1>t, <2>1, BlockFacts
  <2>3. \A s \in shares : Created(s) \in Nat
    BY <1>t, ScorePositive DEF Tables, Created
  <2> QED
    BY <1>t, <1>2, <2>2, <2>3 DEF Locals, NoGaps, Rows
<1>10. \A s \in Found : s \in Rows /\ s \in shares /\ Created(s) <= before
       /\ (Created(s) < before \/ (inclusive /\ Created(s) = before))
  BY <1>2, <1>9 DEF Found, Rows, LoopInv
<1>s. /\ Rows' = Rows /\ \A s : Created(s)' = Created(s)
      /\ \A s : Seen(s)' <=> Seen(s)
      /\ UpTo(block)' = UpTo(block)
  BY <1>1, StillFacts, Zenon DEF Seen
<1>11. NoGaps'
  BY <1>1, <1>2, <1>s DEF NoGaps
<1>12. PageInv'
  <2>1. \A i \in 1..Len(p) : p[i] \in Rows
    BY <1>7, <1>10
  <2>2. row' <= Len(page') + 1 /\ Len(page') <= PageSize
    BY <1>1, <1>4, <1>5
  <2>3. \A i \in 1..Len(page') : ~(i < row')
    BY <1>1, <1>4, <1>5
  <2>4. \A i, j \in 1..Len(p) : i < j => p[i] # p[j] /\ Created(p[i])' >= Created(p[j])'
    BY <1>1, <1>6 DEF Still, Created
  <2> QED
    BY <1>1, <1>4, <1>s, <2>1, <2>2, <2>3, <2>4, Zenon DEF PageInv
<1>13. RestInv'
  <2>1. \A i \in 1..Len(p) : p[i] \notin counted
    <3>1. SUFFICES ASSUME NEW i \in 1..Len(p), p[i] \in counted PROVE FALSE
      OBVIOUS
    <3>2. inclusive = FALSE /\ Created(p[i]) >= before
      BY <1>2, <3>1 DEF LoopInv
    <3>3. Created(p[i]) < before /\ Created(p[i]) \in Int
      BY <1>7, <1>9, <1>10, <3>2
    <3> QED
      BY <1>9, <3>2, <3>3
  <2>2. \A u \in counted, i \in 1..Len(p) : Created(u) >= Created(p[i])
    <3>1. ASSUME NEW u \in counted, NEW i \in 1..Len(p) PROVE Created(u) >= Created(p[i])
      <4>1. Created(u) >= before /\ Created(p[i]) <= before
        BY <1>2, <1>7, <1>10 DEF LoopInv
      <4>2. Created(u) \in Int /\ Created(p[i]) \in Int
        BY <1>7, <1>9, <1>10
      <4> QED
        BY <1>9, <4>1, <4>2
    <3> QED
      BY <3>1
  <2>3. ASSUME NEW s \in Rows
        PROVE  \/ Seen(s)
               \/ \E j \in 1..Len(p) : 1 <= j /\ Created(p[j]) = Created(s)
               \/ Len(p) = PageSize /\ \A j \in 1..Len(p) : Created(s) <= Created(p[j])
    <3>1. CASE Seen(s)
      BY <3>1
    <3>2. CASE ~Seen(s)
      <4>1. s \in Found
        BY <1>2, <3>2 DEF LoopInv, Found, Rows
      <4>2. CASE s \in Range(p)
        <5>1. PICK j \in 1..Len(p) : p[j] = s
          BY <1>8, <4>2
        <5> QED
          BY <1>5, <5>1
      <4>3. CASE s \notin Range(p)
        BY <1>6, <4>1, <4>3
      <4> QED
        BY <4>2, <4>3
    <3> QED
      BY <3>1, <3>2
  <2>4. \A i \in 1..Len(p) : Created(p[i])' = Created(p[i])
    BY <1>1 DEF Still, Created
  <2>5. \A i \in 1..Len(page') : row' <= i => page'[i] \notin counted'
    BY <1>1, <1>4, <2>1
  <2>6. \A u \in counted', i \in 1..Len(page') : Created(u)' >= Created(page'[i])
    BY <1>1, <1>4, <1>s, <2>2
  <2>7. \A s \in Rows' : \/ Seen(s)'
                         \/ \E j \in 1..Len(page') : row' <= j /\ Created(page'[j]) = Created(s)'
                         \/ Len(page') = PageSize /\ \A j \in 1..Len(page') : Created(s)' <= Created(page'[j])
    BY <1>1, <1>4, <1>s, <2>3
  <2>8. \A i \in 1..Len(page') : Created(page[i])' = Created(page'[i])
    BY <1>1 DEF Still, Created
  <2> QED
    BY <2>5, <2>6, <2>7, <2>8 DEF RestInv
<1> QED
  BY <1>1, <1>11, <1>12, <1>13 DEF ScanInv

\* The loop is left.
LEMMA ScanLeave ==
    ASSUME ShapeInv, ScanInv, LeaveLoop \/ LastPage
    PROVE  ScanInv'
<1>1. Still /\ task # "idle" /\ task' = "write" /\ UNCHANGED <<cutoff, counted>>
  BY DEF LeaveLoop, LastPage, Still, tables, sumVars
<1>2. Scanning' => NoGaps
  BY <1>1, StillFacts DEF ScanInv, Scanning
<1>s. /\ Rows' = Rows /\ \A s : Created(s)' = Created(s)
      /\ \A s : Seen(s)' <=> Seen(s)
      /\ UpTo(block)' = UpTo(block)
  BY <1>1, StillFacts, Zenon DEF Seen
<1>3. Scanning' => NoGaps'
  BY <1>1, <1>2, <1>s DEF NoGaps
<1> QED
  BY <1>1, <1>3 DEF ScanInv

\* The next page begins below the last row of this one.
LEMMA ScanNextPage ==
    ASSUME ShapeInv, ScanInv, NextPage
    PROVE  ScanInv'
<1>t. Tables /\ Locals
  BY DEF ShapeInv
<1>1. /\ Still /\ task = "rows" /\ task' = "loop" /\ Len(page) = PageSize /\ ~MoreRows
      /\ before' = Created(page[Len(page)]) /\ UNCHANGED <<inclusive, done, cutoff, counted>>
  BY DEF NextPage, Still, tables, sumVars
<1>2. Scanning /\ NoGaps /\ PageInv /\ (~done => RestInv) /\ (scheme = "PROP" => ~done)
  BY <1>1, <1>t DEF Locals, ScanInv, Scanning
<1>s. /\ Rows' = Rows /\ \A s : Created(s)' = Created(s)
      /\ \A s : Seen(s)' <=> Seen(s)
      /\ UpTo(block)' = UpTo(block)
      /\ blocks'[block'].created = blocks[block].created
  BY <1>1, StillFacts, Zenon DEF Seen
<1>3. NoGaps'
  BY <1>1, <1>2, <1>s DEF NoGaps
<1>4. ASSUME ~done PROVE LoopInv'
  <2> DEFINE z == Len(page)
  <2>1. z \in 1..Len(page) /\ row = z + 1 /\ z \in Nat
    <3>1. z \in Nat /\ z >= 1 /\ row \in Nat /\ row <= z + 1
      BY <1>1, <1>2, <1>t, NumbersAssumption DEF Locals, PageInv
    <3>2. ~(row <= z)
      BY <1>1, <1>4 DEF MoreRows
    <3> QED
      BY <3>1, <3>2
  <2>2. page[z] \in Rows /\ page[z] \in counted /\ before' = Created(page[z])
    BY <1>1, <1>2, <2>1 DEF PageInv
  <2> HIDE DEF z
  <2>3. \A s \in Rows : Created(s) \in Int
    BY <1>t, ScorePositive DEF Tables, Rows, Created
  <2>4. before' <= blocks[block].created
    BY <2>2 DEF Rows
  <2>5. ASSUME NEW s \in Rows PROVE Seen(s) \/ Created(s) < before'
    <3>1. \/ Seen(s)
          \/ \E j \in 1..Len(page) : row <= j /\ Created(page[j]) = Created(s)
          \/ \A j \in 1..Len(page) : Created(s) <= Created(page[j])
      BY <1>2, <1>4 DEF RestInv
    <3>2. ~\E j \in 1..Len(page) : row <= j
      BY <2>1 DEF z
    <3>3. Seen(s) \/ Created(s) <= Created(page[z])
      BY <2>1, <3>1, <3>2
    <3>4. Created(s) = Created(page[z]) => Seen(s)
      BY <2>2 DEF Seen
    <3>5. Created(s) \in Int /\ Created(page[z]) \in Int
      BY <2>2, <2>3
    <3> QED
      BY <2>2, <3>3, <3>4, <3>5
  <2>6. ASSUME NEW u \in counted PROVE inclusive = FALSE /\ Created(u) >= before'
    <3>1. Created(u) >= Created(page[z]) \/ \E j \in 1..Len(page) : j < row /\ u = page[j]
      BY <1>2, <1>4, <2>1 DEF RestInv
    <3>2. ASSUME NEW j \in 1..Len(page), u = page[j] PROVE Created(u) >= Created(page[z])
      <4>1. CASE j = z
        BY <2>2, <2>3, <3>2, <4>1
      <4>2. CASE j # z
        <5>1. j < z
          BY <2>1, <4>2 DEF z
        <5> QED
          BY <1>2, <2>1, <3>2, <5>1 DEF PageInv
      <4> QED
        BY <4>1, <4>2
    <3> QED
      BY <1>2, <2>2, <3>1, <3>2 DEF PageInv
  <2> QED
    BY <1>1, <1>s, <2>4, <2>5, <2>6 DEF LoopInv
<1> QED
  BY <1>1, <1>2, <1>3, <1>4 DEF ScanInv, Still

\* What is newer than the row the scan is at has been represented.
LEMMA SeenNewer ==
    ASSUME ShapeInv, DeletedInv, ScanInv, task = "rows", MoreRows,
           NEW s \in UpTo(block), Created(s) > Created(page[row])
    PROVE  Seen(s)
<1>t. Tables /\ Locals
  BY DEF ShapeInv
<1>0. PICK t : t = page[row]
  OBVIOUS
<1>1. row \in 1..Len(page) /\ ~done /\ row \in Nat
  BY <1>t DEF MoreRows, Locals
<1>2. Scanning /\ PageInv /\ RestInv
  BY <1>1, <1>t DEF Locals, ScanInv, Scanning
<1>3. t \in shares /\ t \in DOMAIN archive /\ s \in DOMAIN archive
  BY <1>0, <1>1, <1>2, <1>t DEF PageInv, Rows, Tables, UpTo
<1>4. Created(s) \in Int /\ Created(t) \in Int /\ Created(s) > Created(t)
  BY <1>0, <1>3, <1>t, ScorePositive DEF Created
<1>5. s \in shares
  <2>1. SUFFICES ASSUME s \notin shares PROVE FALSE
    OBVIOUS
  <2>2. Created(s) < Created(t)
    BY <1>2, <1>3, <2>1 DEF DeletedInv, Scanning
  <2> QED
    BY <1>4, <2>2
<1>6. s \in Rows
  BY <1>5 DEF Rows, UpTo
<1>7. \/ Seen(s)
      \/ \E j \in 1..Len(page) : row <= j /\ Created(page[j]) = Created(s)
      \/ \A j \in 1..Len(page) : Created(s) <= Created(page[j])
  BY <1>2, <1>6 DEF RestInv
<1>8. ASSUME NEW j \in 1..Len(page), row <= j, Created(page[j]) = Created(s) PROVE FALSE
  <2>1. CASE j = row
    BY <1>0, <1>4, <1>8, <2>1
  <2>2. CASE j # row
    <3>1. row < j
      BY <1>1, <1>8, <2>2
    <3>2. Created(t) >= Created(page[j])
      BY <1>0, <1>1, <1>2, <3>1 DEF PageInv
    <3> QED
      BY <1>4, <1>8, <3>2
  <2> QED
    BY <2>1, <2>2
<1>9. ~(Created(s) <= Created(t))
  BY <1>4
<1> QED
  BY <1>0, <1>1, <1>7, <1>8, <1>9

\* A row of the page is counted.
LEMMA ScanCount ==
    ASSUME ShapeInv, TimeInv, DeletedInv, ScanInv, Still, task = "rows", task' = "rows", MoreRows,
           counted' = counted \cup {page[row]}, row' = row + 1, UNCHANGED <<inclusive, page>>,
           cutoff' # 0 => cutoff' = Created(page[row]) \/ (cutoff' = cutoff),
           scheme = "PROP" => done' = done
    PROVE  ScanInv'
<1>t. Tables /\ Locals
  BY DEF ShapeInv
<1>1. row \in 1..Len(page) /\ ~done /\ row \in Nat
  BY <1>t DEF MoreRows, Locals
<1>2. Scanning /\ NoGaps /\ PageInv /\ RestInv
  BY <1>1, <1>t DEF Locals, ScanInv, Scanning
<1>0. PICK t : t = page[row]
  OBVIOUS
<1>3. t \in Rows /\ t \in shares /\ t \notin counted
  BY <1>0, <1>1, <1>2 DEF PageInv, RestInv, Rows
<1>s. /\ Rows' = Rows /\ \A s : Created(s)' = Created(s)
      /\ \A s : Seen(s)' <=> \E u \in counted' : Created(u) = Created(s)
      /\ UpTo(block)' = UpTo(block)
  BY StillFacts, Zenon
<1>4. counted' = counted \cup {t}
  BY <1>0
<1>5. /\ \A s : Seen(s) => Seen(s)'
      /\ \A s : Created(s) = Created(t) => Seen(s)'
  BY <1>4, <1>s DEF Seen
<1>6. \A s \in DOMAIN archive : Created(s) \in Int
  BY <1>t, ScorePositive DEF Created
<1>7. \A s \in shares : s \in DOMAIN archive
  BY <1>t DEF Tables
<1>8. NoGaps'
  <2>1. counted' \subseteq Rows'
    BY <1>2, <1>3, <1>4, <1>s DEF NoGaps
  <2>2. ASSUME NEW s \in UpTo(block), Created(s) > Created(t) PROVE Seen(s)
    BY <1>0, <2>2, SeenNewer
  <2>3. \A r \in counted', s \in UpTo(block)' : Created(s)' > Created(r)' => Seen(s)'
    BY <1>2, <1>4, <1>5, <1>s, <2>2 DEF NoGaps
  <2>4. cutoff' # 0 => \E s \in counted' : cutoff' = Created(s)'
    BY <1>0, <1>2, <1>4, <1>s DEF NoGaps
  <2> QED
    BY <2>1, <2>3, <2>4 DEF NoGaps
<1>9. PageInv'
  <2>1. row' <= Len(page') + 1 /\ Len(page') <= PageSize
    BY <1>1, <1>2 DEF PageInv
  <2>2. \A i \in 1..Len(page') : page'[i] \in Rows'
    BY <1>2, <1>s DEF PageInv
  <2>3. \A i, j \in 1..Len(page') : i < j => page'[i] # page'[j] /\ Created(page[i])' >= Created(page[j])'
    BY <1>2 DEF PageInv, Still, Created
  <2>4. ASSUME NEW i \in 1..Len(page'), i < row' PROVE page'[i] \in counted'
    <3>1. i < row \/ i = row
      BY <1>1, <2>4
    <3> QED
      BY <1>0, <1>2, <1>4, <3>1 DEF PageInv
  <2> QED
    BY <1>2, <2>1, <2>2, <2>3, <2>4 DEF PageInv
<1>10. RestInv'
  <2>1. ASSUME NEW i \in 1..Len(page'), row' <= i PROVE page'[i] \notin counted'
    <3>1. row < i /\ row <= i /\ i \in 1..Len(page)
      BY <1>1, <2>1
    <3>2. page[i] \notin counted /\ page[i] # t
      BY <1>0, <1>1, <1>2, <3>1 DEF RestInv, PageInv
    <3> QED
      BY <1>4, <3>2
  <2>2. ASSUME NEW u \in counted', NEW i \in 1..Len(page')
        PROVE  Created(u) >= Created(page[i]) \/ \E j \in 1..Len(page') : j < row' /\ u = page'[j]
    <3>1. CASE u = t
      BY <1>0, <1>1, <3>1
    <3>2. CASE u \in counted
      <4>1. Created(u) >= Created(page[i]) \/ \E j \in 1..Len(page) : j < row /\ u = page[j]
        BY <1>2, <3>2 DEF RestInv
      <4>2. \A j \in 1..Len(page) : j < row => j < row'
        BY <1>1
      <4> QED
        BY <4>1, <4>2
    <3> QED
      BY <1>4, <3>1, <3>2
  <2>3. ASSUME NEW s \in Rows
        PROVE  \/ Seen(s)'
               \/ \E j \in 1..Len(page) : row' <= j /\ Created(page[j]) = Created(s)
               \/ Len(page) = PageSize /\ \A j \in 1..Len(page) : Created(s) <= Created(page[j])
    <3>1. \/ Seen(s)
          \/ \E j \in 1..Len(page) : row <= j /\ Created(page[j]) = Created(s)
          \/ Len(page) = PageSize /\ \A j \in 1..Len(page) : Created(s) <= Created(page[j])
      BY <1>2 DEF RestInv
    <3>2. \A j \in 1..Len(page) : row <= j => j = row \/ row' <= j
      BY <1>1
    <3>3. Created(page[row]) = Created(s) => Seen(s)'
      BY <1>0, <1>5
    <3> QED
      BY <1>5, <3>1, <3>2, <3>3
  <2>4. \A i \in 1..Len(page) : Created(page[i])' = Created(page[i])
    BY DEF Still, Created
  <2> QED
    BY <1>s, <2>1, <2>2, <2>3, <2>4 DEF RestInv
<1> QED
  BY <1>1, <1>2, <1>8, <1>9, <1>10 DEF ScanInv, Still

\* A block is confirmed and the discarded rows are deleted: they are older than a
\* counted row.
LEMMA ScanWrite ==
    ASSUME ShapeInv, TimeInv, DeletedInv, OutcomeInv, ScanInv, OnlyTiesAreMissed, Write
    PROVE  TimeInv' /\ DeletedInv' /\ OutcomeInv' /\ ScanInv' /\ OnlyTiesAreMissed'
<1>t. Tables /\ Control /\ Locals
  BY DEF ShapeInv
<1>0. PICK b : b = block
  OBVIOUS
<1>1. /\ task = "write" /\ b \in DOMAIN blocks /\ DOMAIN blocks' = DOMAIN blocks
      /\ \A c \in DOMAIN blocks : /\ blocks'[c].created = blocks[c].created
                                  /\ blocks'[c].miner = blocks[c].miner
      /\ Confirmed' = Confirmed \cup {b} /\ Confirmed \subseteq DOMAIN blocks
      /\ outcome'[b] = [rewards |-> FinalRewards, counted |-> counted]
      /\ \A c \in DOMAIN blocks : c # b => outcome'[c] = outcome[c]
      /\ shares' = shares \ Discarded
      /\ UNCHANGED <<scheme, now, archive>>
  BY <1>0, WriteFacts
<1>2. task' = "idle"
  BY DEF Write, Commit, EndTask
<1>3. /\ \A s : Created(s)' = Created(s)
      /\ \A c \in DOMAIN blocks : UpTo(c)' = UpTo(c)
  BY <1>1 DEF Created, UpTo
<1>4. scheme # "SOLO" => NoGaps
  BY <1>1 DEF ScanInv, Scanning
<1>5. /\ \A s \in DOMAIN archive : Created(s) \in Int /\ Created(s) <= now
      /\ shares \subseteq DOMAIN archive /\ counted \subseteq DOMAIN archive /\ now \in Int
  BY <1>t, ScorePositive DEF TimeInv, Tables, Locals, Created
<1>6. TimeInv'
  BY <1>1, <1>3 DEF TimeInv
<1>7. DeletedInv'
  <2>1. SUFFICES ASSUME scheme # "SOLO", NEW s \in DOMAIN archive, s \notin shares'
                 PROVE  Created(s) < now /\ \A t \in shares' : Created(s) < Created(t)
    BY <1>1, <1>3 DEF DeletedInv
  <2>2. CASE s \notin shares
    BY <1>1, <2>1, <2>2 DEF DeletedInv
  <2>3. CASE s \in shares
    <3>1. s \in Discarded
      BY <1>1, <2>1, <2>3
    <3>2. cutoff # 0 /\ Discarded = SharesBefore
      BY <2>1, <3>1 DEF Discarded
    <3>3. Created(s) < cutoff /\ \A t \in shares' : ~(Created(t) < cutoff)
      BY <1>1, <3>1, <3>2 DEF SharesBefore
    <3>4. PICK u \in counted : cutoff = Created(u)
      BY <1>4, <2>1, <3>2 DEF NoGaps
    <3>5. Created(u) \in Int /\ Created(u) <= now
      BY <1>5, <3>4
    <3>6. Created(s) < now
      BY <1>5, <3>3, <3>4, <3>5
    <3>7. ASSUME NEW t \in shares' PROVE Created(s) < Created(t)
      <4>1. Created(t) \in Int /\ Created(s) \in Int
        BY <1>1, <1>5, <3>7
      <4> QED
        BY <3>3, <3>4, <3>5, <4>1
    <3> QED
      BY <3>6, <3>7
  <2> QED
    BY <2>2, <2>3
<1>8. OutcomeInv'
  <2>1. ASSUME NEW c \in Confirmed' PROVE outcome'[c].counted \subseteq DOMAIN archive
    BY <1>1, <1>5 DEF OutcomeInv
  <2> QED
    BY <1>1, <2>1 DEF OutcomeInv
<1>9. ASSUME NEW c \in Confirmed', NEW t \in outcome'[c].counted, NEW s \in UpTo(c), Created(s) > Created(t)
      PROVE  \E u \in outcome'[c].counted : Created(u) = Created(s)
  <2>1. CASE c = b
    <3>1. outcome'[c].counted = counted
      BY <1>1, <2>1
    <3>2. scheme # "SOLO"
      BY <1>9, <1>t, <3>1 DEF Locals
    <3>3. Seen(s)
      BY <1>0, <1>4, <1>9, <2>1, <3>1, <3>2 DEF NoGaps
    <3> QED
      BY <3>1, <3>3 DEF Seen
  <2>2. CASE c # b
    BY <1>1, <1>9, <2>2 DEF OnlyTiesAreMissed
  <2> QED
    BY <2>1, <2>2
<1>10. OnlyTiesAreMissed'
  BY <1>1, <1>3, <1>9 DEF OnlyTiesAreMissed
<1> QED
  BY <1>2, <1>6, <1>7, <1>8, <1>10 DEF ScanInv, Scanning

-----------------------------------------------------------------------------
(* Every step. *)

\* A block that is orphaned changes nothing the scan depends on: no run is under way.
LEMMA ScanOrphan ==
    ASSUME ShapeInv, TimeInv, DeletedInv, OutcomeInv, OnlyTiesAreMissed,
           NEW b \in DOMAIN blocks, OrphanBlock(b)
    PROVE  TimeInv' /\ DeletedInv' /\ OutcomeInv' /\ ScanInv' /\ OnlyTiesAreMissed'
<1>1. /\ run = {} /\ b \in Pending /\ blocks' = [blocks EXCEPT ![b].status = "orphaned"]
      /\ UNCHANGED <<scheme, now, archive, shares, outcome, task, block>>
  BY DEF OrphanBlock, locals
<1>2. /\ DOMAIN blocks' = DOMAIN blocks
      /\ \A c \in DOMAIN blocks : /\ blocks'[c].created = blocks[c].created
                                  /\ blocks'[c].miner = blocks[c].miner
      /\ \A c \in DOMAIN blocks : c # b => blocks'[c].status = blocks[c].status
      /\ blocks'[b].status = "orphaned"
  BY <1>1, StatusUpdate DEF ShapeInv, Tables
<1>3. Confirmed' = Confirmed /\ Confirmed \subseteq DOMAIN blocks
  BY <1>1, <1>2 DEF Confirmed, Pending
<1>4. task' = "idle"
  BY <1>1 DEF ShapeInv, Control, IsNextBlock
<1>5. /\ \A s : Created(s)' = Created(s)
      /\ \A c \in DOMAIN blocks : UpTo(c)' = UpTo(c)
  BY <1>1, <1>2 DEF Created, UpTo
<1>6. TimeInv'
  BY <1>1, <1>2, <1>5 DEF TimeInv
<1>7. DeletedInv' /\ OutcomeInv'
  BY <1>1, <1>3, <1>5 DEF DeletedInv, OutcomeInv
<1>8. OnlyTiesAreMissed'
  BY <1>1, <1>3, <1>5 DEF OnlyTiesAreMissed
<1> QED
  BY <1>4, <1>6, <1>7, <1>8 DEF ScanInv, Scanning

\* The invariant of the table and the scan is kept by every step.
LEMMA ScanNext ==
    ASSUME ShapeInv, TimeInv, DeletedInv, OutcomeInv, ScanInv, OnlyTiesAreMissed, [Next]_vars
    PROVE  TimeInv' /\ DeletedInv' /\ OutcomeInv' /\ ScanInv' /\ OnlyTiesAreMissed'
<1> DEFINE Goal == TimeInv' /\ DeletedInv' /\ OutcomeInv' /\ ScanInv' /\ OnlyTiesAreMissed'
<1>t. Tables /\ Locals
  BY DEF ShapeInv
<1>u. UNCHANGED tables => TimeInv' /\ DeletedInv' /\ OutcomeInv' /\ OnlyTiesAreMissed'
  BY DEF tables, TimeInv, DeletedInv, OutcomeInv, OnlyTiesAreMissed, Confirmed, Created, UpTo
<1>v. UNCHANGED <<tables, locals>> => ScanInv'
  BY DEF tables, locals, pageVars, sumVars, ScanInv, Scanning, NoGaps, LoopInv, PageInv, RestInv,
         Rows, Seen, Created, UpTo
<1>1. ASSUME NEW m \in Miners, NEW score \in Scores, NEW isBlock \in BOOLEAN,
             StoreShare(m, score, isBlock)
      PROVE  Goal
  BY <1>1, <1>t, TimeStore, ScanStore, ZenonT(30)
<1>2. CASE \E S \in SUBSET Pending : StartRun(S)
  <2>1. UNCHANGED <<tables, locals>>
    BY <1>2 DEF StartRun
  <2> QED
    BY <1>u, <1>v, <2>1
<1>3. ASSUME NEW b \in DOMAIN blocks, OrphanBlock(b) PROVE Goal
  BY <1>3, ScanOrphan, ZenonT(30)
<1>4. ASSUME NEW b \in DOMAIN blocks, BeginBlock(b) PROVE Goal
  <2>1. UNCHANGED tables
    BY <1>4 DEF BeginBlock
  <2> QED
    BY <1>4, <1>u, <2>1, ScanBegin, ZenonT(30)
<1>5. ASSUME NEW b \in DOMAIN blocks, BeginSolo(b) PROVE Goal
  <2>1. UNCHANGED tables /\ scheme' = "SOLO"
    BY <1>5 DEF BeginSolo, tables
  <2> QED
    BY <1>u, <2>1 DEF ScanInv, Scanning
<1>6. CASE ReadPage
  <2>1. UNCHANGED tables
    BY <1>6 DEF ReadPage
  <2> QED
    BY <1>6, <1>u, <2>1, ScanRead, ZenonT(30)
<1>7. CASE LeaveLoop \/ LastPage
  <2>1. UNCHANGED tables
    BY <1>7 DEF LeaveLoop, LastPage
  <2> QED
    BY <1>7, <1>u, <2>1, ScanLeave, ZenonT(30)
<1>8. CASE NextPage
  <2>1. UNCHANGED tables
    BY <1>8 DEF NextPage
  <2> QED
    BY <1>8, <1>u, <2>1, ScanNextPage, ZenonT(30)
<1>9. CASE CountPPLNS
  <2>1. /\ UNCHANGED tables /\ Still /\ task = "rows" /\ task' = "rows" /\ MoreRows
        /\ counted' = counted \cup {page[row]} /\ row' = row + 1 /\ UNCHANGED <<inclusive, page>>
        /\ (cutoff' # 0 => cutoff' = Created(page[row]) \/ cutoff' = cutoff)
        /\ (scheme = "PROP" => done' = done)
    BY <1>9 DEF CountPPLNS, Still, tables, PPLNS
  <2>2. ScanInv'
    BY <2>1, ScanCount, ZenonT(30)
  <2> QED
    BY <1>u, <2>1, <2>2
<1>10. CASE CountPROP
  <2>1. /\ UNCHANGED tables /\ Still /\ task = "rows" /\ task' = "rows" /\ MoreRows
        /\ counted' = counted \cup {page[row]} /\ row' = row + 1 /\ UNCHANGED <<inclusive, page>>
        /\ (cutoff' # 0 => cutoff' = Created(page[row]) \/ cutoff' = cutoff)
        /\ (scheme = "PROP" => done' = done)
    BY <1>10 DEF CountPROP, Still, tables
  <2>2. ScanInv'
    BY <2>1, ScanCount, ZenonT(30)
  <2> QED
    BY <1>u, <2>1, <2>2
<1>11. CASE Write
  BY <1>11, ScanWrite, ZenonT(30)
<1>12. CASE Aborts
  <2>1. UNCHANGED tables /\ task' = "idle"
    BY <1>12 DEF Aborts, EndTask
  <2> QED
    BY <1>u, <2>1 DEF ScanInv, Scanning
<1>13. CASE Stop \/ UNCHANGED vars
  <2>1. UNCHANGED <<tables, locals>>
    BY <1>13 DEF Stop, vars
  <2> QED
    BY <1>u, <1>v, <2>1
<1> QED
  BY <1>1, <1>2, <1>3, <1>4, <1>5, <1>6, <1>7, <1>8, <1>9, <1>10, <1>11, <1>12, <1>13, Cases, ZenonT(60)

\* What a scan has covered, at every step of the page loop.
ScanAll == ShapeInv /\ TimeInv /\ DeletedInv /\ OutcomeInv /\ ScanInv /\ OnlyTiesAreMissed

\* It is inductive.
LEMMA ScanAllNext == (Init => ScanAll) /\ (ScanAll /\ [Next]_vars => ScanAll')
<1>1. Init => ScanAll
  BY ShapeInit, TimeInit DEF ScanAll
<1>2. ScanAll /\ [Next]_vars => ScanAll'
  BY ShapeNext, ScanNext DEF ScanAll
<1> QED
  BY <1>1, <1>2

\* The invariant of the table and of the scan always holds.
THEOREM ScanInvariance == Spec => []ScanAll
  BY ScanAllNext, PTL DEF Spec

\* Whatever rows tie at the end of a page, are stored while pages are read or were
\* deleted before, a scan misses no moment newer than its oldest counted share
\* (ReadSharesBeforeAsync and the page loop of CalculateRewardsAsync).
THEOREM OnlyTiesMissed == Spec => []OnlyTiesAreMissed
<1>1. ScanAll => OnlyTiesAreMissed
  BY DEF ScanAll
<1> QED
  BY <1>1, ScanInvariance, PTL

-----------------------------------------------------------------------------
(* Rounds of PROP: no share is lost. *)

\* Unless the host is stopped, a scan that was not ended by a full window has counted
\* a share for every row.
CompleteInv ==
    ~MayStop /\ Scanning /\ task = "write" /\ (PPLNS => ~done) => \A s \in Rows : Seen(s)

\* PROP: a deleted row was counted for a confirmed block.
RoundInv ==
    scheme = "PROP" => \A s \in DOMAIN archive : s \notin shares =>
                           \E c \in Confirmed : s \in outcome[c].counted

\* With distinct times a new share is younger than every block there is.
LEMMA NewIsYounger ==
    ASSUME Tables, TimeInv, DistinctTimes, NEW b \in DOMAIN blocks
    PROVE  blocks[b].created < now
<1>1. PICK s \in DOMAIN archive : Created(s) = blocks[b].created
  BY DEF TimeInv
<1> QED
  BY <1>1 DEF TimeInv

\* Which steps change the tables.
LEMMA TableSteps ==
    ASSUME [Next]_vars
    PROVE  \/ \E m \in Miners, score \in Scores, isBlock \in BOOLEAN : StoreShare(m, score, isBlock)
           \/ \E b \in DOMAIN blocks : OrphanBlock(b)
           \/ Write
           \/ UNCHANGED tables
<1>1. ASSUME NEW S \in SUBSET Pending, StartRun(S) PROVE UNCHANGED tables
  BY <1>1 DEF StartRun
<1>2. ASSUME NEW b \in DOMAIN blocks, BeginBlock(b) \/ BeginSolo(b) PROVE UNCHANGED tables
  BY <1>2 DEF BeginBlock, BeginSolo
<1>3. ReadPage \/ LeaveLoop \/ CountPPLNS \/ CountPROP \/ NextPage \/ LastPage => UNCHANGED tables
  BY DEF ReadPage, LeaveLoop, CountPPLNS, CountPROP, NextPage, LastPage
<1>4. Stop \/ Aborts \/ UNCHANGED vars => UNCHANGED tables
  BY DEF Stop, Aborts, vars
<1> QED
  BY <1>1, <1>2, <1>3, <1>4, Cases, ZenonT(30)

\* The loop is left only when the scan is complete.
LEMMA CompleteNext ==
    ASSUME ScanAll, CompleteInv, [Next]_vars
    PROVE  CompleteInv'
<1>t. Tables /\ Control /\ Locals /\ ShapeInv /\ ScanInv
  BY DEF ScanAll, ShapeInv
<1>n. task' # "write" \/ scheme' = "SOLO" => CompleteInv'
  BY DEF CompleteInv, Scanning
<1>u. UNCHANGED <<tables, locals>> => CompleteInv'
  BY DEF tables, locals, sumVars, CompleteInv, Scanning, PPLNS, Rows, Seen, Created
<1>1. ASSUME NEW m \in Miners, NEW score \in Scores, NEW isBlock \in BOOLEAN,
             StoreShare(m, score, isBlock)
      PROVE  CompleteInv'
  <2>1. PICK n : Stores(n, m, score)
    BY <1>1, <1>t, StoreNew
  <2>2. /\ DOMAIN archive' = DOMAIN archive \cup {n} /\ n \notin DOMAIN archive
        /\ shares' = shares \cup {n} /\ archive'[n] = [miner |-> m, created |-> now, score |-> score]
        /\ \A s \in DOMAIN archive : archive'[s] = archive[s]
        /\ \A b \in DOMAIN blocks : blocks'[b] = blocks[b]
        /\ UNCHANGED <<scheme, task, block, done, counted>>
    BY <2>1 DEF Stores
  <2>3. SUFFICES ASSUME ~MayStop, Scanning, task = "write", PPLNS => ~done, NEW s \in Rows'
                 PROVE  Seen(s)'
    BY <2>2 DEF CompleteInv, Scanning, PPLNS
  <2>4. \A r \in Rows : Seen(r)
    BY <2>3 DEF CompleteInv
  <2>5. block \in DOMAIN blocks
    BY <1>t, <2>3 DEF Control, IsNextBlock, Pending
  <2>6. shares \subseteq DOMAIN archive /\ counted \subseteq DOMAIN archive
    BY <1>t DEF Tables, Locals
  <2>7. s \in shares' /\ Created(s)' <= blocks[block].created
    BY <2>2, <2>5 DEF Rows
  <2>8. Created(n)' = now /\ \A r \in DOMAIN archive : Created(r)' = Created(r)
    BY <2>2 DEF Created
  <2>9. PICK r \in Rows : Created(r) = Created(s)'
    <3>1. CASE s = n
      <4>1. now <= blocks[block].created
        BY <2>7, <2>8, <3>1
      <4>2. PICK r \in DOMAIN archive : /\ Created(r) = now /\ blocks[block].created = now
                                        /\ scheme # "SOLO" => r \in shares
        BY <1>t, <2>5, <4>1, Twin DEF ScanAll
      <4>3. r \in shares /\ Created(r) <= blocks[block].created
        BY <1>t, <2>3, <4>2 DEF Scanning, Tables
      <4> QED
        BY <2>8, <3>1, <4>2, <4>3 DEF Rows
    <3>2. CASE s # n
      BY <2>2, <2>6, <2>7, <2>8, <3>2 DEF Rows
    <3> QED
      BY <3>1, <3>2
  <2>10. PICK u \in counted : Created(u) = Created(r)
    BY <2>4, <2>9 DEF Seen
  <2> QED
    BY <2>2, <2>6, <2>8, <2>9, <2>10 DEF Seen
<1>2. CASE \E b \in DOMAIN blocks : OrphanBlock(b)
  <2>1. run = {} /\ task' = task
    BY <1>2 DEF OrphanBlock, locals
  <2> QED
    BY <1>n, <1>t, <2>1 DEF Control, IsNextBlock
<1>3. CASE LastPage
  <2>1. /\ Still /\ task = "rows" /\ ~MoreRows /\ Len(page) < PageSize /\ task' = "write"
        /\ done' = (done \/ scheme = "PROP") /\ counted' = counted
    BY <1>3 DEF LastPage, Still, tables
  <2>2. Scanning /\ PageInv /\ (~done => RestInv) /\ (scheme = "PROP" => ~done)
    BY <1>t, <2>1 DEF Locals, ScanInv, Scanning
  <2>3. SUFFICES ASSUME PPLNS => ~done', NEW s \in Rows PROVE Seen(s)
    <3>1. Rows' = Rows /\ \A s : Seen(s)' <=> Seen(s)
      BY <2>1, StillFacts, Zenon DEF Seen
    <3>2. PPLNS' = PPLNS
      BY <2>1 DEF PPLNS, Still
    <3> QED
      BY <3>1, <3>2 DEF CompleteInv
  <2>4. ~done
    <3>1. scheme \in {"PPLNS", "PPLNSBF", "PROP", "SOLO"}
      BY <1>t, SchemesAssumption DEF Tables
    <3>2. PPLNS \/ scheme = "PROP"
      BY <2>2, <3>1 DEF PPLNS, Scanning
    <3>3. PPLNS => done' = done
      BY <1>t, <2>1 DEF PPLNS, Locals
    <3> QED
      BY <2>2, <2>3, <3>2, <3>3
  <2>5. Len(page) \in Nat /\ row \in Nat /\ PageSize \in Nat
    BY <1>t, NumbersAssumption DEF Locals
  <2>6. Len(page) # PageSize /\ \A j \in 1..Len(page) : ~(row <= j)
    BY <2>1, <2>4, <2>5 DEF MoreRows
  <2> QED
    BY <2>2, <2>3, <2>4, <2>6 DEF RestInv
<1>4. CASE LeaveLoop
  <2>1. /\ UNCHANGED <<scheme, done>> /\ task = "loop" /\ (done \/ stopping = "yes")
    BY <1>4 DEF LeaveLoop, tables, sumVars
  <2>2. ~MayStop => done
    BY <1>t, <2>1 DEF Control
  <2>3. scheme = "PROP" => ~done
    BY <1>t, <2>1 DEF ScanInv, Scanning
  <2>4. scheme \in {"PPLNS", "PPLNSBF", "PROP", "SOLO"}
    BY <1>t, SchemesAssumption DEF Tables
  <2> QED
    BY <2>1, <2>2, <2>3, <2>4 DEF CompleteInv, Scanning, PPLNS
<1>5. CASE \E b \in DOMAIN blocks : BeginBlock(b) \/ BeginSolo(b)
  <2>1. task' # "write" \/ scheme' = "SOLO"
    BY <1>5 DEF BeginBlock, BeginSolo, tables
  <2> QED
    BY <1>n, <2>1
<1>6. CASE ReadPage \/ CountPPLNS \/ CountPROP \/ NextPage \/ Write \/ Aborts
  <2>1. task' # "write"
    BY <1>6 DEF ReadPage, CountPPLNS, CountPROP, NextPage, Write, Commit, Aborts, EndTask
  <2> QED
    BY <1>n, <2>1
<1>7. CASE (\E S \in SUBSET Pending : StartRun(S)) \/ Stop \/ UNCHANGED vars
  <2>1. UNCHANGED <<tables, locals>>
    BY <1>7 DEF StartRun, Stop, vars
  <2> QED
    BY <1>u, <2>1
<1> QED
  BY <1>1, <1>2, <1>3, <1>4, <1>5, <1>6, <1>7, Cases, ZenonT(60)

\* Unless the host stops, a round of PROP rewards what it deletes.
LEMMA RoundNext ==
    ASSUME DistinctTimes, ~MayStop, ScanAll, CompleteInv, RoundInv, NoShareLost, [Next]_vars
    PROVE  RoundInv' /\ NoShareLost'
<1>t. Tables /\ Control /\ Locals /\ ShapeInv /\ ScanInv /\ TimeInv
  BY DEF ScanAll, ShapeInv
<1>1. ASSUME NEW m \in Miners, NEW score \in Scores, NEW isBlock \in BOOLEAN,
             StoreShare(m, score, isBlock)
      PROVE  RoundInv' /\ NoShareLost'
  <2>1. PICK n : Stores(n, m, score)
    BY <1>1, <1>t, StoreNew
  <2>2. /\ DOMAIN archive' = DOMAIN archive \cup {n} /\ n \notin DOMAIN archive
        /\ shares' = shares \cup {n} /\ archive'[n] = [miner |-> m, created |-> now, score |-> score]
        /\ \A s \in DOMAIN archive : archive'[s] = archive[s]
        /\ \A b \in DOMAIN blocks : blocks'[b] = blocks[b] /\ outcome'[b] = outcome[b]
        /\ Confirmed' = Confirmed /\ Confirmed \subseteq DOMAIN blocks /\ scheme' = scheme
    BY <2>1 DEF Stores
  <2>3. RoundInv'
    BY <2>2 DEF RoundInv
  <2>4. ASSUME NEW b \in Confirmed, NEW s \in UpTo(b)' PROVE s \in UpTo(b)
    <3>1. b \in DOMAIN blocks /\ s \in DOMAIN archive' /\ Created(s)' <= blocks[b].created
      BY <2>2, <2>4 DEF UpTo
    <3>2. blocks[b].created < now /\ blocks[b].created \in Nat /\ now \in Nat
      BY <1>t, <3>1, NewIsYounger, BlockFacts DEF Tables
    <3>3. Created(n)' = now
      BY <2>2 DEF Created
    <3>4. s # n
      BY <3>1, <3>2, <3>3
    <3> QED
      BY <2>2, <3>1, <3>4 DEF UpTo, Created
  <2>5. NoShareLost'
    BY <2>2, <2>4 DEF NoShareLost
  <2> QED
    BY <2>3, <2>5
<1>2. ASSUME NEW b \in DOMAIN blocks, OrphanBlock(b) PROVE RoundInv' /\ NoShareLost'
  <2>1. /\ b \in Pending /\ blocks' = [blocks EXCEPT ![b].status = "orphaned"]
        /\ UNCHANGED <<scheme, archive, shares, outcome>>
    BY <1>2 DEF OrphanBlock
  <2>2. /\ DOMAIN blocks' = DOMAIN blocks
        /\ \A c \in DOMAIN blocks : blocks'[c].created = blocks[c].created
        /\ \A c \in DOMAIN blocks : c # b => blocks'[c].status = blocks[c].status
        /\ blocks'[b].status = "orphaned"
    BY <1>t, <2>1, StatusUpdate DEF Tables
  <2>3. Confirmed' = Confirmed /\ Confirmed \subseteq DOMAIN blocks
    BY <2>1, <2>2 DEF Confirmed, Pending
  <2>4. \A c \in DOMAIN blocks : UpTo(c)' = UpTo(c)
    BY <2>1, <2>2 DEF UpTo, Created
  <2> QED
    BY <2>1, <2>3, <2>4 DEF RoundInv, NoShareLost
<1>3. CASE Write
  <2>0. PICK b : b = block
    OBVIOUS
  <2>1. /\ task = "write" /\ b \in DOMAIN blocks /\ DOMAIN blocks' = DOMAIN blocks
        /\ \A c \in DOMAIN blocks : blocks'[c].created = blocks[c].created
        /\ Confirmed' = Confirmed \cup {b} /\ Confirmed \subseteq DOMAIN blocks
        /\ outcome'[b] = [rewards |-> FinalRewards, counted |-> counted]
        /\ \A c \in DOMAIN blocks : c # b => outcome'[c] = outcome[c]
        /\ shares' = shares \ Discarded /\ UNCHANGED <<scheme, archive>>
        /\ b \notin Confirmed
    BY <1>3, <1>t, <2>0, WriteFacts DEF Pending, Confirmed
  <2>2. SUFFICES ASSUME scheme = "PROP" PROVE RoundInv' /\ NoShareLost'
    BY <2>1 DEF RoundInv, NoShareLost
  <2>3. NoGaps /\ \A s \in Rows : Seen(s)
    BY <1>t, <2>1, <2>2 DEF CompleteInv, ScanInv, Scanning, PPLNS
  <2>4. \A s \in Rows : s \in counted
    <3>1. ASSUME NEW s \in Rows PROVE s \in counted
      <4>1. PICK u \in counted : Created(u) = Created(s)
        BY <2>3 DEF Seen
      <4>2. u \in DOMAIN archive /\ s \in DOMAIN archive
        BY <1>t DEF Locals, Tables, Rows
      <4> QED
        BY <1>t, <4>1, <4>2 DEF TimeInv
    <3> QED
      BY <3>1
  <2>5. \A s \in Discarded : s \in Rows
    <3>1. SUFFICES ASSUME NEW s \in Discarded PROVE s \in Rows
      OBVIOUS
    <3>2. cutoff # 0 /\ s \in shares /\ Created(s) < cutoff
      BY <2>2, <3>1 DEF Discarded, SharesBefore
    <3>3. PICK u \in counted : cutoff = Created(u)
      BY <2>3, <3>2 DEF NoGaps
    <3>4. u \in shares /\ Created(u) <= blocks[block].created
      BY <2>3, <3>3 DEF NoGaps, Rows
    <3>5. Created(u) \in Nat /\ Created(s) \in Nat /\ blocks[block].created \in Nat
      BY <1>t, <2>0, <2>1, <3>2, <3>4, ScorePositive, BlockFacts DEF Tables, Created
    <3>6. Created(s) <= blocks[block].created
      BY <3>2, <3>3, <3>4, <3>5
    <3> QED
      BY <3>2, <3>6 DEF Rows
  <2>6. \A c \in Confirmed : outcome'[c] = outcome[c]
    BY <2>1
  <2>7. ASSUME NEW s \in DOMAIN archive, s \notin shares \/ s \in counted
        PROVE  \E c \in Confirmed' : s \in outcome'[c].counted
    <3>1. CASE s \in counted
      BY <2>1, <3>1
    <3>2. CASE s \notin shares
      BY <2>1, <2>2, <2>6, <3>2 DEF RoundInv
    <3> QED
      BY <2>7, <3>1, <3>2
  <2>8. RoundInv'
    <3>1. ASSUME NEW s \in DOMAIN archive, s \notin shares' PROVE s \notin shares \/ s \in counted
      BY <2>1, <2>4, <2>5, <3>1
    <3> QED
      BY <2>1, <2>7, <3>1 DEF RoundInv
  <2>9. ASSUME NEW c \in Confirmed', NEW s \in UpTo(c)
        PROVE  \E d \in Confirmed' : s \in outcome'[d].counted
    <3>1. CASE c = b
      <4>1. s \in DOMAIN archive /\ (s \in shares => s \in Rows)
        BY <2>0, <2>9, <3>1 DEF UpTo, Rows
      <4> QED
        BY <2>4, <2>7, <4>1
    <3>2. CASE c # b
      <4>1. PICK d \in Confirmed : s \in outcome[d].counted
        BY <2>1, <2>2, <2>9, <3>2 DEF NoShareLost
      <4> QED
        BY <2>1, <2>6, <4>1
    <3> QED
      BY <3>1, <3>2
  <2>10. \A c \in DOMAIN blocks : UpTo(c)' = UpTo(c)
    BY <2>1 DEF UpTo, Created
  <2>11. NoShareLost'
    BY <2>1, <2>9, <2>10 DEF NoShareLost
  <2> QED
    BY <2>8, <2>11
<1>4. CASE UNCHANGED tables
  BY <1>4 DEF tables, RoundInv, NoShareLost, Confirmed, UpTo, Created
<1> QED
  BY <1>1, <1>2, <1>3, <1>4, TableSteps, ZenonT(60)

\* PROP: work done up to a confirmed block has been rewarded in some round, although
\* shares arrive while pages are read and every round deletes rows
\* (PROPPaymentScheme.UpdateBalancesAsync), as long as shares have distinct times and
\* the host does not stop during a run.
THEOREM EveryShareRewarded ==
    ASSUME DistinctTimes, ~MayStop
    PROVE  Spec => []NoShareLost
<1> DEFINE I == ScanAll /\ CompleteInv /\ RoundInv /\ NoShareLost
<1>1. Init => I
  <2> SUFFICES ASSUME Init PROVE I
    OBVIOUS
  <2>1. DOMAIN archive = {} /\ DOMAIN blocks = {} /\ task = "idle"
    BY DEF Init
  <2> QED
    BY <2>1, ScanAllNext, Zenon DEF CompleteInv, RoundInv, NoShareLost, Confirmed
<1>2. I /\ [Next]_vars => I'
  BY ScanAllNext, CompleteNext, RoundNext
<1>3. I => NoShareLost
  OBVIOUS
<1> QED
  BY <1>1, <1>2, <1>3, PTL DEF Spec

-----------------------------------------------------------------------------
(* The window of PPLNS and PPLNSBF: what pending blocks need is kept. *)

\* The score of a set of shares of an archive.
Weigh(A, S) == SumFunctionOnSet([s \in DOMAIN A |-> A[s].score], S)

\* Scores add up: to a natural number, more for more shares, share by share.
LEMMA WeighFacts ==
    ASSUME NEW A \in Seq(ShareRow)
    PROVE  /\ Weigh(A, {}) = 0
           /\ \A T \in SUBSET DOMAIN A : Weigh(A, T) \in Nat /\ \A S \in SUBSET T : Weigh(A, S) <= Weigh(A, T)
           /\ \A T \in SUBSET DOMAIN A, a \in DOMAIN A :
                a \notin T => Weigh(A, T \cup {a}) = Weigh(A, T) + A[a].score
<1> DEFINE f == [s \in DOMAIN A |-> A[s].score]
<1>1. DOMAIN A = 1..Len(A) /\ Len(A) \in Nat
  OBVIOUS
<1>2. IsFiniteSet(DOMAIN A)
  BY <1>1, FS_Interval
<1>3. \A s \in DOMAIN A : A[s].score \in Nat
  <2>1. \A s \in DOMAIN A : A[s] \in ShareRow
    BY <1>1
  <2>2. \A r \in ShareRow : r.score \in Scores
    BY DEF ShareRow
  <2> QED
    BY <2>1, <2>2, NumbersAssumption
<1>4. \A s \in DOMAIN A : f[s] = A[s].score /\ f[s] \in Nat /\ f[s] \in Int
  BY <1>3
<1>5. \A S : Weigh(A, S) = SumFunctionOnSet(f, S)
  BY DEF Weigh
<1> HIDE DEF f
<1>6. Weigh(A, {}) = 0
  BY <1>5, SumEmpty
<1>7. ASSUME NEW T \in SUBSET DOMAIN A
      PROVE  Weigh(A, T) \in Nat /\ \A S \in SUBSET T : Weigh(A, S) <= Weigh(A, T)
  <2>1. IsFiniteSet(T) /\ \A x \in T : f[x] \in Nat
    BY <1>2, <1>4, FS_Subset
  <2>2. ASSUME NEW S \in SUBSET T
        PROVE  SumFunctionOnSet(f, T) \in Nat /\ SumFunctionOnSet(f, S) <= SumFunctionOnSet(f, T)
    BY <2>1, SumOfSubset
  <2> QED
    BY <1>5, <2>2
<1>8. ASSUME NEW T \in SUBSET DOMAIN A, NEW a \in DOMAIN A, a \notin T
      PROVE  Weigh(A, T \cup {a}) = Weigh(A, T) + A[a].score
  BY <1>2, <1>4, <1>5, <1>8, SumInsert
<1> QED
  BY <1>6, <1>7, <1>8

\* A share that is added changes no sum of old shares.
LEMMA WeighKept ==
    ASSUME NEW A \in Seq(ShareRow), NEW B, DOMAIN A \subseteq DOMAIN B, \A s \in DOMAIN A : B[s] = A[s],
           NEW T \in SUBSET DOMAIN A
    PROVE  Weigh(B, T) = Weigh(A, T)
<1> DEFINE f == [s \in DOMAIN A |-> A[s].score]
           g == [s \in DOMAIN B |-> B[s].score]
<1>1. DOMAIN A = 1..Len(A) /\ Len(A) \in Nat
  OBVIOUS
<1>2. IsFiniteSet(T)
  <2>1. IsFiniteSet(DOMAIN A)
    BY <1>1, FS_Interval
  <2> QED
    BY <2>1, FS_Subset
<1>3. \A x \in T : g[x] = f[x]
  OBVIOUS
<1>4. Weigh(A, T) = SumFunctionOnSet(f, T) /\ Weigh(B, T) = SumFunctionOnSet(g, T)
  BY DEF Weigh
<1> HIDE DEF f, g
<1> QED
  BY <1>2, <1>3, <1>4, SumEqual

\* A run holds the oldest pending blocks.
OrderInv == \A b \in run, c \in Pending : c < b => c \in run

\* The accumulated score is that of the counted shares, capped at the window; the
\* cutoff is set when the window is full, at the oldest counted share.
WindowInv ==
    PPLNS /\ task # "idle" =>
        /\ acc <= ScoreOf(counted) /\ (done = FALSE => acc = ScoreOf(counted))
        /\ done = TRUE => acc = Window /\ cutoff # 0
        /\ cutoff # 0 => done = TRUE /\ \A s \in counted : Created(s) >= cutoff

\* The shares of block b that are newer than share s.
Newer(b, s) == {t \in UpTo(b) : Created(t) > Created(s)}

\* Above a deleted row lies a full window, for the present and for every pending block.
KeepInv ==
    PPLNS => \A s \in DOMAIN archive : s \notin shares =>
        /\ ScoreOf({t \in DOMAIN archive : Created(t) > Created(s)}) >= Window
        /\ \A b \in Pending : ScoreOf(Newer(b, s)) >= Window

\* Unless the daemon fails to answer for an older block, runs take blocks in order.
LEMMA OrderNext ==
    ASSUME ~SkipsBlocks, ShapeInv, OrderInv, [Next]_vars
    PROVE  OrderInv'
<1>t. Tables /\ Control
  BY DEF ShapeInv
<1>1. ASSUME NEW m \in Miners, NEW score \in Scores, NEW isBlock \in BOOLEAN,
             StoreShare(m, score, isBlock)
      PROVE  OrderInv'
  <2>1. /\ DOMAIN blocks \subseteq DOMAIN blocks'
        /\ \A b \in DOMAIN blocks : blocks'[b] = blocks[b]
        /\ \A b \in DOMAIN blocks' : b \notin DOMAIN blocks => \A c \in DOMAIN blocks : c < b
        /\ Tables'
    BY <1>1, <1>t, StoreFacts, ZenonT(30)
  <2>2. run' = run
    BY <1>1 DEF StoreShare
  <2>3. SUFFICES ASSUME NEW b \in run, NEW c \in Pending', c < b PROVE c \in run
    BY <2>2 DEF OrderInv
  <2>4. b \in DOMAIN blocks /\ c \in DOMAIN blocks' /\ b \in Int /\ c \in Int
    <3>1. b \in DOMAIN blocks /\ c \in DOMAIN blocks'
      BY <1>t DEF Control, Pending
    <3>2. blocks \in Seq(BlockRow) /\ blocks' \in Seq(BlockRow)
      BY <1>t, <2>1 DEF Tables
    <3> QED
      BY <3>1, <3>2
  <2>5. c \in DOMAIN blocks
    <3>1. c \notin DOMAIN blocks => b < c
      BY <2>1, <2>4
    <3> QED
      BY <2>3, <2>4, <3>1
  <2>6. c \in Pending
    BY <2>1, <2>3, <2>5 DEF Pending
  <2> QED
    BY <2>3, <2>6 DEF OrderInv
<1>2. ASSUME NEW S \in SUBSET Pending, StartRun(S) PROVE OrderInv'
  <2>1. run' = S /\ Pending' = Pending /\ \A b \in S, c \in Pending : c < b => c \in S
    BY <1>2 DEF StartRun, tables, Pending
  <2> QED
    BY <2>1 DEF OrderInv
<1>3. CASE \E b \in DOMAIN blocks : OrphanBlock(b)
  BY <1>3 DEF OrphanBlock, OrderInv
<1>4. CASE Write
  <2>1. Pending' = Pending \ {block} /\ run' = run \ {block}
    BY <1>4, WriteFacts
  <2> QED
    BY <2>1 DEF OrderInv
<1>5. CASE Aborts
  BY <1>5 DEF Aborts, OrderInv
<1>6. ASSUME UNCHANGED <<run, blocks>> PROVE OrderInv'
  BY <1>6 DEF OrderInv, Pending
<1>7. (\E b \in DOMAIN blocks : BeginBlock(b) \/ BeginSolo(b)) => UNCHANGED <<run, blocks>>
  BY DEF BeginBlock, BeginSolo, tables
<1>8. ReadPage \/ LeaveLoop \/ CountPPLNS \/ CountPROP \/ NextPage \/ LastPage => UNCHANGED <<run, blocks>>
  BY DEF ReadPage, LeaveLoop, CountPPLNS, CountPROP, NextPage, LastPage, tables
<1>9. Stop \/ UNCHANGED vars => UNCHANGED <<run, blocks>>
  BY DEF Stop, vars, tables
<1> QED
  BY <1>1, <1>2, <1>3, <1>4, <1>5, <1>6, <1>7, <1>8, <1>9, Cases, ZenonT(60)

\* The window while nothing it depends on changes.
LEMMA WindowStill ==
    ASSUME Tables, Locals, WindowInv, task # "idle",
           DOMAIN archive \subseteq DOMAIN archive', \A s \in DOMAIN archive : archive'[s] = archive[s],
           UNCHANGED <<scheme, acc, cutoff, counted>>, PPLNS => done' = done
    PROVE  WindowInv'
<1>1. SUFFICES ASSUME PPLNS PROVE /\ acc <= ScoreOf(counted)' /\ (done = FALSE => acc = ScoreOf(counted)')
                                  /\ done = TRUE => acc = Window /\ cutoff # 0
                                  /\ cutoff # 0 => done = TRUE /\ \A s \in counted : Created(s)' >= cutoff
  BY DEF WindowInv, PPLNS
<1>2. counted \in SUBSET DOMAIN archive /\ archive \in Seq(ShareRow)
  BY DEF Tables, Locals
<1>3. Weigh(archive', counted) = Weigh(archive, counted)
  BY <1>2, WeighKept
<1>4. ScoreOf(counted)' = ScoreOf(counted)
  BY <1>3 DEF ScoreOf, Weigh
<1>5. \A s \in counted : Created(s)' = Created(s)
  BY <1>2 DEF Created
<1> QED
  BY <1>1, <1>4, <1>5 DEF WindowInv

\* The rows counted so far are at least as new as the row the scan is at.
LEMMA CountedNewer ==
    ASSUME ScanAll, task = "rows", MoreRows
    PROVE  /\ page[row] \in shares /\ page[row] \in DOMAIN archive /\ page[row] \notin counted
           /\ page[row] \in Rows /\ counted \subseteq Rows
           /\ \A u \in counted : Created(u) >= Created(page[row])
<1>t. Tables /\ Locals /\ ScanInv
  BY DEF ScanAll, ShapeInv
<1>1. row \in 1..Len(page) /\ ~done /\ row \in Nat
  BY <1>t DEF MoreRows, Locals
<1>2. Scanning /\ NoGaps /\ PageInv /\ RestInv
  BY <1>1, <1>t DEF Locals, ScanInv, Scanning
<1>3. page[row] \in Rows /\ page[row] \notin counted /\ page[row] \in shares
  BY <1>1, <1>2 DEF PageInv, RestInv, Rows
<1>4. ASSUME NEW u \in counted PROVE Created(u) >= Created(page[row])
  <2>1. Created(u) >= Created(page[row]) \/ \E j \in 1..Len(page) : j < row /\ u = page[j]
    BY <1>1, <1>2 DEF RestInv
  <2> QED
    BY <1>1, <1>2, <2>1 DEF PageInv
<1> QED
  BY <1>2, <1>3, <1>4, <1>t DEF Tables, NoGaps

\* Every step of the scan keeps the account of the window.
LEMMA WindowNext ==
    ASSUME ScanAll, WindowInv, [Next]_vars
    PROVE  WindowInv'
<1>t. Tables /\ Control /\ Locals /\ ShapeInv /\ ScanInv
  BY DEF ScanAll, ShapeInv
<1>i. task' = "idle" => WindowInv'
  BY DEF WindowInv
<1>p. ~PPLNS' => WindowInv'
  BY DEF WindowInv
<1>1. ASSUME NEW m \in Miners, NEW score \in Scores, NEW isBlock \in BOOLEAN,
             StoreShare(m, score, isBlock)
      PROVE  WindowInv'
  <2>1. PICK n : Stores(n, m, score)
    BY <1>1, <1>t, StoreNew
  <2>2. /\ DOMAIN archive \subseteq DOMAIN archive' /\ \A s \in DOMAIN archive : archive'[s] = archive[s]
        /\ UNCHANGED <<scheme, acc, cutoff, counted>> /\ done' = done /\ task' = task
    BY <2>1 DEF Stores
  <2>3. CASE task # "idle"
    BY <1>t, <2>2, <2>3, WindowStill
  <2> QED
    BY <1>i, <2>2, <2>3
<1>2. CASE \E b \in DOMAIN blocks : OrphanBlock(b)
  <2>1. run = {} /\ task' = task
    BY <1>2 DEF OrphanBlock, locals
  <2> QED
    BY <1>i, <1>t, <2>1 DEF Control, IsNextBlock
<1>3. CASE \E b \in DOMAIN blocks : BeginBlock(b)
  <2>1. acc' = 0 /\ cutoff' = 0 /\ done' = FALSE /\ counted' = {}
    BY <1>3, <1>t DEF BeginBlock, Start, ShapeInv, Idle
  <2>2. Weigh(archive', {}) = 0
    <3>1. archive' \in Seq(ShareRow)
      BY <1>3, <1>t DEF BeginBlock, tables, Tables
    <3> QED
      BY <3>1, WeighFacts
  <2>3. ScoreOf(counted)' = 0
    BY <2>1, <2>2 DEF ScoreOf, Weigh
  <2> QED
    BY <2>1, <2>3 DEF WindowInv
<1>4. CASE \E b \in DOMAIN blocks : BeginSolo(b)
  <2>1. scheme' = "SOLO"
    BY <1>4 DEF BeginSolo, tables
  <2> QED
    BY <1>p, <2>1 DEF PPLNS
<1>5. CASE ReadPage \/ LeaveLoop \/ NextPage \/ LastPage
  <2>1. task # "idle" /\ UNCHANGED <<archive, scheme, acc, cutoff, counted>>
    BY <1>5 DEF ReadPage, LeaveLoop, NextPage, LastPage, tables, sumVars
  <2>2. PPLNS => done' = done
    BY <1>5, <1>t DEF ReadPage, LeaveLoop, NextPage, LastPage, sumVars, PPLNS, Locals
  <2> QED
    BY <1>t, <2>1, <2>2, WindowStill
<1>6. CASE CountPPLNS
  <2>0. PICK s : s = page[row]
    OBVIOUS
  <2>1. /\ PPLNS /\ task = "rows" /\ MoreRows /\ UNCHANGED <<scheme, archive>>
        /\ acc' = acc + Score(s) /\ done' = Crosses(s) /\ counted' = counted \cup {s}
        /\ cutoff' = IF Crosses(s) THEN Created(s) ELSE cutoff
    BY <1>6, <2>0 DEF CountPPLNS, tables
  <2>2. /\ s \in DOMAIN archive /\ s \notin counted
        /\ \A u \in counted : Created(u) >= Created(s)
    BY <2>0, <2>1, CountedNewer
  <2>3. /\ archive[s].score \in Nat /\ Created(s) \in Nat /\ Created(s) >= 1
        /\ acc \in Nat /\ Window \in Nat /\ Score(s) \in Nat
        /\ (Crosses(s) => acc + Score(s) = Window)
    BY <1>6, <1>t, <2>0, <2>2, ScorePositive, CountFacts, NumbersAssumption DEF Locals, Created, ScanAll, TimeInv
  <2>4. done = FALSE
    BY <1>t, <2>1 DEF MoreRows, Locals
  <2>5. acc = ScoreOf(counted) /\ cutoff = 0
    BY <2>1, <2>4 DEF WindowInv
  <2>6. ScoreOf(counted)' = acc + archive[s].score
    <3>1. archive \in Seq(ShareRow) /\ counted \in SUBSET DOMAIN archive
      BY <1>t DEF Tables, Locals
    <3>2. Weigh(archive, counted \cup {s}) = Weigh(archive, counted) + archive[s].score
      BY <2>2, <3>1, WeighFacts
    <3> QED
      BY <2>1, <2>5, <3>2 DEF ScoreOf, Weigh
  <2>7. CASE Crosses(s)
    <3>1. done' = TRUE /\ cutoff' = Created(s) /\ acc' = Window /\ cutoff' # 0
      BY <2>1, <2>3, <2>7
    <3>2. acc' <= ScoreOf(counted)'
      BY <2>3, <2>6, <2>7, <3>1 DEF Crosses
    <3>3. \A u \in counted' : Created(u)' >= cutoff'
      BY <2>1, <2>2, <2>3, <3>1 DEF Created
    <3> QED
      BY <3>1, <3>2, <3>3 DEF WindowInv
  <2>8. CASE ~Crosses(s)
    <3>1. done' = FALSE /\ cutoff' = 0 /\ acc' = acc + archive[s].score
      BY <2>1, <2>5, <2>8 DEF Score
    <3>2. acc' <= ScoreOf(counted)' /\ acc' = ScoreOf(counted)'
      BY <2>3, <2>6, <3>1
    <3> QED
      BY <3>1, <3>2 DEF WindowInv
  <2> QED
    BY <2>7, <2>8
<1>7. CASE CountPROP
  <2>1. scheme' = "PROP"
    BY <1>7 DEF CountPROP, tables
  <2> QED
    BY <1>p, <2>1 DEF PPLNS
<1>8. CASE Write \/ Aborts
  <2>1. task' = "idle"
    BY <1>8 DEF Write, Commit, Aborts, EndTask
  <2> QED
    BY <1>i, <2>1
<1>9. CASE (\E S \in SUBSET Pending : StartRun(S)) \/ Stop \/ UNCHANGED vars
  <2>1. UNCHANGED <<tables, locals>>
    BY <1>9 DEF StartRun, Stop, vars
  <2>2. UNCHANGED <<scheme, task, archive, acc, cutoff, done, counted>>
    BY <2>1 DEF tables, locals, sumVars
  <2> QED
    BY <2>2 DEF WindowInv, PPLNS, ScoreOf, Created
<1> QED
  BY <1>1, <1>2, <1>3, <1>4, <1>5, <1>6, <1>7, <1>8, <1>9, Cases, ZenonT(60)

\* A set that weighs a window still does with more shares in it.
LEMMA WeighMore ==
    ASSUME NEW A \in Seq(ShareRow), NEW B \in Seq(ShareRow),
           DOMAIN A \subseteq DOMAIN B, \A s \in DOMAIN A : B[s] = A[s],
           NEW S \in SUBSET DOMAIN A, NEW T \in SUBSET DOMAIN B, S \subseteq T,
           Weigh(A, S) >= Window
    PROVE  Weigh(B, T) >= Window
<1>1. Weigh(B, S) = Weigh(A, S)
  BY WeighKept
<1>2. /\ Weigh(B, T) \in Nat /\ Weigh(A, S) \in Nat /\ Weigh(B, S) <= Weigh(B, T)
  BY WeighFacts
<1> QED
  BY <1>1, <1>2, NumbersAssumption

\* A block that is still pending while one is confirmed is not older than that one.
LEMMA PendingLater ==
    ASSUME ShapeInv, TimeInv, OrderInv, task # "idle", NEW c \in Pending
    PROVE  /\ block \in DOMAIN blocks /\ c \in DOMAIN blocks
           /\ blocks[block].created <= blocks[c].created
<1>t. Tables /\ Control
  BY DEF ShapeInv
<1>1. block \in run /\ block \in DOMAIN blocks /\ c \in DOMAIN blocks /\ \A d \in run : block <= d
  BY <1>t DEF Control, IsNextBlock, Pending
<1>2. /\ block \in Nat /\ c \in Nat
      /\ blocks[block].created \in Nat /\ blocks[c].created \in Nat
  BY <1>t, <1>1, BlockFacts
<1>3. ~(c < block)
  <2>1. c < block => c \in run
    BY <1>1 DEF OrderInv
  <2> QED
    BY <1>1, <1>2, <2>1
<1>4. c = block \/ block < c
  BY <1>2, <1>3
<1> QED
  BY <1>1, <1>2, <1>4 DEF TimeInv

\* What is deleted with a block lies below a full window of every pending block.
LEMMA KeepNext ==
    ASSUME ScanAll, WindowInv, OrderInv, KeepInv, [Next]_vars
    PROVE  KeepInv'
<1>t. Tables /\ Control /\ Locals /\ ShapeInv /\ ScanInv /\ TimeInv
  BY DEF ScanAll, ShapeInv
<1>a. archive \in Seq(ShareRow) /\ Window \in Nat
  BY <1>t, NumbersAssumption DEF Tables
<1>b. \A S : ScoreOf(S) = Weigh(archive, S)
  BY DEF ScoreOf, Weigh
<1>1. ASSUME NEW m \in Miners, NEW score \in Scores, NEW isBlock \in BOOLEAN,
             StoreShare(m, score, isBlock)
      PROVE  KeepInv'
  <2>1. PICK n : Stores(n, m, score)
    BY <1>1, <1>t, StoreNew
  <2>2. /\ DOMAIN archive' = DOMAIN archive \cup {n} /\ shares' = shares \cup {n}
        /\ \A s \in DOMAIN archive : archive'[s] = archive[s]
        /\ \A b \in DOMAIN blocks : blocks'[b] = blocks[b]
        /\ \A b \in Pending' : b \in Pending \/ (b \notin DOMAIN blocks /\ blocks'[b].created = now)
        /\ scheme' = scheme
    BY <2>1 DEF Stores
  <2>3. archive' \in Seq(ShareRow)
    <3>1. Tables'
      BY <1>1, <1>t, StoreFacts
    <3> QED
      BY <3>1 DEF Tables
  <2>4. SUFFICES ASSUME PPLNS, NEW s \in DOMAIN archive, s \notin shares
                 PROVE  /\ Weigh(archive', {t \in DOMAIN archive' : Created(t)' > Created(s)'}) >= Window
                        /\ \A b \in Pending' : Weigh(archive', Newer(b, s)') >= Window
    BY <2>2 DEF KeepInv, PPLNS, ScoreOf, Weigh
  <2>5. \A t \in DOMAIN archive : Created(t)' = Created(t) /\ Created(t) <= now
    BY <1>t, <2>2 DEF Created, TimeInv
  <2>6. PICK S : S = {t \in DOMAIN archive : Created(t) > Created(s)}
    OBVIOUS
  <2>7. Weigh(archive, S) >= Window /\ S \in SUBSET DOMAIN archive
    BY <1>b, <2>4, <2>6 DEF KeepInv
  <2>8. Weigh(archive', {t \in DOMAIN archive' : Created(t)' > Created(s)'}) >= Window
    <3> DEFINE T == {t \in DOMAIN archive' : Created(t)' > Created(s)'}
    <3>1. S \subseteq T /\ T \in SUBSET DOMAIN archive'
      BY <2>2, <2>4, <2>5, <2>6
    <3> HIDE DEF T
    <3>2. Weigh(archive', T) >= Window
      BY <1>a, <2>2, <2>3, <2>7, <3>1, WeighMore
    <3> QED
      BY <3>2 DEF T
  <2>9. ASSUME NEW b \in Pending' PROVE Weigh(archive', Newer(b, s)') >= Window
    <3>0. Newer(b, s)' \in SUBSET DOMAIN archive'
      BY DEF Newer, UpTo
    <3>1. CASE b \in Pending
      <4>1. PICK T : T = Newer(b, s)
        OBVIOUS
      <4>2. Weigh(archive, T) >= Window /\ T \in SUBSET DOMAIN archive
        BY <1>b, <2>4, <3>1, <4>1 DEF KeepInv, Newer, UpTo
      <4>3. b \in DOMAIN blocks
        BY <3>1 DEF Pending
      <4>4. T \subseteq Newer(b, s)'
        BY <2>2, <2>4, <2>5, <4>1, <4>3 DEF Newer, UpTo
      <4> QED
        BY <1>a, <2>2, <2>3, <3>0, <4>2, <4>4, WeighMore
    <3>2. CASE b \notin Pending
      <4>1. blocks'[b].created = now
        BY <2>2, <3>2
      <4>2. S \subseteq Newer(b, s)'
        BY <2>2, <2>4, <2>5, <2>6, <4>1 DEF Newer, UpTo
      <4> QED
        BY <1>a, <2>2, <2>3, <2>7, <3>0, <4>2, WeighMore
    <3> QED
      BY <3>1, <3>2
  <2> QED
    BY <2>8, <2>9
<1>2. ASSUME NEW b \in DOMAIN blocks, OrphanBlock(b) PROVE KeepInv'
  <2>1. /\ blocks' = [blocks EXCEPT ![b].status = "orphaned"]
        /\ UNCHANGED <<scheme, archive, shares>>
    BY <1>2 DEF OrphanBlock
  <2>2. /\ DOMAIN blocks' = DOMAIN blocks
        /\ \A c \in DOMAIN blocks : blocks'[c].created = blocks[c].created
        /\ \A c \in DOMAIN blocks : c # b => blocks'[c].status = blocks[c].status
        /\ blocks'[b].status = "orphaned"
    BY <1>t, <2>1, StatusUpdate DEF Tables
  <2>3. Pending' \subseteq Pending /\ \A c \in Pending' : c \in DOMAIN blocks
    BY <2>2 DEF Pending
  <2>4. \A c \in DOMAIN blocks, s \in DOMAIN archive : Newer(c, s)' = Newer(c, s)
    BY <2>1, <2>2 DEF Newer, UpTo, Created
  <2>5. SUFFICES ASSUME PPLNS, NEW s \in DOMAIN archive, s \notin shares
                 PROVE  /\ Weigh(archive, {t \in DOMAIN archive : Created(t) > Created(s)}) >= Window
                        /\ \A c \in Pending' : Weigh(archive, Newer(c, s)) >= Window
    BY <2>1, <2>3, <2>4 DEF KeepInv, PPLNS, ScoreOf, Weigh, Created
  <2> QED
    BY <1>b, <2>3, <2>5 DEF KeepInv
<1>3. CASE Write
  <2>0. PICK b : b = block
    OBVIOUS
  <2>1. /\ task = "write" /\ b \in DOMAIN blocks /\ DOMAIN blocks' = DOMAIN blocks
        /\ \A c \in DOMAIN blocks : blocks'[c].created = blocks[c].created
        /\ Pending' = Pending \ {b}
        /\ shares' = shares \ Discarded /\ UNCHANGED <<scheme, archive>>
    BY <1>3, <1>t, <2>0, WriteFacts
  <2>2. SUFFICES ASSUME PPLNS, NEW s \in DOMAIN archive, s \notin shares'
                 PROVE  /\ Weigh(archive, {t \in DOMAIN archive : Created(t) > Created(s)}) >= Window
                        /\ \A c \in Pending' : Weigh(archive, Newer(c, s)) >= Window
    <3>1. \A c \in Pending', r \in DOMAIN archive : Newer(c, r)' = Newer(c, r)
      BY <2>1 DEF Pending, Newer, UpTo, Created
    <3> QED
      BY <2>1, <3>1 DEF KeepInv, PPLNS, ScoreOf, Weigh, Created
  <2>3. CASE s \notin shares
    BY <1>b, <2>1, <2>2, <2>3 DEF KeepInv
  <2>4. CASE s \in shares
    <3>1. s \in Discarded /\ scheme # "SOLO"
      BY <2>1, <2>2, <2>4 DEF PPLNS
    <3>2. cutoff # 0 /\ Created(s) < cutoff
      BY <3>1 DEF Discarded, SharesBefore
    <3>3. /\ done = TRUE /\ acc = Window /\ acc <= Weigh(archive, counted)
          /\ \A u \in counted : Created(u) >= cutoff
      BY <1>b, <2>1, <2>2, <3>2 DEF WindowInv
    <3>4. /\ counted \in SUBSET DOMAIN archive
          /\ \A u \in counted : Created(u) \in Nat
          /\ Created(s) \in Nat /\ cutoff \in Nat
      BY <1>t, <2>2, ScorePositive DEF Locals, Created
    <3>5. \A u \in counted : Created(u) > Created(s)
      BY <3>2, <3>3, <3>4
    <3>6. Weigh(archive, counted) >= Window
      BY <1>a, <3>3, <3>4, WeighFacts
    <3>7. \A u \in counted : Created(u) <= blocks[block].created
      BY <1>t, <2>1, <3>1 DEF ScanInv, Scanning, NoGaps, Rows
    <3>8. Weigh(archive, {t \in DOMAIN archive : Created(t) > Created(s)}) >= Window
      <4> DEFINE T == {t \in DOMAIN archive : Created(t) > Created(s)}
      <4>1. counted \subseteq T /\ T \in SUBSET DOMAIN archive
        BY <3>4, <3>5
      <4> HIDE DEF T
      <4>2. Weigh(archive, T) >= Window
        BY <1>a, <3>4, <3>6, <4>1, WeighMore
      <4> QED
        BY <4>2 DEF T
    <3>9. ASSUME NEW c \in Pending' PROVE Weigh(archive, Newer(c, s)) >= Window
      <4>1. c \in Pending
        BY <2>1, <3>9
      <4>2. blocks[block].created <= blocks[c].created /\ c \in DOMAIN blocks
        BY <1>t, <2>1, <4>1, PendingLater
      <4>3. blocks[block].created \in Nat /\ blocks[c].created \in Nat
        BY <1>t, <2>0, <2>1, <4>2, BlockFacts
      <4>4. \A u \in counted : Created(u) <= blocks[c].created
        BY <3>4, <3>7, <4>2, <4>3
      <4>5. counted \subseteq Newer(c, s) /\ Newer(c, s) \in SUBSET DOMAIN archive
        BY <3>4, <3>5, <4>4 DEF Newer, UpTo
      <4> QED
        BY <1>a, <3>4, <3>6, <4>5, WeighMore
    <3> QED
      BY <3>8, <3>9
  <2> QED
    BY <2>3, <2>4
<1>4. CASE UNCHANGED tables
  BY <1>4 DEF tables, KeepInv, PPLNS, Pending, Newer, UpTo, ScoreOf, Created
<1> QED
  BY <1>1, <1>2, <1>3, <1>4, TableSteps, ZenonT(60)

\* A row that is gone is outside the window of every pending block.
LEMMA KeptEnough ==
    ASSUME ScanAll, KeepInv
    PROVE  PendingSharesKept
<1>1. SUFFICES ASSUME PPLNS, NEW b \in Pending, NEW s \in Needed(b), s \notin shares PROVE FALSE
  BY DEF PendingSharesKept
<1>2. s \in UpTo(b) /\ s \in DOMAIN archive /\ InWindow(b, s) > 0
  BY <1>1 DEF Needed, UpTo
<1>3. ScoreOf(Newer(b, s)) >= Window
  BY <1>1, <1>2 DEF KeepInv
<1>4. ScoreOf(Newer(b, s)) \in Nat
  <2>1. archive \in Seq(ShareRow) /\ Newer(b, s) \in SUBSET DOMAIN archive
    BY DEF ScanAll, ShapeInv, Tables, Newer, UpTo
  <2>2. Weigh(archive, Newer(b, s)) \in Nat
    BY <2>1, WeighFacts
  <2> QED
    BY <2>2 DEF Weigh, ScoreOf
<1>5. Window - ScoreOf(Newer(b, s)) <= 0
  BY <1>3, <1>4, NumbersAssumption
<1>6. InWindow(b, s) = 0
  BY <1>5 DEF InWindow, Newer
<1> QED
  BY <1>2, <1>6

\* The rows PPLNS and PPLNSBF delete with one block are never rows that a block still
\* pending needs (DeleteSharesBeforeAsync), whatever ties, page boundaries and stops,
\* as long as runs confirm blocks in order.
THEOREM PendingSharesStay ==
    ASSUME ~SkipsBlocks
    PROVE  Spec => []PendingSharesKept
<1> DEFINE I == ScanAll /\ WindowInv /\ OrderInv /\ KeepInv
<1>1. Init => I
  <2> SUFFICES ASSUME Init PROVE I
    OBVIOUS
  <2>1. DOMAIN archive = {} /\ task = "idle" /\ run = {}
    BY DEF Init
  <2> QED
    BY <2>1, ScanAllNext, Zenon DEF WindowInv, OrderInv, KeepInv
<1>2. I /\ [Next]_vars => I'
  <2>1. ScanAll => ShapeInv
    BY DEF ScanAll
  <2> QED
    BY <2>1, ScanAllNext, WindowNext, OrderNext, KeepNext
<1>3. I => PendingSharesKept
  BY KeptEnough
<1> QED
  BY <1>1, <1>2, <1>3, PTL DEF Spec

-----------------------------------------------------------------------------
(* The branches that "should never happen". *)

\* The share a pending block was found with is still a row.
OwnInv ==
    scheme # "SOLO" => \A b \in Pending : \E s \in shares :
        Created(s) = blocks[b].created /\ archive[s].miner = blocks[b].miner

\* PPLNSBF credits the finder and miners with a counted share.
CreditInv ==
    scheme = "PPLNSBF" /\ task # "idle" => \A m \in Miners :
        rewards[m] > 0 => m = blocks[block].miner \/ \E s \in counted : archive[s].miner = m

\* PROP leaves the loop after its last page, unless the host is stopped.
LastPageInv == ~MayStop /\ scheme = "PROP" /\ task = "write" => done = TRUE

\* The share of a pending block is never among the discarded.
LEMMA OwnNext ==
    ASSUME ScanAll, OrderInv, OwnInv, [Next]_vars
    PROVE  OwnInv'
<1>t. Tables /\ Control /\ Locals /\ ShapeInv /\ ScanInv /\ TimeInv
  BY DEF ScanAll, ShapeInv
<1>1. ASSUME NEW m \in Miners, NEW score \in Scores, NEW isBlock \in BOOLEAN,
             StoreShare(m, score, isBlock)
      PROVE  OwnInv'
  <2>1. PICK n : Stores(n, m, score)
    BY <1>1, <1>t, StoreNew
  <2>2. /\ shares' = shares \cup {n} /\ archive'[n] = [miner |-> m, created |-> now, score |-> score]
        /\ \A s \in DOMAIN archive : archive'[s] = archive[s]
        /\ \A b \in DOMAIN blocks : blocks'[b] = blocks[b]
        /\ \A b \in Pending' : b \in Pending \/ (blocks'[b].created = now /\ blocks'[b].miner = m)
        /\ scheme' = scheme /\ shares \subseteq DOMAIN archive
    BY <1>t, <2>1 DEF Stores, Tables
  <2>3. Created(n)' = now /\ archive'[n].miner = m /\ n \in shares'
    BY <2>2 DEF Created
  <2>4. \A s \in shares : Created(s)' = Created(s) /\ archive'[s].miner = archive[s].miner /\ s \in shares'
    BY <2>2 DEF Created
  <2>5. \A b \in Pending : b \in DOMAIN blocks
    BY DEF Pending
  <2>6. SUFFICES ASSUME scheme # "SOLO", NEW b \in Pending'
                 PROVE  \E s \in shares' : Created(s)' = blocks'[b].created /\ archive'[s].miner = blocks'[b].miner
    BY <2>2 DEF OwnInv
  <2>7. CASE b \in Pending
    <3>1. PICK s \in shares : Created(s) = blocks[b].created /\ archive[s].miner = blocks[b].miner
      BY <2>6, <2>7 DEF OwnInv
    <3> QED
      BY <2>2, <2>4, <2>5, <2>7, <3>1
  <2>8. CASE b \notin Pending
    BY <2>2, <2>3, <2>8
  <2> QED
    BY <2>7, <2>8
<1>2. ASSUME NEW b \in DOMAIN blocks, OrphanBlock(b) PROVE OwnInv'
  <2>1. /\ blocks' = [blocks EXCEPT ![b].status = "orphaned"]
        /\ UNCHANGED <<scheme, archive, shares>>
    BY <1>2 DEF OrphanBlock
  <2>2. /\ DOMAIN blocks' = DOMAIN blocks
        /\ \A c \in DOMAIN blocks : blocks'[c].created = blocks[c].created /\ blocks'[c].miner = blocks[c].miner
        /\ \A c \in DOMAIN blocks : c # b => blocks'[c].status = blocks[c].status
        /\ blocks'[b].status = "orphaned"
    BY <1>t, <2>1, StatusUpdate DEF Tables
  <2>3. \A c \in Pending' : c \in Pending /\ c \in DOMAIN blocks
    BY <2>2 DEF Pending
  <2> QED
    BY <2>1, <2>2, <2>3 DEF OwnInv, Created
<1>3. CASE Write
  <2>1. /\ task = "write" /\ block \in DOMAIN blocks
        /\ \A c \in DOMAIN blocks : blocks'[c].created = blocks[c].created /\ blocks'[c].miner = blocks[c].miner
        /\ Pending' = Pending \ {block}
        /\ shares' = shares \ Discarded /\ UNCHANGED <<scheme, archive>>
    BY <1>3, <1>t, WriteFacts
  <2>2. SUFFICES ASSUME scheme # "SOLO", NEW c \in Pending, NEW s \in shares,
                        Created(s) = blocks[c].created
                 PROVE  s \notin Discarded
    <3>1. \A c \in Pending : c \in DOMAIN blocks
      BY DEF Pending
    <3> QED
      BY <2>1, <3>1 DEF OwnInv, Created
  <2>3. SUFFICES ASSUME cutoff # 0, Created(s) < cutoff PROVE FALSE
    BY <2>2 DEF Discarded, SharesBefore
  <2>4. PICK u \in counted : cutoff = Created(u) /\ u \in shares /\ Created(u) <= blocks[block].created
    BY <1>t, <2>1, <2>2, <2>3 DEF ScanInv, Scanning, NoGaps, Rows
  <2>5. blocks[block].created <= blocks[c].created /\ c \in DOMAIN blocks
    BY <1>t, <2>1, PendingLater
  <2>6. /\ blocks[block].created \in Nat /\ blocks[c].created \in Nat
        /\ Created(u) \in Nat
    BY <1>t, <2>1, <2>4, <2>5, BlockFacts, ScorePositive DEF Tables, Created
  <2> QED
    BY <2>2, <2>3, <2>4, <2>5, <2>6
<1>4. CASE UNCHANGED tables
  BY <1>4 DEF tables, OwnInv, Pending, Created
<1> QED
  BY <1>1, <1>2, <1>3, <1>4, TableSteps, ZenonT(60)

\* A reward is credited together with a counted share.
LEMMA CreditNext ==
    ASSUME ScanAll, CreditInv, LastPageInv, [Next]_vars
    PROVE  CreditInv' /\ LastPageInv'
<1>t. Tables /\ Control /\ Locals /\ ShapeInv /\ ScanInv
  BY DEF ScanAll, ShapeInv
<1>i. task' = "idle" => CreditInv' /\ LastPageInv'
  BY DEF CreditInv, LastPageInv
<1>s. ASSUME task # "idle", UNCHANGED <<scheme, archive, blocks, block, rewards, counted>>
      PROVE  CreditInv'
  BY <1>s DEF CreditInv
<1>1. ASSUME NEW m \in Miners, NEW score \in Scores, NEW isBlock \in BOOLEAN,
             StoreShare(m, score, isBlock)
      PROVE  CreditInv' /\ LastPageInv'
  <2>1. PICK n : Stores(n, m, score)
    BY <1>1, <1>t, StoreNew
  <2>2. /\ \A s \in DOMAIN archive : archive'[s] = archive[s]
        /\ \A b \in DOMAIN blocks : blocks'[b] = blocks[b]
        /\ UNCHANGED <<scheme, task, block, done, rewards, counted>>
    BY <2>1 DEF Stores
  <2>3. counted \subseteq DOMAIN archive /\ (task # "idle" => block \in DOMAIN blocks)
    BY <1>t DEF Locals, Control, IsNextBlock, Pending
  <2> QED
    BY <2>2, <2>3 DEF CreditInv, LastPageInv
<1>2. CASE \E b \in DOMAIN blocks : OrphanBlock(b)
  <2>1. run = {} /\ task' = task
    BY <1>2 DEF OrphanBlock, locals
  <2> QED
    BY <1>i, <1>t, <2>1 DEF Control, IsNextBlock
<1>3. ASSUME NEW b \in DOMAIN blocks, BeginBlock(b) PROVE CreditInv' /\ LastPageInv'
  <2>1. /\ rewards' = [Nobody EXCEPT ![blocks[b].miner] = FinderReward] /\ task' = "loop"
        /\ block' = b /\ blocks' = blocks
    BY <1>3 DEF BeginBlock, Start, tables
  <2>2. \A m \in Miners : m # blocks[b].miner => rewards'[m] = 0
    BY <2>1 DEF Nobody
  <2>3. \A m \in Miners : rewards'[m] > 0 => m = blocks[b].miner
    BY <2>2
  <2> QED
    BY <2>1, <2>3 DEF CreditInv, LastPageInv
<1>4. CASE \E b \in DOMAIN blocks : BeginSolo(b)
  <2>1. scheme' = "SOLO"
    BY <1>4 DEF BeginSolo, tables
  <2> QED
    BY <2>1 DEF CreditInv, LastPageInv
<1>5. CASE ReadPage \/ NextPage
  <2>1. task # "idle" /\ task' # "write" /\ UNCHANGED <<scheme, archive, blocks, block, rewards, counted>>
    BY <1>5 DEF ReadPage, NextPage, tables, sumVars
  <2> QED
    BY <1>s, <2>1 DEF LastPageInv
<1>6. CASE LeaveLoop
  <2>1. /\ task = "loop" /\ UNCHANGED <<scheme, archive, blocks, block, rewards, counted, done>>
        /\ done \/ stopping = "yes"
    BY <1>6 DEF LeaveLoop, tables, sumVars
  <2>2. scheme = "PROP" => ~done
    BY <1>t, <2>1 DEF ScanInv, Scanning
  <2>3. scheme = "PROP" => MayStop
    BY <1>t, <2>1, <2>2 DEF Control
  <2> QED
    BY <1>s, <2>1, <2>3 DEF LastPageInv
<1>7. CASE LastPage
  <2>1. /\ task = "rows" /\ UNCHANGED <<scheme, archive, blocks, block, rewards, counted>>
        /\ done' = (done \/ scheme = "PROP")
    BY <1>7 DEF LastPage, tables
  <2>2. scheme' = "PROP" => done' = TRUE
    BY <2>1
  <2> QED
    BY <1>s, <2>1, <2>2 DEF LastPageInv
<1>8. CASE CountPPLNS
  <2>0. PICK s : s = page[row]
    OBVIOUS
  <2>1. /\ UNCHANGED <<scheme, archive, blocks, block, task>> /\ task = "rows"
        /\ rewards' = [rewards EXCEPT ![archive[s].miner] = @ + RewardOf(s)]
        /\ counted' = counted \cup {s}
    BY <1>8, <2>0 DEF CountPPLNS, tables
  <2>2. rewards \in [Miners -> Nat]
    BY <1>t DEF Locals
  <2>3. \A m \in Miners : m # archive[s].miner => rewards'[m] = rewards[m]
    BY <2>1, <2>2
  <2>4. ASSUME scheme = "PPLNSBF", NEW m \in Miners, rewards'[m] > 0
        PROVE  m = blocks[block].miner \/ \E r \in counted' : archive[r].miner = m
    <3>1. CASE m = archive[s].miner
      BY <2>1, <3>1
    <3>2. CASE m # archive[s].miner
      <4>1. rewards[m] > 0
        BY <2>3, <2>4, <3>2
      <4> QED
        BY <2>1, <2>4, <4>1 DEF CreditInv
    <3> QED
      BY <3>1, <3>2
  <2> QED
    BY <2>1, <2>4 DEF CreditInv, LastPageInv
<1>9. CASE CountPROP
  <2>1. scheme' = "PROP" /\ task' # "write"
    BY <1>9 DEF CountPROP, tables
  <2> QED
    BY <2>1 DEF CreditInv, LastPageInv
<1>10. CASE Write \/ Aborts
  <2>1. task' = "idle"
    BY <1>10 DEF Write, Commit, Aborts, EndTask
  <2> QED
    BY <1>i, <2>1
<1>11. CASE (\E S \in SUBSET Pending : StartRun(S)) \/ Stop \/ UNCHANGED vars
  <2>1. UNCHANGED <<tables, locals>>
    BY <1>11 DEF StartRun, Stop, vars
  <2>2. UNCHANGED <<scheme, archive, blocks, block, task, rewards, counted, done>>
    BY <2>1 DEF tables, locals, sumVars
  <2> QED
    BY <2>2 DEF CreditInv, LastPageInv
<1> QED
  BY <1>1, <1>2, <1>3, <1>4, <1>5, <1>6, <1>7, <1>8, <1>9, <1>10, <1>11, Cases, ZenonT(60)

\* With something to distribute, what remains of the reward outlasts the window.
LEMMA NoOverflow ==
    ASSUME ~MayStop, BlockReward > 0, FinderPercent < 100, ScanAll, LastPageInv
    PROVE  ~Overflow
<1>t. Locals /\ ShapeInv
  BY DEF ScanAll, ShapeInv
<1>1. ASSUME task = "rows", PPLNS, MoreRows, remaining - RewardOf(page[row]) <= 0, ~Crosses(page[row])
      PROVE  FALSE
  <2> DEFINE x == Score(page[row])
             q == RewardOf(page[row])
             D == Distributed
  <2>1. /\ x \in Nat /\ q \in Nat /\ acc + x < Window
        /\ (remaining - q) * Window >= D * (Window - (acc + x))
    BY <1>1, <1>t, RowFacts
  <2>2. D \in Nat /\ D > 0
    <3>1. BlockReward \in Nat /\ FinderPercent \in Nat
      BY NumbersAssumption
    <3>2. FinderReward < BlockReward
      <4>1. BlockReward * FinderPercent \in Nat /\ BlockReward * FinderPercent < BlockReward * 100
        BY <3>1
      <4>2. (BlockReward * FinderPercent) \div 100 \in Nat
            /\ ((BlockReward * FinderPercent) \div 100) * 100 <= BlockReward * FinderPercent
        BY <4>1, DivFacts
      <4>3. (BlockReward * FinderPercent) \div 100 < BlockReward
        BY <3>1, <4>1, <4>2
      <4> QED
        BY <3>1, <4>3 DEF FinderReward
    <3> QED
      BY <3>1, <3>2, FinderFacts DEF D
  <2>3. remaining \in Nat /\ acc \in Nat /\ Window \in Nat /\ Window > 0
    BY <1>t, NumbersAssumption DEF Locals
  <2>4. remaining - q <= 0
    BY <1>1
  <2> HIDE DEF x, q, D
  <2>5. Window - (acc + x) \in Nat /\ Window - (acc + x) >= 1
    BY <2>1, <2>3
  <2>6. D * 1 <= D * (Window - (acc + x)) /\ D * (Window - (acc + x)) \in Int
    BY <2>2, <2>5, ProductMonotone
  <2>7. (remaining - q) * Window <= 0 * Window /\ (remaining - q) * Window \in Int
    BY <2>1, <2>3, <2>4, ProductMonotone
  <2> QED
    BY <2>1, <2>2, <2>3, <2>6, <2>7
<1>2. ~(task = "write" /\ scheme = "PROP" /\ ~done)
  BY DEF LastPageInv
<1> QED
  BY <1>1, <1>2 DEF Overflow

\* When the rewards are written, the finder's own share has been counted.
LEMMA NoMissingKey ==
    ASSUME DistinctTimes, ~MayStop, ScanAll, CompleteInv, WindowInv, OwnInv, CreditInv, task = "write"
    PROVE  ~MissingKey
<1>t. Tables /\ Control /\ Locals /\ ScanInv /\ TimeInv
  BY DEF ScanAll, ShapeInv
<1>1. SUFFICES ASSUME scheme = "PPLNSBF", NEW m \in Miners, rewards[m] > 0,
                      \A s \in counted : archive[s].miner # m
               PROVE  FALSE
  BY DEF MissingKey
<1>2. m = blocks[block].miner
  BY <1>1 DEF CreditInv
<1>3. block \in Pending /\ block \in DOMAIN blocks
  BY <1>t DEF Control, IsNextBlock, Pending
<1>4. PICK s \in shares : Created(s) = blocks[block].created /\ archive[s].miner = m
  BY <1>1, <1>2, <1>3 DEF OwnInv
<1>5. /\ blocks[block].created \in Nat /\ s \in DOMAIN archive
      /\ \A r \in counted : r \in DOMAIN archive /\ Created(r) \in Nat
  BY <1>3, <1>4, <1>t, BlockFacts, ScorePositive DEF Tables, Locals, Created
<1>6. s \in Rows /\ s \in UpTo(block)
  BY <1>4, <1>5 DEF Rows, UpTo
<1>7. Seen(s) => s \in counted
  BY <1>5, <1>t DEF Seen, TimeInv
<1>8. NoGaps /\ PPLNS /\ Scanning
  BY <1>1, <1>t DEF ScanInv, Scanning, PPLNS
<1>9. CASE done = FALSE
  BY <1>1, <1>4, <1>6, <1>7, <1>8, <1>9 DEF CompleteInv
<1>10. CASE done = TRUE
  <2>1. cutoff # 0
    BY <1>8, <1>10 DEF WindowInv
  <2>2. PICK t \in counted : cutoff = Created(t)
    BY <1>8, <2>1 DEF NoGaps
  <2>3. Created(t) <= Created(s) /\ Created(t) \in Nat /\ Created(s) \in Nat
    BY <1>4, <1>5, <1>8, <2>2 DEF NoGaps, Rows
  <2>4. CASE Created(t) = Created(s)
    BY <1>1, <1>4, <1>7, <2>2, <2>4 DEF Seen
  <2>5. CASE Created(s) > Created(t)
    BY <1>1, <1>4, <1>6, <1>7, <1>8, <2>2, <2>5 DEF NoGaps
  <2> QED
    BY <2>3, <2>4, <2>5
<1> QED
  BY <1>9, <1>10, <1>t, Zenon DEF Locals

\* Which steps report that something happened that should not.
LEMMA Throws ==
    ASSUME [Next]_vars
    PROVE  failure' \in {failure, "none", "cancelled", "database"} \/ Overflow \/ (task = "write" /\ MissingKey)
<1>1. (\E m \in Miners, score \in Scores, isBlock \in BOOLEAN : StoreShare(m, score, isBlock))
        => failure' = failure
  BY DEF StoreShare
<1>2. (\E S \in SUBSET Pending : StartRun(S)) => failure' = "none"
  BY DEF StartRun
<1>3. (\E b \in DOMAIN blocks : OrphanBlock(b) \/ BeginBlock(b) \/ BeginSolo(b)) => failure' = failure
  BY DEF OrphanBlock, BeginBlock, BeginSolo
<1>4. ReadPage \/ LeaveLoop \/ CountPPLNS \/ CountPROP \/ NextPage \/ LastPage \/ Write => failure' = failure
  BY DEF ReadPage, LeaveLoop, CountPPLNS, CountPROP, NextPage, LastPage, Write, Commit
<1>5. ReadCancelled \/ ThrowCancelled \/ DatabaseFails => failure' \in {"cancelled", "database"}
  BY DEF ReadCancelled, ThrowCancelled, DatabaseFails, Throw
<1>6. ThrowOverflow => Overflow
  BY DEF ThrowOverflow
<1>7. ThrowMissingKey => task = "write" /\ MissingKey
  BY DEF ThrowMissingKey
<1>8. Stop \/ Restart \/ UNCHANGED vars => failure' = failure
  BY DEF Stop, Restart, vars
<1>9. Next \/ UNCHANGED vars
  OBVIOUS
<1> QED
  BY <1>1, <1>2, <1>3, <1>4, <1>5, <1>6, <1>7, <1>8, <1>9, ZenonT(60) DEF Next, Step

\* What the proofs about PPLNS need, for orderly operation.
Orderly ==
    /\ ScanAll /\ CompleteInv /\ WindowInv /\ OrderInv /\ KeepInv
    /\ OwnInv /\ CreditInv /\ LastPageInv

\* It is inductive as long as runs confirm blocks in order.
LEMMA OrderlyNext ==
    ASSUME ~SkipsBlocks
    PROVE  (Init => Orderly) /\ (Orderly /\ [Next]_vars => Orderly')
<1>1. ASSUME Init PROVE Orderly
  <2>1. DOMAIN archive = {} /\ DOMAIN blocks = {} /\ task = "idle" /\ run = {}
    BY <1>1 DEF Init
  <2> QED
    BY <1>1, <2>1, ScanAllNext, Zenon
    DEF Orderly, CompleteInv, WindowInv, OrderInv, KeepInv, OwnInv, CreditInv, LastPageInv, Pending
<1>2. ASSUME Orderly, [Next]_vars PROVE Orderly'
  <2>1. /\ ScanAll /\ CompleteInv /\ WindowInv /\ OrderInv /\ KeepInv
        /\ OwnInv /\ CreditInv /\ LastPageInv /\ ShapeInv
    BY <1>2 DEF Orderly, ScanAll
  <2>2. ScanAll' /\ CompleteInv' /\ WindowInv' /\ OrderInv'
    BY <1>2, <2>1, ScanAllNext, CompleteNext, WindowNext, OrderNext, ZenonT(30)
  <2>3. KeepInv' /\ OwnInv' /\ CreditInv' /\ LastPageInv'
    BY <1>2, <2>1, KeepNext, OwnNext, CreditNext, ZenonT(30)
  <2> QED
    BY <2>2, <2>3 DEF Orderly
<1> QED
  BY <1>1, <1>2

\* No scheme ends a run through a branch that "should never happen": what remains of
\* the reward lasts until the window is full, and the finder that PPLNSBF credits has
\* a counted share (CalculateRewardsAsync, UpdateBalancesAsync); for shares with
\* distinct times, runs in order and no stop, when there is something to distribute.
THEOREM SchemesDoNotThrow ==
    ASSUME DistinctTimes, ~SkipsBlocks, ~MayStop, BlockReward > 0, FinderPercent < 100
    PROVE  Spec => []SchemeNeverThrows
<1> DEFINE I == Orderly /\ SchemeNeverThrows
<1>1. Init => I
  BY OrderlyNext DEF Init, SchemeNeverThrows
<1>2. I /\ [Next]_vars => I'
  <2> SUFFICES ASSUME I, [Next]_vars PROVE SchemeNeverThrows'
    BY OrderlyNext
  <2>1. ScanAll /\ CompleteInv /\ WindowInv /\ OwnInv /\ CreditInv /\ LastPageInv
    BY DEF Orderly
  <2>2. ~Overflow
    BY <2>1, NoOverflow
  <2>3. ~(task = "write" /\ MissingKey)
    BY <2>1, NoMissingKey
  <2>4. failure' \in {failure, "none", "cancelled", "database"}
    BY <2>2, <2>3, Throws
  <2> QED
    BY <2>4 DEF SchemeNeverThrows
<1>3. I => SchemeNeverThrows
  OBVIOUS
<1> QED
  BY <1>1, <1>2, <1>3, PTL DEF Spec

-----------------------------------------------------------------------------
(* PPLNS and PPLNSBF distribute what their definition says. *)

\* The part of the reward that each share up to block b is due.
Parts(b) == [s \in UpTo(b) |-> (InWindow(b, s) * Distributed) \div Window]

\* What miner m is due for the shares in S.
Credit(b, m, S) ==
    (IF m = blocks[b].miner THEN FinderReward ELSE 0)
    + SumFunctionOnSet(Parts(b), {s \in S : archive[s].miner = m})

\* The rewards so far are what the counted shares are due.
RewardInv ==
    PPLNS /\ task # "idle" => \A m \in Miners : rewards[m] = Credit(block, m, counted)

\* Parts of the reward are natural numbers; nothing is due below a full window.
LEMMA PartsFacts ==
    ASSUME Tables, NEW b
    PROVE  /\ IsFiniteSet(UpTo(b)) /\ UpTo(b) \subseteq DOMAIN archive
           /\ \A s \in UpTo(b) :
                /\ Parts(b)[s] \in Nat
                /\ Parts(b)[s] = (InWindow(b, s) * Distributed) \div Window
                /\ ScoreOf(Newer(b, s)) \in Nat
                /\ ScoreOf(Newer(b, s)) >= Window => Parts(b)[s] = 0
<1>1. archive \in Seq(ShareRow) /\ DOMAIN archive = 1..Len(archive) /\ Len(archive) \in Nat
  BY DEF Tables
<1>2. IsFiniteSet(DOMAIN archive)
  BY <1>1, FS_Interval
<1>3. UpTo(b) \subseteq DOMAIN archive
  BY DEF UpTo
<1>4. IsFiniteSet(UpTo(b))
  BY <1>2, <1>3, FS_Subset
<1>5. ASSUME NEW s \in UpTo(b)
      PROVE  /\ Parts(b)[s] \in Nat
             /\ Parts(b)[s] = (InWindow(b, s) * Distributed) \div Window
             /\ ScoreOf(Newer(b, s)) \in Nat
             /\ ScoreOf(Newer(b, s)) >= Window => Parts(b)[s] = 0
  <2>1. Newer(b, s) \in SUBSET DOMAIN archive
    BY DEF Newer, UpTo
  <2>2. Weigh(archive, Newer(b, s)) \in Nat
    BY <1>1, <2>1, WeighFacts
  <2>3. ScoreOf(Newer(b, s)) \in Nat
    BY <2>2 DEF ScoreOf, Weigh
  <2>4. archive[s].score \in Nat /\ Window \in Nat /\ Window > 0 /\ Distributed \in Nat
    BY <1>3, ScorePositive, NumbersAssumption, FinderFacts
  <2>5. InWindow(b, s) = IF Window - ScoreOf(Newer(b, s)) <= 0 THEN 0
                         ELSE IF Window - ScoreOf(Newer(b, s)) < archive[s].score
                                THEN Window - ScoreOf(Newer(b, s)) ELSE archive[s].score
    BY DEF InWindow, Newer
  <2>6. InWindow(b, s) \in Nat /\ (ScoreOf(Newer(b, s)) >= Window => InWindow(b, s) = 0)
    BY <2>3, <2>4, <2>5
  <2>7. Parts(b)[s] = (InWindow(b, s) * Distributed) \div Window
    BY DEF Parts
  <2>8. Parts(b)[s] \in Nat
    BY <2>4, <2>6, <2>7, ProductNat, DivFacts
  <2>9. ASSUME InWindow(b, s) = 0 PROVE Parts(b)[s] = 0
    <3>1. InWindow(b, s) * Distributed = 0
      BY <2>4, <2>9
    <3> QED
      BY <2>4, <2>7, <3>1
  <2> QED
    BY <2>3, <2>6, <2>7, <2>8, <2>9
<1> QED
  BY <1>3, <1>4, <1>5

\* The reward that is due for a block does not change while no share is added to it.
LEMMA DueKept ==
    ASSUME Tables, NEW b, UpTo(b)' = UpTo(b), DOMAIN archive \subseteq DOMAIN archive',
           \A s \in DOMAIN archive : archive'[s] = archive[s],
           scheme' = scheme, blocks'[b].miner = blocks[b].miner
    PROVE  /\ Due(b)' = Due(b)
           /\ \A m \in Miners, S \in SUBSET UpTo(b) : Credit(b, m, S)' = Credit(b, m, S)
<1>1. FinderReward' = FinderReward /\ Distributed' = Distributed
  BY DEF FinderReward, Distributed
<1>2. UpTo(b) \subseteq DOMAIN archive /\ archive \in Seq(ShareRow)
  BY DEF UpTo, Tables
<1>3. ASSUME NEW s \in UpTo(b) PROVE InWindow(b, s)' = InWindow(b, s)
  <2>1. PICK N : N = {t \in UpTo(b) : Created(t) > Created(s)}
    OBVIOUS
  <2>2. {t \in UpTo(b) : Created(t) > Created(s)}' = N
    BY <1>2, <2>1 DEF Created
  <2>3. Weigh(archive', N) = Weigh(archive, N)
    BY <1>2, <2>1, WeighKept
  <2>4. ScoreOf({t \in UpTo(b) : Created(t) > Created(s)})' = ScoreOf({t \in UpTo(b) : Created(t) > Created(s)})
    BY <2>1, <2>2, <2>3 DEF ScoreOf, Weigh
  <2>5. archive'[s].score = archive[s].score
    BY <1>2
  <2> QED
    BY <2>4, <2>5 DEF InWindow
<1>4. Parts(b)' = Parts(b)
  BY <1>1, <1>3 DEF Parts
<1>5. ASSUME NEW m \in Miners, NEW S \in SUBSET UpTo(b)
      PROVE  Credit(b, m, S)' = Credit(b, m, S)
  <2>1. {s \in S : archive'[s].miner = m} = {s \in S : archive[s].miner = m}
    BY <1>2
  <2> QED
    BY <1>1, <1>4, <2>1 DEF Credit
<1>6. Due(b) = [m \in Miners |-> Credit(b, m, UpTo(b))]
  BY DEF Due, Credit, Parts
<1>7. Due(b)' = [m \in Miners |-> Credit(b, m, UpTo(b))']
  BY DEF Due, Credit, Parts
<1>8. PICK U : U = UpTo(b)
  OBVIOUS
<1>9. \A m \in Miners : Credit(b, m, UpTo(b))' = Credit(b, m, UpTo(b))
  <2>1. \A m \in Miners : Credit(b, m, U)' = Credit(b, m, U)
    BY <1>5, <1>8
  <2>2. \A m \in Miners : Credit(b, m, UpTo(b))' = Credit(b, m, U)'
    BY <1>8 DEF Credit
  <2> QED
    BY <1>8, <2>1, <2>2
<1> QED
  BY <1>5, <1>6, <1>7, <1>9

\* With distinct times the score a share is counted with is its score in the window.
LEMMA RewardIsDue ==
    ASSUME DistinctTimes, ScanAll, WindowInv, PPLNS, task = "rows", MoreRows, NEW s, s = page[row]
    PROVE  /\ s \in UpTo(block) /\ s \notin counted /\ counted \subseteq UpTo(block)
           /\ RewardOf(s) = Parts(block)[s]
<1>t. Tables /\ Locals /\ ShapeInv /\ ScanInv /\ TimeInv /\ DeletedInv
  BY DEF ScanAll, ShapeInv
<1>1. /\ s \in shares /\ s \in DOMAIN archive /\ s \notin counted /\ s \in Rows /\ counted \subseteq Rows
      /\ \A u \in counted : Created(u) >= Created(s)
  BY CountedNewer
<1>2. Rows \subseteq UpTo(block) /\ UpTo(block) \subseteq DOMAIN archive
  BY <1>t DEF Rows, UpTo, Tables
<1>3. \A u \in DOMAIN archive : Created(u) \in Int
  BY <1>t, ScorePositive DEF Created
<1>4. \A u \in counted : u \in Newer(block, s)
  <2>1. ASSUME NEW u \in counted PROVE Created(u) > Created(s)
    <3>1. u \in DOMAIN archive /\ u # s
      BY <1>1, <1>2
    <3>2. Created(u) # Created(s)
      BY <1>1, <1>t, <3>1 DEF TimeInv
    <3> QED
      BY <1>1, <1>3, <3>1, <3>2
  <2> QED
    BY <1>1, <1>2, <2>1 DEF Newer
<1>5. \A u \in Newer(block, s) : u \in counted
  <2>1. ASSUME NEW u \in UpTo(block), Created(u) > Created(s) PROVE u \in counted
    <3>1. Seen(u)
      BY <1>t, <2>1, SeenNewer
    <3>2. PICK r \in counted : Created(r) = Created(u)
      BY <3>1 DEF Seen
    <3>3. r \in DOMAIN archive /\ u \in DOMAIN archive
      BY <1>1, <1>2
    <3> QED
      BY <1>t, <3>2, <3>3 DEF TimeInv
  <2> QED
    BY <2>1 DEF Newer
<1>6. Newer(block, s) = counted
  BY <1>4, <1>5
<1>7. done = FALSE
  BY <1>t DEF MoreRows, Locals
<1>8. ScoreOf(Newer(block, s)) = acc
  BY <1>6, <1>7 DEF WindowInv
<1>9. acc \in Nat /\ acc < Window /\ Window \in Nat /\ archive[s].score \in Nat
  BY <1>1, <1>7, <1>t, ScorePositive, NumbersAssumption DEF ShapeInv, Sums, Locals
<1>10. InWindow(block, s) = IF Window - acc < archive[s].score THEN Window - acc ELSE archive[s].score
  BY <1>8, <1>9 DEF InWindow, Newer
<1>11. Score(s) = InWindow(block, s)
  BY <1>9, <1>10 DEF Score, Crosses
<1>12. Parts(block)[s] = (InWindow(block, s) * Distributed) \div Window
  BY <1>1, <1>2 DEF Parts
<1> QED
  BY <1>1, <1>2, <1>11, <1>12 DEF RewardOf

\* The counted shares of miner m, when share s is added.
LEMMA CreditCount ==
    ASSUME Tables, NEW b, NEW S \in SUBSET UpTo(b), NEW s \in UpTo(b), s \notin S, NEW m
    PROVE  Credit(b, m, S \cup {s}) = Credit(b, m, S) + (IF archive[s].miner = m THEN Parts(b)[s] ELSE 0)
<1>1. IsFiniteSet(UpTo(b)) /\ \A r \in UpTo(b) : Parts(b)[r] \in Nat /\ Parts(b)[r] \in Int
  BY PartsFacts
<1>2. PICK T : T = {r \in S : archive[r].miner = m}
  OBVIOUS
<1>3. T \in SUBSET UpTo(b) /\ s \notin T
  BY <1>2
<1>4. SumFunctionOnSet(Parts(b), T) \in Int
  BY <1>1, <1>3, SumInt
<1>5. SumFunctionOnSet(Parts(b), T \cup {s}) = SumFunctionOnSet(Parts(b), T) + Parts(b)[s]
  BY <1>1, <1>3, SumInsert
<1>6. PICK F : F = (IF m = blocks[b].miner THEN FinderReward ELSE 0)
  OBVIOUS
<1>f. F \in Int
  BY <1>6, FinderFacts
<1>c. Credit(b, m, S) = F + SumFunctionOnSet(Parts(b), T)
  BY <1>2, <1>6 DEF Credit
<1>7. CASE archive[s].miner = m
  <2>1. {r \in S \cup {s} : archive[r].miner = m} = T \cup {s}
    BY <1>2, <1>7
  <2>2. Credit(b, m, S \cup {s}) = F + SumFunctionOnSet(Parts(b), T \cup {s})
    BY <1>6, <2>1 DEF Credit
  <2>3. Credit(b, m, S \cup {s}) = Credit(b, m, S) + Parts(b)[s]
    BY <1>1, <1>4, <1>5, <1>f, <1>c, <2>2
  <2> QED
    BY <1>7, <2>3
<1>8. CASE archive[s].miner # m
  <2>1. {r \in S \cup {s} : archive[r].miner = m} = T
    BY <1>2, <1>8
  <2>2. Credit(b, m, S \cup {s}) = F + SumFunctionOnSet(Parts(b), T)
    BY <1>6, <2>1 DEF Credit
  <2>3. Credit(b, m, S \cup {s}) = Credit(b, m, S) + 0
    BY <1>4, <1>f, <1>c, <2>2
  <2> QED
    BY <1>8, <2>3
<1> QED
  BY <1>7, <1>8

\* With distinct times a new share does not belong to a block there already is.
LEMMA UpToStays ==
    ASSUME Tables, TimeInv, DistinctTimes, NEW b \in DOMAIN blocks, NEW n, NEW m, NEW score,
           DOMAIN archive' = DOMAIN archive \cup {n}, n \notin DOMAIN archive,
           archive'[n] = [miner |-> m, created |-> now, score |-> score],
           \A s \in DOMAIN archive : archive'[s] = archive[s], blocks'[b] = blocks[b]
    PROVE  UpTo(b)' = UpTo(b)
<1>1. blocks[b].created < now /\ blocks[b].created \in Nat /\ now \in Nat
  BY NewIsYounger, BlockFacts DEF Tables
<1>2. ~(archive'[n].created <= blocks'[b].created)
  BY <1>1
<1> QED
  BY <1>2 DEF UpTo, Created

\* The rewards follow the counted shares.
LEMMA RewardNext ==
    ASSUME DistinctTimes, ScanAll, WindowInv, RewardInv, [Next]_vars
    PROVE  RewardInv'
<1>t. Tables /\ Control /\ Locals /\ ShapeInv /\ ScanInv /\ TimeInv
  BY DEF ScanAll, ShapeInv
<1>i. task' = "idle" \/ ~PPLNS' => RewardInv'
  BY DEF RewardInv
<1>c. PPLNS /\ task # "idle" => counted \subseteq UpTo(block) /\ block \in DOMAIN blocks
  <2>1. Rows \subseteq UpTo(block)
    BY <1>t DEF Rows, UpTo, Tables
  <2> QED
    BY <1>t, <2>1 DEF ScanInv, Scanning, NoGaps, PPLNS, Control, IsNextBlock, Pending
<1>s. ASSUME UNCHANGED <<tables, task, block, rewards, counted>> PROVE RewardInv'
  BY <1>s DEF RewardInv, PPLNS, Credit, Parts, UpTo, InWindow, ScoreOf, Created, FinderReward, Distributed, tables
<1>1. ASSUME NEW m \in Miners, NEW score \in Scores, NEW isBlock \in BOOLEAN,
             StoreShare(m, score, isBlock)
      PROVE  RewardInv'
  <2>1. PICK n : Stores(n, m, score)
    BY <1>1, <1>t, StoreNew
  <2>2. /\ DOMAIN archive' = DOMAIN archive \cup {n} /\ n \notin DOMAIN archive
        /\ archive'[n] = [miner |-> m, created |-> now, score |-> score]
        /\ \A s \in DOMAIN archive : archive'[s] = archive[s]
        /\ \A b \in DOMAIN blocks : blocks'[b] = blocks[b]
        /\ UNCHANGED <<scheme, task, block, rewards, counted>>
    BY <2>1 DEF Stores
  <2>3. SUFFICES ASSUME PPLNS, task # "idle" PROVE RewardInv'
    BY <1>i, <2>2 DEF PPLNS
  <2>4. PICK b : b = block
    OBVIOUS
  <2>5. PICK S : S = counted
    OBVIOUS
  <2>6. b \in DOMAIN blocks /\ S \in SUBSET UpTo(b)
    BY <1>c, <2>3, <2>4, <2>5
  <2>7. UpTo(b)' = UpTo(b)
    BY <1>t, <2>2, <2>6, UpToStays
  <2>8. \A k \in Miners : Credit(b, k, S)' = Credit(b, k, S)
    BY <1>t, <2>2, <2>6, <2>7, DueKept
  <2>9. \A k \in Miners : Credit(block, k, counted)' = Credit(b, k, S)'
    BY <2>2, <2>4, <2>5 DEF Credit, Parts, UpTo, InWindow
  <2>10. \A k \in Miners : rewards[k] = Credit(b, k, S)
    BY <2>3, <2>4, <2>5 DEF RewardInv
  <2> QED
    BY <2>2, <2>8, <2>9, <2>10 DEF RewardInv
<1>2. CASE \E b \in DOMAIN blocks : OrphanBlock(b)
  <2>1. run = {} /\ task' = task
    BY <1>2 DEF OrphanBlock, locals
  <2> QED
    BY <1>i, <1>t, <2>1 DEF Control, IsNextBlock
<1>3. ASSUME NEW b \in DOMAIN blocks, BeginBlock(b) PROVE RewardInv'
  <2>1. /\ rewards' = [Nobody EXCEPT ![blocks[b].miner] = FinderReward] /\ task = "idle"
        /\ block' = b /\ UNCHANGED <<scheme, blocks, counted>>
    BY <1>3 DEF BeginBlock, Start, tables
  <2>2. counted' = {} /\ FinderReward' = FinderReward
    BY <1>t, <2>1 DEF ShapeInv, Idle, FinderReward
  <2>3. FinderReward \in Nat /\ blocks[b].miner \in Miners
    BY <1>t, FinderFacts, BlockFacts
  <2>4. ASSUME NEW m \in Miners PROVE rewards'[m] = Credit(block, m, counted)'
    <3>1. {s \in counted' : archive'[s].miner = m} = {}
      BY <2>2
    <3>2. SumFunctionOnSet(Parts(block)', {}) = 0
      BY SumEmpty
    <3>3. Credit(block, m, counted)' = (IF m = blocks[b].miner THEN FinderReward ELSE 0) + 0
      BY <2>1, <2>2, <3>1, <3>2 DEF Credit
    <3>4. rewards'[m] = (IF m = blocks[b].miner THEN FinderReward ELSE 0)
      BY <2>1, <2>3 DEF Nobody
    <3> QED
      BY <2>3, <3>3, <3>4
  <2> QED
    BY <2>4 DEF RewardInv
<1>4. CASE CountPROP \/ \E b \in DOMAIN blocks : BeginSolo(b)
  <2>1. scheme' = "SOLO" \/ scheme' = "PROP"
    BY <1>4 DEF CountPROP, BeginSolo, tables
  <2> QED
    BY <1>i, <2>1 DEF PPLNS
<1>5. CASE ReadPage \/ LeaveLoop \/ NextPage \/ LastPage
  <2>1. task # "idle" /\ UNCHANGED <<tables, block, rewards, counted>>
    BY <1>5 DEF ReadPage, LeaveLoop, NextPage, LastPage, sumVars
  <2> QED
    BY <2>1 DEF RewardInv, PPLNS, Credit, Parts, UpTo, InWindow, ScoreOf, Created, FinderReward, Distributed, tables
<1>6. CASE CountPPLNS
  <2>0. PICK s : s = page[row]
    OBVIOUS
  <2>1. /\ PPLNS /\ task = "rows" /\ MoreRows /\ UNCHANGED <<tables, block, task>>
        /\ rewards' = [rewards EXCEPT ![archive[s].miner] = @ + RewardOf(s)]
        /\ counted' = counted \cup {s}
    BY <1>6, <2>0 DEF CountPPLNS
  <2>2. /\ s \in UpTo(block) /\ s \notin counted /\ counted \in SUBSET UpTo(block)
        /\ RewardOf(s) = Parts(block)[s]
    BY <2>0, <2>1, RewardIsDue
  <2>3. rewards \in [Miners -> Nat] /\ s \in DOMAIN archive /\ archive[s].miner \in Miners
    BY <1>t, <2>2, ScorePositive DEF Locals, UpTo
  <2>4. RewardOf(s) \in Nat
    BY <1>t, <2>2, PartsFacts
  <2>5. ASSUME NEW m \in Miners PROVE rewards'[m] = Credit(block, m, counted \cup {s})
    <3>1. Credit(block, m, counted \cup {s})
            = Credit(block, m, counted) + (IF archive[s].miner = m THEN RewardOf(s) ELSE 0)
      BY <1>t, <2>2, CreditCount
    <3>2. rewards[m] = Credit(block, m, counted) /\ rewards[m] \in Nat
      BY <2>1, <2>3 DEF RewardInv
    <3>3. rewards'[m] = rewards[m] + (IF archive[s].miner = m THEN RewardOf(s) ELSE 0)
      BY <2>1, <2>3, <2>4
    <3> QED
      BY <3>1, <3>2, <3>3
  <2>6. ASSUME NEW m \in Miners PROVE Credit(block, m, counted)' = Credit(block, m, counted \cup {s})
    BY <2>1 DEF Credit, Parts, UpTo, InWindow, ScoreOf, Created, FinderReward, Distributed, tables
  <2> QED
    BY <2>5, <2>6 DEF RewardInv
<1>7. CASE Write \/ Aborts
  <2>1. task' = "idle"
    BY <1>7 DEF Write, Commit, Aborts, EndTask
  <2> QED
    BY <1>i, <2>1
<1>8. CASE (\E S \in SUBSET Pending : StartRun(S)) \/ Stop \/ UNCHANGED vars
  <2>1. UNCHANGED <<tables, locals>>
    BY <1>8 DEF StartRun, Stop, vars
  <2>2. UNCHANGED <<tables, task, block, rewards, counted>>
    BY <2>1 DEF locals, sumVars
  <2> QED
    BY <1>s, <2>2
<1> QED
  BY <1>1, <1>2, <1>3, <1>4, <1>5, <1>6, <1>7, <1>8, Cases, ZenonT(60)

\* When the rewards are written, a share that was not counted is due nothing.
LEMMA RestIsZero ==
    ASSUME DistinctTimes, ~MayStop, Orderly, PPLNS, task = "write", NEW s \in UpTo(block), s \notin counted
    PROVE  Parts(block)[s] = 0
<1>t. Tables /\ Control /\ Locals /\ ScanInv /\ TimeInv /\ ScanAll
  BY DEF Orderly, ScanAll, ShapeInv
<1>1. s \in DOMAIN archive /\ archive \in Seq(ShareRow)
  BY <1>t DEF UpTo, Tables
<1>2. NoGaps /\ Scanning /\ block \in Pending
  BY <1>t DEF ScanInv, Scanning, PPLNS, Control, IsNextBlock
<1>3. counted \subseteq UpTo(block) /\ counted \subseteq DOMAIN archive
  BY <1>2, <1>t DEF NoGaps, Rows, UpTo, Tables
<1>4. \A u \in counted : Created(u) # Created(s)
  BY <1>1, <1>3, <1>t DEF TimeInv
<1>5. \A u \in counted : ~(Created(s) > Created(u))
  BY <1>2, <1>4 DEF NoGaps, Seen
<1>6. \A u \in DOMAIN archive : Created(u) \in Int
  BY <1>t, ScorePositive DEF Created
<1>7. counted \subseteq Newer(block, s) /\ Newer(block, s) \in SUBSET DOMAIN archive
  BY <1>1, <1>3, <1>4, <1>5, <1>6 DEF Newer, UpTo
<1>8. ScoreOf(Newer(block, s)) >= Window
  <2>1. CASE done = TRUE
    <3>1. acc = Window /\ acc <= Weigh(archive, counted)
      BY <2>1 DEF Orderly, WindowInv, ScoreOf, Weigh
    <3>2. /\ Weigh(archive, Newer(block, s)) \in Nat /\ Weigh(archive, counted) \in Nat
          /\ Weigh(archive, counted) <= Weigh(archive, Newer(block, s))
      BY <1>1, <1>3, <1>7, WeighFacts
    <3>3. Weigh(archive, Newer(block, s)) >= Window
      BY <3>1, <3>2, NumbersAssumption
    <3> QED
      BY <3>3 DEF ScoreOf, Weigh
  <2>2. CASE done = FALSE
    <3>1. s \notin Rows
      BY <1>2, <1>4, <2>2 DEF Orderly, CompleteInv, Seen
    <3>2. s \notin shares
      BY <3>1 DEF Rows, UpTo
    <3> QED
      BY <1>1, <1>2, <3>2 DEF Orderly, KeepInv
  <2> QED
    BY <1>t, <2>1, <2>2, Zenon DEF Locals
<1> QED
  BY <1>8, <1>t, PartsFacts

\* The rewards that are written are what is due.
LEMMA RewardsAreDue ==
    ASSUME DistinctTimes, ~MayStop, Orderly, RewardInv, PPLNS, task = "write"
    PROVE  FinalRewards = Due(block)
<1>t. Tables /\ Locals /\ ScanInv
  BY DEF Orderly, ScanAll, ShapeInv
<1>1. FinalRewards = rewards /\ rewards \in [Miners -> Nat]
  BY <1>t DEF FinalRewards, PPLNS, Locals
<1>2. counted \subseteq UpTo(block)
  BY <1>t DEF ScanInv, Scanning, PPLNS, NoGaps, Rows, UpTo, Tables
<1>3. IsFiniteSet(UpTo(block)) /\ \A r \in UpTo(block) : Parts(block)[r] \in Nat /\ Parts(block)[r] \in Int
  BY <1>t, PartsFacts
<1>4. \A r \in UpTo(block) : r \notin counted => Parts(block)[r] = 0
  BY RestIsZero
<1>5. ASSUME NEW m \in Miners PROVE rewards[m] = Credit(block, m, UpTo(block))
  <2>1. PICK S : S = {r \in counted : archive[r].miner = m}
    OBVIOUS
  <2>2. PICK D : D = {r \in UpTo(block) : archive[r].miner = m}
    OBVIOUS
  <2>3. S \in SUBSET D /\ D \in SUBSET UpTo(block) /\ \A x \in D \ S : Parts(block)[x] = 0
    BY <1>2, <1>4, <2>1, <2>2
  <2>4. IsFiniteSet(D) /\ \A x \in D : Parts(block)[x] \in Int
    BY <1>3, <2>3, FS_Subset
  <2>5. SumFunctionOnSet(Parts(block), D) = SumFunctionOnSet(Parts(block), S)
    BY <2>3, <2>4, SumZeroOutside
  <2>6. Credit(block, m, UpTo(block)) = Credit(block, m, counted)
    BY <2>1, <2>2, <2>5 DEF Credit
  <2> QED
    BY <2>6 DEF RewardInv
<1>6. Due(block) = [m \in Miners |-> Credit(block, m, UpTo(block))]
  BY DEF Due, Credit, Parts
<1> QED
  BY <1>1, <1>5, <1>6

\* Later steps change neither the rewards of a confirmed block nor what is due.
LEMMA ExactNext ==
    ASSUME DistinctTimes, ~MayStop, Orderly, RewardInv, DistributionIsExact, [Next]_vars
    PROVE  DistributionIsExact'
<1>t. Tables /\ ShapeInv /\ TimeInv
  BY DEF Orderly, ScanAll, ShapeInv
<1>1. ASSUME NEW m \in Miners, NEW score \in Scores, NEW isBlock \in BOOLEAN,
             StoreShare(m, score, isBlock)
      PROVE  DistributionIsExact'
  <2>1. PICK n : Stores(n, m, score)
    BY <1>1, <1>t, StoreNew
  <2>2. /\ DOMAIN archive' = DOMAIN archive \cup {n} /\ n \notin DOMAIN archive
        /\ archive'[n] = [miner |-> m, created |-> now, score |-> score]
        /\ \A s \in DOMAIN archive : archive'[s] = archive[s]
        /\ \A b \in DOMAIN blocks : blocks'[b] = blocks[b] /\ outcome'[b] = outcome[b]
        /\ Confirmed' = Confirmed /\ Confirmed \subseteq DOMAIN blocks /\ scheme' = scheme
    BY <2>1 DEF Stores
  <2>3. ASSUME NEW b \in DOMAIN blocks PROVE Due(b)' = Due(b)
    <3>1. UpTo(b)' = UpTo(b)
      BY <1>t, <2>2, UpToStays
    <3> QED
      BY <1>t, <2>2, <3>1, DueKept
  <2> QED
    BY <2>2, <2>3 DEF DistributionIsExact, PPLNS
<1>2. ASSUME NEW b \in DOMAIN blocks, OrphanBlock(b) PROVE DistributionIsExact'
  <2>1. /\ b \in Pending /\ blocks' = [blocks EXCEPT ![b].status = "orphaned"]
        /\ UNCHANGED <<scheme, archive, outcome>>
    BY <1>2 DEF OrphanBlock
  <2>2. /\ DOMAIN blocks' = DOMAIN blocks
        /\ \A c \in DOMAIN blocks : blocks'[c].created = blocks[c].created /\ blocks'[c].miner = blocks[c].miner
        /\ \A c \in DOMAIN blocks : c # b => blocks'[c].status = blocks[c].status
        /\ blocks'[b].status = "orphaned"
    BY <1>t, <2>1, StatusUpdate DEF Tables
  <2>3. Confirmed' = Confirmed /\ Confirmed \subseteq DOMAIN blocks
    BY <2>1, <2>2 DEF Confirmed, Pending
  <2>4. ASSUME NEW c \in DOMAIN blocks PROVE Due(c)' = Due(c)
    <3>1. UpTo(c)' = UpTo(c)
      BY <2>1, <2>2 DEF UpTo, Created
    <3> QED
      BY <1>t, <2>1, <2>2, <3>1, DueKept
  <2> QED
    BY <2>1, <2>3, <2>4 DEF DistributionIsExact, PPLNS
<1>3. CASE Write
  <2>0. PICK b : b = block
    OBVIOUS
  <2>1. /\ task = "write" /\ b \in DOMAIN blocks /\ DOMAIN blocks' = DOMAIN blocks
        /\ \A c \in DOMAIN blocks : blocks'[c].created = blocks[c].created /\ blocks'[c].miner = blocks[c].miner
        /\ Confirmed' = Confirmed \cup {b} /\ Confirmed \subseteq DOMAIN blocks
        /\ outcome'[b] = [rewards |-> FinalRewards, counted |-> counted]
        /\ \A c \in DOMAIN blocks : c # b => outcome'[c] = outcome[c]
        /\ UNCHANGED <<scheme, archive>>
    BY <1>3, <1>t, <2>0, WriteFacts
  <2>2. ASSUME NEW c \in DOMAIN blocks PROVE Due(c)' = Due(c)
    <3>1. UpTo(c)' = UpTo(c)
      BY <2>1 DEF UpTo, Created
    <3> QED
      BY <1>t, <2>1, <3>1, DueKept
  <2>3. ASSUME PPLNS, NEW c \in Confirmed' PROVE outcome'[c].rewards = Due(c)
    <3>1. CASE c = b
      <4>1. FinalRewards = Due(b)
        BY <2>0, <2>1, <2>3, RewardsAreDue
      <4> QED
        BY <2>1, <3>1, <4>1
    <3>2. CASE c # b
      BY <2>1, <2>3, <3>2 DEF DistributionIsExact
    <3> QED
      BY <3>1, <3>2
  <2> QED
    BY <2>1, <2>2, <2>3 DEF DistributionIsExact, PPLNS
<1>4. CASE UNCHANGED tables
  BY <1>4 DEF tables, DistributionIsExact, PPLNS, Confirmed, Due, UpTo, InWindow, ScoreOf, Created,
              FinderReward, Distributed
<1> QED
  BY <1>1, <1>2, <1>3, <1>4, TableSteps, ZenonT(60)

\* PPLNS and PPLNSBF credit every miner with exactly what its work in the window
\* earned, for any window and page size, although pages are read one by one while
\* shares arrive and earlier blocks have deleted rows (CalculateRewardsAsync,
\* UpdateBalancesAsync); for shares with distinct times, runs in order and no stop.
THEOREM ExactDistribution ==
    ASSUME DistinctTimes, ~SkipsBlocks, ~MayStop
    PROVE  Spec => []DistributionIsExact
<1> DEFINE I == Orderly /\ RewardInv /\ DistributionIsExact
<1>1. Init => I
  <2> SUFFICES ASSUME Init PROVE I
    OBVIOUS
  <2>1. DOMAIN blocks = {} /\ task = "idle"
    BY DEF Init
  <2> QED
    BY <2>1, OrderlyNext, Zenon DEF RewardInv, DistributionIsExact, Confirmed
<1>2. I /\ [Next]_vars => I'
  <2>1. Orderly => ScanAll /\ WindowInv
    BY DEF Orderly
  <2> QED
    BY <2>1, OrderlyNext, RewardNext, ExactNext
<1>3. I => DistributionIsExact
  OBVIOUS
<1> QED
  BY <1>1, <1>2, <1>3, PTL DEF Spec

-----------------------------------------------------------------------------
(* PROP and SOLO hand out the whole reward. *)

\* The score accumulated by PROP is positive with the first share, and each share adds
\* at most M.
PropInv(M) ==
    scheme = "PROP" => /\ acc <= M * Cardinality(counted)
                       /\ counted # {} => acc > 0

\* A multiple divided is the factor.
LEMMA DivExact ==
    ASSUME NEW x \in Nat, NEW a \in Nat, a > 0
    PROVE  (x * a) \div a = x
<1>1. PICK q : q = (x * a) \div a
  OBVIOUS
<1>2. x * a \in Nat
  BY ProductNat
<1>3. q \in Nat /\ q * a <= x * a /\ x * a < q * a + a
  BY <1>1, <1>2, DivFacts
<1>4. q <= x
  BY <1>3, CancelFactor
<1>5. ~(q + 1 <= x)
  <2>1. SUFFICES ASSUME q + 1 <= x PROVE FALSE
    OBVIOUS
  <2>2. (q + 1) * a <= x * a
    BY <1>3, <2>1, ProductMonotone
  <2>3. (q + 1) * a = q * a + a /\ q * a \in Int
    BY <1>3
  <2> QED
    BY <1>2, <1>3, <2>2, <2>3
<1> QED
  BY <1>1, <1>3, <1>4, <1>5

\* Parts in the ratio of the scores make up the whole, when the division is exact.
LEMMA TotalExact ==
    ASSUME NEW f \in [Miners -> Nat], NEW a \in Nat, a > 0, Total(f) = a,
           NEW k \in Nat, BlockReward = k * a
    PROVE  Total([m \in Miners |-> (f[m] * BlockReward) \div a]) = BlockReward
<1> DEFINE q == [m \in Miners |-> (f[m] * BlockReward) \div a]
<1>1. ASSUME NEW m \in Miners PROVE f[m] \in Int /\ q[m] = k * f[m]
  <2>1. f[m] \in Nat
    OBVIOUS
  <2>2. f[m] * (k * a) = (k * f[m]) * a
    BY <2>1
  <2>3. k * f[m] \in Nat
    BY <2>1, ProductNat
  <2>4. ((k * f[m]) * a) \div a = k * f[m]
    BY <2>3, DivExact
  <2> QED
    BY <2>1, <2>2, <2>4
<1> HIDE DEF q
<1>2. SumFunctionOnSet(q, Miners) = k * SumFunctionOnSet(f, Miners)
  BY <1>1, MinersAssumption, SumScaled
<1>3. Total(q) = k * Total(f)
  BY <1>2 DEF Total
<1> QED
  BY <1>3 DEF q

\* Counting keeps the bounds on the accumulated score.
LEMMA PropNext ==
    ASSUME NEW M \in Nat, \A x \in Scores : x <= M, ScanAll, PropInv(M), [Next]_vars
    PROVE  PropInv(M)'
<1>t. Tables /\ Locals /\ ShapeInv
  BY DEF ScanAll, ShapeInv
<1>s. UNCHANGED <<scheme, acc, counted>> \/ scheme' # "PROP" => PropInv(M)'
  BY DEF PropInv
<1>e. ASSUME scheme' = scheme, acc' = 0, counted' = {} PROVE PropInv(M)'
  <2>1. Cardinality(counted') = 0
    BY <1>e, FS_EmptySet
  <2>2. acc' <= M * Cardinality(counted')
    BY <1>e, <2>1
  <2> QED
    BY <1>e, <2>2 DEF PropInv
<1>1. CASE CountPROP
  <2>0. PICK s : s = page[row]
    OBVIOUS
  <2>1. /\ task = "rows" /\ MoreRows /\ scheme = "PROP" /\ archive' = archive
        /\ acc' = acc + archive[s].score /\ counted' = counted \cup {s}
    BY <1>1, <2>0 DEF CountPROP, tables
  <2>2. s \in DOMAIN archive /\ s \notin counted
    BY <2>0, <2>1, CountedNewer
  <2>3. archive[s].score \in Nat /\ archive[s].score > 0 /\ archive[s].score <= M /\ acc \in Nat
    <3>1. archive[s] \in ShareRow
      BY <1>t, <2>2 DEF Tables
    <3>2. archive[s].score \in Scores
      BY <3>1 DEF ShareRow
    <3> QED
      BY <1>t, <2>2, <3>2, ScorePositive DEF Locals
  <2>4. IsFiniteSet(counted)
    <3>1. DOMAIN archive = 1..Len(archive) /\ Len(archive) \in Nat /\ counted \subseteq DOMAIN archive
      BY <1>t DEF Tables, Locals
    <3>2. IsFiniteSet(DOMAIN archive)
      BY <3>1, FS_Interval
    <3> QED
      BY <3>1, <3>2, FS_Subset
  <2>5. Cardinality(counted \cup {s}) = Cardinality(counted) + 1 /\ Cardinality(counted) \in Nat
    BY <2>2, <2>4, FS_AddElement, FS_CardinalityType
  <2>6. PICK k : k = Cardinality(counted)
    OBVIOUS
  <2>7. acc <= M * k /\ k \in Nat /\ M * k \in Nat /\ M * (k + 1) = M * k + M
    BY <2>1, <2>5, <2>6, ProductNat DEF PropInv
  <2>8. acc' <= M * (k + 1) /\ acc' > 0
    BY <2>1, <2>3, <2>7
  <2>9. Cardinality(counted') = k + 1
    BY <2>1, <2>5, <2>6
  <2> QED
    BY <2>8, <2>9 DEF PropInv
<1>2. CASE Write \/ Aborts
  <2>1. scheme' = scheme /\ acc' = 0 /\ counted' = {}
    BY <1>2 DEF Write, Commit, Aborts, EndTask, tables
  <2> QED
    BY <1>e, <2>1
<1>3. CASE CountPPLNS \/ \E b \in DOMAIN blocks : BeginSolo(b)
  <2>1. scheme' # "PROP"
    BY <1>3 DEF CountPPLNS, BeginSolo, tables, PPLNS
  <2> QED
    BY <1>s, <2>1
<1>4. CASE (\E m \in Miners, score \in Scores, isBlock \in BOOLEAN : StoreShare(m, score, isBlock))
           \/ \E b \in DOMAIN blocks : OrphanBlock(b) \/ BeginBlock(b)
  <2>1. UNCHANGED <<scheme, acc, counted>>
    BY <1>4 DEF StoreShare, OrphanBlock, BeginBlock, Start, tables, locals, sumVars
  <2> QED
    BY <1>s, <2>1
<1>5. CASE ReadPage \/ LeaveLoop \/ NextPage \/ LastPage
  <2>1. UNCHANGED <<scheme, acc, counted>>
    BY <1>5 DEF ReadPage, LeaveLoop, NextPage, LastPage, tables, sumVars
  <2> QED
    BY <1>s, <2>1
<1>6. CASE (\E S \in SUBSET Pending : StartRun(S)) \/ Stop \/ UNCHANGED vars
  <2>1. UNCHANGED <<tables, locals>>
    BY <1>6 DEF StartRun, Stop, vars
  <2> QED
    BY <1>s, <2>1 DEF tables, locals, sumVars
<1> QED
  BY <1>1, <1>2, <1>3, <1>4, <1>5, <1>6, Cases, ZenonT(60)

\* What PROP and SOLO write adds up to the reward.
LEMMA WholeWritten ==
    ASSUME ~MayStop, Orderly, SumInv, NEW M \in Nat, PropInv(M),
           \A d \in 1..(M * MaxShares) : \E k \in Nat : BlockReward = k * d,
           scheme \in {"PROP", "SOLO"}, task = "write"
    PROVE  Total(FinalRewards) = BlockReward
<1>t. Tables /\ Control /\ Locals /\ ScanInv
  BY DEF Orderly, ScanAll, ShapeInv
<1>1. CASE scheme = "SOLO"
  BY <1>1 DEF FinalRewards, SumInv
<1>2. CASE scheme = "PROP"
  <2>1. PICK s \in shares : Created(s) = blocks[block].created
    <3>1. block \in Pending
      BY <1>t DEF Control, IsNextBlock
    <3> QED
      BY <1>2, <3>1 DEF Orderly, OwnInv
  <2>2. s \in Rows
    <3>1. Created(s) \in Nat
      BY <1>t, <2>1, ScorePositive DEF Tables, Created
    <3> QED
      BY <2>1, <3>1 DEF Rows
  <2>3. counted # {}
    BY <1>2, <2>2 DEF Orderly, CompleteInv, Scanning, PPLNS, Seen
  <2>4. acc \in Nat /\ acc > 0 /\ acc <= M * Cardinality(counted)
    BY <1>2, <1>t, <2>3 DEF PropInv, Locals
  <2>5. Cardinality(counted) \in Nat /\ Cardinality(counted) <= MaxShares /\ MaxShares \in Nat
    <3>1. DOMAIN archive = 1..Len(archive) /\ Len(archive) \in Nat /\ counted \subseteq DOMAIN archive
          /\ Len(archive) <= MaxShares
      BY <1>t DEF Tables, Locals
    <3>2. IsFiniteSet(1..Len(archive)) /\ Cardinality(1..Len(archive)) = Len(archive)
      <4>1. PICK n \in Nat : n = Len(archive)
        BY <3>1
      <4>2. IsFiniteSet(1..n) /\ Cardinality(1..n) = IF 1 > n THEN 0 ELSE n - 1 + 1
        BY FS_Interval
      <4> QED
        BY <4>1, <4>2
    <3>3. IsFiniteSet(counted) /\ Cardinality(counted) <= Len(archive)
      BY <3>1, <3>2, FS_Subset
    <3>4. Cardinality(counted) \in Nat
      BY <3>3, FS_CardinalityType
    <3> QED
      BY <3>1, <3>3, <3>4, NumbersAssumption
  <2>6. acc \in 1..(M * MaxShares)
    <3>1. M * Cardinality(counted) <= M * MaxShares
      BY <2>5, ProductMonotone
    <3>2. M * Cardinality(counted) \in Nat /\ M * MaxShares \in Nat
      BY <2>5, ProductNat
    <3> QED
      BY <2>4, <3>1, <3>2
  <2>7. PICK k \in Nat : BlockReward = k * acc
    BY <2>6
  <2>8. Total(scores) = acc /\ scores \in [Miners -> Nat]
    BY <1>2, <1>t DEF SumInv, Locals
  <2>9. Total([m \in Miners |-> (scores[m] * BlockReward) \div acc]) = BlockReward
    BY <2>4, <2>7, <2>8, TotalExact
  <2> QED
    BY <1>2, <2>4, <2>9 DEF FinalRewards
<1> QED
  BY <1>1, <1>2

\* PROP and SOLO hand out the whole reward of every confirmed block
\* (CalculateRewardsAsync), although PROP divides it by what earlier rounds have left
\* in the table; for runs in order and no stop, with exact divisions: M bounds the
\* score of a share, so PROP divides by a number between 1 and M * MaxShares.
THEOREM WholeReward ==
    ASSUME ~SkipsBlocks, ~MayStop, NEW M \in Nat, \A x \in Scores : x <= M,
           \A d \in 1..(M * MaxShares) : \E k \in Nat : BlockReward = k * d
    PROVE  Spec => []WholeRewardPaid
<1> DEFINE I == Orderly /\ SumInv /\ NeverOverDistributed /\ PropInv(M) /\ WholeRewardPaid
<1>1. Init => I
  <2> SUFFICES ASSUME Init PROVE I
    OBVIOUS
  <2>1. DOMAIN blocks = {} /\ counted = {} /\ acc = 0
    BY DEF Init
  <2>2. Cardinality({}) = 0
    BY FS_EmptySet
  <2>3. PropInv(M)
    BY <2>1, <2>2 DEF PropInv
  <2>4. WholeRewardPaid
    BY <2>1, Zenon DEF WholeRewardPaid, Confirmed
  <2> QED
    BY <2>3, <2>4, OrderlyNext, SumInit
<1>2. I /\ [Next]_vars => I'
  <2> SUFFICES ASSUME I, [Next]_vars PROVE I'
    OBVIOUS
  <2>1. ScanAll /\ ShapeInv /\ Tables
    BY DEF Orderly, ScanAll, ShapeInv
  <2>2. Orderly' /\ SumInv' /\ NeverOverDistributed'
    BY <2>1, OrderlyNext, SumNext
  <2>3. PropInv(M)'
    BY <2>1, PropNext
  <2>4. WholeRewardPaid'
    <3>1. CASE Write
      <4>1. /\ task = "write" /\ Confirmed' = Confirmed \cup {block} /\ Confirmed \subseteq DOMAIN blocks
            /\ outcome'[block] = [rewards |-> FinalRewards, counted |-> counted]
            /\ \A c \in DOMAIN blocks : c # block => outcome'[c] = outcome[c]
            /\ scheme' = scheme
        BY <2>1, <3>1, WriteFacts
      <4>2. scheme \in {"PROP", "SOLO"} => Total(FinalRewards) = BlockReward
        BY <4>1, WholeWritten
      <4>3. ASSUME scheme \in {"PROP", "SOLO"}, NEW c \in Confirmed'
            PROVE  Total(outcome'[c].rewards) = BlockReward
        <5>1. CASE c = block
          BY <4>1, <4>2, <4>3, <5>1
        <5>2. CASE c # block
          BY <4>1, <4>3, <5>2 DEF WholeRewardPaid
        <5> QED
          BY <5>1, <5>2
      <4> QED
        BY <4>1, <4>3 DEF WholeRewardPaid, Total
    <3>2. ASSUME Confirmed' = Confirmed, scheme' = scheme, \A c \in Confirmed : outcome'[c] = outcome[c]
          PROVE  WholeRewardPaid'
      BY <3>2 DEF WholeRewardPaid, Total
    <3>3. ASSUME NEW m \in Miners, NEW score \in Scores, NEW isBlock \in BOOLEAN,
                 StoreShare(m, score, isBlock)
          PROVE  WholeRewardPaid'
      <4>1. PICK n : Stores(n, m, score)
        BY <2>1, <3>3, StoreNew
      <4> QED
        BY <3>2, <4>1 DEF Stores
    <3>4. ASSUME NEW b \in DOMAIN blocks, OrphanBlock(b) PROVE WholeRewardPaid'
      <4>1. /\ b \in Pending /\ blocks' = [blocks EXCEPT ![b].status = "orphaned"]
            /\ UNCHANGED <<scheme, outcome>>
        BY <3>4 DEF OrphanBlock
      <4>2. /\ DOMAIN blocks' = DOMAIN blocks /\ blocks'[b].status = "orphaned"
            /\ \A c \in DOMAIN blocks : c # b => blocks'[c].status = blocks[c].status
        BY <2>1, <4>1, StatusUpdate DEF Tables
      <4>3. Confirmed' = Confirmed
        BY <4>1, <4>2 DEF Confirmed, Pending
      <4> QED
        BY <3>2, <4>1, <4>3
    <3>5. CASE UNCHANGED tables
      BY <3>2, <3>5 DEF tables, Confirmed
    <3> QED
      BY <3>1, <3>3, <3>4, <3>5, TableSteps, ZenonT(30)
  <2> QED
    BY <2>2, <2>3, <2>4
<1>3. I => WholeRewardPaid
  OBVIOUS
<1> QED
  BY <1>1, <1>2, <1>3, PTL DEF Spec
=============================================================================
