----------------------- MODULE WorkerDifficultyProofs -----------------------
(***************************************************************************)
(* Theorems about WorkerDifficulty, for any difficulties and any capacity  *)
(* of the send queue.                                                      *)
(***************************************************************************)
EXTENDS WorkerDifficulty, TLAPS

\* What a task is about to write or send is a difficulty.
LocalInv ==
    \A t \in Tasks :
        /\ pc[t] = "enqueue" => local[t] \in Diffs
        /\ pc[t] \in {"setPrevious", "setDifficulty", "notify"} => local[t] \in Diffs \cup {0}

\* Without doubt, one task at a time changes the difficulty.
AloneInv == doubt \/ \A t, u \in Tasks : Changing(t) /\ Changing(u) => t = u

\* The difficulty the miner works at once it has read the queue, and the one before.
Last == IF queue = <<>> THEN miner ELSE queue[Len(queue)]
Before == IF Len(queue) = 1 THEN miner ELSE queue[Len(queue) - 1]

\* Has t changed the difficulty and not queued the message yet?
Set(t) == pc[t] \in {"clear", "build", "notify"}

\* Without doubt, the last message is about the difficulty; a message that is built is, too.
ToldInv ==
    \/ doubt
    \/ /\ (\A t \in Tasks : ~Set(t)) => Last = difficulty
       /\ \A t \in Tasks : pc[t] = "notify" => local[t] = difficulty

\* Without doubt, the previous difficulty is that of the message before.
PreviousInv ==
    \/ doubt
    \/ /\ (\E t \in Tasks : Unsent(t)) => previous = Last
       /\ (\A t \in Tasks : ~Unsent(t)) /\ queue # <<>> => previous = Before

\* Without doubt, a share meets the difficulty, or after one change the previous one.
ShareInv ==
    \/ doubt \/ share = NoShare
    \/ /\ share.behind = 0 =>
            share.achieved >= difficulty /\ \A t \in Tasks : pc[t] # "setDifficulty"
       /\ share.behind = 1 => previous # None /\ share.achieved >= previous

Checks == {"checkPrevious", "usePrevious", "publish", "refuse", "refuseEarly"}

\* What the handler has found out about the share.
CheckInv ==
    /\ share # NoShare => share.achieved \in Diffs \cup {0}
    /\ pc["handler"] \in Checks => share # NoShare
    /\ pc["handler"] \in Checks \ {"publish"} => ~share.candidate
    /\ pc["handler"] = "checkPrevious" => doubt \/ share.behind > 0
    /\ pc["handler"] = "usePrevious" => raced \/ share.achieved >= previous

ChangeInv == AloneInv /\ ToldInv /\ PreviousInv /\ ShareInv
HandlerInv == CheckInv /\ CreditIsMet /\ FairShareAccepted

DifficultyInv == TypeOK /\ LocalInv /\ ChangeInv /\ HandlerInv

-----------------------------------------------------------------------------
(* Steps of one task *)

\* Difficulties, also the one of a torn read, are natural numbers.
LEMMA DiffsAreNat == \A d \in Diffs \cup {0} : d \in Nat
BY DiffsAssumption

\* What Goto does to the program counters.
LEMMA GotoFacts ==
    ASSUME TypeOK, NEW t \in Tasks, NEW p, NEW v, Goto(t, p, v)
    PROVE  /\ pc'[t] = p /\ local'[t] = v
           /\ \A u \in Tasks : u # t => pc'[u] = pc[u] /\ local'[u] = local[u]
BY DEF Goto, TypeOK

\* The program counters and local variables keep their types.
LEMMA GotoType ==
    ASSUME TypeOK, NEW t \in Tasks, NEW p \in Locations, NEW v \in Diffs \cup {0, None}, Goto(t, p, v)
    PROVE  pc' \in [Tasks -> Locations] /\ local' \in [Tasks -> Diffs \cup {0, None}]
BY DEF Goto, TypeOK

\* The tasks are three different ones.
LEMMA TaskFacts == {"handler", "idle", "broadcast"} = Tasks /\ Retargeters \subseteq Tasks
BY DEF Tasks, Retargeters

\* A step of a task that is not changing the difficulty, before or after it.
LEMMA QuietStep ==
    ASSUME TypeOK, LocalInv, ChangeInv, NEW t \in Tasks, NEW p, NEW v, Goto(t, p, v), ~Changing(t),
           p \notin {"setPrevious", "setDifficulty", "clear", "build", "notify"},
           share' = share \/ share' = NoShare,
           UNCHANGED <<difficulty, previous, minerVars, doubt>>
    PROVE  ChangeInv'
<1>1. /\ pc'[t] = p
      /\ \A u \in Tasks : u # t => pc'[u] = pc[u] /\ local'[u] = local[u]
  BY GotoFacts
<1>2. \A u \in Tasks : /\ Changing(u)' <=> Changing(u)
                       /\ Changing(u) => pc'[u] = pc[u] /\ local'[u] = local[u]
  BY <1>1 DEF Changing
<1>3. \A u \in Tasks : /\ Set(u)' <=> Set(u)
                       /\ Unsent(u)' <=> Unsent(u)
                       /\ pc'[u] = "notify" <=> pc[u] = "notify"
                       /\ pc'[u] = "setDifficulty" <=> pc[u] = "setDifficulty"
  BY <1>1, <1>2 DEF Set, Unsent, Changing
<1>4. Last' = Last /\ Before' = Before
  BY DEF Last, Before, minerVars
<1>5. AloneInv'
  BY <1>2 DEF ChangeInv, AloneInv
<1>6. ToldInv'
  BY <1>2, <1>3, <1>4 DEF ChangeInv, ToldInv, Changing
<1>7. PreviousInv'
  BY <1>3, <1>4 DEF ChangeInv, PreviousInv, minerVars
<1>8. ShareInv'
  BY <1>3 DEF ChangeInv, ShareInv, NoShare
<1> QED
  BY <1>5, <1>6, <1>7, <1>8 DEF ChangeInv

\* A step of another task, or one that takes the handler away from the share.
LEMMA HandlerFrame ==
    ASSUME HandlerInv,
           \/ pc'["handler"] \notin Checks
           \/ pc'["handler"] = pc["handler"] /\ local'["handler"] = local["handler"],
           UNCHANGED <<previous, share, raced>>, doubt => doubt'
    PROVE  HandlerInv'
BY DEF HandlerInv, CheckInv, CreditIsMet, FairShareAccepted, Checks

-----------------------------------------------------------------------------
(* Steps of a change *)

\* A change begins; without doubt, no other one is under way.
LEMMA BeginStep ==
    ASSUME TypeOK, ChangeInv, NEW t \in Tasks, NEW d, Change(t, d), ~Changing(t),
           UNCHANGED <<difficulty, previous, minerVars, share>>
    PROVE  ChangeInv'
<1> SUFFICES ASSUME ~doubt' PROVE ChangeInv'
  BY DEF ChangeInv, AloneInv, ToldInv, PreviousInv, ShareInv
<1>1. ~doubt /\ \A u \in Tasks : ~Changing(u)
  BY DEF Change
<1>2. /\ pc'[t] = "setPrevious"
      /\ \A u \in Tasks : u # t => pc'[u] = pc[u] /\ local'[u] = local[u]
  BY GotoFacts DEF Change
<1>3. \A u \in Tasks : /\ Changing(u)' => u = t
                       /\ ~Set(u) /\ ~Set(u)' /\ ~Unsent(u) /\ ~Unsent(u)'
                       /\ pc'[u] # "notify" /\ pc'[u] # "setDifficulty"
  BY <1>1, <1>2 DEF Changing, Set, Unsent
<1>4. Last' = Last /\ Before' = Before
  BY DEF Last, Before, minerVars
<1>5. AloneInv' /\ ToldInv'
  BY <1>1, <1>3, <1>4 DEF ChangeInv, AloneInv, ToldInv
<1>6. PreviousInv'
  BY <1>1, <1>3, <1>4 DEF ChangeInv, PreviousInv, minerVars
<1>7. ShareInv'
  BY <1>1, <1>3 DEF ChangeInv, ShareInv
<1> QED
  BY <1>5, <1>6, <1>7 DEF ChangeInv

\* Without doubt, the others do not take part in the change of t.
LEMMA OthersQuiet ==
    ASSUME TypeOK, ChangeInv, NEW t \in Tasks, Changing(t), ~doubt, NEW p, NEW v, Goto(t, p, v)
    PROVE  /\ pc'[t] = p /\ local'[t] = v
           /\ \A u \in Tasks : u # t =>
                /\ ~Changing(u) /\ ~Changing(u)' /\ ~Set(u)' /\ ~Unsent(u)' /\ ~Set(u) /\ ~Unsent(u)
                /\ pc'[u] # "notify" /\ pc'[u] # "setDifficulty"
<1>1. /\ pc'[t] = p /\ local'[t] = v
      /\ \A u \in Tasks : u # t => pc'[u] = pc[u]
  BY GotoFacts
<1>2. \A u \in Tasks : u # t => ~Changing(u)
  BY DEF ChangeInv, AloneInv
<1> QED
  BY <1>1, <1>2 DEF Changing, Set, Unsent

\* SetPrevious: one more change the miner has not heard of.
LEMMA SetPreviousStep ==
    ASSUME TypeOK, ChangeInv, NEW t \in Tasks, SetPrevious(t)
    PROVE  ChangeInv'
<1>1. /\ pc[t] = "setPrevious" /\ Changing(t) /\ Goto(t, "setDifficulty", local[t]) /\ previous' = difficulty
      /\ share' = IF share = NoShare THEN share ELSE [share EXCEPT !.behind = OneMore(@)]
      /\ UNCHANGED <<difficulty, queue, miner, doubt>>
  BY DEF SetPrevious, KeepsPrevious, Changing, minerVars
<1> SUFFICES ASSUME ~doubt PROVE ChangeInv'
  BY <1>1 DEF ChangeInv, AloneInv, ToldInv, PreviousInv, ShareInv
<1>2. /\ pc'[t] = "setDifficulty"
      /\ \A u \in Tasks : u # t =>
           ~Changing(u)' /\ ~Set(u)' /\ ~Unsent(u)' /\ ~Set(u) /\ pc'[u] # "notify"
  BY <1>1, OthersQuiet
<1>3. ~Set(t) /\ ~Set(t)' /\ Unsent(t)'
  BY <1>1, <1>2 DEF Set, Unsent, Changing
<1>4. Last' = Last /\ Last = difficulty
  BY <1>1, <1>2, <1>3 DEF Last, ChangeInv, ToldInv
<1>5. AloneInv' /\ ToldInv'
  BY <1>1, <1>2, <1>3, <1>4 DEF AloneInv, ToldInv
<1>6. PreviousInv'
  BY <1>1, <1>3, <1>4 DEF PreviousInv
<1>7. ShareInv'
  <2> SUFFICES ASSUME share # NoShare, share' # NoShare
               PROVE  share'.behind # 0 /\ (share'.behind = 1 => previous' # None /\ share'.achieved >= previous')
    BY <1>1 DEF ShareInv
  <2>1. /\ share.behind \in 0..2 /\ share'.achieved = share.achieved
        /\ share'.behind = IF share.behind < 2 THEN share.behind + 1 ELSE share.behind
    BY <1>1 DEF TypeOK, OneMore
  <2>2. share.behind = 0 => share.achieved >= difficulty
    BY DEF ChangeInv, ShareInv
  <2>3. difficulty # None
    BY DiffsAssumption DEF TypeOK, None
  <2> QED
    BY <1>1, <2>1, <2>2, <2>3
<1> QED
  BY <1>5, <1>6, <1>7 DEF ChangeInv

\* SetDifficulty: the change is visible to the checks of shares.
LEMMA SetDifficultyStep ==
    ASSUME TypeOK, ChangeInv, NEW t \in Tasks, SetDifficulty(t)
    PROVE  ChangeInv'
<1>1. /\ pc[t] = "setDifficulty" /\ Changing(t) /\ Unsent(t)
      /\ UNCHANGED <<previous, queue, miner, share, doubt>>
  BY DEF SetDifficulty, Changing, Unsent, minerVars, history
<1>2. PICK p \in {"clear", "build"} : Goto(t, p, None)
  BY DEF SetDifficulty
<1> SUFFICES ASSUME ~doubt PROVE ChangeInv'
  BY <1>1 DEF ChangeInv, AloneInv, ToldInv, PreviousInv, ShareInv
<1>3. /\ pc'[t] = p
      /\ \A u \in Tasks : u # t =>
           ~Changing(u)' /\ ~Set(u)' /\ ~Unsent(u)' /\ pc'[u] # "notify" /\ pc'[u] # "setDifficulty"
  BY <1>1, <1>2, OthersQuiet
<1>4. Set(t)' /\ Unsent(t)' /\ pc'[t] # "notify" /\ pc'[t] # "setDifficulty"
  BY <1>2, <1>3 DEF Set, Unsent, Changing
<1>5. Last' = Last
  BY <1>1 DEF Last
<1>6. AloneInv' /\ ToldInv'
  BY <1>3, <1>4 DEF AloneInv, ToldInv
<1>7. PreviousInv'
  BY <1>1, <1>4, <1>5 DEF ChangeInv, PreviousInv
<1>8. ShareInv'
  BY <1>1 DEF ChangeInv, ShareInv
<1> QED
  BY <1>6, <1>7, <1>8 DEF ChangeInv

\* ClearPending and BuildMessage: the message will have the difficulty.
LEMMA BuildStep ==
    ASSUME TypeOK, ChangeInv, NEW t \in Tasks, ClearPending(t) \/ BuildMessage(t)
    PROVE  ChangeInv'
<1>1. /\ Changing(t) /\ Unsent(t) /\ Set(t)
      /\ UNCHANGED <<difficulty, previous, queue, miner, share, doubt>>
  BY DEF ClearPending, BuildMessage, Changing, Unsent, Set, ctxVars, minerVars, history
<1>2. \/ Goto(t, "build", None)
      \/ Goto(t, "notify", difficulty)
  BY DEF ClearPending, BuildMessage, NewDifficulty
<1> SUFFICES ASSUME ~doubt PROVE ChangeInv'
  BY <1>1 DEF ChangeInv, AloneInv, ToldInv, PreviousInv, ShareInv
<1>3. /\ pc'[t] = "build" \/ (pc'[t] = "notify" /\ local'[t] = difficulty)
      /\ \A u \in Tasks : u # t =>
           ~Changing(u)' /\ ~Set(u)' /\ ~Unsent(u)' /\ pc'[u] # "notify" /\ pc'[u] # "setDifficulty"
  <2>1. CASE Goto(t, "build", None)
    BY <1>1, <2>1, OthersQuiet
  <2>2. CASE Goto(t, "notify", difficulty)
    BY <1>1, <2>2, OthersQuiet
  <2> QED
    BY <1>2, <2>1, <2>2
<1>4. Set(t)' /\ Unsent(t)' /\ pc'[t] # "setDifficulty"
  BY <1>3 DEF Set, Unsent, Changing
<1>5. Last' = Last
  BY <1>1 DEF Last
<1>6. AloneInv' /\ ToldInv'
  BY <1>1, <1>3, <1>4 DEF AloneInv, ToldInv
<1>7. PreviousInv'
  BY <1>1, <1>4, <1>5 DEF ChangeInv, PreviousInv
<1>8. ShareInv'
  BY <1>1, <1>3, <1>4 DEF ChangeInv, ShareInv
<1> QED
  BY <1>6, <1>7, <1>8 DEF ChangeInv

\* Notify: the message joins the queue and the change is over.
LEMMA NotifyStep ==
    ASSUME TypeOK, ChangeInv, NEW t \in Tasks, Notify(t)
    PROVE  ChangeInv'
<1>1. /\ pc[t] = "notify" /\ Changing(t) /\ Unsent(t) /\ Goto(t, "idle", None)
      /\ queue' = Append(queue, local[t])
      /\ UNCHANGED <<difficulty, previous, miner, share, doubt>>
  BY DEF Notify, Done, Changing, Unsent, ctxVars, history
<1> SUFFICES ASSUME ~doubt PROVE ChangeInv'
  BY <1>1 DEF ChangeInv, AloneInv, ToldInv, PreviousInv, ShareInv
<1>2. /\ pc'[t] = "idle"
      /\ \A u \in Tasks : u # t =>
           ~Changing(u)' /\ ~Set(u)' /\ ~Unsent(u)' /\ pc'[u] # "notify" /\ pc'[u] # "setDifficulty"
  BY <1>1, OthersQuiet
<1>3. \A u \in Tasks : ~Changing(u)' /\ ~Set(u)' /\ ~Unsent(u)' /\ pc'[u] # "notify" /\ pc'[u] # "setDifficulty"
  BY <1>2 DEF Changing, Set, Unsent
<1>4. local[t] = difficulty /\ previous = Last
  BY <1>1 DEF ChangeInv, ToldInv, PreviousInv
<1>5. /\ Len(queue') = Len(queue) + 1 /\ Len(queue) \in Nat /\ queue' # <<>>
      /\ queue'[Len(queue')] = local[t]
      /\ \A i \in 1..Len(queue) : queue'[i] = queue[i]
      /\ queue = <<>> <=> Len(queue) = 0
  BY <1>1 DEF TypeOK
<1>6. Last' = difficulty
  BY <1>4, <1>5 DEF Last
<1>7. Before' = Last
  BY <1>1, <1>5 DEF Last, Before
<1>8. AloneInv' /\ ToldInv'
  BY <1>1, <1>3, <1>6 DEF AloneInv, ToldInv
<1>9. PreviousInv'
  BY <1>1, <1>3, <1>4, <1>7 DEF PreviousInv
<1>10. ShareInv'
  BY <1>1, <1>3 DEF ChangeInv, ShareInv
<1> QED
  BY <1>8, <1>9, <1>10 DEF ChangeInv

\* Deliver: what the miner will work at in the end stays the same.
LEMMA DeliverStep ==
    ASSUME TypeOK, ChangeInv, Deliver
    PROVE  ChangeInv'
<1>1. /\ queue # <<>> /\ miner' = Head(queue) /\ queue' = Tail(queue)
      /\ UNCHANGED <<difficulty, previous, pc, local, share, doubt>>
  BY DEF Deliver, ctxVars, taskVars, history
<1>2. /\ Len(queue) \in Nat /\ Len(queue) > 0 /\ miner' = queue[1]
      /\ Len(queue') = Len(queue) - 1
      /\ queue' = <<>> <=> Len(queue') = 0
      /\ \A i \in 1..Len(queue') : queue'[i] = queue[i + 1]
  <2>1. queue \in Seq(Diffs \cup {0}) /\ Len(queue) > 0
    BY <1>1 DEF TypeOK
  <2>2. Head(queue) = queue[1] /\ Len(Tail(queue)) = Len(queue) - 1 /\ Tail(queue) \in Seq(Diffs \cup {0})
    BY <2>1
  <2>3. \A i \in 1..Len(Tail(queue)) : Tail(queue)[i] = queue[i + 1]
    BY <2>1
  <2>4. Tail(queue) = <<>> <=> Len(Tail(queue)) = 0
    BY <2>2
  <2> QED
    BY <1>1, <2>1, <2>2, <2>3, <2>4
<1>3. Last' = Last
  BY <1>1, <1>2 DEF Last
<1>4. queue' # <<>> => Before' = Before
  BY <1>2 DEF Before
<1>5. AloneInv' /\ ToldInv'
  BY <1>1, <1>3 DEF ChangeInv, AloneInv, ToldInv, Changing, Set
<1>6. PreviousInv'
  BY <1>1, <1>3, <1>4 DEF ChangeInv, PreviousInv, Unsent, Changing
<1>7. ShareInv'
  BY <1>1 DEF ChangeInv, ShareInv
<1> QED
  BY <1>5, <1>6, <1>7 DEF ChangeInv

\* FindShare: the difficulty of the miner is the current one, or after one change the
\* previous one.
LEMMA FindShareStep ==
    ASSUME TypeOK, ChangeInv, FindShare
    PROVE  ChangeInv'
<1>2. UNCHANGED <<difficulty, previous, pc, local, queue, miner, doubt>>
  BY DEF FindShare, ctxVars, taskVars, minerVars
<1>3. AloneInv' /\ ToldInv' /\ PreviousInv'
  BY <1>2 DEF ChangeInv, AloneInv, ToldInv, PreviousInv, Changing, Set, Unsent, Last, Before
<1>0. PICK b \in BOOLEAN :
        \/ \E d \in Diffs : d >= miner /\ share' = [achieved |-> d, candidate |-> b, behind |-> Behind]
        \/ share' = [achieved |-> 0, candidate |-> b, behind |-> 2]
  BY DEF FindShare
<1>1. CASE share' = [achieved |-> 0, candidate |-> b, behind |-> 2]
  BY <1>1, <1>2, <1>3 DEF ChangeInv, ShareInv
<1>4. CASE \E d \in Diffs : d >= miner /\ share' = [achieved |-> d, candidate |-> b, behind |-> Behind]
  <2>0. PICK d \in Diffs : d >= miner /\ share' = [achieved |-> d, candidate |-> b, behind |-> Behind]
    BY <1>4
  <2> SUFFICES ASSUME ~doubt
               PROVE  /\ Behind = 0 => d >= difficulty /\ \A t \in Tasks : pc[t] # "setDifficulty"
                      /\ Behind = 1 => previous # None /\ d >= previous
    BY <1>2, <1>3, <2>0 DEF ChangeInv, ShareInv
  <2>1. ASSUME Behind = 0 PROVE d >= difficulty /\ \A t \in Tasks : pc[t] # "setDifficulty"
    <3>1. queue = <<>> /\ \A t \in Tasks : ~Unsent(t)
      BY <2>1 DEF Behind
    <3>2. \A t \in Tasks : ~Set(t) /\ pc[t] # "setDifficulty"
      BY <3>1 DEF Unsent, Changing, Set
    <3>3. Last = difficulty /\ Last = miner
      BY <3>1, <3>2 DEF ChangeInv, ToldInv, Last
    <3> QED
      BY <2>0, <3>2, <3>3
  <2>2. ASSUME Behind = 1 PROVE previous # None /\ d >= previous
    <3>1. \/ queue = <<>> /\ \E t \in Tasks : Unsent(t)
          \/ Len(queue) = 1 /\ \A t \in Tasks : ~Unsent(t)
      BY <2>2 DEF Behind
    <3>2. previous = miner
      <4>1. Len(<<>>) # 1
        OBVIOUS
      <4> QED
        BY <3>1, <4>1 DEF ChangeInv, PreviousInv, Last, Before
    <3>3. miner # None
      BY DiffsAssumption DEF TypeOK, None
    <3> QED
      BY <2>0, <3>2, <3>3
  <2> QED
    BY <2>1, <2>2
<1> QED
  BY <1>0, <1>1, <1>4

-----------------------------------------------------------------------------
(* Beginning and end of a connection *)

\* A new connection satisfies the invariant.
LEMMA DifficultyInit == Init => DifficultyInv
<1> SUFFICES ASSUME Init PROVE DifficultyInv
  OBVIOUS
<1>1. TypeOK
  <2>1. <<>> \in Seq(Diffs \cup {0}) /\ Len(<<>>) = 0
    OBVIOUS
  <2>2. NoShare \in [achieved : Diffs \cup {0, None}, candidate : BOOLEAN, behind : 0..2]
    BY DEF NoShare
  <2>3. "idle" \in Locations
    BY DEF Locations
  <2>4. queue \in Seq(Diffs \cup {0}) /\ Len(queue) <= QueueCapacity
    BY <2>1, QueueAssumption DEF Init
  <2>5. pc \in [Tasks -> Locations] /\ local \in [Tasks -> Diffs \cup {0, None}]
    BY <2>3 DEF Init
  <2> QED
    BY <2>2, <2>4, <2>5, DiffsAssumption DEF Init, TypeOK
<1>2. LocalInv
  BY DEF Init, LocalInv
<1>3. ChangeInv
  BY DEF Init, ChangeInv, AloneInv, ToldInv, PreviousInv, ShareInv, Changing, Set, Unsent, Last
<1>4. HandlerInv
  BY TaskFacts DEF Init, HandlerInv, CheckInv, CreditIsMet, FairShareAccepted, Checks
<1> QED
  BY <1>1, <1>2, <1>3, <1>4 DEF DifficultyInv

\* So does the one after a connection has ended.
LEMMA CloseStep == Close => DifficultyInv'
<1> SUFFICES ASSUME Close PROVE DifficultyInv'
  OBVIOUS
<1>1. Init'
  BY DEF Close, Init
<1>2. Init' => DifficultyInv'
  BY DifficultyInit, PTL
<1> QED
  BY <1>1, <1>2

-----------------------------------------------------------------------------
(* Types *)

\* The program counters and local variables of a step of t.
LEMMA TaskType ==
    ASSUME TypeOK, LocalInv, NEW t \in Tasks, NEW p \in Locations, NEW v \in Diffs \cup {0, None},
           Goto(t, p, v),
           p = "enqueue" => v \in Diffs,
           p \in {"setPrevious", "setDifficulty", "notify"} => v \in Diffs \cup {0}
    PROVE  /\ pc' \in [Tasks -> Locations] /\ local' \in [Tasks -> Diffs \cup {0, None}]
           /\ LocalInv'
<1>1. pc' \in [Tasks -> Locations] /\ local' \in [Tasks -> Diffs \cup {0, None}]
  BY GotoType
<1>2. /\ pc'[t] = p /\ local'[t] = v
      /\ \A u \in Tasks : u # t => pc'[u] = pc[u] /\ local'[u] = local[u]
  BY GotoFacts
<1>3. LocalInv'
  <2> SUFFICES ASSUME NEW u \in Tasks
               PROVE  /\ pc'[u] = "enqueue" => local'[u] \in Diffs
                      /\ pc'[u] \in {"setPrevious", "setDifficulty", "notify"} => local'[u] \in Diffs \cup {0}
    BY DEF LocalInv
  <2>1. CASE u = t
    BY <1>2, <2>1
  <2>2. CASE u # t
    BY <1>2, <2>2 DEF LocalInv
  <2> QED
    BY <2>1, <2>2
<1> QED
  BY <1>1, <1>3

\* A step of a task that is not changing the difficulty keeps all but what the handler knows.
LEMMA QuietTask ==
    ASSUME TypeOK, LocalInv, ChangeInv,
           NEW t \in Tasks, NEW p \in Locations, NEW v \in Diffs \cup {0, None}, Goto(t, p, v), ~Changing(t),
           p \notin {"setPrevious", "setDifficulty", "clear", "build", "notify"},
           p = "enqueue" => v \in Diffs,
           UNCHANGED <<difficulty, previous, minerVars, doubt>>,
           pending' \in Diffs \cup {None}, updated' \in BOOLEAN, suggested' \in BOOLEAN,
           (UNCHANGED <<share, raced>>) \/ (share' = NoShare /\ raced' = FALSE)
    PROVE  TypeOK' /\ LocalInv' /\ ChangeInv'
<1>1. pc' \in [Tasks -> Locations] /\ local' \in [Tasks -> Diffs \cup {0, None}] /\ LocalInv'
  BY TaskType
<1>2. ChangeInv'
  BY QuietStep
<1>3. NoShare \in [achieved : Diffs \cup {0, None}, candidate : BOOLEAN, behind : 0..2]
  BY DEF NoShare
<1>4. TypeOK'
  BY <1>1, <1>3 DEF TypeOK, minerVars
<1> QED
  BY <1>1, <1>2, <1>4

-----------------------------------------------------------------------------
(* The check of a share *)

\* What the check finds out stays true until the share is answered.
LEMMA ProcessShareStep ==
    ASSUME DifficultyInv, ProcessShare
    PROVE  DifficultyInv'
<1> USE DEF DifficultyInv, ctxVars, history
<1>h. "handler" \in Tasks
  BY TaskFacts
<1>d. difficulty \in Diffs \cup {0, None} /\ previous \in Diffs \cup {0, None} /\ None \in Diffs \cup {0, None}
  BY DEF TypeOK
<1>b. share.behind \in 0..2
  BY DEF TypeOK
<1>2. CASE CheckDifficulty
  <2>0. share # NoShare /\ UNCHANGED <<share, doubt>>
    BY <1>2 DEF CheckDifficulty, HandlerInv, CheckInv, Checks
  <2>1. CASE share.candidate \/ Meets(difficulty)
    <3>1. Goto("handler", "publish", difficulty)
      BY <1>2, <2>1 DEF CheckDifficulty
    <3>2. TypeOK' /\ LocalInv' /\ ChangeInv'
      BY <1>2, <3>1, <1>h, <1>d, QuietTask DEF CheckDifficulty, Changing, TypeOK, Locations
    <3>3. pc'["handler"] = "publish" /\ local'["handler"] = difficulty
      BY <3>1, <1>h, GotoFacts
    <3>4. HandlerInv'
      BY <2>0, <2>1, <3>3 DEF Meets, HandlerInv, CheckInv, CreditIsMet, FairShareAccepted, Checks
    <3> QED
      BY <3>2, <3>4
  <2>2. CASE ~(share.candidate \/ Meets(difficulty))
    <3>1. PICK p \in {"checkPrevious", "refuseEarly"} : Goto("handler", p, None)
      BY <1>2, <2>2 DEF CheckDifficulty
    <3>2. TypeOK' /\ LocalInv' /\ ChangeInv'
      BY <1>2, <3>1, <1>h, <1>d, QuietTask DEF CheckDifficulty, Changing, TypeOK, Locations
    <3>3. pc'["handler"] = p
      BY <3>1, <1>h, GotoFacts
    <3>4. doubt \/ share.behind > 0
      BY <1>b, <2>0, <2>2 DEF Meets, ChangeInv, ShareInv
    <3>5. HandlerInv'
      BY <2>0, <2>2, <3>1, <3>3, <3>4 DEF HandlerInv, CheckInv, CreditIsMet, FairShareAccepted, Checks
    <3> QED
      BY <3>2, <3>5
  <2> QED
    BY <2>1, <2>2
<1>3. CASE CheckPrevious
  <2>0. /\ share # NoShare /\ ~share.candidate
        /\ UNCHANGED <<share, doubt, previous>> /\ (doubt \/ share.behind > 0)
    BY <1>3 DEF CheckPrevious, HandlerInv, CheckInv, Checks
  <2>1. PICK p \in {"usePrevious", "refuse"} :
          /\ Goto("handler", p, None)
          /\ p = "usePrevious" <=> (previous # None /\ Meets(previous))
    BY <1>3 DEF CheckPrevious
  <2>2. TypeOK' /\ LocalInv' /\ ChangeInv'
    BY <1>3, <2>1, <1>h, <1>d, QuietTask DEF CheckPrevious, Changing, TypeOK, Locations
  <2>3. pc'["handler"] = p
    BY <2>1, <1>h, GotoFacts
  <2>4. p = "refuse" => doubt \/ share.behind > 1
    BY <1>b, <2>0, <2>1 DEF Meets, ChangeInv, ShareInv
  <2>5. HandlerInv'
    BY <2>0, <2>1, <2>3, <2>4 DEF Meets, HandlerInv, CheckInv, CreditIsMet, FairShareAccepted, Checks
  <2> QED
    BY <2>2, <2>5
<1>p. CASE PreviousTorn
  <2>0. /\ pc["handler"] = "checkPrevious" /\ previous = None /\ share # NoShare /\ ~share.candidate
        /\ Goto("handler", "usePrevious", None) /\ UNCHANGED <<previous, share, doubt>>
    BY <1>p DEF PreviousTorn, HandlerInv, CheckInv, Checks
  <2>1. TypeOK' /\ LocalInv' /\ ChangeInv'
    BY <1>p, <2>0, <1>h, <1>d, QuietTask DEF PreviousTorn, Changing, TypeOK, Locations
  <2>2. pc'["handler"] = "usePrevious"
    BY <2>0, <1>h, GotoFacts
  <2>3. share.achieved >= previous
    <3>0. share.achieved \in Diffs \cup {0}
      BY <2>0 DEF HandlerInv, CheckInv
    <3>1. share.achieved \in Nat
      BY <3>0, DiffsAreNat
    <3> QED
      BY <2>0, <3>1 DEF None
  <2>4. HandlerInv'
    BY <2>0, <2>2, <2>3 DEF HandlerInv, CheckInv, CreditIsMet, FairShareAccepted, Checks
  <2> QED
    BY <2>1, <2>4
<1>4. CASE UsePrevious
  <2>0. /\ share # NoShare /\ UNCHANGED <<share, raced, doubt>> /\ Goto("handler", "publish", SecondRead)
        /\ raced \/ share.achieved >= previous
    BY <1>4 DEF UsePrevious, HandlerInv, CheckInv, Checks
  <2>s. SecondRead \in Diffs \cup {0, None}
    BY <1>d DEF SecondRead
  <2>r. raced \/ share.achieved >= SecondRead
    <3>0. share.achieved \in Diffs \cup {0}
      BY <2>0 DEF HandlerInv, CheckInv
    <3>1. share.achieved \in Nat
      BY <3>0, DiffsAreNat
    <3> QED
      BY <2>0, <3>1 DEF SecondRead
  <2>1. TypeOK' /\ LocalInv' /\ ChangeInv'
    BY <1>4, <2>0, <2>s, <1>h, QuietTask DEF UsePrevious, Changing, TypeOK, Locations
  <2>2. pc'["handler"] = "publish" /\ local'["handler"] = SecondRead
    BY <2>0, <1>h, GotoFacts
  <2>3. HandlerInv'
    BY <2>0, <2>r, <2>2 DEF HandlerInv, CheckInv, CreditIsMet, FairShareAccepted, Checks
  <2> QED
    BY <2>1, <2>3
<1>5. CASE Publish
  <2>1. TypeOK' /\ LocalInv' /\ ChangeInv'
    BY <1>5, <1>h, <1>d, QuietTask DEF Publish, Changing, TypeOK, Locations
  <2>2. pc'["handler"] = "vardiff" /\ share' = NoShare
    BY <1>5, <1>h, GotoFacts DEF Publish
  <2>3. HandlerInv'
    BY <2>2 DEF HandlerInv, CheckInv, CreditIsMet, FairShareAccepted, Checks
  <2> QED
    BY <2>1, <2>3
<1>6. CASE Refuse
  <2>0. Goto("handler", "idle", None) /\ suggested' \in BOOLEAN
    BY <1>6 DEF Refuse, Done
  <2>1. TypeOK' /\ LocalInv' /\ ChangeInv'
    BY <1>6, <2>0, <1>h, <1>d, QuietTask DEF Refuse, Changing, TypeOK, Locations
  <2>2. pc'["handler"] = "idle" /\ share' = NoShare
    BY <1>6, <2>0, <1>h, GotoFacts DEF Refuse
  <2>3. HandlerInv'
    BY <2>2 DEF HandlerInv, CheckInv, CreditIsMet, FairShareAccepted, Checks
  <2> QED
    BY <2>1, <2>3
<1> QED
  BY <1>2, <1>3, <1>p, <1>4, <1>5, <1>6 DEF ProcessShare

-----------------------------------------------------------------------------
(* The other steps *)

\* A step of a task that is not changing the difficulty, outside the check of a share.
LEMMA AsideStep ==
    ASSUME DifficultyInv, NEW t \in Tasks, NEW p \in Locations \ Checks, NEW v \in Diffs \cup {0, None},
           Goto(t, p, v), ~Changing(t),
           p \notin {"setPrevious", "setDifficulty", "clear", "build", "notify"},
           p = "enqueue" => v \in Diffs,
           UNCHANGED <<difficulty, previous, minerVars, history>>,
           pending' \in Diffs \cup {None}, updated' \in BOOLEAN, suggested' \in BOOLEAN
    PROVE  DifficultyInv'
<1>1. TypeOK' /\ LocalInv' /\ ChangeInv'
  BY QuietTask DEF DifficultyInv, history
<1>2. \/ pc'["handler"] \notin Checks
      \/ pc'["handler"] = pc["handler"] /\ local'["handler"] = local["handler"]
  BY GotoFacts, TaskFacts DEF DifficultyInv
<1>3. HandlerInv'
  BY <1>2, HandlerFrame DEF DifficultyInv, history
<1> QED
  BY <1>1, <1>3 DEF DifficultyInv

\* The retarget, also of the idle updater, and the look at the pending difficulty.
LEMMA RetargetStep ==
    ASSUME DifficultyInv, NEW t \in Tasks,
           UpdateVarDiff(t) \/ HasPending(t) \/ PendingFlag(t)
    PROVE  DifficultyInv'
<1>0. /\ difficulty \in Diffs \cup {0, None} /\ None \in Diffs \cup {0, None}
      /\ pending \in Diffs \cup {None} /\ updated \in BOOLEAN /\ suggested \in BOOLEAN
  BY DEF DifficultyInv, TypeOK
<1>1. {"idle", "vardiff", "retarget", "enqueue", "apply", "value"} \subseteq Locations \ Checks
  BY DEF Locations, Checks
<1>4. CASE ReadDifficulty(t)
  BY <1>0, <1>1, <1>4, AsideStep DEF ReadDifficulty, Changing, ctxVars
<1>5. CASE Retarget(t)
  <2>1. PICK d \in Diffs : Goto(t, "enqueue", d)
    BY <1>5 DEF Retarget
  <2> QED
    BY <1>0, <1>1, <1>5, <2>1, AsideStep DEF Retarget, Changing
<1>6. CASE NoRetarget(t)
  BY <1>0, <1>1, <1>6, AsideStep DEF NoRetarget, Done, Changing, ctxVars
<1>7. CASE EnqueueNewDifficulty(t)
  <2>1. local[t] \in Diffs
    BY <1>7 DEF EnqueueNewDifficulty, DifficultyInv, LocalInv
  <2> QED
    BY <1>0, <1>1, <1>7, <2>1, AsideStep DEF EnqueueNewDifficulty, Changing
<1>8. CASE HasPending(t)
  <2>1. CASE pending # None
    BY <1>0, <1>1, <1>8, <2>1, AsideStep DEF HasPending, Applying, Changing, ctxVars
  <2>2. CASE pending = None
    BY <1>0, <1>1, <1>8, <2>2, AsideStep DEF HasPending, Applying, Done, Changing, ctxVars
  <2> QED
    BY <2>1, <2>2
<1>9. CASE PendingFlag(t)
  BY <1>0, <1>1, <1>9, AsideStep DEF PendingFlag, Applying, Changing, ctxVars
<1> QED
  BY <1>4, <1>5, <1>6, <1>7, <1>8, <1>9 DEF UpdateVarDiff

\* A change begins: PendingValue, PendingTorn and SuggestDifficulty.
LEMMA ChangeStep ==
    ASSUME DifficultyInv, NEW t \in Tasks, NEW d \in Diffs \cup {0}, Change(t, d), ~Changing(t),
           UNCHANGED <<ctxVars, minerVars, share, raced>>, suggested' \in BOOLEAN
    PROVE  DifficultyInv'
<1>1. Goto(t, "setPrevious", d) /\ doubt' \in BOOLEAN /\ (doubt => doubt')
  BY DEF Change, DifficultyInv, TypeOK
<1>2. "setPrevious" \in Locations \ Checks
  BY DEF Locations, Checks
<1>3. pc' \in [Tasks -> Locations] /\ local' \in [Tasks -> Diffs \cup {0, None}] /\ LocalInv'
  BY <1>1, <1>2, TaskType DEF DifficultyInv
<1>4. TypeOK'
  BY <1>1, <1>3 DEF DifficultyInv, TypeOK, ctxVars, minerVars
<1>5. ChangeInv'
  BY BeginStep DEF DifficultyInv, ctxVars
<1>6. \/ pc'["handler"] \notin Checks
      \/ pc'["handler"] = pc["handler"] /\ local'["handler"] = local["handler"]
  BY <1>1, <1>2, GotoFacts, TaskFacts DEF DifficultyInv
<1>7. HandlerInv'
  BY <1>1, <1>6, HandlerFrame DEF DifficultyInv, ctxVars
<1> QED
  BY <1>3, <1>4, <1>5, <1>7 DEF DifficultyInv

\* An exception: the connection ends, or from now on nothing is known of the miner.
LEMMA ThrowsStep ==
    ASSUME DifficultyInv, NEW t \in Tasks, Throws(t)
    PROVE  DifficultyInv'
<1>1. CASE ~Guarded(t)
  BY <1>1, CloseStep DEF Throws
<1>2. CASE Guarded(t)
  <2>1. /\ Goto(t, "idle", None) /\ doubt' = TRUE /\ suggested' \in BOOLEAN
        /\ UNCHANGED <<ctxVars, minerVars, share, raced>>
    BY <1>2 DEF Throws, Done
  <2>2. "idle" \in Locations \ Checks /\ None \in Diffs \cup {0, None}
    BY DEF Locations, Checks
  <2>3. pc' \in [Tasks -> Locations] /\ local' \in [Tasks -> Diffs \cup {0, None}] /\ LocalInv'
    BY <2>1, <2>2, TaskType DEF DifficultyInv
  <2>4. TypeOK'
    BY <2>1, <2>3 DEF DifficultyInv, TypeOK, ctxVars, minerVars
  <2>5. ChangeInv'
    BY <2>1 DEF ChangeInv, AloneInv, ToldInv, PreviousInv, ShareInv
  <2>6. \/ pc'["handler"] \notin Checks
        \/ pc'["handler"] = pc["handler"] /\ local'["handler"] = local["handler"]
    BY <2>1, <2>2, GotoFacts, TaskFacts DEF DifficultyInv
  <2>7. HandlerInv'
    BY <2>1, <2>6, HandlerFrame DEF DifficultyInv, ctxVars
  <2> QED
    BY <2>3, <2>4, <2>5, <2>7 DEF DifficultyInv
<1> QED
  BY <1>1, <1>2

\* SetPrevious: the handler may be between its two reads, and the share falls behind.
LEMMA SetPreviousKeeps ==
    ASSUME DifficultyInv, NEW t \in Tasks, SetPrevious(t)
    PROVE  DifficultyInv'
<1>1. /\ pc[t] = "setPrevious" /\ Goto(t, "setDifficulty", local[t]) /\ previous' = difficulty
      /\ share' = IF share = NoShare THEN share ELSE [share EXCEPT !.behind = OneMore(@)]
      /\ raced' = (raced \/ pc["handler"] = "usePrevious")
      /\ UNCHANGED <<difficulty, pending, updated, suggested, queue, miner, doubt>>
  BY DEF SetPrevious, KeepsPrevious, minerVars
<1>2. local[t] \in Diffs \cup {0} /\ "setDifficulty" \in Locations \ Checks
  BY <1>1 DEF DifficultyInv, LocalInv, Locations, Checks
<1>3. pc' \in [Tasks -> Locations] /\ local' \in [Tasks -> Diffs \cup {0, None}] /\ LocalInv'
  BY <1>1, <1>2, TaskType DEF DifficultyInv
<1>4. /\ share' \in [achieved : Diffs \cup {0, None}, candidate : BOOLEAN, behind : 0..2]
      /\ share'.achieved = share.achieved /\ share'.candidate = share.candidate
      /\ share'.behind >= share.behind
      /\ share # NoShare => share' # NoShare
  <2>1. share \in [achieved : Diffs \cup {0, None}, candidate : BOOLEAN, behind : 0..2]
    BY DEF DifficultyInv, TypeOK
  <2>2. CASE share = NoShare
    BY <1>1, <2>1, <2>2
  <2>3. CASE share # NoShare
    <3>1. share' = [share EXCEPT !.behind = OneMore(share.behind)]
      BY <1>1, <2>3
    <3>2. OneMore(share.behind) \in 1..2 /\ OneMore(share.behind) >= share.behind
      BY <2>1 DEF OneMore
    <3>3. /\ share'.achieved = share.achieved /\ share'.candidate = share.candidate
          /\ share'.behind = OneMore(share.behind)
      BY <2>1, <3>1
    <3> QED
      BY <2>1, <3>1, <3>2, <3>3 DEF NoShare
  <2> QED
    BY <2>2, <2>3
<1>5. raced' \in BOOLEAN
  BY <1>1 DEF DifficultyInv, TypeOK
<1>6. TypeOK'
  BY <1>1, <1>3, <1>4, <1>5 DEF DifficultyInv, TypeOK
<1>7. ChangeInv'
  BY SetPreviousStep DEF DifficultyInv
<1>8. HandlerInv'
  <2>1. \/ pc'["handler"] \notin Checks
        \/ pc'["handler"] = pc["handler"] /\ local'["handler"] = local["handler"]
    BY <1>1, <1>2, GotoFacts, TaskFacts DEF DifficultyInv
  <2>2. share.behind \in 0..2 /\ share'.behind \in 0..2
    BY <1>4 DEF DifficultyInv, TypeOK
  <2>3. CASE pc'["handler"] \notin Checks
    BY <1>1, <1>4, <2>3 DEF DifficultyInv, HandlerInv, CheckInv, CreditIsMet, FairShareAccepted, Checks
  <2>4. CASE pc'["handler"] = pc["handler"] /\ local'["handler"] = local["handler"]
    <3>1. CheckInv'
      <4>1. CheckInv
        BY DEF DifficultyInv, HandlerInv
      <4>2. pc'["handler"] \in Checks => share' # NoShare
        BY <1>4, <2>4, <4>1 DEF CheckInv
      <4>3. pc'["handler"] = "checkPrevious" => doubt' \/ share'.behind > 0
        BY <1>1, <1>4, <2>2, <2>4, <4>1 DEF CheckInv
      <4>4. pc'["handler"] = "usePrevious" => raced'
        BY <1>1, <2>4
      <4>5. share' # NoShare => share'.achieved \in Diffs \cup {0}
        BY <1>1, <1>4, <4>1 DEF CheckInv
      <4>6. pc'["handler"] \in Checks \ {"publish"} => ~share'.candidate
        BY <1>4, <2>4, <4>1 DEF CheckInv
      <4> QED
        BY <4>2, <4>3, <4>4, <4>5, <4>6 DEF CheckInv, Checks
    <3>2. CreditIsMet'
      BY <1>1, <1>4, <2>4 DEF DifficultyInv, HandlerInv, CreditIsMet
    <3>3. FairShareAccepted'
      BY <1>1, <1>4, <2>2, <2>4 DEF DifficultyInv, HandlerInv, FairShareAccepted
    <3> QED
      BY <3>1, <3>2, <3>3 DEF HandlerInv
  <2> QED
    BY <2>1, <2>3, <2>4
<1> QED
  BY <1>3, <1>6, <1>7, <1>8 DEF DifficultyInv

\* The rest of a change.
LEMMA WriteStep ==
    ASSUME DifficultyInv, NEW t \in Tasks,
           SetDifficulty(t) \/ ClearPending(t) \/ BuildMessage(t) \/ Notify(t)
    PROVE  DifficultyInv'
<1>1. UNCHANGED <<previous, share, raced, doubt>>
  BY DEF SetDifficulty, ClearPending, BuildMessage, Notify, ctxVars, minerVars, history
<1>2. PICK p \in {"clear", "build", "notify", "idle"}, v \in Diffs \cup {0, None} :
        Goto(t, p, v) /\ (p = "notify" => v \in Diffs \cup {0})
  <2>1. difficulty \in Diffs \cup {0} /\ None \in Diffs \cup {0, None}
    BY DEF DifficultyInv, TypeOK
  <2> QED
    BY <2>1 DEF SetDifficulty, ClearPending, BuildMessage, NewDifficulty, Notify, Done
<1>3. {"clear", "build", "notify", "idle"} \subseteq Locations \ Checks
  BY DEF Locations, Checks
<1>4. pc' \in [Tasks -> Locations] /\ local' \in [Tasks -> Diffs \cup {0, None}] /\ LocalInv'
  BY <1>2, <1>3, TaskType DEF DifficultyInv
<1>5. /\ difficulty' \in Diffs \cup {0} /\ pending' \in Diffs \cup {None} /\ updated' = updated
      /\ suggested' \in BOOLEAN /\ miner' = miner
  BY DEF DifficultyInv, TypeOK, LocalInv, SetDifficulty, ClearPending, BuildMessage, Notify, Done,
         ctxVars, minerVars
<1>6. queue' \in Seq(Diffs \cup {0}) /\ Len(queue') <= QueueCapacity
  <2>0. queue \in Seq(Diffs \cup {0}) /\ Len(queue) <= QueueCapacity /\ Len(queue) \in Nat
    BY DEF DifficultyInv, TypeOK
  <2>1. CASE Notify(t)
    <3>1. local[t] \in Diffs \cup {0} /\ queue' = Append(queue, local[t]) /\ Len(queue) < QueueCapacity
      BY <2>1 DEF Notify, HasRoom, DifficultyInv, LocalInv
    <3> QED
      BY <2>0, <3>1, QueueAssumption
  <2>2. CASE ~Notify(t)
    <3>1. queue' = queue
      BY <2>2 DEF SetDifficulty, ClearPending, BuildMessage, minerVars
    <3> QED
      BY <2>0, <3>1
  <2> QED
    BY <2>1, <2>2
<1>7. TypeOK'
  BY <1>1, <1>4, <1>5, <1>6 DEF DifficultyInv, TypeOK
<1>8. ChangeInv'
  BY SetDifficultyStep, BuildStep, NotifyStep DEF DifficultyInv
<1>9. \/ pc'["handler"] \notin Checks
      \/ pc'["handler"] = pc["handler"] /\ local'["handler"] = local["handler"]
  BY <1>2, <1>3, GotoFacts, TaskFacts DEF DifficultyInv
<1>10. HandlerInv'
  BY <1>1, <1>9, HandlerFrame DEF DifficultyInv
<1> QED
  BY <1>4, <1>7, <1>8, <1>10 DEF DifficultyInv

\* Deliver and FindShare.
LEMMA MinerStep ==
    ASSUME DifficultyInv, Deliver \/ FindShare
    PROVE  DifficultyInv'
<1>1. CASE Deliver
  <2>1. UNCHANGED <<ctxVars, taskVars, history>>
    BY <1>1 DEF Deliver
  <2>2. /\ miner' \in Diffs \cup {0}
        /\ queue' \in Seq(Diffs \cup {0}) /\ Len(queue') <= QueueCapacity
    <3>1. queue \in Seq(Diffs \cup {0}) /\ queue # <<>> /\ Len(queue) <= QueueCapacity
      BY <1>1 DEF Deliver, DifficultyInv, TypeOK
    <3>2. Head(queue) \in Diffs \cup {0} /\ Tail(queue) \in Seq(Diffs \cup {0})
      BY <3>1
    <3>3. Len(Tail(queue)) = Len(queue) - 1 /\ Len(queue) \in Nat
      BY <3>1
    <3> QED
      BY <1>1, <3>1, <3>2, <3>3, QueueAssumption DEF Deliver
  <2>3. TypeOK'
    BY <2>1, <2>2 DEF DifficultyInv, TypeOK, ctxVars, taskVars, history
  <2>4. LocalInv'
    BY <2>1 DEF DifficultyInv, LocalInv, taskVars
  <2>5. ChangeInv'
    BY <1>1, DeliverStep DEF DifficultyInv
  <2>6. HandlerInv'
    BY <2>1, HandlerFrame DEF DifficultyInv, ctxVars, taskVars, history
  <2> QED
    BY <2>3, <2>4, <2>5, <2>6 DEF DifficultyInv
<1>2. CASE FindShare
  <2>1. UNCHANGED <<ctxVars, taskVars, minerVars, raced, doubt>> /\ share = NoShare
    BY <1>2 DEF FindShare
  <2>2. share' \in [achieved : Diffs \cup {0, None}, candidate : BOOLEAN, behind : 0..2]
    <3>1. Behind \in 0..2
      BY DEF Behind
    <3>2. ASSUME NEW d \in Diffs, share' = [achieved |-> d, candidate |-> FALSE, behind |-> Behind]
          PROVE  share' \in [achieved : Diffs \cup {0, None}, candidate : BOOLEAN, behind : 0..2]
      BY <3>1, <3>2
    <3>3. ASSUME NEW c \in BOOLEAN, share' = [achieved |-> 0, candidate |-> c, behind |-> 2]
          PROVE  share' \in [achieved : Diffs \cup {0, None}, candidate : BOOLEAN, behind : 0..2]
      BY <3>3
    <3> QED
      BY <1>2, <3>2, <3>3, Zenon DEF FindShare
  <2>3. TypeOK'
    BY <2>1, <2>2 DEF DifficultyInv, TypeOK, ctxVars, taskVars, minerVars
  <2>4. LocalInv'
    BY <2>1 DEF DifficultyInv, LocalInv, taskVars
  <2>5. ChangeInv'
    BY <1>2, FindShareStep DEF DifficultyInv
  <2>6. HandlerInv'
    <3>1. pc'["handler"] \notin Checks
      BY <2>1 DEF DifficultyInv, HandlerInv, CheckInv, taskVars
    <3>2. share'.achieved \in Diffs \cup {0}
      BY <1>2 DEF FindShare
    <3> QED
      BY <3>1, <3>2 DEF HandlerInv, CheckInv, CreditIsMet, FairShareAccepted, Checks
  <2> QED
    BY <2>3, <2>4, <2>5, <2>6 DEF DifficultyInv
<1> QED
  BY <1>1, <1>2

-----------------------------------------------------------------------------
(* The theorems *)

\* Every step keeps the invariant.
LEMMA DifficultyStep ==
    ASSUME DifficultyInv, [Next]_vars
    PROVE  DifficultyInv'
<1>0. "handler" \in Tasks /\ \A t \in Retargeters : t \in Tasks
  BY TaskFacts
<1>1. CASE ProcessShare
  BY <1>1, ProcessShareStep
<1>2. CASE SuggestDifficulty
  <2>1. PICK d \in Diffs : Change("handler", d)
    BY <1>2 DEF SuggestDifficulty
  <2> QED
    BY <1>0, <1>2, <2>1, ChangeStep DEF SuggestDifficulty, Changing
<1>4. CASE \E t \in Retargeters : UpdateVarDiff(t)
  BY <1>0, <1>4, RetargetStep
<1>5. ASSUME NEW t \in Tasks, ApplyAndNotify(t) PROVE DifficultyInv'
  <2>1. CASE HasPending(t) \/ PendingFlag(t)
    BY <2>1, RetargetStep
  <2>2. CASE PendingValue(t)
    <3>1. CASE pending = None
      BY <2>2, <3>1, ThrowsStep DEF PendingValue
    <3>2. CASE pending # None
      <4>1. pending \in Diffs \cup {0} /\ suggested \in BOOLEAN
        BY <3>2 DEF DifficultyInv, TypeOK
      <4> QED
        BY <2>2, <3>2, <4>1, ChangeStep DEF PendingValue, Changing
    <3> QED
      BY <3>1, <3>2
  <2>3. CASE PendingTorn(t)
    <3>1. suggested \in BOOLEAN
      BY DEF DifficultyInv, TypeOK
    <3> QED
      BY <2>3, <3>1, ChangeStep DEF PendingTorn, Changing
  <2>4. CASE SetPrevious(t)
    BY <2>4, SetPreviousKeeps
  <2>5. CASE SetDifficulty(t) \/ ClearPending(t) \/ BuildMessage(t) \/ Notify(t)
    BY <2>5, WriteStep
  <2>6. CASE Stalled(t)
    BY <2>6, ThrowsStep DEF Stalled
  <2> QED
    BY <1>5, <2>1, <2>2, <2>3, <2>4, <2>5, <2>6 DEF ApplyAndNotify
<1>6. CASE Deliver \/ FindShare
  BY <1>6, MinerStep
<1>7. CASE Close
  BY <1>7, CloseStep
<1>8. CASE UNCHANGED vars
  BY <1>8 DEF vars, ctxVars, taskVars, minerVars, history, DifficultyInv, TypeOK, LocalInv,
              ChangeInv, AloneInv, ToldInv, PreviousInv, ShareInv, Last, Before, Set, Changing, Unsent,
              HandlerInv, CheckInv, CreditIsMet, FairShareAccepted
<1> QED
  BY <1>1, <1>2, <1>4, <1>5, <1>6, <1>7, <1>8 DEF Next

\* DifficultyInv holds in every reachable state, whatever the three tasks do to the
\* context of the connection.
THEOREM DifficultyInvariance == Spec => []DifficultyInv
<1>1. DifficultyInv /\ [Next]_vars => DifficultyInv'
  BY DifficultyStep
<1> QED
  BY DifficultyInit, <1>1, PTL DEF Spec

\* Type correctness; the send queue never exceeds SendQueueCapacity.
THEOREM DifficultyTypeCorrect == Spec => []TypeOK
<1>1. DifficultyInv => TypeOK
  BY DEF DifficultyInv
<1> QED
  BY DifficultyInvariance, <1>1, PTL

\* A share that is no block candidate is credited with a difficulty it meets unless
\* PreviousDifficulty was written between the two reads of ProcessShareInternal.
THEOREM SharesEarnTheirCredit == Spec => []CreditIsMet
<1>1. DifficultyInv => CreditIsMet
  BY DEF DifficultyInv, HandlerInv
<1> QED
  BY DifficultyInvariance, <1>1, PTL

\* A share of the difficulty the miner was told is accepted across one change of
\* difficulty, wherever ApplyPendingDifficulty and the message have got to, and a block
\* candidate is accepted across any.
THEOREM FairSharesAccepted == Spec => []FairShareAccepted
<1>1. DifficultyInv => FairShareAccepted
  BY DEF DifficultyInv, HandlerInv
<1> QED
  BY DifficultyInvariance, <1>1, PTL

\* Once every change is sent and read, the miner works at the pool's difficulty.
THEOREM MinerStaysInStep == Spec => []MinerInStep
<1>1. DifficultyInv => MinerInStep
  <2> SUFFICES ASSUME DifficultyInv, ~doubt, queue = <<>>, \A t \in Tasks : ~Changing(t)
               PROVE  miner = difficulty
    BY DEF MinerInStep
  <2>1. \A t \in Tasks : ~Set(t)
    BY DEF Changing, Set
  <2> QED
    BY <2>1 DEF DifficultyInv, ChangeInv, ToldInv, Last
<1> QED
  BY DifficultyInvariance, <1>1, PTL

=============================================================================
