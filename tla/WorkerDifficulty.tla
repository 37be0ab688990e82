-------------------------- MODULE WorkerDifficulty --------------------------
(***************************************************************************)
(* The difficulty of one Bitcoin miner (WorkerContextBase, VarDiffManager, *)
(* and their use in BitcoinPool and BitcoinJob).  Three tasks work on the  *)
(* context of a connection without a common lock: the handler of its       *)
(* requests, the idle updater, and the broadcast of new jobs.  A change of *)
(* difficulty is handed over through pendingDifficulty and sent to the     *)
(* miner through the send queue; a share is checked against the current    *)
(* and the previous difficulty, each of which may change meanwhile.        *)
(*                                                                         *)
(* Every access to a shared field is a step of its own.  Only the update   *)
(* of VarDiffContext, which is under a lock, is one step, and its result,  *)
(* which depends on times, is any difficulty.  Of the messages to the      *)
(* miner only set_difficulty is here: the others may fill the queue at any *)
(* time.  A double? has a flag and a value: who reads one while it changes *)
(* from or to null may see the flag with the value 0.                      *)
(***************************************************************************)
EXTENDS Integers, Sequences

CONSTANTS
    Diffs,          \* difficulties of shares and of retargets
    PortDiff,       \* difficulty of the port, the first one of a connection
    QueueCapacity   \* SendQueueCapacity

ASSUME DiffsAssumption == Diffs \subseteq Nat \ {0} /\ PortDiff \in Diffs
ASSUME QueueAssumption == QueueCapacity \in Nat \ {0}

None == -1
Tasks == {"handler", "idle", "broadcast"}
Retargeters == {"handler", "idle"}

\* A share: its difficulty, whether its hash meets the block target (which may be easier
\* than the miner's difficulty), and how many changes the difficulty the miner worked at
\* is behind the current one by now (history, up to 2; 2 also if it met none).
NoShare == [achieved |-> None, candidate |-> FALSE, behind |-> 0]

VARIABLES
    difficulty,     \* context.Difficulty
    previous,       \* context.PreviousDifficulty, or None
    pending,        \* context.pendingDifficulty, or None
    updated,        \* is VarDiff.LastUpdate set?
    pc,             \* task -> where it is
    local,          \* task -> the difficulty it has read or computed
    suggested,      \* does the handler handle a suggestion of the miner?
    queue,          \* set_difficulty messages in the send queue
    miner,          \* difficulty the miner works at
    share,          \* the share under way from the miner to its answer, or NoShare
    raced,          \* was `previous` written between its two reads? (history)
    doubt           \* were two changes made at the same time, or was a message
                    \* lost? (history of the connection)

ctxVars == <<difficulty, previous, pending, updated>>
taskVars == <<pc, local, suggested>>
minerVars == <<queue, miner>>
history == <<share, raced, doubt>>
vars == <<ctxVars, taskVars, minerVars, history>>

Init ==
    /\ difficulty = PortDiff /\ previous = None /\ pending = None /\ updated = FALSE
    /\ pc = [t \in Tasks |-> "idle"] /\ local = [t \in Tasks |-> None]
    /\ suggested = FALSE
    /\ queue = <<>> /\ miner = PortDiff
    /\ share = NoShare /\ raced = FALSE /\ doubt = FALSE

\* Task t goes on at p with v in its local variable.
Goto(t, p, v) ==
    /\ pc' = [pc EXCEPT ![t] = p]
    /\ local' = [local EXCEPT ![t] = v]

\* An operation of t is over.
Done(t) ==
    /\ Goto(t, "idle", None)
    /\ suggested' = (suggested /\ t # "handler")

\* The connection ends; the next one has a new context.
Close ==
    /\ difficulty' = PortDiff /\ previous' = None /\ pending' = None /\ updated' = FALSE
    /\ pc' = [t \in Tasks |-> "idle"] /\ local' = [t \in Tasks |-> None]
    /\ suggested' = FALSE
    /\ queue' = <<>> /\ miner' = PortDiff
    /\ share' = NoShare /\ raced' = FALSE /\ doubt' = FALSE

Guarded(t) == t = "idle" \/ (t = "handler" /\ suggested)

\* An exception in task t ends the connection, except in the idle updater and in
\* the handler of a suggestion, where it is logged.
Throws(t) ==
    IF Guarded(t)
    THEN /\ Done(t) /\ doubt' = TRUE
         /\ UNCHANGED <<ctxVars, minerVars, share, raced>>
    ELSE Close

-----------------------------------------------------------------------------
(* BitcoinJob.ProcessShareInternal *)

\* ratio >= 0.99
Meets(d) == share.achieved >= d

\* The handler takes the share.  A block candidate is accepted whatever its difficulty.
\* Without a retarget so far the previous difficulty is not looked at.
CheckDifficulty ==
    /\ pc["handler"] = "idle" /\ share # NoShare
    /\ IF share.candidate \/ Meets(difficulty) THEN Goto("handler", "publish", difficulty)
       ELSE Goto("handler", IF updated THEN "checkPrevious" ELSE "refuseEarly", None)
    /\ UNCHANGED <<ctxVars, suggested, minerVars, history>>

CheckPrevious ==
    /\ pc["handler"] = "checkPrevious"
    /\ Goto("handler", IF previous # None /\ Meets(previous) THEN "usePrevious" ELSE "refuse", None)
    /\ UNCHANGED <<ctxVars, suggested, minerVars, history>>

\* PreviousDifficulty is being set for the first time: its flag is seen, with the value 0.
PreviousTorn ==
    /\ pc["handler"] = "checkPrevious" /\ previous = None /\ \E t \in Tasks : pc[t] = "setPrevious"
    /\ Goto("handler", "usePrevious", None)
    /\ UNCHANGED <<ctxVars, suggested, minerVars, history>>

\* Mutant of SecondRead: the share keeps the current difficulty.
NoSecondRead == difficulty

\* stratumDifficulty = context.PreviousDifficulty.Value
SecondRead == IF previous = None THEN 0 ELSE previous

UsePrevious ==
    /\ pc["handler"] = "usePrevious"
    /\ Goto("handler", "publish", SecondRead)
    /\ UNCHANGED <<ctxVars, suggested, minerVars, history>>

\* OnSubmitAsync answers and publishes the share; the retarget follows.
Publish ==
    /\ pc["handler"] = "publish"
    /\ Goto("handler", "vardiff", None)
    /\ share' = NoShare /\ raced' = FALSE
    /\ UNCHANGED <<ctxVars, suggested, minerVars, doubt>>

\* StratumException: low difficulty share
Refuse ==
    /\ pc["handler"] \in {"refuse", "refuseEarly"}
    /\ Done("handler")
    /\ share' = NoShare /\ raced' = FALSE
    /\ UNCHANGED <<ctxVars, minerVars, doubt>>

-----------------------------------------------------------------------------
(* UpdateVarDiffAsync and OnVarDiffUpdateAsync *)

\* The difficulty is read before the lock is taken.  The idle updater begins here.
ReadDifficulty(t) ==
    /\ pc[t] = "vardiff" \/ (t = "idle" /\ pc[t] = "idle")
    /\ Goto(t, "retarget", difficulty)
    /\ UNCHANGED <<ctxVars, suggested, minerVars, history>>

\* Under the lock.
Retarget(t) ==
    /\ pc[t] = "retarget"
    /\ \E d \in Diffs \ {local[t]} : Goto(t, "enqueue", d)
    /\ updated' = TRUE
    /\ UNCHANGED <<difficulty, previous, pending, suggested, minerVars, history>>

\* Too early, in range, at the limit, or (idle) the lock is taken.
NoRetarget(t) ==
    /\ pc[t] = "retarget"
    /\ Done(t)
    /\ UNCHANGED <<ctxVars, minerVars, history>>

EnqueueNewDifficulty(t) ==
    /\ pc[t] = "enqueue"
    /\ pending' = local[t]
    /\ Goto(t, "apply", None)
    /\ UNCHANGED <<difficulty, previous, updated, suggested, minerVars, history>>

-----------------------------------------------------------------------------
(* ApplyPendingDifficulty, SetDifficulty and the message to the miner *)

Changing(t) == pc[t] \in {"setPrevious", "setDifficulty", "clear", "build", "notify"}

\* t begins to change the difficulty to d.
Change(t, d) ==
    /\ Goto(t, "setPrevious", d)
    /\ doubt' = (doubt \/ \E u \in Tasks : Changing(u))

\* After a retarget, or in OnNewJobAsync, where the broadcast begins.
Applying(t) == pc[t] = "apply" \/ (t = "broadcast" /\ pc[t] = "idle")

HasPending(t) ==
    /\ Applying(t)
    /\ IF pending # None
       THEN Goto(t, "value", None) /\ UNCHANGED suggested
       ELSE Done(t)
    /\ UNCHANGED <<ctxVars, minerVars, history>>

\* The flag of a difficulty that is just being enqueued is seen before its value.
PendingFlag(t) ==
    /\ Applying(t) /\ pending = None /\ \E u \in Retargeters : pc[u] = "enqueue"
    /\ Goto(t, "value", None)
    /\ UNCHANGED <<ctxVars, suggested, minerVars, history>>

\* pendingDifficulty.Value: cleared in the meantime, it throws.
PendingValue(t) ==
    /\ pc[t] = "value"
    /\ IF pending = None
       THEN Throws(t)
       ELSE Change(t, pending) /\ UNCHANGED <<ctxVars, suggested, minerVars, share, raced>>

\* The same at the moment it is cleared or set: the flag is seen, but not the value.
PendingTorn(t) ==
    /\ pc[t] = "value" /\ pending = None
    /\ Change(t, 0)
    /\ UNCHANGED <<ctxVars, suggested, minerVars, share, raced>>

\* OnSuggestDifficultyAsync: only above the port's difficulty.  (A static difficulty
\* asked for at authorization, by NiceHash or by mining.configure is set the same way
\* but ends the retargets: the connection keeps it.)
SuggestDifficulty ==
    /\ pc["handler"] = "idle"
    /\ \E d \in Diffs : d > PortDiff /\ Change("handler", d)
    /\ suggested' = TRUE
    /\ UNCHANGED <<ctxVars, minerVars, share, raced>>

\* Mutant of KeepsPrevious: the previous difficulty is not kept.
ForgetsPrevious == previous

\* PreviousDifficulty = Difficulty
KeepsPrevious == difficulty

OneMore(n) == IF n < 2 THEN n + 1 ELSE n

SetPrevious(t) ==
    /\ pc[t] = "setPrevious"
    /\ previous' = KeepsPrevious
    /\ Goto(t, "setDifficulty", local[t])
    /\ share' = IF share = NoShare THEN share ELSE [share EXCEPT !.behind = OneMore(@)]
    /\ raced' = (raced \/ pc["handler"] = "usePrevious")
    /\ UNCHANGED <<difficulty, pending, updated, suggested, minerVars, doubt>>

SetDifficulty(t) ==
    /\ pc[t] = "setDifficulty"
    /\ difficulty' = local[t]
    /\ Goto(t, IF t = "handler" /\ suggested THEN "build" ELSE "clear", None)
    /\ UNCHANGED <<previous, pending, updated, suggested, minerVars, history>>

ClearPending(t) ==
    /\ pc[t] = "clear"
    /\ pending' = None
    /\ Goto(t, "build", None)
    /\ UNCHANGED <<difficulty, previous, updated, suggested, minerVars, history>>

\* Mutant of NewDifficulty: the message has the difficulty that was replaced.
OldDifficulty == previous

\* new object[] { context.Difficulty }
NewDifficulty == difficulty

BuildMessage(t) ==
    /\ pc[t] = "build"
    /\ Goto(t, "notify", NewDifficulty)
    /\ UNCHANGED <<ctxVars, suggested, minerVars, history>>

\* Mutant of HasRoom: one message too many.
HasRoomForOneMore == Len(queue) <= QueueCapacity

\* StratumConnection.SendAsync
HasRoom == Len(queue) < QueueCapacity

\* NotifyAsync
Notify(t) ==
    /\ pc[t] = "notify" /\ HasRoom
    /\ queue' = Append(queue, local[t])
    /\ Done(t)
    /\ UNCHANGED <<ctxVars, miner, history>>

\* "Sendqueue stalled"
Stalled(t) == pc[t] = "notify" /\ Throws(t)

-----------------------------------------------------------------------------
(* The miner *)

\* ProcessSendQueueAsync
Deliver ==
    /\ queue # <<>>
    /\ miner' = Head(queue) /\ queue' = Tail(queue)
    /\ UNCHANGED <<ctxVars, taskVars, history>>

\* Has t begun a change whose message is not queued yet?
Unsent(t) == Changing(t) /\ pc[t] # "setPrevious"

\* How many changes has the miner not heard of yet?  In doubt the count means nothing.
Behind ==
    CASE ~doubt /\ queue = <<>> /\ (\A t \in Tasks : ~Unsent(t)) -> 0
      [] ~doubt /\ queue = <<>> /\ (\E t \in Tasks : Unsent(t)) -> 1
      [] ~doubt /\ Len(queue) = 1 /\ (\A t \in Tasks : ~Unsent(t)) -> 1
      [] OTHER -> 2

\* The miner sends a share of its difficulty or a better one, or one that meets none.
\* Of a block candidate the difficulty is never looked at: it meets none here.
FindShare ==
    /\ share = NoShare
    /\ \/ \E d \in Diffs :
            d >= miner /\ share' = [achieved |-> d, candidate |-> FALSE, behind |-> Behind]
       \/ \E candidate \in BOOLEAN :
            share' = [achieved |-> 0, candidate |-> candidate, behind |-> 2]
    /\ UNCHANGED <<ctxVars, taskVars, minerVars, raced, doubt>>

-----------------------------------------------------------------------------
ProcessShare ==
    \/ CheckDifficulty \/ CheckPrevious \/ PreviousTorn
    \/ UsePrevious \/ Publish \/ Refuse

UpdateVarDiff(t) == ReadDifficulty(t) \/ Retarget(t) \/ NoRetarget(t) \/ EnqueueNewDifficulty(t)

ApplyAndNotify(t) ==
    \/ HasPending(t) \/ PendingFlag(t) \/ PendingValue(t) \/ PendingTorn(t)
    \/ SetPrevious(t) \/ SetDifficulty(t) \/ ClearPending(t)
    \/ BuildMessage(t) \/ Notify(t) \/ Stalled(t)

Next ==
    \/ ProcessShare \/ SuggestDifficulty
    \/ \E t \in Retargeters : UpdateVarDiff(t)
    \/ \E t \in Tasks : ApplyAndNotify(t)
    \/ Deliver \/ FindShare \/ Close

Spec == Init /\ [][Next]_vars

-----------------------------------------------------------------------------
Locations ==
    {"idle", "checkPrevious", "usePrevious", "publish", "refuse", "refuseEarly", "vardiff", "retarget",
     "enqueue", "apply", "value", "setPrevious", "setDifficulty", "clear", "build", "notify"}

TypeOK ==
    /\ difficulty \in Diffs \cup {0} /\ previous \in Diffs \cup {0, None}
    /\ pending \in Diffs \cup {None} /\ updated \in BOOLEAN
    /\ pc \in [Tasks -> Locations]
    /\ local \in [Tasks -> Diffs \cup {0, None}] /\ suggested \in BOOLEAN
    /\ queue \in Seq(Diffs \cup {0}) /\ Len(queue) <= QueueCapacity
    /\ miner \in Diffs \cup {0}
    /\ share \in [achieved : Diffs \cup {0, None}, candidate : BOOLEAN, behind : 0..2]
    /\ raced \in BOOLEAN /\ doubt \in BOOLEAN

\* A share is credited with a difficulty it meets, unless the previous difficulty
\* was replaced between the check and the second read, or it is a block candidate:
\* that one is credited with the current difficulty, which it need not meet.
CreditIsMet ==
    pc["handler"] = "publish" =>
        share.achieved >= local["handler"] \/ raced \/ share.candidate

\* A share that the miner found at the difficulty it was told is accepted, even if
\* the difficulty was changed once before the share is checked, and wherever that
\* change has got to, unless changes overlapped or a message was lost.  Only after a
\* retarget: a change the miner suggested before the first one has no such grace.
\* And whatever the changes, no block candidate is refused for its difficulty.
FairShareAccepted ==
    /\ pc["handler"] \in {"refuse", "refuseEarly"} => ~share.candidate
    /\ \/ doubt
       \/ /\ pc["handler"] = "refuse" => share.behind > 1
          /\ pc["handler"] = "refuseEarly" => share.behind > 0

\* When nothing is under way, the miner works at the pool's difficulty, unless
\* changes overlapped or a message was lost.
MinerInStep ==
    (queue = <<>> /\ \A t \in Tasks : ~Changing(t)) => miner = difficulty \/ doubt
=============================================================================
