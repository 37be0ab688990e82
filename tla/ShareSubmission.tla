--------------------------- MODULE ShareSubmission ---------------------------
(***************************************************************************)
(* How a Bitcoin pool turns submitted shares into counted shares and       *)
(* blocks (BitcoinPool.OnSubmitAsync, BitcoinJobManager.SubmitShareAsync,  *)
(* BitcoinJob.ProcessShare, BitcoinWorkerContext).                         *)
(*                                                                         *)
(* Every connection handles one request at a time; a block candidate is    *)
(* sent to the daemon in the middle of its request.  Any answer may be     *)
(* lost, a connection may end at any time and cancel what its request      *)
(* waits for, and the process may end.                                     *)
(*                                                                         *)
(* Of the making of jobs there is the outcome, and the two reads of the    *)
(* flag that says whom the next block pays: a new job is for any template  *)
(* the daemon has given out so far, and a worker may be given the current  *)
(* job at any time.  A submission that is refused without a trace (stale   *)
(* request, worker not subscribed or authorized, unknown job, malformed    *)
(* fields, duplicate) is no step.                                          *)
(*                                                                         *)
(* A miner sends extra nonce 2, time and nonce as text.  The duplicate     *)
(* check compares texts; the header is made from what they stand for and   *)
(* from the version bits.  One text may so stand for several headers, and  *)
(* several texts for one.                                                  *)
(***************************************************************************)
EXTENDS Integers, Sequences, FiniteSets

CONSTANTS
    Workers,        \* connections; a slot is used again after its connection ended
    Texts,          \* extra nonce 2, time and nonce as they may be written
    Nonces,         \* what a miner varies of the header: those and the version bits
    Means,          \* text -> the nonces it may stand for
    BlockNonces,    \* nonces whose header meets the network's target
    ExtraNonces,    \* extra nonces connections can have
    MaxActiveJobs,  \* jobs a worker may submit to
    MaxHeight,      \* bound: height of the chain
    MaxJobs,        \* bound: jobs ever made
    MaxShares,      \* bound: shares that pass the duplicate check
    MaxFaults       \* bound: lost calls and answers, stalled queues, ends of
                    \* the process, taken together

ASSUME NonceAssumption == BlockNonces \subseteq Nonces /\ Means \in [Texts -> SUBSET Nonces]
ASSUME LimitAssumption ==
    /\ MaxActiveJobs \in Nat \ {0} /\ MaxHeight \in Nat /\ MaxJobs \in Nat
    /\ MaxShares \in Nat /\ MaxFaults \in Nat

\* A job: `external` says that its coinbase pays the external address, `stealth` is
\* IsStealth.  A draft is a job whose IsStealth is not set yet.
Drafts == [id : 1..MaxJobs, height : 1..MaxHeight + 1, external : BOOLEAN]
Jobs == [id : 1..MaxJobs, height : 1..MaxHeight + 1, external : BOOLEAN, stealth : BOOLEAN]
NoJob == [id |-> 0, height |-> 0, external |-> FALSE, stealth |-> FALSE]
Shares == [job : Jobs, en1 : ExtraNonces, text : Texts, nonce : Nonces]
Entries == [share : Shares, block : BOOLEAN]
NoShare == [job |-> NoJob, en1 |-> -1, text |-> "none", nonce |-> "none"]

VARIABLES
    tip,            \* height of the chain, as the daemon sees it
    wire,           \* blocks sent to the daemon and not yet handled by it
    won,            \* blocks of the pool the daemon accepted
    made,           \* jobs made so far, each with a coinbase of its own
    drafts,         \* jobs that are being made
    current,        \* currentJob
    zigzag,         \* isZigZaggable
    external,       \* nextBlockIsExternal, as saved in its file
    en1,            \* worker -> its ExtraNonce1 once it has subscribed, or NoNonce
    validJobs,      \* worker -> the jobs it may submit to, oldest first
    submissions,    \* shares that passed the duplicate check
    pc,             \* worker -> where its submission is
    share,          \* worker -> the share it is about, or NoShare
    low,            \* shares refused for their difficulty (history)
    unanswered,     \* blocks whose answer the pool has given up (history)
    dropped,        \* checked shares never published (history)
    journal,        \* what was published: the share, and whether as a block
    faults          \* faults so far

chainVars == <<tip, wire, won>>
jobVars == <<made, drafts, current, zigzag, external>>
shareVars == <<submissions, pc, share, low, unanswered, dropped>>
vars == <<chainVars, jobVars, en1, validJobs, shareVars, journal, faults>>

Fault == faults < MaxFaults /\ faults' = faults + 1

NoNonce == -1
NoJobs == [w \in Workers |-> <<>>]

Init ==
    /\ tip = 0 /\ wire = {} /\ won = {}
    /\ made = 0 /\ drafts = {} /\ current = NoJob /\ zigzag = FALSE /\ external \in BOOLEAN
    /\ en1 = [w \in Workers |-> NoNonce]
    /\ validJobs = NoJobs
    /\ submissions = {} /\ pc = [w \in Workers |-> "idle"]
    /\ share = [w \in Workers |-> NoShare]
    /\ low = {} /\ unanswered = {} /\ dropped = {}
    /\ journal = <<>> /\ faults = 0

-----------------------------------------------------------------------------
(* Jobs *)

\* UpdateJob.  A template that was fetched earlier may be installed late.
UpdateJob ==
    /\ ~zigzag /\ made < MaxJobs /\ made' = made + 1
    /\ \E h \in 1..tip + 1 :
        current' = [id |-> made', height |-> h, external |-> FALSE, stealth |-> FALSE]
    /\ UNCHANGED <<chainVars, drafts, zigzag, external, en1, validJobs, shareVars, journal, faults>>

\* Once an external address is known, blocks pay it and the pool's address in turn.
\* nextBlockIsExternal is read for the address, and again for IsStealth; updates of
\* the job run on several threads, and nothing keeps BlockAccepted out in between.
SelectAddress ==
    /\ made < MaxJobs /\ made' = made + 1
    /\ zigzag' = TRUE
    /\ \E h \in 1..tip + 1 :
        drafts' = drafts \cup {[id |-> made', height |-> h, external |-> external]}
    /\ UNCHANGED <<chainVars, current, external, en1, validJobs, shareVars, journal, faults>>

MarkStealth(d) ==
    /\ drafts' = drafts \ {d}
    /\ current' = [id |-> d.id, height |-> d.height, external |-> d.external, stealth |-> external]
    /\ UNCHANGED <<chainVars, made, zigzag, external, en1, validJobs, shareVars, journal, faults>>

Holds(q, j) == \E i \in 1..Len(q) : q[i] = j

\* Mutant of AddJob: old jobs are never dropped.
AddJobUnbounded(q, j) == IF Holds(q, j) THEN q ELSE Append(q, j)

\* BitcoinWorkerContext.AddJob
AddJob(q, j) ==
    LET r == IF Holds(q, j) THEN q ELSE Append(q, j) IN
    IF Len(r) > MaxActiveJobs THEN Tail(r) ELSE r

Connected(w) == en1[w] # NoNonce

CreateWorkerJob(w) == validJobs' = [validJobs EXCEPT ![w] = AddJob(@, current)]

\* OnNewJobAsync and OnVarDiffUpdateAsync hand out the current job.
SendJob(w) ==
    /\ Connected(w) /\ current # NoJob
    /\ CreateWorkerJob(w)
    /\ UNCHANGED <<chainVars, jobVars, en1, shareVars, journal, faults>>

-----------------------------------------------------------------------------
(* Connections *)

\* OnSubscribeAsync, also repeated.  The extra nonce may be one that another
\* connection has: a session is resumed, or the counter has rolled over.
OnSubscribe(w) ==
    /\ pc[w] = "idle" /\ current # NoJob
    /\ \E e \in ExtraNonces : en1' = [en1 EXCEPT ![w] = e]
    /\ CreateWorkerJob(w)
    /\ UNCHANGED <<chainVars, jobVars, shareVars, journal, faults>>

\* The connection of w is over and its context goes.
Leaves(w) ==
    /\ en1' = [en1 EXCEPT ![w] = NoNonce]
    /\ validJobs' = [validJobs EXCEPT ![w] = <<>>]

Waiting(w) == pc[w] \in {"submitting", "accepted"}

\* A block submission the request waits for is cancelled: it looks failed.
Disconnect(w) ==
    /\ Connected(w)
    /\ Leaves(w)
    /\ pc' = [pc EXCEPT ![w] = IF Waiting(w) THEN "respond" ELSE @]
    /\ unanswered' = IF Waiting(w) THEN unanswered \cup {share[w]} ELSE unanswered
    /\ UNCHANGED <<chainVars, jobVars, submissions, share, low, dropped, journal, faults>>

-----------------------------------------------------------------------------
(* OnSubmitAsync *)

\* Mutant of IsDuplicate: the check is left out.
NeverDuplicate(s) == FALSE

\* The key of RegisterSubmit is made of texts; the table of keys belongs to the job.
Key(s) == [job |-> s.job, en1 |-> s.en1, text |-> s.text]

\* The header a share stands for.
Work(s) == [job |-> s.job, en1 |-> s.en1, nonce |-> s.nonce]

\* BitcoinJob.RegisterSubmit
IsDuplicate(s) == \E t \in submissions : Key(t) = Key(s)

\* SubmitShareAsync up to the first await: the job is looked up and the share
\* registered.
Register(w, s) ==
    /\ Connected(w) /\ pc[w] = "idle"
    /\ Holds(validJobs[w], s.job)
    /\ ~IsDuplicate(s)
    /\ Cardinality(submissions \cup {s}) <= MaxShares
    /\ submissions' = submissions \cup {s}

SubmitShare(w, s) ==
    /\ Register(w, s)
    /\ share' = [share EXCEPT ![w] = s]
    /\ IF s.nonce \in BlockNonces
       THEN pc' = [pc EXCEPT ![w] = "submitting"] /\ wire' = wire \cup {s}
       ELSE pc' = [pc EXCEPT ![w] = "respond"] /\ UNCHANGED wire
    /\ UNCHANGED <<tip, won, jobVars, en1, validJobs, low, unanswered, dropped, journal, faults>>

\* The share is registered before its difficulty is checked.
SubmitLowShare(w, s) ==
    /\ Register(w, s) /\ s.nonce \notin BlockNonces
    /\ low' = low \cup {s}
    /\ UNCHANGED <<chainVars, jobVars, en1, validJobs, pc, share, unanswered, dropped, journal, faults>>

\* Mutant of IsStealth: the flag of the next job is used.
NextIsStealth(w) == external

\* job.IsStealth
IsStealth(w) == share[w].job.stealth

\* SubmitBlockAsync has returned.  The job update that is started here is one
\* of those that UpdateJob allows at any time.
BlockAccepted(w) ==
    /\ pc[w] = "accepted"
    /\ pc' = [pc EXCEPT ![w] = IF IsStealth(w) THEN "respond" ELSE "respondBlock"]
    /\ external' = IF IsStealth(w) \/ zigzag THEN ~IsStealth(w) ELSE external
    /\ UNCHANGED <<chainVars, made, drafts, current, zigzag, en1, validJobs, submissions, share, low,
                   unanswered, dropped, journal, faults>>

\* ExecuteBatchAsync turns a timeout or a broken connection into an error answer,
\* whether the daemon has handled the block, will do so later, or never gets it.
AnswerLost(w) ==
    /\ Fault /\ Waiting(w)
    /\ pc' = [pc EXCEPT ![w] = "respond"]
    /\ unanswered' = unanswered \cup {share[w]}
    /\ UNCHANGED <<chainVars, jobVars, en1, validJobs, submissions, share, low, dropped, journal>>

\* Mutant of MayPublish: shares of a connection that is gone are ignored.
MayPublishIfAlive(w) == Connected(w)

\* An answer to a connection that is gone is dropped without an error.
MayPublish(w) == TRUE

Finish(w) ==
    /\ pc[w] \in {"respond", "respondBlock"}
    /\ pc' = [pc EXCEPT ![w] = "idle"] /\ share' = [share EXCEPT ![w] = NoShare]

Entry(w) == [share |-> share[w], block |-> pc[w] = "respondBlock"]

\* The answer is queued, then the share is published.
RespondAndPublish(w) ==
    /\ Finish(w)
    /\ journal' = IF MayPublish(w) THEN Append(journal, Entry(w)) ELSE journal
    /\ UNCHANGED <<chainVars, jobVars, en1, validJobs, submissions, low, unanswered, dropped, faults>>

\* "Sendqueue stalled": the exception ends the request and the connection.
QueueStalled(w) ==
    /\ Fault
    /\ Finish(w) /\ Leaves(w)
    /\ dropped' = dropped \cup {share[w]}
    /\ UNCHANGED <<chainVars, jobVars, submissions, low, unanswered, journal>>

-----------------------------------------------------------------------------
(* Surroundings *)

\* Does the block extend the chain?  A block the daemon has had before does not.
Extends(s) == s.job.height = tip + 1 /\ tip < MaxHeight

\* The daemon handles a block, perhaps after the pool stopped waiting.  With a
\* block that is refused, the share is one like any other.
DaemonSubmitBlock(s) ==
    /\ wire' = wire \ {s}
    /\ tip' = IF Extends(s) THEN tip + 1 ELSE tip
    /\ won' = IF Extends(s) THEN won \cup {s} ELSE won
    /\ pc' = [w \in Workers |->
                IF pc[w] = "submitting" /\ share[w] = s
                THEN IF Extends(s) THEN "accepted" ELSE "respond"
                ELSE pc[w]]
    /\ UNCHANGED <<jobVars, en1, validJobs, submissions, share, low, unanswered, dropped, journal, faults>>

\* Somebody else finds a block.
OtherBlock ==
    /\ tip < MaxHeight
    /\ tip' = tip + 1
    /\ UNCHANGED <<wire, won, jobVars, en1, validJobs, shareVars, journal, faults>>

\* The process ends; only the file with nextBlockIsExternal stays.  The tables of
\* submissions go with their jobs, which nobody can submit to any more.
\* (Only while the bound leaves a job for the next process.)
Crash ==
    /\ Fault /\ made < MaxJobs
    /\ drafts' = {} /\ current' = NoJob /\ zigzag' = FALSE
    /\ en1' = [w \in Workers |-> NoNonce]
    /\ validJobs' = NoJobs
    /\ dropped' = dropped \cup {share[w] : w \in {v \in Workers : pc[v] # "idle"}}
    /\ pc' = [w \in Workers |-> "idle"] /\ share' = [w \in Workers |-> NoShare]
    /\ UNCHANGED <<chainVars, made, external, submissions, low, unanswered, journal>>

-----------------------------------------------------------------------------
Connection(w) ==
    \/ OnSubscribe(w) \/ Disconnect(w)
    \/ SendJob(w)
OnSubmit(w) ==
    \/ \E i \in DOMAIN validJobs[w], t \in Texts : \E n \in Means[t] :
        LET s == [job |-> validJobs[w][i], en1 |-> en1[w], text |-> t, nonce |-> n] IN
        SubmitShare(w, s) \/ SubmitLowShare(w, s)
    \/ BlockAccepted(w) \/ AnswerLost(w)
    \/ RespondAndPublish(w) \/ QueueStalled(w)
Daemon == OtherBlock \/ \E s \in wire : DaemonSubmitBlock(s)

Next ==
    \/ UpdateJob \/ SelectAddress \/ (\E d \in drafts : MarkStealth(d))
    \/ Daemon \/ Crash
    \/ \E w \in Workers : Connection(w) \/ OnSubmit(w)

Spec == Init /\ [][Next]_vars

-----------------------------------------------------------------------------
TypeOK ==
    /\ tip \in 0..MaxHeight /\ wire \subseteq Shares /\ won \subseteq Shares
    /\ made \in 0..MaxJobs /\ drafts \subseteq Drafts /\ current \in Jobs \cup {NoJob}
    /\ zigzag \in BOOLEAN /\ external \in BOOLEAN
    /\ en1 \in [Workers -> ExtraNonces \cup {NoNonce}]
    /\ validJobs \in [Workers -> Seq(Jobs)]
    /\ \A w \in Workers : Len(validJobs[w]) <= MaxActiveJobs
    /\ submissions \subseteq Shares /\ low \subseteq Shares
    /\ unanswered \subseteq Shares /\ dropped \subseteq Shares
    /\ pc \in [Workers -> {"idle", "submitting", "accepted", "respond", "respondBlock"}]
    /\ share \in [Workers -> Shares \cup {NoShare}]
    /\ journal \in Seq(Entries)
    /\ faults \in 0..MaxFaults

Published(s) == \E i \in 1..Len(journal) : journal[i].share = s
Recorded(s) == \E i \in 1..Len(journal) : journal[i].share = s /\ journal[i].block
InFlight(s) == \E w \in Workers : pc[w] # "idle" /\ share[w] = s

PaysPool(s) == ~s.job.external

\* nextBlockIsExternal changed between its two reads: the job pays the one address
\* and is taken to pay the other.
Torn(s) == s.job.external # s.job.stealth

\* A block that the network accepted and that pays the pool is published as a
\* block, unless the answer to its submission was given up, the share itself was
\* lost to a stalled queue or the end of the process, or the flag that says whom
\* blocks pay was written while its job was made.
AcceptedIsRecorded ==
    \A s \in won :
        \/ ~PaysPool(s) \/ Torn(s) \/ Recorded(s)
        \/ s \in unanswered \cup dropped
        \/ \E w \in Workers : share[w] = s /\ pc[w] \in {"accepted", "respondBlock"}

\* A share that passed the checks is published, whatever becomes of its block
\* and of its connection, unless the queue stalls or the process ends.
ValidSharesCounted ==
    \A s \in submissions \ low :
        Published(s) \/ InFlight(s) \/ s \in dropped

PaysPoolUnlessTorn(s) == PaysPool(s) \/ Torn(s)

Book == INSTANCE ShareBook
    WITH Shares <- Shares, Key <- Key, Work <- Work, PaysPool <- PaysPoolUnlessTorn,
         won <- won, journal <- journal

\* No text is published twice for a job and an extra nonce; a header, however many
\* texts stand for it, is recorded as a block at most once, and only when the network
\* has accepted it and it pays the pool (the same exception aside).
ImplementsBook == Book!Spec
=============================================================================
