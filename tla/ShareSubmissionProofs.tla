------------------------ MODULE ShareSubmissionProofs ------------------------
(***************************************************************************)
(* Theorems about ShareSubmission: no key is published twice and no header *)
(* recorded as a block twice, an accepted block is recorded, a checked     *)
(* share is published, for any number of connections, jobs, texts and      *)
(* faults, and whatever nonces a text may stand for.                       *)
(***************************************************************************)
EXTENDS ShareSubmission, TLAPS

Busy(w) == pc[w] # "idle"

\* A share that is handled was registered, is not published yet and is handled by
\* nobody else.
FlightInv ==
    /\ \A w \in Workers : Busy(w) =>
        share[w] \in submissions /\ share[w] \notin low /\ ~Published(share[w])
    /\ \A v, w \in Workers : Busy(v) /\ Busy(w) /\ share[v] = share[w] => v = w

\* Whatever is known of a share, it was registered; blocks are handled once.
RegisteredInv ==
    /\ wire \subseteq submissions /\ won \subseteq submissions /\ low \subseteq submissions
    /\ wire \cap won = {}
    /\ \A i \in 1..Len(journal) : journal[i].share \in submissions

\* What a task knows of its block is true.
VerdictInv ==
    \A w \in Workers :
        /\ pc[w] \in {"accepted", "respondBlock"} => share[w] \in won
        /\ pc[w] = "respondBlock" => PaysPoolUnlessTorn(share[w])

\* Somebody waits for the answer to a block, or it was given up.
AwaitedInv ==
    \A s \in wire :
        \/ s \in unanswered \cup dropped
        \/ \E w \in Workers : share[w] = s /\ pc[w] = "submitting"

\* Keys tell registered shares apart, although headers do not.
KeyInv == \A s, t \in submissions : Key(s) = Key(t) => s = t

\* Every block that was won has a height of its own, and what is recorded as a block
\* was won.
ChainInv ==
    /\ \A s \in won : s.job.height <= tip
    /\ \A s, t \in won : s.job.height = t.job.height => s = t
    /\ \A i \in 1..Len(journal) : journal[i].block => journal[i].share \in won

SubmissionInv ==
    /\ TypeOK /\ KeyInv /\ ChainInv /\ FlightInv /\ RegisteredInv /\ VerdictInv /\ AwaitedInv
    /\ AcceptedIsRecorded /\ ValidSharesCounted

Core == FlightInv /\ RegisteredInv /\ VerdictInv /\ AwaitedInv /\ AcceptedIsRecorded /\ ValidSharesCounted

-----------------------------------------------------------------------------
(* Types *)

\* A sequence over a set stays one when a member of the set is appended.
LEMMA AppendType ==
    ASSUME NEW S, NEW q \in Seq(S), NEW e \in S
    PROVE  Append(q, e) \in Seq(S)
OBVIOUS

\* A worker's list of jobs has at most MaxActiveJobs entries after another one is added.
LEMMA AddJobType ==
    ASSUME NEW q \in Seq(Jobs), Len(q) <= MaxActiveJobs, NEW j \in Jobs
    PROVE  AddJob(q, j) \in Seq(Jobs) /\ Len(AddJob(q, j)) <= MaxActiveJobs
<1> DEFINE r == IF Holds(q, j) THEN q ELSE Append(q, j)
<1>1. r \in Seq(Jobs) /\ Len(r) <= MaxActiveJobs + 1
  BY LimitAssumption
<1>2. CASE Len(r) > MaxActiveJobs
  <2>1. Len(r) > 0
    BY <1>1, <1>2, LimitAssumption
  <2>2. Tail(r) \in Seq(Jobs) /\ Len(Tail(r)) = Len(r) - 1
    BY <1>1, <2>1
  <2>3. AddJob(q, j) = Tail(r)
    BY <1>2 DEF AddJob
  <2> QED
    BY <1>1, <2>2, <2>3, LimitAssumption
<1>3. CASE ~(Len(r) > MaxActiveJobs)
  <2>1. AddJob(q, j) = r
    BY <1>3 DEF AddJob
  <2> QED
    BY <1>1, <1>3, <2>1, LimitAssumption
<1> QED
  BY <1>2, <1>3

\* Handing out the current job keeps the lists of jobs well-formed.
LEMMA CreateWorkerJobType ==
    ASSUME TypeOK, NEW w \in Workers, current # NoJob, CreateWorkerJob(w)
    PROVE  /\ validJobs' \in [Workers -> Seq(Jobs)]
           /\ \A v \in Workers : Len(validJobs'[v]) <= MaxActiveJobs
<1>1. current \in Jobs /\ validJobs[w] \in Seq(Jobs) /\ Len(validJobs[w]) <= MaxActiveJobs
  BY DEF TypeOK
<1>2. AddJob(validJobs[w], current) \in Seq(Jobs) /\ Len(AddJob(validJobs[w], current)) <= MaxActiveJobs
  BY <1>1, AddJobType
<1>3. validJobs' = [validJobs EXCEPT ![w] = AddJob(validJobs[w], current)]
  BY DEF CreateWorkerJob
<1> QED
  BY <1>2, <1>3 DEF TypeOK

\* Every step keeps the types; that a share which is handled is one comes from FlightInv.
LEMMA TypeStep == TypeOK /\ FlightInv /\ [Next]_vars => TypeOK'
<1> SUFFICES ASSUME TypeOK, FlightInv, [Next]_vars PROVE TypeOK'
  OBVIOUS
<1> USE LimitAssumption
<1>0. \A w \in Workers : Busy(w) => share[w] \in Shares
  BY DEF TypeOK, FlightInv
<1>1. CASE UpdateJob
  <2>1. made + 1 \in 1..MaxJobs /\ made' = made + 1
    BY <1>1 DEF UpdateJob, TypeOK
  <2>2. PICK h \in 1..tip + 1 :
            current' = [id |-> made', height |-> h, external |-> FALSE, stealth |-> FALSE]
    BY <1>1 DEF UpdateJob
  <2>3. h \in 1..MaxHeight + 1
    BY <2>2 DEF TypeOK
  <2>4. current' \in Jobs
    BY <2>1, <2>2, <2>3 DEF Jobs
  <2> QED
    BY <1>1, <2>1, <2>4 DEF UpdateJob, TypeOK, chainVars, shareVars
<1>7. CASE SelectAddress
  <2>1. made + 1 \in 1..MaxJobs /\ made' = made + 1
    BY <1>7 DEF SelectAddress, TypeOK
  <2>2. PICK h \in 1..tip + 1 :
            drafts' = drafts \cup {[id |-> made', height |-> h, external |-> external]}
    BY <1>7 DEF SelectAddress
  <2>3. h \in 1..MaxHeight + 1 /\ external \in BOOLEAN
    BY <2>2 DEF TypeOK
  <2>4. [id |-> made', height |-> h, external |-> external] \in Drafts
    BY <2>1, <2>3 DEF Drafts
  <2>5. drafts' \subseteq Drafts
    BY <2>2, <2>4 DEF TypeOK
  <2> QED
    BY <1>7, <2>1, <2>5 DEF SelectAddress, TypeOK, chainVars, shareVars
<1>8. ASSUME NEW d \in drafts, MarkStealth(d) PROVE TypeOK'
  <2>1. d \in Drafts /\ external \in BOOLEAN
    BY DEF TypeOK
  <2>2. d.id \in 1..MaxJobs /\ d.height \in 1..MaxHeight + 1 /\ d.external \in BOOLEAN
    BY <2>1 DEF Drafts
  <2>3. current' \in Jobs
    BY <1>8, <2>1, <2>2 DEF MarkStealth, Jobs
  <2> QED
    BY <1>8, <2>3 DEF MarkStealth, TypeOK, chainVars, shareVars
<1>2. ASSUME Daemon PROVE TypeOK'
  <2>1. CASE OtherBlock
    BY <2>1 DEF OtherBlock, TypeOK, jobVars, shareVars
  <2>2. ASSUME NEW s \in wire, DaemonSubmitBlock(s) PROVE TypeOK'
    <3>1. s \in Shares
      BY DEF TypeOK
    <3>2. tip' \in 0..MaxHeight
      BY <2>2 DEF DaemonSubmitBlock, Extends, TypeOK
    <3>3. wire' \subseteq Shares /\ won' \subseteq Shares
      BY <2>2, <3>1 DEF DaemonSubmitBlock, TypeOK
    <3>4. pc' \in [Workers -> {"idle", "submitting", "accepted", "respond", "respondBlock"}]
      BY <2>2 DEF DaemonSubmitBlock, TypeOK
    <3> QED
      BY <2>2, <3>2, <3>3, <3>4 DEF DaemonSubmitBlock, TypeOK, jobVars
  <2> QED
    BY <1>2, <2>1, <2>2 DEF Daemon
<1>3. ASSUME Crash PROVE TypeOK'
  <2>1. faults' \in 0..MaxFaults
    BY <1>3 DEF Crash, Fault, TypeOK
  <2>2. validJobs' \in [Workers -> Seq(Jobs)] /\ \A w \in Workers : Len(validJobs'[w]) <= MaxActiveJobs
    BY <1>3 DEF Crash, NoJobs
  <2>3. dropped' \subseteq Shares
    BY <1>0, <1>3 DEF Crash, TypeOK, Busy
  <2> QED
    BY <1>3, <2>1, <2>2, <2>3 DEF Crash, TypeOK, chainVars
<1>4. ASSUME NEW w \in Workers, Connection(w) PROVE TypeOK'
  <2>1. CASE OnSubscribe(w)
    <3>1. current # NoJob /\ CreateWorkerJob(w)
      BY <2>1 DEF OnSubscribe
    <3>2. en1' \in [Workers -> ExtraNonces \cup {NoNonce}]
      BY <2>1 DEF OnSubscribe, TypeOK
    <3> QED
      BY <2>1, <3>1, <3>2, CreateWorkerJobType DEF OnSubscribe, TypeOK, chainVars, jobVars, shareVars
  <2>2. CASE Disconnect(w)
    <3>1. Waiting(w) => share[w] \in Shares
      BY <1>0 DEF Waiting, Busy
    <3> QED
      BY <2>2, <3>1 DEF Disconnect, Leaves, Waiting, TypeOK, chainVars, jobVars
  <2>3. CASE SendJob(w)
    <3>1. current # NoJob /\ CreateWorkerJob(w)
      BY <2>3 DEF SendJob
    <3> QED
      BY <2>3, <3>1, CreateWorkerJobType DEF SendJob, TypeOK, chainVars, jobVars, shareVars
  <2> QED
    BY <1>4, <2>1, <2>2, <2>3 DEF Connection
<1>5. ASSUME NEW w \in Workers, OnSubmit(w) PROVE TypeOK'
  <2>1. ASSUME NEW i \in DOMAIN validJobs[w], NEW t \in Texts, NEW n \in Means[t], NEW s,
               s = [job |-> validJobs[w][i], en1 |-> en1[w], text |-> t, nonce |-> n],
               SubmitShare(w, s) \/ SubmitLowShare(w, s)
        PROVE  TypeOK'
    <3>1. Register(w, s)
      BY <2>1 DEF SubmitShare, SubmitLowShare
    <3>2. validJobs[w][i] \in Jobs
      BY DEF TypeOK
    <3>3. en1[w] \in ExtraNonces
      BY <3>1 DEF Register, Connected, TypeOK
    <3>8. n \in Nonces
      BY NonceAssumption
    <3>4. s \in Shares
      BY <2>1, <3>2, <3>3, <3>8 DEF Shares
    <3>5. submissions' \subseteq Shares
      BY <3>1, <3>4 DEF Register, TypeOK
    <3>6. CASE SubmitShare(w, s)
      BY <3>4, <3>5, <3>6 DEF SubmitShare, TypeOK, jobVars
    <3>7. CASE SubmitLowShare(w, s)
      BY <3>4, <3>5, <3>7 DEF SubmitLowShare, TypeOK, jobVars, chainVars
    <3> QED
      BY <2>1, <3>6, <3>7
  <2>2. CASE BlockAccepted(w)
    BY <2>2 DEF BlockAccepted, TypeOK, chainVars
  <2>3. CASE AnswerLost(w)
    <3>1. share[w] \in Shares
      BY <1>0, <2>3 DEF AnswerLost, Waiting, Busy
    <3>2. faults' \in 0..MaxFaults
      BY <2>3 DEF AnswerLost, Fault, TypeOK
    <3> QED
      BY <2>3, <3>1, <3>2 DEF AnswerLost, TypeOK, chainVars, jobVars
  <2>4. CASE RespondAndPublish(w)
    <3>1. share[w] \in Shares
      BY <1>0, <2>4 DEF RespondAndPublish, Finish, Busy
    <3>2. Entry(w) \in Entries
      BY <3>1 DEF Entry, Entries
    <3>3. Append(journal, Entry(w)) \in Seq(Entries) /\ journal \in Seq(Entries)
      BY <3>2, AppendType DEF TypeOK
    <3>4. journal' \in Seq(Entries)
      BY <2>4, <3>3 DEF RespondAndPublish
    <3> QED
      BY <2>4, <3>4 DEF RespondAndPublish, Finish, TypeOK, chainVars, jobVars
  <2>5. CASE QueueStalled(w)
    <3>1. share[w] \in Shares
      BY <1>0, <2>5 DEF QueueStalled, Finish, Busy
    <3>2. faults' \in 0..MaxFaults
      BY <2>5 DEF QueueStalled, Fault, TypeOK
    <3> QED
      BY <2>5, <3>1, <3>2 DEF QueueStalled, Finish, Leaves, TypeOK, chainVars, jobVars
  <2> QED
    BY <1>5, <2>1, <2>2, <2>3, <2>4, <2>5 DEF OnSubmit
<1>6. ASSUME UNCHANGED vars PROVE TypeOK'
  BY <1>6 DEF vars, chainVars, jobVars, shareVars, TypeOK
<1> QED
  BY <1>1, <1>2, <1>3, <1>4, <1>5, <1>6, <1>7, <1>8 DEF Next

-----------------------------------------------------------------------------
(* The invariant *)

\* Steps that touch neither shares nor blocks.
LEMMA CoreUnchanged ==
    ASSUME Core, UNCHANGED <<wire, won, shareVars, journal>>
    PROVE  Core'
BY DEF Core, FlightInv, RegisteredInv, VerdictInv, AwaitedInv, AcceptedIsRecorded, ValidSharesCounted,
       Busy, Published, Recorded, InFlight, PaysPool, Torn, PaysPoolUnlessTorn, shareVars

\* SubmitShare: the share is new, and only its own task handles it.
LEMMA CoreSubmitShare ==
    ASSUME TypeOK, Core, NEW w \in Workers, NEW s, SubmitShare(w, s)
    PROVE  Core'
<1>1. /\ s \notin submissions /\ submissions' = submissions \cup {s}
      /\ pc[w] = "idle" /\ ~Busy(w)
  BY DEF SubmitShare, Register, IsDuplicate, Key, Busy
<1>2. /\ share' = [share EXCEPT ![w] = s] /\ won' = won /\ journal' = journal
      /\ low' = low /\ unanswered' = unanswered /\ dropped' = dropped
  BY DEF SubmitShare
<1>3. \/ pc' = [pc EXCEPT ![w] = "submitting"] /\ wire' = wire \cup {s}
      \/ pc' = [pc EXCEPT ![w] = "respond"] /\ wire' = wire
  BY DEF SubmitShare
<1>4. /\ pc'[w] \in {"submitting", "respond"} /\ share'[w] = s
      /\ \A v \in Workers \ {w} : pc'[v] = pc[v] /\ share'[v] = share[v]
  BY <1>2, <1>3 DEF TypeOK
<1>5. ~Published(s) /\ s \notin low /\ s \notin won
  BY <1>1 DEF Core, RegisteredInv, Published
<1>6. FlightInv'
  <2>1. \A v \in Workers : Busy(v)' =>
            share'[v] \in submissions' /\ share'[v] \notin low' /\ ~Published(share[v])'
    BY <1>1, <1>2, <1>4, <1>5 DEF Core, FlightInv, Busy, Published
  <2>2. \A v \in Workers \ {w} : Busy(v)' => share'[v] # s
    BY <1>1, <1>4 DEF Core, FlightInv, Busy
  <2> QED
    BY <1>4, <2>1, <2>2 DEF Core, FlightInv, Busy
<1>7. RegisteredInv'
  BY <1>1, <1>2, <1>3, <1>5 DEF Core, RegisteredInv
<1>8. VerdictInv'
  BY <1>2, <1>4 DEF Core, VerdictInv, PaysPoolUnlessTorn, PaysPool, Torn
<1>9. AwaitedInv'
  <2> SUFFICES ASSUME NEW r \in wire', r \notin unanswered \cup dropped
               PROVE  \E v \in Workers : share'[v] = r /\ pc'[v] = "submitting"
    BY <1>2 DEF AwaitedInv
  <2>1. CASE r \in wire
    <3>1. PICK v \in Workers : share[v] = r /\ pc[v] = "submitting"
      BY <2>1 DEF Core, AwaitedInv
    <3> QED
      BY <1>1, <1>4, <3>1
  <2>2. CASE r \notin wire
    <3>1. r = s /\ pc' = [pc EXCEPT ![w] = "submitting"]
      BY <1>3, <2>2
    <3> QED
      BY <1>4, <3>1 DEF TypeOK
  <2> QED
    BY <2>1, <2>2
<1>10. AcceptedIsRecorded'
  BY <1>1, <1>2, <1>4 DEF Core, AcceptedIsRecorded, Recorded
<1>11. ValidSharesCounted'
  BY <1>1, <1>2, <1>4 DEF Core, ValidSharesCounted, Published, InFlight
<1> QED
  BY <1>6, <1>7, <1>8, <1>9, <1>10, <1>11 DEF Core

\* SubmitLowShare: the share is refused and stays out of the books.
LEMMA CoreSubmitLowShare ==
    ASSUME TypeOK, Core, NEW w \in Workers, NEW s, SubmitLowShare(w, s)
    PROVE  Core'
<1>1. /\ s \notin submissions /\ submissions' = submissions \cup {s} /\ low' = low \cup {s}
      /\ pc' = pc /\ share' = share /\ wire' = wire /\ won' = won /\ journal' = journal
      /\ unanswered' = unanswered /\ dropped' = dropped
  BY DEF SubmitLowShare, Register, IsDuplicate, Key, chainVars
<1>2. FlightInv' /\ RegisteredInv'
  BY <1>1 DEF Core, FlightInv, RegisteredInv, Busy, Published
<1>3. VerdictInv' /\ AwaitedInv' /\ AcceptedIsRecorded'
  BY <1>1 DEF Core, VerdictInv, AwaitedInv, AcceptedIsRecorded, PaysPoolUnlessTorn, PaysPool, Torn, Recorded
<1>4. ValidSharesCounted'
  BY <1>1 DEF Core, ValidSharesCounted, Published, InFlight
<1> QED
  BY <1>2, <1>3, <1>4 DEF Core

\* A task stops waiting for the answer to its block.
LEMMA CoreGivesUp ==
    ASSUME TypeOK, Core, NEW w \in Workers, Waiting(w),
           pc' = [pc EXCEPT ![w] = "respond"], unanswered' = unanswered \cup {share[w]},
           UNCHANGED <<wire, won, submissions, share, low, dropped, journal>>
    PROVE  Core'
<1>1. /\ pc[w] \in {"submitting", "accepted"} /\ pc'[w] = "respond"
      /\ \A v \in Workers \ {w} : pc'[v] = pc[v]
  BY DEF Waiting, TypeOK
<1>2. FlightInv' /\ RegisteredInv'
  BY <1>1 DEF Core, FlightInv, RegisteredInv, Busy, Published
<1>3. VerdictInv'
  BY <1>1 DEF Core, VerdictInv, PaysPoolUnlessTorn, PaysPool, Torn
<1>4. AwaitedInv'
  BY <1>1 DEF Core, AwaitedInv
<1>5. AcceptedIsRecorded'
  BY <1>1 DEF Core, AcceptedIsRecorded, Recorded
<1>6. ValidSharesCounted'
  BY <1>1 DEF Core, ValidSharesCounted, Published, InFlight
<1> QED
  BY <1>2, <1>3, <1>4, <1>5, <1>6 DEF Core

\* BlockAccepted: the share of a block that pays the pool is published as one.
LEMMA CoreBlockAccepted ==
    ASSUME TypeOK, Core, NEW w \in Workers, BlockAccepted(w)
    PROVE  Core'
<1>1. /\ pc[w] = "accepted"
      /\ pc' = [pc EXCEPT ![w] = IF IsStealth(w) THEN "respond" ELSE "respondBlock"]
      /\ UNCHANGED <<wire, won, submissions, share, low, unanswered, dropped, journal>>
  BY DEF BlockAccepted, chainVars
<1>2. /\ pc'[w] = IF share[w].job.stealth THEN "respond" ELSE "respondBlock"
      /\ \A v \in Workers \ {w} : pc'[v] = pc[v]
  BY <1>1 DEF IsStealth, TypeOK
<1>3. FlightInv' /\ RegisteredInv'
  BY <1>1, <1>2 DEF Core, FlightInv, RegisteredInv, Busy, Published
<1>4. VerdictInv'
  BY <1>1, <1>2 DEF Core, VerdictInv, PaysPoolUnlessTorn, PaysPool, Torn
<1>5. AwaitedInv'
  BY <1>1, <1>2 DEF Core, AwaitedInv
<1>6. AcceptedIsRecorded'
  <2>1. IsStealth(w) /\ share[w] \in won => ~PaysPool(share[w]) \/ Torn(share[w])
    <3>1. share[w] \in won => share[w].job.external \in BOOLEAN /\ share[w].job.stealth \in BOOLEAN
      BY DEF TypeOK, Shares, Jobs
    <3> QED
      BY <3>1 DEF IsStealth, PaysPool, Torn
  <2> QED
    BY <1>1, <1>2, <2>1 DEF Core, AcceptedIsRecorded, Recorded, IsStealth
<1>7. ValidSharesCounted'
  BY <1>1, <1>2 DEF Core, ValidSharesCounted, Published, InFlight
<1> QED
  BY <1>3, <1>4, <1>5, <1>6, <1>7 DEF Core

\* RespondAndPublish: the share is published once, as a block only if it is one.
LEMMA CorePublish ==
    ASSUME TypeOK, Core, NEW w \in Workers, RespondAndPublish(w)
    PROVE  Core'
<1>1. /\ pc[w] \in {"respond", "respondBlock"} /\ journal' = Append(journal, Entry(w))
      /\ pc' = [pc EXCEPT ![w] = "idle"] /\ share' = [share EXCEPT ![w] = NoShare]
      /\ UNCHANGED <<wire, won, submissions, low, unanswered, dropped>>
  BY DEF RespondAndPublish, Finish, MayPublish, chainVars
<1>2. /\ pc'[w] = "idle"
      /\ \A v \in Workers \ {w} : pc'[v] = pc[v] /\ share'[v] = share[v]
  BY <1>1 DEF TypeOK
<1>3. share[w] \in submissions /\ Entry(w).share = share[w]
  BY <1>1 DEF Core, FlightInv, Busy, Entry
<1>4. /\ Len(journal') = Len(journal) + 1 /\ Len(journal) \in Nat
      /\ journal'[Len(journal) + 1] = Entry(w)
      /\ \A i \in 1..Len(journal) : journal'[i] = journal[i]
  BY <1>1 DEF TypeOK
<1>5. \A r : Published(r)' <=> Published(r) \/ r = share[w]
  BY <1>3, <1>4 DEF Published
<1>6. \A r : Recorded(r) => Recorded(r)'
  BY <1>4 DEF Recorded
<1>7. ASSUME NEW r, r = share[w], pc[w] = "respondBlock" PROVE Recorded(r)'
  <2>1. Entry(w).share = r /\ Entry(w).block
    BY <1>7 DEF Entry
  <2> QED
    BY <1>4, <2>1 DEF Recorded
<1>8. FlightInv'
  <2>1. \A v \in Workers \ {w} : Busy(v)' => share[v] # share[w]
    BY <1>1, <1>2 DEF Core, FlightInv, Busy
  <2>2. \A v \in Workers : Busy(v)' => v # w /\ Busy(v) /\ share'[v] = share[v]
    BY <1>2 DEF Busy
  <2>3. ASSUME NEW v \in Workers, Busy(v)' PROVE (~Published(share[v]))'
    <3>1. ASSUME NEW r, r = share'[v] PROVE ~Published(r)'
      BY <1>5, <2>1, <2>2, <2>3, <3>1 DEF Core, FlightInv
    <3> QED
      BY <3>1 DEF Published
  <2> QED
    BY <1>1, <2>2, <2>3 DEF Core, FlightInv
<1>9. RegisteredInv'
  BY <1>1, <1>3, <1>4 DEF Core, RegisteredInv
<1>10. VerdictInv' /\ AwaitedInv'
  BY <1>1, <1>2 DEF Core, VerdictInv, AwaitedInv, PaysPoolUnlessTorn, PaysPool, Torn
<1>11. AcceptedIsRecorded'
  <2> SUFFICES ASSUME NEW r \in won, PaysPool(r), ~Torn(r), r \notin unanswered \cup dropped, ~Recorded(r)'
               PROVE  \E v \in Workers : share'[v] = r /\ pc'[v] \in {"accepted", "respondBlock"}
    BY <1>1 DEF AcceptedIsRecorded
  <2>1. PICK v \in Workers : share[v] = r /\ pc[v] \in {"accepted", "respondBlock"}
    BY <1>6 DEF Core, AcceptedIsRecorded
  <2>2. v # w
    <3> SUFFICES ASSUME v = w PROVE FALSE
      OBVIOUS
    <3>1. pc[w] = "respondBlock"
      BY <1>1, <2>1
    <3> QED
      BY <1>7, <2>1, <3>1
  <2> QED
    BY <1>2, <2>1, <2>2
<1>12. ValidSharesCounted'
  BY <1>1, <1>2, <1>5 DEF Core, ValidSharesCounted, InFlight
<1> QED
  BY <1>8, <1>9, <1>10, <1>11, <1>12 DEF Core

\* QueueStalled: the share is lost, and known to be.
LEMMA CoreQueueStalled ==
    ASSUME TypeOK, Core, NEW w \in Workers, QueueStalled(w)
    PROVE  Core'
<1>1. /\ pc[w] \in {"respond", "respondBlock"} /\ dropped' = dropped \cup {share[w]}
      /\ pc' = [pc EXCEPT ![w] = "idle"] /\ share' = [share EXCEPT ![w] = NoShare]
      /\ UNCHANGED <<wire, won, submissions, low, unanswered, journal>>
  BY DEF QueueStalled, Finish, chainVars
<1>2. /\ pc'[w] = "idle"
      /\ \A v \in Workers \ {w} : pc'[v] = pc[v] /\ share'[v] = share[v]
  BY <1>1 DEF TypeOK
<1>3. FlightInv' /\ RegisteredInv'
  BY <1>1, <1>2 DEF Core, FlightInv, RegisteredInv, Busy, Published
<1>4. VerdictInv' /\ AwaitedInv'
  BY <1>1, <1>2 DEF Core, VerdictInv, AwaitedInv, PaysPoolUnlessTorn, PaysPool, Torn
<1>5. AcceptedIsRecorded'
  BY <1>1, <1>2 DEF Core, AcceptedIsRecorded, Recorded
<1>6. ValidSharesCounted'
  BY <1>1, <1>2 DEF Core, ValidSharesCounted, Published, InFlight
<1> QED
  BY <1>3, <1>4, <1>5, <1>6 DEF Core

\* DaemonSubmitBlock: a block that is accepted has somebody to record it, or was
\* given up before.
LEMMA CoreDaemonSubmitBlock ==
    ASSUME TypeOK, Core, NEW s \in wire, DaemonSubmitBlock(s)
    PROVE  Core'
<1>1. /\ wire' = wire \ {s} /\ won' = IF Extends(s) THEN won \cup {s} ELSE won
      /\ UNCHANGED <<submissions, share, low, unanswered, dropped, journal>>
  BY DEF DaemonSubmitBlock
<1>2. \A v \in Workers :
        pc'[v] = IF pc[v] = "submitting" /\ share[v] = s
                 THEN IF Extends(s) THEN "accepted" ELSE "respond"
                 ELSE pc[v]
  BY DEF DaemonSubmitBlock
<1>3. \A v \in Workers : Busy(v)' <=> Busy(v)
  BY <1>2 DEF Busy
<1>4. FlightInv'
  BY <1>1, <1>3 DEF Core, FlightInv, Published
<1>5. RegisteredInv'
  BY <1>1 DEF Core, RegisteredInv
<1>6. VerdictInv'
  BY <1>1, <1>2 DEF Core, VerdictInv, PaysPoolUnlessTorn, PaysPool, Torn
<1>7. AwaitedInv'
  BY <1>1, <1>2 DEF Core, AwaitedInv
<1>8. AcceptedIsRecorded'
  <2> SUFFICES ASSUME NEW r \in won', PaysPool(r), ~Torn(r), r \notin unanswered \cup dropped, ~Recorded(r)
               PROVE  \E v \in Workers : share[v] = r /\ pc'[v] \in {"accepted", "respondBlock"}
    BY <1>1 DEF AcceptedIsRecorded, Recorded
  <2>1. CASE r \in won
    BY <1>2, <2>1 DEF Core, AcceptedIsRecorded
  <2>2. CASE r \notin won
    <3>1. r = s /\ Extends(s)
      BY <1>1, <2>2
    <3>2. PICK v \in Workers : share[v] = s /\ pc[v] = "submitting"
      BY <3>1 DEF Core, AwaitedInv
    <3> QED
      BY <1>2, <3>1, <3>2
  <2> QED
    BY <2>1, <2>2
<1>9. ValidSharesCounted'
  BY <1>1, <1>2 DEF Core, ValidSharesCounted, Published, InFlight
<1> QED
  BY <1>4, <1>5, <1>6, <1>7, <1>8, <1>9 DEF Core

\* Crash: what was handled is lost, and known to be.
LEMMA CoreCrash ==
    ASSUME TypeOK, Core, Crash
    PROVE  Core'
<1>1. /\ dropped' = dropped \cup {share[w] : w \in {v \in Workers : pc[v] # "idle"}}
      /\ UNCHANGED <<wire, won, submissions, low, unanswered, journal>>
      /\ \A v \in Workers : pc'[v] = "idle"
  BY DEF Crash, chainVars
<1>2. FlightInv' /\ RegisteredInv' /\ VerdictInv'
  BY <1>1 DEF Core, FlightInv, RegisteredInv, VerdictInv, Busy
<1>3. AwaitedInv'
  BY <1>1 DEF Core, AwaitedInv
<1>4. AcceptedIsRecorded'
  BY <1>1 DEF Core, AcceptedIsRecorded, Recorded
<1>5. ValidSharesCounted'
  BY <1>1 DEF Core, ValidSharesCounted, Published, InFlight
<1> QED
  BY <1>2, <1>3, <1>4, <1>5 DEF Core

\* Only Register adds to the submissions, and it refuses a key that is known.
LEMMA KeyStep == KeyInv /\ [Next]_vars => KeyInv'
<1> SUFFICES ASSUME KeyInv, [Next]_vars PROVE KeyInv'
  OBVIOUS
<1>1. ASSUME submissions' = submissions PROVE KeyInv'
  BY <1>1 DEF KeyInv, Key
<1>2. ASSUME NEW w \in Workers, NEW s, Register(w, s) PROVE KeyInv'
  <2>1. submissions' = submissions \cup {s} /\ \A t \in submissions : Key(t) # Key(s)
    BY <1>2 DEF Register, IsDuplicate
  <2> QED
    BY <2>1 DEF KeyInv
<1>3. ASSUME NEW w \in Workers, OnSubmit(w) PROVE KeyInv'
  <2>1. ASSUME NEW s, SubmitShare(w, s) \/ SubmitLowShare(w, s) PROVE KeyInv'
    BY <1>2, <2>1 DEF SubmitShare, SubmitLowShare
  <2>2. CASE BlockAccepted(w) \/ AnswerLost(w) \/ RespondAndPublish(w) \/ QueueStalled(w)
    BY <1>1, <2>2 DEF BlockAccepted, AnswerLost, RespondAndPublish, QueueStalled
  <2> QED
    BY <1>3, <2>1, <2>2 DEF OnSubmit
<1>4. ASSUME NEW w \in Workers, Connection(w) PROVE KeyInv'
  BY <1>1, <1>4 DEF Connection, OnSubscribe, Disconnect, SendJob, shareVars
<1>5. ASSUME NEW d \in drafts, MarkStealth(d) PROVE KeyInv'
  BY <1>1, <1>5 DEF MarkStealth, shareVars
<1>6. CASE UpdateJob \/ SelectAddress \/ Daemon \/ Crash \/ UNCHANGED vars
  BY <1>1, <1>6 DEF UpdateJob, SelectAddress, Daemon, OtherBlock, DaemonSubmitBlock, Crash, vars, shareVars
<1> QED
  BY <1>3, <1>4, <1>5, <1>6 DEF Next

\* A block is won at the height after the tip; a share is recorded as a block by a
\* task that knows it was won.
LEMMA ChainStep == TypeOK /\ VerdictInv /\ ChainInv /\ [Next]_vars => ChainInv'
<1> SUFFICES ASSUME TypeOK, VerdictInv, ChainInv, [Next]_vars PROVE ChainInv'
  OBVIOUS
<1>0. tip \in Nat /\ \A s \in Shares : s.job.height \in Nat
  BY LimitAssumption DEF TypeOK, Shares, Jobs
<1>1. ASSUME tip' = tip, won' = won, journal' = journal PROVE ChainInv'
  BY <1>1 DEF ChainInv
<1>2. CASE OtherBlock
  BY <1>0, <1>2 DEF OtherBlock, ChainInv, TypeOK
<1>3. ASSUME NEW s \in wire, DaemonSubmitBlock(s) PROVE ChainInv'
  <2>1. CASE ~Extends(s)
    BY <1>1, <1>3, <2>1 DEF DaemonSubmitBlock
  <2>2. CASE Extends(s)
    <3>1. /\ tip' = tip + 1 /\ won' = won \cup {s} /\ journal' = journal
          /\ s.job.height = tip + 1
      BY <1>3, <2>2 DEF DaemonSubmitBlock, Extends
    <3>2. \A r \in won : r.job.height \in Nat /\ r.job.height <= tip
      BY <1>0 DEF ChainInv, TypeOK
    <3>3. \A r \in won' : r.job.height <= tip'
      BY <1>0, <3>1, <3>2
    <3>4. \A r, u \in won' : r.job.height = u.job.height => r = u
      <4>1. \A r \in won : r.job.height # s.job.height
        BY <1>0, <3>1, <3>2
      <4> QED
        BY <3>1, <4>1 DEF ChainInv
    <3> QED
      BY <3>1, <3>3, <3>4 DEF ChainInv
  <2> QED
    BY <2>1, <2>2
<1>4. ASSUME NEW w \in Workers, RespondAndPublish(w) PROVE ChainInv'
  <2>1. tip' = tip /\ won' = won /\ journal' = Append(journal, Entry(w))
    BY <1>4 DEF RespondAndPublish, MayPublish, chainVars
  <2>2. Entry(w).block => Entry(w).share \in won
    BY DEF Entry, VerdictInv
  <2>3. /\ Len(journal') = Len(journal) + 1 /\ Len(journal) \in Nat
        /\ journal'[Len(journal) + 1] = Entry(w)
        /\ \A i \in 1..Len(journal) : journal'[i] = journal[i]
    BY <2>1 DEF TypeOK
  <2>4. \A i \in 1..Len(journal') : journal'[i].block => journal'[i].share \in won
    BY <2>2, <2>3 DEF ChainInv
  <2> QED
    BY <2>1, <2>4 DEF ChainInv
<1>5. ASSUME NEW w \in Workers, OnSubmit(w) PROVE ChainInv'
  <2>1. ASSUME NEW s, SubmitShare(w, s) \/ SubmitLowShare(w, s) PROVE ChainInv'
    BY <1>1, <2>1 DEF SubmitShare, SubmitLowShare, chainVars
  <2>2. CASE BlockAccepted(w) \/ AnswerLost(w) \/ QueueStalled(w)
    BY <1>1, <2>2 DEF BlockAccepted, AnswerLost, QueueStalled, chainVars
  <2> QED
    BY <1>4, <1>5, <2>1, <2>2 DEF OnSubmit
<1>6. ASSUME NEW w \in Workers, Connection(w) PROVE ChainInv'
  BY <1>1, <1>6 DEF Connection, OnSubscribe, Disconnect, SendJob, chainVars
<1>7. ASSUME NEW d \in drafts, MarkStealth(d) PROVE ChainInv'
  BY <1>1, <1>7 DEF MarkStealth, chainVars
<1>8. CASE UpdateJob \/ SelectAddress \/ Crash \/ UNCHANGED vars
  BY <1>1, <1>8 DEF UpdateJob, SelectAddress, Crash, vars, chainVars
<1> QED
  BY <1>2, <1>3, <1>5, <1>6, <1>7, <1>8 DEF Next, Daemon

\* Every step keeps the invariant.
LEMMA SubmissionStep == SubmissionInv /\ [Next]_vars => SubmissionInv'
<1> SUFFICES ASSUME SubmissionInv, [Next]_vars PROVE SubmissionInv'
  OBVIOUS
<1>1. TypeOK /\ Core /\ FlightInv
  BY DEF SubmissionInv, Core
<1>2. TypeOK'
  BY <1>1, TypeStep
<1>4. KeyInv' /\ ChainInv'
  BY KeyStep, ChainStep DEF SubmissionInv
<1>3. Core'
  <2>1. CASE UpdateJob
    BY <1>1, <2>1, CoreUnchanged DEF UpdateJob, chainVars
  <2>2. CASE Daemon
    <3>1. CASE OtherBlock
      BY <1>1, <3>1, CoreUnchanged DEF OtherBlock
    <3>2. ASSUME NEW s \in wire, DaemonSubmitBlock(s) PROVE Core'
      BY <1>1, <3>2, CoreDaemonSubmitBlock
    <3> QED
      BY <2>2, <3>1, <3>2 DEF Daemon
  <2>3. CASE Crash
    BY <1>1, <2>3, CoreCrash
  <2>4. ASSUME NEW w \in Workers, Connection(w) PROVE Core'
    <3>1. CASE OnSubscribe(w)
      BY <1>1, <3>1, CoreUnchanged DEF OnSubscribe, chainVars
    <3>2. CASE SendJob(w)
      BY <1>1, <3>2, CoreUnchanged DEF SendJob, chainVars
    <3>3. CASE Disconnect(w)
      <4>1. CASE Waiting(w)
        BY <1>1, <3>3, <4>1, CoreGivesUp DEF Disconnect, chainVars
      <4>2. CASE ~Waiting(w)
        <5>1. pc' = pc /\ unanswered' = unanswered
          BY <1>1, <3>3, <4>2 DEF Disconnect, TypeOK
        <5> QED
          BY <1>1, <3>3, <5>1, CoreUnchanged DEF Disconnect, chainVars, shareVars
      <4> QED
        BY <4>1, <4>2
    <3> QED
      BY <2>4, <3>1, <3>2, <3>3 DEF Connection
  <2>5. ASSUME NEW w \in Workers, OnSubmit(w) PROVE Core'
    <3>1. ASSUME NEW s, SubmitShare(w, s) \/ SubmitLowShare(w, s) PROVE Core'
      BY <1>1, <3>1, CoreSubmitShare, CoreSubmitLowShare
    <3>2. CASE BlockAccepted(w)
      BY <1>1, <3>2, CoreBlockAccepted
    <3>3. CASE AnswerLost(w)
      BY <1>1, <3>3, CoreGivesUp DEF AnswerLost, chainVars
    <3>4. CASE RespondAndPublish(w)
      BY <1>1, <3>4, CorePublish
    <3>5. CASE QueueStalled(w)
      BY <1>1, <3>5, CoreQueueStalled
    <3> QED
      BY <2>5, <3>1, <3>2, <3>3, <3>4, <3>5 DEF OnSubmit
  <2>6. CASE UNCHANGED vars
    BY <1>1, <2>6, CoreUnchanged DEF vars, chainVars
  <2>7. CASE SelectAddress
    BY <1>1, <2>7, CoreUnchanged DEF SelectAddress, chainVars
  <2>8. ASSUME NEW d \in drafts, MarkStealth(d) PROVE Core'
    BY <1>1, <2>8, CoreUnchanged DEF MarkStealth, chainVars
  <2> QED
    BY <2>1, <2>2, <2>3, <2>4, <2>5, <2>6, <2>7, <2>8 DEF Next
<1> QED
  BY <1>2, <1>3, <1>4 DEF SubmissionInv, Core

\* The invariant holds initially.
LEMMA SubmissionInit == Init => SubmissionInv
<1> SUFFICES ASSUME Init PROVE SubmissionInv
  OBVIOUS
<1>1. TypeOK
  <2>1. <<>> \in Seq(Jobs) /\ <<>> \in Seq(Entries) /\ Len(<<>>) = 0
    OBVIOUS
  <2>2. validJobs \in [Workers -> Seq(Jobs)] /\ \A w \in Workers : Len(validJobs[w]) <= MaxActiveJobs
    BY <2>1, LimitAssumption DEF Init, NoJobs
  <2>3. tip \in 0..MaxHeight /\ made \in 0..MaxJobs /\ faults \in 0..MaxFaults
    BY LimitAssumption DEF Init
  <2> QED
    BY <2>1, <2>2, <2>3 DEF Init, TypeOK
<1>2. FlightInv /\ RegisteredInv
  BY DEF Init, FlightInv, RegisteredInv, Busy
<1>3. VerdictInv /\ AwaitedInv
  BY DEF Init, VerdictInv, AwaitedInv
<1>4. AcceptedIsRecorded /\ ValidSharesCounted
  BY DEF Init, AcceptedIsRecorded, ValidSharesCounted
<1>5. KeyInv /\ ChainInv
  BY DEF Init, KeyInv, ChainInv
<1> QED
  BY <1>1, <1>2, <1>3, <1>4, <1>5 DEF SubmissionInv

-----------------------------------------------------------------------------
(* Theorems *)

\* The invariant that connects what a request knows of its share with the chain,
\* the jobs' tables of submissions, which compare texts, and what was published.
THEOREM SubmissionInvariance == Spec => []SubmissionInv
<1>1. Init => SubmissionInv
  BY SubmissionInit
<1>2. SubmissionInv /\ [Next]_vars => SubmissionInv'
  BY SubmissionStep
<1> QED
  BY <1>1, <1>2, PTL DEF Spec

\* Every variable keeps its type; in particular a worker may submit to at most
\* MaxActiveJobs jobs (BitcoinWorkerContext.AddJob).
THEOREM SubmissionTypeCorrect == Spec => []TypeOK
<1>1. SubmissionInv => TypeOK
  BY DEF SubmissionInv
<1> QED
  BY <1>1, SubmissionInvariance, PTL

\* A block the daemon accepted and that pays the pool is published as one, unless
\* the pool gave up its answer, lost the share, or wrote nextBlockIsExternal between
\* the two times it is read for the job (UpdateJob, SubmitShareAsync, OnSubmitAsync).
THEOREM AcceptedBlocksRecorded == Spec => []AcceptedIsRecorded
<1>1. SubmissionInv => AcceptedIsRecorded
  BY DEF SubmissionInv
<1> QED
  BY <1>1, SubmissionInvariance, PTL

\* A share that passed the checks is published, is being handled, or was lost to a
\* stalled queue or the end of the process (OnSubmitAsync).
THEOREM CheckedSharesCounted == Spec => []ValidSharesCounted
<1>1. SubmissionInv => ValidSharesCounted
  BY DEF SubmissionInv
<1> QED
  BY <1>1, SubmissionInvariance, PTL

\* Only RespondAndPublish and DaemonSubmitBlock are steps of the abstract book.
LEMMA BookStep == SubmissionInv /\ [Next]_vars => [Book!Next]_(Book!book)
<1> SUFFICES ASSUME SubmissionInv, [Next]_vars PROVE [Book!Next]_(Book!book)
  OBVIOUS
<1>1. ASSUME won' = won, journal' = journal PROVE [Book!Next]_(Book!book)
  BY <1>1 DEF Book!book
<1>2. ASSUME NEW s \in wire, DaemonSubmitBlock(s) PROVE [Book!Next]_(Book!book)
  <2>1. s \in Shares /\ s \notin won
    BY DEF SubmissionInv, TypeOK, RegisteredInv
  <2>2. journal' = journal /\ (won' = won \cup {s} \/ won' = won)
    BY <1>2 DEF DaemonSubmitBlock
  <2>3. CASE won' = won \cup {s}
    <3>4. Extends(s)
      BY <1>2, <2>1, <2>3 DEF DaemonSubmitBlock
    <3>3. ASSUME NEW t \in won, Work(t) = Work(s) PROVE FALSE
      <4>1. Work(t).job = t.job /\ Work(s).job = s.job
        BY DEF Work
      <4>2. t.job.height = tip + 1 /\ t.job.height <= tip
        BY <3>3, <3>4, <4>1 DEF Extends, SubmissionInv, ChainInv
      <4> QED
        BY <4>2, LimitAssumption DEF SubmissionInv, TypeOK
    <3>1. Book!Win(s)
      BY <2>1, <2>2, <2>3, <3>3 DEF Book!Win
    <3>2. won' # won
      BY <2>1, <2>3
    <3> QED
      BY <2>1, <3>1, <3>2 DEF Book!Next
  <2> QED
    BY <1>1, <2>2, <2>3
<1>3. ASSUME NEW w \in Workers, RespondAndPublish(w) PROVE [Book!Next]_(Book!book)
  <2>1. /\ pc[w] \in {"respond", "respondBlock"} /\ won' = won
        /\ journal' = Append(journal, Entry(w))
    BY <1>3 DEF RespondAndPublish, Finish, MayPublish, chainVars
  <2>2. share[w] \in Shares /\ ~Published(share[w])
    BY <2>1 DEF SubmissionInv, FlightInv, Busy, TypeOK
  <2>3. pc[w] = "respondBlock" => share[w] \in won /\ PaysPoolUnlessTorn(share[w])
    BY DEF SubmissionInv, VerdictInv
  <2>7. ASSUME NEW i \in 1..Len(journal) PROVE Key(journal[i].share) # Key(share[w])
    <3>1. share[w] \in submissions /\ journal[i].share \in submissions
      BY <2>1 DEF SubmissionInv, FlightInv, RegisteredInv, Busy
    <3>2. journal[i].share # share[w]
      BY <2>2 DEF Published
    <3> QED
      BY <3>1, <3>2 DEF SubmissionInv, KeyInv
  <2>8. ASSUME NEW i \in 1..Len(journal), journal[i].block, pc[w] = "respondBlock"
        PROVE  Work(journal[i].share) # Work(share[w])
    <3>1. journal[i].share \in won /\ share[w] \in won
      BY <2>3, <2>8 DEF SubmissionInv, ChainInv
    <3>2. journal[i].share.job.height # share[w].job.height
      BY <2>2, <3>1 DEF SubmissionInv, ChainInv, Published
    <3>3. Work(journal[i].share).job = journal[i].share.job /\ Work(share[w]).job = share[w].job
      BY DEF Work
    <3> QED
      BY <3>2, <3>3
  <2>4. (pc[w] = "respondBlock") \in BOOLEAN
    OBVIOUS
  <2>5. Book!Publish(share[w], pc[w] = "respondBlock")
    BY <2>1, <2>3, <2>7, <2>8 DEF Book!Publish, Entry
  <2>6. journal' # journal
    <3>1. journal \in Seq(Entries)
      BY DEF SubmissionInv, TypeOK
    <3>2. Len(journal') = Len(journal) + 1 /\ Len(journal) \in Nat
      BY <2>1, <3>1
    <3> QED
      BY <3>2
  <2> QED
    BY <2>2, <2>4, <2>5, <2>6 DEF Book!Next
<1>4. CASE UpdateJob
  BY <1>1, <1>4 DEF UpdateJob, chainVars
<1>5. CASE Daemon
  BY <1>1, <1>2, <1>5 DEF Daemon, OtherBlock
<1>6. CASE Crash
  BY <1>1, <1>6 DEF Crash, chainVars
<1>7. ASSUME NEW w \in Workers, Connection(w) PROVE [Book!Next]_(Book!book)
  BY <1>1, <1>7 DEF Connection, OnSubscribe, Disconnect, SendJob, chainVars
<1>8. ASSUME NEW w \in Workers, OnSubmit(w) PROVE [Book!Next]_(Book!book)
  <2>1. ASSUME NEW s, SubmitShare(w, s) \/ SubmitLowShare(w, s) PROVE won' = won /\ journal' = journal
    BY <2>1 DEF SubmitShare, SubmitLowShare, chainVars
  <2>2. CASE BlockAccepted(w) \/ AnswerLost(w) \/ QueueStalled(w)
    BY <1>1, <2>2 DEF BlockAccepted, AnswerLost, QueueStalled, chainVars
  <2> QED
    BY <1>1, <1>3, <1>8, <2>1, <2>2 DEF OnSubmit
<1>9. CASE UNCHANGED vars
  BY <1>1, <1>9 DEF vars, chainVars
<1>10. CASE SelectAddress
  BY <1>1, <1>10 DEF SelectAddress, chainVars
<1>11. ASSUME NEW d \in drafts, MarkStealth(d) PROVE [Book!Next]_(Book!book)
  BY <1>1, <1>11 DEF MarkStealth, chainVars
<1> QED
  BY <1>4, <1>5, <1>6, <1>7, <1>8, <1>9, <1>10, <1>11 DEF Next

\* The pool keeps its promise to the accounting: no key is published twice, and a
\* header is recorded as a block at most once, and only when the network accepted it
\* and it pays the pool or its job was torn (RegisterSubmit, OnSubmitAsync).
THEOREM SubmissionImplementsBook == Spec => ImplementsBook
<1>1. Init => Book!Init
  BY DEF Init, Book!Init
<1>2. SubmissionInv /\ [Next]_vars => [Book!Next]_(Book!book)
  BY BookStep
<1> QED
  BY <1>1, <1>2, SubmissionInvariance, PTL DEF Spec, ImplementsBook, Book!Spec
=============================================================================
