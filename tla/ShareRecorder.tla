--------------------------- MODULE ShareRecorder ---------------------------
(***************************************************************************)
(* The share recorder: shares published on the message bus are buffered,   *)
(* stored batch by batch in one database transaction each, retried, and    *)
(* appended to a recovery file when the database stays out of reach.  A    *)
(* separate run of the program (-rs) imports that file.                    *)
(*                                                                         *)
(* Shares in a batch, and lines in the file, are unordered: the file is a  *)
(* bag of lines and the importer may meet them in any order.  Backoff and  *)
(* break durations are left out: time passes between any two steps.        *)
(***************************************************************************)
EXTENDS Integers, Sequences, FiniteSets

CONSTANTS
    Shares,           \* shares accepted by the pools, each published once
    BlockCandidates,  \* those with IsBlockCandidate
    BatchSize,        \* Buffer(5 s, 250)
    ImportSize,       \* bufferSize = 100
    RetryCount,       \* retries of a transaction (3)
    BreakAfter,       \* handled failures that open the circuit (2)
    AmbiguousCommits, \* a commit may take effect although its answer is lost
    FileMayFail,      \* writing the recovery file may fail
    MayThrow,         \* an attempt may throw what the policy does not handle
    MayEnd,           \* the process may be stopped or die
    MaxRecoveries     \* bound: runs of RecoverSharesAsync

ASSUME SharesAssumption == BlockCandidates \subseteq Shares
ASSUME SizesAssumption ==
    /\ BatchSize \in Nat \ {0} /\ ImportSize \in Nat \ {0}
    /\ RetryCount \in Nat /\ BreakAfter \in Nat \ {0} /\ MaxRecoveries \in Nat
ASSUME SwitchesAssumption ==
    /\ AmbiguousCommits \in BOOLEAN /\ FileMayFail \in BOOLEAN
    /\ MayThrow \in BOOLEAN /\ MayEnd \in BOOLEAN

VARIABLES
    submitted,  \* shares published so far (history)
    buffer,     \* the open Rx buffer
    queue,      \* closed buffers waiting for Concat
    batch,      \* the buffer being persisted
    pc,         \* "idle", "attempt", "fallback"; "import", "store"; "down"
    attempt,    \* failed attempts of the current execution
    circuit,    \* "closed", "open" or "half" (half-open)
    failures,   \* consecutive handled failures seen by the breaker
    db,         \* rows of each share in table shares
    announced,  \* block candidates for which NotifyBlockFound was called
    file,       \* lines of each share in the recovery file
    dropped,    \* shares that were in memory when something dropped them (history)
    unsure,     \* shares whose commit took effect unnoticed (history)
    unread,     \* importer: lines not yet read
    chunk,      \* importer: parsed shares not yet stored
    chunkSize,  \* importer: shares.Count
    failCount,  \* importer: failed imports
    report,     \* importer: final log line, "success", "failures" or "none"
    recoveries  \* runs of the importer

poolVars == <<submitted, buffer, queue, batch, attempt, circuit, failures>>
importVars == <<unread, chunk, chunkSize, failCount, report, recoveries>>
stores == <<db, announced, file, dropped, unsure>>
vars == <<poolVars, pc, stores, importVars>>

None == [s \in Shares |-> 0]

\* The bag f with one more copy of every member of S.
AddEach(f, S) == [s \in Shares |-> f[s] + (IF s \in S THEN 1 ELSE 0)]

InBag(f) == {s \in Shares : f[s] > 0}
Queued == {s \in Shares : \E i \in 1..Len(queue) : s \in queue[i]}
InMemory == buffer \cup Queued \cup batch

Init ==
    /\ submitted = {} /\ buffer = {} /\ queue = <<>> /\ batch = {}
    /\ pc = "idle" /\ attempt = 0 /\ circuit = "closed" /\ failures = 0
    /\ db = None /\ announced = {} /\ file = None /\ dropped = {} /\ unsure = {}
    /\ unread = None /\ chunk = None /\ chunkSize = 0
    /\ failCount = 0 /\ report = "none" /\ recoveries = 0

PoolIsUp == pc \in {"idle", "attempt", "fallback"}

-----------------------------------------------------------------------------
(* The pool *)

\* A share is published and enters the open buffer.
Submit(s) ==
    /\ PoolIsUp
    /\ s \notin submitted
    /\ Cardinality(buffer) < BatchSize
    /\ submitted' = submitted \cup {s}
    /\ buffer' = buffer \cup {s}
    /\ UNCHANGED <<queue, batch, attempt, circuit, failures, pc, stores, importVars>>

\* Mutant of CloseBuffer: there is no timer, only a count.
CloseFullBuffer ==
    /\ PoolIsUp
    /\ Cardinality(buffer) = BatchSize
    /\ queue' = Append(queue, buffer)
    /\ buffer' = {}
    /\ UNCHANGED <<submitted, batch, attempt, circuit, failures, pc, stores, importVars>>

\* The buffer is full or five seconds have passed.
CloseBuffer ==
    /\ PoolIsUp
    /\ buffer # {}
    /\ queue' = Append(queue, buffer)
    /\ buffer' = {}
    /\ UNCHANGED <<submitted, batch, attempt, circuit, failures, pc, stores, importVars>>

\* Mutant of PersistShares: the circuit breaker is missing.
PersistWithoutBreaker ==
    /\ pc = "idle" /\ queue # <<>>
    /\ batch' = Head(queue)
    /\ queue' = Tail(queue)
    /\ attempt' = 0
    /\ pc' = "attempt"
    /\ UNCHANGED <<submitted, buffer, circuit, failures, stores, importVars>>

\* Concat starts the next execution; an open circuit refuses it
\* (BrokenCircuitException) and the outer fallback takes over.
PersistShares ==
    /\ pc = "idle" /\ queue # <<>>
    /\ batch' = Head(queue)
    /\ queue' = Tail(queue)
    /\ attempt' = 0
    /\ pc' = IF circuit = "open" THEN "fallback" ELSE "attempt"
    /\ UNCHANGED <<submitted, buffer, circuit, failures, stores, importVars>>

\* The transaction commits.
AttemptSucceeds ==
    /\ pc = "attempt"
    /\ db' = AddEach(db, batch)
    /\ announced' = announced \cup (batch \cap BlockCandidates)
    /\ circuit' = "closed" /\ failures' = 0
    /\ batch' = {} /\ pc' = "idle"
    /\ UNCHANGED <<submitted, buffer, queue, attempt, file, dropped, unsure, importVars>>

\* The last retry failed.  The breaker counts failures while closed and opens
\* at the limit, or at once when this was the trial of a half-open circuit; the
\* fallback takes the batch.
GiveUp ==
    /\ failures' = IF circuit = "half" THEN failures ELSE failures + 1
    /\ circuit' = IF circuit = "half" \/ failures + 1 >= BreakAfter THEN "open" ELSE circuit
    /\ pc' = "fallback"
    /\ UNCHANGED attempt

\* A handled failure of an attempt.
AfterFailure ==
    \/ /\ attempt < RetryCount
       /\ attempt' = attempt + 1
       /\ UNCHANGED <<pc, circuit, failures>>
    \/ attempt >= RetryCount /\ GiveUp

\* Mutant of AttemptFails: the shares were copied outside the transaction.
FailsAfterCopy ==
    /\ pc = "attempt"
    /\ AfterFailure
    /\ db' = AddEach(db, batch)
    /\ UNCHANGED <<submitted, buffer, queue, batch, announced, file, dropped, unsure, importVars>>

\* The transaction is rolled back; blocks already inserted were announced.
AttemptFails ==
    /\ pc = "attempt"
    /\ AfterFailure
    /\ \E B \in SUBSET (batch \cap BlockCandidates) : announced' = announced \cup B
    /\ UNCHANGED <<submitted, buffer, queue, batch, db, file, dropped, unsure, importVars>>

\* The commit takes effect but the answer is lost: the policy sees a failure.
CommitAnswerLost ==
    /\ AmbiguousCommits
    /\ pc = "attempt"
    /\ AfterFailure
    /\ db' = AddEach(db, batch)
    /\ announced' = announced \cup (batch \cap BlockCandidates)
    /\ unsure' = unsure \cup batch
    /\ UNCHANGED <<submitted, buffer, queue, batch, file, dropped, importVars>>

\* An exception no policy handles: Guard logs it and the batch is gone.  A
\* half-open circuit permits no further trial until the break has elapsed again.
AttemptThrows ==
    /\ MayThrow
    /\ pc = "attempt"
    /\ dropped' = dropped \cup batch
    /\ \E B \in SUBSET (batch \cap BlockCandidates) : announced' = announced \cup B
    /\ circuit' = IF circuit = "half" THEN "open" ELSE circuit
    /\ batch' = {} /\ pc' = "idle"
    /\ UNCHANGED <<submitted, buffer, queue, attempt, failures, db, file, unsure, importVars>>

\* Mutant of ExecuteFallback: the file is overwritten (FileMode.Create).
OverwriteFile ==
    /\ pc = "fallback"
    /\ file' = AddEach(None, batch)
    /\ batch' = {} /\ pc' = "idle"
    /\ UNCHANGED <<submitted, buffer, queue, attempt, circuit, failures, db, announced,
                   dropped, unsure, importVars>>

\* OnExecutePolicyFallbackAsync: the batch is appended to the recovery file.
ExecuteFallback ==
    /\ pc = "fallback"
    /\ file' = AddEach(file, batch)
    /\ batch' = {} /\ pc' = "idle"
    /\ UNCHANGED <<submitted, buffer, queue, attempt, circuit, failures, db, announced,
                   dropped, unsure, importVars>>

\* "Share(s) will be lost!": only some lines reach the file.
FallbackFails ==
    /\ FileMayFail
    /\ pc = "fallback"
    /\ \E W \in SUBSET batch :
        /\ file' = AddEach(file, W)
        /\ dropped' = dropped \cup (batch \ W)
    /\ batch' = {} /\ pc' = "idle"
    /\ UNCHANGED <<submitted, buffer, queue, attempt, circuit, failures, db, announced, unsure,
                   importVars>>

\* The minute of the circuit breaker is over.
BreakElapses ==
    /\ PoolIsUp
    /\ circuit = "open"
    /\ circuit' = "half"
    /\ UNCHANGED <<submitted, buffer, queue, batch, attempt, failures, pc, stores, importVars>>

-----------------------------------------------------------------------------
(* The process *)

\* The host is stopped (ToTask is cancelled, the buffers are disposed) or dies.
ProcessEnds ==
    /\ MayEnd
    /\ pc # "down"
    /\ pc' = "down"
    /\ dropped' = dropped \cup InMemory
    /\ buffer' = {} /\ queue' = <<>> /\ batch' = {}
    /\ attempt' = 0 /\ circuit' = "closed" /\ failures' = 0
    /\ unread' = None /\ chunk' = None /\ chunkSize' = 0 /\ failCount' = 0
    /\ UNCHANGED <<submitted, db, announced, file, unsure, report, recoveries>>

StartPool ==
    /\ pc = "down"
    /\ pc' = "idle" /\ report' = "none"
    /\ UNCHANGED <<poolVars, stores, unread, chunk, chunkSize, failCount, recoveries>>

-----------------------------------------------------------------------------
(* RecoverSharesAsync *)

StartRecovery ==
    /\ pc = "down" /\ recoveries < MaxRecoveries
    /\ pc' = "import"
    /\ unread' = file
    /\ recoveries' = recoveries + 1
    /\ report' = "none"
    /\ UNCHANGED <<poolVars, stores, chunk, chunkSize, failCount>>

\* Mutant of ReadLine: the end of the file is not noticed.
ReadPastEnd(s) ==
    /\ pc = "import"
    /\ unread' = [unread EXCEPT ![s] = @ - 1]
    /\ chunk' = [chunk EXCEPT ![s] = @ + 1]
    /\ chunkSize' = chunkSize + 1
    /\ pc' = IF chunkSize + 1 = ImportSize THEN "store" ELSE "import"
    /\ UNCHANGED <<poolVars, stores, failCount, report, recoveries>>

\* A line is parsed; the list is stored when it holds exactly bufferSize shares.
ReadLine(s) ==
    /\ pc = "import"
    /\ unread[s] > 0
    /\ unread' = [unread EXCEPT ![s] = @ - 1]
    /\ chunk' = [chunk EXCEPT ![s] = @ + 1]
    /\ chunkSize' = chunkSize + 1
    /\ pc' = IF chunkSize + 1 = ImportSize THEN "store" ELSE "import"
    /\ UNCHANGED <<poolVars, stores, failCount, report, recoveries>>

StoreChunk ==
    /\ db' = [s \in Shares |-> db[s] + chunk[s]]
    /\ announced' = announced \cup (InBag(chunk) \cap BlockCandidates)
    /\ UNCHANGED <<file, dropped>>

\* The transaction is rolled back; some blocks may have been announced.
RollBackChunk ==
    /\ \E B \in SUBSET (InBag(chunk) \cap BlockCandidates) : announced' = announced \cup B
    /\ UNCHANGED <<db, file, dropped, unsure>>

ImportSucceeds ==
    /\ pc = "store"
    /\ StoreChunk /\ UNCHANGED unsure
    /\ chunk' = None /\ chunkSize' = 0
    /\ pc' = "import"
    /\ UNCHANGED <<poolVars, unread, failCount, report, recoveries>>

\* The list keeps its shares, so that only the import at the end retries them.
ImportFails ==
    /\ pc = "store"
    /\ RollBackChunk
    /\ failCount' = failCount + 1
    /\ pc' = "import"
    /\ UNCHANGED <<poolVars, unread, chunk, chunkSize, report, recoveries>>

\* As ImportFails, but the commit took effect.
ImportAnswerLost ==
    /\ AmbiguousCommits
    /\ pc = "store"
    /\ StoreChunk /\ unsure' = unsure \cup InBag(chunk)
    /\ failCount' = failCount + 1
    /\ pc' = "import"
    /\ UNCHANGED <<poolVars, unread, chunk, chunkSize, report, recoveries>>

\* Mutant of FinishRecovery: the failure of the last import is not counted.
FinishUncounted(fails) ==
    /\ report' = IF failCount = 0 THEN "success" ELSE "failures"
    /\ chunk' = None /\ chunkSize' = 0 /\ failCount' = 0
    /\ pc' = "down"
    /\ UNCHANGED <<poolVars, unread, recoveries>>

\* The end of the file: the remaining shares are imported and the run reports.
FinishRecovery(fails) ==
    /\ report' = IF failCount + fails = 0 THEN "success" ELSE "failures"
    /\ chunk' = None /\ chunkSize' = 0 /\ failCount' = 0
    /\ pc' = "down"
    /\ UNCHANGED <<poolVars, unread, recoveries>>

AtEndOfFile == pc = "import" /\ unread = None

LastImportSucceeds ==
    AtEndOfFile /\ StoreChunk /\ UNCHANGED unsure /\ FinishRecovery(0)
LastImportFails ==
    AtEndOfFile /\ chunkSize > 0 /\ RollBackChunk /\ FinishRecovery(1)
LastImportAnswerLost ==
    /\ AmbiguousCommits /\ AtEndOfFile /\ chunkSize > 0
    /\ StoreChunk /\ unsure' = unsure \cup InBag(chunk)
    /\ FinishRecovery(1)

-----------------------------------------------------------------------------
Recorder ==
    \/ PersistShares
    \/ AttemptSucceeds \/ AttemptFails \/ CommitAnswerLost \/ AttemptThrows
    \/ ExecuteFallback \/ FallbackFails

Importer ==
    \/ StartRecovery
    \/ \E s \in Shares : ReadLine(s)
    \/ ImportSucceeds \/ ImportFails \/ ImportAnswerLost
    \/ LastImportSucceeds \/ LastImportFails \/ LastImportAnswerLost

Next ==
    \/ \E s \in Shares : Submit(s)
    \/ CloseBuffer \/ Recorder \/ BreakElapses
    \/ ProcessEnds \/ StartPool \/ Importer

Spec == Init /\ [][Next]_vars

\* The Rx timer fires and Concat keeps draining; nothing is assumed of the
\* database, which may refuse for ever.
FairSpec == Spec /\ WF_vars(CloseBuffer) /\ WF_vars(Recorder)

-----------------------------------------------------------------------------
TypeOK ==
    /\ submitted \subseteq Shares /\ buffer \subseteq Shares /\ batch \subseteq Shares
    /\ queue \in Seq(SUBSET Shares)
    /\ pc \in {"idle", "attempt", "fallback", "import", "store", "down"}
    /\ attempt \in Nat /\ failures \in Nat
    /\ circuit \in {"closed", "open", "half"}
    /\ db \in [Shares -> Nat] /\ file \in [Shares -> Nat]
    /\ announced \subseteq BlockCandidates
    /\ dropped \subseteq Shares /\ unsure \subseteq Shares
    /\ unread \in [Shares -> Nat] /\ chunk \in [Shares -> Nat]
    /\ chunkSize \in Nat /\ failCount \in Nat
    /\ report \in {"none", "success", "failures"}
    /\ recoveries \in Nat

\* A share that a pool accepted is in memory, in the table or in the recovery
\* file, unless it was dropped by the end of the process, by an exception that
\* no policy handles, or by a failure to write the file: retries, the circuit
\* breaker and both fallbacks lose nothing between them.
NothingLost == \A s \in submitted : s \in InMemory \cup InBag(db) \cup InBag(file) \cup dropped

\* When the file is imported at most once, no share is stored twice unless one of
\* its commits took effect unnoticed, whatever is retried (retries and imports
\* re-run whole transactions).
StoredOnce == \A s \in Shares \ unsure : db[s] <= 1

\* When the importer reports success, every line of the file was stored, even
\* though a failed chunk is retried only at the end.
ReportIsTrue == report = "success" => \A s \in Shares : file[s] <= db[s]

\* A stored block was announced first; the announcement is made inside the
\* transaction, so the converse may fail.
BlocksAnnounced == InBag(db) \cap BlockCandidates \subseteq announced

\* "break the circuit and fall through to fallback action for one minute, not
\* attempting further retries during that period": the pool stores nothing
\* while the circuit is open.
NoAttemptWhileOpen == [][circuit = "open" => UNCHANGED db]_vars

\* "The existence of this file means shares could not be committed to the
\* database": until it is imported, no line of the file is in the table.
FileMeansUncommitted == recoveries = 0 => InBag(file) \cap InBag(db) = {}

\* Every accepted share ends up in the table or in the recovery file, even if
\* the database never answers again, unless it is dropped on the way.
EventuallyDurable ==
    \A s \in Shares : s \in submitted ~> s \in InBag(db) \cup InBag(file) \cup dropped
=============================================================================
