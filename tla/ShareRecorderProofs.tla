------------------------ MODULE ShareRecorderProofs ------------------------
(***************************************************************************)
(* Proofs about ShareRecorder for any set of shares, batch and chunk size, *)
(* number of retries and combination of faults.                            *)
(***************************************************************************)
EXTENDS ShareRecorder, TLAPS

-----------------------------------------------------------------------------
(* Type correctness *)

\* Adding a copy of some shares to a bag gives a bag.
LEMMA AddEachType ==
    ASSUME NEW f \in [Shares -> Nat], NEW S
    PROVE  AddEach(f, S) \in [Shares -> Nat]
BY DEF AddEach

\* The initial states have the right types.
LEMMA TypeInit == Init => TypeOK
BY SharesAssumption DEF Init, TypeOK, None

\* Every step keeps the types.
LEMMA TypeStep == TypeOK /\ [Next]_vars => TypeOK'
<1> SUFFICES ASSUME TypeOK, [Next]_vars PROVE TypeOK'
  OBVIOUS
<1> USE SharesAssumption DEF TypeOK, None, InBag, poolVars, importVars, stores
<1>1. ASSUME NEW s \in Shares, Submit(s) PROVE TypeOK'
  BY <1>1 DEF Submit
<1>2. CASE CloseBuffer
  BY <1>2 DEF CloseBuffer
<1>3. CASE PersistShares
  BY <1>3 DEF PersistShares
<1>4. CASE AttemptSucceeds
  BY <1>4, AddEachType DEF AttemptSucceeds
<1>5. CASE AttemptFails
  BY <1>5 DEF AttemptFails, AfterFailure, GiveUp
<1>6. CASE CommitAnswerLost
  <2>1. db' \in [Shares -> Nat]
    BY <1>6, AddEachType DEF CommitAnswerLost
  <2>2. /\ pc' \in {"attempt", "fallback"} /\ attempt' \in Nat /\ failures' \in Nat
        /\ circuit' \in {"closed", "open", "half"}
    BY <1>6 DEF CommitAnswerLost, AfterFailure, GiveUp
  <2> QED
    BY <1>6, <2>1, <2>2 DEF CommitAnswerLost
<1>7. CASE AttemptThrows
  BY <1>7 DEF AttemptThrows
<1>8. CASE ExecuteFallback
  BY <1>8, AddEachType DEF ExecuteFallback
<1>9. CASE FallbackFails
  <2>1. PICK W \in SUBSET batch :
          file' = AddEach(file, W) /\ dropped' = dropped \cup (batch \ W)
    BY <1>9 DEF FallbackFails
  <2>2. file' \in [Shares -> Nat] /\ dropped' \subseteq Shares
    BY <2>1, AddEachType
  <2> QED
    BY <1>9, <2>2 DEF FallbackFails
<1>10. CASE BreakElapses
  BY <1>10 DEF BreakElapses
<1>11. CASE ProcessEnds
  BY <1>11 DEF ProcessEnds, InMemory, Queued
<1>12. CASE StartPool
  BY <1>12 DEF StartPool
<1>13. CASE StartRecovery
  BY <1>13 DEF StartRecovery
<1>14. ASSUME NEW s \in Shares, ReadLine(s) PROVE TypeOK'
  BY <1>14 DEF ReadLine
<1>15. CASE ImportSucceeds
  BY <1>15 DEF ImportSucceeds, StoreChunk
<1>16. CASE ImportFails
  BY <1>16 DEF ImportFails, RollBackChunk
<1>17. CASE ImportAnswerLost
  BY <1>17 DEF ImportAnswerLost, StoreChunk
<1>18. CASE LastImportSucceeds
  BY <1>18 DEF LastImportSucceeds, AtEndOfFile, StoreChunk, FinishRecovery
<1>19. CASE LastImportFails
  BY <1>19 DEF LastImportFails, AtEndOfFile, RollBackChunk, FinishRecovery
<1>20. CASE LastImportAnswerLost
  BY <1>20 DEF LastImportAnswerLost, AtEndOfFile, StoreChunk, FinishRecovery
<1>21. CASE UNCHANGED vars
  BY <1>21 DEF vars, InMemory, Queued
<1> QED
  BY <1>1, <1>2, <1>3, <1>4, <1>5, <1>6, <1>7, <1>8, <1>9, <1>10, <1>11, <1>12, <1>13, <1>14, <1>15, <1>16, <1>17, <1>18, <1>19, <1>20, <1>21 DEF Next, Recorder, Importer

\* The variables of the recorder and of the importer keep their types.
THEOREM RecorderTypeCorrect == Spec => []TypeOK
<1>1. Init => TypeOK
  BY TypeInit
<1>2. TypeOK /\ [Next]_vars => TypeOK'
  BY TypeStep
<1> QED
  BY <1>1, <1>2, PTL DEF Spec

-----------------------------------------------------------------------------
(* Nothing is lost *)

\* The members of a bag after one copy of each share of S is added.
LEMMA AddEachMembers ==
    ASSUME NEW f \in [Shares -> Nat], NEW S \in SUBSET Shares
    PROVE  InBag(AddEach(f, S)) = InBag(f) \cup S
BY DEF AddEach, InBag

\* Closing the buffer moves its shares into the queue.
LEMMA CloseBufferMoves ==
    ASSUME TypeOK, CloseBuffer
    PROVE  InMemory' = InMemory
<1>1. queue' = Append(queue, buffer) /\ buffer' = {} /\ batch' = batch
  BY DEF CloseBuffer
<1>2. Len(queue') = Len(queue) + 1 /\ queue'[Len(queue) + 1] = buffer
      /\ \A i \in 1..Len(queue) : queue'[i] = queue[i]
  BY <1>1 DEF TypeOK
<1>3. Len(queue) \in Nat /\ buffer \subseteq Shares
  BY DEF TypeOK
<1>4. \A s \in Shares : s \in Queued' => s \in Queued \cup buffer
  <2> SUFFICES ASSUME NEW s \in Shares, NEW i \in 1..Len(queue'), s \in queue'[i]
               PROVE  s \in Queued \cup buffer
    BY DEF Queued
  <2>1. i = Len(queue) + 1 \/ i \in 1..Len(queue)
    BY <1>2, <1>3
  <2> QED
    BY <1>2, <2>1 DEF Queued
<1>5. \A s \in Shares : s \in Queued => s \in Queued'
  <2> SUFFICES ASSUME NEW s \in Shares, NEW i \in 1..Len(queue), s \in queue[i]
               PROVE  s \in Queued'
    BY DEF Queued
  <2>1. i \in 1..Len(queue') /\ queue'[i] = queue[i]
    BY <1>2, <1>3
  <2> QED
    BY <2>1 DEF Queued
<1>6. \A s \in buffer : s \in Queued'
  <2>1. Len(queue) + 1 \in 1..Len(queue')
    BY <1>2, <1>3
  <2> QED
    BY <1>2, <1>3, <2>1 DEF Queued
<1>7. Queued' = Queued \cup buffer
  BY <1>3, <1>4, <1>5, <1>6 DEF Queued
<1> QED
  BY <1>1, <1>7 DEF InMemory

\* Concat moves the oldest batch out of the queue, and replaces none.
LEMMA PersistMoves ==
    ASSUME TypeOK, PersistShares
    PROVE  /\ batch' \in SUBSET Shares
           /\ Queued = Queued' \cup batch'
<1>1. queue # <<>> /\ batch' = Head(queue) /\ queue' = Tail(queue)
  BY DEF PersistShares
<1>2. Len(queue) \in Nat \ {0} /\ batch' = queue[1] /\ Len(queue') = Len(queue) - 1
      /\ \A i \in 1..Len(queue') : queue'[i] = queue[i + 1]
  BY <1>1 DEF TypeOK
<1>3. batch' \in SUBSET Shares
  BY <1>2 DEF TypeOK
<1>4. \A s \in Shares : s \in Queued => s \in Queued' \cup batch'
  <2> SUFFICES ASSUME NEW s \in Shares, NEW i \in 1..Len(queue), s \in queue[i]
               PROVE  s \in Queued' \cup batch'
    BY DEF Queued
  <2>1. CASE i = 1
    BY <1>2, <2>1
  <2>2. CASE i # 1
    <3>1. i - 1 \in 1..Len(queue') /\ queue'[i - 1] = queue[i]
      BY <1>2, <2>2
    <3> QED
      BY <3>1 DEF Queued
  <2> QED
    BY <2>1, <2>2
<1>5. \A s \in Shares : s \in Queued' \cup batch' => s \in Queued
  BY <1>2 DEF Queued
<1> QED
  BY <1>3, <1>4, <1>5 DEF Queued

\* Outside an execution no batch is in memory.
BatchInv == pc \notin {"attempt", "fallback"} => batch = {}

\* While a file is imported, every line is stored, parsed or unread.
ImportInv ==
    pc \in {"import", "store"} =>
        \A s \in Shares : file[s] <= db[s] + chunk[s] + unread[s]

\* The importer reports when it ends.
ReportInv == report # "none" => pc = "down"

\* An attempt is made only through a circuit that is not open.
BreakerInv ==
    /\ pc = "attempt" => circuit # "open"
    /\ pc \in {"import", "store", "down"} => circuit = "closed"

\* The inductive invariant behind the theorems of this module.
RecorderInv ==
    /\ TypeOK /\ BatchInv /\ NothingLost /\ BlocksAnnounced
    /\ ImportInv /\ ReportInv /\ ReportIsTrue /\ BreakerInv

\* The invariant holds initially.
LEMMA RecorderInvInit == Init => RecorderInv
BY TypeInit DEF Init, RecorderInv, BatchInv, NothingLost, BlocksAnnounced, ImportInv, ReportInv,
                ReportIsTrue, BreakerInv, InMemory, InBag, None

\* Every step keeps BatchInv.
LEMMA BatchStep == TypeOK /\ BatchInv /\ [Next]_vars => BatchInv'
<1> SUFFICES ASSUME TypeOK, BatchInv, [Next]_vars PROVE BatchInv'
  OBVIOUS
<1> USE DEF BatchInv, PoolIsUp, poolVars
<1>1. ASSUME NEW s \in Shares, Submit(s) PROVE BatchInv'
  BY <1>1 DEF Submit
<1>2. CASE CloseBuffer
  BY <1>2 DEF CloseBuffer
<1>3. CASE PersistShares
  BY <1>3 DEF PersistShares
<1>4. CASE AttemptSucceeds
  BY <1>4 DEF AttemptSucceeds
<1>5. CASE AttemptFails
  BY <1>5 DEF AttemptFails, AfterFailure, GiveUp
<1>6. CASE CommitAnswerLost
  BY <1>6 DEF CommitAnswerLost, AfterFailure, GiveUp
<1>7. CASE AttemptThrows
  BY <1>7 DEF AttemptThrows
<1>8. CASE ExecuteFallback
  BY <1>8 DEF ExecuteFallback
<1>9. CASE FallbackFails
  BY <1>9 DEF FallbackFails
<1>10. CASE BreakElapses
  BY <1>10 DEF BreakElapses
<1>11. CASE ProcessEnds
  BY <1>11 DEF ProcessEnds
<1>12. CASE StartPool
  BY <1>12 DEF StartPool
<1>13. CASE StartRecovery
  BY <1>13 DEF StartRecovery
<1>14. ASSUME NEW s \in Shares, ReadLine(s) PROVE BatchInv'
  BY <1>14 DEF ReadLine
<1>15. CASE ImportSucceeds
  BY <1>15 DEF ImportSucceeds, StoreChunk
<1>16. CASE ImportFails
  BY <1>16 DEF ImportFails, RollBackChunk
<1>17. CASE ImportAnswerLost
  BY <1>17 DEF ImportAnswerLost, StoreChunk
<1>18. CASE LastImportSucceeds
  BY <1>18 DEF LastImportSucceeds, AtEndOfFile, StoreChunk, FinishRecovery
<1>19. CASE LastImportFails
  BY <1>19 DEF LastImportFails, AtEndOfFile, RollBackChunk, FinishRecovery
<1>20. CASE LastImportAnswerLost
  BY <1>20 DEF LastImportAnswerLost, AtEndOfFile, StoreChunk, FinishRecovery
<1>21. CASE UNCHANGED vars
  BY <1>21 DEF vars, InMemory, Queued
<1> QED
  BY <1>1, <1>2, <1>3, <1>4, <1>5, <1>6, <1>7, <1>8, <1>9, <1>10, <1>11, <1>12, <1>13, <1>14, <1>15, <1>16, <1>17, <1>18, <1>19, <1>20, <1>21 DEF Next, Recorder, Importer

\* Every step keeps BreakerInv.
LEMMA BreakerStep == TypeOK /\ BreakerInv /\ [Next]_vars => BreakerInv'
<1> SUFFICES ASSUME TypeOK, BreakerInv, [Next]_vars PROVE BreakerInv'
  OBVIOUS
<1> USE DEF TypeOK, BreakerInv, PoolIsUp, poolVars
<1>1. ASSUME NEW s \in Shares, Submit(s) PROVE BreakerInv'
  BY <1>1 DEF Submit
<1>2. CASE CloseBuffer
  BY <1>2 DEF CloseBuffer
<1>3. CASE PersistShares
  BY <1>3 DEF PersistShares
<1>4. CASE AttemptSucceeds
  BY <1>4 DEF AttemptSucceeds
<1>5. CASE AttemptFails
  BY <1>5 DEF AttemptFails, AfterFailure, GiveUp
<1>6. CASE CommitAnswerLost
  BY <1>6 DEF CommitAnswerLost, AfterFailure, GiveUp
<1>7. CASE AttemptThrows
  BY <1>7 DEF AttemptThrows
<1>8. CASE ExecuteFallback
  BY <1>8 DEF ExecuteFallback
<1>9. CASE FallbackFails
  BY <1>9 DEF FallbackFails
<1>10. CASE BreakElapses
  BY <1>10 DEF BreakElapses
<1>11. CASE ProcessEnds
  BY <1>11 DEF ProcessEnds
<1>12. CASE StartPool
  BY <1>12 DEF StartPool
<1>13. CASE StartRecovery
  BY <1>13 DEF StartRecovery
<1>14. ASSUME NEW s \in Shares, ReadLine(s) PROVE BreakerInv'
  BY <1>14 DEF ReadLine
<1>15. CASE ImportSucceeds
  BY <1>15 DEF ImportSucceeds, StoreChunk
<1>16. CASE ImportFails
  BY <1>16 DEF ImportFails, RollBackChunk
<1>17. CASE ImportAnswerLost
  BY <1>17 DEF ImportAnswerLost, StoreChunk
<1>18. CASE LastImportSucceeds
  BY <1>18 DEF LastImportSucceeds, AtEndOfFile, StoreChunk, FinishRecovery
<1>19. CASE LastImportFails
  BY <1>19 DEF LastImportFails, AtEndOfFile, RollBackChunk, FinishRecovery
<1>20. CASE LastImportAnswerLost
  BY <1>20 DEF LastImportAnswerLost, AtEndOfFile, StoreChunk, FinishRecovery
<1>21. CASE UNCHANGED vars
  BY <1>21 DEF vars, InMemory, Queued
<1> QED
  BY <1>1, <1>2, <1>3, <1>4, <1>5, <1>6, <1>7, <1>8, <1>9, <1>10, <1>11, <1>12, <1>13, <1>14, <1>15, <1>16, <1>17, <1>18, <1>19, <1>20, <1>21 DEF Next, Recorder, Importer

\* Every step moves shares from one safe place to another, or records them as dropped.
LEMMA LostStep == TypeOK /\ BatchInv /\ NothingLost /\ [Next]_vars => NothingLost'
<1> SUFFICES ASSUME TypeOK, BatchInv, NothingLost, [Next]_vars PROVE NothingLost'
  OBVIOUS
<1>0. TypeOK'
  BY TypeStep
<1> DEFINE Safe == InMemory \cup InBag(db) \cup InBag(file) \cup dropped
<1>K. ASSUME UNCHANGED submitted, Safe \subseteq Safe' PROVE NothingLost'
  BY <1>K DEF NothingLost
<1>1. ASSUME NEW s \in Shares, Submit(s) PROVE NothingLost'
  <2>1. submitted' = submitted \cup {s} /\ buffer' = buffer \cup {s}
        /\ UNCHANGED <<queue, batch, db, file, dropped>>
    BY <1>1 DEF Submit, stores
  <2>2. Safe' = Safe \cup {s}
    BY <2>1 DEF InMemory, Queued
  <2> QED
    BY <2>1, <2>2 DEF NothingLost
<1>2. CASE CloseBuffer
  BY <1>2, CloseBufferMoves, <1>K DEF CloseBuffer, stores
<1>3. CASE PersistShares
  <2>1. batch = {} /\ Queued = Queued' \cup batch'
    BY <1>3, PersistMoves DEF BatchInv, PersistShares
  <2>2. UNCHANGED <<submitted, buffer, db, file, dropped>>
    BY <1>3 DEF PersistShares, stores
  <2> QED
    BY <2>1, <2>2, <1>K DEF InMemory
<1>4. CASE AttemptSucceeds
  <2>1. UNCHANGED <<submitted, buffer, queue, file, dropped>> /\ db' = AddEach(db, batch)
    BY <1>4 DEF AttemptSucceeds
  <2>2. InBag(db') = InBag(db) \cup batch
    BY <2>1, AddEachMembers DEF TypeOK
  <2> QED
    BY <2>1, <2>2, <1>K DEF InMemory, Queued
<1>5. CASE AttemptFails
  <2>1. UNCHANGED <<submitted, buffer, queue, batch, db, file, dropped>>
    BY <1>5 DEF AttemptFails, AfterFailure, GiveUp, poolVars, stores
  <2> QED
    BY <2>1, <1>K DEF InMemory, Queued
<1>6. CASE CommitAnswerLost
  <2>1. UNCHANGED <<submitted, buffer, queue, file, dropped>> /\ db' = AddEach(db, batch)
    BY <1>6 DEF CommitAnswerLost
  <2>2. InBag(db') = InBag(db) \cup batch
    BY <2>1, AddEachMembers DEF TypeOK
  <2> QED
    BY <2>1, <2>2, <1>K DEF InMemory, Queued
<1>7. CASE AttemptThrows
  BY <1>7, <1>K DEF AttemptThrows, InMemory, Queued
<1>8. CASE ExecuteFallback
  <2>1. UNCHANGED <<submitted, buffer, queue, db, dropped>> /\ file' = AddEach(file, batch)
    BY <1>8 DEF ExecuteFallback
  <2>2. InBag(file') = InBag(file) \cup batch
    BY <2>1, AddEachMembers DEF TypeOK
  <2> QED
    BY <2>1, <2>2, <1>K DEF InMemory, Queued
<1>9. CASE FallbackFails
  <2>1. PICK W \in SUBSET batch :
          file' = AddEach(file, W) /\ dropped' = dropped \cup (batch \ W)
    BY <1>9 DEF FallbackFails
  <2>2. InBag(file') = InBag(file) \cup W
    BY <2>1, AddEachMembers DEF TypeOK
  <2> QED
    BY <1>9, <2>1, <2>2, <1>K DEF FallbackFails, InMemory, Queued
<1>10. CASE BreakElapses
  <2>1. UNCHANGED <<submitted, buffer, queue, batch, db, file, dropped>>
    BY <1>10 DEF BreakElapses, poolVars, stores
  <2> QED
    BY <2>1, <1>K DEF InMemory, Queued
<1>11. CASE ProcessEnds
  BY <1>11, <1>K DEF ProcessEnds
<1>12. CASE StartPool
  <2>1. UNCHANGED <<submitted, buffer, queue, batch, db, file, dropped>>
    BY <1>12 DEF StartPool, poolVars, stores
  <2> QED
    BY <2>1, <1>K DEF InMemory, Queued
<1>13. CASE StartRecovery
  <2>1. UNCHANGED <<submitted, buffer, queue, batch, db, file, dropped>>
    BY <1>13 DEF StartRecovery, poolVars, stores
  <2> QED
    BY <2>1, <1>K DEF InMemory, Queued
<1>14. ASSUME NEW s \in Shares, ReadLine(s) PROVE NothingLost'
  <2>1. UNCHANGED <<submitted, buffer, queue, batch, db, file, dropped>>
    BY <1>14 DEF ReadLine, poolVars, stores
  <2> QED
    BY <2>1, <1>K DEF InMemory, Queued
<1>15. CASE ImportSucceeds
  <2>1. UNCHANGED <<submitted, buffer, queue, batch, file, dropped>>
        /\ db' = [s \in Shares |-> db[s] + chunk[s]]
    BY <1>15 DEF ImportSucceeds, StoreChunk, poolVars
  <2>2. InBag(db) \subseteq InBag(db')
    BY <2>1 DEF TypeOK, InBag
  <2> QED
    BY <2>1, <2>2, <1>K DEF InMemory, Queued
<1>16. CASE ImportFails
  <2>1. UNCHANGED <<submitted, buffer, queue, batch, db, file, dropped>>
    BY <1>16 DEF ImportFails, RollBackChunk, poolVars, stores
  <2> QED
    BY <2>1, <1>K DEF InMemory, Queued
<1>17. CASE ImportAnswerLost
  <2>1. UNCHANGED <<submitted, buffer, queue, batch, file, dropped>>
        /\ db' = [s \in Shares |-> db[s] + chunk[s]]
    BY <1>17 DEF ImportAnswerLost, StoreChunk, poolVars
  <2>2. InBag(db) \subseteq InBag(db')
    BY <2>1 DEF TypeOK, InBag
  <2> QED
    BY <2>1, <2>2, <1>K DEF InMemory, Queued
<1>18. CASE LastImportSucceeds
  <2>1. UNCHANGED <<submitted, buffer, queue, batch, file, dropped>>
        /\ db' = [s \in Shares |-> db[s] + chunk[s]]
    BY <1>18 DEF LastImportSucceeds, AtEndOfFile, StoreChunk, FinishRecovery, poolVars
  <2>2. InBag(db) \subseteq InBag(db')
    BY <2>1 DEF TypeOK, InBag
  <2> QED
    BY <2>1, <2>2, <1>K DEF InMemory, Queued
<1>19. CASE LastImportFails
  <2>1. UNCHANGED <<submitted, buffer, queue, batch, db, file, dropped>>
    BY <1>19 DEF LastImportFails, AtEndOfFile, RollBackChunk, FinishRecovery, poolVars, stores
  <2> QED
    BY <2>1, <1>K DEF InMemory, Queued
<1>20. CASE LastImportAnswerLost
  <2>1. UNCHANGED <<submitted, buffer, queue, batch, file, dropped>>
        /\ db' = [s \in Shares |-> db[s] + chunk[s]]
    BY <1>20 DEF LastImportAnswerLost, AtEndOfFile, StoreChunk, FinishRecovery, poolVars
  <2>2. InBag(db) \subseteq InBag(db')
    BY <2>1 DEF TypeOK, InBag
  <2> QED
    BY <2>1, <2>2, <1>K DEF InMemory, Queued
<1>21. CASE UNCHANGED vars
  BY <1>21, <1>K DEF vars, poolVars, stores, InMemory, Queued
<1> QED
  BY <1>1, <1>2, <1>3, <1>4, <1>5, <1>6, <1>7, <1>8, <1>9, <1>10, <1>11, <1>12, <1>13, <1>14, <1>15, <1>16, <1>17, <1>18, <1>19, <1>20, <1>21 DEF Next, Recorder, Importer

\* A step that stores a block announces it.
LEMMA AnnouncedStep == TypeOK /\ BlocksAnnounced /\ [Next]_vars => BlocksAnnounced'
<1> SUFFICES ASSUME TypeOK, BlocksAnnounced, [Next]_vars PROVE BlocksAnnounced'
  OBVIOUS
<1> USE DEF TypeOK, BlocksAnnounced, stores
<1>1. ASSUME NEW s \in Shares, Submit(s) PROVE BlocksAnnounced'
  BY <1>1 DEF Submit
<1>2. CASE CloseBuffer
  BY <1>2 DEF CloseBuffer
<1>3. CASE PersistShares
  BY <1>3 DEF PersistShares
<1>4. CASE AttemptSucceeds
  <2>1. db' = AddEach(db, batch) /\ announced' = announced \cup (batch \cap BlockCandidates)
    BY <1>4 DEF AttemptSucceeds
  <2>2. InBag(db') = InBag(db) \cup batch
    BY <2>1, AddEachMembers
  <2> QED
    BY <2>1, <2>2
<1>5. CASE AttemptFails
  BY <1>5 DEF AttemptFails, AfterFailure, GiveUp
<1>6. CASE CommitAnswerLost
  <2>1. db' = AddEach(db, batch) /\ announced' = announced \cup (batch \cap BlockCandidates)
    BY <1>6 DEF CommitAnswerLost
  <2>2. InBag(db') = InBag(db) \cup batch
    BY <2>1, AddEachMembers
  <2> QED
    BY <2>1, <2>2
<1>7. CASE AttemptThrows
  BY <1>7 DEF AttemptThrows
<1>8. CASE ExecuteFallback
  BY <1>8 DEF ExecuteFallback
<1>9. CASE FallbackFails
  BY <1>9 DEF FallbackFails
<1>10. CASE BreakElapses
  BY <1>10 DEF BreakElapses
<1>11. CASE ProcessEnds
  BY <1>11 DEF ProcessEnds
<1>12. CASE StartPool
  BY <1>12 DEF StartPool
<1>13. CASE StartRecovery
  BY <1>13 DEF StartRecovery
<1>14. ASSUME NEW s \in Shares, ReadLine(s) PROVE BlocksAnnounced'
  BY <1>14 DEF ReadLine
<1>15. CASE ImportSucceeds
  <2>1. StoreChunk
    BY <1>15 DEF ImportSucceeds
  <2>2. InBag(db') = InBag(db) \cup InBag(chunk)
    BY <2>1 DEF StoreChunk, InBag
  <2> QED
    BY <2>1, <2>2 DEF StoreChunk
<1>16. CASE ImportFails
  BY <1>16 DEF ImportFails, RollBackChunk
<1>17. CASE ImportAnswerLost
  <2>1. StoreChunk
    BY <1>17 DEF ImportAnswerLost
  <2>2. InBag(db') = InBag(db) \cup InBag(chunk)
    BY <2>1 DEF StoreChunk, InBag
  <2> QED
    BY <2>1, <2>2 DEF StoreChunk
<1>18. CASE LastImportSucceeds
  <2>1. StoreChunk
    BY <1>18 DEF LastImportSucceeds
  <2>2. InBag(db') = InBag(db) \cup InBag(chunk)
    BY <2>1 DEF StoreChunk, InBag
  <2> QED
    BY <2>1, <2>2 DEF StoreChunk
<1>19. CASE LastImportFails
  BY <1>19 DEF LastImportFails, AtEndOfFile, RollBackChunk, FinishRecovery
<1>20. CASE LastImportAnswerLost
  <2>1. StoreChunk
    BY <1>20 DEF LastImportAnswerLost
  <2>2. InBag(db') = InBag(db) \cup InBag(chunk)
    BY <2>1 DEF StoreChunk, InBag
  <2> QED
    BY <2>1, <2>2 DEF StoreChunk
<1>21. CASE UNCHANGED vars
  BY <1>21 DEF vars
<1> QED
  BY <1>1, <1>2, <1>3, <1>4, <1>5, <1>6, <1>7, <1>8, <1>9, <1>10, <1>11, <1>12, <1>13, <1>14, <1>15, <1>16, <1>17, <1>18, <1>19, <1>20, <1>21 DEF Next, Recorder, Importer

\* Every step keeps ReportInv.
LEMMA ReportStep == TypeOK /\ ReportInv /\ [Next]_vars => ReportInv'
<1> SUFFICES ASSUME TypeOK, ReportInv, [Next]_vars PROVE ReportInv'
  OBVIOUS
<1> USE DEF TypeOK, ReportInv, PoolIsUp, importVars
<1>1. ASSUME NEW s \in Shares, Submit(s) PROVE ReportInv'
  BY <1>1 DEF Submit
<1>2. CASE CloseBuffer
  BY <1>2 DEF CloseBuffer
<1>3. CASE PersistShares
  BY <1>3 DEF PersistShares
<1>4. CASE AttemptSucceeds
  BY <1>4 DEF AttemptSucceeds
<1>5. CASE AttemptFails
  BY <1>5 DEF AttemptFails, AfterFailure, GiveUp
<1>6. CASE CommitAnswerLost
  BY <1>6 DEF CommitAnswerLost, AfterFailure, GiveUp
<1>7. CASE AttemptThrows
  BY <1>7 DEF AttemptThrows
<1>8. CASE ExecuteFallback
  BY <1>8 DEF ExecuteFallback
<1>9. CASE FallbackFails
  BY <1>9 DEF FallbackFails
<1>10. CASE BreakElapses
  BY <1>10 DEF BreakElapses
<1>11. CASE ProcessEnds
  BY <1>11 DEF ProcessEnds
<1>12. CASE StartPool
  BY <1>12 DEF StartPool
<1>13. CASE StartRecovery
  BY <1>13 DEF StartRecovery
<1>14. ASSUME NEW s \in Shares, ReadLine(s) PROVE ReportInv'
  BY <1>14 DEF ReadLine
<1>15. CASE ImportSucceeds
  BY <1>15 DEF ImportSucceeds, StoreChunk
<1>16. CASE ImportFails
  BY <1>16 DEF ImportFails, RollBackChunk
<1>17. CASE ImportAnswerLost
  BY <1>17 DEF ImportAnswerLost, StoreChunk
<1>18. CASE LastImportSucceeds
  BY <1>18 DEF LastImportSucceeds, AtEndOfFile, StoreChunk, FinishRecovery
<1>19. CASE LastImportFails
  BY <1>19 DEF LastImportFails, AtEndOfFile, RollBackChunk, FinishRecovery
<1>20. CASE LastImportAnswerLost
  BY <1>20 DEF LastImportAnswerLost, AtEndOfFile, StoreChunk, FinishRecovery
<1>21. CASE UNCHANGED vars
  BY <1>21 DEF vars
<1> QED
  BY <1>1, <1>2, <1>3, <1>4, <1>5, <1>6, <1>7, <1>8, <1>9, <1>10, <1>11, <1>12, <1>13, <1>14, <1>15, <1>16, <1>17, <1>18, <1>19, <1>20, <1>21 DEF Next, Recorder, Importer

\* The importer moves lines from unread to parsed to stored, and keeps a chunk whose import failed.
LEMMA ImportStep == TypeOK /\ ImportInv /\ [Next]_vars => ImportInv'
<1> SUFFICES ASSUME TypeOK, ImportInv, [Next]_vars PROVE ImportInv'
  OBVIOUS
<1> USE DEF TypeOK, ImportInv, PoolIsUp, importVars, stores, None
<1>1. ASSUME NEW s \in Shares, Submit(s) PROVE ImportInv'
  BY <1>1 DEF Submit
<1>2. CASE CloseBuffer
  BY <1>2 DEF CloseBuffer
<1>3. CASE PersistShares
  BY <1>3 DEF PersistShares
<1>4. CASE AttemptSucceeds
  BY <1>4 DEF AttemptSucceeds
<1>5. CASE AttemptFails
  BY <1>5 DEF AttemptFails, AfterFailure, GiveUp
<1>6. CASE CommitAnswerLost
  BY <1>6 DEF CommitAnswerLost, AfterFailure, GiveUp
<1>7. CASE AttemptThrows
  BY <1>7 DEF AttemptThrows
<1>8. CASE ExecuteFallback
  BY <1>8 DEF ExecuteFallback
<1>9. CASE FallbackFails
  BY <1>9 DEF FallbackFails
<1>10. CASE BreakElapses
  BY <1>10 DEF BreakElapses
<1>11. CASE ProcessEnds
  BY <1>11 DEF ProcessEnds
<1>12. CASE StartPool
  BY <1>12 DEF StartPool
<1>13. CASE StartRecovery
  BY <1>13 DEF StartRecovery
<1>14. ASSUME NEW s \in Shares, ReadLine(s) PROVE ImportInv'
  BY <1>14 DEF ReadLine
<1>15. CASE ImportSucceeds
  BY <1>15 DEF ImportSucceeds, StoreChunk
<1>16. CASE ImportFails
  BY <1>16 DEF ImportFails, RollBackChunk
<1>17. CASE ImportAnswerLost
  BY <1>17 DEF ImportAnswerLost, StoreChunk
<1>18. CASE LastImportSucceeds
  BY <1>18 DEF LastImportSucceeds, AtEndOfFile, StoreChunk, FinishRecovery
<1>19. CASE LastImportFails
  BY <1>19 DEF LastImportFails, AtEndOfFile, RollBackChunk, FinishRecovery
<1>20. CASE LastImportAnswerLost
  BY <1>20 DEF LastImportAnswerLost, AtEndOfFile, StoreChunk, FinishRecovery
<1>21. CASE UNCHANGED vars
  BY <1>21 DEF vars
<1> QED
  BY <1>1, <1>2, <1>3, <1>4, <1>5, <1>6, <1>7, <1>8, <1>9, <1>10, <1>11, <1>12, <1>13, <1>14, <1>15, <1>16, <1>17, <1>18, <1>19, <1>20, <1>21 DEF Next, Recorder, Importer

\* Success is reported only when nothing is left unread or unstored.
LEMMA ReportTrueStep ==
    TypeOK /\ ImportInv /\ ReportInv /\ ReportIsTrue /\ [Next]_vars => ReportIsTrue'
<1> SUFFICES ASSUME TypeOK, ImportInv, ReportInv, ReportIsTrue, [Next]_vars PROVE ReportIsTrue'
  OBVIOUS
<1> USE DEF TypeOK, ReportInv, ReportIsTrue, PoolIsUp, importVars, stores
<1>1. ASSUME NEW s \in Shares, Submit(s) PROVE ReportIsTrue'
  BY <1>1 DEF Submit
<1>2. CASE CloseBuffer
  BY <1>2 DEF CloseBuffer
<1>3. CASE PersistShares
  BY <1>3 DEF PersistShares
<1>4. CASE AttemptSucceeds
  BY <1>4 DEF AttemptSucceeds
<1>5. CASE AttemptFails
  BY <1>5 DEF AttemptFails, AfterFailure, GiveUp
<1>6. CASE CommitAnswerLost
  BY <1>6 DEF CommitAnswerLost, AfterFailure, GiveUp
<1>7. CASE AttemptThrows
  BY <1>7 DEF AttemptThrows
<1>8. CASE ExecuteFallback
  BY <1>8 DEF ExecuteFallback
<1>9. CASE FallbackFails
  BY <1>9 DEF FallbackFails
<1>10. CASE BreakElapses
  BY <1>10 DEF BreakElapses
<1>11. CASE ProcessEnds
  BY <1>11 DEF ProcessEnds
<1>12. CASE StartPool
  BY <1>12 DEF StartPool
<1>13. CASE StartRecovery
  BY <1>13 DEF StartRecovery
<1>14. ASSUME NEW s \in Shares, ReadLine(s) PROVE ReportIsTrue'
  BY <1>14 DEF ReadLine
<1>15. CASE ImportSucceeds
  BY <1>15 DEF ImportSucceeds, StoreChunk
<1>16. CASE ImportFails
  BY <1>16 DEF ImportFails, RollBackChunk
<1>17. CASE ImportAnswerLost
  BY <1>17 DEF ImportAnswerLost, StoreChunk
<1>18. CASE LastImportSucceeds
  <2>1. \A s \in Shares : file[s] <= db[s] + chunk[s] + unread[s]
    BY <1>18 DEF LastImportSucceeds, AtEndOfFile, ImportInv
  <2>2. \A s \in Shares : unread[s] = 0
    BY <1>18 DEF LastImportSucceeds, AtEndOfFile, None
  <2>3. file' = file /\ \A s \in Shares : db'[s] = db[s] + chunk[s]
    BY <1>18 DEF LastImportSucceeds, StoreChunk
  <2> QED
    BY <2>1, <2>2, <2>3
<1>19. CASE LastImportFails
  BY <1>19 DEF LastImportFails, AtEndOfFile, RollBackChunk, FinishRecovery
<1>20. CASE LastImportAnswerLost
  BY <1>20 DEF LastImportAnswerLost, AtEndOfFile, StoreChunk, FinishRecovery
<1>21. CASE UNCHANGED vars
  BY <1>21 DEF vars
<1> QED
  BY <1>1, <1>2, <1>3, <1>4, <1>5, <1>6, <1>7, <1>8, <1>9, <1>10, <1>11, <1>12, <1>13, <1>14, <1>15, <1>16, <1>17, <1>18, <1>19, <1>20, <1>21 DEF Next, Recorder, Importer

\* Every step keeps the invariant.
LEMMA RecorderInvStep == RecorderInv /\ [Next]_vars => RecorderInv'
BY TypeStep, BatchStep, BreakerStep, LostStep, AnnouncedStep, ReportStep, ImportStep, ReportTrueStep
   DEF RecorderInv

\* RecorderInv is an inductive invariant.
THEOREM RecorderInvariance == Spec => []RecorderInv
<1>1. Init => RecorderInv
  BY RecorderInvInit
<1>2. RecorderInv /\ [Next]_vars => RecorderInv'
  BY RecorderInvStep
<1> QED
  BY <1>1, <1>2, PTL DEF Spec

\* Retries, the circuit breaker and both fallbacks lose no accepted share; only
\* the end of the process, an unhandled exception or a failed write of the file do.
THEOREM NoShareIsLost == Spec => []NothingLost
<1>1. RecorderInv => NothingLost
  BY DEF RecorderInv
<1> QED
  BY <1>1, RecorderInvariance, PTL

\* Every block row was announced before or with its commit.
THEOREM StoredBlocksAnnounced == Spec => []BlocksAnnounced
<1>1. RecorderInv => BlocksAnnounced
  BY DEF RecorderInv
<1> QED
  BY <1>1, RecorderInvariance, PTL

\* RecoverSharesAsync reports success only if every line was stored.
THEOREM SuccessIsReportedTruthfully == Spec => []ReportIsTrue
<1>1. RecorderInv => ReportIsTrue
  BY DEF RecorderInv
<1> QED
  BY <1>1, RecorderInvariance, PTL

\* No step touches the table while the circuit is open.
LEMMA OpenStep == RecorderInv /\ [Next]_vars => (circuit = "open" => UNCHANGED db)
<1> SUFFICES ASSUME RecorderInv, [Next]_vars, circuit = "open" PROVE UNCHANGED db
  OBVIOUS
<1> USE DEF RecorderInv, BreakerInv, stores
<1>1. ASSUME NEW s \in Shares, Submit(s) PROVE UNCHANGED db
  BY <1>1 DEF Submit
<1>2. CASE CloseBuffer
  BY <1>2 DEF CloseBuffer
<1>3. CASE PersistShares
  BY <1>3 DEF PersistShares
<1>4. CASE AttemptSucceeds
  BY <1>4 DEF AttemptSucceeds
<1>5. CASE AttemptFails
  BY <1>5 DEF AttemptFails, AfterFailure, GiveUp
<1>6. CASE CommitAnswerLost
  BY <1>6 DEF CommitAnswerLost, AfterFailure, GiveUp
<1>7. CASE AttemptThrows
  BY <1>7 DEF AttemptThrows
<1>8. CASE ExecuteFallback
  BY <1>8 DEF ExecuteFallback
<1>9. CASE FallbackFails
  BY <1>9 DEF FallbackFails
<1>10. CASE BreakElapses
  BY <1>10 DEF BreakElapses
<1>11. CASE ProcessEnds
  BY <1>11 DEF ProcessEnds
<1>12. CASE StartPool
  BY <1>12 DEF StartPool
<1>13. CASE StartRecovery
  BY <1>13 DEF StartRecovery
<1>14. ASSUME NEW s \in Shares, ReadLine(s) PROVE UNCHANGED db
  BY <1>14 DEF ReadLine
<1>15. CASE ImportSucceeds
  BY <1>15 DEF ImportSucceeds, StoreChunk
<1>16. CASE ImportFails
  BY <1>16 DEF ImportFails, RollBackChunk
<1>17. CASE ImportAnswerLost
  BY <1>17 DEF ImportAnswerLost, StoreChunk
<1>18. CASE LastImportSucceeds
  BY <1>18 DEF LastImportSucceeds, AtEndOfFile, StoreChunk, FinishRecovery
<1>19. CASE LastImportFails
  BY <1>19 DEF LastImportFails, AtEndOfFile, RollBackChunk, FinishRecovery
<1>20. CASE LastImportAnswerLost
  BY <1>20 DEF LastImportAnswerLost, AtEndOfFile, StoreChunk, FinishRecovery
<1>21. CASE UNCHANGED vars
  BY <1>21 DEF vars
<1> QED
  BY <1>1, <1>2, <1>3, <1>4, <1>5, <1>6, <1>7, <1>8, <1>9, <1>10, <1>11, <1>12, <1>13, <1>14, <1>15, <1>16, <1>17, <1>18, <1>19, <1>20, <1>21 DEF Next, Recorder, Importer

\* While the circuit is open the pool does not touch the table of shares.
THEOREM OpenCircuitIsHonoured == Spec => NoAttemptWhileOpen
<1>1. RecorderInv /\ [Next]_vars => [circuit = "open" => UNCHANGED db]_vars
  BY OpenStep
<1> QED
  BY <1>1, RecorderInvariance, PTL DEF Spec, NoAttemptWhileOpen

-----------------------------------------------------------------------------
(* No share is stored twice *)

\* A share is in one place of the recorder's memory at most, and was submitted.
DisjointInv ==
    /\ buffer \cup batch \subseteq submitted
    /\ buffer \cap batch = {}
    /\ \A i \in 1..Len(queue) :
        queue[i] \subseteq submitted /\ queue[i] \cap (buffer \cup batch) = {}
    /\ \A i, j \in 1..Len(queue) : i # j => queue[i] \cap queue[j] = {}

\* A share in memory is in neither store, a share in the file is not in the
\* table until the import, and the import has each share once.
OnceInv ==
    LET Sure == Shares \ unsure IN
    /\ \A s \in Sure : db[s] <= 1 /\ file[s] <= 1
    /\ \A s \in Sure : s \in InMemory \/ s \notin submitted => db[s] = 0 /\ file[s] = 0
    /\ recoveries = 0 => \A s \in Sure : db[s] + file[s] <= 1
    /\ pc \in {"import", "store"} =>
        /\ recoveries # 0
        /\ \A s \in Sure : db[s] + chunk[s] + unread[s] <= 1
        /\ \A s \in Sure : s \notin submitted => chunk[s] = 0 /\ unread[s] = 0
    /\ pc \notin {"import", "store"} => chunk = None
    /\ pc \in {"import", "store", "down"} => InMemory = {}

\* Shares move between buffer, queue and batch without being copied.
LEMMA DisjointStep == TypeOK /\ BatchInv /\ DisjointInv /\ [Next]_vars => DisjointInv'
<1> SUFFICES ASSUME TypeOK, BatchInv, DisjointInv, [Next]_vars PROVE DisjointInv'
  OBVIOUS
<1>K. ASSUME UNCHANGED <<submitted, buffer, queue>>, batch' \subseteq batch PROVE DisjointInv'
  BY <1>K DEF DisjointInv
<1>1. ASSUME NEW s \in Shares, Submit(s) PROVE DisjointInv'
  <2>1. s \notin submitted /\ submitted' = submitted \cup {s} /\ buffer' = buffer \cup {s}
        /\ UNCHANGED <<queue, batch>>
    BY <1>1 DEF Submit
  <2> QED
    BY <2>1 DEF DisjointInv
<1>2. CASE CloseBuffer
  <2>1. queue' = Append(queue, buffer) /\ buffer' = {} /\ UNCHANGED <<batch, submitted>>
    BY <1>2 DEF CloseBuffer
  <2>2. Len(queue) \in Nat /\ Len(queue') = Len(queue) + 1 /\ queue'[Len(queue) + 1] = buffer
        /\ \A i \in 1..Len(queue) : queue'[i] = queue[i]
    BY <2>1 DEF TypeOK
  <2>3. \A i \in 1..Len(queue') : i = Len(queue) + 1 \/ i \in 1..Len(queue)
    BY <2>2
  <2> QED
    BY <2>1, <2>2, <2>3 DEF DisjointInv
<1>3. CASE PersistShares
  <2>1. batch = {} /\ queue # <<>> /\ batch' = Head(queue) /\ queue' = Tail(queue)
        /\ UNCHANGED <<buffer, submitted>>
    BY <1>3 DEF PersistShares, BatchInv
  <2>2. Len(queue) \in Nat \ {0} /\ batch' = queue[1] /\ Len(queue') = Len(queue) - 1
        /\ \A i \in 1..Len(queue') : queue'[i] = queue[i + 1]
    BY <2>1 DEF TypeOK
  <2>3. 1 \in 1..Len(queue) /\ \A i \in 1..Len(queue') : i + 1 \in 1..Len(queue) /\ i + 1 # 1
    BY <2>2
  <2>4. \A i, j \in 1..Len(queue') : i # j => i + 1 # j + 1
    BY <2>2
  <2> QED
    BY <2>1, <2>2, <2>3, <2>4 DEF DisjointInv
<1>4. CASE AttemptSucceeds
  BY <1>4, <1>K DEF AttemptSucceeds, poolVars
<1>5. CASE AttemptFails
  BY <1>5, <1>K DEF AttemptFails, poolVars
<1>6. CASE CommitAnswerLost
  BY <1>6, <1>K DEF CommitAnswerLost, poolVars
<1>7. CASE AttemptThrows
  BY <1>7, <1>K DEF AttemptThrows, poolVars
<1>8. CASE ExecuteFallback
  BY <1>8, <1>K DEF ExecuteFallback, poolVars
<1>9. CASE FallbackFails
  BY <1>9, <1>K DEF FallbackFails, poolVars
<1>10. CASE BreakElapses
  BY <1>10, <1>K DEF BreakElapses, poolVars
<1>11. CASE ProcessEnds
  BY <1>11 DEF ProcessEnds, DisjointInv
<1>12. CASE StartPool
  BY <1>12, <1>K DEF StartPool, poolVars
<1>13. CASE StartRecovery
  BY <1>13, <1>K DEF StartRecovery, poolVars
<1>14. ASSUME NEW s \in Shares, ReadLine(s) PROVE DisjointInv'
  BY <1>14, <1>K DEF ReadLine, poolVars
<1>15. CASE ImportSucceeds
  BY <1>15, <1>K DEF ImportSucceeds, poolVars
<1>16. CASE ImportFails
  BY <1>16, <1>K DEF ImportFails, poolVars
<1>17. CASE ImportAnswerLost
  BY <1>17, <1>K DEF ImportAnswerLost, poolVars
<1>18. CASE LastImportSucceeds
  BY <1>18, <1>K DEF LastImportSucceeds, FinishRecovery, poolVars
<1>19. CASE LastImportFails
  BY <1>19, <1>K DEF LastImportFails, FinishRecovery, poolVars
<1>20. CASE LastImportAnswerLost
  BY <1>20, <1>K DEF LastImportAnswerLost, FinishRecovery, poolVars
<1>21. CASE UNCHANGED vars
  BY <1>21, <1>K DEF vars, poolVars
<1> QED
  BY <1>1, <1>2, <1>3, <1>4, <1>5, <1>6, <1>7, <1>8, <1>9, <1>10, <1>11, <1>12, <1>13, <1>14, <1>15, <1>16, <1>17, <1>18, <1>19, <1>20, <1>21 DEF Next, Recorder, Importer

\* A batch that leaves memory is nowhere else in memory.
LEMMA BatchLeaves ==
    ASSUME TypeOK, DisjointInv, UNCHANGED <<buffer, queue>>, batch' = {}
    PROVE  InMemory' = InMemory \ batch
<1>1. Queued' = Queued /\ Queued \cap batch = {} /\ buffer \cap batch = {}
  BY DEF DisjointInv, Queued
<1> QED
  BY <1>1 DEF InMemory

\* Only submitted shares are in memory.
LEMMA MemorySubmitted == ASSUME TypeOK, DisjointInv PROVE InMemory \subseteq submitted
BY DEF InMemory, Queued, DisjointInv

\* A share enters a store only when it leaves memory or the importer's list.
LEMMA OnceStep ==
    ASSUME MaxRecoveries <= 1,
           TypeOK, TypeOK', BatchInv, DisjointInv, OnceInv, [Next]_vars
    PROVE  OnceInv'
<1> USE DEF PoolIsUp
<1>0. InMemory \subseteq submitted
  BY MemorySubmitted
<1>K. ASSUME UNCHANGED <<submitted, db, file, recoveries, unsure>>, InMemory' = InMemory,
             pc' = pc \/ (pc \notin {"import", "store"} /\ pc' \notin {"import", "store", "down"}),
             UNCHANGED <<chunk, unread>>
      PROVE  OnceInv'
  BY <1>K DEF OnceInv
<1>1. ASSUME NEW s \in Shares, Submit(s) PROVE OnceInv'
  <2>1. submitted' = submitted \cup {s} /\ InMemory' = InMemory \cup {s} /\ s \notin submitted
        /\ UNCHANGED <<db, file, recoveries, unsure, chunk, unread, pc>>
    BY <1>1 DEF Submit, InMemory, Queued, stores, importVars
  <2>2. pc \notin {"import", "store", "down"}
    BY <1>1 DEF Submit
  <2> QED
    BY <2>1, <2>2 DEF OnceInv
<1>2. CASE CloseBuffer
  BY <1>2, CloseBufferMoves, <1>K DEF CloseBuffer, stores, importVars
<1>3. CASE PersistShares
  <2>1. batch = {} /\ Queued = Queued' \cup batch' /\ buffer' = buffer
    BY <1>3, PersistMoves DEF BatchInv, PersistShares
  <2>2. InMemory' = InMemory
    BY <2>1 DEF InMemory
  <2> QED
    BY <1>3, <2>2, <1>K DEF PersistShares, stores, importVars
<1>4. CASE AttemptSucceeds
  <2>1. InMemory' = InMemory \ batch
    BY <1>4, BatchLeaves DEF AttemptSucceeds
  <2>2. batch \subseteq InMemory /\ pc' = "idle" /\ pc \notin {"import", "store", "down"}
        /\ UNCHANGED <<submitted, file, recoveries, unsure, chunk, unread>> /\ db' = AddEach(db, batch)
    BY <1>4 DEF AttemptSucceeds, InMemory, importVars
  <2>3. \A s \in Shares : db'[s] = IF s \in batch THEN db[s] + 1 ELSE db[s]
    BY <2>2 DEF AddEach, TypeOK
  <2>4. \A s \in batch \ unsure : s \in submitted /\ db[s] = 0 /\ file[s] = 0
    BY <1>0, <2>2 DEF OnceInv, TypeOK
  <2>5. \A s \in Shares : db[s] \in Nat /\ file[s] \in Nat
    BY DEF TypeOK
  <2>6. \A s \in Shares \ unsure : db'[s] <= 1 /\ file'[s] <= 1
    BY <2>1, <2>2, <2>3, <2>4, <2>5 DEF OnceInv
  <2>7. \A s \in Shares \ unsure : s \in InMemory' \/ s \notin submitted' => db'[s] = 0 /\ file'[s] = 0
    BY <2>1, <2>2, <2>3, <2>4, <2>5 DEF OnceInv
  <2>8. recoveries' = 0 => \A s \in Shares \ unsure : db'[s] + file'[s] <= 1
    BY <2>1, <2>2, <2>3, <2>4, <2>5 DEF OnceInv
  <2>9. chunk' = None /\ pc' = "idle" /\ unsure' = unsure
    BY <2>1, <2>2, <2>3, <2>4 DEF OnceInv
  <2> QED
    BY <2>6, <2>7, <2>8, <2>9 DEF OnceInv
<1>5. CASE AttemptFails
  <2>1. InMemory' = InMemory
    BY <1>5 DEF AttemptFails, InMemory, Queued
  <2>2. pc' \in {"attempt", "fallback"} /\ pc = "attempt"
    BY <1>5 DEF AttemptFails, AfterFailure, GiveUp
  <2> QED
    BY <1>5, <2>1, <2>2, <1>K DEF AttemptFails, importVars
<1>6. CASE CommitAnswerLost
  <2>1. InMemory' = InMemory
    BY <1>6 DEF CommitAnswerLost, InMemory, Queued
  <2>2. pc' \in {"attempt", "fallback"} /\ pc = "attempt"
    BY <1>6 DEF CommitAnswerLost, AfterFailure, GiveUp
  <2>3. unsure' = unsure \cup batch /\ db' = AddEach(db, batch)
        /\ UNCHANGED <<submitted, file, recoveries, chunk, unread>>
    BY <1>6 DEF CommitAnswerLost, importVars
  <2>4. \A s \in Shares \ unsure' : db'[s] = db[s]
    BY <2>3 DEF AddEach, TypeOK
  <2> QED
    BY <2>1, <2>2, <2>3, <2>4 DEF OnceInv
<1>7. CASE AttemptThrows
  <2>1. InMemory' = InMemory \ batch
    BY <1>7, BatchLeaves DEF AttemptThrows
  <2> QED
    BY <1>7, <2>1 DEF AttemptThrows, OnceInv, importVars
<1>8. CASE ExecuteFallback
  <2>1. InMemory' = InMemory \ batch
    BY <1>8, BatchLeaves DEF ExecuteFallback
  <2>2. batch \subseteq InMemory /\ pc' = "idle" /\ pc \notin {"import", "store", "down"}
        /\ UNCHANGED <<submitted, db, recoveries, unsure, chunk, unread>> /\ file' = AddEach(file, batch)
    BY <1>8 DEF ExecuteFallback, InMemory, importVars
  <2>3. \A s \in Shares : file'[s] = IF s \in batch THEN file[s] + 1 ELSE file[s]
    BY <2>2 DEF AddEach, TypeOK
  <2>4. \A s \in batch \ unsure : s \in submitted /\ db[s] = 0 /\ file[s] = 0
    BY <1>0, <2>2 DEF OnceInv, TypeOK
  <2>5. \A s \in Shares : db[s] \in Nat /\ file[s] \in Nat
    BY DEF TypeOK
  <2>6. \A s \in Shares \ unsure : db'[s] <= 1 /\ file'[s] <= 1
    BY <2>1, <2>2, <2>3, <2>4, <2>5 DEF OnceInv
  <2>7. \A s \in Shares \ unsure : s \in InMemory' \/ s \notin submitted' => db'[s] = 0 /\ file'[s] = 0
    BY <2>1, <2>2, <2>3, <2>4, <2>5 DEF OnceInv
  <2>8. recoveries' = 0 => \A s \in Shares \ unsure : db'[s] + file'[s] <= 1
    BY <2>1, <2>2, <2>3, <2>4, <2>5 DEF OnceInv
  <2>9. chunk' = None /\ pc' = "idle" /\ unsure' = unsure
    BY <2>1, <2>2, <2>3, <2>4 DEF OnceInv
  <2> QED
    BY <2>6, <2>7, <2>8, <2>9 DEF OnceInv
<1>9. CASE FallbackFails
  <2>1. InMemory' = InMemory \ batch
    BY <1>9, BatchLeaves DEF FallbackFails
  <2>2. PICK W \in SUBSET batch : file' = AddEach(file, W)
    BY <1>9 DEF FallbackFails
  <2>3. batch \subseteq InMemory /\ pc' = "idle" /\ pc \notin {"import", "store", "down"}
        /\ UNCHANGED <<submitted, db, recoveries, unsure, chunk, unread>>
    BY <1>9 DEF FallbackFails, InMemory, importVars
  <2>4. \A s \in Shares : file'[s] = IF s \in W THEN file[s] + 1 ELSE file[s]
    BY <2>2 DEF AddEach, TypeOK
  <2>5. \A s \in batch \ unsure : s \in submitted /\ db[s] = 0 /\ file[s] = 0
    BY <1>0, <2>3 DEF OnceInv, TypeOK
  <2>6. \A s \in Shares : db[s] \in Nat /\ file[s] \in Nat
    BY DEF TypeOK
  <2>7. \A s \in Shares \ unsure : db'[s] <= 1 /\ file'[s] <= 1
    BY <2>1, <2>2, <2>3, <2>4, <2>5, <2>6 DEF OnceInv
  <2>8. \A s \in Shares \ unsure : s \in InMemory' \/ s \notin submitted' => db'[s] = 0 /\ file'[s] = 0
    BY <2>1, <2>2, <2>3, <2>4, <2>5, <2>6 DEF OnceInv
  <2>9. recoveries' = 0 => \A s \in Shares \ unsure : db'[s] + file'[s] <= 1
    BY <2>1, <2>2, <2>3, <2>4, <2>5, <2>6 DEF OnceInv
  <2>10. chunk' = None /\ pc' = "idle" /\ unsure' = unsure
    BY <2>1, <2>2, <2>3, <2>4, <2>5 DEF OnceInv
  <2> QED
    BY <2>7, <2>8, <2>9, <2>10 DEF OnceInv
<1>10. CASE BreakElapses
  <2>1. InMemory' = InMemory
    BY <1>10 DEF BreakElapses, InMemory, Queued
  <2> QED
    BY <1>10, <2>1, <1>K DEF BreakElapses, stores, importVars
<1>11. CASE ProcessEnds
  <2>1. InMemory' = {}
    BY <1>11 DEF ProcessEnds, InMemory, Queued
  <2> QED
    BY <1>11, <2>1 DEF ProcessEnds, OnceInv
<1>12. CASE StartPool
  <2>1. InMemory' = InMemory
    BY <1>12 DEF StartPool, InMemory, Queued, poolVars
  <2> QED
    BY <1>12, <2>1, <1>K DEF StartPool, stores, poolVars
<1>13. CASE StartRecovery
  <2>1. recoveries = 0 /\ recoveries' = 1
    BY <1>13, SizesAssumption DEF StartRecovery, TypeOK
  <2>2. InMemory' = InMemory
    BY <1>13 DEF StartRecovery, InMemory, Queued, poolVars
  <2>3. \A s \in Shares : chunk'[s] = 0 /\ unread'[s] = file[s]
    BY <1>13 DEF StartRecovery, OnceInv, None
  <2> QED
    BY <1>13, <2>1, <2>2, <2>3 DEF StartRecovery, OnceInv, TypeOK, poolVars, stores
<1>14. ASSUME NEW s \in Shares, ReadLine(s) PROVE OnceInv'
  <2>1. InMemory' = InMemory
    BY <1>14 DEF ReadLine, InMemory, Queued, poolVars
  <2>2. \A t \in Shares : db'[t] + chunk'[t] + unread'[t] = db[t] + chunk[t] + unread[t]
    BY <1>14 DEF ReadLine, TypeOK, stores
  <2> QED
    BY <1>14, <2>1, <2>2 DEF ReadLine, OnceInv, poolVars, stores
<1>15. CASE ImportSucceeds
  <2>1. InMemory' = InMemory /\ InMemory = {}
    BY <1>15 DEF ImportSucceeds, StoreChunk, InMemory, Queued, poolVars, OnceInv
  <2>2. \A s \in Shares : db'[s] = db[s] + chunk[s] /\ chunk'[s] = 0
    BY <1>15 DEF ImportSucceeds, StoreChunk, None
  <2>3. \A s \in Shares \ unsure : db[s] + chunk[s] + unread[s] <= 1
    BY <1>15 DEF ImportSucceeds, StoreChunk, OnceInv
  <2>4. recoveries' # 0 /\ chunk' = None /\ pc' \in {"import", "down"}
        /\ UNCHANGED <<unread, file, submitted, recoveries, unsure>>
    BY <1>15 DEF ImportSucceeds, StoreChunk, poolVars, OnceInv
  <2>5. \A s \in Shares : db[s] \in Nat /\ chunk[s] \in Nat /\ unread[s] \in Nat
    BY DEF TypeOK
  <2>6. \A s \in Shares \ unsure : db'[s] <= 1 /\ db'[s] + chunk'[s] + unread'[s] <= 1
    BY <2>2, <2>3, <2>4, <2>5
  <2>7. \A s \in Shares \ unsure : s \notin submitted => chunk[s] = 0 /\ unread[s] = 0 /\ db[s] = 0 /\ file[s] = 0
    BY <1>15 DEF ImportSucceeds, StoreChunk, OnceInv
  <2> QED
    BY <2>1, <2>2, <2>4, <2>5, <2>6, <2>7 DEF OnceInv
<1>16. CASE ImportFails
  <2>1. InMemory' = InMemory
    BY <1>16 DEF ImportFails, RollBackChunk, InMemory, Queued, poolVars
  <2> QED
    BY <1>16, <2>1 DEF ImportFails, RollBackChunk, OnceInv, poolVars
<1>17. CASE ImportAnswerLost
  <2>1. InMemory' = InMemory
    BY <1>17 DEF ImportAnswerLost, StoreChunk, InMemory, Queued, poolVars
  <2>2. unsure' = unsure \cup InBag(chunk) /\ db' = [s \in Shares |-> db[s] + chunk[s]]
        /\ UNCHANGED <<submitted, file, recoveries, unread>> /\ chunk' \in {chunk, None}
    BY <1>17 DEF ImportAnswerLost, StoreChunk, poolVars
  <2>3. \A s \in Shares \ unsure' : chunk[s] = 0 /\ db'[s] = db[s] /\ chunk'[s] = 0
    BY <2>2 DEF TypeOK, InBag, None
  <2> QED
    BY <1>17, <2>1, <2>2, <2>3 DEF ImportAnswerLost, StoreChunk, OnceInv
<1>18. CASE LastImportSucceeds
  <2>1. InMemory' = InMemory /\ InMemory = {}
    BY <1>18 DEF LastImportSucceeds, AtEndOfFile, StoreChunk, FinishRecovery, InMemory, Queued, poolVars, OnceInv
  <2>2. \A s \in Shares : db'[s] = db[s] + chunk[s] /\ chunk'[s] = 0
    BY <1>18 DEF LastImportSucceeds, AtEndOfFile, StoreChunk, FinishRecovery, None
  <2>3. \A s \in Shares \ unsure : db[s] + chunk[s] + unread[s] <= 1
    BY <1>18 DEF LastImportSucceeds, AtEndOfFile, StoreChunk, FinishRecovery, OnceInv
  <2>4. recoveries' # 0 /\ chunk' = None /\ pc' \in {"import", "down"}
        /\ UNCHANGED <<unread, file, submitted, recoveries, unsure>>
    BY <1>18 DEF LastImportSucceeds, AtEndOfFile, StoreChunk, FinishRecovery, poolVars, OnceInv
  <2>5. \A s \in Shares : db[s] \in Nat /\ chunk[s] \in Nat /\ unread[s] \in Nat
    BY DEF TypeOK
  <2>6. \A s \in Shares \ unsure : db'[s] <= 1 /\ db'[s] + chunk'[s] + unread'[s] <= 1
    BY <2>2, <2>3, <2>4, <2>5
  <2>7. \A s \in Shares \ unsure : s \notin submitted => chunk[s] = 0 /\ unread[s] = 0 /\ db[s] = 0 /\ file[s] = 0
    BY <1>18 DEF LastImportSucceeds, AtEndOfFile, StoreChunk, FinishRecovery, OnceInv
  <2> QED
    BY <2>1, <2>2, <2>4, <2>5, <2>6, <2>7 DEF OnceInv
<1>19. CASE LastImportFails
  <2>1. InMemory' = InMemory
    BY <1>19 DEF LastImportFails, AtEndOfFile, RollBackChunk, FinishRecovery, InMemory, Queued, poolVars
  <2> QED
    BY <1>19, <2>1 DEF LastImportFails, AtEndOfFile, RollBackChunk, FinishRecovery, OnceInv, poolVars
<1>20. CASE LastImportAnswerLost
  <2>1. InMemory' = InMemory
    BY <1>20 DEF LastImportAnswerLost, AtEndOfFile, StoreChunk, FinishRecovery, InMemory, Queued, poolVars
  <2>2. unsure' = unsure \cup InBag(chunk) /\ db' = [s \in Shares |-> db[s] + chunk[s]]
        /\ UNCHANGED <<submitted, file, recoveries, unread>> /\ chunk' \in {chunk, None}
    BY <1>20 DEF LastImportAnswerLost, AtEndOfFile, StoreChunk, FinishRecovery, poolVars
  <2>3. \A s \in Shares \ unsure' : chunk[s] = 0 /\ db'[s] = db[s] /\ chunk'[s] = 0
    BY <2>2 DEF TypeOK, InBag, None
  <2> QED
    BY <1>20, <2>1, <2>2, <2>3 DEF LastImportAnswerLost, AtEndOfFile, StoreChunk, FinishRecovery, OnceInv
<1>21. CASE UNCHANGED vars
  BY <1>21, <1>K DEF vars, poolVars, stores, importVars, InMemory, Queued
<1> QED
  BY <1>1, <1>2, <1>3, <1>4, <1>5, <1>6, <1>7, <1>8, <1>9, <1>10, <1>11, <1>12, <1>13, <1>14, <1>15, <1>16, <1>17, <1>18, <1>19, <1>20, <1>21 DEF Next, Recorder, Importer

\* The invariants hold initially.
LEMMA OnceInit == Init => DisjointInv /\ OnceInv
BY DEF Init, DisjointInv, OnceInv, InMemory, Queued, None

\* When the recovery file is imported at most once, a share is stored twice
\* only if one of its commits took effect unnoticed.
THEOREM NoShareIsStoredTwice ==
    ASSUME MaxRecoveries <= 1
    PROVE  Spec => []StoredOnce
<1> DEFINE Inv == TypeOK /\ BatchInv /\ DisjointInv /\ OnceInv
<1>1. Init => Inv
  BY OnceInit, RecorderInvInit DEF RecorderInv
<1>2. Inv /\ [Next]_vars => Inv'
  BY TypeStep, BatchStep, DisjointStep, OnceStep
<1>3. Inv => StoredOnce
  BY DEF OnceInv, StoredOnce
<1> HIDE DEF Inv
<1> QED
  BY <1>1, <1>2, <1>3, PTL DEF Spec
=============================================================================
