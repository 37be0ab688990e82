---------------------------- MODULE PayoutProofs ----------------------------
(***************************************************************************)
(* Proofs about Payout for any blocks, addresses, rewards, percentages,    *)
(* thresholds, payout unit, wallet mode and number of failures.            *)
(***************************************************************************)
EXTENDS Payout, TLAPS

-----------------------------------------------------------------------------
(* Amounts *)

\* Math.Round returns a natural number at most half a unit away from its
\* argument (BitcoinPayoutHandler.PayoutAsync).
LEMMA RoundBounds ==
    ASSUME NEW x \in Nat
    PROVE  /\ Round(x) \in Nat
           /\ 2 * Round(x) <= 2 * x + Unit
           /\ 2 * Round(x) >= 2 * x - Unit
<1> DEFINE q == x \div Unit
           r == x % Unit
<1>1. q \in Nat /\ r \in Nat /\ r < Unit /\ x = q * Unit + r
  BY UnitAssumption, SMT
<1>2. q * Unit \in Nat
  BY <1>1, UnitAssumption, SMT
<1> HIDE DEF q, r
<1>3. Round(x) \in {q * Unit, q * Unit + Unit}
  BY DEF Round, q, r
<1>4. Round(x) = q * Unit => 2 * r <= Unit
  BY <1>1, <1>2, UnitAssumption DEF Round, q, r
<1>5. Round(x) = q * Unit + Unit => 2 * r >= Unit
  BY <1>1, <1>2, UnitAssumption DEF Round, q, r
<1> DEFINE p == q * Unit
<1>6. p \in Nat /\ x = p + r /\ Round(x) \in {p, p + Unit}
      /\ (Round(x) = p => 2 * r <= Unit) /\ (Round(x) = p + Unit => 2 * r >= Unit)
  BY <1>1, <1>2, <1>3, <1>4, <1>5
<1> HIDE DEF p
<1> QED
  BY <1>1, <1>6, UnitAssumption

\* The reward shares of a block are natural numbers.
LEMMA CreditIsNat ==
    ASSUME NEW b \in Blocks, NEW d \in SchemeCredits(b), NEW a \in Addresses
    PROVE  Credit(b, d, a) \in Nat
<1>1. ASSUME NEW r \in Recipients PROVE RecipientAmount(b, r) \in Nat
  <2>1. Reward[b] \in Nat /\ Percentage[r] \in Nat
    BY RewardAssumption, PercentageAssumption
  <2>2. Reward[b] * Percentage[r] \in Nat
    BY <2>1
  <2> QED
    BY <2>2 DEF RecipientAmount
<1>2. ASSUME a \in Miners PROVE d[a] \in Nat
  BY <1>2, RewardAssumption DEF SchemeCredits
<1> QED
  BY <1>1, <1>2 DEF Credit

-----------------------------------------------------------------------------
(* Type correctness *)

\* A wallet transfer keeps the totals natural numbers.
LEMMA TransferType ==
    ASSUME TypeOK, NEW S, Transfer(S)
    PROVE  sent' \in [Addresses -> Nat] /\ nsent' \in [Addresses -> Nat]
<1>1. \A a \in Addresses : Round(owed[a]) \in Nat
  BY RoundBounds DEF TypeOK
<1> QED
  BY <1>1 DEF TypeOK, Transfer

\* Booked amounts are natural numbers.
LEMMA BookedIsNat ==
    ASSUME TypeOK, NEW a \in Addresses
    PROVE  Booked(a) \in Nat
BY RoundBounds, ModeAssumption DEF TypeOK, Booked

\* Booking keeps the sums of the tables in their types.
LEMMA BookType ==
    ASSUME TypeOK, BookPayments
    PROVE  /\ paid' \in [Addresses -> Nat] /\ balance' \in [Addresses -> Int]
           /\ reset' \in [Addresses -> Nat] /\ nrec' \in [Addresses -> Nat]
           /\ UNCHANGED <<status, credited, threshold>>
<1>1. \A a \in Addresses : Booked(a) \in Nat
  BY BookedIsNat
<1> QED
  BY <1>1 DEF TypeOK, BookPayments

\* The initial states have the right types.
LEMMA TypeInit == Init => TypeOK
BY ThresholdAssumption, ModeAssumption, BoundsAssumption
   DEF Init, TypeOK, Zero, NoVerdict, PCs, Verdicts

\* Every step keeps the types.
LEMMA TypeStep == TypeOK /\ [Next]_vars => TypeOK'
<1> SUFFICES ASSUME TypeOK, [Next]_vars PROVE TypeOK'
  OBVIOUS
<1> USE DEF TypeOK, PCs, Verdicts, Abort, Zero, NoVerdict, daemon, db, memory, history
<1>1. ASSUME NEW b \in Blocks, BlockFound(b) PROVE TypeOK'
  BY <1>1 DEF BlockFound
<1>2. ASSUME NEW b \in Blocks, ChainSettles(b) PROVE TypeOK'
  BY <1>2 DEF ChainSettles
<1>3. ASSUME NEW b \in Blocks, ChainReorganises(b) PROVE TypeOK'
  BY <1>3 DEF ChainReorganises
<1>4. CASE WalletRelocks
  BY <1>4 DEF WalletRelocks
<1>5. ASSUME NEW a \in Addresses, NEW t \in Thresholds, SetMinerSettings(a, t) PROVE TypeOK'
  BY <1>5, ThresholdAssumption DEF SetMinerSettings, EffectiveThreshold
<1>6. CASE Crash
  BY <1>6, BoundsAssumption DEF Crash
<1>7. CASE StartRun
  BY <1>7 DEF StartRun, PendingBlocks
<1>8. ASSUME NEW b \in Blocks, ClassifyBlock(b) PROVE TypeOK'
  BY <1>8 DEF ClassifyBlock, Classify
<1>9. ASSUME NEW b \in Blocks, UpdateBlock(b) PROVE TypeOK'
  <2>1. b \in Blocks /\ verdict[b] # "skip"
    BY <1>9 DEF UpdateBlock, IsNextBlock, Classified
  <2>2. CASE verdict[b] = "confirmed"
    <3>1. PICK d \in SchemeCredits(b) :
            /\ balance' = [a \in Addresses |-> balance[a] + Credit(b, d, a)]
            /\ credited' = [a \in Addresses |-> credited[a] + Credit(b, d, a)]
            /\ ncredit' = [ncredit EXCEPT ![b] = @ + 1]
      BY <1>9, <2>2 DEF UpdateBlock, SettleBlock, MustCredit
    <3>2. \A a \in Addresses : Credit(b, d, a) \in Nat
      BY CreditIsNat
    <3>3. balance' \in [Addresses -> Int] /\ credited' \in [Addresses -> Nat]
          /\ ncredit' \in [Blocks -> Nat]
      BY <3>1, <3>2
    <3> QED
      BY <1>9, <2>1, <2>2, <3>3, BoundsAssumption DEF UpdateBlock, SettleBlock, MustCredit
  <2>3. CASE verdict[b] # "confirmed"
    BY <1>9, <2>1, <2>3, BoundsAssumption DEF UpdateBlock, SettleBlock, MustCredit
  <2> QED
    BY <2>2, <2>3
<1>10. CASE RunFails
  BY <1>10, BoundsAssumption DEF RunFails
<1>11. CASE ReadBalances
  BY <1>11, ThresholdAssumption, BoundsAssumption DEF ReadBalances, OverThreshold
<1>12. CASE SendManyOk
  BY <1>12, TransferType DEF SendManyOk
<1>13. CASE SendManyLost
  BY <1>13, BoundsAssumption, TransferType DEF SendManyLost
<1>14. CASE SendManyError
  BY <1>14, BoundsAssumption DEF SendManyError
<1>15. CASE SendManyLocked
  BY <1>15 DEF SendManyLocked
<1>16. CASE UnlockWallet
  BY <1>16 DEF UnlockWallet
<1>17. CASE UnlockFails
  BY <1>17, BoundsAssumption DEF UnlockFails
<1>18. ASSUME NEW a \in Addresses, SendToAddress(a) PROVE TypeOK'
  BY <1>18, BoundsAssumption, TransferType DEF SendToAddress
<1>19. ASSUME NEW a \in Addresses, AddSuccess(a) PROVE TypeOK'
  BY <1>19, BoundsAssumption DEF AddSuccess
<1>20. CASE SendEachDone
  BY <1>20, BoundsAssumption DEF SendEachDone
<1>21. CASE PersistOk
  BY <1>21, BookType, BoundsAssumption DEF PersistOk
<1>22. CASE PersistRetry
  BY <1>22, BookType, BoundsAssumption DEF PersistRetry, CanRetry
<1>23. CASE PersistFails
  BY <1>23, BoundsAssumption DEF PersistFails
<1>24. CASE UNCHANGED vars
  BY <1>24 DEF vars
<1> QED
  BY <1>1, <1>2, <1>3, <1>4, <1>5, <1>6, <1>7, <1>8, <1>9, <1>10, <1>11, <1>12, <1>13, <1>14, <1>15, <1>16, <1>17, <1>18, <1>19, <1>20, <1>21, <1>22, <1>23, <1>24 DEF Next, Environment, PaymentTask

\* Every variable of the payment pipeline keeps its type.
THEOREM TypeCorrect == Spec => []TypeOK
<1> QED
  BY TypeInit, TypeStep, PTL DEF Spec



-----------------------------------------------------------------------------
(* Blocks: credit and status *)

\* No block is settled initially.
LEMMA BlocksInit == Init => BlocksInv
BY DEF Init, BlocksInv, CreditedOnce, ConfirmedOnlyIfMature, VerdictsAreFresh, Classified,
       NoVerdict

\* A step keeps the blocks' invariant: what is classified in memory is pending
\* in the database until the transaction that credits it commits.
LEMMA BlocksStep == TypeOK /\ BlocksInv /\ [Next]_vars => BlocksInv'
<1> SUFFICES ASSUME TypeOK, BlocksInv, [Next]_vars PROVE BlocksInv'
  OBVIOUS
<1> USE DEF TypeOK, BlocksInv, CreditedOnce, ConfirmedOnlyIfMature, VerdictsAreFresh, Classified, Abort, NoVerdict, daemon, db, memory, history
<1>1. ASSUME NEW b \in Blocks, BlockFound(b) PROVE BlocksInv'
  BY <1>1 DEF BlockFound
<1>2. ASSUME NEW b \in Blocks, ChainSettles(b) PROVE BlocksInv'
  BY <1>2 DEF ChainSettles
<1>3. ASSUME NEW b \in Blocks, ChainReorganises(b) PROVE BlocksInv'
  BY <1>3 DEF ChainReorganises
<1>4. CASE WalletRelocks
  BY <1>4 DEF WalletRelocks
<1>5. ASSUME NEW a \in Addresses, NEW t \in Thresholds, SetMinerSettings(a, t) PROVE BlocksInv'
  BY <1>5 DEF SetMinerSettings
<1>6. CASE Crash
  BY <1>6 DEF Crash
<1>7. CASE StartRun
  BY <1>7 DEF StartRun, PendingBlocks
<1>8. ASSUME NEW b \in Blocks, ClassifyBlock(b) PROVE BlocksInv'
  <2>1. PICK reply \in Replies(b) : verdict' = [verdict EXCEPT ![b] = Classify(reply)]
    BY <1>8 DEF ClassifyBlock
  <2>2. Classify(reply) = "confirmed" => chain[b] = "generate"
    BY <2>1 DEF Replies, Classify
  <2>3. status[b] = "pending" /\ b \in todo /\ pc = "classify"
    BY <1>8 DEF ClassifyBlock
  <2> QED
    BY <1>8, <2>1, <2>2, <2>3 DEF ClassifyBlock
<1>9. ASSUME NEW b \in Blocks, UpdateBlock(b) PROVE BlocksInv'
  <2>1. verdict[b] # "skip" /\ status[b] = "pending" /\ pc = "update" /\ todo = {}
    BY <1>9 DEF UpdateBlock, IsNextBlock
  <2>2. /\ status' = [status EXCEPT ![b] = verdict[b]]
        /\ ncredit' = IF verdict[b] = "confirmed"
                        THEN [ncredit EXCEPT ![b] = @ + 1] ELSE ncredit
        /\ chain' = chain
    BY <1>9 DEF UpdateBlock, SettleBlock, MustCredit
  <2>3. /\ todo' = {}
        /\ \/ pc' = "update" /\ verdict' = [verdict EXCEPT ![b] = "skip"]
           \/ pc' = "idle" /\ verdict' = NoVerdict
    BY <1>9, <2>1 DEF UpdateBlock
  <2>4. CreditedOnce'
    BY <2>1, <2>2
  <2>5. ConfirmedOnlyIfMature'
    BY <2>1, <2>2
  <2>6. VerdictsAreFresh'
    BY <2>1, <2>2, <2>3
  <2> QED
    BY <2>4, <2>5, <2>6
<1>10. CASE RunFails
  BY <1>10 DEF RunFails
<1>11. CASE ReadBalances
  BY <1>11 DEF ReadBalances
<1>12. CASE SendManyOk
  BY <1>12 DEF SendManyOk
<1>13. CASE SendManyLost
  BY <1>13 DEF SendManyLost
<1>14. CASE SendManyError
  BY <1>14 DEF SendManyError
<1>15. CASE SendManyLocked
  BY <1>15 DEF SendManyLocked
<1>16. CASE UnlockWallet
  BY <1>16 DEF UnlockWallet
<1>17. CASE UnlockFails
  BY <1>17 DEF UnlockFails
<1>18. ASSUME NEW a \in Addresses, SendToAddress(a) PROVE BlocksInv'
  BY <1>18 DEF SendToAddress
<1>19. ASSUME NEW a \in Addresses, AddSuccess(a) PROVE BlocksInv'
  BY <1>19 DEF AddSuccess
<1>20. CASE SendEachDone
  BY <1>20 DEF SendEachDone
<1>21. CASE PersistOk
  BY <1>21 DEF PersistOk, BookPayments, HasPaymentRow
<1>22. CASE PersistRetry
  BY <1>22 DEF PersistRetry, BookPayments, HasPaymentRow
<1>23. CASE PersistFails
  BY <1>23 DEF PersistFails
<1>24. CASE UNCHANGED vars
  BY <1>24 DEF vars
<1> QED
  BY <1>1, <1>2, <1>3, <1>4, <1>5, <1>6, <1>7, <1>8, <1>9, <1>10, <1>11, <1>12, <1>13, <1>14, <1>15, <1>16, <1>17, <1>18, <1>19, <1>20, <1>21, <1>22, <1>23, <1>24 DEF Next, Environment, PaymentTask


-----------------------------------------------------------------------------
(* Balances, balance changes and payments *)

\* The books are empty initially.
LEMMA BooksInit == Init => BooksAgree
BY DEF Init, BooksAgree, Zero

\* Every step keeps the three tables in agreement.
LEMMA BooksStep == TypeOK /\ BooksAgree /\ [Next]_vars => BooksAgree'
<1> SUFFICES ASSUME TypeOK, BooksAgree, [Next]_vars PROVE BooksAgree'
  OBVIOUS
<1> USE DEF TypeOK, BooksAgree, Abort, daemon, db, memory, history
<1>1. ASSUME NEW b \in Blocks, BlockFound(b) PROVE BooksAgree'
  BY <1>1 DEF BlockFound
<1>2. ASSUME NEW b \in Blocks, ChainSettles(b) PROVE BooksAgree'
  BY <1>2 DEF ChainSettles
<1>3. ASSUME NEW b \in Blocks, ChainReorganises(b) PROVE BooksAgree'
  BY <1>3 DEF ChainReorganises
<1>4. CASE WalletRelocks
  BY <1>4 DEF WalletRelocks
<1>5. ASSUME NEW a \in Addresses, NEW t \in Thresholds, SetMinerSettings(a, t) PROVE BooksAgree'
  BY <1>5 DEF SetMinerSettings
<1>6. CASE Crash
  BY <1>6 DEF Crash
<1>7. CASE StartRun
  BY <1>7 DEF StartRun
<1>8. ASSUME NEW b \in Blocks, ClassifyBlock(b) PROVE BooksAgree'
  BY <1>8 DEF ClassifyBlock
<1>9. ASSUME NEW b \in Blocks, UpdateBlock(b) PROVE BooksAgree'
  <2>1. CASE verdict[b] = "confirmed"
    <3>1. PICK d \in SchemeCredits(b) :
            /\ balance' = [a \in Addresses |-> balance[a] + Credit(b, d, a)]
            /\ credited' = [a \in Addresses |-> credited[a] + Credit(b, d, a)]
      BY <1>9, <2>1 DEF UpdateBlock, SettleBlock, MustCredit
    <3>2. \A a \in Addresses : Credit(b, d, a) \in Nat
      BY CreditIsNat
    <3> QED
      BY <1>9, <3>1, <3>2 DEF UpdateBlock, SettleBlock, MustCredit
  <2>2. CASE verdict[b] # "confirmed"
    BY <1>9, <2>2 DEF UpdateBlock, SettleBlock, MustCredit
  <2> QED
    BY <2>1, <2>2
<1>10. CASE RunFails
  BY <1>10 DEF RunFails
<1>11. CASE ReadBalances
  BY <1>11 DEF ReadBalances
<1>12. CASE SendManyOk
  BY <1>12 DEF SendManyOk
<1>13. CASE SendManyLost
  BY <1>13 DEF SendManyLost
<1>14. CASE SendManyError
  BY <1>14 DEF SendManyError
<1>15. CASE SendManyLocked
  BY <1>15 DEF SendManyLocked
<1>16. CASE UnlockWallet
  BY <1>16 DEF UnlockWallet
<1>17. CASE UnlockFails
  BY <1>17 DEF UnlockFails
<1>18. ASSUME NEW a \in Addresses, SendToAddress(a) PROVE BooksAgree'
  BY <1>18 DEF SendToAddress
<1>19. ASSUME NEW a \in Addresses, AddSuccess(a) PROVE BooksAgree'
  BY <1>19 DEF AddSuccess
<1>20. CASE SendEachDone
  BY <1>20 DEF SendEachDone
<1>21. CASE PersistOk
  BY <1>21, BookedIsNat DEF PersistOk, BookPayments, HasPaymentRow
<1>22. CASE PersistRetry
  BY <1>22, BookedIsNat DEF PersistRetry, BookPayments, HasPaymentRow
<1>23. CASE PersistFails
  BY <1>23 DEF PersistFails
<1>24. CASE UNCHANGED vars
  BY <1>24 DEF vars
<1> QED
  BY <1>1, <1>2, <1>3, <1>4, <1>5, <1>6, <1>7, <1>8, <1>9, <1>10, <1>11, <1>12, <1>13, <1>14, <1>15, <1>16, <1>17, <1>18, <1>19, <1>20, <1>21, <1>22, <1>23, <1>24 DEF Next, Environment, PaymentTask

-----------------------------------------------------------------------------
(* The shape of the payout state *)

\* The task is idle initially.
LEMMA ShapeInit == Init => PayoutShape
BY DEF Init, PayoutShape

\* Every step keeps the task's memory in shape.
LEMMA ShapeStep == TypeOK /\ PayoutShape /\ [Next]_vars => PayoutShape'
<1> SUFFICES ASSUME TypeOK, PayoutShape, [Next]_vars PROVE PayoutShape'
  OBVIOUS
<1> USE DEF TypeOK, PayoutShape, Abort, daemon, db, memory, history
<1>1. ASSUME NEW b \in Blocks, BlockFound(b) PROVE PayoutShape'
  BY <1>1 DEF BlockFound
<1>2. ASSUME NEW b \in Blocks, ChainSettles(b) PROVE PayoutShape'
  BY <1>2 DEF ChainSettles
<1>3. ASSUME NEW b \in Blocks, ChainReorganises(b) PROVE PayoutShape'
  BY <1>3 DEF ChainReorganises
<1>4. CASE WalletRelocks
  BY <1>4 DEF WalletRelocks
<1>5. ASSUME NEW a \in Addresses, NEW t \in Thresholds, SetMinerSettings(a, t) PROVE PayoutShape'
  BY <1>5 DEF SetMinerSettings
<1>6. CASE Crash
  BY <1>6 DEF Crash
<1>7. CASE StartRun
  BY <1>7 DEF StartRun
<1>8. ASSUME NEW b \in Blocks, ClassifyBlock(b) PROVE PayoutShape'
  BY <1>8 DEF ClassifyBlock
<1>9. ASSUME NEW b \in Blocks, UpdateBlock(b) PROVE PayoutShape'
  BY <1>9 DEF UpdateBlock
<1>10. CASE RunFails
  BY <1>10 DEF RunFails
<1>11. CASE ReadBalances
  BY <1>11 DEF ReadBalances, OverThreshold
<1>12. CASE SendManyOk
  BY <1>12 DEF SendManyOk
<1>13. CASE SendManyLost
  BY <1>13 DEF SendManyLost
<1>14. CASE SendManyError
  BY <1>14 DEF SendManyError
<1>15. CASE SendManyLocked
  BY <1>15 DEF SendManyLocked
<1>16. CASE UnlockWallet
  BY <1>16 DEF UnlockWallet
<1>17. CASE UnlockFails
  BY <1>17 DEF UnlockFails
<1>18. ASSUME NEW a \in Addresses, SendToAddress(a) PROVE PayoutShape'
  BY <1>18 DEF SendToAddress
<1>19. ASSUME NEW a \in Addresses, AddSuccess(a) PROVE PayoutShape'
  BY <1>19 DEF AddSuccess
<1>20. CASE SendEachDone
  BY <1>20 DEF SendEachDone
<1>21. CASE PersistOk
  BY <1>21 DEF PersistOk
<1>22. CASE PersistRetry
  BY <1>22 DEF PersistRetry
<1>23. CASE PersistFails
  BY <1>23 DEF PersistFails
<1>24. CASE UNCHANGED vars
  BY <1>24 DEF vars
<1> QED
  BY <1>1, <1>2, <1>3, <1>4, <1>5, <1>6, <1>7, <1>8, <1>9, <1>10, <1>11, <1>12, <1>13, <1>14, <1>15, <1>16, <1>17, <1>18, <1>19, <1>20, <1>21, <1>22, <1>23, <1>24 DEF Next, Environment, PaymentTask


-----------------------------------------------------------------------------
(* Amounts in memory and balances *)

\* No balance is negative initially.
LEMMA BalancesInit == Init => BalancesInv
BY ThresholdAssumption, UnitAssumption
   DEF Init, Zero, BalancesInv, AmountsAreCovered, NeverOverdrawn, TwiceOverdraft

\* A step keeps the amounts in memory covered: only the payment task lowers a
\* balance, and it forgets what it read when it does.
LEMMA BalancesStep ==
    TypeOK /\ PayoutShape /\ BalancesInv /\ [Next]_vars => BalancesInv'
<1> SUFFICES ASSUME TypeOK, PayoutShape, BalancesInv, [Next]_vars PROVE BalancesInv'
  OBVIOUS
<1> USE DEF TypeOK, PayoutShape, BalancesInv, AmountsAreCovered, NeverOverdrawn, Abort, daemon, db, memory, history
<1>1. ASSUME NEW b \in Blocks, BlockFound(b) PROVE BalancesInv'
  BY <1>1 DEF BlockFound
<1>2. ASSUME NEW b \in Blocks, ChainSettles(b) PROVE BalancesInv'
  BY <1>2 DEF ChainSettles
<1>3. ASSUME NEW b \in Blocks, ChainReorganises(b) PROVE BalancesInv'
  BY <1>3 DEF ChainReorganises
<1>4. CASE WalletRelocks
  BY <1>4 DEF WalletRelocks
<1>5. ASSUME NEW a \in Addresses, NEW t \in Thresholds, SetMinerSettings(a, t) PROVE BalancesInv'
  BY <1>5, ThresholdAssumption DEF SetMinerSettings, EffectiveThreshold
<1>6. CASE Crash
  BY <1>6 DEF Crash
<1>7. CASE StartRun
  BY <1>7 DEF StartRun
<1>8. ASSUME NEW b \in Blocks, ClassifyBlock(b) PROVE BalancesInv'
  BY <1>8 DEF ClassifyBlock
<1>9. ASSUME NEW b \in Blocks, UpdateBlock(b) PROVE BalancesInv'
  <2>1. payees = {} /\ payees' = {} /\ UNCHANGED <<threshold, dup>>
    BY <1>9 DEF UpdateBlock, SettleBlock, MustCredit
  <2>2. \A a \in Addresses : balance'[a] \in Int /\ balance'[a] >= balance[a]
    <3>1. CASE verdict[b] = "confirmed"
      <4>1. PICK d \in SchemeCredits(b) :
              balance' = [a \in Addresses |-> balance[a] + Credit(b, d, a)]
        BY <1>9, <3>1 DEF UpdateBlock, SettleBlock, MustCredit
      <4>2. \A a \in Addresses : Credit(b, d, a) \in Nat
        BY CreditIsNat
      <4> QED
        BY <4>1, <4>2
    <3>2. CASE verdict[b] # "confirmed"
      BY <1>9, <3>2 DEF UpdateBlock, SettleBlock, MustCredit
    <3> QED
      BY <3>1, <3>2
  <2>3. TwiceOverdraft \in Nat
    BY UnitAssumption DEF TwiceOverdraft
  <2> QED
    BY <2>1, <2>2, <2>3
<1>10. CASE RunFails
  BY <1>10 DEF RunFails
<1>11. CASE ReadBalances
  BY <1>11, ThresholdAssumption DEF ReadBalances, OverThreshold
<1>12. CASE SendManyOk
  BY <1>12 DEF SendManyOk
<1>13. CASE SendManyLost
  BY <1>13 DEF SendManyLost
<1>14. CASE SendManyError
  BY <1>14 DEF SendManyError
<1>15. CASE SendManyLocked
  BY <1>15 DEF SendManyLocked
<1>16. CASE UnlockWallet
  BY <1>16 DEF UnlockWallet
<1>17. CASE UnlockFails
  BY <1>17 DEF UnlockFails
<1>18. ASSUME NEW a \in Addresses, SendToAddress(a) PROVE BalancesInv'
  BY <1>18 DEF SendToAddress
<1>19. ASSUME NEW a \in Addresses, AddSuccess(a) PROVE BalancesInv'
  BY <1>19 DEF AddSuccess
<1>20. CASE SendEachDone
  BY <1>20 DEF SendEachDone
<1>21. CASE PersistOk
  <2>1. payees' = {} /\ UNCHANGED <<threshold, dup>>
    BY <1>21 DEF PersistOk, BookPayments
  <2>2. ASSUME dup = 0, NEW a \in Addresses
        PROVE  2 * balance'[a] >= -TwiceOverdraft
    <3>1. balance[a] \in Int /\ owed[a] \in Nat /\ Booked(a) \in Nat
      BY BookedIsNat
    <3>2. balance'[a] = IF a \in delivered THEN balance[a] - Booked(a) ELSE balance[a]
      BY <1>21, <3>1 DEF PersistOk, BookPayments
    <3>3. a \in delivered => owed[a] <= balance[a]
      BY <2>2
    <3>4. 2 * Booked(a) <= 2 * owed[a] + TwiceOverdraft
      BY <3>1, RoundBounds, UnitAssumption DEF Booked, TwiceOverdraft
    <3>5. TwiceOverdraft \in Nat /\ 2 * balance[a] >= -TwiceOverdraft
      BY <2>2, UnitAssumption DEF TwiceOverdraft
    <3> QED
      BY <3>1, <3>2, <3>3, <3>4, <3>5
  <2> QED
    BY <2>1, <2>2
<1>22. CASE PersistRetry
  BY <1>22 DEF PersistRetry, BookPayments, HasPaymentRow
<1>23. CASE PersistFails
  BY <1>23 DEF PersistFails
<1>24. CASE UNCHANGED vars
  BY <1>24 DEF vars
<1> QED
  BY <1>1, <1>2, <1>3, <1>4, <1>5, <1>6, <1>7, <1>8, <1>9, <1>10, <1>11, <1>12, <1>13, <1>14, <1>15, <1>16, <1>17, <1>18, <1>19, <1>20, <1>21, <1>22, <1>23, <1>24 DEF Next, Environment, PaymentTask


-----------------------------------------------------------------------------
(* Transfers and bookings *)

\* Nothing is booked initially.
LEMMA BookedOnceInit == Init => BookedOnce
BY DEF Init, Zero, BookedOnce, InFlight, InMemory

\* A step keeps the count: a transfer enters the task's memory when it is made
\* and leaves it when it is booked or forgotten.
LEMMA BookedOnceStep ==
    TypeOK /\ PayoutShape /\ BookedOnce /\ [Next]_vars => BookedOnce'
<1> SUFFICES ASSUME TypeOK, PayoutShape, BookedOnce, [Next]_vars PROVE BookedOnce'
  OBVIOUS
<1> USE DEF TypeOK, PayoutShape, BookedOnce, InFlight, InMemory, Abort, daemon, db, memory, history
<1>1. ASSUME NEW b \in Blocks, BlockFound(b) PROVE BookedOnce'
  BY <1>1 DEF BlockFound
<1>2. ASSUME NEW b \in Blocks, ChainSettles(b) PROVE BookedOnce'
  BY <1>2 DEF ChainSettles
<1>3. ASSUME NEW b \in Blocks, ChainReorganises(b) PROVE BookedOnce'
  BY <1>3 DEF ChainReorganises
<1>4. CASE WalletRelocks
  BY <1>4 DEF WalletRelocks
<1>5. ASSUME NEW a \in Addresses, NEW t \in Thresholds, SetMinerSettings(a, t) PROVE BookedOnce'
  BY <1>5 DEF SetMinerSettings
<1>6. CASE Crash
  BY <1>6 DEF Crash
<1>7. CASE StartRun
  BY <1>7 DEF StartRun
<1>8. ASSUME NEW b \in Blocks, ClassifyBlock(b) PROVE BookedOnce'
  BY <1>8 DEF ClassifyBlock
<1>9. ASSUME NEW b \in Blocks, UpdateBlock(b) PROVE BookedOnce'
  BY <1>9 DEF UpdateBlock, SettleBlock, MustCredit
<1>10. CASE RunFails
  BY <1>10 DEF RunFails
<1>11. CASE ReadBalances
  BY <1>11 DEF ReadBalances
<1>12. CASE SendManyOk
  BY <1>12 DEF SendManyOk, Transfer
<1>13. CASE SendManyLost
  BY <1>13 DEF SendManyLost, Transfer
<1>14. CASE SendManyError
  BY <1>14 DEF SendManyError
<1>15. CASE SendManyLocked
  BY <1>15 DEF SendManyLocked
<1>16. CASE UnlockWallet
  BY <1>16 DEF UnlockWallet
<1>17. CASE UnlockFails
  BY <1>17 DEF UnlockFails
<1>18. ASSUME NEW a \in Addresses, SendToAddress(a) PROVE BookedOnce'
  BY <1>18 DEF SendToAddress, Transfer
<1>19. ASSUME NEW a \in Addresses, AddSuccess(a) PROVE BookedOnce'
  BY <1>19 DEF AddSuccess
<1>20. CASE SendEachDone
  BY <1>20 DEF SendEachDone
<1>21. CASE PersistOk
  BY <1>21 DEF PersistOk, BookPayments, HasPaymentRow
<1>22. CASE PersistRetry
  BY <1>22 DEF PersistRetry, BookPayments, HasPaymentRow
<1>23. CASE PersistFails
  BY <1>23 DEF PersistFails
<1>24. CASE UNCHANGED vars
  BY <1>24 DEF vars
<1> QED
  BY <1>1, <1>2, <1>3, <1>4, <1>5, <1>6, <1>7, <1>8, <1>9, <1>10, <1>11, <1>12, <1>13, <1>14, <1>15, <1>16, <1>17, <1>18, <1>19, <1>20, <1>21, <1>22, <1>23, <1>24 DEF Next, Environment, PaymentTask


\* One more transfer allows one more unit of rounding.
LEMMA UnitTimes ==
    ASSUME NEW n \in Nat
    PROVE  Unit * n \in Nat /\ Unit * (n + 1) \in Nat /\ Unit * (n + 1) = Unit * n + Unit
BY UnitAssumption

\* Nothing is sent initially.
LEMMA SentInit == Init => SentIsBooked
BY UnitAssumption DEF Init, Zero, SentIsBooked, InFlightAmount, InMemory

\* Every step keeps the relation between transfers and bookings.
LEMMA SentStep ==
    TypeOK /\ PayoutShape /\ SentIsBooked /\ [Next]_vars => SentIsBooked'
<1> SUFFICES ASSUME TypeOK, PayoutShape, SentIsBooked, [Next]_vars PROVE SentIsBooked'
  OBVIOUS
<1> USE DEF TypeOK, PayoutShape, SentIsBooked, InFlightAmount, InMemory, Booked, Abort, daemon, db, memory, history
<1>1. ASSUME NEW b \in Blocks, BlockFound(b) PROVE SentIsBooked'
  BY <1>1 DEF BlockFound
<1>2. ASSUME NEW b \in Blocks, ChainSettles(b) PROVE SentIsBooked'
  BY <1>2 DEF ChainSettles
<1>3. ASSUME NEW b \in Blocks, ChainReorganises(b) PROVE SentIsBooked'
  BY <1>3 DEF ChainReorganises
<1>4. CASE WalletRelocks
  BY <1>4 DEF WalletRelocks
<1>5. ASSUME NEW a \in Addresses, NEW t \in Thresholds, SetMinerSettings(a, t) PROVE SentIsBooked'
  BY <1>5 DEF SetMinerSettings
<1>6. CASE Crash
  BY <1>6 DEF Crash
<1>7. CASE StartRun
  BY <1>7 DEF StartRun
<1>8. ASSUME NEW b \in Blocks, ClassifyBlock(b) PROVE SentIsBooked'
  BY <1>8 DEF ClassifyBlock
<1>9. ASSUME NEW b \in Blocks, UpdateBlock(b) PROVE SentIsBooked'
  BY <1>9 DEF UpdateBlock, SettleBlock, MustCredit
<1>10. CASE RunFails
  BY <1>10 DEF RunFails
<1>11. CASE ReadBalances
  BY <1>11 DEF ReadBalances
<1>12. CASE SendManyOk
  <2> SUFFICES ASSUME lost = 0, dup = 0, NEW a \in Addresses
               PROVE  /\ nsent'[a] = 0 => sent'[a] = 0
                      /\ BrokenSendMany => sent'[a] = reset'[a] + InFlightAmount(a)'
                      /\ 2 * sent'[a] <= 2 * (reset'[a] + InFlightAmount(a)') + Unit * nsent'[a]
    BY <1>12 DEF SendManyOk
  <2>1. ~BrokenSendMany /\ InFlightAmount(a) = 0
    BY <1>12 DEF SendManyOk
  <2>2. CASE a \in payees
    <3>1. /\ sent'[a] = sent[a] + Round(owed[a]) /\ nsent'[a] = nsent[a] + 1
          /\ reset'[a] = reset[a] /\ InFlightAmount(a)' = owed[a]
      BY <1>12, <2>1, <2>2 DEF SendManyOk, Transfer
    <3>2. Unit * nsent'[a] = Unit * nsent[a] + Unit /\ Unit * nsent[a] \in Nat
      BY <3>1, UnitTimes
    <3>3. Round(owed[a]) \in Nat /\ 2 * Round(owed[a]) <= 2 * owed[a] + Unit
      BY RoundBounds
    <3>4. 2 * sent[a] <= 2 * reset[a] + Unit * nsent[a]
      BY <2>1
    <3> QED
      BY <2>1, <3>1, <3>2, <3>3, <3>4, UnitAssumption
  <2>3. CASE a \notin payees
    BY <1>12, <2>1, <2>3 DEF SendManyOk, Transfer
  <2> QED
    BY <2>2, <2>3
<1>13. CASE SendManyLost
  BY <1>13 DEF SendManyLost
<1>14. CASE SendManyError
  BY <1>14 DEF SendManyError
<1>15. CASE SendManyLocked
  BY <1>15 DEF SendManyLocked
<1>16. CASE UnlockWallet
  BY <1>16 DEF UnlockWallet
<1>17. CASE UnlockFails
  BY <1>17 DEF UnlockFails
<1>18. ASSUME NEW a \in Addresses, SendToAddress(a) PROVE SentIsBooked'
  <2> SUFFICES ASSUME lost' = 0, dup' = 0, NEW c \in Addresses
               PROVE  /\ nsent'[c] = 0 => sent'[c] = 0
                      /\ BrokenSendMany => sent'[c] = reset'[c] + InFlightAmount(c)'
                      /\ 2 * sent'[c] <= 2 * (reset'[c] + InFlightAmount(c)') + Unit * nsent'[c]
    OBVIOUS
  <2>1. /\ BrokenSendMany /\ lost = 0 /\ dup = 0
        /\ a \notin InMemory /\ UNCHANGED <<reset, owed, delivered>>
    BY <1>18 DEF SendToAddress
  <2>2. CASE c = a /\ nsent' # nsent
    <3>1. /\ sent'[a] = sent[a] + Round(owed[a]) /\ nsent'[a] = nsent[a] + 1
          /\ InFlightAmount(a)' = Round(owed[a]) /\ InFlightAmount(a) = 0
      BY <1>18, <2>1, <2>2 DEF SendToAddress, Transfer
    <3>2. Unit * nsent'[a] \in Nat
      BY <3>1, UnitTimes
    <3>3. Round(owed[a]) \in Nat /\ sent[a] = reset[a]
      BY RoundBounds, <2>1, <3>1
    <3> QED
      BY <2>1, <2>2, <3>1, <3>2, <3>3
  <2>3. CASE c # a \/ nsent' = nsent
    <3>1. sent'[c] = sent[c] /\ nsent'[c] = nsent[c] /\ (c \in InMemory' <=> c \in InMemory)
      BY <1>18, <2>1, <2>3 DEF SendToAddress, Transfer
    <3> QED
      BY <2>1, <3>1
  <2> QED
    BY <2>2, <2>3
<1>19. ASSUME NEW a \in Addresses, AddSuccess(a) PROVE SentIsBooked'
  BY <1>19 DEF AddSuccess
<1>20. CASE SendEachDone
  BY <1>20 DEF SendEachDone
<1>21. CASE PersistOk
  <2> SUFFICES ASSUME lost = 0, dup = 0, NEW a \in Addresses
               PROVE  /\ nsent'[a] = 0 => sent'[a] = 0
                      /\ BrokenSendMany => sent'[a] = reset'[a] + InFlightAmount(a)'
                      /\ 2 * sent'[a] <= 2 * (reset'[a] + InFlightAmount(a)') + Unit * nsent'[a]
    BY <1>21 DEF PersistOk
  <2>1. Booked(a) \in Nat /\ reset[a] \in Nat
    BY BookedIsNat
  <2>2. /\ reset'[a] = IF a \in delivered THEN reset[a] + Booked(a) ELSE reset[a]
        /\ UNCHANGED <<sent, nsent>> /\ answered = {}
    BY <1>21, <2>1 DEF PersistOk, BookPayments
  <2>3. reset'[a] = reset[a] + InFlightAmount(a) /\ InFlightAmount(a)' = 0
    BY <1>21, <2>1, <2>2 DEF PersistOk
  <2> QED
    BY <2>1, <2>2, <2>3
<1>22. CASE PersistRetry
  BY <1>22 DEF PersistRetry, BookPayments, HasPaymentRow
<1>23. CASE PersistFails
  BY <1>23 DEF PersistFails
<1>24. CASE UNCHANGED vars
  BY <1>24 DEF vars
<1> QED
  BY <1>1, <1>2, <1>3, <1>4, <1>5, <1>6, <1>7, <1>8, <1>9, <1>10, <1>11, <1>12, <1>13, <1>14, <1>15, <1>16, <1>17, <1>18, <1>19, <1>20, <1>21, <1>22, <1>23, <1>24 DEF Next, Environment, PaymentTask

-----------------------------------------------------------------------------
(* The theorems *)

\* The inductive invariant holds initially.
LEMMA IInvInit == Init => IInv
BY TypeInit, BlocksInit, BooksInit, ShapeInit, BalancesInit, BookedOnceInit, SentInit
   DEF IInv

\* Every step keeps the inductive invariant.
LEMMA IInvStep == IInv /\ [Next]_vars => IInv'
BY TypeStep, BlocksStep, BooksStep, ShapeStep, BalancesStep, BookedOnceStep, SentStep
   DEF IInv

\* The inductive invariant holds in every reachable state.
THEOREM Invariance == Spec => []IInv
<1> QED
  BY IInvInit, IInvStep, PTL DEF Spec

\* PayoutManager credits every block exactly once, whatever fails.
THEOREM CreditedExactlyOnce == Spec => []CreditedOnce
<1>1. IInv => CreditedOnce
  BY DEF IInv, BlocksInv
<1> QED
  BY <1>1, Invariance, PTL

\* A confirmed block has matured.
THEOREM ConfirmedMature == Spec => []ConfirmedOnlyIfMature
<1>1. IInv => ConfirmedOnlyIfMature
  BY DEF IInv, BlocksInv
<1> QED
  BY <1>1, Invariance, PTL

\* balances, balance_changes and payments agree.
THEOREM BooksAlwaysAgree == Spec => []BooksAgree
<1>1. IInv => BooksAgree
  BY DEF IInv
<1> QED
  BY <1>1, Invariance, PTL

\* PersistPaymentsAsync never overdraws a balance unless it repeats a
\* transaction that had committed.
THEOREM NoOverdraft == Spec => []NeverOverdrawn
<1>1. IInv => NeverOverdrawn
  BY DEF IInv, BalancesInv
<1> QED
  BY <1>1, Invariance, PTL

\* Transfers and bookings differ by at most the number of incidents.
THEOREM BookedAtMostOnce == Spec => []BookedOnce
<1>1. IInv => BookedOnce
  BY DEF IInv
<1> QED
  BY <1>1, Invariance, PTL

\* Without an incident nobody is paid more than was credited, rounding aside.
LEMMA CoveredImpliesNoOverpayment == IInv => NoOverpayment
<1> SUFFICES ASSUME IInv, lost = 0, dup = 0, NEW a \in Addresses
             PROVE  2 * sent[a] <= 2 * credited[a] + Unit * nsent[a]
  BY DEF NoOverpayment
<1>1. /\ sent[a] \in Nat /\ reset[a] \in Nat /\ credited[a] \in Nat /\ balance[a] \in Int
      /\ nsent[a] \in Nat /\ owed[a] \in Nat /\ balance[a] = credited[a] - reset[a]
  BY DEF IInv, TypeOK, BooksAgree
<1>2. /\ nsent[a] = 0 => sent[a] = 0
      /\ BrokenSendMany => sent[a] = reset[a] + InFlightAmount(a)
      /\ 2 * sent[a] <= 2 * (reset[a] + InFlightAmount(a)) + Unit * nsent[a]
  BY DEF IInv, SentIsBooked
<1>3. a \in InMemory => owed[a] <= balance[a]
  BY DEF IInv, BalancesInv, AmountsAreCovered, PayoutShape, InMemory
<1>4. 2 * balance[a] >= -TwiceOverdraft
  BY DEF IInv, BalancesInv, NeverOverdrawn
<1>5. Unit * nsent[a] \in Nat
  BY <1>1, UnitAssumption
<1>6. CASE ~BrokenSendMany
  <2>1. InFlightAmount(a) \in Nat /\ InFlightAmount(a) <= balance[a]
    BY <1>1, <1>3, <1>4, <1>6 DEF InFlightAmount, Booked, TwiceOverdraft
  <2> QED
    BY <1>1, <1>2, <1>5, <2>1
<1>7. CASE BrokenSendMany
  <2>1. Round(owed[a]) \in Nat /\ 2 * Round(owed[a]) <= 2 * owed[a] + Unit
    BY <1>1, RoundBounds
  <2>2. InFlightAmount(a) \in Nat /\ 2 * InFlightAmount(a) <= 2 * balance[a] + Unit
    BY <1>1, <1>3, <1>4, <1>7, <2>1, UnitAssumption
       DEF InFlightAmount, Booked, TwiceOverdraft
  <2>3. 2 * sent[a] <= 2 * credited[a] + Unit
    BY <1>1, <1>2, <1>7, <2>2, UnitAssumption
  <2>4. nsent[a] # 0 => Unit * nsent[a] >= Unit
    BY <1>1, UnitAssumption
  <2>5. CASE nsent[a] = 0
    BY <1>1, <1>2, <1>5, <2>5
  <2>6. CASE nsent[a] # 0
    <3> DEFINE u == Unit * nsent[a]
    <3>1. u \in Nat /\ u >= Unit
      BY <1>5, <2>4, <2>6
    <3> HIDE DEF u
    <3>2. 2 * sent[a] <= 2 * credited[a] + u
      BY <1>1, <2>3, <3>1, UnitAssumption
    <3> QED
      BY <3>2 DEF u
  <2> QED
    BY <2>5, <2>6
<1> QED
  BY <1>6, <1>7

\* Without an incident no address receives more than its credits, beyond half a
\* payout unit per transfer (PayoutAsync).
THEOREM NobodyOverpaid == Spec => []NoOverpayment
<1> QED
  BY CoveredImpliesNoOverpayment, Invariance, PTL



-----------------------------------------------------------------------------
(* Action properties *)

\* Confirmed and orphaned are final.
THEOREM BlocksStaySettled == Spec => SettledForever
<1>1. IInv /\ [Next]_vars => Settled
  <2> SUFFICES ASSUME IInv, [Next]_vars PROVE Settled
    OBVIOUS
  <2> USE DEF Settled, IInv, TypeOK, BlocksInv, VerdictsAreFresh, Classified, daemon, db,
             memory, history
  <2>1. ASSUME NEW b \in Blocks, BlockFound(b) PROVE Settled
    BY <2>1 DEF BlockFound
  <2>2. ASSUME NEW b \in Blocks, UpdateBlock(b) PROVE Settled
    <3>1. verdict[b] # "skip" /\ status[b] = "pending"
      BY <2>2 DEF UpdateBlock, IsNextBlock
    <3>2. status' = [status EXCEPT ![b] = verdict[b]] /\ verdict[b] # "none"
      BY <2>2 DEF UpdateBlock, SettleBlock, MustCredit, Verdicts
    <3> QED
      BY <3>1, <3>2
  <2>3. CASE UNCHANGED status
    BY <2>3
  <2>4. UNCHANGED status \/ \E b \in Blocks : BlockFound(b) \/ UpdateBlock(b)
    BY DEF Next, Environment, PaymentTask, ChainSettles, ChainReorganises, WalletRelocks, SetMinerSettings,
           Crash, StartRun, ClassifyBlock, RunFails, ReadBalances, SendManyOk, SendManyLost,
           SendManyError, SendManyLocked, UnlockWallet, UnlockFails, SendToAddress,
           AddSuccess, SendEachDone, PersistOk, PersistRetry, PersistFails, BookPayments, vars
  <2> QED
    BY <2>1, <2>2, <2>3, <2>4
<1> QED
  BY <1>1, Invariance, PTL DEF Spec, SettledForever

\* Every transfer is worth the minimum payment, rounding aside.
THEOREM EveryTransferIsWorthIt == Spec => NoDustTransfer
<1>1. IInv /\ [Next]_vars => NotDust
  <2> SUFFICES ASSUME IInv, [Next]_vars PROVE NotDust
    OBVIOUS
  <2> USE DEF NotDust, IInv, TypeOK, BalancesInv, AmountsAreCovered, PayoutShape
  <2>1. ASSUME NEW S, Transfer(S), S \subseteq payees PROVE NotDust
    <3> SUFFICES ASSUME NEW a \in Addresses, nsent'[a] # nsent[a]
                 PROVE  2 * (sent'[a] - sent[a]) >= 2 * MinimumPayment - Unit
      OBVIOUS
    <3>1. a \in S /\ sent'[a] = sent[a] + Round(owed[a])
      BY <2>1 DEF Transfer
    <3>2. owed[a] \in Nat /\ owed[a] >= MinimumPayment /\ sent[a] \in Nat
      BY <2>1, <3>1
    <3>3. Round(owed[a]) \in Nat /\ 2 * Round(owed[a]) >= 2 * owed[a] - Unit
      BY <3>2, RoundBounds
    <3> QED
      BY <3>1, <3>2, <3>3, ThresholdAssumption, UnitAssumption
  <2>2. CASE SendManyOk \/ SendManyLost
    BY <2>1, <2>2 DEF SendManyOk, SendManyLost
  <2>3. ASSUME NEW a \in Addresses, SendToAddress(a) PROVE NotDust
    <3>1. {a} \subseteq payees
      BY <2>3 DEF SendToAddress
    <3> QED
      BY <2>1, <2>3, <3>1 DEF SendToAddress
  <2>4. CASE UNCHANGED nsent
    BY <2>4
  <2>5. \/ UNCHANGED nsent
        \/ SendManyOk \/ SendManyLost \/ \E a \in Addresses : SendToAddress(a)
    BY DEF Next, Environment, PaymentTask, BlockFound, ChainSettles, ChainReorganises, WalletRelocks,
           SetMinerSettings, Crash, StartRun, ClassifyBlock, UpdateBlock, RunFails,
           ReadBalances, SendManyError, SendManyLocked, UnlockWallet, UnlockFails,
           AddSuccess, SendEachDone, PersistOk, PersistRetry, PersistFails, vars, history
  <2> QED
    BY <2>2, <2>3, <2>4, <2>5
<1> QED
  BY <1>1, Invariance, PTL DEF Spec, NoDustTransfer

-----------------------------------------------------------------------------
(* Refinement *)

\* A committed block transaction is a confirmation or an orphaning of the
\* ledger, or leaves the ledger alone.
LEMMA SettleRefines ==
    ASSUME IInv, NEW b \in Blocks, UpdateBlock(b)
    PROVE  Ledger!Orphan(b) \/ Ledger!Confirm(b) \/ UNCHANGED Ledger!ledger
<1> USE DEF IInv, TypeOK, BlocksInv, VerdictsAreFresh, Classified
<1>1. verdict[b] # "skip" /\ status[b] = "pending"
  BY DEF UpdateBlock, IsNextBlock
<1>2. status' = [status EXCEPT ![b] = verdict[b]] /\ UNCHANGED reset
  BY DEF UpdateBlock, SettleBlock, MustCredit
<1>3. CASE verdict[b] = "confirmed"
  <2>1. PICK d \in SchemeCredits(b) :
          /\ balance' = [a \in Addresses |-> balance[a] + Credit(b, d, a)]
          /\ credited' = [a \in Addresses |-> credited[a] + Credit(b, d, a)]
    BY <1>3 DEF UpdateBlock, SettleBlock, MustCredit
  <2>2. \A a \in Addresses : Credit(b, d, a) \in Nat
    BY CreditIsNat
  <2>3. \A a \in Addresses :
          credited'[a] >= credited[a] /\ Credit(b, d, a) = credited'[a] - credited[a]
    BY <2>1, <2>2
  <2>4. balance' = [a \in Addresses |-> balance[a] + (credited'[a] - credited[a])]
    BY <2>1, <2>3
  <2> QED
    BY <1>1, <1>2, <1>3, <2>3, <2>4 DEF Ledger!Confirm
<1>4. CASE verdict[b] # "confirmed"
  <2>1. UNCHANGED <<balance, credited>>
    BY <1>4 DEF UpdateBlock, SettleBlock, MustCredit
  <2>2. CASE verdict[b] = "orphaned"
    BY <1>1, <1>2, <2>1, <2>2 DEF Ledger!Orphan
  <2>3. CASE verdict[b] = "pending"
    <3>1. status' = status
      BY <1>1, <1>2, <2>3
    <3> QED
      BY <1>2, <2>1, <3>1 DEF Ledger!ledger
  <2> QED
    BY <1>1, <1>4, <2>2, <2>3 DEF Verdicts
<1> QED
  BY <1>3, <1>4

\* A committed booking is a withdrawal of the ledger.
LEMMA BookingRefines ==
    ASSUME IInv, pc = "persist", dup = 0, BookPayments
    PROVE  Ledger!Withdraw
<1> USE DEF IInv, TypeOK
<1> DEFINE amt(a) == IF a \in delivered THEN Booked(a) ELSE 0
<1>1. \A a \in Addresses : Booked(a) \in Nat
  BY BookedIsNat
<1>2. /\ balance' = [a \in Addresses |-> balance[a] - amt(a)]
      /\ reset' = [a \in Addresses |-> reset[a] + amt(a)]
      /\ UNCHANGED <<status, credited>>
  BY DEF BookPayments
<1>3. \A a \in Addresses : amt(a) \in Nat
  BY <1>1
<1> HIDE DEF amt
<1>4. \A a \in Addresses : reset'[a] - reset[a] = amt(a) /\ reset'[a] >= reset[a]
  BY <1>2, <1>3
<1>5. balance' = [a \in Addresses |-> balance[a] - (reset'[a] - reset[a])]
  BY <1>2, <1>4
<1>6. ASSUME NEW a \in Addresses, reset'[a] > reset[a]
      PROVE  balance[a] > 0 /\ 2 * balance'[a] >= -TwiceOverdraft
  <2>1. a \in delivered /\ amt(a) = Booked(a)
    BY <1>2, <1>3, <1>6 DEF amt
  <2>2. /\ owed[a] \in Nat /\ balance[a] \in Int /\ owed[a] >= MinimumPayment
        /\ owed[a] <= balance[a]
    BY <2>1 DEF PayoutShape, BalancesInv, AmountsAreCovered
  <2>3. 2 * Booked(a) <= 2 * owed[a] + TwiceOverdraft /\ TwiceOverdraft \in Nat
    BY <2>2, RoundBounds, UnitAssumption DEF Booked, TwiceOverdraft
  <2>4. balance'[a] = balance[a] - Booked(a)
    BY <1>2, <2>1
  <2> QED
    BY <1>1, <2>2, <2>3, <2>4, ThresholdAssumption
<1> QED
  BY <1>2, <1>4, <1>5, <1>6 DEF Ledger!Withdraw

\* PayoutManager and the payout handler implement the ledger, for any number of
\* crashes, lost answers and retries, provided that no transaction is retried
\* that had committed.
THEOREM PayoutImplementsLedger ==
    ASSUME MaxDup = 0
    PROVE  Spec => ImplementsLedger
<1>1. Init => Ledger!Init
  BY DEF Init, Ledger!Init, Zero, Ledger!Zeros
<1>2. IInv /\ [Next]_vars => [Ledger!Next]_(Ledger!ledger)
  <2> SUFFICES ASSUME IInv, [Next]_vars
               PROVE  Ledger!Next \/ UNCHANGED Ledger!ledger
    OBVIOUS
  <2>1. ASSUME NEW b \in Blocks, BlockFound(b) PROVE Ledger!Find(b)
    BY <2>1 DEF BlockFound, Ledger!Find
  <2>2. ASSUME NEW b \in Blocks, UpdateBlock(b)
        PROVE  Ledger!Orphan(b) \/ Ledger!Confirm(b) \/ UNCHANGED Ledger!ledger
    BY <2>2, SettleRefines
  <2>3. dup = 0
    BY DEF IInv, TypeOK
  <2>4. CASE PersistOk
    BY <2>3, <2>4, BookingRefines DEF PersistOk, Ledger!Next
  <2>5. CASE PersistRetry
    <3>1. UNCHANGED db
      BY <2>3, <2>5 DEF PersistRetry
    <3> QED
      BY <3>1 DEF db, Ledger!ledger
  <2>6. CASE UNCHANGED <<status, balance, credited, reset>>
    BY <2>6 DEF Ledger!ledger
  <2>7. \/ UNCHANGED <<status, balance, credited, reset>>
        \/ \E b \in Blocks : BlockFound(b) \/ UpdateBlock(b)
        \/ PersistOk \/ PersistRetry
    BY DEF Next, Environment, PaymentTask, ChainSettles, ChainReorganises, WalletRelocks, SetMinerSettings,
           Crash, StartRun, ClassifyBlock, RunFails, ReadBalances, SendManyOk, SendManyLost,
           SendManyError, SendManyLocked, UnlockWallet, UnlockFails, SendToAddress,
           AddSuccess, SendEachDone, PersistFails, vars, db
  <2> QED
    BY <2>1, <2>2, <2>4, <2>5, <2>6, <2>7 DEF Ledger!Next
<1> QED
  BY <1>1, <1>2, Invariance, PTL DEF Spec, ImplementsLedger, Ledger!Spec

=============================================================================
