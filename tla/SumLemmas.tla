----------------------------- MODULE SumLemmas -----------------------------
(***************************************************************************)
(* Induction, and what SumFunctionOnSet computes: the facts about sums     *)
(* that the proofs about the payout schemes rest on.  Induction is stated  *)
(* over sets of numbers and sets of sets, the form in which the provers    *)
(* can use it.                                                             *)
(***************************************************************************)
EXTENDS Integers, FiniteSets, Functions, FiniteSetTheorems, WellFoundedInduction, TLAPS

\* A set of numbers that has 0 and every successor has all of them.
LEMMA NatSetInduction ==
    ASSUME NEW N, 0 \in N, \A n \in Nat : n \in N => n + 1 \in N
    PROVE  \A n \in Nat : n \in N
<1> DEFINE T == Nat \ N
           R == OpToRel(<, Nat)
<1> SUFFICES ASSUME T # {} PROVE FALSE
  OBVIOUS
<1>1. IsWellFoundedOn(R, Nat)
  BY NatLessThanWellFounded, Zenon
<1>2. T \subseteq Nat
  OBVIOUS
<1>h. HIDE DEF T, R
<1>3. PICK x \in T : \A y \in T : ~(<<y, x>> \in R)
  BY <1>1, <1>2, WFMin, Zenon
<1>4. x \in Nat /\ x \notin N /\ x # 0
  BY DEF T
<1>5. x - 1 \in Nat /\ (x - 1) + 1 = x
  BY <1>4
<1>6. x - 1 \in T
  BY <1>4, <1>5 DEF T
<1>7. <<x - 1, x>> \in R
  BY <1>4, <1>5 DEF OpToRel, R
<1> QED
  BY <1>3, <1>6, <1>7

\* A set of sets that has {} and whatever one more element of D makes of a member has every
\* subset of a finite D.
LEMMA SubsetInduction ==
    ASSUME NEW D, IsFiniteSet(D), NEW Q, {} \in Q,
           \A T \in SUBSET D, x \in D : T \in Q /\ x \notin T => T \cup {x} \in Q
    PROVE  \A T \in SUBSET D : T \in Q
<1> DEFINE N == {n \in Nat : \A T \in SUBSET D : Cardinality(T) = n => T \in Q}
<1>1. \A T \in SUBSET D : IsFiniteSet(T) /\ Cardinality(T) \in Nat
  BY FS_Subset, FS_CardinalityType
<1>2. 0 \in N
  BY <1>1, FS_EmptySet
<1>3. ASSUME NEW n \in Nat, n \in N PROVE n + 1 \in N
  <2> SUFFICES ASSUME NEW T \in SUBSET D, Cardinality(T) = n + 1 PROVE T \in Q
    OBVIOUS
  <2>1. T # {}
    BY FS_EmptySet
  <2>2. PICK x \in T : TRUE
    BY <2>1
  <2>3. Cardinality(T \ {x}) = n
    <3>1. Cardinality(T \ {x}) = Cardinality(T) - 1
      BY <1>1, <2>2, FS_RemoveElement
    <3> QED
      BY <3>1
  <2>4. T \ {x} \in SUBSET D /\ T \ {x} \in Q
    BY <1>3, <2>3
  <2>5. (T \ {x}) \cup {x} \in Q
    BY <2>2, <2>4
  <2> QED
    BY <2>2, <2>5
<1>h. HIDE DEF N
<1>4. \A n \in Nat : n \in N
  BY <1>2, <1>3, NatSetInduction
<1> QED
  BY <1>1, <1>4 DEF N

-----------------------------------------------------------------------------
(* The recursive function inside SumFunctionOnSet *)

Pick(T) == CHOOSE x \in T : TRUE

IsSum(G, f, D) == G = [T \in SUBSET D |-> IF T = {} THEN 0 ELSE f[Pick(T)] + G[T \ {Pick(T)}]]

\* SumFunctionOnSet is the value of such a function.
LEMMA SumIsChosen ==
    ASSUME NEW f, NEW D
    PROVE  SumFunctionOnSet(f, D) = (CHOOSE G : IsSum(G, f, D))[D]
BY DEF SumFunctionOnSet, FoldFunctionOnSet, MapThenFoldSet, IsSum, Pick

\* A nonempty set without the element picked is smaller.
LEMMA PickSmaller ==
    ASSUME NEW D, IsFiniteSet(D), NEW T \in SUBSET D, T # {}
    PROVE  /\ Pick(T) \in T /\ T \ {Pick(T)} \in SUBSET D
           /\ Cardinality(T) \in Nat /\ Cardinality(T) # 0
           /\ Cardinality(T \ {Pick(T)}) = Cardinality(T) - 1
<1>1. Pick(T) \in T
  BY DEF Pick
<1>2. IsFiniteSet(T)
  BY FS_Subset
<1> QED
  BY <1>1, <1>2, FS_RemoveElement, FS_CardinalityType, FS_EmptySet

\* For a finite set such a function exists: it is built up by cardinality.
LEMMA SumExists ==
    ASSUME NEW D, IsFiniteSet(D), NEW f
    PROVE  \E G : IsSum(G, f, D)
<1> DEFINE Rec(G, T) == IF T = {} THEN 0 ELSE f[Pick(T)] + G[T \ {Pick(T)}]
           UpTo(G, n) == \A T \in SUBSET D : Cardinality(T) <= n => G[T] = Rec(G, T)
           N == {n \in Nat : \E G : G = [T \in SUBSET D |-> G[T]] /\ UpTo(G, n)}
<1>0. \A T \in SUBSET D : IsFiniteSet(T) /\ Cardinality(T) \in Nat /\ (Cardinality(T) = 0 <=> T = {})
  BY FS_Subset, FS_CardinalityType, FS_EmptySet
<1>1. 0 \in N
  <2> DEFINE G == [T \in SUBSET D |-> 0]
  <2>1. UpTo(G, 0)
    BY <1>0
  <2>2. G = [T \in SUBSET D |-> G[T]]
    OBVIOUS
  <2>h. HIDE DEF G, UpTo
  <2> QED
    BY <2>1, <2>2
<1>2. ASSUME NEW n \in Nat, n \in N PROVE n + 1 \in N
  <2>1. PICK G : G = [T \in SUBSET D |-> G[T]] /\ UpTo(G, n)
    BY <1>2
  <2> DEFINE H == [T \in SUBSET D |-> IF Cardinality(T) = n + 1 THEN Rec(G, T) ELSE G[T]]
  <2>2. ASSUME NEW T \in SUBSET D, Cardinality(T) <= n + 1 PROVE H[T] = Rec(H, T)
    <3>1. CASE T = {}
      <4>1. Cardinality(T) = 0 /\ Cardinality(T) <= n /\ Cardinality(T) # n + 1
        BY <1>0, <3>1
      <4> QED
        BY <2>1, <3>1, <4>1
    <3>2. CASE T # {}
      <4> DEFINE U == T \ {Pick(T)}
      <4>1. U \in SUBSET D /\ Cardinality(U) = Cardinality(T) - 1 /\ Cardinality(T) \in Nat
        BY <3>2, PickSmaller
      <4>2. Cardinality(U) # n + 1
        BY <2>2, <4>1
      <4>3. H[U] = G[U]
        BY <4>1, <4>2
      <4>4. Rec(H, T) = Rec(G, T)
        BY <3>2, <4>3
      <4>5. CASE Cardinality(T) = n + 1
        BY <4>4, <4>5
      <4>6. CASE Cardinality(T) # n + 1
        <5>1. Cardinality(T) <= n
          BY <2>2, <4>1, <4>6
        <5>2. H[T] = G[T] /\ G[T] = Rec(G, T)
          BY <2>1, <4>6, <5>1
        <5> QED
          BY <4>4, <5>2
      <4> QED
        BY <4>5, <4>6
    <3> QED
      BY <3>1, <3>2
  <2>3. UpTo(H, n + 1)
    BY <2>2
  <2>4. H = [T \in SUBSET D |-> H[T]]
    OBVIOUS
  <2>h. HIDE DEF H, UpTo
  <2> QED
    BY <2>3, <2>4
<1>h. HIDE DEF N
<1>3. \A n \in Nat : n \in N
  BY <1>1, <1>2, NatSetInduction
<1>4. Cardinality(D) \in N
  BY <1>0, <1>3
<1>5. PICK G : G = [T \in SUBSET D |-> G[T]] /\ UpTo(G, Cardinality(D))
  BY <1>4 DEF N
<1>6. \A T \in SUBSET D : G[T] = Rec(G, T)
  BY <1>5, FS_Subset
<1>7. G = [T \in SUBSET D |-> Rec(G, T)]
  BY <1>5, <1>6
<1> QED
  BY <1>7 DEF IsSum

\* On the subsets they share, two such functions agree.
LEMMA SumUnique ==
    ASSUME NEW D, IsFiniteSet(D), NEW E \in SUBSET D, NEW f, NEW G, NEW H, IsSum(G, f, D), IsSum(H, f, E)
    PROVE  \A T \in SUBSET E : G[T] = H[T]
<1> DEFINE N == {n \in Nat : \A T \in SUBSET E : Cardinality(T) = n => G[T] = H[T]}
<1>0. \A T \in SUBSET E : IsFiniteSet(T) /\ Cardinality(T) \in Nat /\ (Cardinality(T) = 0 <=> T = {})
  BY FS_Subset, FS_CardinalityType, FS_EmptySet
<1>1. ASSUME NEW T \in SUBSET E
      PROVE  /\ G[T] = IF T = {} THEN 0 ELSE f[Pick(T)] + G[T \ {Pick(T)}]
             /\ H[T] = IF T = {} THEN 0 ELSE f[Pick(T)] + H[T \ {Pick(T)}]
  <2>1. T \in SUBSET D
    OBVIOUS
  <2> QED
    BY <2>1 DEF IsSum
<1>2. 0 \in N
  BY <1>0, <1>1
<1>3. ASSUME NEW n \in Nat, n \in N PROVE n + 1 \in N
  <2> SUFFICES ASSUME NEW T \in SUBSET E, Cardinality(T) = n + 1 PROVE G[T] = H[T]
    OBVIOUS
  <2>1. T # {}
    BY <1>0
  <2>2. T \ {Pick(T)} \in SUBSET E /\ Cardinality(T \ {Pick(T)}) = n
    <3>1. IsFiniteSet(E)
      BY FS_Subset
    <3>2. T \ {Pick(T)} \in SUBSET E /\ Cardinality(T \ {Pick(T)}) = Cardinality(T) - 1
      BY <2>1, <3>1, PickSmaller
    <3> QED
      BY <3>2
  <2>3. G[T \ {Pick(T)}] = H[T \ {Pick(T)}]
    BY <1>3, <2>2
  <2> QED
    BY <1>1, <2>1, <2>3
<1>h. HIDE DEF N
<1>4. \A n \in Nat : n \in N
  BY <1>2, <1>3, NatSetInduction
<1> QED
  BY <1>0, <1>4 DEF N

-----------------------------------------------------------------------------
(* Laws of sums *)

\* The sum over {} and the step of the recursion.
LEMMA SumUnfold ==
    ASSUME NEW D, IsFiniteSet(D), NEW f
    PROVE  SumFunctionOnSet(f, D) =
             IF D = {} THEN 0 ELSE f[Pick(D)] + SumFunctionOnSet(f, D \ {Pick(D)})
<1> DEFINE G == CHOOSE g : IsSum(g, f, D)
           E == D \ {Pick(D)}
           H == CHOOSE g : IsSum(g, f, E)
<1>1. E \in SUBSET D /\ IsFiniteSet(E)
  BY FS_Subset
<1>2. IsSum(G, f, D)
  BY SumExists
<1>3. IsSum(H, f, E)
  BY <1>1, SumExists
<1>4. SumFunctionOnSet(f, D) = G[D] /\ SumFunctionOnSet(f, E) = H[E]
  BY SumIsChosen
<1>h. HIDE DEF G, H, E
<1>5. G[E] = H[E]
  BY <1>1, <1>2, <1>3, SumUnique
<1>6. G[D] = IF D = {} THEN 0 ELSE f[Pick(D)] + G[E]
  BY <1>2 DEF IsSum, E
<1> QED
  BY <1>4, <1>5, <1>6 DEF E

\* Induction along the recursion.
LEMMA PickInduction ==
    ASSUME NEW D, IsFiniteSet(D), NEW Q, {} \in Q,
           \A T \in SUBSET D : T # {} /\ T \ {Pick(T)} \in Q => T \in Q
    PROVE  \A T \in SUBSET D : T \in Q
<1> DEFINE N == {n \in Nat : \A T \in SUBSET D : Cardinality(T) = n => T \in Q}
<1>0. \A T \in SUBSET D : IsFiniteSet(T) /\ Cardinality(T) \in Nat /\ (Cardinality(T) = 0 <=> T = {})
  BY FS_Subset, FS_CardinalityType, FS_EmptySet
<1>1. 0 \in N
  BY <1>0
<1>2. ASSUME NEW n \in Nat, n \in N PROVE n + 1 \in N
  <2> SUFFICES ASSUME NEW T \in SUBSET D, Cardinality(T) = n + 1 PROVE T \in Q
    OBVIOUS
  <2>1. T # {}
    BY <1>0
  <2>2. T \ {Pick(T)} \in SUBSET D /\ Cardinality(T \ {Pick(T)}) = n
    <3>1. T \ {Pick(T)} \in SUBSET D /\ Cardinality(T \ {Pick(T)}) = Cardinality(T) - 1
      BY <2>1, PickSmaller
    <3> QED
      BY <3>1
  <2> QED
    BY <1>2, <2>1, <2>2
<1>h. HIDE DEF N
<1>3. \A n \in Nat : n \in N
  BY <1>1, <1>2, NatSetInduction
<1> QED
  BY <1>0, <1>3 DEF N

\* The sum over no elements.
LEMMA SumEmpty == ASSUME NEW f PROVE SumFunctionOnSet(f, {}) = 0
BY SumUnfold, FS_EmptySet

\* The sum of integers is an integer.
LEMMA SumInt ==
    ASSUME NEW D, IsFiniteSet(D), NEW f, \A x \in D : f[x] \in Int
    PROVE  \A T \in SUBSET D : SumFunctionOnSet(f, T) \in Int
<1> DEFINE Q == {T \in SUBSET D : SumFunctionOnSet(f, T) \in Int}
<1>1. {} \in Q
  BY SumEmpty
<1>2. ASSUME NEW T \in SUBSET D, T # {}, T \ {Pick(T)} \in Q PROVE T \in Q
  <2>1. Pick(T) \in D
    BY <1>2, PickSmaller
  <2>2. SumFunctionOnSet(f, T) = f[Pick(T)] + SumFunctionOnSet(f, T \ {Pick(T)})
    BY <1>2, SumUnfold, FS_Subset
  <2> QED
    BY <1>2, <2>1, <2>2
<1>h. HIDE DEF Q
<1>3. \A T \in SUBSET D : T \in Q
  BY <1>1, <1>2, PickInduction
<1> QED
  BY <1>3 DEF Q

\* One more element adds its value, whichever order the recursion takes.
LEMMA SumInsert ==
    ASSUME NEW D, IsFiniteSet(D), NEW f, \A x \in D : f[x] \in Int,
           NEW S \in SUBSET D, NEW a \in D, a \notin S
    PROVE  SumFunctionOnSet(f, S \cup {a}) = SumFunctionOnSet(f, S) + f[a]
<1> DEFINE Sum(T) == SumFunctionOnSet(f, T)
           N == {n \in Nat : \A T \in SUBSET D, x \in D :
                   Cardinality(T) = n /\ x \notin T => Sum(T \cup {x}) = Sum(T) + f[x]}
<1>0. \A T \in SUBSET D : IsFiniteSet(T) /\ Cardinality(T) \in Nat /\ (Cardinality(T) = 0 <=> T = {})
  BY FS_Subset, FS_CardinalityType, FS_EmptySet
<1>i. \A T \in SUBSET D : Sum(T) \in Int
  BY SumInt
<1>u. \A T \in SUBSET D : T # {} => Sum(T) = f[Pick(T)] + Sum(T \ {Pick(T)})
  BY <1>0, SumUnfold
<1>p. \A T : T # {} => Pick(T) \in T
  BY DEF Pick
<1>h. HIDE DEF Sum
<1>s. ASSUME NEW n \in Nat, \A k \in Nat : k + 1 = n => k \in N,
             NEW T \in SUBSET D, NEW x \in D, Cardinality(T) = n, x \notin T
      PROVE  Sum(T \cup {x}) = Sum(T) + f[x]
  <2> DEFINE U == T \cup {x}
             c == Pick(U)
  <2>1. U \in SUBSET D /\ c \in U /\ Sum(U) = f[c] + Sum(U \ {c})
    BY <1>u, <1>p
  <2>h. HIDE DEF c
  <2>2. CASE c = x
    <3>1. U \ {c} = T
      BY <1>s, <2>2
    <3>2. Sum(T) \in Int /\ f[x] \in Int
      BY <1>i, <1>s
    <3>3. Sum(U) = f[x] + Sum(T)
      BY <2>1, <2>2, <3>1
    <3> HIDE DEF U
    <3>4. Sum(U) = Sum(T) + f[x]
      BY <3>2, <3>3
    <3> QED
      BY <3>4 DEF U
  <2>3. CASE c # x
    <3>1. c \in T /\ c \in D /\ T \ {c} \in SUBSET D /\ U \ {c} = (T \ {c}) \cup {x} /\ x \notin T \ {c}
      BY <1>s, <2>1, <2>3
    <3>2. Cardinality(T \ {c}) = n - 1 /\ n - 1 \in Nat
      <4>1. Cardinality(T \ {c}) = Cardinality(T) - 1 /\ Cardinality(T) # 0
        BY <1>0, <3>1, FS_RemoveElement
      <4> QED
        BY <1>s, <4>1
    <3>3. n - 1 \in N
      BY <1>s, <3>2
    <3>4. Sum((T \ {c}) \cup {x}) = Sum(T \ {c}) + f[x]
      BY <3>1, <3>2, <3>3
    <3>5. Sum((T \ {c}) \cup {c}) = Sum(T \ {c}) + f[c]
      BY <3>1, <3>2, <3>3
    <3>6. (T \ {c}) \cup {c} = T
      BY <3>1
    <3>7. Sum(T) = Sum(T \ {c}) + f[c] /\ Sum(U) = f[c] + (Sum(T \ {c}) + f[x])
      BY <2>1, <3>1, <3>4, <3>5, <3>6
    <3>8. Sum(T \ {c}) \in Int /\ f[c] \in Int /\ f[x] \in Int
      BY <1>i, <3>1
    <3> QED
      BY <3>7, <3>8
  <2> QED
    BY <2>2, <2>3
<1>1. 0 \in N
  <2>1. ASSUME NEW T \in SUBSET D, NEW x \in D, Cardinality(T) = 0, x \notin T
        PROVE  Sum(T \cup {x}) = Sum(T) + f[x]
    BY <1>s, <2>1
  <2> QED
    BY <2>1
<1>2. ASSUME NEW n \in Nat, n \in N PROVE n + 1 \in N
  <2>1. \A k \in Nat : k + 1 = n + 1 => k \in N
    BY <1>2
  <2>2. ASSUME NEW T \in SUBSET D, NEW x \in D, Cardinality(T) = n + 1, x \notin T
        PROVE  Sum(T \cup {x}) = Sum(T) + f[x]
    <3>h. HIDE DEF N
    <3> QED
      BY <1>s, <2>1, <2>2
  <2> QED
    BY <2>2
<1>3. \A n \in Nat : n \in N
  <2>h. HIDE DEF N
  <2> QED
    BY <1>1, <1>2, NatSetInduction
<1>4. Sum(S \cup {a}) = Sum(S) + f[a]
  BY <1>0, <1>3
<1> QED
  BY <1>4 DEF Sum

\* Equal values have equal sums.
LEMMA SumEqual ==
    ASSUME NEW D, IsFiniteSet(D), NEW f, NEW g, \A x \in D : f[x] = g[x]
    PROVE  SumFunctionOnSet(f, D) = SumFunctionOnSet(g, D)
<1> DEFINE Q == {T \in SUBSET D : SumFunctionOnSet(f, T) = SumFunctionOnSet(g, T)}
<1>1. {} \in Q
  BY SumEmpty
<1>2. ASSUME NEW T \in SUBSET D, T # {}, T \ {Pick(T)} \in Q PROVE T \in Q
  <2>1. Pick(T) \in D
    BY <1>2, PickSmaller
  <2>2. /\ SumFunctionOnSet(f, T) = f[Pick(T)] + SumFunctionOnSet(f, T \ {Pick(T)})
        /\ SumFunctionOnSet(g, T) = g[Pick(T)] + SumFunctionOnSet(g, T \ {Pick(T)})
    BY <1>2, SumUnfold, FS_Subset
  <2> QED
    BY <1>2, <2>1, <2>2
<1>h. HIDE DEF Q
<1>3. \A T \in SUBSET D : T \in Q
  BY <1>1, <1>2, PickInduction
<1> QED
  BY <1>3 DEF Q

\* Larger values have a larger sum.
LEMMA SumMonotone ==
    ASSUME NEW D, IsFiniteSet(D), NEW f, NEW g, \A x \in D : f[x] \in Int /\ g[x] \in Int /\ f[x] <= g[x]
    PROVE  SumFunctionOnSet(f, D) <= SumFunctionOnSet(g, D)
<1> DEFINE Q == {T \in SUBSET D : SumFunctionOnSet(f, T) <= SumFunctionOnSet(g, T)}
<1>1. {} \in Q
  BY SumEmpty
<1>2. ASSUME NEW T \in SUBSET D, T # {}, T \ {Pick(T)} \in Q PROVE T \in Q
  <2>1. Pick(T) \in D /\ T \ {Pick(T)} \in SUBSET D
    BY <1>2, PickSmaller
  <2>2. /\ SumFunctionOnSet(f, T) = f[Pick(T)] + SumFunctionOnSet(f, T \ {Pick(T)})
        /\ SumFunctionOnSet(g, T) = g[Pick(T)] + SumFunctionOnSet(g, T \ {Pick(T)})
    BY <1>2, SumUnfold, FS_Subset
  <2>3. SumFunctionOnSet(f, T \ {Pick(T)}) \in Int /\ SumFunctionOnSet(g, T \ {Pick(T)}) \in Int
    BY <2>1, SumInt
  <2> QED
    BY <1>2, <2>1, <2>2, <2>3
<1>h. HIDE DEF Q
<1>3. \A T \in SUBSET D : T \in Q
  BY <1>1, <1>2, PickInduction
<1> QED
  BY <1>3 DEF Q

\* The sum of multiples is the multiple of the sum.
LEMMA SumScaled ==
    ASSUME NEW D, IsFiniteSet(D), NEW f, NEW g, NEW k \in Int,
           \A x \in D : f[x] \in Int /\ g[x] = k * f[x]
    PROVE  SumFunctionOnSet(g, D) = k * SumFunctionOnSet(f, D)
<1> DEFINE Q == {T \in SUBSET D : SumFunctionOnSet(g, T) = k * SumFunctionOnSet(f, T)}
<1>1. {} \in Q
  BY SumEmpty
<1>2. ASSUME NEW T \in SUBSET D, T # {}, T \ {Pick(T)} \in Q PROVE T \in Q
  <2>1. Pick(T) \in D /\ T \ {Pick(T)} \in SUBSET D
    BY <1>2, PickSmaller
  <2>2. /\ SumFunctionOnSet(f, T) = f[Pick(T)] + SumFunctionOnSet(f, T \ {Pick(T)})
        /\ SumFunctionOnSet(g, T) = g[Pick(T)] + SumFunctionOnSet(g, T \ {Pick(T)})
    BY <1>2, SumUnfold, FS_Subset
  <2>3. SumFunctionOnSet(f, T \ {Pick(T)}) \in Int
    BY <2>1, SumInt
  <2>4. ASSUME NEW u \in Int, NEW v \in Int PROVE k * u + k * v = k * (u + v)
    OBVIOUS
  <2> QED
    BY <1>2, <2>1, <2>2, <2>3, <2>4
<1>h. HIDE DEF Q
<1>3. \A T \in SUBSET D : T \in Q
  BY <1>1, <1>2, PickInduction
<1> QED
  BY <1>3 DEF Q

\* A change of one value changes the sum by as much.
LEMMA SumUpdate ==
    ASSUME NEW D, IsFiniteSet(D), NEW f, NEW g, NEW a \in D,
           \A x \in D : f[x] \in Int /\ g[x] \in Int, \A x \in D : x # a => g[x] = f[x]
    PROVE  SumFunctionOnSet(g, D) = SumFunctionOnSet(f, D) + (g[a] - f[a])
<1> DEFINE E == D \ {a}
<1>1. E \in SUBSET D /\ IsFiniteSet(E) /\ E \cup {a} = D /\ a \notin E
  BY FS_Subset
<1>h. HIDE DEF E
<1>2. SumFunctionOnSet(f, E) = SumFunctionOnSet(g, E)
  BY <1>1, SumEqual
<1>3. /\ SumFunctionOnSet(f, D) = SumFunctionOnSet(f, E) + f[a]
      /\ SumFunctionOnSet(g, D) = SumFunctionOnSet(g, E) + g[a]
  BY <1>1, SumInsert
<1>4. SumFunctionOnSet(f, E) \in Int
  BY <1>1, SumInt
<1> QED
  BY <1>2, <1>3, <1>4

\* Natural numbers: a sum over fewer elements is no larger.
LEMMA SumOfSubset ==
    ASSUME NEW D, IsFiniteSet(D), NEW f, \A x \in D : f[x] \in Nat, NEW S \in SUBSET D
    PROVE  /\ SumFunctionOnSet(f, S) \in Nat /\ SumFunctionOnSet(f, D) \in Nat
           /\ SumFunctionOnSet(f, S) <= SumFunctionOnSet(f, D)
<1> DEFINE Q == {T \in SUBSET D : /\ SumFunctionOnSet(f, S \cap T) \in Nat
                                  /\ SumFunctionOnSet(f, T) \in Nat
                                  /\ SumFunctionOnSet(f, S \cap T) <= SumFunctionOnSet(f, T)}
<1>1. {} \in Q
  <2>1. S \cap {} = {}
    OBVIOUS
  <2> QED
    BY <2>1, SumEmpty
<1>2. ASSUME NEW T \in SUBSET D, NEW x \in D, T \in Q, x \notin T PROVE T \cup {x} \in Q
  <2>1. SumFunctionOnSet(f, T \cup {x}) = SumFunctionOnSet(f, T) + f[x]
    BY <1>2, SumInsert
  <2>2. CASE x \in S
    <3>1. S \cap (T \cup {x}) = (S \cap T) \cup {x} /\ x \notin S \cap T /\ S \cap T \in SUBSET D
      BY <1>2, <2>2
    <3>2. SumFunctionOnSet(f, (S \cap T) \cup {x}) = SumFunctionOnSet(f, S \cap T) + f[x]
      BY <3>1, SumInsert
    <3> QED
      BY <1>2, <2>1, <3>1, <3>2
  <2>3. CASE x \notin S
    <3>1. S \cap (T \cup {x}) = S \cap T
      BY <1>2, <2>3
    <3> QED
      BY <1>2, <2>1, <3>1
  <2> QED
    BY <2>2, <2>3
<1>h. HIDE DEF Q
<1>3. \A T \in SUBSET D : T \in Q
  BY <1>1, <1>2, SubsetInduction
<1>4. D \in Q /\ S \cap D = S
  BY <1>3
<1> QED
  BY <1>4 DEF Q

\* Zeros add up to zero.
LEMMA SumZero ==
    ASSUME NEW D, IsFiniteSet(D), NEW f, \A x \in D : f[x] = 0
    PROVE  SumFunctionOnSet(f, D) = 0
<1>1. \A x \in D : f[x] \in Int /\ f[x] = 0 * f[x]
  OBVIOUS
<1>2. SumFunctionOnSet(f, D) = 0 * SumFunctionOnSet(f, D)
  BY <1>1, SumScaled
<1>3. SumFunctionOnSet(f, D) \in Int
  BY <1>1, SumInt
<1> QED
  BY <1>2, <1>3

\* Elements whose value is zero do not count.
LEMMA SumZeroOutside ==
    ASSUME NEW D, IsFiniteSet(D), NEW f, \A x \in D : f[x] \in Int,
           NEW S \in SUBSET D, \A x \in D \ S : f[x] = 0
    PROVE  SumFunctionOnSet(f, D) = SumFunctionOnSet(f, S)
<1> DEFINE E == D \ S
           Sum(T) == SumFunctionOnSet(f, T)
           G == {T \in SUBSET E : Sum(S \cup T) = Sum(S)}
<1>1. IsFiniteSet(E) /\ E \in SUBSET E
  BY FS_Subset
<1>2. \A T \in SUBSET D : Sum(T) \in Int
  BY SumInt
<1>3. \A T \in SUBSET D, a \in D : a \notin T => Sum(T \cup {a}) = Sum(T) + f[a]
  BY SumInsert
<1> HIDE DEF Sum
<1>4. {} \in G
  <2>1. S \cup {} = S
    OBVIOUS
  <2> QED
    BY <2>1
<1>5. ASSUME NEW T \in SUBSET E, NEW a \in E, T \in G, a \notin T
      PROVE  T \cup {a} \in G
  <2>1. S \cup T \in SUBSET D /\ a \in D /\ a \notin S \cup T /\ f[a] = 0
    BY <1>5
  <2>2. Sum((S \cup T) \cup {a}) = Sum(S \cup T) + f[a]
    BY <1>3, <2>1
  <2>3. (S \cup T) \cup {a} = S \cup (T \cup {a})
    OBVIOUS
  <2>4. Sum(S \cup T) = Sum(S) /\ Sum(S) \in Int
    BY <1>2, <1>5
  <2>a. Sum(S) + 0 = Sum(S)
    BY <2>4
  <2>5. Sum(S \cup (T \cup {a})) = Sum(S)
    BY <2>1, <2>2, <2>3, <2>4, <2>a, Zenon
  <2>6. T \cup {a} \in SUBSET E
    BY <1>5
  <2> QED
    BY <2>5, <2>6
<1>6. E \in G
  <2> HIDE DEF G, E
  <2>1. \A T \in SUBSET E, a \in E : T \in G /\ a \notin T => T \cup {a} \in G
    BY <1>5
  <2>2. \A T \in SUBSET E : T \in G
    BY <1>1, <1>4, <2>1, SubsetInduction
  <2> QED
    BY <1>1, <2>2
<1>7. S \cup E = D
  OBVIOUS
<1> QED
  BY <1>6, <1>7 DEF Sum
=============================================================================
