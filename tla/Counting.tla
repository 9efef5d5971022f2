------------------------------ MODULE Counting ------------------------------
(***************************************************************************)
(* What counting and induction give the proofs of the other modules.  The  *)
(* provers cannot instantiate an induction theorem that takes an operator, *)
(* so induction is stated on sets: a set of numbers has a least one.       *)
(***************************************************************************)
EXTENDS Integers, FiniteSets, Functions, FiniteSetTheorems, WellFoundedInduction, TLAPS

\* Every set of numbers has a least one: the least counterexample of a proof.
LEMMA LeastNat ==
  ASSUME NEW T \in SUBSET Nat, T # {}
  PROVE  \E x \in T : \A y \in T : x <= y
<1>1. \E x \in T : \A y \in T : ~(<<y, x>> \in OpToRel(<, Nat))
  BY NatLessThanWellFounded, WFMin
<1>2. \E x \in T : \A y \in T : ~(y < x)
  BY <1>1 DEF OpToRel
<1> QED BY <1>2

\* Of the members of a finite set, put in order by R, at least n have fewer
\* than n others before them.
LEMMA EnoughComeFirst ==
  ASSUME NEW S, IsFiniteSet(S), NEW n \in Nat, n <= Cardinality(S), NEW R,
         \A j \in S : <<j, j>> \notin R,
         \A j, k, l \in S : <<j, k>> \in R /\ <<k, l>> \in R => <<j, l>> \in R,
         NEW first, first \subseteq S,
         \A j \in S : Cardinality({k \in S : <<k, j>> \in R}) < n => j \in first
  PROVE  n <= Cardinality(first)
<1> DEFINE Before(j) == {k \in S : <<k, j>> \in R}
<1>1. \A j \in S : IsFiniteSet(Before(j)) /\ Cardinality(Before(j)) \in Nat
  BY FS_Subset, FS_CardinalityType
<1>2. IsFiniteSet(first) /\ Cardinality(first) \in Nat
  BY FS_Subset, FS_CardinalityType
<1>3. CASE first = S
  BY <1>3
<1>4. CASE first # S
  <2> DEFINE counts == {Cardinality(Before(j)) : j \in S \ first}
  <2>1. counts # {} /\ counts \in SUBSET Nat
    <3>1. S \ first # {}
      BY <1>4
    <3> HIDE DEF Before
    <3> QED BY <1>1, <3>1
  <2>2. PICK c \in counts : \A d \in counts : c <= d
    BY <2>1, LeastNat
  <2>3. PICK j \in S \ first : c = Cardinality(Before(j))
    BY <2>2
  <2>4. ASSUME NEW k \in Before(j)
        PROVE  k \in first
    <3>1. Before(k) \subseteq Before(j) /\ Before(k) # Before(j) /\ k \in S
      BY <2>3
    <3> HIDE DEF Before
    <3>2. Cardinality(Before(k)) <= Cardinality(Before(j)) /\ Cardinality(Before(k)) # Cardinality(Before(j))
      BY <1>1, <2>3, <3>1, FS_Subset
    <3>3. Cardinality(Before(k)) \notin counts
      <4> HIDE DEF counts
      <4> QED BY <1>1, <2>1, <2>2, <2>3, <3>1, <3>2
    <3>4. k \notin S \ first
      BY <3>3
    <3> QED BY <3>1, <3>4
  <2>5. Cardinality(Before(j)) <= Cardinality(first)
    BY <1>2, <2>4, FS_Subset
  <2>6. ~(Cardinality(Before(j)) < n)
    BY <2>3
  <2> HIDE DEF Before
  <2> QED BY <1>1, <1>2, <2>3, <2>5, <2>6
<1> QED BY <1>3, <1>4

-----------------------------------------------------------------------------
(* Sums of the values of a function over a finite set.                     *)

Pick(T) == CHOOSE x \in T : TRUE
IsSum(it, f, U, S) ==
  /\ U \subseteq SUBSET S
  /\ it = [T \in U |-> IF T = {} THEN 0 ELSE f[Pick(T)] + it[T \ {Pick(T)}]]

LEMMA PickOne == ASSUME NEW T, T # {} PROVE Pick(T) \in T
BY DEF Pick

LEMMA SumUnfolds ==
  ASSUME NEW f, NEW S
  PROVE  SumFunctionOnSet(f, S) = (CHOOSE it : IsSum(it, f, SUBSET S, S))[S]
<1>1. \A it : IsSum(it, f, SUBSET S, S) <=>
              it = [T \in SUBSET S |-> IF T = {} THEN 0 ELSE f[Pick(T)] + it[T \ {Pick(T)}]]
  BY DEF IsSum
<1>2. SumFunctionOnSet(f, S) =
        (CHOOSE it : it = [T \in SUBSET S |-> IF T = {} THEN 0 ELSE f[Pick(T)] + it[T \ {Pick(T)}]])[S]
  BY Zenon DEF SumFunctionOnSet, FoldFunctionOnSet, MapThenFoldSet, Pick
<1> QED BY <1>1, <1>2

\* The subsets of S of at most n members.
Upto(n, S) == {T \in SUBSET S : Cardinality(T) <= n}

LEMMA SmallerIn ==
  ASSUME NEW S, IsFiniteSet(S), NEW n \in Nat, NEW T \in Upto(n, S), T # {}
  PROVE  /\ n > 0 /\ T \ {Pick(T)} \in Upto(n - 1, S)
         /\ Cardinality(T \ {Pick(T)}) = Cardinality(T) - 1 /\ Cardinality(T) \in Nat \ {0}
<1>1. IsFiniteSet(T) /\ Cardinality(T) \in Nat /\ Pick(T) \in T /\ T \in SUBSET S /\ Cardinality(T) <= n
  BY FS_Subset, FS_CardinalityType, PickOne DEF Upto
<1>2. Cardinality(T \ {Pick(T)}) = Cardinality(T) - 1
  BY <1>1, FS_RemoveElement
<1>3. Cardinality(T) # 0
  BY <1>1, FS_EmptySet
<1> QED BY <1>1, <1>2, <1>3 DEF Upto

\* A sum is well defined on the finite sets.
LEMMA SumExists ==
  ASSUME NEW f, NEW S, IsFiniteSet(S)
  PROVE  \A n \in Nat : \E it : IsSum(it, f, Upto(n, S), S)
<1> DEFINE P(n) == \E it : IsSum(it, f, Upto(n, S), S)
           bad == {n \in Nat : ~P(n)}
<1> SUFFICES ASSUME bad # {} PROVE FALSE
  OBVIOUS
<1>1. PICK n \in bad : \A k \in bad : n <= k
  BY LeastNat
<1>2. CASE n = 0
  <2>1. \A T \in Upto(0, S) : T = {}
    <3> SUFFICES ASSUME NEW T \in Upto(0, S) PROVE T = {}
      OBVIOUS
    <3>1. IsFiniteSet(T) /\ Cardinality(T) \in Nat /\ Cardinality(T) <= 0
      BY FS_Subset, FS_CardinalityType DEF Upto
    <3> QED BY <3>1, FS_EmptySet
  <2> DEFINE it == [T \in Upto(0, S) |-> 0]
  <2>2. it = [T \in Upto(0, S) |-> IF T = {} THEN 0 ELSE f[Pick(T)] + it[T \ {Pick(T)}]]
    BY <2>1
  <2> HIDE DEF it
  <2>3. IsSum(it, f, Upto(0, S), S)
    BY <2>2 DEF IsSum, Upto
  <2> QED BY <1>2, <2>3
<1>3. CASE n # 0
  <2>1. n - 1 \in Nat /\ P(n - 1)
    BY <1>1, <1>3
  <2>2. PICK g : IsSum(g, f, Upto(n - 1, S), S)
    BY <2>1
  <2> DEFINE it == [T \in Upto(n, S) |-> IF T = {} THEN 0 ELSE f[Pick(T)] + g[T \ {Pick(T)}]]
  <2>3. \A T \in Upto(n - 1, S) : T \in Upto(n, S) /\ it[T] = g[T]
    <3>1. ASSUME NEW T \in Upto(n - 1, S)
          PROVE  T \in Upto(n, S)
      <4>1. Cardinality(T) \in Nat
        BY FS_Subset, FS_CardinalityType DEF Upto
      <4> QED BY <4>1, <2>1 DEF Upto
    <3>2. ASSUME NEW T \in Upto(n - 1, S)
          PROVE  g[T] = IF T = {} THEN 0 ELSE f[Pick(T)] + g[T \ {Pick(T)}]
      <4>1. g = [X \in Upto(n - 1, S) |-> IF X = {} THEN 0 ELSE f[Pick(X)] + g[X \ {Pick(X)}]]
        BY <2>2 DEF IsSum
      <4> QED BY <4>1
    <3> QED BY <3>1, <3>2
  <2>4. \A T \in Upto(n, S) : T # {} => T \ {Pick(T)} \in Upto(n - 1, S)
    BY <1>1, SmallerIn
  <2>5. \A T \in Upto(n, S) : it[T] = IF T = {} THEN 0 ELSE f[Pick(T)] + it[T \ {Pick(T)}]
    BY <2>3, <2>4
  <2>6. it = [T \in Upto(n, S) |-> IF T = {} THEN 0 ELSE f[Pick(T)] + it[T \ {Pick(T)}]]
    BY <2>5
  <2> HIDE DEF it
  <2>7. IsSum(it, f, Upto(n, S), S)
    BY <2>6 DEF IsSum, Upto
  <2> QED BY <2>7
<1> QED BY <1>2, <1>3

\* The function a sum is read from.
SumIn(f, S) == CHOOSE it : IsSum(it, f, SUBSET S, S)

LEMMA SumInUnfolds ==
  ASSUME NEW f, NEW S, IsFiniteSet(S)
  PROVE  /\ SumFunctionOnSet(f, S) = SumIn(f, S)[S]
         /\ \A T \in SUBSET S : SumIn(f, S)[T] = IF T = {} THEN 0 ELSE f[Pick(T)] + SumIn(f, S)[T \ {Pick(T)}]
<1>1. Upto(Cardinality(S), S) = SUBSET S
  BY FS_Subset DEF Upto
<1>2. \E it : IsSum(it, f, SUBSET S, S)
  <2>1. Cardinality(S) \in Nat
    BY FS_CardinalityType
  <2>2. \E it : IsSum(it, f, Upto(Cardinality(S), S), S)
    BY <2>1, SumExists
  <2> QED BY <1>1, <2>2
<1>3. IsSum(SumIn(f, S), f, SUBSET S, S)
  BY <1>2 DEF SumIn
<1>4. ASSUME NEW it, IsSum(it, f, SUBSET S, S), NEW T \in SUBSET S
      PROVE  it[T] = IF T = {} THEN 0 ELSE f[Pick(T)] + it[T \ {Pick(T)}]
  <2>1. it = [X \in SUBSET S |-> IF X = {} THEN 0 ELSE f[Pick(X)] + it[X \ {Pick(X)}]]
    BY <1>4 DEF IsSum
  <2> QED BY <2>1
<1>5. SumFunctionOnSet(f, S) = SumIn(f, S)[S]
  BY SumUnfolds DEF SumIn
<1> QED BY <1>3, <1>4, <1>5

LEMMA SumInEmpty ==
  ASSUME NEW f, NEW S, IsFiniteSet(S)
  PROVE  SumIn(f, S)[{}] = 0
<1>1. {} \in SUBSET S
  OBVIOUS
<1>2. SumIn(f, S)[{}] = IF {} = {} THEN 0 ELSE f[Pick({})] + SumIn(f, S)[{} \ {Pick({})}]
  BY <1>1, SumInUnfolds, Zenon
<1> QED BY <1>2

LEMMA SumSame ==
  ASSUME NEW f, NEW g, NEW U, IsFiniteSet(U)
  PROVE  \A n \in Nat : \A S, R \in SUBSET U : \A T \in SUBSET (S \cap R) :
           Cardinality(T) = n /\ (\A x \in T : f[x] = g[x]) => SumIn(f, S)[T] = SumIn(g, R)[T]
<1> DEFINE P(n) == \A S, R \in SUBSET U : \A T \in SUBSET (S \cap R) :
                     Cardinality(T) = n /\ (\A x \in T : f[x] = g[x]) => SumIn(f, S)[T] = SumIn(g, R)[T]
           bad == {n \in Nat : ~P(n)}
<1> SUFFICES ASSUME bad # {} PROVE FALSE
  OBVIOUS
<1>1. PICK n \in bad : \A k \in bad : n <= k
  BY LeastNat
<1>2. ASSUME NEW S \in SUBSET U, NEW R \in SUBSET U, NEW T \in SUBSET (S \cap R),
             Cardinality(T) = n, \A x \in T : f[x] = g[x]
      PROVE  SumIn(f, S)[T] = SumIn(g, R)[T]
  <2>1. IsFiniteSet(S) /\ IsFiniteSet(R) /\ IsFiniteSet(T) /\ T \in SUBSET S /\ T \in SUBSET R
    BY FS_Subset
  <2>2. CASE T = {}
    <3> QED BY <2>1, <2>2, SumInEmpty
  <2>3. CASE T # {}
    <3> DEFINE p == Pick(T)
    <3>1. p \in T
      BY <2>3, PickOne
    <3> HIDE DEF p
    <3>2. Cardinality(T \ {p}) = n - 1 /\ n - 1 \in Nat
      <4>1. Cardinality(T \ {p}) = Cardinality(T) - 1 /\ Cardinality(T) \in Nat /\ Cardinality(T \ {p}) \in Nat
        BY <2>1, <3>1, FS_RemoveElement, FS_CardinalityType
      <4> QED BY <4>1, <1>2
    <3>3. P(n - 1)
      BY <1>1, <3>2
    <3>4. SumIn(f, S)[T \ {p}] = SumIn(g, R)[T \ {p}]
      BY <1>2, <3>2, <3>3
    <3>5. f[p] = g[p]
      BY <1>2, <3>1
    <3>6. SumIn(f, S)[T] = f[p] + SumIn(f, S)[T \ {p}] /\ SumIn(g, R)[T] = g[p] + SumIn(g, R)[T \ {p}]
      BY <2>1, <2>3, SumInUnfolds DEF p
    <3> QED BY <3>4, <3>5, <3>6
  <2> QED BY <2>2, <2>3
<1>3. P(n)
  BY <1>2
<1> QED BY <1>1, <1>3

\* Sums of functions that agree on the set are the same.
LEMMA SumAgrees ==
  ASSUME NEW f, NEW g, NEW S, IsFiniteSet(S), \A x \in S : f[x] = g[x]
  PROVE  SumFunctionOnSet(f, S) = SumFunctionOnSet(g, S)
<1>1. SumIn(f, S)[S] = SumIn(g, S)[S]
  BY SumSame, FS_CardinalityType
<1> QED BY <1>1, SumInUnfolds

LEMMA SumEmpty == ASSUME NEW f PROVE SumFunctionOnSet(f, {}) = 0
BY SumInUnfolds, FS_EmptySet

\* A sum is that of one member, the chosen one, and of the others.
LEMMA SumPicks ==
  ASSUME NEW f, NEW S, IsFiniteSet(S), S # {}
  PROVE  SumFunctionOnSet(f, S) = f[Pick(S)] + SumFunctionOnSet(f, S \ {Pick(S)})
<1> DEFINE p == Pick(S)
<1> HIDE DEF p
<1>1. IsFiniteSet(S \ {p}) /\ Cardinality(S \ {p}) \in Nat
  BY FS_Subset, FS_CardinalityType
<1>2. SumIn(f, S)[S \ {p}] = SumIn(f, S \ {p})[S \ {p}]
  <2>1. S \ {p} \in SUBSET (S \cap (S \ {p})) /\ S \in SUBSET S /\ S \ {p} \in SUBSET S
    OBVIOUS
  <2> QED BY <1>1, <2>1, SumSame
<1>3. SumIn(f, S)[S] = f[p] + SumIn(f, S)[S \ {p}]
  BY SumInUnfolds DEF p
<1> QED BY <1>1, <1>2, <1>3, SumInUnfolds DEF p

LEMMA SumStep ==
  ASSUME NEW U, IsFiniteSet(U), NEW f, \A x \in U : f[x] \in Int
  PROVE  \A n \in Nat : \A S \in SUBSET U : Cardinality(S) = n =>
           /\ SumFunctionOnSet(f, S) \in Int
           /\ \A x \in S : SumFunctionOnSet(f, S) = f[x] + SumFunctionOnSet(f, S \ {x})
<1> DEFINE Sum(S) == SumFunctionOnSet(f, S)
           Q(S) == Sum(S) \in Int /\ \A x \in S : Sum(S) = f[x] + Sum(S \ {x})
           P(n) == \A S \in SUBSET U : Cardinality(S) = n => Q(S)
           bad == {n \in Nat : ~P(n)}
<1> SUFFICES ASSUME bad # {} PROVE FALSE
  OBVIOUS
<1>1. PICK n \in bad : \A k \in bad : n <= k
  BY LeastNat
<1>2. ASSUME NEW S \in SUBSET U, Cardinality(S) = n
      PROVE  Q(S)
  <2>1. IsFiniteSet(S)
    BY FS_Subset
  <2>2. CASE S = {}
    BY <2>2, SumEmpty
  <2>3. CASE S # {}
    <3> DEFINE p == Pick(S)
    <3>1. p \in S
      BY <2>3, PickOne
    <3>2. Sum(S) = f[p] + Sum(S \ {p})
      BY <2>1, <2>3, SumPicks
    <3> HIDE DEF p
    <3>3. ASSUME NEW x \in S PROVE Q(S \ {x}) /\ S \ {x} \in SUBSET U
      <4>1. Cardinality(S \ {x}) = n - 1 /\ n - 1 \in Nat
        <5>1. Cardinality(S \ {x}) = Cardinality(S) - 1 /\ Cardinality(S) \in Nat /\ Cardinality(S \ {x}) \in Nat
          BY <2>1, FS_RemoveElement, FS_CardinalityType
        <5> QED BY <5>1, <1>2
      <4>2. P(n - 1)
        BY <1>1, <4>1
      <4> HIDE DEF Q
      <4> QED BY <4>1, <4>2
    <3>4. f[p] \in Int /\ Sum(S \ {p}) \in Int
      BY <3>1, <3>3
    <3>5. ASSUME NEW x \in S, x # p
          PROVE  Sum(S) = f[x] + Sum(S \ {x})
      <4>1. Sum(S \ {p}) = f[x] + Sum((S \ {p}) \ {x})
        BY <3>1, <3>3, <3>5
      <4>2. Sum(S \ {x}) = f[p] + Sum((S \ {x}) \ {p})
        BY <3>1, <3>3, <3>5
      <4>3. (S \ {p}) \ {x} = (S \ {x}) \ {p}
        OBVIOUS
      <4>4. f[x] \in Int /\ Sum(S \ {x}) \in Int
        BY <3>3
      <4> HIDE DEF Sum
      <4>5. Sum((S \ {x}) \ {p}) \in Int
        <5>1. p \in S \ {x}
          BY <3>1, <3>5
        <5>2. Q(S \ {x}) /\ S \ {x} \in SUBSET U /\ IsFiniteSet(S \ {x})
          BY <2>1, <3>3, FS_Subset
        <5>3. (S \ {x}) \ {p} \in SUBSET U
          OBVIOUS
        <5>4. Cardinality(S \ {x}) = n - 1 /\ Cardinality((S \ {x}) \ {p}) = n - 2 /\ n - 2 \in Nat
          <6>1. Cardinality(S \ {x}) = Cardinality(S) - 1 /\ Cardinality(S) \in Nat
            BY <2>1, FS_RemoveElement, FS_CardinalityType
          <6>2. /\ Cardinality((S \ {x}) \ {p}) = Cardinality(S \ {x}) - 1
                /\ Cardinality((S \ {x}) \ {p}) \in Nat
            BY <5>1, <5>2, FS_RemoveElement, FS_CardinalityType
          <6> QED BY <6>1, <6>2, <1>2
        <5>5. P(n - 2)
          BY <1>1, <5>4
        <5> QED BY <5>3, <5>4, <5>5
      <4>6. PICK z \in Int : z = Sum((S \ {x}) \ {p})
        BY <4>5
      <4>7. Sum(S \ {p}) = f[x] + z /\ Sum(S \ {x}) = f[p] + z
        BY <4>1, <4>2, <4>3, <4>6
      <4> QED BY <3>2, <3>4, <4>4, <4>7
    <3>6. Sum(S) \in Int
      BY <3>2, <3>4
    <3>7. \A x \in S : Sum(S) = f[x] + Sum(S \ {x})
      BY <3>2, <3>5
    <3> QED BY <3>6, <3>7
  <2> QED BY <2>2, <2>3
<1>3. P(n)
  BY <1>2
<1> QED BY <1>1, <1>3

(* A sum of integers is one, and any member can be taken out of it.        *)
LEMMA SumTakesOut ==
  ASSUME NEW S, IsFiniteSet(S), NEW f, \A x \in S : f[x] \in Int
  PROVE  /\ SumFunctionOnSet(f, S) \in Int
         /\ \A x \in S : SumFunctionOnSet(f, S) = f[x] + SumFunctionOnSet(f, S \ {x})
BY SumStep, FS_CardinalityType

(* One value more, one value changed.                                      *)
LEMMA SumAdds ==
  ASSUME NEW S, IsFiniteSet(S), NEW x, x \notin S, NEW f, \A y \in S \cup {x} : f[y] \in Int
  PROVE  SumFunctionOnSet(f, S \cup {x}) = f[x] + SumFunctionOnSet(f, S)
<1>1. IsFiniteSet(S \cup {x}) /\ (S \cup {x}) \ {x} = S
  BY FS_AddElement
<1> QED BY <1>1, SumTakesOut

LEMMA SumChanges ==
  ASSUME NEW S, IsFiniteSet(S), NEW x \in S, NEW f, NEW g,
         \A y \in S : f[y] \in Int /\ g[y] \in Int /\ (y # x => f[y] = g[y])
  PROVE  SumFunctionOnSet(g, S) = SumFunctionOnSet(f, S) - f[x] + g[x]
<1>1. IsFiniteSet(S \ {x})
  BY FS_Subset
<1>2. SumFunctionOnSet(f, S \ {x}) = SumFunctionOnSet(g, S \ {x})
  BY <1>1, SumAgrees
<1>3. SumFunctionOnSet(f, S \ {x}) \in Int
  BY <1>1, SumTakesOut
<1>4. SumFunctionOnSet(f, S) = f[x] + SumFunctionOnSet(f, S \ {x})
  BY SumTakesOut
<1>5. SumFunctionOnSet(g, S) = g[x] + SumFunctionOnSet(g, S \ {x})
  BY SumTakesOut
<1> QED BY <1>2, <1>3, <1>4, <1>5

(* Where nothing is negative, a part sums to no more than the whole.       *)
LEMMA SumBelow ==
  ASSUME NEW S, IsFiniteSet(S), NEW f, \A x \in S : f[x] \in Nat, NEW T \in SUBSET S
  PROVE  SumFunctionOnSet(f, T) <= SumFunctionOnSet(f, S)
<1> DEFINE Sum(R) == SumFunctionOnSet(f, R)
           over == {R \in SUBSET S : ~(Sum(R) <= Sum(S))}
           missing == {Cardinality(S \ R) : R \in over}
<1> SUFFICES ASSUME over # {} PROVE FALSE
  OBVIOUS
<1>1. \A R \in SUBSET S : /\ IsFiniteSet(R) /\ IsFiniteSet(S \ R) /\ Cardinality(S \ R) \in Nat
                          /\ Sum(R) \in Int
  <2> SUFFICES ASSUME NEW R \in SUBSET S
               PROVE  /\ IsFiniteSet(R) /\ IsFiniteSet(S \ R) /\ Cardinality(S \ R) \in Nat
                      /\ Sum(R) \in Int
    OBVIOUS
  <2>1. IsFiniteSet(R) /\ IsFiniteSet(S \ R)
    BY FS_Subset
  <2>2. \A x \in R : f[x] \in Int
    OBVIOUS
  <2> QED BY <2>1, <2>2, FS_CardinalityType, SumTakesOut
<1>2. missing # {} /\ missing \in SUBSET Nat
  <2> HIDE DEF Sum
  <2> QED BY <1>1
<1>3. PICK n \in missing : \A k \in missing : n <= k
  <2> HIDE DEF missing
  <2> QED BY <1>2, LeastNat
<1>4. PICK R \in over : n = Cardinality(S \ R)
  BY <1>3
<1>5. S \ R # {}
  <2>1. R # S
    BY <1>1, <1>4
  <2> QED BY <2>1, <1>4
<1>6. PICK x : x \in S \ R
  BY <1>5
<1>7. Cardinality(S \ (R \cup {x})) < n
  <2>1. S \ (R \cup {x}) = (S \ R) \ {x}
    OBVIOUS
  <2>2. Cardinality((S \ R) \ {x}) = Cardinality(S \ R) - 1
    BY <1>1, <1>4, <1>6, FS_RemoveElement
  <2> QED BY <1>1, <1>4, <2>1, <2>2
<1>8. R \cup {x} \notin over
  <2>1. R \cup {x} \in over => Cardinality(S \ (R \cup {x})) \in missing
    OBVIOUS
  <2>2. R \cup {x} \in SUBSET S
    BY <1>4, <1>6
  <2>3. Cardinality(S \ (R \cup {x})) \in Nat /\ n \in Nat
    BY <1>1, <1>2, <1>3, <2>2
  <2> HIDE DEF over, missing
  <2> QED BY <1>3, <1>7, <2>1, <2>3
<1>9. Sum(R \cup {x}) = f[x] + Sum(R)
  <2>1. \A y \in R \cup {x} : f[y] \in Int
    BY <1>4, <1>6
  <2> QED BY <1>1, <1>4, <1>6, <2>1, SumAdds
<1>10. Sum(R) \in Int /\ Sum(S) \in Int /\ f[x] \in Nat /\ R \cup {x} \in SUBSET S /\ ~(Sum(R) <= Sum(S))
  BY <1>1, <1>4, <1>6
<1>11. Sum(R \cup {x}) <= Sum(S)
  BY <1>8, <1>10
<1> HIDE DEF Sum
<1> QED BY <1>9, <1>10, <1>11

(* Zeros sum to zero.                                                      *)
LEMMA SumOfZeros ==
  ASSUME NEW S, IsFiniteSet(S), NEW f, \A x \in S : f[x] = 0
  PROVE  SumFunctionOnSet(f, S) = 0
<1> DEFINE Sum(R) == SumFunctionOnSet(f, R)
           bad == {R \in SUBSET S : Sum(R) # 0}
           sizes == {Cardinality(R) : R \in bad}
<1> SUFFICES ASSUME bad # {} PROVE FALSE
  OBVIOUS
<1>1. \A R \in SUBSET S : IsFiniteSet(R) /\ Cardinality(R) \in Nat
  BY FS_Subset, FS_CardinalityType
<1>2. PICK n \in sizes : \A k \in sizes : n <= k
  <2>1. sizes # {} /\ sizes \in SUBSET Nat
    <3> HIDE DEF Sum
    <3> QED BY <1>1
  <2> HIDE DEF sizes
  <2> QED BY <2>1, LeastNat
<1>3. PICK R \in bad : n = Cardinality(R)
  BY <1>2
<1>4. PICK x : x \in R
  BY <1>3, SumEmpty
<1>5. Sum(R) = f[x] + Sum(R \ {x}) /\ Sum(R \ {x}) \in Int
  <2>1. \A y \in R : f[y] \in Int /\ f[y] = 0
    BY <1>3
  <2>2. R \in SUBSET S /\ R \ {x} \in SUBSET S
    BY <1>3
  <2>3. IsFiniteSet(R) /\ IsFiniteSet(R \ {x})
    BY <1>1, <2>2
  <2> QED BY <1>4, <2>1, <2>3, SumTakesOut
<1>6. R \ {x} \in bad
  BY <1>3, <1>4, <1>5
<1>7. Cardinality(R \ {x}) = Cardinality(R) - 1
  BY <1>1, <1>3, <1>4, FS_RemoveElement
<1>8. Cardinality(R \ {x}) \in sizes /\ Cardinality(R) \in Nat
  BY <1>1, <1>3, <1>6
<1> HIDE DEF sizes
<1> QED BY <1>2, <1>3, <1>7, <1>8
=============================================================================
