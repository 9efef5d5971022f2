--------------------------- MODULE CopyDesk_proofs ---------------------------
(***************************************************************************)
(* Proofs about the copy desk.                                             *)
(***************************************************************************)
EXTENDS CopyDesk, Counting

-----------------------------------------------------------------------------
(* Folds over sequences.  FoldLeft takes a sequence apart from its end; a  *)
(* proof follows it from the front, value by value.                        *)

\* What holds of 0, and of each next number, holds up to n.
LEMMA Climb ==
  ASSUME NEW n \in Nat, NEW good, 0 \in good,
         \A k \in 1 .. n : k - 1 \in good => k \in good
  PROVE  \A k \in 0 .. n : k \in good
<1> DEFINE bad == {k \in 0 .. n : k \notin good}
<1> SUFFICES ASSUME bad # {} PROVE FALSE
  OBVIOUS
<1>1. bad \in SUBSET Nat
  OBVIOUS
<1>2. PICK k \in bad : \A j \in bad : k <= j
  BY <1>1, LeastNat
<1>3. k \in 0 .. n /\ k # 0 /\ k \notin good
  BY <1>2
<1>4. k \in 1 .. n /\ k - 1 \in 0 .. n
  BY <1>3
<1>5. k - 1 \in good
  BY <1>2, <1>4
<1> QED BY <1>3, <1>4, <1>5

LEMMA MaxUpto == ASSUME NEW k \in Nat \ {0} PROVE Max(1 .. k) = k
<1>1. k \in 1 .. k /\ \A y \in 1 .. k : k >= y
  OBVIOUS
<1>2. Max(1 .. k) \in 1 .. k /\ \A y \in 1 .. k : Max(1 .. k) >= y
  <2>1. \E x \in 1 .. k : \A y \in 1 .. k : x >= y
    BY <1>1
  <2> QED BY <2>1, Zenon DEF Max
<1> QED BY <1>1, <1>2

LEMMA MaxAmong ==
  ASSUME NEW n \in Nat, NEW T \in SUBSET (1 .. n), T # {}
  PROVE  Max(T) \in T /\ \A y \in T : Max(T) >= y
<1> DEFINE gaps == {n - x : x \in T}
<1>1. gaps \in SUBSET Nat /\ gaps # {}
  <2>1. \A x \in T : x \in 1 .. n /\ n - x \in Nat
    OBVIOUS
  <2> QED BY <2>1
<1>2. PICK g \in gaps : \A h \in gaps : g <= h
  BY <1>1, LeastNat
<1>3. PICK x \in T : g = n - x
  BY <1>2
<1>4. ASSUME NEW y \in T PROVE x >= y
  <2>1. n - y \in gaps /\ n - y >= g /\ x \in Int /\ y \in Int
    BY <1>2
  <2> QED BY <1>3, <2>1
<1>5. \E z \in T : \A y \in T : z >= y
  BY <1>4
<1> QED BY <1>5, Zenon DEF Max

\* A function on the sets of positions that takes the last position last.
LastLast(it, base, step, n) ==
  \A T \in SUBSET (1 .. n) :
    it[T] = IF T = {} THEN base ELSE step[<<Max(T), it[T \ {Max(T)}]>>]

LEMMA FoldExists ==
  ASSUME NEW Acc, NEW base \in Acc, NEW len \in Nat, NEW step \in [(1 .. len) \X Acc -> Acc]
  PROVE  \E it \in [SUBSET (1 .. len) -> Acc] : LastLast(it, base, step, len)
<1> DEFINE good == {n \in 0 .. len : \E it \in [SUBSET (1 .. n) -> Acc] : LastLast(it, base, step, n)}
<1>1. 0 \in good
  <2> DEFINE it == [T \in SUBSET (1 .. 0) |-> base]
  <2>1. \A T \in SUBSET (1 .. 0) : T = {}
    OBVIOUS
  <2>2. it \in [SUBSET (1 .. 0) -> Acc] /\ \A T \in SUBSET (1 .. 0) : it[T] = base
    OBVIOUS
  <2> HIDE DEF it
  <2>3. LastLast(it, base, step, 0)
    BY <2>1, <2>2 DEF LastLast
  <2> QED BY <2>2, <2>3
<1>2. ASSUME NEW n \in 1 .. len, n - 1 \in good
      PROVE  n \in good
  <2>1. PICK g \in [SUBSET (1 .. n - 1) -> Acc] : LastLast(g, base, step, n - 1)
    BY <1>2
  <2> DEFINE it == [T \in SUBSET (1 .. n) |-> IF n \in T THEN step[<<n, g[T \ {n}]>>] ELSE g[T]]
  <2>2. \A T \in SUBSET (1 .. n) : T \ {n} \in SUBSET (1 .. n - 1) /\ (n \notin T => T \in SUBSET (1 .. n - 1))
    OBVIOUS
  <2>3. it \in [SUBSET (1 .. n) -> Acc]
    BY <2>2
  <2>4. ASSUME NEW T \in SUBSET (1 .. n)
        PROVE  it[T] = IF T = {} THEN base ELSE step[<<Max(T), it[T \ {Max(T)}]>>]
    <3>1. CASE n \in T
      <4>1. Max(T) = n
        <5>1. n \in Nat /\ T # {}
          BY <3>1
        <5>2. Max(T) \in T /\ Max(T) >= n
          BY <3>1, <5>1, MaxAmong
        <5>3. Max(T) \in 1 .. n
          BY <5>2
        <5> QED BY <5>1, <5>2, <5>3
      <4>2. it[T \ {n}] = g[T \ {n}]
        <5>1. T \ {n} \in SUBSET (1 .. n) /\ n \notin T \ {n}
          OBVIOUS
        <5> QED BY <5>1
      <4>3. it[T] = step[<<n, g[T \ {n}]>>]
        BY <3>1
      <4> HIDE DEF it
      <4> QED BY <3>1, <4>1, <4>2, <4>3
    <3>2. CASE n \notin T /\ T # {}
      <4>2. T \in SUBSET (1 .. n - 1) /\ T \ {Max(T)} \in SUBSET (1 .. n) /\ n \notin T \ {Max(T)}
        BY <2>2, <3>2
      <4>3. it[T] = g[T]
        BY <3>2
      <4>5. it[T \ {Max(T)}] = g[T \ {Max(T)}]
        BY <4>2
      <4>4. g[T] = step[<<Max(T), g[T \ {Max(T)}]>>]
        BY <2>1, <3>2, <4>2 DEF LastLast
      <4> HIDE DEF it
      <4> QED BY <3>2, <4>3, <4>4, <4>5
    <3>3. CASE T = {}
      <4>1. it[T] = g[T] /\ T \in SUBSET (1 .. n - 1)
        BY <3>3
      <4> HIDE DEF it
      <4> QED BY <2>1, <3>3, <4>1 DEF LastLast
    <3> QED BY <3>1, <3>2, <3>3
  <2> HIDE DEF it
  <2>5. LastLast(it, base, step, n)
    BY <2>4 DEF LastLast
  <2> QED BY <2>3, <2>5
<1> HIDE DEF good
<1>3. len \in good
  BY <1>1, <1>2, Climb
<1> QED BY <1>3 DEF good

\* The same, as far as it stays in Acc.
LastLastIn(it, Acc, step, n) ==
  \A T \in SUBSET (1 .. n) :
    T # {} /\ it[T \ {Max(T)}] \in Acc => it[T] = step[<<Max(T), it[T \ {Max(T)}]>>]

\* The values in their order, from the first to the last.
InTurn(run, first, last, step, n) ==
  run[0] = first /\ run[n] = last /\ \A k \in 1 .. n : run[k] = step[<<k, run[k - 1]>>]

(* What such a function gives for the whole is reached position by position. *)
LEMMA Runs ==
  ASSUME NEW Acc, NEW base \in Acc, NEW n \in Nat, NEW step \in [(1 .. n) \X Acc -> Acc],
         NEW it, it[{}] = base, LastLastIn(it, Acc, step, n)
  PROVE  \E run \in [0 .. n -> Acc] : InTurn(run, base, it[1 .. n], step, n)
<1> DEFINE good == {k \in 0 .. n : it[1 .. k] \in Acc}
<1>1. it[1 .. 0] = base
  <2>1. 1 .. 0 = {}
    OBVIOUS
  <2> QED BY <2>1
<1>2. 0 \in good
  BY <1>1
<1>3. ASSUME NEW k \in 1 .. n, it[1 .. (k - 1)] \in Acc
      PROVE  it[1 .. k] = step[<<k, it[1 .. (k - 1)]>>] /\ it[1 .. k] \in Acc
  <2>1. 1 .. k \in SUBSET (1 .. n) /\ 1 .. k # {} /\ (1 .. k) \ {k} = 1 .. (k - 1) /\ k \in Nat \ {0}
    OBVIOUS
  <2>2. Max(1 .. k) = k
    BY <2>1, MaxUpto
  <2>3. it[1 .. k] = step[<<k, it[1 .. (k - 1)]>>]
    BY <1>3, <2>1, <2>2 DEF LastLastIn
  <2> QED BY <1>3, <2>3
<1>4. \A k \in 1 .. n : k - 1 \in good => k \in good
  <2> SUFFICES ASSUME NEW k \in 1 .. n, k - 1 \in good PROVE k \in good
    OBVIOUS
  <2>1. it[1 .. (k - 1)] \in Acc /\ k \in 0 .. n
    OBVIOUS
  <2> QED BY <1>3, <2>1
<1> HIDE DEF good
<1>5. \A k \in 0 .. n : k \in good
  BY <1>2, <1>4, Climb
<1>6. \A k \in 0 .. n : it[1 .. k] \in Acc
  BY <1>5 DEF good
<1> DEFINE run == [k \in 0 .. n |-> it[1 .. k]]
<1>7. run \in [0 .. n -> Acc]
  BY <1>6
<1>8. run[0] = base /\ run[n] = it[1 .. n]
  BY <1>1
<1>9. ASSUME NEW k \in 1 .. n PROVE run[k] = step[<<k, run[k - 1]>>]
  <2>1. k \in 0 .. n /\ k - 1 \in 0 .. n
    OBVIOUS
  <2>2. run[k] = it[1 .. k] /\ run[k - 1] = it[1 .. (k - 1)]
    BY <2>1
  <2>3. it[1 .. (k - 1)] \in Acc
    BY <1>6, <2>1
  <2> HIDE DEF run
  <2> QED BY <1>3, <2>2, <2>3
<1> HIDE DEF run
<1> QED BY <1>7, <1>8, <1>9 DEF InTurn

-----------------------------------------------------------------------------
(* The three folds of the model, run from the front.  Acc is any set that   *)
(* holds the starting value and that no step leaves.                        *)

KeepsIn(it, queue, class) ==
  it = [T \in SUBSET DOMAIN queue |->
          IF T = {} THEN <<>>
          ELSE IF queue[Max(T)] \in class THEN Append(it[T \ {Max(T)}], queue[Max(T)])
          ELSE it[T \ {Max(T)}]]

LEMMA KeepUnfolds ==
  ASSUME NEW queue, NEW class
  PROVE  Keep(queue, class) = (CHOOSE it : KeepsIn(it, queue, class))[DOMAIN queue]
BY Zenon DEF Keep, FoldLeft, MapThenFoldSet, KeepsIn

KeepRun(run, queue, class) ==
  /\ run[0] = <<>> /\ run[Len(queue)] = Keep(queue, class)
  /\ \A k \in 1 .. Len(queue) :
       run[k] = IF queue[k] \in class THEN Append(run[k - 1], queue[k]) ELSE run[k - 1]

LEMMA KeepRuns ==
  ASSUME NEW D, NEW queue \in Seq(D), NEW class
  PROVE  \E run \in [0 .. Len(queue) -> Seq(D \cap class)] : KeepRun(run, queue, class)
<1> DEFINE n == Len(queue)
           Acc == Seq(D \cap class)
           Next1(k, kept) == IF queue[k] \in class THEN Append(kept, queue[k]) ELSE kept
           step == [p \in (1 .. n) \X Acc |-> Next1(p[1], p[2])]
           rec(it) == \A T \in SUBSET (1 .. n) :
                        it[T] = IF T = {} THEN <<>> ELSE Next1(Max(T), it[T \ {Max(T)}])
<1>1. n \in Nat /\ DOMAIN queue = 1 .. n /\ <<>> \in Acc /\ \A k \in 1 .. n : queue[k] \in D
  OBVIOUS
<1>2. \A k \in 1 .. n : \A kept \in Acc : Next1(k, kept) \in Acc
  <2> SUFFICES ASSUME NEW k \in 1 .. n, NEW kept \in Acc PROVE Next1(k, kept) \in Acc
    OBVIOUS
  <2>1. queue[k] \in D
    BY <1>1
  <2> QED BY <2>1
<1>3. step \in [(1 .. n) \X Acc -> Acc] /\ \A k \in 1 .. n : \A kept \in Acc : step[<<k, kept>>] = Next1(k, kept)
  <2> HIDE DEF Next1, Acc, n
  <2> QED BY <1>2
<1>4. \A it : KeepsIn(it, queue, class) => rec(it)
  <2> SUFFICES ASSUME NEW it, KeepsIn(it, queue, class) PROVE rec(it)
    OBVIOUS
  <2>1. it = [T \in SUBSET (1 .. n) |-> IF T = {} THEN <<>> ELSE Next1(Max(T), it[T \ {Max(T)}])]
    BY <1>1 DEF KeepsIn
  <2> HIDE DEF Next1, n
  <2> QED BY <2>1
<1>5. \A it : DOMAIN it = SUBSET (1 .. n) /\ it = [T \in DOMAIN it |-> it[T]] /\ rec(it) => KeepsIn(it, queue, class)
  <2> SUFFICES ASSUME NEW it, DOMAIN it = SUBSET (1 .. n), it = [T \in DOMAIN it |-> it[T]], rec(it)
               PROVE  KeepsIn(it, queue, class)
    OBVIOUS
  <2>1. it = [T \in SUBSET (1 .. n) |-> IF T = {} THEN <<>> ELSE Next1(Max(T), it[T \ {Max(T)}])]
    <3> HIDE DEF Next1, n
    <3> QED OBVIOUS
  <2> QED BY <1>1, <2>1 DEF KeepsIn
<1> DEFINE it == CHOOSE it : KeepsIn(it, queue, class)
<1> HIDE DEF step, Next1, Acc, n
<1>6. PICK g \in [SUBSET (1 .. n) -> Acc] : LastLast(g, <<>>, step, n)
  BY <1>1, <1>3, FoldExists
<1>7. rec(g)
  <2> SUFFICES ASSUME NEW T \in SUBSET (1 .. n), T # {}
               PROVE  g[T] = Next1(Max(T), g[T \ {Max(T)}])
    BY <1>6 DEF LastLast
  <2>1. Max(T) \in 1 .. n /\ T \ {Max(T)} \in SUBSET (1 .. n)
    BY <1>1, MaxAmong
  <2>2. g[T] = step[<<Max(T), g[T \ {Max(T)}]>>] /\ g[T \ {Max(T)}] \in Acc
    BY <1>6, <2>1 DEF LastLast
  <2> QED BY <1>3, <2>1, <2>2
<1>8. KeepsIn(g, queue, class)
  <2>1. DOMAIN g = SUBSET (1 .. n) /\ g = [T \in DOMAIN g |-> g[T]]
    BY <1>6
  <2> QED BY <1>5, <1>7, <2>1
<1>9. rec(it)
  BY <1>4, <1>8
<1>10. Keep(queue, class) = it[1 .. n]
  BY <1>1, KeepUnfolds
<1> HIDE DEF it
<1>11. it[{}] = <<>>
  BY <1>9
<1>12. LastLastIn(it, Acc, step, n)
  <2> SUFFICES ASSUME NEW T \in SUBSET (1 .. n), T # {}, it[T \ {Max(T)}] \in Acc
               PROVE  it[T] = step[<<Max(T), it[T \ {Max(T)}]>>]
    BY DEF LastLastIn
  <2>1. Max(T) \in 1 .. n
    BY <1>1, MaxAmong
  <2> QED BY <1>3, <1>9, <2>1
<1>13. PICK run \in [0 .. n -> Acc] : InTurn(run, <<>>, it[1 .. n], step, n)
  <2> HIDE DEF rec
  <2> QED BY <1>1, <1>3, <1>11, <1>12, Runs
<1>14. \A k \in 1 .. n : run[k] = Next1(k, run[k - 1])
  <2> SUFFICES ASSUME NEW k \in 1 .. n PROVE run[k] = Next1(k, run[k - 1])
    OBVIOUS
  <2>1. k - 1 \in 0 .. n
    BY <1>1
  <2>2. run[k - 1] \in Acc /\ run[k] = step[<<k, run[k - 1]>>]
    BY <1>13, <2>1 DEF InTurn
  <2> HIDE DEF rec
  <2> QED BY <1>3, <2>2
<1> QED BY <1>10, <1>13, <1>14 DEF InTurn, KeepRun, Next1, n, Acc

Carried(f, base, queue) == FoldLeft(LAMBDA account, i : Carry(f, account, i), base, queue)

CarriesIn(it, f, base, queue) ==
  it = [T \in SUBSET DOMAIN queue |->
          IF T = {} THEN base ELSE Carry(f, it[T \ {Max(T)}], queue[Max(T)])]

LEMMA CarryUnfolds ==
  ASSUME NEW f, NEW base, NEW queue
  PROVE  Carried(f, base, queue) = (CHOOSE it : CarriesIn(it, f, base, queue))[DOMAIN queue]
BY Zenon DEF Carried, FoldLeft, MapThenFoldSet, CarriesIn

CarryRun(run, f, base, queue) ==
  /\ run[0] = base /\ run[Len(queue)] = Carried(f, base, queue)
  /\ \A k \in 1 .. Len(queue) : run[k] = Carry(f, run[k - 1], queue[k])

LEMMA CarryRuns ==
  ASSUME NEW f, NEW D, NEW queue \in Seq(D), NEW Acc, NEW base \in Acc,
         \A account \in Acc : \A i \in D : Carry(f, account, i) \in Acc
  PROVE  \E run \in [0 .. Len(queue) -> Acc] : CarryRun(run, f, base, queue)
<1> DEFINE n == Len(queue)
           Next1(k, acc) == Carry(f, acc, queue[k])
           step == [p \in (1 .. n) \X Acc |-> Next1(p[1], p[2])]
           rec(it) == \A T \in SUBSET (1 .. n) :
                        it[T] = IF T = {} THEN base ELSE Next1(Max(T), it[T \ {Max(T)}])
<1>1. n \in Nat /\ DOMAIN queue = 1 .. n /\ \A k \in 1 .. n : queue[k] \in D
  OBVIOUS
<1>2. \A k \in 1 .. n : \A acc \in Acc : Next1(k, acc) \in Acc
  <2> SUFFICES ASSUME NEW k \in 1 .. n, NEW acc \in Acc PROVE Next1(k, acc) \in Acc
    OBVIOUS
  <2>1. queue[k] \in D
    BY <1>1
  <2> QED BY <2>1
<1>3. step \in [(1 .. n) \X Acc -> Acc] /\ \A k \in 1 .. n : \A acc \in Acc : step[<<k, acc>>] = Next1(k, acc)
  <2> HIDE DEF Next1, n
  <2> QED BY <1>2
<1>4. \A it : CarriesIn(it, f, base, queue) => rec(it)
  <2> SUFFICES ASSUME NEW it, CarriesIn(it, f, base, queue) PROVE rec(it)
    OBVIOUS
  <2>1. it = [T \in SUBSET (1 .. n) |-> IF T = {} THEN base ELSE Next1(Max(T), it[T \ {Max(T)}])]
    BY <1>1 DEF CarriesIn
  <2> HIDE DEF Next1, n
  <2> QED BY <2>1
<1>5. \A it : DOMAIN it = SUBSET (1 .. n) /\ it = [T \in DOMAIN it |-> it[T]] /\ rec(it) => CarriesIn(it, f, base, queue)
  <2> SUFFICES ASSUME NEW it, DOMAIN it = SUBSET (1 .. n), it = [T \in DOMAIN it |-> it[T]], rec(it)
               PROVE  CarriesIn(it, f, base, queue)
    OBVIOUS
  <2>1. it = [T \in SUBSET (1 .. n) |-> IF T = {} THEN base ELSE Next1(Max(T), it[T \ {Max(T)}])]
    <3> HIDE DEF Next1, n
    <3> QED OBVIOUS
  <2> QED BY <1>1, <2>1 DEF CarriesIn
<1> DEFINE it == CHOOSE it : CarriesIn(it, f, base, queue)
<1> HIDE DEF step, Next1, n
<1>6. PICK g \in [SUBSET (1 .. n) -> Acc] : LastLast(g, base, step, n)
  BY <1>1, <1>3, FoldExists
<1>7. rec(g)
  <2> SUFFICES ASSUME NEW T \in SUBSET (1 .. n), T # {}
               PROVE  g[T] = Next1(Max(T), g[T \ {Max(T)}])
    BY <1>6 DEF LastLast
  <2>1. Max(T) \in 1 .. n /\ T \ {Max(T)} \in SUBSET (1 .. n)
    BY <1>1, MaxAmong
  <2>2. g[T] = step[<<Max(T), g[T \ {Max(T)}]>>] /\ g[T \ {Max(T)}] \in Acc
    BY <1>6, <2>1 DEF LastLast
  <2> QED BY <1>3, <2>1, <2>2
<1>8. CarriesIn(g, f, base, queue)
  <2>1. DOMAIN g = SUBSET (1 .. n) /\ g = [T \in DOMAIN g |-> g[T]]
    BY <1>6
  <2> QED BY <1>5, <1>7, <2>1
<1>9. rec(it)
  BY <1>4, <1>8
<1>10. Carried(f, base, queue) = it[1 .. n]
  BY <1>1, CarryUnfolds
<1> HIDE DEF it
<1>11. it[{}] = base
  BY <1>9
<1>12. LastLastIn(it, Acc, step, n)
  <2> SUFFICES ASSUME NEW T \in SUBSET (1 .. n), T # {}, it[T \ {Max(T)}] \in Acc
               PROVE  it[T] = step[<<Max(T), it[T \ {Max(T)}]>>]
    BY DEF LastLastIn
  <2>1. Max(T) \in 1 .. n
    BY <1>1, MaxAmong
  <2> QED BY <1>3, <1>9, <2>1
<1>13. PICK run \in [0 .. n -> Acc] : InTurn(run, base, it[1 .. n], step, n)
  <2> HIDE DEF rec
  <2> QED BY <1>1, <1>3, <1>11, <1>12, Runs
<1>14. \A k \in 1 .. n : run[k] = Next1(k, run[k - 1])
  <2> SUFFICES ASSUME NEW k \in 1 .. n PROVE run[k] = Next1(k, run[k - 1])
    OBVIOUS
  <2>1. k - 1 \in 0 .. n
    BY <1>1
  <2>2. run[k - 1] \in Acc /\ run[k] = step[<<k, run[k - 1]>>]
    BY <1>13, <2>1 DEF InTurn
  <2> HIDE DEF rec
  <2> QED BY <1>3, <2>2
<1> QED BY <1>10, <1>13, <1>14 DEF InTurn, CarryRun, Next1, n

ScreensIn(it, base) ==
  it = [T \in SUBSET DOMAIN Group |->
          IF T = {} THEN base ELSE ScreenNext(it[T \ {Max(T)}], Group[Max(T)])]

LEMMA ScreenUnfolds ==
  ASSUME NEW base
  PROVE  FoldLeft(ScreenNext, base, Group) = (CHOOSE it : ScreensIn(it, base))[DOMAIN Group]
BY Zenon DEF FoldLeft, MapThenFoldSet, ScreensIn

ScreenRun(run, base) ==
  /\ run[0] = base /\ run[Len(Group)] = FoldLeft(ScreenNext, base, Group)
  /\ \A k \in 1 .. Len(Group) : run[k] = ScreenNext(run[k - 1], Group[k])

LEMMA ScreenRuns ==
  ASSUME NEW Acc, NEW base \in Acc,
         \A screened \in Acc : \A f \in Follower : ScreenNext(screened, f) \in Acc
  PROVE  \E run \in [0 .. Len(Group) -> Acc] : ScreenRun(run, base)
<1> DEFINE n == Len(Group)
           Next1(k, acc) == ScreenNext(acc, Group[k])
           step == [p \in (1 .. n) \X Acc |-> Next1(p[1], p[2])]
           rec(it) == \A T \in SUBSET (1 .. n) :
                        it[T] = IF T = {} THEN base ELSE Next1(Max(T), it[T \ {Max(T)}])
<1>1. n \in Nat /\ DOMAIN Group = 1 .. n /\ \A k \in 1 .. n : Group[k] \in Follower
  BY CopyAssumption DEF Follower, Range
<1>2. \A k \in 1 .. n : \A acc \in Acc : Next1(k, acc) \in Acc
  <2> SUFFICES ASSUME NEW k \in 1 .. n, NEW acc \in Acc PROVE Next1(k, acc) \in Acc
    OBVIOUS
  <2>1. Group[k] \in Follower
    BY <1>1
  <2> QED BY <2>1
<1>3. step \in [(1 .. n) \X Acc -> Acc] /\ \A k \in 1 .. n : \A acc \in Acc : step[<<k, acc>>] = Next1(k, acc)
  <2> HIDE DEF Next1, n
  <2> QED BY <1>2
<1>4. \A it : ScreensIn(it, base) => rec(it)
  <2> SUFFICES ASSUME NEW it, ScreensIn(it, base) PROVE rec(it)
    OBVIOUS
  <2>1. it = [T \in SUBSET (1 .. n) |-> IF T = {} THEN base ELSE Next1(Max(T), it[T \ {Max(T)}])]
    BY <1>1 DEF ScreensIn
  <2> HIDE DEF Next1, n
  <2> QED BY <2>1
<1>5. \A it : DOMAIN it = SUBSET (1 .. n) /\ it = [T \in DOMAIN it |-> it[T]] /\ rec(it) => ScreensIn(it, base)
  <2> SUFFICES ASSUME NEW it, DOMAIN it = SUBSET (1 .. n), it = [T \in DOMAIN it |-> it[T]], rec(it)
               PROVE  ScreensIn(it, base)
    OBVIOUS
  <2>1. it = [T \in SUBSET (1 .. n) |-> IF T = {} THEN base ELSE Next1(Max(T), it[T \ {Max(T)}])]
    <3> HIDE DEF Next1, n
    <3> QED OBVIOUS
  <2> QED BY <1>1, <2>1 DEF ScreensIn
<1> DEFINE it == CHOOSE it : ScreensIn(it, base)
<1> HIDE DEF step, Next1, n
<1>6. PICK g \in [SUBSET (1 .. n) -> Acc] : LastLast(g, base, step, n)
  BY <1>1, <1>3, FoldExists
<1>7. rec(g)
  <2> SUFFICES ASSUME NEW T \in SUBSET (1 .. n), T # {}
               PROVE  g[T] = Next1(Max(T), g[T \ {Max(T)}])
    BY <1>6 DEF LastLast
  <2>1. Max(T) \in 1 .. n /\ T \ {Max(T)} \in SUBSET (1 .. n)
    BY <1>1, MaxAmong
  <2>2. g[T] = step[<<Max(T), g[T \ {Max(T)}]>>] /\ g[T \ {Max(T)}] \in Acc
    BY <1>6, <2>1 DEF LastLast
  <2> QED BY <1>3, <2>1, <2>2
<1>8. ScreensIn(g, base)
  <2>1. DOMAIN g = SUBSET (1 .. n) /\ g = [T \in DOMAIN g |-> g[T]]
    BY <1>6
  <2> QED BY <1>5, <1>7, <2>1
<1>9. rec(it)
  BY <1>4, <1>8
<1>10. FoldLeft(ScreenNext, base, Group) = it[1 .. n]
  BY <1>1, ScreenUnfolds
<1> HIDE DEF it
<1>11. it[{}] = base
  BY <1>9
<1>12. LastLastIn(it, Acc, step, n)
  <2> SUFFICES ASSUME NEW T \in SUBSET (1 .. n), T # {}, it[T \ {Max(T)}] \in Acc
               PROVE  it[T] = step[<<Max(T), it[T \ {Max(T)}]>>]
    BY DEF LastLastIn
  <2>1. Max(T) \in 1 .. n
    BY <1>1, MaxAmong
  <2> QED BY <1>3, <1>9, <2>1
<1>13. PICK run \in [0 .. n -> Acc] : InTurn(run, base, it[1 .. n], step, n)
  <2> HIDE DEF rec
  <2> QED BY <1>1, <1>3, <1>11, <1>12, Runs
<1>14. \A k \in 1 .. n : run[k] = Next1(k, run[k - 1])
  <2> SUFFICES ASSUME NEW k \in 1 .. n PROVE run[k] = Next1(k, run[k - 1])
    OBVIOUS
  <2>1. k - 1 \in 0 .. n
    BY <1>1
  <2>2. run[k - 1] \in Acc /\ run[k] = step[<<k, run[k - 1]>>]
    BY <1>13, <2>1 DEF InTurn
  <2> HIDE DEF rec
  <2> QED BY <1>3, <2>2
<1> QED BY <1>10, <1>13, <1>14 DEF InTurn, ScreenRun, Next1, n

-----------------------------------------------------------------------------
(* Keep takes a queue apart.                                                *)

LEMMA KeepSelects ==
  ASSUME NEW D, NEW queue \in Seq(D), NEW class
  PROVE  Keep(queue, class) \in Seq(D \cap class)
<1>1. PICK run \in [0 .. Len(queue) -> Seq(D \cap class)] : KeepRun(run, queue, class)
  BY KeepRuns
<1>2. Len(queue) \in 0 .. Len(queue)
  OBVIOUS
<1> QED BY <1>1, <1>2 DEF KeepRun

LEMMA KeepShares ==
  ASSUME NEW D, NEW queue \in Seq(D), NEW class, NEW other, class \cap other = {}
  PROVE  Len(Keep(queue, class)) + Len(Keep(queue, other)) <= Len(queue)
<1> DEFINE n == Len(queue)
<1>1. PICK a \in [0 .. n -> Seq(D \cap class)] : KeepRun(a, queue, class)
  BY KeepRuns
<1>2. PICK b \in [0 .. n -> Seq(D \cap other)] : KeepRun(b, queue, other)
  BY KeepRuns
<1>3. n \in Nat /\ n \in 0 .. n /\ \A k \in 1 .. n : queue[k] \in D /\ k - 1 \in 0 .. n
  OBVIOUS
<1>7. /\ a[0] = <<>> /\ a[n] = Keep(queue, class) /\ b[0] = <<>> /\ b[n] = Keep(queue, other)
      /\ \A k \in 1 .. n : a[k] = IF queue[k] \in class THEN Append(a[k - 1], queue[k]) ELSE a[k - 1]
      /\ \A k \in 1 .. n : b[k] = IF queue[k] \in other THEN Append(b[k - 1], queue[k]) ELSE b[k - 1]
  BY <1>1, <1>2 DEF KeepRun
<1> HIDE DEF n
<1> DEFINE good == {k \in 0 .. n : Len(a[k]) + Len(b[k]) <= k}
<1>4. 0 \in good
  BY <1>3, <1>7
<1>5. ASSUME NEW k \in 1 .. n, k - 1 \in good PROVE k \in good
  <2>1. a[k - 1] \in Seq(D \cap class) /\ b[k - 1] \in Seq(D \cap other) /\ Len(a[k - 1]) + Len(b[k - 1]) <= k - 1
    BY <1>3, <1>5
  <2>2. queue[k] \in D /\ ~(queue[k] \in class /\ queue[k] \in other)
    BY <1>3
  <2>3. /\ queue[k] \in class => Len(Append(a[k - 1], queue[k])) = Len(a[k - 1]) + 1
        /\ queue[k] \in other => Len(Append(b[k - 1], queue[k])) = Len(b[k - 1]) + 1
        /\ Len(a[k - 1]) \in Nat /\ Len(b[k - 1]) \in Nat
    BY <2>1, <2>2
  <2>5. /\ a[k] = IF queue[k] \in class THEN Append(a[k - 1], queue[k]) ELSE a[k - 1]
        /\ b[k] = IF queue[k] \in other THEN Append(b[k - 1], queue[k]) ELSE b[k - 1]
    BY <1>7
  <2>4. Len(a[k]) + Len(b[k]) <= k
    <3>1. CASE queue[k] \in class
      <4>1. a[k] = Append(a[k - 1], queue[k]) /\ b[k] = b[k - 1]
        BY <2>2, <2>5, <3>1
      <4>2. Len(a[k]) + Len(b[k]) <= Len(a[k - 1]) + Len(b[k - 1]) + 1
        BY <2>3, <3>1, <4>1
      <4>3. Len(a[k]) \in Int /\ Len(b[k]) \in Int /\ k \in Int
        BY <1>3, <2>3, <3>1, <4>1
      <4> QED BY <2>1, <2>3, <4>2, <4>3
    <3>2. CASE queue[k] \in other
      <4>1. a[k] = a[k - 1] /\ b[k] = Append(b[k - 1], queue[k])
        BY <2>2, <2>5, <3>2
      <4>2. Len(a[k]) + Len(b[k]) <= Len(a[k - 1]) + Len(b[k - 1]) + 1
        BY <2>3, <3>2, <4>1
      <4>3. Len(a[k]) \in Int /\ Len(b[k]) \in Int /\ k \in Int
        BY <1>3, <2>3, <3>2, <4>1
      <4> QED BY <2>1, <2>3, <4>2, <4>3
    <3>3. CASE queue[k] \notin class /\ queue[k] \notin other
      <4>1. a[k] = a[k - 1] /\ b[k] = b[k - 1]
        BY <2>2, <2>5, <3>3
      <4>2. Len(a[k]) + Len(b[k]) <= Len(a[k - 1]) + Len(b[k - 1]) + 1
        BY <2>3, <3>3, <4>1
      <4>3. Len(a[k]) \in Int /\ Len(b[k]) \in Int /\ k \in Int
        BY <1>3, <2>3, <3>3, <4>1
      <4> QED BY <2>1, <2>3, <4>2, <4>3
    <3> QED BY <3>1, <3>2, <3>3
  <2> QED BY <2>4
<1> HIDE DEF good
<1>6. n \in good
  BY <1>3, <1>4, <1>5, Climb
<1> QED BY <1>6, <1>7 DEF good, n

LEMMA KeepNone == ASSUME NEW class PROVE Keep(<<>>, class) = <<>>
<1>1. <<>> \in Seq({}) /\ Len(<<>>) = 0
  OBVIOUS
<1>2. PICK run \in [0 .. Len(<<>>) -> Seq({} \cap class)] : KeepRun(run, <<>>, class)
  BY <1>1, KeepRuns
<1> QED BY <1>1, <1>2 DEF KeepRun

LEMMA KeepOne ==
  ASSUME NEW i, NEW class
  PROVE  Keep(<<i>>, class) = IF i \in class THEN <<i>> ELSE <<>>
<1> DEFINE queue == <<i>>
<1>1. queue \in Seq({i}) /\ Len(queue) = 1 /\ queue[1] = i
  OBVIOUS
<1> HIDE DEF queue
<1>2. PICK run \in [0 .. Len(queue) -> Seq({i} \cap class)] : KeepRun(run, queue, class)
  BY <1>1, KeepRuns
<1>3. run[1] = IF i \in class THEN Append(<<>>, i) ELSE <<>>
  BY <1>1, <1>2 DEF KeepRun
<1> QED BY <1>1, <1>2, <1>3 DEF KeepRun, queue

-----------------------------------------------------------------------------
(* Targets and orders.                                                     *)

Typed == leader \in LeaderPosition /\ view \in [Follower -> Int]

\* a is between b and c, on the way from b to c or at an end.
Between(b, a, c) ==
  \/ b <= a /\ a <= c
  \/ c <= a /\ a <= b

LEMMA TargetIs ==
  ASSUME Typed, NEW f \in Follower
  PROVE  /\ Size[f][Abs(leader)] \in Nat /\ Target(f) \in Int
         /\ leader > 0 => Target(f) = Size[f][Abs(leader)]
         /\ leader < 0 => Target(f) = -Size[f][Abs(leader)]
         /\ leader = 0 => Target(f) = 0
<1>1. leader \in Int /\ Abs(leader) \in 0 .. MaxLeader
  BY CopyAssumption DEF Typed, LeaderPosition, Abs
<1>2. Size[f][Abs(leader)] \in Nat
  BY <1>1, CopyAssumption
<1> DEFINE size == Size[f][Abs(leader)]
<1>3. Target(f) = Sign(leader) * size
  BY DEF Target
<1> HIDE DEF size
<1>4. size \in Nat
  BY <1>2 DEF size
<1>5. CASE leader > 0
  <2>1. Sign(leader) = 1
    BY <1>1, <1>5 DEF Sign
  <2> QED BY <1>1, <1>3, <1>4, <1>5, <2>1 DEF size
<1>6. CASE leader < 0
  <2>1. Sign(leader) = -1
    BY <1>1, <1>6 DEF Sign
  <2> QED BY <1>1, <1>3, <1>4, <1>6, <2>1 DEF size
<1>7. CASE leader = 0
  <2>1. Sign(leader) = 0
    BY <1>7 DEF Sign
  <2> QED BY <1>1, <1>3, <1>4, <1>7, <2>1 DEF size
<1> QED BY <1>1, <1>5, <1>6, <1>7

LEMMA LotsAre ==
  ASSUME Typed, NEW f \in Follower
  PROVE  /\ view[f] \in Int /\ Lots(f) \in Int /\ view[f] + Lots(f) \in Int
         /\ Between(view[f], view[f] + Lots(f), Target(f))
         /\ Target(f) # view[f] => Lots(f) # 0
         /\ Abs(Target(f) - view[f]) <= PerOrder[f] => view[f] + Lots(f) = Target(f)
<1>1. Target(f) \in Int /\ view[f] \in Int /\ PerOrder[f] \in Nat \ {0}
  BY TargetIs, CopyAssumption DEF Typed
<1> DEFINE delta == Target(f) - view[f]
           lots == Least(Abs(delta), PerOrder[f])
<1>2. Lots(f) = Sign(delta) * lots
  BY DEF Lots
<1>3. delta \in Int
  BY <1>1
<1> HIDE DEF delta
<1>4. CASE delta > 0
  <2>1. Sign(delta) = 1 /\ lots \in Nat \ {0} /\ lots <= delta /\ (delta <= PerOrder[f] => lots = delta) /\ Abs(delta) = delta
    BY <1>1, <1>3, <1>4 DEF Sign, Abs, Least
  <2> HIDE DEF lots
  <2>2. Lots(f) = lots
    BY <1>2, <2>1
  <2> QED BY <1>1, <1>4, <2>1, <2>2 DEF Between, delta
<1>5. CASE delta < 0
  <2>1. Sign(delta) = -1 /\ lots \in Nat \ {0} /\ lots <= -delta /\ (-delta <= PerOrder[f] => lots = -delta) /\ Abs(delta) = -delta
    BY <1>1, <1>3, <1>5 DEF Sign, Abs, Least
  <2> HIDE DEF lots
  <2>2. Lots(f) = -lots
    BY <1>2, <2>1
  <2> QED BY <1>1, <1>5, <2>1, <2>2 DEF Between, delta
<1>6. CASE delta = 0
  <2>1. Sign(delta) = 0 /\ lots \in Int
    BY <1>1, <1>3, <1>6 DEF Sign, Abs, Least
  <2> HIDE DEF lots
  <2>2. Lots(f) = 0
    BY <1>2, <2>1
  <2> QED BY <1>1, <1>6, <2>2 DEF Between, delta
<1> QED BY <1>3, <1>4, <1>5, <1>6

-----------------------------------------------------------------------------
(* The screening of a group.                                               *)

Screens == [book : [Follower -> Int], cleared : SUBSET Follower]
Unscreened == [book |-> view, cleared |-> {}]

\* Those that have had their turn after k.
Turned(k) == {Group[j] : j \in 1 .. k}

\* The book in which f was cleared: f and those that are left alone stand as
\* the view has them.
ClearedIn(f, book) ==
  /\ Cleared(f, book) /\ book[f] = view[f]
  /\ \A g \in Follower : Skipped(g) => book[g] = view[g]

\* What the screening has come to after k turns.
AfterTurn(screened, k) ==
  /\ \A g \in Follower \ Turned(k) : screened.book[g] = view[g]
  /\ \A g \in Follower : Between(view[g], screened.book[g], Target(g))
  /\ \A g \in Follower : Skipped(g) => screened.book[g] = view[g]
  /\ \A f \in screened.cleared : \E book \in [Follower -> Int] : ClearedIn(f, book)

LEMMA OneTurn ==
  ASSUME NEW k \in 1 .. Len(Group)
  PROVE  Group[k] \in Follower /\ Group[k] \notin Turned(k - 1) /\ Turned(k) = Turned(k - 1) \cup {Group[k]}
<1>1. Len(Group) \in Nat /\ DOMAIN Group = 1 .. Len(Group) /\ IsInjective(Group)
  BY CopyAssumption
<1>2. Group[k] \in Follower
  BY <1>1 DEF Follower, Range
<1>3. ASSUME NEW j \in 1 .. (k - 1) PROVE Group[j] # Group[k]
  BY <1>1 DEF IsInjective
<1>4. Group[k] \notin Turned(k - 1)
  BY <1>3 DEF Turned
<1>5. 1 .. k = 1 .. (k - 1) \cup {k}
  OBVIOUS
<1>6. Turned(k) = Turned(k - 1) \cup {Group[k]}
  BY <1>5 DEF Turned
<1> QED BY <1>2, <1>4, <1>6

LEMMA ScreenSteps ==
  ASSUME Typed, NEW screened \in Screens, NEW f \in Follower
  PROVE  /\ ScreenNext(screened, f) \in Screens
         /\ Cleared(f, screened.book) =>
              /\ ScreenNext(screened, f).cleared = screened.cleared \cup {f}
              /\ ScreenNext(screened, f).book[f] = screened.book[f] + Lots(f)
              /\ \A g \in Follower \ {f} : ScreenNext(screened, f).book[g] = screened.book[g]
         /\ ~Cleared(f, screened.book) => ScreenNext(screened, f) = screened
<1>1. Lots(f) \in Int /\ screened.book \in [Follower -> Int] /\ screened.cleared \in SUBSET Follower
  BY LotsAre DEF Screens
<1>2. CASE Cleared(f, screened.book)
  <2> DEFINE book == [screened.book EXCEPT ![f] = @ + Lots(f)]
  <2>1. ScreenNext(screened, f) = [book |-> book, cleared |-> screened.cleared \cup {f}]
    BY <1>2 DEF ScreenNext
  <2>2. book \in [Follower -> Int] /\ book[f] = screened.book[f] + Lots(f) /\ \A g \in Follower \ {f} : book[g] = screened.book[g]
    BY <1>1
  <2> HIDE DEF book
  <2> QED BY <1>1, <1>2, <2>1, <2>2 DEF Screens
<1>3. CASE ~Cleared(f, screened.book)
  BY <1>3 DEF ScreenNext
<1> QED BY <1>2, <1>3

\* Every follower has its one turn.
LEMMA ScreenedInTurn ==
  ASSUME Typed
  PROVE  \E run \in [0 .. Len(Group) -> Screens] :
           ScreenRun(run, Unscreened) /\ \A k \in 0 .. Len(Group) : AfterTurn(run[k], k)
<1> DEFINE n == Len(Group)
<1>1. n \in Nat
  BY CopyAssumption
<1>2. Unscreened \in Screens /\ \A screened \in Screens : \A f \in Follower : ScreenNext(screened, f) \in Screens
  BY ScreenSteps DEF Unscreened, Screens, Typed
<1>3. PICK run \in [0 .. n -> Screens] : ScreenRun(run, Unscreened)
  BY <1>2, ScreenRuns
<1>4. run[0] = Unscreened /\ \A k \in 1 .. n : run[k] = ScreenNext(run[k - 1], Group[k])
  BY <1>3 DEF ScreenRun
<1> DEFINE good == {k \in 0 .. n : AfterTurn(run[k], k)}
<1>5. 0 \in good
  <2>1. \A g \in Follower : Between(view[g], view[g], Target(g))
    BY TargetIs DEF Between, Typed
  <2>2. AfterTurn(Unscreened, 0)
    BY <2>1 DEF AfterTurn, Unscreened
  <2> QED BY <1>1, <1>4, <2>2
<1> HIDE DEF n
<1>6. ASSUME NEW k \in 1 .. n, AfterTurn(run[k - 1], k - 1)
      PROVE  AfterTurn(run[k], k)
  <2> DEFINE f == Group[k]
             old == run[k - 1]
  <2>1. f \in Follower /\ f \notin Turned(k - 1) /\ Turned(k) = Turned(k - 1) \cup {f}
    BY OneTurn DEF n
  <2>2. old \in Screens /\ run[k] = ScreenNext(old, f)
    BY <1>1, <1>4
  <2>3. AfterTurn(old, k - 1)
    BY <1>6
  <2> HIDE DEF f, old
  <2>4. CASE ~Cleared(f, old.book)
    <3>1. run[k] = old
      BY <2>1, <2>2, <2>4, ScreenSteps
    <3> QED BY <2>1, <2>3, <3>1 DEF AfterTurn
  <2>5. CASE Cleared(f, old.book)
    <3>1. /\ run[k].cleared = old.cleared \cup {f} /\ run[k].book[f] = old.book[f] + Lots(f)
          /\ \A g \in Follower \ {f} : run[k].book[g] = old.book[g]
      BY <2>1, <2>2, <2>5, ScreenSteps
    <3>2. old.book[f] = view[f] /\ ~Skipped(f)
      BY <2>1, <2>3, <2>5 DEF AfterTurn, Cleared
    <3>3. Between(view[f], run[k].book[f], Target(f))
      BY <2>1, <3>1, <3>2, LotsAre
    <3>4. old.book \in [Follower -> Int] /\ ClearedIn(f, old.book)
      BY <2>2, <2>3, <2>5, <3>2 DEF ClearedIn, AfterTurn, Screens
    <3>5. \A g \in Follower \ Turned(k) : run[k].book[g] = view[g]
      BY <2>1, <2>3, <3>1 DEF AfterTurn
    <3>6. \A g \in Follower : Between(view[g], run[k].book[g], Target(g))
      BY <2>3, <3>1, <3>3 DEF AfterTurn
    <3>7. \A g \in Follower : Skipped(g) => run[k].book[g] = view[g]
      BY <2>3, <3>1, <3>2 DEF AfterTurn
    <3>8. \A h \in run[k].cleared : \E book \in [Follower -> Int] : ClearedIn(h, book)
      BY <2>3, <3>1, <3>4 DEF AfterTurn
    <3> QED BY <3>5, <3>6, <3>7, <3>8 DEF AfterTurn
  <2> QED BY <2>4, <2>5
<1>7. \A k \in 1 .. n : k - 1 \in good => k \in good
  <2> SUFFICES ASSUME NEW k \in 1 .. n, k - 1 \in good PROVE k \in good
    OBVIOUS
  <2>1. AfterTurn(run[k - 1], k - 1) /\ k \in 0 .. n
    BY <1>1
  <2> QED BY <1>6, <2>1
<1> HIDE DEF good
<1>8. \A k \in 0 .. n : k \in good
  BY <1>1, <1>5, <1>7, Climb
<1> QED BY <1>3, <1>8 DEF good, n

\* Whoever is cleared was cleared in such a book.
LEMMA ScreenedWas ==
  ASSUME Typed, NEW f \in Screened
  PROVE  f \in Follower /\ \E book \in [Follower -> Int] : ClearedIn(f, book)
<1>1. PICK run \in [0 .. Len(Group) -> Screens] :
        ScreenRun(run, Unscreened) /\ \A k \in 0 .. Len(Group) : AfterTurn(run[k], k)
  BY ScreenedInTurn
<1>2. Len(Group) \in 0 .. Len(Group)
  BY CopyAssumption
<1>3. Screened = run[Len(Group)].cleared
  BY <1>1 DEF Screened, ScreenRun, Unscreened
<1>4. run[Len(Group)] \in Screens /\ AfterTurn(run[Len(Group)], Len(Group))
  BY <1>1, <1>2
<1> QED BY <1>3, <1>4 DEF AfterTurn, Screens

-----------------------------------------------------------------------------
(* The queue and the flush of one follower.                                *)

\* What the pass adds to the queue.
Ordered(f) == IF f \in Screened THEN Append(pending[f], Intent(f)) ELSE pending[f]
First(f) == {i \in Range(Ordered(f)) : i.reducing}

LEMMA QueuedIs ==
  ASSUME NEW f
  PROVE  Queued(f) = Keep(Ordered(f), First(f)) \o Keep(Ordered(f), Range(Ordered(f)) \ First(f))
BY DEF Queued, Ordered, First

LEMMA QueuedHolds ==
  ASSUME NEW f, NEW D, pending[f] \in Seq(D), f \in Screened => Intent(f) \in D
  PROVE  Queued(f) \in Seq(D) /\ Len(Queued(f)) <= Len(pending[f]) + 1
<1>1. Ordered(f) \in Seq(D) /\ Len(Ordered(f)) <= Len(pending[f]) + 1
  BY DEF Ordered
<1> DEFINE late == Range(Ordered(f)) \ First(f)
<1>2. Keep(Ordered(f), First(f)) \in Seq(D \cap First(f)) /\ Keep(Ordered(f), late) \in Seq(D \cap late)
  BY <1>1, KeepSelects
<1>3. Keep(Ordered(f), First(f)) \in Seq(D) /\ Keep(Ordered(f), late) \in Seq(D)
  BY <1>2
<1>4. First(f) \cap late = {}
  OBVIOUS
<1> HIDE DEF late
<1>5. Len(Keep(Ordered(f), First(f))) + Len(Keep(Ordered(f), late)) <= Len(Ordered(f))
  BY <1>1, <1>4, KeepShares
<1>6. Queued(f) = Keep(Ordered(f), First(f)) \o Keep(Ordered(f), late)
  BY QueuedIs DEF late
<1> QED BY <1>1, <1>3, <1>5, <1>6

\* What stays behind.
Left(f) == Keep(Queued(f), Range(Queued(f)) \ Sent(f))

LEMMA LeftHolds ==
  ASSUME NEW f, NEW D, pending[f] \in Seq(D), f \in Screened => Intent(f) \in D
  PROVE  Left(f) \in Seq(D) /\ Len(Left(f)) <= Len(pending[f]) + 1
<1> DEFINE queue == Queued(f)
           back == Range(queue) \ Sent(f)
<1>1. queue \in Seq(D) /\ Len(queue) <= Len(pending[f]) + 1
  BY QueuedHolds
<1> HIDE DEF queue, back
<1>2. Keep(queue, back) \in Seq(D \cap back) /\ Keep(queue, {}) \in Seq(D \cap {})
  BY <1>1, KeepSelects
<1>3. Keep(queue, back) \in Seq(D)
  BY <1>2
<1>4. Len(Keep(queue, back)) + Len(Keep(queue, {})) <= Len(queue)
  <2>1. back \cap {} = {}
    OBVIOUS
  <2> QED BY <1>1, <2>1, KeepShares
<1>5. /\ Len(Keep(queue, back)) \in Nat /\ Len(Keep(queue, {})) \in Nat /\ Len(queue) \in Nat
      /\ Len(pending[f]) \in Nat
  BY <1>1, <1>2
<1>6. Left(f) = Keep(queue, back)
  BY DEF Left, queue, back
<1> QED BY <1>1, <1>3, <1>4, <1>5, <1>6

AccountBefore(f) == [position |-> position[f], used |-> used[f]]

LEMMA FlushedIn ==
  ASSUME NEW f, NEW D, pending[f] \in Seq(D), f \in Screened => Intent(f) \in D,
         NEW Acc, AccountBefore(f) \in Acc, \A account \in Acc : \A i \in D : Carry(f, account, i) \in Acc
  PROVE  Flushed(f) \in Acc
<1> DEFINE queue == Keep(Queued(f), Sent(f))
<1>1. queue \in Seq(D)
  <2>1. Queued(f) \in Seq(D)
    BY QueuedHolds
  <2>2. queue \in Seq(D \cap Sent(f))
    BY <2>1, KeepSelects
  <2> QED BY <2>2
<1>2. Flushed(f) = Carried(f, AccountBefore(f), queue)
  BY DEF Flushed, Carried, AccountBefore
<1> HIDE DEF queue
<1>3. PICK run \in [0 .. Len(queue) -> Acc] : CarryRun(run, f, AccountBefore(f), queue)
  BY <1>1, CarryRuns
<1>4. Len(queue) \in 0 .. Len(queue)
  BY <1>1
<1> QED BY <1>2, <1>3, <1>4 DEF CarryRun

LEMMA CarriedNone == ASSUME NEW f, NEW base PROVE Carried(f, base, <<>>) = base
<1> DEFINE queue == <<>>
           D == {}
           Acc == {base}
<1>1. queue \in Seq(D) /\ Len(queue) = 0 /\ base \in Acc /\ \A a \in Acc : \A i \in D : Carry(f, a, i) \in Acc
  OBVIOUS
<1> HIDE DEF queue, D, Acc
<1>2. PICK run \in [0 .. Len(queue) -> Acc] : CarryRun(run, f, base, queue)
  BY <1>1, CarryRuns
<1> QED BY <1>1, <1>2 DEF CarryRun, queue

LEMMA CarriedOne == ASSUME NEW f, NEW base, NEW i PROVE Carried(f, base, <<i>>) = Carry(f, base, i)
<1> DEFINE queue == <<i>>
           D == {i}
           Acc == {base, Carry(f, base, i)}
<1>1. queue \in Seq(D) /\ Len(queue) = 1 /\ queue[1] = i /\ base \in Acc
  OBVIOUS
<1>2. \A a \in Acc : \A j \in D : Carry(f, a, j) \in Acc
  <2>1. Carry(f, Carry(f, base, i), i) = Carry(f, base, i)
    BY DEF Carry
  <2> QED BY <2>1
<1> HIDE DEF queue, D, Acc
<1>3. PICK run \in [0 .. Len(queue) -> Acc] : CarryRun(run, f, base, queue)
  BY <1>1, <1>2, CarryRuns
<1> QED BY <1>1, <1>3 DEF CarryRun, queue

\* With nothing on its way, a follower is sent the order of this pass alone.
LEMMA FlushedFresh ==
  ASSUME NEW f, pending[f] = <<>>
  PROVE  Flushed(f) = IF f \in Screened /\ Sendable(f, Intent(f)) THEN Carry(f, AccountBefore(f), Intent(f))
                      ELSE AccountBefore(f)
<1>1. CASE f \notin Screened
  <2>1. Queued(f) = <<>>
    <3>1. Ordered(f) = <<>>
      BY <1>1 DEF Ordered
    <3>2. Keep(Ordered(f), First(f)) = <<>> /\ Keep(Ordered(f), Range(Ordered(f)) \ First(f)) = <<>>
      BY <3>1, KeepNone
    <3> QED BY <3>2, QueuedIs
  <2>2. Keep(Queued(f), Sent(f)) = <<>>
    BY <2>1, KeepNone
  <2>3. Flushed(f) = Carried(f, AccountBefore(f), <<>>)
    BY <2>2 DEF Flushed, Carried, AccountBefore
  <2> QED BY <1>1, <2>3, CarriedNone
<1>2. CASE f \in Screened
  <2> DEFINE i == Intent(f)
  <2>1. Ordered(f) = <<i>>
    BY <1>2 DEF Ordered
  <2>2. Range(<<i>>) = {i}
    BY DEF Range
  <2> HIDE DEF i
  <2>3. Queued(f) = <<i>>
    <3>1. CASE i \in First(f)
      <4>1. Keep(<<i>>, First(f)) = <<i>> /\ Keep(<<i>>, {i} \ First(f)) = <<>>
        BY <3>1, KeepOne
      <4> QED BY <2>1, <2>2, <4>1, QueuedIs
    <3>2. CASE i \notin First(f)
      <4>1. Keep(<<i>>, First(f)) = <<>> /\ Keep(<<i>>, {i} \ First(f)) = <<i>>
        BY <3>2, KeepOne
      <4> QED BY <2>1, <2>2, <4>1, QueuedIs
    <3> QED BY <3>1, <3>2
  <2>4. i \in Sent(f) <=> Sendable(f, i)
    BY <2>2, <2>3 DEF Sent
  <2>5. CASE ~Sendable(f, i)
    <3>1. Keep(Queued(f), Sent(f)) = <<>>
      BY <2>3, <2>4, <2>5, KeepOne
    <3>3. Flushed(f) = Carried(f, AccountBefore(f), <<>>)
      BY <3>1 DEF Flushed, Carried, AccountBefore
    <3> QED BY <2>5, <3>3, CarriedNone DEF i
  <2>6. CASE Sendable(f, i)
    <3>1. Keep(Queued(f), Sent(f)) = <<i>>
      BY <2>3, <2>4, <2>6, KeepOne
    <3>3. Flushed(f) = Carried(f, AccountBefore(f), <<i>>)
      BY <3>1 DEF Flushed, Carried, AccountBefore
    <3> QED BY <1>2, <2>6, <3>3, CarriedOne DEF i
  <2> QED BY <2>5, <2>6
<1> QED BY <1>1, <1>2

-----------------------------------------------------------------------------
(* Types.                                                                  *)

IntentType == [lots : Int, reducing : BOOLEAN, key : LeaderPosition \X Int]

AccountType(f) ==
  {account \in [position : Int, used : SUBSET (LeaderPosition \X Int)] :
     Abs(account.position) <= ProviderCap[f]}

TypeInv == TypeOK /\ \A f \in Follower : pending[f] \in Seq(IntentType)

LEMMA IntentTyped == ASSUME Typed, NEW f \in Follower PROVE Intent(f) \in IntentType
<1>1. Lots(f) \in Int /\ Key(f) \in LeaderPosition \X Int
  BY LotsAre, TargetIs DEF Key, Typed
<1>2. Reducing(f) \in BOOLEAN
  BY DEF Reducing
<1> QED BY <1>1, <1>2 DEF Intent, IntentType

LEMMA CarryTyped ==
  ASSUME NEW f \in Follower, NEW account \in AccountType(f), NEW i \in IntentType
  PROVE  Carry(f, account, i) \in AccountType(f)
<1>1. /\ account.position \in Int /\ account.used \subseteq LeaderPosition \X Int
      /\ i.lots \in Int /\ i.key \in LeaderPosition \X Int
  BY DEF AccountType, IntentType
<1>2. CASE i.key \in account.used \/ Abs(account.position + i.lots) > ProviderCap[f]
  BY <1>2 DEF Carry
<1>3. CASE ~(i.key \in account.used \/ Abs(account.position + i.lots) > ProviderCap[f])
  <2> DEFINE after == [position |-> account.position + i.lots, used |-> account.used \cup {i.key}]
  <2>1. Carry(f, account, i) = after
    BY <1>3 DEF Carry
  <2>2. after \in [position : Int, used : SUBSET (LeaderPosition \X Int)]
    BY <1>1
  <2>3. after.position = account.position + i.lots
    OBVIOUS
  <2> HIDE DEF after
  <2>4. Abs(after.position) \in Int /\ ProviderCap[f] \in Int
    BY <1>1, <2>3, CopyAssumption DEF Abs
  <2>5. Abs(after.position) <= ProviderCap[f]
    BY <1>3, <2>3, <2>4
  <2> QED BY <2>1, <2>2, <2>5 DEF AccountType
<1> QED BY <1>2, <1>3

LEMMA TypedState ==
  ASSUME TypeInv, NEW f \in Follower
  PROVE  /\ Typed /\ pending[f] \in Seq(IntentType) /\ AccountBefore(f) \in AccountType(f)
         /\ Intent(f) \in IntentType /\ position[f] \in Int /\ view[f] \in Int /\ Target(f) \in Int
<1>1. Typed
  BY DEF TypeInv, TypeOK, Typed
<1>2. AccountBefore(f) \in AccountType(f)
  BY DEF TypeInv, TypeOK, AccountBefore, AccountType
<1> QED BY <1>1, <1>2, IntentTyped, TargetIs DEF TypeInv, TypeOK

\* What a pass does to one follower.
LEMMA PassIs ==
  ASSUME CopyPass, NEW f \in Follower
  PROVE  position'[f] = Flushed(f).position /\ used'[f] = Flushed(f).used /\ pending'[f] = Left(f)
BY DEF CopyPass, Left

LEMMA TypesPass == ASSUME TypeInv, CopyPass PROVE TypeInv'
<1>1. ASSUME NEW f \in Follower
      PROVE  /\ Flushed(f) \in AccountType(f) /\ Left(f) \in Seq(IntentType)
             /\ Len(Left(f)) <= MaxPending
  <2>1. /\ pending[f] \in Seq(IntentType) /\ AccountBefore(f) \in AccountType(f)
        /\ Intent(f) \in IntentType
    BY TypedState
  <2>2. \A account \in AccountType(f) : \A i \in IntentType : Carry(f, account, i) \in AccountType(f)
    BY CarryTyped
  <2>3. Flushed(f) \in AccountType(f)
    BY <2>1, <2>2, FlushedIn
  <2>4. Left(f) \in Seq(IntentType)
    BY <2>1, LeftHolds
  <2>5. Len(Left(f)) <= MaxPending
    BY PassIs DEF CopyPass
  <2> QED BY <2>3, <2>4, <2>5
<1>2. position' = [f \in Follower |-> Flushed(f).position]
  BY DEF CopyPass
<1>3. \A f \in Follower : /\ Flushed(f).position \in Int /\ Flushed(f).used \subseteq LeaderPosition \X Int
                          /\ Abs(Flushed(f).position) <= ProviderCap[f]
  BY <1>1 DEF AccountType
<1>4. position' \in [Follower -> Int] /\ \A f \in Follower : Abs(position'[f]) <= ProviderCap[f]
  BY <1>2, <1>3
<1>5. \A f \in Follower : used'[f] \subseteq LeaderPosition \X Int
  BY <1>3, PassIs
<1>6. \A f \in Follower : Len(pending'[f]) <= MaxPending /\ pending'[f] \in Seq(IntentType)
  BY <1>1, PassIs
<1>7. UNCHANGED <<leader, moves, view, conn, offline, barred>>
  BY DEF CopyPass
<1> QED BY <1>4, <1>5, <1>6, <1>7 DEF TypeInv, TypeOK

LEMMA TypesNext == ASSUME TypeInv, [Next]_vars PROVE TypeInv'
<1> USE DEF TypeInv, TypeOK
<1>1. CASE CopyPass
  BY <1>1, TypesPass
<1>2. CASE LeaderMoves
  <2>1. /\ leader' \in LeaderPosition /\ moves' \in 0 .. MaxMoves
        /\ UNCHANGED <<position, view, conn, offline, barred, pending, used>>
    BY <1>2, CopyAssumption DEF LeaderMoves, LeaderPosition
  <2> QED BY <2>1
<1>3. ASSUME NEW f \in Follower, Reconcile(f) PROVE TypeInv'
  BY <1>3 DEF Reconcile
<1>4. ASSUME NEW f \in Follower, SetState(f) PROVE TypeInv'
  BY <1>4 DEF SetState
<1>5. ASSUME NEW f \in Follower, Transport(f) PROVE TypeInv'
  BY <1>5 DEF Transport, Toggle
<1>6. ASSUME NEW f \in Follower, Bar(f) PROVE TypeInv'
  BY <1>6 DEF Bar, Toggle
<1>7. CASE UNCHANGED vars
  BY <1>7 DEF vars
<1> QED BY <1>1, <1>2, <1>3, <1>4, <1>5, <1>6, <1>7 DEF Next

LEMMA TypesInit == ASSUME Init PROVE TypeInv
<1>1. \A f \in Follower : position[f] = 0 /\ view[f] = 0 /\ pending[f] = <<>> /\ used[f] = {} /\ conn[f] = "live"
  BY DEF Init
<1>2. position \in [Follower -> Int] /\ view \in [Follower -> Int] /\ conn \in [Follower -> ConnState]
  BY DEF Init, ConnState
<1>3. leader \in LeaderPosition /\ moves \in 0 .. MaxMoves
  BY CopyAssumption DEF Init, LeaderPosition
<1>4. \A f \in Follower : Abs(position[f]) <= ProviderCap[f]
  BY <1>1, CopyAssumption DEF Abs
<1>5. \A f \in Follower : pending[f] \in Seq(IntentType) /\ Len(pending[f]) <= MaxPending
  <2> DEFINE none == <<>>
  <2>1. none \in Seq(IntentType) /\ Len(none) <= MaxPending
    BY CopyAssumption
  <2>2. \A f \in Follower : pending[f] = none
    BY <1>1
  <2> HIDE DEF none
  <2> QED BY <2>1, <2>2
<1> QED BY <1>1, <1>2, <1>3, <1>4, <1>5 DEF Init, TypeInv, TypeOK

(* Nothing the desk computes leaves its type: every position stays within  *)
(* the ceiling of its account at the provider, through stale views,        *)
(* repeated and held-back orders, and no queue outgrows its bound.         *)
THEOREM TypeCorrect == Spec => []TypeOK
<1>1. TypeInv => TypeOK
  BY DEF TypeInv
<1> QED BY <1>1, TypesInit, TypesNext, PTL DEF Spec

-----------------------------------------------------------------------------
(* What an informed pass does.                                             *)

\* Only a pass changes a position.
LEMMA OnlyThePass == ASSUME [Next]_vars, position' # position PROVE CopyPass
BY DEF Next, vars, LeaderMoves, Reconcile, SetState, Transport, Bar

\* One order at most, for what is missing now.
LEMMA InformedOrder ==
  ASSUME TypeInv, CopyPass, Informed, NEW f \in Follower
  PROVE  /\ position'[f] # position[f] => f \in Screened /\ position'[f] = position[f] + Lots(f)
         /\ position'[f] \in Int /\ position[f] = view[f] /\ position[f] \in Int
         /\ Between(position[f], position'[f], Target(f))
<1>1. /\ position[f] = view[f] /\ position[f] \in Int /\ Typed /\ Target(f) \in Int
      /\ position'[f] = Flushed(f).position
  BY TypedState, PassIs DEF Informed
<1>2. Flushed(f) = IF f \in Screened /\ Sendable(f, Intent(f)) THEN Carry(f, AccountBefore(f), Intent(f))
                   ELSE AccountBefore(f)
  BY FlushedFresh DEF Informed
<1>3. AccountBefore(f).position = position[f] /\ Intent(f).lots = Lots(f)
  BY DEF AccountBefore, Intent
<1>4. \/ position'[f] = position[f]
      \/ f \in Screened /\ position'[f] = position[f] + Lots(f)
  BY <1>1, <1>2, <1>3 DEF Carry
<1>5. /\ Between(view[f], view[f] + Lots(f), Target(f)) /\ view[f] + Lots(f) \in Int
      /\ Between(view[f], view[f], Target(f))
  BY <1>1, LotsAre DEF Between
<1> QED BY <1>1, <1>4, <1>5

(* An informed pass moves every follower towards its target and never past *)
(* it, whatever the caps, the sizes and the group's policies are.          *)
THEOREM MovesTowardTarget == Spec => TowardTarget
<1> DEFINE Toward == InformedPass => \A f \in Follower :
             \/ position[f] <= position'[f] /\ position'[f] <= Target(f)
             \/ Target(f) <= position'[f] /\ position'[f] <= position[f]
             \/ position'[f] = position[f]
<1>1. TypeInv /\ [Next]_vars => Toward
  <2> SUFFICES ASSUME TypeInv, [Next]_vars, InformedPass, NEW f \in Follower
               PROVE  \/ position[f] <= position'[f] /\ position'[f] <= Target(f)
                      \/ Target(f) <= position'[f] /\ position'[f] <= position[f]
                      \/ position'[f] = position[f]
    OBVIOUS
  <2>1. CopyPass /\ Informed
    BY OnlyThePass DEF InformedPass
  <2>2. Between(position[f], position'[f], Target(f))
    BY <2>1, InformedOrder
  <2> QED BY <2>2 DEF Between
<1>2. TypeInv /\ [Next]_vars => [Toward]_vars
  BY <1>1
<1> HIDE DEF Toward
<1>3. Spec => [][Toward]_vars
  BY <1>2, TypesInit, TypesNext, PTL DEF Spec
<1> QED BY <1>3 DEF TowardTarget, Toward

(* An informed pass takes a barred account only towards flat and never     *)
(* through it, in a group that blocks reversals.  Without that policy an   *)
(* order that ends on the other side, with less at stake than before, goes *)
(* through as a reduction.                                                 *)
THEOREM OverridesReduce ==
  ASSUME BlockReversals
  PROVE  Spec => OverrideOnlyReduces
<1> DEFINE Reduces == InformedPass => \A f \in barred :
             \/ 0 <= position'[f] /\ position'[f] <= position[f]
             \/ position[f] <= position'[f] /\ position'[f] <= 0
<1>1. TypeInv /\ [Next]_vars => Reduces
  <2> SUFFICES ASSUME TypeInv, [Next]_vars, InformedPass, NEW f \in barred
               PROVE  \/ 0 <= position'[f] /\ position'[f] <= position[f]
                      \/ position[f] <= position'[f] /\ position'[f] <= 0
    OBVIOUS
  <2>1. CopyPass /\ Informed /\ f \in Follower
    BY OnlyThePass DEF InformedPass, TypeInv, TypeOK
  <2>2. /\ Between(position[f], position'[f], Target(f)) /\ Typed /\ position[f] = view[f]
        /\ position[f] \in Int /\ position'[f] \in Int /\ Target(f) \in Int
    BY <2>1, InformedOrder, TypedState
  <2>3. CASE position'[f] = position[f]
    BY <2>2, <2>3
  <2>4. CASE position'[f] # position[f]
    <3>1. f \in Screened
      BY <2>1, <2>4, InformedOrder
    <3>2. PICK book \in [Follower -> Int] : ClearedIn(f, book)
      BY <2>2, <3>1, ScreenedWas
    <3>3. Reducing(f) /\ ~Crosses(f)
      BY <3>2 DEF ClearedIn, Cleared, Skipped
    <3>4. Abs(Target(f)) < Abs(view[f])
      BY <3>3 DEF Reducing
    <3>5. view[f] = 0 \/ Target(f) = 0 \/ Sign(view[f]) = Sign(Target(f))
      BY <3>3 DEF Crosses
    <3>6. \/ 0 <= Target(f) /\ Target(f) <= view[f]
          \/ view[f] <= Target(f) /\ Target(f) <= 0
      BY <2>2, <3>4, <3>5 DEF Abs, Sign
    <3> QED BY <2>2, <3>6 DEF Between
  <2> QED BY <2>3, <2>4
<1>2. TypeInv /\ [Next]_vars => [Reduces]_vars
  BY <1>1
<1> HIDE DEF Reduces
<1>3. Spec => [][Reduces]_vars
  BY <1>2, TypesInit, TypesNext, PTL DEF Spec
<1> QED BY <1>3 DEF OverrideOnlyReduces, Reduces

(* Where no follower's size rounds a held leader position away, an informed *)
(* pass of a group that blocks reversals never brings two accounts to      *)
(* opposite sides.  Both conditions are needed: a follower that is only to *)
(* be closed clears the way in the book for one that opens on the other    *)
(* side, and may then not be reached.                                      *)
THEOREM KeepsOneSide ==
  ASSUME BlockReversals, \A f \in Follower : \A n \in 1 .. MaxLeader : Size[f][n] > 0
  PROVE  Spec => StaysOneSided
<1> DEFINE Stays == InformedPass /\ OneSide(position) => OneSide(position')
<1>1. TypeInv /\ [Next]_vars => Stays
  <2> SUFFICES ASSUME TypeInv, [Next]_vars, InformedPass, OneSide(position)
               PROVE  OneSide(position')
    OBVIOUS
  <2>1. CopyPass /\ Informed
    BY OnlyThePass DEF InformedPass
  <2>2. /\ Typed /\ position \in [Follower -> Int] /\ position = view
        /\ DOMAIN position = Follower /\ DOMAIN position' = Follower
    BY <2>1 DEF Informed, TypeInv, TypeOK, Typed, CopyPass
  <2>3. \A f \in Follower :
          /\ Between(position[f], position'[f], Target(f))
          /\ position'[f] \in Int /\ position[f] \in Int /\ Target(f) \in Int
          /\ position'[f] # position[f] => f \in Screened /\ position'[f] = position[f] + Lots(f)
    BY <2>1, InformedOrder, TypedState
  <2>4. \A f, g \in Follower : ~(position[f] > 0 /\ position[g] < 0)
    BY <2>2 DEF OneSide
  <2>5. /\ leader > 0 => \A f \in Follower : Target(f) > 0
        /\ leader < 0 => \A f \in Follower : Target(f) < 0
        /\ leader = 0 => \A f \in Follower : Target(f) = 0
        /\ leader \in Int
    <3>1. leader \in -MaxLeader .. MaxLeader /\ MaxLeader \in Nat
      BY <2>2, CopyAssumption DEF Typed, LeaderPosition
    <3>2. leader # 0 => Abs(leader) \in 1 .. MaxLeader
      BY <3>1 DEF Abs
    <3>3. \A f \in Follower : leader # 0 => Size[f][Abs(leader)] > 0
      BY <3>2
    <3> QED BY <2>2, <3>1, <3>3, TargetIs
  <2>6. ASSUME NEW f \in Screened
        PROVE  /\ f \in Follower /\ ~Skipped(f)
               /\ ~Reducing(f) => \A g \in Follower : Skipped(g) =>
                    /\ ~(view[f] + Lots(f) > 0 /\ view[g] < 0)
                    /\ ~(view[f] + Lots(f) < 0 /\ view[g] > 0)
    <3>1. f \in Follower
      BY <2>2, ScreenedWas
    <3>2. PICK book \in [Follower -> Int] : ClearedIn(f, book)
      BY <2>2, ScreenedWas
    <3>3. ~Skipped(f) /\ book[f] = view[f] /\ \A g \in Follower : Skipped(g) => book[g] = view[g]
      BY <3>2 DEF ClearedIn, Cleared
    <3>4. ASSUME ~Reducing(f), NEW g \in Follower, Skipped(g)
          PROVE  /\ ~(view[f] + Lots(f) > 0 /\ view[g] < 0)
                 /\ ~(view[f] + Lots(f) < 0 /\ view[g] > 0)
      <4> DEFINE after == [book EXCEPT ![f] = @ + Lots(f)]
      <4>1. OneSide(after)
        BY <3>2, <3>4 DEF ClearedIn, Cleared
      <4>2. DOMAIN after = Follower /\ after[f] = view[f] + Lots(f) /\ after[g] = view[g]
        BY <3>1, <3>3, <3>4
      <4> HIDE DEF after
      <4> QED BY <3>1, <4>1, <4>2 DEF OneSide
    <3> QED BY <3>1, <3>3, <3>4
  <2>7. ASSUME NEW f \in Follower, NEW g \in Follower, position'[f] > 0, position'[g] < 0
        PROVE  FALSE
    <3>1. CASE leader = 0
      <4>1. position[f] > 0 /\ position[g] < 0
        BY <2>3, <2>5, <2>7, <3>1 DEF Between
      <4> QED BY <2>4, <4>1
    <3>2. CASE leader > 0
      <4>1. Target(f) > 0 /\ Target(g) > 0
        BY <2>5, <3>2
      <4>2. position[g] < 0
        BY <2>3, <2>7, <4>1 DEF Between
      <4>3. Skipped(g)
        BY <2>2, <2>3, <4>1, <4>2 DEF Skipped, Crosses, Sign
      <4>4. position[f] <= 0 /\ position'[f] # position[f]
        BY <2>3, <2>4, <2>7, <4>2
      <4>5. f \in Screened /\ view[f] + Lots(f) > 0 /\ view[g] < 0 /\ view[f] <= 0
        BY <2>2, <2>3, <2>7, <4>2, <4>4
      <4>6. ~Skipped(f)
        BY <2>6, <4>5
      <4>7. view[f] = 0
        BY <2>2, <2>3, <4>1, <4>5, <4>6 DEF Skipped, Crosses, Sign
      <4>8. ~Reducing(f)
        BY <2>3, <4>1, <4>7 DEF Reducing, Abs
      <4> QED BY <2>6, <4>3, <4>5, <4>8
    <3>3. CASE leader < 0
      <4>1. Target(f) < 0 /\ Target(g) < 0
        BY <2>5, <3>3
      <4>2. position[f] > 0
        BY <2>3, <2>7, <4>1 DEF Between
      <4>3. Skipped(f)
        BY <2>2, <2>3, <4>1, <4>2 DEF Skipped, Crosses, Sign
      <4>4. position[g] >= 0 /\ position'[g] # position[g]
        BY <2>3, <2>4, <2>7, <4>2
      <4>5. g \in Screened /\ view[g] + Lots(g) < 0 /\ view[f] > 0 /\ view[g] >= 0
        BY <2>2, <2>3, <2>7, <4>2, <4>4
      <4>6. ~Skipped(g)
        BY <2>6, <4>5
      <4>7. view[g] = 0
        BY <2>2, <2>3, <4>1, <4>5, <4>6 DEF Skipped, Crosses, Sign
      <4>8. ~Reducing(g)
        BY <2>3, <4>1, <4>7 DEF Reducing, Abs
      <4> QED BY <2>6, <4>3, <4>5, <4>8
    <3> QED BY <2>5, <3>1, <3>2, <3>3
  <2> QED BY <2>2, <2>7 DEF OneSide
<1>2. TypeInv /\ [Next]_vars => [Stays]_vars
  BY <1>1
<1> HIDE DEF Stays
<1>3. Spec => [][Stays]_vars
  BY <1>2, TypesInit, TypesNext, PTL DEF Spec
<1> QED BY <1>3 DEF StaysOneSided, Stays

-----------------------------------------------------------------------------
(* One move of the leader.                                                 *)

\* The orders that the leader's first move can give rise to.
ThisMove(f) == {i \in IntentType : i.key = Key(f) /\ Between(0, i.lots, Target(f))}

\* A position between flat and the target that one accepted order has made.
Made(f, account) ==
  /\ Between(0, account.position, Target(f)) /\ account.used \subseteq {Key(f)}
  /\ account.used = {} => account.position = 0

OneMove(f) ==
  /\ Between(0, view[f], Target(f)) /\ pending[f] \in Seq(ThisMove(f)) /\ Made(f, AccountBefore(f))

NoMove(f) == position[f] = 0 /\ view[f] = 0 /\ pending[f] = <<>> /\ used[f] = {}

(* Until the leader has moved a second time, every order in a queue stands *)
(* for the same key and leads from flat no further than to the target, and *)
(* a follower that has accepted none is flat.                              *)
MoveInv ==
  /\ moves = 0 => leader = 0 /\ \A f \in Follower : NoMove(f)
  /\ moves = 1 => \A f \in Follower : OneMove(f)

LEMMA CarryMakes ==
  ASSUME NEW f \in Follower, NEW account \in AccountType(f), Made(f, account), NEW i \in ThisMove(f)
  PROVE  Carry(f, account, i) \in AccountType(f) /\ Made(f, Carry(f, account, i))
<1>1. i \in IntentType /\ i.key = Key(f) /\ Between(0, i.lots, Target(f)) /\ i.lots \in Int
  BY DEF ThisMove, IntentType
<1>2. Carry(f, account, i) \in AccountType(f)
  BY <1>1, CarryTyped
<1>3. Carry(f, account, i) = account
      \/ /\ Key(f) \notin account.used
         /\ Carry(f, account, i) = [position |-> account.position + i.lots, used |-> account.used \cup {Key(f)}]
  BY <1>1 DEF Carry
<1>4. CASE /\ Key(f) \notin account.used
           /\ Carry(f, account, i) = [position |-> account.position + i.lots, used |-> account.used \cup {Key(f)}]
  <2>1. account.used = {} /\ account.position = 0
    BY <1>4 DEF Made
  <2>2. Carry(f, account, i).position = i.lots /\ Carry(f, account, i).used = {Key(f)}
    BY <1>1, <1>4, <2>1
  <2> QED BY <1>1, <1>2, <2>2 DEF Made
<1> QED BY <1>2, <1>3, <1>4

LEMMA IntentOfMove ==
  ASSUME TypeInv, NEW f \in Follower, Between(0, view[f], Target(f)), f \in Screened
  PROVE  Intent(f) \in ThisMove(f)
<1>1. Typed /\ Intent(f) \in IntentType /\ view[f] \in Int /\ Target(f) \in Int
  BY TypedState
<1>2. Intent(f).key = Key(f) /\ Intent(f).lots = Lots(f)
  BY DEF Intent
<1>3. Between(view[f], view[f] + Lots(f), Target(f)) /\ Lots(f) \in Int
  BY <1>1, LotsAre
<1>4. Between(0, Lots(f), Target(f))
  BY <1>1, <1>3 DEF Between
<1> QED BY <1>1, <1>2, <1>4 DEF ThisMove

LEMMA MovePass == ASSUME TypeInv, MoveInv, CopyPass PROVE MoveInv'
<1>1. UNCHANGED <<leader, moves, view>>
  BY DEF CopyPass
<1>2. \A f \in Follower : Target(f)' = Target(f) /\ Key(f)' = Key(f) /\ ThisMove(f)' = ThisMove(f)
  BY <1>1 DEF Target, Key, ThisMove
<1>3. ASSUME moves = 0, NEW f \in Follower PROVE NoMove(f)'
  <2>1. NoMove(f) /\ leader = 0 /\ Typed
    BY <1>3, TypedState DEF MoveInv
  <2>2. Target(f) = view[f]
    BY <2>1, TargetIs DEF NoMove
  <2>3. f \notin Screened
    <3>1. ASSUME f \in Screened PROVE FALSE
      <4>1. \E book \in [Follower -> Int] : ClearedIn(f, book)
        BY <2>1, <3>1, ScreenedWas
      <4> QED BY <2>2, <4>1 DEF ClearedIn, Cleared, Skipped
    <3> QED BY <3>1
  <2>4. Flushed(f) = AccountBefore(f)
    BY <2>1, <2>3, FlushedFresh DEF NoMove
  <2>5. Left(f) = <<>>
    <3>1. Ordered(f) = <<>>
      BY <2>1, <2>3 DEF Ordered, NoMove
    <3>2. Keep(Ordered(f), First(f)) = <<>> /\ Keep(Ordered(f), Range(Ordered(f)) \ First(f)) = <<>>
      BY <3>1, KeepNone
    <3>3. Queued(f) = <<>>
      BY <3>2, QueuedIs
    <3> QED BY <3>3, KeepNone DEF Left
  <2>6. position'[f] = 0 /\ used'[f] = {} /\ pending'[f] = <<>>
    BY <2>1, <2>4, <2>5, PassIs DEF AccountBefore, NoMove
  <2> QED BY <1>1, <2>1, <2>6 DEF NoMove
<1>4. ASSUME moves = 1, NEW f \in Follower PROVE OneMove(f)'
  <2>1. OneMove(f) /\ AccountBefore(f) \in AccountType(f)
    BY <1>4, TypedState DEF MoveInv
  <2>2. f \in Screened => Intent(f) \in ThisMove(f)
    BY <2>1, IntentOfMove DEF OneMove
  <2> DEFINE Acc == {account \in AccountType(f) : Made(f, account)}
  <2>3. \A account \in Acc : \A i \in ThisMove(f) : Carry(f, account, i) \in Acc
    BY CarryMakes
  <2>4. AccountBefore(f) \in Acc /\ pending[f] \in Seq(ThisMove(f))
    BY <2>1 DEF OneMove
  <2> HIDE DEF Acc
  <2>5. Flushed(f) \in Acc
    BY <2>2, <2>3, <2>4, FlushedIn
  <2>6. Left(f) \in Seq(ThisMove(f))
    BY <2>2, <2>4, LeftHolds
  <2>7. position'[f] = Flushed(f).position /\ used'[f] = Flushed(f).used /\ pending'[f] = Left(f)
    BY PassIs
  <2>8. Made(f, Flushed(f))
    BY <2>5 DEF Acc
  <2>9. Made(f, AccountBefore(f))'
    BY <1>2, <2>7, <2>8 DEF Made, AccountBefore
  <2> QED BY <1>1, <1>2, <2>1, <2>6, <2>7, <2>9 DEF OneMove
<1> QED BY <1>1, <1>3, <1>4 DEF MoveInv

LEMMA MoveLeader == ASSUME TypeInv, MoveInv, LeaderMoves PROVE MoveInv'
<1>1. moves' = moves + 1 /\ moves \in Nat /\ UNCHANGED <<position, view, pending, used>> /\ leader' \in LeaderPosition
  BY CopyAssumption DEF LeaderMoves, TypeInv, TypeOK, LeaderPosition
<1>2. ASSUME moves' = 1, NEW f \in Follower PROVE OneMove(f)'
  <2>1. NoMove(f)
    BY <1>1, <1>2 DEF MoveInv
  <2>2. Size[f][Abs(leader')] \in Int /\ Sign(leader') \in {-1, 0, 1}
    BY <1>1, CopyAssumption DEF LeaderPosition, Abs, Sign
  <2>3. Target(f)' \in Int
    <3>1. Target(f)' = Sign(leader') * Size[f][Abs(leader')]
      BY DEF Target
    <3> QED BY <2>2, <3>1
  <2>4. pending'[f] = <<>> /\ view'[f] = 0 /\ position'[f] = 0 /\ used'[f] = {}
    BY <1>1, <2>1 DEF NoMove
  <2>5. Between(0, 0, Target(f)')
    BY <2>3 DEF Between
  <2>6. pending'[f] \in Seq(ThisMove(f)')
    BY <2>4
  <2> QED BY <2>4, <2>5, <2>6 DEF OneMove, Made, AccountBefore
<1> QED BY <1>1, <1>2 DEF MoveInv

LEMMA MoveReconcile == ASSUME TypeInv, MoveInv, NEW f \in Follower, Reconcile(f) PROVE MoveInv'
<1>1. view' = [view EXCEPT ![f] = position[f]] /\ UNCHANGED <<leader, moves, position, pending, used>>
  BY DEF Reconcile
<1>2. \A g \in Follower : view'[g] = view[g] \/ view'[g] = position[g]
  BY <1>1 DEF TypeInv, TypeOK
<1>3. \A g \in Follower : /\ Target(g)' = Target(g) /\ Key(g)' = Key(g) /\ ThisMove(g)' = ThisMove(g)
                          /\ AccountBefore(g)' = AccountBefore(g)
  BY <1>1 DEF Target, Key, ThisMove, AccountBefore
<1>4. \A g \in Follower : NoMove(g) => NoMove(g)'
  BY <1>1, <1>2 DEF NoMove
<1>5. ASSUME NEW g \in Follower, OneMove(g) PROVE OneMove(g)'
  <2>1. Between(0, view'[g], Target(g))
    BY <1>2, <1>5 DEF OneMove, Made, AccountBefore
  <2>2. Made(g, AccountBefore(g))'
    BY <1>3, <1>5 DEF OneMove, Made
  <2> QED BY <1>1, <1>3, <1>5, <2>1, <2>2 DEF OneMove
<1> QED BY <1>1, <1>4, <1>5 DEF MoveInv

LEMMA MoveOther ==
  ASSUME MoveInv, UNCHANGED <<leader, moves, position, view, pending, used>>
  PROVE  MoveInv'
<1>1. \A g \in Follower : /\ Target(g)' = Target(g) /\ Key(g)' = Key(g) /\ ThisMove(g)' = ThisMove(g)
                          /\ AccountBefore(g)' = AccountBefore(g)
  BY DEF Target, Key, ThisMove, AccountBefore
<1>2. \A g \in Follower : NoMove(g) => NoMove(g)'
  BY DEF NoMove
<1>3. \A g \in Follower : OneMove(g) => OneMove(g)'
  BY <1>1 DEF OneMove, Made
<1> QED BY <1>2, <1>3 DEF MoveInv

(* However stale the desk's view is, and however often an order is         *)
(* repeated, held back or retried, one move of the leader never makes a    *)
(* follower hold more than the leader's position calls for.                *)
THEOREM OneMoveNeverOversizes == Spec => []NeverOversized
<1>1. Init => MoveInv
  <2> SUFFICES ASSUME Init PROVE MoveInv
    OBVIOUS
  <2>1. \A f \in Follower : NoMove(f)
    BY DEF Init, NoMove
  <2> QED BY <2>1 DEF Init, MoveInv
<1>2. TypeInv /\ MoveInv /\ [Next]_vars => MoveInv'
  <2> SUFFICES ASSUME TypeInv, MoveInv, [Next]_vars PROVE MoveInv'
    OBVIOUS
  <2>1. CASE CopyPass
    BY <2>1, MovePass
  <2>2. CASE LeaderMoves
    BY <2>2, MoveLeader
  <2>3. ASSUME NEW f \in Follower, Reconcile(f) PROVE MoveInv'
    BY <2>3, MoveReconcile
  <2>4. CASE UNCHANGED vars \/ \E f \in Follower : SetState(f) \/ Transport(f) \/ Bar(f)
    <3>1. UNCHANGED <<leader, moves, position, view, pending, used>>
      BY <2>4 DEF SetState, Transport, Bar, vars
    <3> QED BY <3>1, MoveOther
  <2> QED BY <2>1, <2>2, <2>3, <2>4 DEF Next
<1>3. TypeInv /\ MoveInv => NeverOversized
  <2> SUFFICES ASSUME TypeInv, MoveInv, moves <= 1, NEW f \in Follower
               PROVE  Abs(position[f]) <= Abs(Target(f))
    BY DEF NeverOversized
  <2>1. position[f] \in Int /\ Target(f) \in Int
    BY TypedState
  <2>2. moves = 0 \/ moves = 1
    BY CopyAssumption DEF TypeInv, TypeOK
  <2>3. Between(0, position[f], Target(f))
    <3>1. CASE moves = 0
      BY <2>1, <3>1 DEF MoveInv, NoMove, Between
    <3>2. CASE moves = 1
      BY <3>2 DEF MoveInv, OneMove, Made, AccountBefore
    <3> QED BY <2>2, <3>1, <3>2
  <2> QED BY <2>1, <2>3 DEF Between, Abs
<1> QED BY <1>1, <1>2, <1>3, TypesInit, TypesNext, PTL DEF Spec

-----------------------------------------------------------------------------
(* Landing on the target.                                                  *)

\* An unhindered follower whose target is one order away is cleared, wherever
\* it stands in the group.
LEMMA UnhinderedClears ==
  ASSUME TypeInv, NEW f \in Follower, Unhindered(f), Target(f) # view[f],
         Abs(Target(f) - view[f]) <= PerOrder[f]
  PROVE  f \in Screened
<1>1. Typed /\ Target(f) \in Int /\ view[f] \in Int
  BY TypedState
<1>2. PICK run \in [0 .. Len(Group) -> Screens] :
        ScreenRun(run, Unscreened) /\ \A k \in 0 .. Len(Group) : AfterTurn(run[k], k)
  BY <1>1, ScreenedInTurn
<1>3. /\ \A k \in 1 .. Len(Group) : run[k] = ScreenNext(run[k - 1], Group[k])
      /\ Screened = run[Len(Group)].cleared /\ Len(Group) \in Nat
  BY <1>2, CopyAssumption DEF ScreenRun, Screened, Unscreened
<1>4. PICK j \in 1 .. Len(Group) : Group[j] = f
  BY CopyAssumption DEF Follower, Range
<1>5. Cleared(f, run[j - 1].book)
  <2> DEFINE book == run[j - 1].book
             after == [book EXCEPT ![f] = @ + Lots(f)]
             goal == [view EXCEPT ![f] = Target(f)]
  <2>1. j - 1 \in 0 .. Len(Group)
    BY <1>3
  <2>2. book \in [Follower -> Int] /\ AfterTurn(run[j - 1], j - 1)
    BY <1>2, <2>1 DEF Screens
  <2>3. book[f] = view[f]
    BY <1>4, <2>2, OneTurn DEF AfterTurn
  <2>4. ~Skipped(f)
    BY DEF Unhindered, Skipped
  <2>5. ConnectionPasses(f, Reducing(f)) /\ f \notin barred
    BY DEF Unhindered, ConnectionPasses
  <2>6. ASSUME ~Reducing(f) PROVE OneSide(after)
    <3>1. OneSide(goal)
      BY DEF Unhindered
    <3>2. /\ DOMAIN goal = Follower /\ goal[f] = Target(f)
          /\ \A g \in Follower \ {f} : goal[g] = view[g]
      BY <1>1 DEF Typed
    <3>3. /\ DOMAIN after = Follower /\ after[f] = Target(f)
          /\ \A g \in Follower \ {f} : after[g] = book[g]
      <4>1. view[f] + Lots(f) = Target(f)
        BY <1>1, LotsAre
      <4> QED BY <2>2, <2>3, <4>1
    <3>4. \A g \in Follower : /\ Between(view[g], book[g], Target(g))
                              /\ view[g] \in Int /\ book[g] \in Int /\ Target(g) \in Int
      BY <2>2, TypedState DEF AfterTurn
    <3> HIDE DEF after, goal, book
    <3>5. Target(f) # 0
      BY <1>1, <2>6 DEF Reducing, Abs
    <3>6. CASE Target(f) > 0
      <4>1. \A g \in Follower : Target(g) >= 0
        BY <1>1, <3>6, TargetIs DEF Typed, LeaderPosition
      <4>2. \A g \in Follower \ {f} : view[g] >= 0
        BY <3>1, <3>2, <3>4, <3>6 DEF OneSide
      <4>3. \A g \in Follower : after[g] >= 0
        BY <3>3, <3>4, <3>6, <4>1, <4>2 DEF Between
      <4> QED BY <3>3, <4>3, <3>4, <1>1 DEF OneSide
    <3>7. CASE Target(f) < 0
      <4>1. \A g \in Follower : Target(g) <= 0
        BY <1>1, <3>7, TargetIs DEF Typed, LeaderPosition
      <4>2. \A g \in Follower \ {f} : view[g] <= 0
        BY <3>1, <3>2, <3>4, <3>7 DEF OneSide
      <4>3. \A g \in Follower : after[g] <= 0
        BY <3>3, <3>4, <3>7, <4>1, <4>2 DEF Between
      <4> QED BY <3>3, <4>3, <3>4, <1>1 DEF OneSide
    <3> QED BY <1>1, <3>5, <3>6, <3>7
  <2> QED BY <2>4, <2>5, <2>6 DEF Cleared
<1> DEFINE good == {k \in 0 .. Len(Group) : k >= j => f \in run[k].cleared}
<1>6. 0 \in good
  BY <1>3, <1>4
<1>7. ASSUME NEW k \in 1 .. Len(Group), k - 1 \in good PROVE k \in good
  <2>1. k \in 0 .. Len(Group) /\ k - 1 \in 0 .. Len(Group) /\ run[k] = ScreenNext(run[k - 1], Group[k])
    BY <1>3
  <2>2. run[k - 1] \in Screens /\ Group[k] \in Follower
    BY <2>1, OneTurn
  <2>3. CASE k = j
    <3>1. f \in run[k].cleared
      BY <1>1, <1>4, <1>5, <2>1, <2>2, <2>3, ScreenSteps
    <3> QED BY <2>1, <3>1
  <2>4. CASE k > j
    <3>1. f \in run[k - 1].cleared
      BY <1>7, <2>4
    <3>2. f \in run[k].cleared
      BY <1>1, <2>1, <2>2, <3>1, ScreenSteps
    <3> QED BY <2>1, <3>2
  <2>5. CASE k < j
    BY <2>1, <2>5
  <2> QED BY <2>3, <2>4, <2>5
<1> HIDE DEF good
<1>8. Len(Group) \in good
  <2>1. \A k \in 0 .. Len(Group) : k \in good
    BY <1>3, <1>6, <1>7, Climb
  <2> QED BY <1>3, <2>1
<1> QED BY <1>3, <1>4, <1>8 DEF good

(* An informed pass takes every follower that nothing hinders to its       *)
(* target, if one order can and the key is new to its provider: whatever   *)
(* came before, in whatever order.                                         *)
THEOREM PassLands == Spec => []LandsOnNewTarget
<1>1. TypeInv => LandsOnNewTarget
  <2> SUFFICES ASSUME TypeInv, NEW f \in Follower, Unhindered(f), Key(f) \notin used[f],
                      Abs(Target(f) - view[f]) <= PerOrder[f]
               PROVE  Flushed(f).position = Target(f)
    BY DEF LandsOnNewTarget
  <2>1. /\ Typed /\ Target(f) \in Int /\ view[f] \in Int /\ position[f] = view[f] /\ pending[f] = <<>>
        /\ AccountBefore(f) = [position |-> position[f], used |-> used[f]]
    BY TypedState DEF Unhindered, Informed, AccountBefore
  <2>2. Flushed(f) = IF f \in Screened /\ Sendable(f, Intent(f)) THEN Carry(f, AccountBefore(f), Intent(f))
                     ELSE AccountBefore(f)
    BY <2>1, FlushedFresh
  <2>3. CASE Target(f) = view[f]
    <3>1. f \notin Screened
      <4>1. ASSUME f \in Screened PROVE FALSE
        <5>1. \E book \in [Follower -> Int] : ClearedIn(f, book)
          BY <2>1, <4>1, ScreenedWas
        <5> QED BY <2>3, <5>1 DEF ClearedIn, Cleared, Skipped
      <4> QED BY <4>1
    <3> QED BY <2>1, <2>2, <2>3, <3>1
  <2>4. CASE Target(f) # view[f]
    <3>1. f \in Screened
      BY <2>4, UnhinderedClears
    <3>2. Sendable(f, Intent(f))
      BY DEF Unhindered, Sendable, ConnectionPasses
    <3>3. Intent(f).lots = Lots(f) /\ Intent(f).key = Key(f)
      BY DEF Intent
    <3>4. position[f] + Lots(f) = Target(f) /\ Lots(f) \in Int
      BY <2>1, LotsAre
    <3>5. Abs(Target(f)) <= ProviderCap[f] /\ Abs(Target(f)) \in Int /\ ProviderCap[f] \in Int
      BY <2>1, CopyAssumption DEF Unhindered, Abs
    <3>6. Carry(f, AccountBefore(f), Intent(f)).position = Target(f)
      BY <2>1, <3>3, <3>4, <3>5 DEF Carry
    <3> QED BY <2>2, <3>1, <3>2, <3>6
  <2> QED BY <2>3, <2>4
<1> QED BY <1>1, TypesInit, TypesNext, PTL DEF Spec
=============================================================================
