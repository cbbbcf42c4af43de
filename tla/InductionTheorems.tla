-------------------------- MODULE InductionTheorems --------------------------
(***************************************************************************)
(* Induction over data: the binary search over checkpoints finds what it   *)
(* searches for, for checkpoints of any length, and sums over finite sets  *)
(* can be taken in any order.  The library's induction theorems take an    *)
(* operator as a parameter; induction is done here with sets instead, from *)
(* the theorem that strict inclusion is well founded on finite sets.  At   *)
(* the end are the rounding facts the amounts and the quorum need, and why *)
(* a recursion along a list ends.                                          *)
(***************************************************************************)
EXTENDS CheckpointSearch, Functions, FiniteSetTheorems, SequenceTheorems,
        WellFoundedInduction, TLAPS

\* A collection of finite sets that is not empty has a minimal element.
LEMMA MinimalSet ==
  ASSUME NEW S, NEW C, C \subseteq FiniteSubsetsOf(S), C # {}
  PROVE  \E m \in C : \A n \in C : n \subseteq m => n = m
<1>1. \E m \in C : \A n \in C : <<n, m>> \notin StrictSubsetOrdering(S)
  BY FS_StrictSubsetOrderingWellFounded, WFMin
<1> QED  BY <1>1 DEF StrictSubsetOrdering, FiniteSubsetsOf

\* A set of natural numbers that is not empty has a least element.
LEMMA LeastNatural ==
  ASSUME NEW T \in SUBSET Nat, T # {}
  PROVE  \E m \in T : \A n \in T : m <= n
<1> DEFINE C == {1 .. n : n \in T}
<1>1. C \subseteq FiniteSubsetsOf(Nat)
  <2> SUFFICES ASSUME NEW n \in T
               PROVE  1 .. n \in FiniteSubsetsOf(Nat)
    OBVIOUS
  <2>1. IsFiniteSet(1 .. n)
    BY FS_Interval
  <2> QED  BY <2>1 DEF FiniteSubsetsOf
<1>2. C # {}
  OBVIOUS
<1>3. PICK m \in C : \A n \in C : n \subseteq m => n = m
  <2> HIDE DEF C
  <2> QED  BY <1>1, <1>2, MinimalSet
<1>4. PICK k \in T : m = 1 .. k
  BY <1>3
<1>5. ASSUME NEW n \in T, n < k
      PROVE  FALSE
  <2>1. 1 .. n \subseteq 1 .. k /\ k \in 1 .. k /\ k \notin 1 .. n
    BY <1>5
  <2> QED  BY <1>3, <1>4, <2>1
<1> QED  BY <1>5

\* A set of positions that is not empty has a last one.
LEMMA LastExists ==
  ASSUME NEW n \in Nat, NEW P, P \subseteq 1 .. n, P # {}
  PROVE  \E m \in P : \A j \in P : j <= m
<1> DEFINE Q == {n - k : k \in P}
<1>0. \A k \in P : k \in Int /\ n - k \in Nat
  OBVIOUS
<1>1. Q \in SUBSET Nat /\ Q # {}
  <2>1. \A q \in Q : q \in Nat
    BY <1>0
  <2>2. PICK k \in P : TRUE
    OBVIOUS
  <2>3. n - k \in Q
    BY <2>2
  <2> HIDE DEF Q
  <2> QED  BY <2>1, <2>3
<1>2. PICK x \in Q : \A y \in Q : x <= y
  <2> HIDE DEF Q
  <2> QED  BY <1>1, LeastNatural
<1>3. PICK m \in P : x = n - m
  OBVIOUS
<1>4. ASSUME NEW j \in P
      PROVE  j <= m
  <2>1. x <= n - j
    BY <1>2
  <2>2. j \in Int /\ m \in Int
    BY <1>0
  <2> QED  BY <1>3, <2>1, <2>2
<1> QED  BY <1>4

\* Complete induction over the natural numbers.
LEMMA CompleteInduction ==
  ASSUME NEW T \in SUBSET Nat,
         \A n \in Nat : (\A m \in Nat : m < n => m \in T) => n \in T
  PROVE  T = Nat
<1> SUFFICES ASSUME Nat \ T # {}
             PROVE  FALSE
  OBVIOUS
<1>1. PICK n \in Nat \ T : \A m \in Nat \ T : n <= m
  <2> DEFINE R == Nat \ T
  <2>1. R \in SUBSET Nat /\ R # {}
    OBVIOUS
  <2> HIDE DEF R
  <2>2. \E n \in R : \A m \in R : n <= m
    BY <2>1, LeastNatural
  <2> QED  BY <2>2 DEF R
<1>2. \A m \in Nat : m < n => m \in T
  BY <1>1
<1> QED  BY <1>1, <1>2

\* Induction over the natural numbers.
LEMMA SimpleInduction ==
  ASSUME NEW T \in SUBSET Nat, 0 \in T, \A n \in T : n + 1 \in T
  PROVE  T = Nat
<1> SUFFICES ASSUME NEW n \in Nat, \A m \in Nat : m < n => m \in T
             PROVE  n \in T
  BY CompleteInduction
<1>1. CASE n = 0
  BY <1>1
<1>2. CASE n # 0
  <2>1. n - 1 \in T /\ (n - 1) + 1 = n
    BY <1>2
  <2> QED  BY <2>1
<1> QED  BY <1>1, <1>2

\* Induction over the subsets of a finite set.
LEMMA SubsetInduction ==
  ASSUME NEW S, IsFiniteSet(S), NEW G \in SUBSET SUBSET S,
         \A T \in SUBSET S : (\A U \in SUBSET T : U # T => U \in G) => T \in G
  PROVE  G = SUBSET S
<1> DEFINE C == (SUBSET S) \ G
<1>1. SUFFICES ASSUME C # {}
               PROVE  FALSE
  OBVIOUS
<1>2. C \subseteq FiniteSubsetsOf(S)
  BY FS_Subset DEF FiniteSubsetsOf
<1> HIDE DEF C
<1>3. PICK m \in C : \A n \in C : n \subseteq m => n = m
  BY <1>1, <1>2, MinimalSet
<1> QED  BY <1>3 DEF C

-----------------------------------------------------------------------------
(* The binary search (CheckpointSearch.tla).                                 *)

\* The middle of a range of two or more positions lies in it, past its beginning.
LEMMA CenterBetween ==
  ASSUME NEW lower \in Nat, NEW upper \in Nat, lower < upper
  PROVE  /\ Center(lower, upper) \in Nat
         /\ lower < Center(lower, upper) /\ Center(lower, upper) <= upper
BY DEF Center

\* One turn of the loop, with the rest of the search given as f.
Turn(cps, block, f, range) ==
  LET lower  == range[1]
      upper  == range[2]
      center == Center(lower, upper)
  IN  IF upper <= lower                      THEN lower
      ELSE IF cps[center].fromBlock = block  THEN center
      ELSE IF cps[center].fromBlock < block  THEN f[<<center, upper>>]
      ELSE f[<<lower, center - 1>>]

Ranges(cps) == (1 .. Len(cps)) \X (1 .. Len(cps))

\* f takes turns on the ranges that are narrower than n.
TakesTurns(cps, block, n, f) ==
  \A range \in Ranges(cps) :
    range[2] - range[1] < n => f[range] = Turn(cps, block, f, range)

\* The loop ends: some function takes turns on all ranges.
LEMMA SearchTerminates ==
  ASSUME NEW cps, NEW block, Len(cps) \in Nat
  PROVE  \E f : f = [range \in Ranges(cps) |-> Turn(cps, block, f, range)]
<1> DEFINE T == {n \in Nat : \E f : TakesTurns(cps, block, n, f)}
<1>1. 0 \in T
  <2> DEFINE f == [range \in Ranges(cps) |-> range[1]]
  <2>1. TakesTurns(cps, block, 0, f)
    BY DEF TakesTurns, Turn, Ranges
  <2> QED  BY <2>1
<1>2. ASSUME NEW n \in T
      PROVE  n + 1 \in T
  <2>1. PICK f : TakesTurns(cps, block, n, f)
    OBVIOUS
  <2> DEFINE g == [range \in Ranges(cps) |-> Turn(cps, block, f, range)]
  <2>2. ASSUME NEW range \in Ranges(cps), range[2] - range[1] < n
        PROVE  g[range] = f[range]
    BY <2>1, <2>2 DEF TakesTurns
  <2>3. ASSUME NEW range \in Ranges(cps), range[2] - range[1] < n + 1
        PROVE  g[range] = Turn(cps, block, g, range)
    <3> DEFINE lower == range[1]
               upper == range[2]
               center == Center(lower, upper)
    <3>1. g[range] = Turn(cps, block, f, range)
      OBVIOUS
    <3>2. CASE upper <= lower
      BY <3>1, <3>2 DEF Turn
    <3>3. CASE lower < upper
      <4>1. /\ lower \in 1 .. Len(cps) /\ upper \in 1 .. Len(cps)
            /\ lower \in Nat /\ upper \in Nat /\ n \in Nat
        BY DEF Ranges
      <4>2. center \in Nat /\ lower < center /\ center <= upper
        BY <3>3, <4>1, CenterBetween
      <4> HIDE DEF center
      <4>3. <<center, upper>> \in Ranges(cps) /\ <<lower, center - 1>> \in Ranges(cps)
        BY <4>1, <4>2 DEF Ranges
      <4>4. upper - center < n /\ (center - 1) - lower < n
        BY <2>3, <4>1, <4>2
      <4> HIDE DEF g
      <4>5. g[<<center, upper>>] = f[<<center, upper>>]
        BY <2>2, <4>3, <4>4
      <4>6. g[<<lower, center - 1>>] = f[<<lower, center - 1>>]
        BY <2>2, <4>3, <4>4
      <4> QED  BY <3>1, <4>5, <4>6 DEF Turn, center
    <3> QED  BY <3>2, <3>3 DEF Ranges
  <2>4. TakesTurns(cps, block, n + 1, g)
    <3> HIDE DEF g
    <3> QED  BY <2>3 DEF TakesTurns
  <2> QED  BY <2>4
<1>3. T = Nat
  <2> HIDE DEF T
  <2>1. T \in SUBSET Nat
    BY DEF T
  <2> QED  BY <1>1, <1>2, <2>1, SimpleInduction
<1>4. PICK f : TakesTurns(cps, block, Len(cps), f)
  BY <1>3
<1> DEFINE g == [range \in Ranges(cps) |-> f[range]]
<1>5. ASSUME NEW range \in Ranges(cps)
      PROVE  g[range] = Turn(cps, block, g, range)
  <2> DEFINE lower == range[1]
             upper == range[2]
             center == Center(lower, upper)
  <2>1. /\ lower \in 1 .. Len(cps) /\ upper \in 1 .. Len(cps)
        /\ lower \in Nat /\ upper \in Nat /\ upper - lower < Len(cps)
    BY DEF Ranges
  <2>2. g[range] = Turn(cps, block, f, range)
    BY <1>4, <2>1 DEF TakesTurns
  <2>3. CASE upper <= lower
    BY <2>2, <2>3 DEF Turn
  <2>4. CASE lower < upper
    <3>1. center \in Nat /\ lower < center /\ center <= upper
      BY <2>1, <2>4, CenterBetween
    <3> HIDE DEF center
    <3>2. <<center, upper>> \in Ranges(cps) /\ <<lower, center - 1>> \in Ranges(cps)
      BY <2>1, <3>1 DEF Ranges
    <3>3. /\ g[<<center, upper>>] = f[<<center, upper>>]
          /\ g[<<lower, center - 1>>] = f[<<lower, center - 1>>]
      BY <3>2
    <3> HIDE DEF g
    <3> QED  BY <2>2, <3>3 DEF Turn, center
  <2> QED  BY <2>1, <2>3, <2>4
<1>6. g = [range \in Ranges(cps) |-> Turn(cps, block, g, range)]
  <2> DEFINE h == [range \in Ranges(cps) |-> Turn(cps, block, g, range)]
  <2> HIDE DEF h
  <2>1. \A range \in Ranges(cps) : g[range] = h[range]
    BY <1>5 DEF h
  <2>2. h = [range \in Ranges(cps) |-> h[range]]
    BY DEF h
  <2> QED  BY <2>1, <2>2 DEF h
<1> QED  BY <1>6

\* So the search is one of them.
LEMMA SearchTakesTurns ==
  ASSUME NEW cps, NEW block, Len(cps) \in Nat
  PROVE  \E f : /\ f = [range \in Ranges(cps) |-> Turn(cps, block, f, range)]
               /\ Search(cps, block) = f[<<1, Len(cps)>>]
<1> DEFINE Searches(f) == f = [range \in Ranges(cps) |-> Turn(cps, block, f, range)]
<1>1. Search(cps, block) = (CHOOSE f : Searches(f))[<<1, Len(cps)>>]
  BY DEF Search, Ranges, Turn
<1>2. Searches(CHOOSE f : Searches(f))
  <2>1. \E f : Searches(f)
    BY SearchTerminates
  <2> QED  BY <2>1
<1> QED  BY <1>1, <1>2

\* The loop's invariant: the first position of the range is at or before the block,
\* the one after its last is not.
Encloses(cps, block, range) ==
  /\ range \in Ranges(cps) /\ range[1] <= range[2]
  /\ cps[range[1]].fromBlock <= block
  /\ range[2] = Len(cps) \/ cps[range[2] + 1].fromBlock > block

\* For a block the checkpoints span, the binary search ends at the last checkpoint at
\* or before it.
THEOREM SearchFindsLast ==
  ASSUME NEW cps, NEW block \in Nat, Len(cps) \in Nat \ {0}, Increasing(cps),
         cps[1].fromBlock <= block
  PROVE  IsLastAtOrBefore(cps, block, Search(cps, block))
<1>1. PICK f : /\ f = [range \in Ranges(cps) |-> Turn(cps, block, f, range)]
               /\ Search(cps, block) = f[<<1, Len(cps)>>]
  BY SearchTakesTurns
<1> DEFINE Found(n) == \A range \in Ranges(cps) :
                        Encloses(cps, block, range) /\ range[2] - range[1] < n
                          => IsLastAtOrBefore(cps, block, f[range])
           T == {n \in Nat : Found(n)}
<1>2. 0 \in T
  BY DEF Encloses, Ranges
<1>3. ASSUME NEW n \in T
      PROVE  n + 1 \in T
  <2> SUFFICES ASSUME NEW range \in Ranges(cps), Encloses(cps, block, range),
                      range[2] - range[1] < n + 1
               PROVE  IsLastAtOrBefore(cps, block, f[range])
    OBVIOUS
  <2> DEFINE lower == range[1]
             upper == range[2]
             center == Center(lower, upper)
  <2>1. /\ lower \in 1 .. Len(cps) /\ upper \in 1 .. Len(cps) /\ lower <= upper
        /\ lower \in Nat /\ upper \in Nat /\ n \in Nat
    BY DEF Ranges, Encloses
  <2>2. f[range] = Turn(cps, block, f, range)
    BY <1>1
  <2>3. CASE upper <= lower
    <3>1. f[range] = lower /\ upper = lower
      BY <2>1, <2>2, <2>3 DEF Turn
    <3>2. ASSUME NEW j \in 1 .. Len(cps), cps[j].fromBlock <= block, lower < j
          PROVE  FALSE
      <4>1. lower + 1 \in 1 .. Len(cps) /\ cps[lower + 1].fromBlock > block
        BY <2>1, <3>1, <3>2 DEF Encloses
      <4>2. j = lower + 1 \/ cps[lower + 1].fromBlock < cps[j].fromBlock
        BY <2>1, <3>2, <4>1 DEF Increasing
      <4> QED  BY <3>2, <4>1, <4>2 DEF Increasing
    <3> QED  BY <2>1, <3>1, <3>2 DEF IsLastAtOrBefore, Encloses
  <2>4. CASE lower < upper
    <3>1. center \in Nat /\ lower < center /\ center <= upper
      BY <2>1, <2>4, CenterBetween
    <3>2. f[range] = IF cps[center].fromBlock = block THEN center
                     ELSE IF cps[center].fromBlock < block THEN f[<<center, upper>>]
                     ELSE f[<<lower, center - 1>>]
      BY <2>1, <2>2, <2>4 DEF Turn
    <3> HIDE DEF center
    <3>3. /\ center \in 1 .. Len(cps) /\ center - 1 \in 1 .. Len(cps)
          /\ cps[center].fromBlock \in Nat
      BY <2>1, <3>1 DEF Increasing
    <3>4. CASE cps[center].fromBlock = block
      <4>1. f[range] = center
        BY <3>2, <3>4
      <4>2. \A j \in 1 .. Len(cps) : center < j => cps[j].fromBlock > block
        BY <3>3, <3>4 DEF Increasing
      <4> QED  BY <3>3, <3>4, <4>1, <4>2 DEF IsLastAtOrBefore, Increasing
    <3>5. CASE cps[center].fromBlock < block
      <4> DEFINE right == <<center, upper>>
      <4>1. f[range] = f[right] /\ right \in Ranges(cps)
        BY <2>1, <3>2, <3>3, <3>5 DEF Ranges
      <4>2. Encloses(cps, block, right) /\ right[2] - right[1] < n
        BY <2>1, <3>1, <3>3, <3>5, <4>1 DEF Encloses
      <4> HIDE DEF right
      <4> QED  BY <4>1, <4>2
    <3>6. CASE cps[center].fromBlock > block
      <4> DEFINE left == <<lower, center - 1>>
      <4>1. f[range] = f[left] /\ left \in Ranges(cps)
        BY <2>1, <3>2, <3>3, <3>6 DEF Ranges
      <4>2. Encloses(cps, block, left) /\ left[2] - left[1] < n
        <5>1. left[1] = lower /\ left[2] = center - 1
          OBVIOUS
        <5> HIDE DEF left
        <5>2. left[1] <= left[2] /\ left[2] - left[1] < n /\ left[2] + 1 = center
          BY <2>1, <3>1, <3>3, <5>1
        <5>3. cps[left[1]].fromBlock <= block
          BY <5>1 DEF Encloses
        <5> QED  BY <3>6, <4>1, <5>2, <5>3 DEF Encloses
      <4> HIDE DEF left
      <4> QED  BY <4>1, <4>2
    <3> QED  BY <3>3, <3>4, <3>5, <3>6
  <2> QED  BY <2>1, <2>3, <2>4
<1>4. T = Nat
  <2> HIDE DEF T
  <2>1. T \in SUBSET Nat
    BY DEF T
  <2> QED  BY <1>2, <1>3, <2>1, SimpleInduction
<1>5. Found(Len(cps))
  BY <1>4
<1>6. Encloses(cps, block, <<1, Len(cps)>>)
  BY DEF Encloses, Ranges
<1> HIDE DEF T
<1> QED  BY <1>1, <1>5, <1>6 DEF Encloses, Ranges

\* There is at most one such checkpoint.
LEMMA OneLast ==
  ASSUME NEW cps, NEW block, NEW i, NEW j, Len(cps) \in Nat,
         IsLastAtOrBefore(cps, block, i), IsLastAtOrBefore(cps, block, j)
  PROVE  i = j
BY DEF IsLastAtOrBefore

-----------------------------------------------------------------------------
(* Sums over finite sets (Functions.tla).                                  *)

\* One addition, with the rest of the sum given as sum.
Addition(fun, sum, T) ==
  IF T = {} THEN 0 ELSE LET x == CHOOSE x \in T : TRUE IN fun[x] + sum[T \ {x}]

Summing(fun, S, sum) == sum = [T \in SUBSET S |-> Addition(fun, sum, T)]

\* sum adds up on the subsets of fewer than n elements.
AddsUp(fun, S, n, sum) ==
  \A T \in SUBSET S : Cardinality(T) < n => sum[T] = Addition(fun, sum, T)

\* The sum ends: some function adds up on all subsets.
LEMMA SummingExists ==
  ASSUME NEW fun, NEW S, IsFiniteSet(S)
  PROVE  \E sum : Summing(fun, S, sum)
<1> DEFINE R == {n \in Nat : \E sum : AddsUp(fun, S, n, sum)}
<1>0. \A T \in SUBSET S : IsFiniteSet(T) /\ Cardinality(T) \in Nat
  BY FS_Subset, FS_CardinalityType
<1>1. 0 \in R
  <2> DEFINE f == [T \in SUBSET S |-> 0]
  <2>1. AddsUp(fun, S, 0, f)
    BY <1>0 DEF AddsUp
  <2> QED  BY <2>1
<1>2. ASSUME NEW n \in R
      PROVE  n + 1 \in R
  <2>1. PICK f : AddsUp(fun, S, n, f)
    OBVIOUS
  <2> DEFINE g == [T \in SUBSET S |-> Addition(fun, f, T)]
  <2>2. ASSUME NEW T \in SUBSET S, Cardinality(T) < n
        PROVE  g[T] = f[T]
    BY <2>1, <2>2 DEF AddsUp
  <2>3. ASSUME NEW T \in SUBSET S, Cardinality(T) < n + 1
        PROVE  g[T] = Addition(fun, g, T)
    <3>1. g[T] = Addition(fun, f, T)
      OBVIOUS
    <3>2. CASE T = {}
      BY <3>1, <3>2 DEF Addition
    <3>3. CASE T # {}
      <4> DEFINE x == CHOOSE x \in T : TRUE
      <4>1. x \in T
        BY <3>3
      <4> HIDE DEF x
      <4>2. Cardinality(T \ {x}) = Cardinality(T) - 1 /\ T \ {x} \in SUBSET S
        BY <1>0, <4>1, FS_RemoveElement
      <4>3. Cardinality(T \ {x}) < n
        BY <1>0, <2>3, <4>2
      <4> HIDE DEF g
      <4>4. g[T \ {x}] = f[T \ {x}]
        BY <2>2, <4>2, <4>3
      <4> QED  BY <3>1, <3>3, <4>4 DEF Addition, x
    <3> QED  BY <3>2, <3>3
  <2>4. AddsUp(fun, S, n + 1, g)
    <3> HIDE DEF g
    <3> QED  BY <2>3 DEF AddsUp
  <2> QED  BY <2>4
<1>3. R = Nat
  <2> HIDE DEF R
  <2>1. R \in SUBSET Nat
    BY DEF R
  <2> QED  BY <1>1, <1>2, <2>1, SimpleInduction
<1>4. PICK f : AddsUp(fun, S, Cardinality(S) + 1, f)
  BY <1>0, <1>3
<1> DEFINE g == [T \in SUBSET S |-> f[T]]
<1>5. ASSUME NEW T \in SUBSET S
      PROVE  g[T] = Addition(fun, g, T)
  <2>1. Cardinality(T) < Cardinality(S) + 1
    BY <1>0, FS_Subset
  <2>2. f[T] = Addition(fun, f, T)
    BY <1>4, <2>1 DEF AddsUp
  <2>3. Addition(fun, f, T) = Addition(fun, g, T)
    BY DEF Addition
  <2> QED  BY <2>2, <2>3
<1>6. Summing(fun, S, g)
  <2> DEFINE h == [T \in SUBSET S |-> Addition(fun, g, T)]
  <2>1. \A T \in SUBSET S : g[T] = h[T]
    BY <1>5
  <2> HIDE DEF h
  <2>2. g = [T \in SUBSET S |-> h[T]]
    BY <2>1
  <2>3. h = [T \in SUBSET S |-> h[T]]
    BY DEF h
  <2>4. g = h
    BY <2>2, <2>3
  <2> HIDE DEF g
  <2> QED  BY <2>4 DEF Summing, h
<1> QED  BY <1>6

\* So the library's sum is the value of one of them at the whole set.
LEMMA SumIsSumming ==
  ASSUME NEW fun, NEW S, IsFiniteSet(S)
  PROVE  \E sum : Summing(fun, S, sum) /\ SumFunctionOnSet(fun, S) = sum[S]
<1>1. SumFunctionOnSet(fun, S) = (CHOOSE sum : Summing(fun, S, sum))[S]
  BY DEF SumFunctionOnSet, FoldFunctionOnSet, MapThenFoldSet, Summing, Addition
<1>2. Summing(fun, S, CHOOSE sum : Summing(fun, S, sum))
  <2>1. \E sum : Summing(fun, S, sum)
    BY SummingExists
  <2> QED  BY <2>1
<1> QED  BY <1>1, <1>2

\* Two of them agree where both are defined and add the same numbers.
LEMMA SummingUnique ==
  ASSUME NEW f, NEW g, NEW S, NEW T, S \subseteq T, IsFiniteSet(S),
         \A x \in S : f[x] = g[x],
         NEW a, Summing(f, S, a), NEW b, Summing(g, T, b)
  PROVE  a[S] = b[S]
<1> DEFINE G == {U \in SUBSET S : a[U] = b[U]}
<1>1. ASSUME NEW U \in SUBSET S, \A V \in SUBSET U : V # U => V \in G
      PROVE  U \in G
  <2>1. a[U] = Addition(f, a, U) /\ b[U] = Addition(g, b, U)
    BY DEF Summing
  <2>2. CASE U = {}
    BY <2>1, <2>2 DEF Addition
  <2>3. CASE U # {}
    <3> DEFINE x == CHOOSE x \in U : TRUE
    <3>1. x \in U
      BY <2>3
    <3>2. a[U] = f[x] + a[U \ {x}] /\ b[U] = g[x] + b[U \ {x}]
      BY <2>1, <2>3 DEF Addition
    <3> HIDE DEF x
    <3>3. a[U \ {x}] = b[U \ {x}]
      BY <1>1, <3>1
    <3> QED  BY <3>1, <3>2, <3>3
  <2> QED  BY <2>2, <2>3
<1>2. G = SUBSET S
  <2> HIDE DEF G
  <2>1. G \in SUBSET SUBSET S
    BY DEF G
  <2> QED  BY <1>1, <2>1, SubsetInduction
<1> QED  BY <1>2

\* Which element is taken first makes no difference.
LEMMA SummingRemoves ==
  ASSUME NEW fun, NEW S, IsFiniteSet(S), \A x \in S : fun[x] \in Nat,
         NEW sum, Summing(fun, S, sum), NEW T \in SUBSET S
  PROVE  /\ sum[T] \in Nat
         /\ \A x \in T : sum[T] = fun[x] + sum[T \ {x}]
<1> DEFINE G == {U \in SUBSET S : /\ sum[U] \in Nat
                                  /\ \A x \in U : sum[U] = fun[x] + sum[U \ {x}]}
<1>1. ASSUME NEW U \in SUBSET S, \A V \in SUBSET U : V # U => V \in G
      PROVE  U \in G
  <2>1. sum[U] = Addition(fun, sum, U)
    BY DEF Summing
  <2>2. CASE U = {}
    BY <2>1, <2>2 DEF Addition
  <2>3. CASE U # {}
    <3> DEFINE c == CHOOSE x \in U : TRUE
    <3>1. c \in U
      BY <2>3
    <3>2. sum[U] = fun[c] + sum[U \ {c}]
      BY <2>1, <2>3 DEF Addition
    <3> HIDE DEF c
    <3>3. sum[U \ {c}] \in Nat /\ fun[c] \in Nat
      BY <1>1, <3>1
    <3>4. ASSUME NEW x \in U, x # c
          PROVE  sum[U] = fun[x] + sum[U \ {x}]
      <4> DEFINE rest == (U \ {c}) \ {x}
      <4>1. sum[U \ {c}] = fun[x] + sum[rest]
        BY <1>1, <3>1, <3>4
      <4>2. U \ {x} \in G /\ c \in U \ {x} /\ rest = (U \ {x}) \ {c}
        BY <1>1, <3>1, <3>4
      <4>3. sum[U \ {x}] = fun[c] + sum[rest]
        BY <4>2
      <4>4. rest \in G
        BY <1>1, <3>1, <3>4
      <4>5. sum[rest] \in Nat /\ fun[x] \in Nat
        BY <4>4
      <4> HIDE DEF rest, G
      <4> QED  BY <3>2, <3>3, <4>1, <4>3, <4>5
    <3>5. sum[U] \in Nat
      BY <3>2, <3>3
    <3>6. \A x \in U : sum[U] = fun[x] + sum[U \ {x}]
      BY <3>2, <3>4
    <3> QED  BY <3>5, <3>6
  <2> QED  BY <2>2, <2>3
<1>2. G = SUBSET S
  <2> HIDE DEF G
  <2>1. G \in SUBSET SUBSET S
    BY DEF G
  <2> QED  BY <1>1, <2>1, SubsetInduction
<1> QED  BY <1>2

\* The empty sum.
LEMMA SumEmpty ==
  ASSUME NEW fun
  PROVE  SumFunctionOnSet(fun, {}) = 0
<1>1. PICK sum : Summing(fun, {}, sum) /\ SumFunctionOnSet(fun, {}) = sum[{}]
  BY SumIsSumming, FS_EmptySet
<1> QED  BY <1>1 DEF Summing, Addition

\* The sum of equal numbers.
LEMMA SumSame ==
  ASSUME NEW f, NEW g, NEW S, IsFiniteSet(S), \A x \in S : f[x] = g[x]
  PROVE  SumFunctionOnSet(f, S) = SumFunctionOnSet(g, S)
<1>1. PICK a : Summing(f, S, a) /\ SumFunctionOnSet(f, S) = a[S]
  BY SumIsSumming
<1>2. PICK b : Summing(g, S, b) /\ SumFunctionOnSet(g, S) = b[S]
  BY SumIsSumming
<1> QED  BY <1>1, <1>2, SummingUnique

\* A sum of natural numbers, with one of them taken out.
LEMMA SumRemove ==
  ASSUME NEW fun, NEW S, IsFiniteSet(S), \A x \in S : fun[x] \in Nat
  PROVE  /\ SumFunctionOnSet(fun, S) \in Nat
         /\ \A x \in S : SumFunctionOnSet(fun, S) = fun[x] + SumFunctionOnSet(fun, S \ {x})
<1>1. PICK sum : Summing(fun, S, sum) /\ SumFunctionOnSet(fun, S) = sum[S]
  BY SumIsSumming
<1>2. sum[S] \in Nat /\ \A x \in S : sum[S] = fun[x] + sum[S \ {x}]
  BY <1>1, SummingRemoves
<1>3. ASSUME NEW x \in S
      PROVE  SumFunctionOnSet(fun, S \ {x}) = sum[S \ {x}]
  <2>1. IsFiniteSet(S \ {x})
    BY FS_Subset
  <2>2. PICK b : Summing(fun, S \ {x}, b) /\ SumFunctionOnSet(fun, S \ {x}) = b[S \ {x}]
    BY <2>1, SumIsSumming
  <2> QED  BY <1>1, <2>1, <2>2, SummingUnique
<1> QED  BY <1>1, <1>2, <1>3

\* A sum with one number added.
LEMMA SumAdd ==
  ASSUME NEW fun, NEW S, IsFiniteSet(S), NEW x, x \notin S, \A y \in S \cup {x} : fun[y] \in Nat
  PROVE  SumFunctionOnSet(fun, S \cup {x}) = fun[x] + SumFunctionOnSet(fun, S)
<1>1. IsFiniteSet(S \cup {x}) /\ (S \cup {x}) \ {x} = S
  BY FS_AddElement
<1> QED  BY <1>1, SumRemove

\* A sum in which one number is replaced.
LEMMA SumReplace ==
  ASSUME NEW f, NEW g, NEW S, IsFiniteSet(S), NEW x \in S,
         \A y \in S : f[y] \in Nat /\ g[y] \in Nat, \A y \in S \ {x} : f[y] = g[y]
  PROVE  SumFunctionOnSet(g, S) = SumFunctionOnSet(f, S) - f[x] + g[x]
<1>1. IsFiniteSet(S \ {x})
  BY FS_RemoveElement
<1>2. SumFunctionOnSet(f, S \ {x}) = SumFunctionOnSet(g, S \ {x})
  BY <1>1, SumSame
<1>3. SumFunctionOnSet(f, S \ {x}) \in Nat
  BY <1>1, SumRemove
<1>4. /\ SumFunctionOnSet(f, S) = f[x] + SumFunctionOnSet(f, S \ {x})
      /\ SumFunctionOnSet(g, S) = g[x] + SumFunctionOnSet(g, S \ {x})
  BY SumRemove
<1> QED  BY <1>2, <1>3, <1>4

\* A sum of larger numbers, over more of them, is at least as large.
LEMMA SumMonotone ==
  ASSUME NEW f, NEW g, NEW S, NEW T, S \subseteq T, IsFiniteSet(T),
         \A x \in T : f[x] \in Nat /\ g[x] \in Nat /\ f[x] <= g[x]
  PROVE  SumFunctionOnSet(f, S) <= SumFunctionOnSet(g, T)
<1> DEFINE G == {U \in SUBSET T : \A V \in SUBSET U :
                   SumFunctionOnSet(f, V) <= SumFunctionOnSet(g, U)}
<1>1. ASSUME NEW U \in SUBSET T, \A V \in SUBSET U : V # U => V \in G
      PROVE  U \in G
  <2> SUFFICES ASSUME NEW V \in SUBSET U
               PROVE  SumFunctionOnSet(f, V) <= SumFunctionOnSet(g, U)
    OBVIOUS
  <2>1. IsFiniteSet(U) /\ IsFiniteSet(V)
    BY FS_Subset
  <2>2. CASE U = {}
    <3>1. U = {} /\ V = {}
      BY <2>2
    <3> QED  BY <3>1, SumEmpty
  <2>3. CASE U # {}
    <3>1. PICK x \in U : TRUE
      BY <2>3
    <3>2. U \ {x} \in G /\ V \ {x} \in SUBSET (U \ {x})
      BY <1>1
    <3>3. SumFunctionOnSet(f, V \ {x}) <= SumFunctionOnSet(g, U \ {x})
      BY <3>2
    <3>4. /\ SumFunctionOnSet(g, U) = g[x] + SumFunctionOnSet(g, U \ {x})
          /\ SumFunctionOnSet(g, U \ {x}) \in Nat /\ g[x] \in Nat /\ f[x] \in Nat /\ f[x] <= g[x]
      <4>1. IsFiniteSet(U \ {x})
        BY <2>1, FS_Subset
      <4> QED  BY <2>1, <4>1, SumRemove
    <3>5. SumFunctionOnSet(f, V \ {x}) \in Nat
      <4>1. IsFiniteSet(V \ {x})
        BY <2>1, FS_Subset
      <4> QED  BY <4>1, SumRemove
    <3>6. CASE x \in V
      <4>1. SumFunctionOnSet(f, V) = f[x] + SumFunctionOnSet(f, V \ {x})
        BY <2>1, <3>6, SumRemove
      <4> QED  BY <3>3, <3>4, <3>5, <4>1
    <3>7. CASE x \notin V
      <4>1. V \ {x} = V
        BY <3>7
      <4>2. SumFunctionOnSet(f, V) = SumFunctionOnSet(f, V \ {x})
        BY <4>1
      <4> HIDE DEF G
      <4> QED  BY <3>3, <3>4, <3>5, <4>2
    <3> QED  BY <3>6, <3>7
  <2> QED  BY <2>2, <2>3
<1>2. G = SUBSET T
  <2> HIDE DEF G
  <2>1. G \in SUBSET SUBSET T
    BY DEF G
  <2> QED  BY <1>1, <2>1, SubsetInduction
<1> QED  BY <1>2

\* The members of S that g maps into T.
InverseImage(S, g, T) == {i \in S : g[i] \in T}

\* What g maps to the members of A, one by one, adds up to what it maps into A.
LEMMA SumOfFibres ==
  ASSUME NEW S, IsFiniteSet(S), NEW g, NEW A, IsFiniteSet(A),
         NEW fun, \A a \in A : fun[a] = Cardinality(InverseImage(S, g, {a}))
  PROVE  SumFunctionOnSet(fun, A) = Cardinality(InverseImage(S, g, A))
<1> DEFINE Into(T) == InverseImage(S, g, T)
           Fibre(a) == InverseImage(S, g, {a})
           G == {T \in SUBSET A : SumFunctionOnSet(fun, T) = Cardinality(Into(T))}
<1> USE DEF InverseImage
<1>1. \A T \in SUBSET A : IsFiniteSet(Into(T)) /\ Cardinality(Into(T)) \in Nat
  BY FS_Subset, FS_CardinalityType
<1>2. \A a \in A : IsFiniteSet(Fibre(a)) /\ Cardinality(Fibre(a)) \in Nat
  BY FS_Subset, FS_CardinalityType
<1>3. ASSUME NEW T \in SUBSET A, \A U \in SUBSET T : U # T => U \in G
      PROVE  T \in G
  <2>1. CASE T = {}
    <3>1. Into(T) = {}
      BY <2>1
    <3> QED  BY <2>1, <3>1, SumEmpty, FS_EmptySet
  <2>2. CASE T # {}
    <3>1. PICK a \in T : TRUE
      BY <2>2
    <3>2. T \ {a} \in G
      BY <1>3
    <3>3. SumFunctionOnSet(fun, T) = fun[a] + SumFunctionOnSet(fun, T \ {a})
      <4>1. IsFiniteSet(T)
        BY FS_Subset
      <4>2. \A x \in T : fun[x] \in Nat
        BY <1>2
      <4> HIDE DEF G, Into, Fibre
      <4> QED  BY <4>1, <4>2, SumRemove
    <3>4. SumFunctionOnSet(fun, T \ {a}) = Cardinality(Into(T \ {a}))
      BY <3>2
    <3>5. Into(T) = Into(T \ {a}) \cup Fibre(a) /\ Into(T \ {a}) \cap Fibre(a) = {}
      OBVIOUS
    <3>6. IsFiniteSet(Into(T \ {a})) /\ IsFiniteSet(Fibre(a)) /\ fun[a] = Cardinality(Fibre(a))
      BY <1>1, <1>2
    <3>7. Cardinality(Into(T \ {a})) \in Nat /\ Cardinality(Fibre(a)) \in Nat
      BY <1>1, <1>2
    <3> HIDE DEF Into, Fibre
    <3>8. Cardinality(Into(T)) = Cardinality(Into(T \ {a})) + Cardinality(Fibre(a))
      <4>1. Cardinality(Into(T \ {a}) \cup Fibre(a))
              = Cardinality(Into(T \ {a})) + Cardinality(Fibre(a))
                  - Cardinality(Into(T \ {a}) \cap Fibre(a))
        BY <3>6, FS_Union
      <4>2. Cardinality(Into(T \ {a}) \cap Fibre(a)) = 0
        BY <3>5, FS_EmptySet
      <4> QED  BY <3>5, <3>7, <4>1, <4>2
    <3> QED  BY <3>3, <3>4, <3>6, <3>7, <3>8
  <2> QED  BY <2>1, <2>2
<1>4. G = SUBSET A
  <2> HIDE DEF G
  <2>1. G \in SUBSET SUBSET A
    BY DEF G
  <2> QED  BY <1>3, <2>1, SubsetInduction
<1>5. A \in G
  BY <1>4
<1> QED  BY <1>5

\* Zeros add up to zero.
LEMMA SumOfZeros ==
  ASSUME NEW fun, NEW A, IsFiniteSet(A), \A a \in A : fun[a] = 0
  PROVE  SumFunctionOnSet(fun, A) = 0
<1>1. \A T : InverseImage({}, fun, T) = {}
  BY DEF InverseImage
<1>2. IsFiniteSet({}) /\ Cardinality({}) = 0
  BY FS_EmptySet
<1>3. \A a \in A : fun[a] = Cardinality(InverseImage({}, fun, {a}))
  BY <1>1, <1>2
<1>4. SumFunctionOnSet(fun, A) = Cardinality(InverseImage({}, fun, A))
  BY <1>2, <1>3, SumOfFibres
<1> QED  BY <1>1, <1>2, <1>4

\* No two consecutive numbers are multiples of a step above one.
LEMMA AfterAMultiple ==
  ASSUME NEW id \in Nat, NEW step \in Nat, step > 1, id % step = 0
  PROVE  (id + 1) % step # 0
BY SMTT(20)

-----------------------------------------------------------------------------
(* Rounding.                                                               *)

\* The integer quotient, by its defining property.
LEMMA Quotient ==
  ASSUME NEW a \in Nat, NEW n \in Nat \ {0}
  PROVE  /\ a \div n \in Nat
         /\ n * (a \div n) <= a
         /\ a < n * (a \div n) + n
OBVIOUS

\* Larger factors give larger products.
LEMMA ProductMonotone ==
  ASSUME NEW a \in Nat, NEW b \in Nat, NEW n \in Nat, a <= b
  PROVE  n * a <= n * b
OBVIOUS

-----------------------------------------------------------------------------
(* Recursion.                                                              *)

\* f takes a turn at each of the first n naturals.
Iterates(S, start, n, turn, f) ==
  f \in [0 .. n -> S] /\ f[0] = start /\ \A k \in 1 .. n : f[k] = turn[k][f[k - 1]]

\* A recursion along the first n naturals ends: some function takes every turn.
LEMMA IterationExists ==
  ASSUME NEW S, NEW start \in S, NEW n \in Nat, NEW turn \in [1 .. n -> [S -> S]]
  PROVE  \E f : Iterates(S, start, n, turn, f)
<1> DEFINE Walks(m, f) ==
             /\ f \in [0 .. m -> S] /\ f[0] = start
             /\ \A k \in 1 .. m : f[k] = turn[k][f[k - 1]]
           T == {m \in Nat : m <= n => \E f : Walks(m, f)}
<1>1. 0 \in T
  <2>1. Walks(0, [k \in 0 .. 0 |-> start])
    OBVIOUS
  <2> QED  BY <2>1
<1>2. ASSUME NEW m \in T
      PROVE  m + 1 \in T
  <2>0. m + 1 \in Nat
    OBVIOUS
  <2> SUFFICES ASSUME m + 1 <= n
               PROVE  \E f : Walks(m + 1, f)
    <3> HIDE DEF Walks
    <3> QED  BY <2>0
  <2>1. m \in Nat /\ m <= n /\ m + 1 \in 1 .. n
    OBVIOUS
  <2>2. PICK f : Walks(m, f)
    BY <2>1
  <2> DEFINE g == [k \in 0 .. m + 1 |-> IF k <= m THEN f[k] ELSE turn[m + 1][f[m]]]
  <2>3. f[m] \in S /\ turn[m + 1] \in [S -> S]
    BY <2>1, <2>2
  <2>4. g \in [0 .. m + 1 -> S]
    BY <2>1, <2>2, <2>3
  <2>5. ASSUME NEW k \in 1 .. m + 1
        PROVE  g[k] = turn[k][g[k - 1]]
    <3>1. k - 1 \in 0 .. m /\ g[k - 1] = f[k - 1]
      BY <2>1
    <3>2. CASE k <= m
      <4>1. k \in 1 .. m /\ g[k] = f[k]
        BY <2>1, <3>2
      <4> QED  BY <2>2, <3>1, <4>1
    <3>3. CASE k = m + 1
      <4>1. ~(m + 1 <= m) /\ k - 1 = m
        BY <2>1, <3>3
      <4> QED  BY <3>1, <3>3, <4>1
    <3> QED  BY <2>1, <3>2, <3>3
  <2>6. g[0] = start
    BY <2>1, <2>2
  <2> HIDE DEF g
  <2> QED  BY <2>4, <2>5, <2>6
<1>3. T = Nat
  <2> HIDE DEF T
  <2>1. T \in SUBSET Nat
    BY DEF T
  <2> QED  BY <1>1, <1>2, <2>1, SimpleInduction
<1> QED  BY <1>3 DEF Iterates

\* f joins the sequences one after the other.
Flattens(seqs, n, f) ==
  f = [i \in 1 .. n |-> IF i = 1 THEN seqs[i] ELSE f[i - 1] \o seqs[i]]

\* The recursion over the sequences ends.
LEMMA FlatteningExists ==
  ASSUME NEW S, NEW n \in Nat, NEW seqs \in [1 .. n -> Seq(S)]
  PROVE  \E f : Flattens(seqs, n, f)
<1> DEFINE Q == Seq(S)
           start == <<>>
           turn == [i \in 1 .. n |-> [q \in Q |-> IF i = 1 THEN seqs[i] ELSE q \o seqs[i]]]
<1>1. start \in Q /\ turn \in [1 .. n -> [Q -> Q]]
  <2>1. \A i \in 1 .. n, q \in Q : q \o seqs[i] \in Q
    BY ConcatProperties
  <2>2. \A i \in 1 .. n : seqs[i] \in Q
    OBVIOUS
  <2>3. start \in Q
    OBVIOUS
  <2> HIDE DEF Q
  <2> QED  BY <2>1, <2>2, <2>3
<1>2. PICK g : Iterates(Q, start, n, turn, g)
  <2> HIDE DEF Q, start, turn
  <2> QED  BY <1>1, IterationExists
<1> DEFINE f == [i \in 1 .. n |-> g[i]]
<1>3. ASSUME NEW i \in 1 .. n
      PROVE  f[i] = IF i = 1 THEN seqs[i] ELSE f[i - 1] \o seqs[i]
  <2>1. g[i] = turn[i][g[i - 1]] /\ g \in [0 .. n -> Q] /\ i - 1 \in 0 .. n
    <3> HIDE DEF Q, turn, start
    <3> QED  BY <1>2 DEF Iterates
  <2>0. g[i - 1] \in Q
    <3> HIDE DEF Q, turn
    <3> QED  BY <2>1
  <2>2. g[i] = IF i = 1 THEN seqs[i] ELSE g[i - 1] \o seqs[i]
    <3> HIDE DEF Q
    <3> QED  BY <2>0, <2>1
  <2>3. i # 1 => f[i - 1] = g[i - 1]
    OBVIOUS
  <2> QED  BY <2>2, <2>3
<1>4. Flattens(seqs, n, f)
  <2> DEFINE h == [i \in 1 .. n |-> IF i = 1 THEN seqs[i] ELSE f[i - 1] \o seqs[i]]
  <2>1. \A i \in 1 .. n : f[i] = h[i]
    BY <1>3
  <2>2. f = [i \in 1 .. n |-> f[i]] /\ h = [i \in 1 .. n |-> h[i]]
    OBVIOUS
  <2> HIDE DEF f, h
  <2>3. f = h
    BY <2>1, <2>2
  <2> QED  BY <2>3 DEF Flattens, h
<1> QED  BY <1>4
=============================================================================
