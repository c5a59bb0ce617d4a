---------------------------- MODULE FoldTheorems ----------------------------
(***************************************************************************)
(* What a fold over a finite set computes.  The folds of the community     *)
(* modules are recursive functions on the subsets of the set they fold; a  *)
(* set that is closed under a step takes the place of the predicate of an  *)
(* induction.                                                              *)
(***************************************************************************)
EXTENDS Integers, FiniteSets, Functions, FiniteSetTheorems, WellFoundedInduction, TLAPS

\* Of a finite set's subsets, a family that is not empty has a least one.
LEMMA LeastSubset ==
  ASSUME NEW S, IsFiniteSet(S), NEW B \in SUBSET SUBSET S, B # {}
  PROVE  \E T \in B : \A U \in B : U \subseteq T => U = T
<1> DEFINE R == StrictSubsetOrdering(S)
<1>1. B \subseteq FiniteSubsetsOf(S)
  BY FS_Subset DEF FiniteSubsetsOf
<1>2. IsWellFoundedOn(R, FiniteSubsetsOf(S))
  BY FS_StrictSubsetOrderingWellFounded
<1> HIDE DEF R
<1>3. PICK T \in B : \A U \in B : <<U, T>> \notin R
  BY <1>1, <1>2, WFMin
<1>4. ASSUME NEW U \in B, U \subseteq T PROVE U = T
  BY <1>3, <1>4 DEF R, StrictSubsetOrdering
<1> QED
  BY <1>3, <1>4

\* Induction over a finite set: a family of subsets that holds the empty one, and
\* each one with an element more, holds all of them.
LEMMA SubsetInduction ==
  ASSUME NEW S, IsFiniteSet(S), NEW K, {} \in K,
         \A T \in SUBSET S : \A x \in S \ T : T \in K => T \union {x} \in K
  PROVE  SUBSET S \subseteq K
<1> SUFFICES ASSUME (SUBSET S) \ K # {} PROVE FALSE
  OBVIOUS
<1> DEFINE B == (SUBSET S) \ K
<1>0. B \in SUBSET SUBSET S /\ B # {}
  OBVIOUS
<1>1. PICK T \in B : \A U \in B : U \subseteq T => U = T
  <2> HIDE DEF B
  <2> QED
    BY <1>0, LeastSubset
<1>2. PICK x : x \in T
  OBVIOUS
<1>3. T \ {x} \in K /\ x \in S \ (T \ {x}) /\ T \ {x} \in SUBSET S
  BY <1>1, <1>2
<1>4. (T \ {x}) \union {x} = T
  BY <1>2
<1>5. (T \ {x}) \union {x} \in K
  BY <1>3
<1> QED
  BY <1>1, <1>4, <1>5

\* Induction over the natural numbers.
LEMMA NumberInduction ==
  ASSUME NEW K, 0 \in K, \A n \in Nat : n \in K => n + 1 \in K
  PROVE  Nat \subseteq K
<1> SUFFICES ASSUME NEW m \in Nat, m \notin K PROVE FALSE
  OBVIOUS
<1> DEFINE S == 0..m
           B == {0..n : n \in {i \in S : i \notin K}}
<1>1. IsFiniteSet(S)
  BY FS_Interval
<1>2. B \in SUBSET SUBSET S /\ B # {}
  <2>1. m \in S /\ 0..m \in B
    OBVIOUS
  <2>2. \A n \in S : 0..n \subseteq S
    OBVIOUS
  <2> QED
    BY <2>1, <2>2
<1>3. PICK T \in B : \A U \in B : U \subseteq T => U = T
  <2> HIDE DEF B, S
  <2> QED
    BY <1>1, <1>2, LeastSubset
<1>4. PICK n \in S : n \notin K /\ T = 0..n
  BY <1>3
<1>5. n # 0 /\ n - 1 \in Nat /\ n - 1 \in S
  BY <1>4
<1>6. n - 1 \notin K
  BY <1>4, <1>5
<1>7. 0..(n - 1) \in B
  BY <1>5, <1>6
<1>8. 0..(n - 1) \subseteq 0..n /\ 0..(n - 1) # 0..n
  BY <1>5
<1> QED
  BY <1>3, <1>4, <1>7, <1>8

\* A fold is a function on subsets that takes out one element at a time: there is
\* one, whichever element pick takes.
Folds(g, S, pick, base, step) ==
  \A T \in SUBSET S :
    g[T] = IF T = {} THEN base ELSE step[<<pick[T], g[T \ {pick[T]}]>>]

LEMMA FoldExists ==
  ASSUME NEW S, IsFiniteSet(S), NEW V, NEW base \in V, NEW step \in [S \X V -> V],
         NEW pick, \A T \in SUBSET S : T # {} => pick[T] \in T
  PROVE  \E g \in [SUBSET S -> V] : Folds(g, S, pick, base, step)
<1> DEFINE Up(g, T) == IF T = {} THEN base ELSE step[<<pick[T], g[T \ {pick[T]}]>>]
           Upto(g, n) == \A T \in SUBSET S : Cardinality(T) <= n => g[T] = Up(g, T)
           K == {n \in Nat : \E g \in [SUBSET S -> V] : Upto(g, n)}
<1>1. \A T \in SUBSET S : IsFiniteSet(T) /\ Cardinality(T) \in Nat
  BY FS_Subset, FS_CardinalityType
<1>2. \A T \in SUBSET S : Cardinality(T) <= 0 => T = {}
  BY <1>1, FS_EmptySet
<1>3. 0 \in K
  <2>1. [T \in SUBSET S |-> base] \in [SUBSET S -> V]
    OBVIOUS
  <2>2. Upto([T \in SUBSET S |-> base], 0)
    BY <1>2
  <2> QED
    BY <2>1, <2>2
<1>4. ASSUME NEW n \in Nat, n \in K
      PROVE  n + 1 \in K
  <2>1. PICK g \in [SUBSET S -> V] : Upto(g, n)
    BY <1>4
  <2> DEFINE h == [T \in SUBSET S |-> Up(g, T)]
  <2>2. h \in [SUBSET S -> V]
    <3>1. ASSUME NEW T \in SUBSET S PROVE Up(g, T) \in V
      <4>1. CASE T = {}
        BY <4>1
      <4>2. CASE T # {}
        <5>1. pick[T] \in S /\ T \ {pick[T]} \in SUBSET S
          BY <4>2
        <5>2. g[T \ {pick[T]}] \in V
          BY <5>1
        <5> QED
          BY <4>2, <5>1, <5>2
      <4> QED
        BY <4>1, <4>2
    <3> QED
      BY <3>1
  <2>3. ASSUME NEW T \in SUBSET S, Cardinality(T) <= n PROVE h[T] = g[T]
    BY <2>1, <2>3
  <2>4. ASSUME NEW T \in SUBSET S, Cardinality(T) <= n + 1, T # {}
        PROVE  h[T \ {pick[T]}] = g[T \ {pick[T]}]
    <3>1. pick[T] \in T /\ T \ {pick[T]} \in SUBSET S
      BY <2>4
    <3>2. Cardinality(T \ {pick[T]}) = Cardinality(T) - 1
      BY <1>1, <3>1, FS_RemoveElement
    <3>3. Cardinality(T \ {pick[T]}) <= n
      BY <1>1, <2>4, <3>2
    <3> HIDE DEF h
    <3> QED
      BY <2>3, <3>1, <3>3
  <2>5. Upto(h, n + 1)
    <3> SUFFICES ASSUME NEW T \in SUBSET S, Cardinality(T) <= n + 1
                 PROVE  h[T] = Up(h, T)
      OBVIOUS
    <3>1. h[T] = Up(g, T)
      OBVIOUS
    <3> HIDE DEF h
    <3> QED
      BY <2>4, <3>1
  <2> HIDE DEF h, Upto
  <2> QED
    BY <2>2, <2>5
<1>5. Cardinality(S) \in K
  <2> HIDE DEF K
  <2> QED
    BY <1>1, <1>3, <1>4, NumberInduction
<1>6. \A T \in SUBSET S : Cardinality(T) <= Cardinality(S)
  BY FS_Subset
<1>7. PICK g \in [SUBSET S -> V] : Upto(g, Cardinality(S))
  BY <1>5
<1> QED
  BY <1>6, <1>7 DEF Folds

-----------------------------------------------------------------------------
(* A fold over a sequence takes out the greatest index first. *)

TopOf(T) == CHOOSE x \in T : \A y \in T : x >= y

\* A finite set of numbers has a greatest element.
LEMMA TopOfIs ==
  ASSUME NEW n \in Nat, NEW T \in SUBSET (1..n), T # {}
  PROVE  TopOf(T) \in T /\ \A y \in T : TopOf(T) >= y
<1> DEFINE S == 1..n
           K == {U \in SUBSET S : U = {} \/ \E x \in U : \A y \in U : x >= y}
<1>1. IsFiniteSet(S)
  BY FS_Interval
<1>2. {} \in K
  OBVIOUS
<1>3. ASSUME NEW U \in SUBSET S, NEW z \in S \ U, U \in K
      PROVE  U \union {z} \in K
  <2>1. CASE U = {}
    BY <2>1
  <2>2. CASE U # {}
    <3>1. PICK x \in U : \A y \in U : x >= y
      BY <1>3, <2>2
    <3>2. CASE z >= x
      BY <3>1, <3>2
    <3>3. CASE ~(z >= x)
      BY <3>1, <3>3
    <3> QED
      BY <3>2, <3>3
  <2> QED
    BY <2>1, <2>2
<1>4. SUBSET S \subseteq K
  <2>1. \A U \in SUBSET S : \A z \in S \ U : U \in K => U \union {z} \in K
    BY <1>3
  <2> HIDE DEF K, S
  <2> QED
    BY <1>1, <1>2, <2>1, SubsetInduction
<1>5. \E x \in T : \A y \in T : x >= y
  BY <1>4
<1> QED
  BY <1>5 DEF TopOf

\* What is left of the first n numbers without the greatest one
LEMMA TopOfInterval ==
  ASSUME NEW n \in Nat \ {0}
  PROVE  TopOf(1..n) = n /\ (1..n) \ {TopOf(1..n)} = 1..(n - 1)
<1>1. TopOf(1..n) \in 1..n /\ TopOf(1..n) >= n
  <2>1. 1..n # {} /\ n \in 1..n
    OBVIOUS
  <2> QED
    BY <2>1, TopOfIs
<1> QED
  BY <1>1

\* A fold over n elements from the left: a step that keeps to a set of values can be
\* iterated so.
LeftFolds(g, n, base, op) ==
  \A T \in SUBSET (1..n) :
    g[T] = IF T = {} THEN base ELSE op[<<TopOf(T), g[T \ {TopOf(T)}]>>]

LEMMA FoldLeftExists ==
  ASSUME NEW n \in Nat, NEW V, NEW base \in V, NEW op \in [(1..n) \X V -> V]
  PROVE  \E g \in [SUBSET (1..n) -> V] : LeftFolds(g, n, base, op)
<1> DEFINE S == 1..n
           pick == [T \in SUBSET S |-> TopOf(T)]
<1>1. IsFiniteSet(S)
  BY FS_Interval
<1>2. \A T \in SUBSET S : T # {} => pick[T] \in T
  BY TopOfIs
<1>3. PICK g \in [SUBSET S -> V] : Folds(g, S, pick, base, op)
  <2> HIDE DEF S, pick
  <2>1. op \in [S \X V -> V]
    BY DEF S
  <2> QED
    BY Zenon, <1>1, <1>2, <2>1, FoldExists
<1>4. ASSUME NEW T \in SUBSET S
      PROVE  g[T] = IF T = {} THEN base ELSE op[<<TopOf(T), g[T \ {TopOf(T)}]>>]
  BY <1>3 DEF Folds
<1>5. LeftFolds(g, n, base, op)
  BY <1>4 DEF LeftFolds
<1> QED
  BY <1>5

-----------------------------------------------------------------------------
(* The sum over a finite set. *)

\* The function on subsets that computes it.
SumFolds(g, h, S) ==
  \A T \in SUBSET S :
    g[T] = IF T = {} THEN 0
           ELSE h[CHOOSE x \in T : TRUE] + g[T \ {CHOOSE x \in T : TRUE}]

Summable(h, S) == \A x \in S : h[x] \in Int

\* Two such functions agree.
LEMMA SumFoldsAgree ==
  ASSUME NEW S, IsFiniteSet(S), NEW h, NEW f, NEW g, SumFolds(f, h, S), SumFolds(g, h, S)
  PROVE  \A T \in SUBSET S : f[T] = g[T]
<1> DEFINE B == {T \in SUBSET S : f[T] # g[T]}
<1> SUFFICES ASSUME B # {} PROVE FALSE
  OBVIOUS
<1>1. PICK T \in B : \A U \in B : U \subseteq T => U = T
  <2>1. B \in SUBSET SUBSET S
    OBVIOUS
  <2> HIDE DEF B
  <2> QED
    BY <2>1, LeastSubset
<1>2. T # {}
  BY <1>1 DEF SumFolds
<1> DEFINE x == CHOOSE y \in T : TRUE
<1>3. x \in T
  BY <1>2
<1>4. f[T] = h[x] + f[T \ {x}] /\ g[T] = h[x] + g[T \ {x}]
  BY <1>1, <1>2 DEF SumFolds
<1> HIDE DEF x
<1>5. T \ {x} \in SUBSET S /\ T \ {x} \notin B
  BY <1>1, <1>3
<1> QED
  BY <1>1, <1>4, <1>5

\* There is one, and the sum is its value.
LEMMA SumIs ==
  ASSUME NEW S, IsFiniteSet(S), NEW h, Summable(h, S)
  PROVE  \E g \in [SUBSET S -> Int] : SumFolds(g, h, S) /\ SumFunctionOnSet(h, S) = g[S]
<1> DEFINE pick == [T \in SUBSET S |-> CHOOSE x \in T : TRUE]
           step == [p \in S \X Int |-> h[p[1]] + p[2]]
           Iter(g) == g = [T \in SUBSET S |->
                             IF T = {} THEN 0
                             ELSE h[CHOOSE x \in T : TRUE] + g[T \ {CHOOSE x \in T : TRUE}]]
<1>1. SumFunctionOnSet(h, S) = (CHOOSE g : Iter(g))[S]
  BY DEF SumFunctionOnSet, FoldFunctionOnSet, MapThenFoldSet
<1>2. PICK g \in [SUBSET S -> Int] : Folds(g, S, pick, 0, step)
  <2>1. \A T \in SUBSET S : T # {} => pick[T] \in T
    OBVIOUS
  <2>2. step \in [S \X Int -> Int]
    BY DEF Summable
  <2>3. 0 \in Int
    OBVIOUS
  <2> HIDE DEF pick, step
  <2> QED
    BY <2>1, <2>2, <2>3, FoldExists, Zenon
<1>3. ASSUME NEW T \in SUBSET S, T # {}
      PROVE  g[T] = h[CHOOSE x \in T : TRUE] + g[T \ {CHOOSE x \in T : TRUE}]
  <2> DEFINE x == CHOOSE y \in T : TRUE
  <2>1. pick[T] = x /\ x \in S
    BY <1>3
  <2> HIDE DEF x, pick
  <2>2. T \ {x} \in SUBSET S /\ g[T \ {x}] \in Int
    OBVIOUS
  <2>3. step[<<x, g[T \ {x}]>>] = h[x] + g[T \ {x}]
    BY <2>1, <2>2
  <2> HIDE DEF step
  <2>4. g[T] = step[<<x, g[T \ {x}]>>]
    BY <1>2, <1>3, <2>1 DEF Folds
  <2> QED
    BY <2>3, <2>4 DEF x
<1>4. g[{}] = 0
  BY <1>2 DEF Folds
<1>5. SumFolds(g, h, S)
  BY <1>3, <1>4 DEF SumFolds
<1>6. Iter(g)
  BY <1>5 DEF SumFolds
<1> DEFINE f == CHOOSE j : Iter(j)
<1>7. Iter(f)
  BY <1>6
<1> HIDE DEF f
<1>8. SumFolds(f, h, S)
  BY <1>7 DEF SumFolds
<1>9. f[S] = g[S]
  BY <1>5, <1>8, SumFoldsAgree
<1> QED
  BY <1>1, <1>5, <1>9 DEF f

\* Nothing sums up to 0.
LEMMA SumEmpty == ASSUME NEW h PROVE SumFunctionOnSet(h, {}) = 0
<1>1. Summable(h, {})
  BY DEF Summable
<1> QED
  BY <1>1, SumIs, FS_EmptySet DEF SumFolds

\* Whichever element is taken out first, it counts once.
AddsAny(g, h, S) == \A T \in SUBSET S : \A x \in T : g[T] = h[x] + g[T \ {x}]

LEMMA SumFoldsAny ==
  ASSUME NEW S, IsFiniteSet(S), NEW h, Summable(h, S),
         NEW g \in [SUBSET S -> Int], SumFolds(g, h, S)
  PROVE  AddsAny(g, h, S)
<1> DEFINE B == {T \in SUBSET S : \E x \in T : g[T] # h[x] + g[T \ {x}]}
<1> SUFFICES ASSUME B # {} PROVE FALSE
  BY DEF AddsAny
<1>1. PICK T \in B : \A U \in B : U \subseteq T => U = T
  <2>1. B \in SUBSET SUBSET S
    OBVIOUS
  <2> HIDE DEF B
  <2> QED
    BY <2>1, LeastSubset
<1>2. PICK x \in T : g[T] # h[x] + g[T \ {x}]
  BY <1>1
<1> DEFINE y == CHOOSE z \in T : TRUE
<1>3. y \in T
  BY <1>2
<1>4. g[T] = h[y] + g[T \ {y}]
  BY <1>1, <1>2 DEF SumFolds
<1> HIDE DEF y
<1>5. x # y /\ T \in SUBSET S
  BY <1>1, <1>2, <1>4
<1>6. T \ {y} \notin B /\ T \ {x} \notin B /\ T \ {x} \in SUBSET S /\ T \ {y} \in SUBSET S
  BY <1>1, <1>2, <1>3
<1>7. g[T \ {y}] = h[x] + g[(T \ {y}) \ {x}] /\ g[T \ {x}] = h[y] + g[(T \ {x}) \ {y}]
  BY <1>2, <1>3, <1>5, <1>6
<1>8. (T \ {y}) \ {x} = (T \ {x}) \ {y} /\ (T \ {x}) \ {y} \in SUBSET S
  BY <1>5
<1>9. g[(T \ {x}) \ {y}] \in Int /\ h[x] \in Int /\ h[y] \in Int
  BY <1>2, <1>3, <1>5, <1>8 DEF Summable
<1>10. g[T] = h[y] + (h[x] + g[(T \ {x}) \ {y}]) /\ g[T \ {x}] = h[y] + g[(T \ {x}) \ {y}]
  BY <1>4, <1>7, <1>8
<1>11. \A a, b, c \in Int : a + (b + c) = b + (a + c)
  OBVIOUS
<1>12. h[y] + (h[x] + g[(T \ {x}) \ {y}]) = h[x] + (h[y] + g[(T \ {x}) \ {y}])
  BY <1>9, <1>11
<1> QED
  BY Zenon, <1>2, <1>10, <1>12

\* One element more adds its value.
LEMMA SumAdds ==
  ASSUME NEW S, IsFiniteSet(S), NEW h, Summable(h, S), NEW x \in S
  PROVE  /\ SumFunctionOnSet(h, S) = SumFunctionOnSet(h, S \ {x}) + h[x]
         /\ SumFunctionOnSet(h, S \ {x}) \in Int
<1>1. PICK g \in [SUBSET S -> Int] : SumFolds(g, h, S) /\ SumFunctionOnSet(h, S) = g[S]
  BY SumIs
<1>2. S \ {x} \in SUBSET S /\ IsFiniteSet(S \ {x}) /\ Summable(h, S \ {x})
  BY FS_Subset DEF Summable
<1>3. PICK f \in [SUBSET (S \ {x}) -> Int] :
        SumFolds(f, h, S \ {x}) /\ SumFunctionOnSet(h, S \ {x}) = f[S \ {x}]
  BY <1>2, SumIs
<1>4. SumFolds(g, h, S \ {x})
  BY <1>1 DEF SumFolds
<1>5. f[S \ {x}] = g[S \ {x}]
  BY <1>2, <1>3, <1>4, SumFoldsAgree
<1>6. g[S] = h[x] + g[S \ {x}]
  <2>1. S \in SUBSET S
    OBVIOUS
  <2>2. AddsAny(g, h, S)
    BY <1>1, SumFoldsAny
  <2> QED
    BY <2>1, <2>2 DEF AddsAny
<1>7. g[S \ {x}] \in Int /\ h[x] \in Int
  BY <1>2 DEF Summable
<1> QED
  BY <1>1, <1>3, <1>5, <1>6, <1>7

LEMMA SumInt ==
  ASSUME NEW S, IsFiniteSet(S), NEW h, Summable(h, S)
  PROVE  SumFunctionOnSet(h, S) \in Int
<1>1. PICK g \in [SUBSET S -> Int] : SumFolds(g, h, S) /\ SumFunctionOnSet(h, S) = g[S]
  BY SumIs
<1> QED
  BY <1>1

\* A property of the sums over all subsets follows from that of the empty one and of
\* one with an element more.
LEMMA SumGrows ==
  ASSUME NEW S, IsFiniteSet(S), NEW h, Summable(h, S), NEW T \in SUBSET S, NEW x \in S \ T
  PROVE  /\ SumFunctionOnSet(h, T \union {x}) = SumFunctionOnSet(h, T) + h[x]
         /\ SumFunctionOnSet(h, T) \in Int /\ h[x] \in Int
<1> DEFINE U == T \union {x}
<1>1. U \in SUBSET S /\ x \in U /\ U \ {x} = T
  OBVIOUS
<1> HIDE DEF U
<1>2. IsFiniteSet(U) /\ Summable(h, U)
  BY <1>1, FS_Subset DEF Summable
<1>3. SumFunctionOnSet(h, U) = SumFunctionOnSet(h, T) + h[x] /\ SumFunctionOnSet(h, T) \in Int
  BY <1>1, <1>2, SumAdds
<1> QED
  BY <1>3 DEF U, Summable

\* Sums are added summand by summand.
LEMMA SumPlus ==
  ASSUME NEW S, IsFiniteSet(S), NEW h, NEW k, NEW l, Summable(h, S), Summable(k, S),
         \A x \in S : l[x] = h[x] + k[x]
  PROVE  SumFunctionOnSet(l, S) = SumFunctionOnSet(h, S) + SumFunctionOnSet(k, S)
<1> DEFINE K == {T \in SUBSET S :
                   SumFunctionOnSet(l, T) = SumFunctionOnSet(h, T) + SumFunctionOnSet(k, T)}
<1>1. Summable(l, S)
  BY DEF Summable
<1>2. {} \in K
  BY SumEmpty
<1>3. ASSUME NEW T \in SUBSET S, NEW x \in S \ T, T \in K PROVE T \union {x} \in K
  <2>1. /\ SumFunctionOnSet(h, T \union {x}) = SumFunctionOnSet(h, T) + h[x]
        /\ SumFunctionOnSet(h, T) \in Int /\ h[x] \in Int
    BY SumGrows
  <2>2. /\ SumFunctionOnSet(k, T \union {x}) = SumFunctionOnSet(k, T) + k[x]
        /\ SumFunctionOnSet(k, T) \in Int /\ k[x] \in Int
    BY SumGrows
  <2>3. /\ SumFunctionOnSet(l, T \union {x}) = SumFunctionOnSet(l, T) + l[x]
        /\ SumFunctionOnSet(l, T) \in Int /\ l[x] \in Int
    BY <1>1, SumGrows
  <2>4. l[x] = h[x] + k[x]
    OBVIOUS
  <2>5. SumFunctionOnSet(l, T) = SumFunctionOnSet(h, T) + SumFunctionOnSet(k, T)
    BY <1>3
  <2>6. SumFunctionOnSet(l, T \union {x}) =
          SumFunctionOnSet(h, T \union {x}) + SumFunctionOnSet(k, T \union {x})
    BY <2>1, <2>2, <2>3, <2>4, <2>5
  <2>7. T \union {x} \in SUBSET S
    OBVIOUS
  <2> QED
    BY <2>6, <2>7
<1>4. SUBSET S \subseteq K
  <2> HIDE DEF K
  <2> QED
    BY <1>2, <1>3, SubsetInduction
<1>5. S \in K
  BY <1>4
<1> QED
  BY <1>5

\* Sums grow with their summands.
LEMMA SumLess ==
  ASSUME NEW S, IsFiniteSet(S), NEW h, NEW k, Summable(h, S), Summable(k, S),
         \A x \in S : h[x] <= k[x]
  PROVE  SumFunctionOnSet(h, S) <= SumFunctionOnSet(k, S)
<1> DEFINE K == {T \in SUBSET S : SumFunctionOnSet(h, T) <= SumFunctionOnSet(k, T)}
<1>1. {} \in K
  BY SumEmpty
<1>2. ASSUME NEW T \in SUBSET S, NEW x \in S \ T, T \in K PROVE T \union {x} \in K
  <2>1. /\ SumFunctionOnSet(h, T \union {x}) = SumFunctionOnSet(h, T) + h[x]
        /\ SumFunctionOnSet(h, T) \in Int /\ h[x] \in Int
    BY SumGrows
  <2>2. /\ SumFunctionOnSet(k, T \union {x}) = SumFunctionOnSet(k, T) + k[x]
        /\ SumFunctionOnSet(k, T) \in Int /\ k[x] \in Int
    BY SumGrows
  <2> QED
    BY <1>2, <2>1, <2>2
<1>3. SUBSET S \subseteq K
  <2> HIDE DEF K
  <2> QED
    BY <1>1, <1>2, SubsetInduction
<1>4. S \in K
  BY <1>3
<1> QED
  BY <1>4

LEMMA SumSame ==
  ASSUME NEW S, IsFiniteSet(S), NEW h, NEW k, Summable(h, S), \A x \in S : h[x] = k[x]
  PROVE  SumFunctionOnSet(h, S) = SumFunctionOnSet(k, S)
<1>1. Summable(k, S)
  BY DEF Summable
<1>2. \A x \in S : h[x] <= k[x] /\ k[x] <= h[x]
  BY DEF Summable
<1>3. SumFunctionOnSet(h, S) <= SumFunctionOnSet(k, S) /\ SumFunctionOnSet(k, S) <= SumFunctionOnSet(h, S)
  BY <1>1, <1>2, SumLess
<1> QED
  BY <1>1, <1>3, SumInt

\* One summand is another.
LEMMA SumChanges ==
  ASSUME NEW S, IsFiniteSet(S), NEW h, NEW k, Summable(h, S), Summable(k, S), NEW z \in S,
         \A x \in S : x # z => h[x] = k[x]
  PROVE  SumFunctionOnSet(k, S) = SumFunctionOnSet(h, S) - h[z] + k[z]
<1> DEFINE U == S \ {z}
<1>1. IsFiniteSet(U) /\ Summable(h, U) /\ \A x \in U : h[x] = k[x]
  BY FS_RemoveElement DEF Summable
<1>2. /\ SumFunctionOnSet(h, S) = SumFunctionOnSet(h, U) + h[z]
      /\ SumFunctionOnSet(h, U) \in Int
  BY SumAdds
<1>3. SumFunctionOnSet(k, S) = SumFunctionOnSet(k, U) + k[z]
  BY SumAdds
<1> HIDE DEF U
<1>4. SumFunctionOnSet(h, U) = SumFunctionOnSet(k, U)
  BY <1>1, SumSame
<1>5. h[z] \in Int /\ k[z] \in Int
  BY DEF Summable
<1> QED
  BY <1>2, <1>3, <1>4, <1>5

\* A function on subsets that is computed like the sum
LEMMA SumByFold ==
  ASSUME NEW S, IsFiniteSet(S), NEW h, Summable(h, S), NEW f, SumFolds(f, h, S)
  PROVE  f[S] = SumFunctionOnSet(h, S)
<1>1. PICK g \in [SUBSET S -> Int] : SumFolds(g, h, S) /\ SumFunctionOnSet(h, S) = g[S]
  BY SumIs
<1>2. f[S] = g[S]
  BY <1>1, SumFoldsAgree
<1> QED
  BY <1>1, <1>2
================================================================================
