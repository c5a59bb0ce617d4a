------------------------------ MODULE AigProofs ------------------------------
(***************************************************************************)
(* Proofs about replacement in And-Inverter Graphs.  The objects, the      *)
(* table, the stack and the walks are right at every step (HeapInv), and   *)
(* so are the levels or they will be (LevelInv).  A pair that waits stands *)
(* for two literals of one function as long as there are no cycles         *)
(* (MeaningInv).                                                           *)
(***************************************************************************)
EXTENDS Aig, FoldTheorems, SequenceTheorems

-----------------------------------------------------------------------------
(* What a network's recursive functions compute. *)

\* The values of a function that is applied again and again.
Iterates(c, F, a) == c[0] = a /\ \A d \in Nat : c[d + 1] = F[c[d]]

LEMMA Iterated ==
  ASSUME NEW X, NEW F \in [X -> X], NEW a \in X
  PROVE  \E c \in [Nat -> X] : Iterates(c, F, a)
<1> DEFINE Upto(g, n) == g[0] = a /\ \A d \in 0..(n - 1) : g[d + 1] = F[g[d]]
           K == {n \in Nat : \E g \in [0..n -> X] : Upto(g, n)}
<1>1. 0 \in K
  <2>1. [d \in 0..0 |-> a] \in [0..0 -> X] /\ Upto([d \in 0..0 |-> a], 0)
    OBVIOUS
  <2> QED
    BY <2>1
<1>2. ASSUME NEW n \in Nat, n \in K PROVE n + 1 \in K
  <2>1. PICK g \in [0..n -> X] : Upto(g, n)
    BY <1>2
  <2> DEFINE h == [d \in 0..(n + 1) |-> IF d = n + 1 THEN F[g[n]] ELSE g[d]]
  <2>2. h \in [0..(n + 1) -> X]
    BY <2>1
  <2>3. h[0] = a
    BY <2>1
  <2>4. ASSUME NEW d \in 0..n PROVE h[d + 1] = F[h[d]]
    <3>1. h[d] = g[d]
      OBVIOUS
    <3>2. CASE d = n
      BY <3>1, <3>2
    <3>3. CASE d # n
      <4>1. d \in 0..(n - 1) /\ h[d + 1] = g[d + 1]
        BY <3>3
      <4>2. g[d + 1] = F[g[d]]
        BY <2>1, <4>1
      <4> QED
        BY <3>1, <4>1, <4>2
    <3> QED
      BY <3>2, <3>3
  <2>5. n + 1 \in Nat /\ (n + 1) - 1 = n
    OBVIOUS
  <2> HIDE DEF h
  <2>6. Upto(h, n + 1)
    BY <2>3, <2>4, <2>5
  <2> QED
    BY <2>2, <2>5, <2>6
<1>3. Nat \subseteq K
  <2> HIDE DEF K
  <2> QED
    BY <1>1, <1>2, NumberInduction
<1>4. ASSUME NEW n \in Nat, NEW m \in Nat, NEW g, NEW h, Upto(g, n), Upto(h, m)
      PROVE  \A d \in Nat : d <= n /\ d <= m => g[d] = h[d]
  <2> DEFINE L == {d \in Nat : d <= n /\ d <= m => g[d] = h[d]}
  <2>1. 0 \in L
    BY <1>4
  <2>2. ASSUME NEW d \in Nat, d \in L PROVE d + 1 \in L
    <3> SUFFICES ASSUME d + 1 <= n, d + 1 <= m PROVE g[d + 1] = h[d + 1]
      OBVIOUS
    <3>1. d \in 0..(n - 1) /\ d \in 0..(m - 1)
      OBVIOUS
    <3>2. g[d] = h[d]
      BY <2>2
    <3>3. g[d + 1] = F[g[d]] /\ h[d + 1] = F[h[d]]
      BY <1>4, <3>1
    <3> QED
      BY <3>2, <3>3
  <2>3. Nat \subseteq L
    <3> HIDE DEF L
    <3> QED
      BY <2>1, <2>2, NumberInduction
  <2> QED
    BY <2>3
<1> DEFINE G(n) == CHOOSE g : g \in [0..n -> X] /\ Upto(g, n)
           c == [d \in Nat |-> G(d)[d]]
<1>5. \A n \in Nat : G(n) \in [0..n -> X] /\ Upto(G(n), n)
  <2> HIDE DEF Upto
  <2> QED
    BY <1>3
<1> HIDE DEF G, K
<1>6. c \in [Nat -> X] /\ c[0] = a
  <2>1. ASSUME NEW d \in Nat PROVE G(d)[d] \in X
    BY <1>5
  <2>2. G(0)[0] = a
    BY <1>5
  <2> QED
    BY <2>1, <2>2
<1>7. ASSUME NEW d \in Nat PROVE c[d + 1] = F[c[d]]
  <2>1. G(d + 1)[d + 1] = F[G(d + 1)[d]]
    <3>1. d + 1 \in Nat /\ d \in 0..((d + 1) - 1)
      OBVIOUS
    <3> QED
      BY <1>5, <3>1
  <2>2. G(d + 1)[d] = G(d)[d]
    <3>1. d + 1 \in Nat /\ d <= d + 1 /\ d <= d
      OBVIOUS
    <3>2. Upto(G(d), d) /\ Upto(G(d + 1), d + 1)
      BY <1>5, <3>1
    <3> HIDE DEF Upto
    <3> QED
      BY <1>4, <3>1, <3>2
  <2>3. c[d + 1] = G(d + 1)[d + 1] /\ c[d] = G(d)[d]
    OBVIOUS
  <2> QED
    BY <2>1, <2>2, <2>3
<1> QED
  BY <1>6, <1>7 DEF Iterates

\* What the fanins of each member of R are members of, too.
Down(net, R) == \A x \in R : FaninIds(net, x) \subseteq R

\* The values of the function behind Cone.
Cones(net, n, c) ==
  /\ c \in [Nat -> SUBSET DOMAIN net] /\ c[0] = {n}
  /\ \A d \in Nat : c[d + 1] = c[d] \union UNION {FaninIds(net, x) : x \in c[d]}

LEMMA ConeHas ==
  ASSUME NEW net, Down(net, DOMAIN net), NEW n \in DOMAIN net,
         Cardinality(DOMAIN net) \in Nat
  PROVE  \E c : Cones(net, n, c) /\ Cone(net, n) = c[Cardinality(DOMAIN net)]
<1> DEFINE X == SUBSET DOMAIN net
           F == [A \in X |-> A \union UNION {FaninIds(net, x) : x \in A}]
           Iter(c) == c = [d \in Nat |-> LET above == c[d - 1]
                                         IN  IF d = 0 THEN {n}
                                             ELSE above \union UNION {FaninIds(net, x) : x \in above}]
<1>1. Cone(net, n) = (CHOOSE c : Iter(c))[Cardinality(DOMAIN net)]
  BY DEF Cone
<1>2. F \in [X -> X] /\ {n} \in X
  BY DEF Down
<1>3. PICK c \in [Nat -> X] : c[0] = {n} /\ \A d \in Nat : c[d + 1] = F[c[d]]
  <2> HIDE DEF F, X
  <2>1. PICK c \in [Nat -> X] : Iterates(c, F, {n})
    BY <1>2, Iterated
  <2> QED
    BY <2>1 DEF Iterates
<1>4. Iter(c)
  <2>1. ASSUME NEW d \in Nat, d # 0
        PROVE  c[d] = c[d - 1] \union UNION {FaninIds(net, x) : x \in c[d - 1]}
    <3>1. d - 1 \in Nat /\ (d - 1) + 1 = d
      BY <2>1
    <3>2. c[d] = F[c[d - 1]] /\ c[d - 1] \in X
      BY <1>3, <3>1
    <3> QED
      BY <3>2
  <2>2. c = [d \in Nat |-> c[d]]
    BY <1>3
  <2> QED
    BY <1>3, <2>1, <2>2
<1>5. PICK e : e = (CHOOSE f : Iter(f)) /\ Iter(e)
  <2> HIDE DEF Iter
  <2> QED
    BY <1>4
<1>6. e[0] = {n} /\ \A d \in Nat : e[d + 1] = e[d] \union UNION {FaninIds(net, x) : x \in e[d]}
  <2>1. ASSUME NEW d \in Nat PROVE e[d + 1] = e[d] \union UNION {FaninIds(net, x) : x \in e[d]}
    <3>1. d + 1 \in Nat /\ d + 1 # 0 /\ (d + 1) - 1 = d
      OBVIOUS
    <3> QED
      BY <1>5, <3>1
  <2>2. e[0] = {n}
    BY <1>5
  <2> QED
    BY <2>1, <2>2
<1>7. e \in [Nat -> X]
  <2> DEFINE K == {d \in Nat : e[d] \in X}
  <2>1. 0 \in K
    BY <1>6
  <2>2. ASSUME NEW d \in Nat, d \in K PROVE d + 1 \in K
    <3>1. e[d] \in X /\ d + 1 \in Nat
      BY <2>2
    <3>2. e[d + 1] \in X
      BY <1>6, <3>1 DEF Down
    <3> QED
      BY <3>1, <3>2
  <2>3. Nat \subseteq K
    <3> HIDE DEF K
    <3> QED
      BY <2>1, <2>2, NumberInduction
  <2>4. e = [d \in Nat |-> e[d]]
    BY <1>5
  <2> QED
    BY <2>3, <2>4
<1> HIDE DEF Iter
<1> QED
  BY <1>1, <1>5, <1>6, <1>7 DEF Cones

\* A step that adds nothing is followed by no step that adds anything.
LEMMA ConesStop ==
  ASSUME NEW net, NEW n, NEW c, Cones(net, n, c), NEW d \in Nat, c[d + 1] = c[d]
  PROVE  \A k \in Nat : k >= d => c[k] = c[d]
<1> DEFINE K == {k \in Nat : k >= d => c[k] = c[d]}
<1>1. 0 \in K
  OBVIOUS
<1>2. ASSUME NEW k \in Nat, k \in K PROVE k + 1 \in K
  <2> SUFFICES ASSUME k + 1 >= d PROVE c[k + 1] = c[d]
    OBVIOUS
  <2>1. CASE k + 1 = d
    BY <2>1
  <2>2. CASE k + 1 # d
    <3>1. c[k] = c[d]
      BY <1>2, <2>2
    <3>2. c[k + 1] = c[k] \union UNION {FaninIds(net, x) : x \in c[k]}
      BY DEF Cones
    <3>3. c[d + 1] = c[d] \union UNION {FaninIds(net, x) : x \in c[d]}
      BY DEF Cones
    <3> QED
      BY <3>1, <3>2, <3>3
  <2> QED
    BY <2>1, <2>2
<1>3. Nat \subseteq K
  <2> HIDE DEF K
  <2> QED
    BY <1>1, <1>2, NumberInduction
<1> QED
  BY <1>3

\* The cone of an object is the least set that holds it and, with an object, its
\* fanins: there are as many steps as there are objects.
LEMMA ConeIs ==
  ASSUME NEW net, IsFiniteSet(DOMAIN net), Down(net, DOMAIN net), NEW n \in DOMAIN net
  PROVE  /\ n \in Cone(net, n) /\ Cone(net, n) \in SUBSET DOMAIN net /\ Down(net, Cone(net, n))
         /\ \A R : n \in R /\ Down(net, R) => Cone(net, n) \subseteq R
<1> DEFINE N == Cardinality(DOMAIN net)
<1>1. N \in Nat
  BY FS_CardinalityType
<1>2. PICK c : Cones(net, n, c) /\ Cone(net, n) = c[N]
  BY <1>1, ConeHas
<1> HIDE DEF N
<1>3. ASSUME NEW R, n \in R, Down(net, R) PROVE c[N] \subseteq R
  <2> DEFINE K == {d \in Nat : c[d] \subseteq R}
  <2>1. 0 \in K
    BY <1>2, <1>3 DEF Cones
  <2>2. ASSUME NEW d \in Nat, d \in K PROVE d + 1 \in K
    <3>1. c[d] \subseteq R /\ c[d + 1] = c[d] \union UNION {FaninIds(net, x) : x \in c[d]}
      BY <1>2, <2>2 DEF Cones
    <3> QED
      BY <1>3, <3>1 DEF Down
  <2>3. Nat \subseteq K
    <3> HIDE DEF K
    <3> QED
      BY <2>1, <2>2, NumberInduction
  <2> QED
    BY <1>1, <2>3
<1>4. n \in c[N]
  <2> DEFINE K == {d \in Nat : n \in c[d]}
  <2>1. 0 \in K
    BY <1>2 DEF Cones
  <2>2. \A d \in Nat : d \in K => d + 1 \in K
    BY <1>2 DEF Cones
  <2>3. Nat \subseteq K
    <3> HIDE DEF K
    <3> QED
      BY <2>1, <2>2, NumberInduction
  <2> QED
    BY <1>1, <2>3
<1>5. c[N + 1] = c[N]
  <2> SUFFICES ASSUME c[N + 1] # c[N] PROVE FALSE
    OBVIOUS
  <2> DEFINE K == {d \in Nat : d <= N => Cardinality(c[d]) >= d + 1}
  <2>1. \A d \in Nat : c[d] \in SUBSET DOMAIN net /\ IsFiniteSet(c[d]) /\ Cardinality(c[d]) \in Nat
    <3>1. \A d \in Nat : c[d] \in SUBSET DOMAIN net
      BY <1>2 DEF Cones
    <3> QED
      BY <3>1, FS_Subset, FS_CardinalityType
  <2>2. 0 \in K
    <3>1. c[0] = {n}
      BY <1>2 DEF Cones
    <3>2. Cardinality({n}) = 1
      BY FS_Singleton
    <3> QED
      BY <3>1, <3>2
  <2>3. ASSUME NEW d \in Nat, d \in K PROVE d + 1 \in K
    <3> SUFFICES ASSUME d + 1 <= N PROVE Cardinality(c[d + 1]) >= (d + 1) + 1
      OBVIOUS
    <3>1. Cardinality(c[d]) >= d + 1
      BY <1>1, <2>3
    <3>2. c[d] # c[d + 1]
      <4> SUFFICES ASSUME c[d + 1] = c[d] PROVE FALSE
        OBVIOUS
      <4>1. \A k \in Nat : k >= d => c[k] = c[d]
        BY <1>2, ConesStop
      <4>2. N >= d /\ N + 1 \in Nat /\ N + 1 >= d
        BY <1>1
      <4> QED
        BY <1>1, <4>1, <4>2
    <3>3. c[d] \subseteq c[d + 1]
      BY <1>2 DEF Cones
    <3>4. Cardinality(c[d]) <= Cardinality(c[d + 1]) /\ Cardinality(c[d]) # Cardinality(c[d + 1])
      <4>1. d + 1 \in Nat
        OBVIOUS
      <4> QED
        BY <2>1, <3>2, <3>3, <4>1, FS_Subset
    <3>5. Cardinality(c[d]) \in Nat /\ Cardinality(c[d + 1]) \in Nat
      BY <2>1
    <3> QED
      BY <3>1, <3>4, <3>5
  <2>4. Nat \subseteq K
    <3> HIDE DEF K
    <3> QED
      BY <2>2, <2>3, NumberInduction
  <2>5. Cardinality(c[N]) >= N + 1
    BY <1>1, <2>4
  <2>6. Cardinality(c[N]) <= N
    BY <1>1, <2>1, FS_Subset DEF N
  <2> QED
    BY <1>1, <2>1, <2>5, <2>6
<1>6. Down(net, c[N])
  <2>1. c[N + 1] = c[N] \union UNION {FaninIds(net, x) : x \in c[N]}
    BY <1>1, <1>2 DEF Cones
  <2> QED
    BY <1>5, <2>1 DEF Down
<1>7. c[N] \in SUBSET DOMAIN net
  BY <1>1, <1>2 DEF Cones
<1> QED
  BY <1>2, <1>3, <1>4, <1>6, <1>7

\* A function's value depends on those of the fanins only.
Local(net, V, step) ==
  \A n \in DOMAIN net : \A g, h \in [DOMAIN net -> V] :
    (\A k \in FaninIds(net, n) : g[k] = h[k]) => step[<<n, g>>] = step[<<n, h>>]

\* Where it is defined for all members of R.
Solved(f, R, step) == \A n \in R : f[n] = step[<<n, f>>]

LEMMA SolvedOnce ==
  ASSUME NEW net, Acyclic(net), NEW V, NEW step, Local(net, V, step),
         NEW R \in SUBSET DOMAIN net, Down(net, R),
         NEW f \in [DOMAIN net -> V], NEW g \in [DOMAIN net -> V],
         Solved(f, R, step), Solved(g, R, step)
  PROVE  \A n \in R : f[n] = g[n]
<1> DEFINE S == {n \in R : f[n] # g[n]}
<1> SUFFICES ASSUME S # {} PROVE FALSE
  OBVIOUS
<1>1. PICK n \in S : FaninIds(net, n) \intersect S = {}
  <2>1. S \in SUBSET DOMAIN net
    OBVIOUS
  <2> HIDE DEF S
  <2> QED
    BY <2>1 DEF Acyclic
<1>2. \A k \in FaninIds(net, n) : f[k] = g[k]
  BY <1>1 DEF Down
<1>3. step[<<n, f>>] = step[<<n, g>>]
  BY <1>1, <1>2 DEF Local
<1> QED
  BY <1>1, <1>3 DEF Solved

\* A recursive function over a network without cycles exists.
LEMMA SolvedAll ==
  ASSUME NEW net, Acyclic(net), Down(net, DOMAIN net), NEW V, NEW v \in V,
         NEW step \in [(DOMAIN net) \X [DOMAIN net -> V] -> V], Local(net, V, step)
  PROVE  \E f \in [DOMAIN net -> V] : Solved(f, DOMAIN net, step)
<1> DEFINE D == DOMAIN net
           Good(R, f) == R \in SUBSET D /\ Down(net, R) /\ f \in [D -> V] /\ Solved(f, R, step)
           Has(n, f) == \E R : n \in R /\ Good(R, f)
           U == {n \in D : \E f : Has(n, f)}
           F == [n \in D |-> IF n \in U THEN (CHOOSE f : Has(n, f))[n] ELSE v]
<1>1. \A n \in U : Has(n, CHOOSE f : Has(n, f))
  <2> HIDE DEF Has
  <2> QED
    OBVIOUS
<1>2. F \in [D -> V]
  <2>1. ASSUME NEW n \in U PROVE (CHOOSE f : Has(n, f))[n] \in V
    <3>1. (CHOOSE f : Has(n, f)) \in [D -> V]
      BY <1>1
    <3> QED
      BY <3>1
  <2> HIDE DEF U, Has
  <2> QED
    BY <2>1
<1>3. ASSUME NEW R, NEW f, Good(R, f)
      PROVE  R \subseteq U /\ \A n \in R : F[n] = f[n]
  <2>1. R \subseteq U
    BY <1>3
  <2>2. ASSUME NEW n \in R PROVE F[n] = f[n]
    <3> DEFINE g == CHOOSE h : Has(n, h)
    <3>1. PICK T : n \in T /\ Good(T, g)
      BY <1>1, <2>1, <2>2
    <3> HIDE DEF g
    <3>2. Down(net, R \intersect T) /\ R \intersect T \in SUBSET D
      BY <1>3, <3>1 DEF Down
    <3>3. /\ f \in [D -> V] /\ g \in [D -> V]
          /\ Solved(f, R \intersect T, step) /\ Solved(g, R \intersect T, step)
      BY <1>3, <3>1 DEF Solved
    <3>4. f[n] = g[n]
      <4>1. n \in R \intersect T
        BY <3>1, <2>2
      <4>2. \A k \in R \intersect T : f[k] = g[k]
        <5>1. PICK RT : RT = R \intersect T
          OBVIOUS
        <5>2. /\ Down(net, RT) /\ RT \in SUBSET DOMAIN net
              /\ f \in [DOMAIN net -> V] /\ g \in [DOMAIN net -> V]
              /\ Solved(f, RT, step) /\ Solved(g, RT, step)
          BY <3>2, <3>3, <5>1
        <5> HIDE DEF Good, D, U, F, g
        <5>3. \A k \in RT : f[k] = g[k]
          BY <5>2, SolvedOnce
        <5> QED
          BY <5>1, <5>3
      <4> QED
        BY <4>1, <4>2
    <3>5. F[n] = g[n]
      <4>1. n \in D /\ n \in U
        BY <2>1, <2>2
      <4> HIDE DEF U, Has
      <4> QED
        BY <4>1 DEF g
    <3> QED
      BY <3>4, <3>5
  <2> QED
    BY <2>1, <2>2
<1>4. \A n \in U : \E R, f : n \in R /\ Good(R, f)
  BY <1>1
<1> HIDE DEF F, U, Has
<1>5. ASSUME NEW n \in U PROVE F[n] = step[<<n, F>>] /\ FaninIds(net, n) \subseteq U
  <2>1. PICK R, f : n \in R /\ Good(R, f)
    BY <1>4
  <2>2. R \subseteq U /\ \A k \in R : F[k] = f[k]
    <3> HIDE DEF Good
    <3> QED
      BY <1>3, <2>1
  <2>3. FaninIds(net, n) \subseteq R /\ n \in D
    BY <2>1 DEF Down
  <2>4. step[<<n, F>>] = step[<<n, f>>]
    <3>1. \A k \in FaninIds(net, n) : F[k] = f[k]
      BY <2>2, <2>3
    <3>2. f \in [DOMAIN net -> V] /\ F \in [DOMAIN net -> V]
      BY <1>2, <2>1
    <3> QED
      BY <2>3, <3>1, <3>2 DEF Local
  <2>5. f[n] = step[<<n, f>>]
    BY <2>1 DEF Solved
  <2> QED
    BY <2>1, <2>2, <2>3, <2>4, <2>5
<1>6. U = D
  <2> SUFFICES ASSUME D \ U # {} PROVE FALSE
    BY DEF U
  <2>1. PICK n \in D \ U : FaninIds(net, n) \intersect (D \ U) = {}
    <3>1. D \ U \in SUBSET DOMAIN net
      OBVIOUS
    <3> QED
      BY <3>1 DEF Acyclic
  <2>2. FaninIds(net, n) \subseteq U
    BY <2>1 DEF Down
  <2> DEFINE R == U \union {n}
             f == [F EXCEPT ![n] = step[<<n, F>>]]
  <2>3. f \in [D -> V] /\ \A k \in U : f[k] = F[k]
    <3>1. step[<<n, F>>] \in V
      BY <1>2, <2>1
    <3>2. \A k \in U : k # n
      BY <2>1
    <3> QED
      BY <1>2, <3>1, <3>2 DEF U
  <2>4. R \in SUBSET D /\ Down(net, R)
    BY <1>5, <2>1, <2>2 DEF Down, U
  <2>5. ASSUME NEW k \in R PROVE f[k] = step[<<k, f>>]
    <3>1. FaninIds(net, k) \subseteq U /\ k \in D
      BY <1>5, <2>2, <2>4
    <3>2. step[<<k, f>>] = step[<<k, F>>]
      <4>1. \A j \in FaninIds(net, k) : f[j] = F[j]
        BY <2>3, <3>1
      <4> HIDE DEF f
      <4> QED
        BY <1>2, <2>3, <3>1, <4>1 DEF Local
    <3>3. CASE k = n
      BY <1>2, <2>1, <3>2, <3>3
    <3>4. CASE k # n
      BY <1>5, <2>3, <3>2, <3>4
    <3> QED
      BY <3>3, <3>4
  <2> HIDE DEF f, R
  <2>6. Good(R, f)
    BY <2>3, <2>4, <2>5 DEF Solved
  <2>7. R \subseteq U
    <3> HIDE DEF Good
    <3> QED
      BY <1>3, <2>6
  <2> QED
    BY <2>1, <2>7 DEF R
<1>7. Solved(F, D, step)
  BY <1>5, <1>6 DEF Solved
<1> QED
  BY <1>2, <1>7

-----------------------------------------------------------------------------
(* What a literal means. *)

Lits(net) == (DOMAIN net) \X BOOLEAN

LEMMA TupleIs ==
  ASSUME NEW S, NEW k \in Nat, NEW s \in [1..k -> S]
  PROVE  s \in Seq(S) /\ Len(s) = k
<1>1. s \in Seq(S)
  BY SeqDef
<1>2. Len(s) \in Nat /\ 1..k = 1..Len(s)
  BY <1>1, LenProperties
<1> QED
  BY <1>1, <1>2

LEMMA FaninsAre ==
  ASSUME NEW net, WellFormed(net), NEW n \in DOMAIN net
  PROVE  \/ n \in 0..nPis /\ net[n] = <<>> /\ Len(net[n]) = 0 /\ FaninIds(net, n) = {}
         \/ /\ n \notin 0..nPis /\ Len(net[n]) = 1
            /\ net[n] = <<net[n][1]>> /\ net[n][1] \in Lits(net)
            /\ FaninIds(net, n) = {net[n][1][1]}
         \/ /\ n \notin 0..nPis /\ Len(net[n]) = 2
            /\ net[n] = <<net[n][1], net[n][2]>> /\ net[n][1] \in Lits(net) /\ net[n][2] \in Lits(net)
            /\ FaninIds(net, n) = {net[n][1][1], net[n][2][1]}
<1>1. CASE n \in 0..nPis
  BY <1>1 DEF WellFormed, FaninIds
<1>2. CASE n \notin 0..nPis
  <2>1. net[n] \in [1..1 -> Lits(net)] \union [1..2 -> Lits(net)]
    BY <1>2 DEF WellFormed, Lits
  <2>2. CASE net[n] \in [1..1 -> Lits(net)]
    <3>3. net[n] \in Seq(Lits(net)) /\ Len(net[n]) = 1
      BY <2>2, TupleIs
    <3>1. net[n] \in Seq(Lits(net)) /\ Len(net[n]) = 1 /\ net[n][1] \in Lits(net)
      BY <2>2, <3>3
    <3>2. DOMAIN net[n] = {1} /\ net[n] = <<net[n][1]>>
      BY <2>2, <3>1
    <3> QED
      BY <1>2, <3>1, <3>2 DEF FaninIds
  <2>3. CASE net[n] \in [1..2 -> Lits(net)]
    <3>3. net[n] \in Seq(Lits(net)) /\ Len(net[n]) = 2
      BY <2>3, TupleIs
    <3>1. /\ net[n] \in Seq(Lits(net)) /\ Len(net[n]) = 2
          /\ net[n][1] \in Lits(net) /\ net[n][2] \in Lits(net)
      BY <2>3, <3>3
    <3>2. DOMAIN net[n] = {1, 2} /\ net[n] = <<net[n][1], net[n][2]>>
      BY <2>3, <3>1
    <3> QED
      BY <1>2, <3>1, <3>2 DEF FaninIds
  <2> QED
    BY <2>1, <2>2, <2>3
<1> QED
  BY <1>1, <1>2

LEMMA NetDown == ASSUME NEW net, WellFormed(net) PROVE Down(net, DOMAIN net)
<1> SUFFICES ASSUME NEW n \in DOMAIN net PROVE FaninIds(net, n) \subseteq DOMAIN net
  BY DEF Down
<1>1. \A p \in Lits(net) : p[1] \in DOMAIN net
  BY DEF Lits
<1> QED
  BY <1>1, FaninsAre

LEMMA BitsIn ==
  ASSUME NEW S \in SUBSET Minterms, NEW p PROVE Bits(S, p) \in SUBSET Minterms
BY DEF Bits

\* The function of an object by those of its fanins
Meaning(net, f, n) ==
  IF n = 0 THEN Minterms
  ELSE IF n \in 1..nPis THEN {m \in Minterms : n \in m}
  ELSE LET fanin(e) == Bits(f[net[n][e][1]], net[n][e])
       IN  IF Len(net[n]) = 1 THEN fanin(1) ELSE fanin(1) \intersect fanin(2)

Solves(f, net) ==
  /\ f \in [DOMAIN net -> SUBSET Minterms]
  /\ \A n \in DOMAIN net : f[n] = Meaning(net, f, n)

LEMMA MeaningIn ==
  ASSUME NEW net, WellFormed(net), NEW n \in DOMAIN net,
         NEW f \in [DOMAIN net -> SUBSET Minterms]
  PROVE  Meaning(net, f, n) \in SUBSET Minterms
<1>1. \A p \in Lits(net) : Bits(f[p[1]], p) \in SUBSET Minterms
  <2> SUFFICES ASSUME NEW p \in Lits(net) PROVE Bits(f[p[1]], p) \in SUBSET Minterms
    OBVIOUS
  <2>1. f[p[1]] \in SUBSET Minterms
    BY DEF Lits
  <2> QED
    BY <2>1, BitsIn
<1>2. CASE n \in 0..nPis
  BY <1>2 DEF Meaning
<1>3. CASE n \notin 0..nPis
  <2>1. \/ Len(net[n]) = 1 /\ net[n][1] \in Lits(net)
        \/ Len(net[n]) = 2 /\ net[n][1] \in Lits(net) /\ net[n][2] \in Lits(net)
    BY <1>3, FaninsAre
  <2>2. ~(n = 0) /\ n \notin 1..nPis
    BY <1>3, AigConstants
  <2> QED
    BY <1>1, <2>1, <2>2 DEF Meaning
<1> QED
  BY <1>2, <1>3

LEMMA MeaningLocal ==
  ASSUME NEW net, WellFormed(net), NEW n \in DOMAIN net, NEW g, NEW h,
         \A k \in FaninIds(net, n) : g[k] = h[k]
  PROVE  Meaning(net, g, n) = Meaning(net, h, n)
<1>1. CASE n \in 0..nPis
  BY <1>1 DEF Meaning
<1>2. CASE n \notin 0..nPis
  <2>1. \/ Len(net[n]) = 1 /\ g[net[n][1][1]] = h[net[n][1][1]]
        \/ /\ Len(net[n]) = 2
           /\ g[net[n][1][1]] = h[net[n][1][1]] /\ g[net[n][2][1]] = h[net[n][2][1]]
    BY <1>2, FaninsAre
  <2> QED
    BY <2>1 DEF Meaning
<1> QED
  BY <1>1, <1>2

\* Function is the solution of these equations.
LEMMA FunctionIs ==
  ASSUME NEW net, WellFormed(net), Acyclic(net)
  PROVE  \E f : Solves(f, net) /\ \A p : Function(net, p) = Bits(f[p[1]], p)
<1> DEFINE D == DOMAIN net
           V == SUBSET Minterms
           step == [x \in D \X [D -> V] |-> Meaning(net, x[2], x[1])]
           Iter(f) == f = [n \in D |->
                         IF n = 0 THEN Minterms
                         ELSE IF n \in 1..nPis THEN {m \in Minterms : n \in m}
                         ELSE LET fanin(e) == Bits(f[net[n][e][1]], net[n][e])
                              IN  IF Len(net[n]) = 1 THEN fanin(1) ELSE fanin(1) \intersect fanin(2)]
<1>1. \A p : Function(net, p) = Bits((CHOOSE f : Iter(f))[p[1]], p)
  BY DEF Function
<1>2. \A n \in D, f \in [D -> V] : step[<<n, f>>] = Meaning(net, f, n)
  OBVIOUS
<1>3. step \in [D \X [D -> V] -> V]
  <2>1. \A x \in D \X [D -> V] : Meaning(net, x[2], x[1]) \in V
    BY MeaningIn
  <2> QED
    BY <2>1
<1>4. \A f : Iter(f) <=> f = [n \in D |-> Meaning(net, f, n)]
  BY DEF Meaning
<1> HIDE DEF step, Iter
<1>5. Local(net, V, step)
  <2> SUFFICES ASSUME NEW n \in D, NEW g \in [D -> V], NEW h \in [D -> V],
                      \A k \in FaninIds(net, n) : g[k] = h[k]
               PROVE  step[<<n, g>>] = step[<<n, h>>]
    BY DEF Local
  <2>1. Meaning(net, g, n) = Meaning(net, h, n)
    BY MeaningLocal
  <2> QED
    BY <1>2, <2>1
<1>6. PICK f \in [D -> V] : Solved(f, D, step)
  <2>1. Down(net, D) /\ {} \in V
    BY NetDown
  <2> QED
    BY <1>3, <1>5, <2>1, SolvedAll
<1>7. f = [n \in D |-> Meaning(net, f, n)]
  <2>1. \A n \in D : f[n] = Meaning(net, f, n)
    BY <1>2, <1>6 DEF Solved
  <2>2. f = [n \in D |-> f[n]]
    OBVIOUS
  <2> QED
    BY <2>1, <2>2
<1>8. PICK e : e = (CHOOSE g : Iter(g)) /\ Iter(e)
  BY <1>4, <1>7
<1>9. e = [n \in D |-> Meaning(net, e, n)]
  BY <1>4, <1>8
<1>10. e \in [D -> V]
  <2> SUFFICES \A n \in D : e[n] \in V
    BY <1>9
  <2> DEFINE S == {n \in D : e[n] \notin V}
  <2> SUFFICES ASSUME S # {} PROVE FALSE
    OBVIOUS
  <2>1. PICK n \in S : FaninIds(net, n) \intersect S = {}
    <3>1. S \in SUBSET DOMAIN net
      OBVIOUS
    <3> HIDE DEF S
    <3> QED
      BY <3>1 DEF Acyclic
  <2> DEFINE g == [k \in D |-> IF k \in S THEN {} ELSE e[k]]
  <2>2. g \in [D -> V]
    OBVIOUS
  <2>3. \A k \in FaninIds(net, n) : g[k] = e[k]
    BY <2>1, NetDown DEF Down
  <2>4. n \in D /\ e[n] = Meaning(net, e, n)
    BY <1>9
  <2> HIDE DEF g, S
  <2>5. Meaning(net, g, n) = Meaning(net, e, n) /\ Meaning(net, g, n) \in V
    BY <2>2, <2>3, <2>4, MeaningLocal, MeaningIn
  <2> QED
    BY <2>1, <2>4, <2>5 DEF S
<1>11. Solves(e, net)
  BY <1>9, <1>10 DEF Solves
<1> QED
  BY <1>1, <1>8, <1>11

\* If the functions of one network satisfy the equations of another one on R, they
\* are the functions there.
LEMMA SameMeaning ==
  ASSUME NEW net, WellFormed(net), Acyclic(net), NEW f, NEW g, Solves(g, net),
         NEW R \in SUBSET DOMAIN net, Down(net, R), \A n \in R : f[n] = Meaning(net, f, n)
  PROVE  \A n \in R : f[n] = g[n]
<1> DEFINE S == {n \in R : f[n] # g[n]}
<1> SUFFICES ASSUME S # {} PROVE FALSE
  OBVIOUS
<1>1. PICK n \in S : FaninIds(net, n) \intersect S = {}
  <2>1. S \in SUBSET DOMAIN net
    OBVIOUS
  <2> HIDE DEF S
  <2> QED
    BY <2>1 DEF Acyclic
<1>2. \A k \in FaninIds(net, n) : f[k] = g[k]
  BY <1>1 DEF Down
<1>3. Meaning(net, f, n) = Meaning(net, g, n) /\ g[n] = Meaning(net, g, n)
  BY <1>1, <1>2, MeaningLocal DEF Solves
<1> QED
  BY <1>1, <1>3

LEMMA MaxIs == ASSUME NEW a \in Int, NEW b \in Int PROVE Max({a, b}) \in {a, b}
<1>1. \E x \in {a, b} : \A y \in {a, b} : x >= y
  <2>1. CASE a >= b
    BY <2>1
  <2>2. CASE ~(a >= b)
    BY <2>2
  <2> QED
    BY <2>1, <2>2
<1> QED
  BY <1>1 DEF Max

\* The level of an object by those of its fanins
Rise(net, l, n) ==
  IF Len(net[n]) = 2 THEN 1 + Max({l[net[n][1][1]], l[net[n][2][1]]}) ELSE 0

LEMMA RiseLocal ==
  ASSUME NEW net, WellFormed(net), NEW n \in DOMAIN net, NEW g, NEW h,
         \A k \in FaninIds(net, n) : g[k] = h[k]
  PROVE  Rise(net, g, n) = Rise(net, h, n)
<1>1. CASE Len(net[n]) = 2
  <2>1. FaninIds(net, n) = {net[n][1][1], net[n][2][1]}
    BY <1>1, FaninsAre
  <2>2. g[net[n][1][1]] = h[net[n][1][1]] /\ g[net[n][2][1]] = h[net[n][2][1]]
    BY <2>1
  <2> QED
    BY <2>2 DEF Rise
<1>2. CASE Len(net[n]) # 2
  BY <1>2 DEF Rise
<1> QED
  BY <1>1, <1>2

LEMMA RiseIn ==
  ASSUME NEW net, WellFormed(net), NEW n \in DOMAIN net, NEW l,
         \A k \in FaninIds(net, n) : l[k] \in Nat
  PROVE  Rise(net, l, n) \in Nat
<1>1. CASE Len(net[n]) = 2
  <2>1. FaninIds(net, n) = {net[n][1][1], net[n][2][1]}
    BY <1>1, FaninsAre
  <2> DEFINE a == l[net[n][1][1]]
             b == l[net[n][2][1]]
  <2>2. a \in Nat /\ b \in Nat
    BY <2>1
  <2>3. Rise(net, l, n) = 1 + Max({a, b})
    BY <1>1 DEF Rise
  <2> HIDE DEF a, b
  <2>4. Max({a, b}) \in Nat
    BY <2>2, MaxIs
  <2> QED
    BY <2>3, <2>4
<1>2. CASE Len(net[n]) # 2
  BY <1>2 DEF Rise
<1> QED
  BY <1>1, <1>2

LEMMA LevelsAre ==
  ASSUME NEW net, WellFormed(net), Acyclic(net)
  PROVE  /\ LevelsOf(net) \in [DOMAIN net -> Nat]
         /\ \A n \in DOMAIN net : LevelsOf(net)[n] = Rise(net, LevelsOf(net), n)
<1> DEFINE D == DOMAIN net
           step == [x \in D \X [D -> Nat] |-> Rise(net, x[2], x[1])]
           Iter(l) == l = [n \in D |->
             IF Len(net[n]) = 2 THEN 1 + Max({l[net[n][1][1]], l[net[n][2][1]]}) ELSE 0]
<1>1. LevelsOf(net) = CHOOSE l : Iter(l)
  BY DEF LevelsOf
<1>2. \A n \in D, l \in [D -> Nat] : step[<<n, l>>] = Rise(net, l, n)
  OBVIOUS
<1>3. step \in [D \X [D -> Nat] -> Nat]
  <2>1. ASSUME NEW n \in D, NEW l \in [D -> Nat] PROVE Rise(net, l, n) \in Nat
    <3>1. \A k \in FaninIds(net, n) : l[k] \in Nat
      BY NetDown DEF Down
    <3> QED
      BY <3>1, RiseIn
  <2> QED
    BY <2>1
<1>4. \A l : Iter(l) <=> l = [n \in D |-> Rise(net, l, n)]
  BY DEF Rise
<1> HIDE DEF step, Iter
<1>5. Local(net, Nat, step)
  <2> SUFFICES ASSUME NEW n \in D, NEW g \in [D -> Nat], NEW h \in [D -> Nat],
                      \A k \in FaninIds(net, n) : g[k] = h[k]
               PROVE  step[<<n, g>>] = step[<<n, h>>]
    BY DEF Local
  <2>1. Rise(net, g, n) = Rise(net, h, n)
    BY RiseLocal
  <2> QED
    BY <1>2, <2>1
<1>6. PICK l \in [D -> Nat] : Solved(l, D, step)
  <2>1. Down(net, D) /\ 0 \in Nat
    BY NetDown
  <2> QED
    BY <1>3, <1>5, <2>1, SolvedAll
<1>7. l = [n \in D |-> Rise(net, l, n)]
  <2>1. \A n \in D : l[n] = Rise(net, l, n)
    BY <1>2, <1>6 DEF Solved
  <2>2. l = [n \in D |-> l[n]]
    OBVIOUS
  <2> QED
    BY <2>1, <2>2
<1>8. PICK e : e = LevelsOf(net) /\ Iter(e)
  BY <1>1, <1>4, <1>7
<1>9. e = [n \in D |-> Rise(net, e, n)]
  BY <1>4, <1>8
<1>10. e \in [D -> Nat]
  <2> SUFFICES \A n \in D : e[n] \in Nat
    BY <1>9
  <2> DEFINE S == {n \in D : e[n] \notin Nat}
  <2> SUFFICES ASSUME S # {} PROVE FALSE
    OBVIOUS
  <2>1. PICK n \in S : FaninIds(net, n) \intersect S = {}
    <3>1. S \in SUBSET DOMAIN net
      OBVIOUS
    <3> HIDE DEF S
    <3> QED
      BY <3>1 DEF Acyclic
  <2>2. \A k \in FaninIds(net, n) : e[k] \in Nat
    BY <2>1, NetDown DEF Down
  <2>3. Rise(net, e, n) \in Nat
    BY <2>1, <2>2, RiseIn
  <2> QED
    BY <1>9, <2>1, <2>3
<1> QED
  BY <1>8, <1>9, <1>10

-----------------------------------------------------------------------------
(* The invariants. *)

\* The pairs on the stack and the one that is being replaced.
Pairs == ToSet(vStackReplace)
           \union (IF pc = "fanouts" THEN {[old |-> pOld, new |-> pNew]} ELSE {})

\* What a pair can be, and what the table holds.
PairsOf(net) == [old : Nat \ (0..nPis), new : Lits(net)]
TableOf(net) == {<<net[n], n>> : n \in {x \in DOMAIN net : Len(net[x]) = 2}}

\* HeapInv, in parts: the parameters of a call, the network and its table, the
\* pairs, and what is left of a walk over fanouts.  An object that is to be
\* replaced may be gone, until its turn comes.
TypeInv ==
  /\ network \in Networks /\ fUpdateLevel \in BOOLEAN /\ RetValue \in {0, 1}
  /\ pc \in {"idle", "replace", "fanouts", "delete", "cleanup", "levels"}
  /\ Level \in [Objects -> Nat]

NetInv == WellFormed(vFanins) /\ Strashed(vFanins) /\ table = TableOf(vFanins)

PairInv ==
  /\ vStackReplace \in Seq(PairsOf(vFanins))
  /\ pc = "fanouts" => [old |-> pOld, new |-> pNew] \in PairsOf(vFanins) /\ pOld \in Objects

WalkInv ==
  /\ pc = "fanouts" => vNodes \subseteq Fanouts(pOld)
  /\ pc = "levels" => vNodes \subseteq Nodes
  /\ pc \notin {"fanouts", "levels"} => vNodes = {}

HeapInv == TypeInv /\ NetInv /\ PairInv /\ WalkInv

\* A node is stored at its level.
MarksRight(net, l, marks) ==
  \A x \in marks : x[2] \in DOMAIN net /\ Len(net[x[2]]) = 2 /\ x = <<l[x[2]], x[2]>>

\* A level is right, or it will be: a fanin is marked, or it is looked at next.
Levelled(net, l, marks, looked) ==
  \A n \in {x \in DOMAIN net : Len(net[x]) = 2} :
    \/ l[n] = Rise(net, l, n)
    \/ \E x \in marks : x[2] \in FaninIds(net, n)
    \/ n \in looked

\* What UpdateFanout has not come to.
Looked == IF pc = "levels" THEN vNodes ELSE {}

\* When Abc_AigUpdateLevel_int is over, nothing is marked.
LevelInv ==
  /\ MarksRight(vFanins, Level, vLevels)
  /\ fUpdateLevel => Levelled(vFanins, Level, vLevels, Looked)
  /\ fUpdateLevel /\ RetValue = 1 /\ pc \in {"idle", "cleanup"} => vLevels = {}

\* The two sides of a pair have one function, until the call is over.
InCall == pc \in {"replace", "fanouts", "delete"}
PairMeaning ==
  InCall => \A p \in Pairs : p.old \in Objects =>
    Function(vFanins, p.new) = Function(vFanins, <<p.old, FALSE>>)

MeaningInv == FunctionsKept /\ PairMeaning

-----------------------------------------------------------------------------
(* What it says of the nodes and their fanins. *)

LEMMA NodesAre ==
  ASSUME NetInv, NEW n \in Nodes
  PROVE  /\ n \in Objects /\ n \notin 0..nPis /\ Len(vFanins[n]) = 2
         /\ vFanins[n] = <<vFanins[n][1], vFanins[n][2]>>
         /\ vFanins[n][1] \in Lits(vFanins) /\ vFanins[n][2] \in Lits(vFanins)
         /\ FaninIds(vFanins, n) = {vFanins[n][1][1], vFanins[n][2][1]}
         /\ 0 < vFanins[n][1][1] /\ vFanins[n][1][1] < vFanins[n][2][1]
         /\ vFanins[n][1][1] \in Nat /\ vFanins[n][2][1] \in Nat
<1>1. n \in DOMAIN vFanins /\ Len(vFanins[n]) = 2 /\ WellFormed(vFanins) /\ Strashed(vFanins)
  BY DEF Nodes, IsNode, Objects, NetInv
<1>2. /\ n \notin 0..nPis
      /\ vFanins[n] = <<vFanins[n][1], vFanins[n][2]>>
      /\ vFanins[n][1] \in Lits(vFanins) /\ vFanins[n][2] \in Lits(vFanins)
      /\ FaninIds(vFanins, n) = {vFanins[n][1][1], vFanins[n][2][1]}
  BY <1>1, FaninsAre
<1>3. \A p \in Lits(vFanins) : p[1] \in Nat
  BY <1>1 DEF Lits, WellFormed
<1> QED
  BY <1>1, <1>2, <1>3 DEF Strashed, Objects

LEMMA FanoutsAre ==
  ASSUME NetInv, NEW k, NEW n \in Fanouts(k)
  PROVE  /\ n \in Objects /\ k \in Objects /\ k \in FaninIds(vFanins, n)
         /\ IsNode(n) \/ IsCo(n)
<1>1. n \in DOMAIN vFanins /\ k \in FaninIds(vFanins, n) /\ WellFormed(vFanins)
  BY DEF Fanouts, Objects, NetInv
<1>2. Len(vFanins[n]) \in {1, 2}
  BY <1>1, FaninsAre
<1> QED
  BY <1>1, <1>2, NetDown DEF Down, Objects, IsNode, IsCo

LEMMA LitsAre ==
  ASSUME WellFormed(vFanins), NEW p \in Lits(vFanins)
  PROVE  /\ p = <<p[1], p[2]>> /\ p[1] \in Objects /\ p[1] \in Nat /\ p[2] \in BOOLEAN
         /\ p # NULL /\ Not(p) = <<p[1], ~p[2]>>
<1>1. p = <<p[1], p[2]>> /\ p[1] \in DOMAIN vFanins /\ p[2] \in BOOLEAN
  BY DEF Lits
<1>2. p[1] \in Nat
  BY <1>1 DEF WellFormed
<1>3. p # NULL
  <2>1. p[1] # NULL[1]
    BY <1>2 DEF NULL
  <2> QED
    BY <2>1
<1> QED
  BY <1>1, <1>2, <1>3 DEF Objects, Not

\* The functions of the literals are subsets of the minterms.
LEMMA BitsAre ==
  ASSUME NetInv, NEW f, Solves(f, vFanins), NEW p \in Lits(vFanins)
  PROVE  /\ f[p[1]] \in SUBSET Minterms /\ Bits(f[p[1]], p) \in SUBSET Minterms
         /\ Bits(f[p[1]], Not(p)) = Minterms \ Bits(f[p[1]], p)
         /\ f[0] = Minterms
<1>1. f[p[1]] \in SUBSET Minterms
  BY LitsAre DEF NetInv, Solves, Objects
<1>2. p[2] \in BOOLEAN /\ Not(p)[2] = ~p[2]
  BY LitsAre DEF NetInv
<1>3. f[0] = Minterms
  BY AigConstants DEF NetInv, WellFormed, Solves, Meaning
<1> QED
  BY <1>1, <1>2, <1>3 DEF Bits

\* A node computes AND.
LEMMA NodeMeaning ==
  ASSUME NetInv, NEW f, Solves(f, vFanins), NEW n \in Nodes
  PROVE  f[n] = Bits(f[vFanins[n][1][1]], vFanins[n][1]) \intersect Bits(f[vFanins[n][2][1]], vFanins[n][2])
<1>1. n \in Objects /\ n # 0 /\ n \notin 1..nPis /\ Len(vFanins[n]) # 1
  BY NodesAre, AigConstants
<1>2. f[n] = Meaning(vFanins, f, n)
  BY <1>1 DEF Solves, Objects
<1> QED
  BY <1>1, <1>2 DEF Meaning

\* What Abc_AigAndLookup returns is the AND of its arguments: a trivial case, or
\* a node with these fanins.
IsAnd(p0, p1, r) ==
  /\ r \in Lits(vFanins)
  /\ \/ r[1] \in {0, p0[1], p1[1]}
     \/ r[1] \in Nodes /\ FaninIds(vFanins, r[1]) = {p0[1], p1[1]}
  /\ \A f : Solves(f, vFanins) =>
       Bits(f[r[1]], r) = Bits(f[p0[1]], p0) \intersect Bits(f[p1[1]], p1)

LEMMA LookupIs ==
  ASSUME NetInv, NEW p0 \in Lits(vFanins), NEW p1 \in Lits(vFanins),
         NEW r, r = AndLookup(p0, p1), r # NULL
  PROVE  IsAnd(p0, p1, r)
<1> USE DEF IsAnd
<1> DEFINE hits == {x \in table : x[1] = Ordered(p0, p1) /\ vFanins[x[2]] = x[1]}
           hit == CHOOSE x \in hits : TRUE
<1>1. \/ p0 = p1 /\ r = p0
      \/ p0 = Not(p1) /\ r = Not(Const1)
      \/ p0 = Const1 /\ r = p1
      \/ p1 = Const1 /\ r = p0
      \/ Not(Const1) \in {p0, p1} /\ r = Not(Const1)
      \/ hits # {} /\ r = <<hit[2], FALSE>>
  <2> DEFINE other == IF Fanouts(p0[1]) = {} \/ Fanouts(p1[1]) = {} \/ hits = {}
                        THEN NULL ELSE <<hit[2], FALSE>>
  <2>1. r = CASE p0 = p1 -> p0
              [] p0 = Not(p1) -> Not(Const1)
              [] p0 = Const1 -> p1
              [] p1 = Const1 -> p0
              [] Not(Const1) \in {p0, p1} -> Not(Const1)
              [] OTHER -> other
    BY DEF AndLookup
  <2>2. other = NULL \/ (hits # {} /\ other = <<hit[2], FALSE>>)
    OBVIOUS
  <2> HIDE DEF other, hits, hit
  <2> QED
    BY <2>1, <2>2
<1>2. Const1 \in Lits(vFanins) /\ Not(Const1) \in Lits(vFanins) /\ Const1[1] = 0 /\ Not(Const1)[1] = 0
  <2>1. 0 \in DOMAIN vFanins
    BY AigConstants DEF NetInv, WellFormed
  <2>2. Const1 = <<0, FALSE>> /\ Not(Const1) = <<0, TRUE>>
    BY DEF Const1, Not
  <2>3. <<0, FALSE>> \in Lits(vFanins) /\ <<0, TRUE>> \in Lits(vFanins)
    BY <2>1 DEF Lits
  <2>4. Const1[1] = 0 /\ Not(Const1)[1] = 0
    BY <2>2
  <2> QED
    BY <2>2, <2>3, <2>4, Zenon
<1>3. ASSUME NEW f, Solves(f, vFanins)
      PROVE  /\ Bits(f[p0[1]], p0) \subseteq Minterms /\ Bits(f[p1[1]], p1) \subseteq Minterms
             /\ f[0] = Minterms /\ Bits(f[0], Const1) = Minterms /\ Bits(f[0], Not(Const1)) = {}
  <2>1. /\ Bits(f[p0[1]], p0) \in SUBSET Minterms /\ Bits(f[p1[1]], p1) \in SUBSET Minterms
        /\ f[0] = Minterms
    BY <1>3, BitsAre
  <2>2. Const1[2] = FALSE /\ Not(Const1)[2] = TRUE
    BY DEF Const1, Not
  <2>3. Bits(f[0], Const1) = f[0] /\ Bits(f[0], Not(Const1)) = Minterms \ f[0]
    BY <2>2 DEF Bits
  <2> QED
    BY <2>1, <2>3
<1>4. CASE p0 = p1 /\ r = p0
  BY <1>4
<1>5. CASE p0 = Not(p1) /\ r = Not(Const1)
  <2>1. ASSUME NEW f, Solves(f, vFanins)
        PROVE  Bits(f[p0[1]], p0) \intersect Bits(f[p1[1]], p1) = {}
    <3>1. p0[1] = p1[1]
      BY <1>5 DEF Not
    <3>2. Bits(f[p1[1]], Not(p1)) = Minterms \ Bits(f[p1[1]], p1)
      BY <2>1, BitsAre
    <3> QED
      BY <1>5, <3>1, <3>2
  <2> QED
    BY <1>2, <1>3, <1>5, <2>1
<1>6. CASE p0 = Const1 /\ r = p1
  <2>1. ASSUME NEW f, Solves(f, vFanins)
        PROVE  Bits(f[p0[1]], p0) = Minterms
    BY <1>2, <1>3, <1>6, <2>1
  <2> QED
    BY <1>3, <1>6, <2>1
<1>7. CASE p1 = Const1 /\ r = p0
  <2>1. ASSUME NEW f, Solves(f, vFanins)
        PROVE  Bits(f[p1[1]], p1) = Minterms
    BY <1>2, <1>3, <1>7, <2>1
  <2> QED
    BY <1>3, <1>7, <2>1
<1>8. CASE Not(Const1) \in {p0, p1} /\ r = Not(Const1)
  <2>1. ASSUME NEW f, Solves(f, vFanins)
        PROVE  Bits(f[r[1]], r) = {} /\ (Bits(f[p0[1]], p0) = {} \/ Bits(f[p1[1]], p1) = {})
    BY <1>2, <1>3, <1>8, <2>1
  <2> QED
    BY <1>2, <1>8, <2>1
<1>9. CASE hits # {} /\ r = <<hit[2], FALSE>>
  <2>1. hit \in table /\ hit[1] = Ordered(p0, p1) /\ vFanins[hit[2]] = hit[1]
    <3>1. hit \in hits
      BY <1>9
    <3> HIDE DEF hit
    <3> QED
      BY <3>1
  <2> DEFINE n == hit[2]
  <2> HIDE DEF hit, hits
  <2>2. n \in Nodes /\ vFanins[n] = Ordered(p0, p1)
    BY <2>1 DEF NetInv, TableOf, Nodes, IsNode, Objects
  <2> HIDE DEF n
  <2>3. r = <<n, FALSE>> /\ r[1] = n /\ n \in DOMAIN vFanins
    BY <1>9, <2>2 DEF Nodes, Objects, n
  <2>4. \/ vFanins[n][1] = p0 /\ vFanins[n][2] = p1
        \/ vFanins[n][1] = p1 /\ vFanins[n][2] = p0
    BY <2>2 DEF Ordered
  <2>5. FaninIds(vFanins, n) = {p0[1], p1[1]}
    BY <2>2, <2>4, NodesAre
  <2>6. ASSUME NEW f, Solves(f, vFanins)
        PROVE  Bits(f[r[1]], r) = Bits(f[p0[1]], p0) \intersect Bits(f[p1[1]], p1)
    <3>1. Bits(f[r[1]], r) = f[n]
      BY <2>3 DEF Bits
    <3>2. f[n] = Bits(f[vFanins[n][1][1]], vFanins[n][1]) \intersect Bits(f[vFanins[n][2][1]], vFanins[n][2])
      BY <2>2, <2>6, NodeMeaning
    <3> QED
      BY <2>4, <3>1, <3>2
  <2>7. r \in Lits(vFanins)
    <3>1. <<n, FALSE>> \in Lits(vFanins)
      BY <2>3 DEF Lits
    <3> QED
      BY <2>3, <3>1
  <2>8. r[1] \in Nodes /\ FaninIds(vFanins, r[1]) = {p0[1], p1[1]}
    BY <2>2, <2>3, <2>5
  <2> QED
    BY <2>6, <2>7, <2>8, Zenon
<1> QED
  BY <1>1, <1>4, <1>5, <1>6, <1>7, <1>8, <1>9

\* If it returns nothing, there is no such node, and the arguments are not trivial.
LEMMA LookupNull ==
  ASSUME NetInv, NEW p0 \in Lits(vFanins), NEW p1 \in Lits(vFanins), AndLookup(p0, p1) = NULL
  PROVE  /\ p0[1] # p1[1] /\ p0[1] # 0 /\ p1[1] # 0
         /\ \A n \in Nodes : vFanins[n] # Ordered(p0, p1)
<1> DEFINE hits == {x \in table : x[1] = Ordered(p0, p1) /\ vFanins[x[2]] = x[1]}
           hit == CHOOSE x \in hits : TRUE
<1>1. /\ p0 # NULL /\ p1 # NULL /\ Not(Const1) # NULL
      /\ p0 = <<p0[1], p0[2]>> /\ p1 = <<p1[1], p1[2]>> /\ p0[2] \in BOOLEAN /\ p1[2] \in BOOLEAN
      /\ Not(p1) = <<p1[1], ~p1[2]>>
  BY LitsAre DEF NetInv, NULL, Const1, Not
<1>2. hits # {} => <<hit[2], FALSE>> # NULL
  <2> SUFFICES ASSUME hits # {} PROVE <<hit[2], FALSE>> # NULL
    OBVIOUS
  <2>1. hit \in table
    OBVIOUS
  <2>2. hit[2] \in Nat
    BY <2>1 DEF NetInv, TableOf, WellFormed
  <2> QED
    BY <2>2 DEF NULL
<1>3. /\ p0 # p1 /\ p0 # Not(p1) /\ p0 # Const1 /\ p1 # Const1 /\ Not(Const1) \notin {p0, p1}
      /\ Fanouts(p0[1]) = {} \/ Fanouts(p1[1]) = {} \/ hits = {}
  BY <1>1, <1>2 DEF AndLookup
<1>4. p0[1] # p1[1] /\ p0[1] # 0 /\ p1[1] # 0
  BY <1>1, <1>3 DEF Const1, Not
<1>5. ASSUME NEW n \in Nodes, vFanins[n] = Ordered(p0, p1) PROVE FALSE
  <2>1. FaninIds(vFanins, n) = {p0[1], p1[1]} /\ n \in Objects
    BY <1>5, NodesAre DEF Ordered
  <2>2. n \in Fanouts(p0[1]) /\ n \in Fanouts(p1[1])
    BY <2>1 DEF Fanouts
  <2>3. <<vFanins[n], n>> \in hits
    BY <1>5 DEF NetInv, TableOf, Nodes, IsNode, Objects
  <2> HIDE DEF hits
  <2> QED
    BY <1>3, <2>2, <2>3
<1> QED
  BY <1>4, <1>5

-----------------------------------------------------------------------------
(* Changes of a network. *)

LEMMA OrderedIs ==
  ASSUME NEW net, WellFormed(net), NEW p0 \in Lits(net), NEW p1 \in Lits(net), p0[1] # p1[1],
         NEW s, s = Ordered(p0, p1)
  PROVE  /\ s \in [1..2 -> Lits(net)] /\ s = <<s[1], s[2]>> /\ Len(s) = 2
         /\ s = <<p0, p1>> \/ s = <<p1, p0>>
         /\ s[1][1] < s[2][1]
<1>1. s = <<p0, p1>> \/ s = <<p1, p0>>
  BY DEF Ordered
<1>2. p0[1] \in Nat /\ p1[1] \in Nat
  BY DEF Lits, WellFormed
<1>3. s[1][1] < s[2][1]
  BY <1>2 DEF Ordered
<1>4. s \in [1..2 -> Lits(net)] /\ s = <<s[1], s[2]>> /\ Len(s) = 2
  BY <1>1
<1> QED
  BY <1>1, <1>3, <1>4

\* An object is given other fanins.
Patched(net, n, s) == [net EXCEPT ![n] = s]

LEMMA PatchedIs ==
  ASSUME NEW net, NEW n \in DOMAIN net, NEW s, NEW new, new = Patched(net, n, s)
  PROVE  /\ DOMAIN new = DOMAIN net /\ new[n] = s
         /\ \A x \in DOMAIN net : x # n => new[x] = net[x]
         /\ Lits(new) = Lits(net)
         /\ \A x \in DOMAIN net : x # n => FaninIds(new, x) = FaninIds(net, x)
<1>1. /\ DOMAIN new = DOMAIN net /\ new[n] = s
      /\ \A x \in DOMAIN net : x # n => new[x] = net[x]
  BY DEF Patched
<1> QED
  BY <1>1 DEF Lits, FaninIds

LEMMA PatchedWell ==
  ASSUME NEW net, WellFormed(net), NEW n \in (DOMAIN net) \ (0..nPis),
         NEW s \in [1..1 -> Lits(net)] \union [1..2 -> Lits(net)],
         NEW new, new = Patched(net, n, s)
  PROVE  WellFormed(new)
<1>1. DOMAIN new = DOMAIN net /\ new[n] = s /\ \A x \in DOMAIN net : x # n => new[x] = net[x]
  BY PatchedIs
<1>2. \A x \in DOMAIN new \ (0..nPis) : new[x] \in [1..1 -> Lits(net)] \union [1..2 -> Lits(net)]
  <2> SUFFICES ASSUME NEW x \in DOMAIN new \ (0..nPis)
               PROVE  new[x] \in [1..1 -> Lits(net)] \union [1..2 -> Lits(net)]
    OBVIOUS
  <2>1. CASE x = n
    BY <1>1, <2>1
  <2>2. CASE x # n
    BY <1>1, <2>2 DEF WellFormed, Lits
  <2> QED
    BY <2>1, <2>2
<1>3. \A x \in 0..nPis : new[x] = <<>>
  BY <1>1 DEF WellFormed
<1> QED
  BY <1>1, <1>2, <1>3 DEF WellFormed, Lits

LEMMA PatchedStrashed ==
  ASSUME NEW net, Strashed(net), NEW n \in DOMAIN net, NEW s, NEW new, new = Patched(net, n, s),
         Len(s) = 2 => /\ 0 < s[1][1] /\ s[1][1] < s[2][1]
                       /\ \A x \in DOMAIN net : Len(net[x]) = 2 => net[x] # s
  PROVE  Strashed(new)
<1>1. DOMAIN new = DOMAIN net /\ new[n] = s /\ \A x \in DOMAIN net : x # n => new[x] = net[x]
  BY PatchedIs
<1>2. ASSUME NEW x \in DOMAIN net, Len(new[x]) = 2
      PROVE  0 < new[x][1][1] /\ new[x][1][1] < new[x][2][1]
  <2>1. CASE x = n
    BY <1>1, <1>2, <2>1
  <2>2. CASE x # n
    BY <1>1, <1>2, <2>2 DEF Strashed
  <2> QED
    BY <2>1, <2>2
<1>3. ASSUME NEW x \in DOMAIN net, NEW y \in DOMAIN net, Len(new[x]) = 2, new[x] = new[y]
      PROVE  x = y
  <2>1. CASE x = n /\ y # n
    BY <1>1, <1>3, <2>1
  <2>2. CASE y = n /\ x # n
    BY <1>1, <1>3, <2>2
  <2>3. CASE x # n /\ y # n
    BY <1>1, <1>3, <2>3 DEF Strashed
  <2> QED
    BY <2>1, <2>2, <2>3
<1> QED
  BY <1>1, <1>2, <1>3 DEF Strashed

LEMMA PatchedTable ==
  ASSUME NEW net, NEW n \in DOMAIN net, NEW s, NEW new, new = Patched(net, n, s)
  PROVE  /\ Len(s) = 2 /\ Len(net[n]) = 2
              => TableOf(new) = (TableOf(net) \ {<<net[n], n>>}) \union {<<s, n>>}
         /\ Len(s) # 2 /\ Len(net[n]) # 2 => TableOf(new) = TableOf(net)
<1>1. DOMAIN new = DOMAIN net /\ new[n] = s /\ \A x \in DOMAIN net : x # n => new[x] = net[x]
  BY PatchedIs
<1>2. CASE Len(s) = 2 /\ Len(net[n]) = 2
  BY <1>1, <1>2 DEF TableOf
<1>3. CASE Len(s) # 2 /\ Len(net[n]) # 2
  BY <1>1, <1>3 DEF TableOf
<1> QED
  BY <1>2, <1>3

\* An object that nothing depends on is taken away.
Without(net, n) == [x \in (DOMAIN net) \ {n} |-> net[x]]

LEMMA WithoutIs ==
  ASSUME NEW net, WellFormed(net), NEW n \in (DOMAIN net) \ (0..nPis),
         \A x \in DOMAIN net : n \notin FaninIds(net, x), NEW new, new = Without(net, n)
  PROVE  /\ DOMAIN new = DOMAIN net \ {n} /\ WellFormed(new)
         /\ \A x \in DOMAIN new : new[x] = net[x] /\ FaninIds(new, x) = FaninIds(net, x)
         /\ Strashed(net) => Strashed(new)
         /\ Len(net[n]) = 2 => TableOf(new) = TableOf(net) \ {<<net[n], n>>}
<1>1. DOMAIN new = DOMAIN net \ {n}
  BY DEF Without
<1>2. \A x \in DOMAIN new : new[x] = net[x]
  BY DEF Without
<1>3. \A x \in DOMAIN new : FaninIds(new, x) = FaninIds(net, x)
  BY <1>2 DEF FaninIds
<1>4. \A x \in DOMAIN new \ (0..nPis) : new[x] \in [1..1 -> Lits(new)] \union [1..2 -> Lits(new)]
  <2> SUFFICES ASSUME NEW x \in DOMAIN new \ (0..nPis)
               PROVE  new[x] \in [1..1 -> Lits(new)] \union [1..2 -> Lits(new)]
    OBVIOUS
  <2>0. x \in DOMAIN net /\ new[x] = net[x] /\ n \notin FaninIds(net, x)
    BY <1>1, <1>2
  <2>1. net[x] \in [1..1 -> Lits(net)] \union [1..2 -> Lits(net)]
    BY <2>0 DEF WellFormed, Lits
  <2>2. \A e \in DOMAIN net[x] : net[x][e] \in Lits(net) /\ net[x][e][1] # n
    BY <2>0, <2>1 DEF FaninIds
  <2>3. \A e \in DOMAIN net[x] : net[x][e] \in Lits(new)
    BY <1>1, <2>2 DEF Lits
  <2>4. CASE net[x] \in [1..1 -> Lits(net)]
    BY <2>0, <2>3, <2>4
  <2>5. CASE net[x] \in [1..2 -> Lits(net)]
    BY <2>0, <2>3, <2>5
  <2> QED
    BY <2>1, <2>4, <2>5
<1>5. IsFiniteSet(DOMAIN new)
  BY <1>1, FS_Subset DEF WellFormed
<1>6. WellFormed(new)
  <2>1. DOMAIN new \subseteq Nat /\ 0..nPis \subseteq DOMAIN new /\ \A x \in 0..nPis : new[x] = <<>>
    BY <1>1, <1>2 DEF WellFormed
  <2> QED
    BY <1>4, <1>5, <2>1 DEF WellFormed, Lits
<1>7. Strashed(net) => Strashed(new)
  BY <1>1, <1>2 DEF Strashed
<1>8. Len(net[n]) = 2 => TableOf(new) = TableOf(net) \ {<<net[n], n>>}
  BY <1>1, <1>2 DEF TableOf
<1> QED
  BY <1>1, <1>2, <1>3, <1>6, <1>7, <1>8

\* A node is added, and what the network is with it.
With(net, n, s) == [x \in (DOMAIN net) \union {n} |-> IF x = n THEN s ELSE net[x]]

Grown(new, net, n, s) ==
  /\ DOMAIN new = (DOMAIN net) \union {n} /\ new[n] = s /\ WellFormed(new)
  /\ \A x \in DOMAIN net : new[x] = net[x] /\ FaninIds(new, x) = FaninIds(net, x)
  /\ Lits(net) \subseteq Lits(new)
  /\ Strashed(net) /\ 0 < s[1][1] /\ s[1][1] < s[2][1]
        /\ (\A x \in DOMAIN net : Len(net[x]) = 2 => net[x] # s)
       => Strashed(new)
  /\ TableOf(new) = TableOf(net) \union {<<s, n>>}

LEMMA WithIs ==
  ASSUME NEW net, WellFormed(net), NEW n \in Nat \ DOMAIN net, NEW s \in [1..2 -> Lits(net)],
         Len(s) = 2, NEW new, new = With(net, n, s)
  PROVE  Grown(new, net, n, s)
<1>1. DOMAIN new = (DOMAIN net) \union {n} /\ new[n] = s
  BY DEF With
<1>2. \A x \in DOMAIN net : new[x] = net[x]
  BY DEF With
<1>3. \A x \in DOMAIN net : FaninIds(new, x) = FaninIds(net, x)
  BY <1>2 DEF FaninIds
<1>4. Lits(net) \subseteq Lits(new)
  BY <1>1 DEF Lits
<1>5. \A x \in DOMAIN new \ (0..nPis) : new[x] \in [1..1 -> Lits(new)] \union [1..2 -> Lits(new)]
  <2> SUFFICES ASSUME NEW x \in DOMAIN new \ (0..nPis)
               PROVE  new[x] \in [1..1 -> Lits(new)] \union [1..2 -> Lits(new)]
    OBVIOUS
  <2>1. new[x] \in [1..1 -> Lits(net)] \union [1..2 -> Lits(net)]
    <3>1. CASE x = n
      BY <1>1, <3>1
    <3>2. CASE x # n
      BY <1>1, <1>2, <3>2 DEF WellFormed, Lits
    <3> QED
      BY <3>1, <3>2
  <2> QED
    BY <1>4, <2>1
<1>6. IsFiniteSet(DOMAIN new)
  BY <1>1, FS_AddElement DEF WellFormed
<1>7. WellFormed(new)
  <2>1. DOMAIN new \subseteq Nat /\ 0..nPis \subseteq DOMAIN new /\ \A x \in 0..nPis : new[x] = <<>>
    BY <1>1, <1>2 DEF WellFormed
  <2> QED
    BY <1>5, <1>6, <2>1 DEF WellFormed, Lits
<1>8. ASSUME Strashed(net), 0 < s[1][1], s[1][1] < s[2][1],
             \A x \in DOMAIN net : Len(net[x]) = 2 => net[x] # s
      PROVE  Strashed(new)
  <2>1. ASSUME NEW x \in DOMAIN new, Len(new[x]) = 2
        PROVE  0 < new[x][1][1] /\ new[x][1][1] < new[x][2][1]
    <3>1. CASE x = n
      BY <1>1, <1>8, <3>1
    <3>2. CASE x # n
      BY <1>1, <1>2, <1>8, <2>1, <3>2 DEF Strashed
    <3> QED
      BY <3>1, <3>2
  <2>2. ASSUME NEW x \in DOMAIN new, NEW y \in DOMAIN new, Len(new[x]) = 2, new[x] = new[y]
        PROVE  x = y
    <3>1. CASE x = n \/ y = n
      BY <1>1, <1>2, <1>8, <2>2, <3>1
    <3>2. CASE x # n /\ y # n
      BY <1>1, <1>2, <1>8, <2>2, <3>2 DEF Strashed
    <3> QED
      BY <3>1, <3>2
  <2> QED
    BY <2>1, <2>2 DEF Strashed
<1>9. TableOf(new) = TableOf(net) \union {<<s, n>>}
  <2>1. {x \in DOMAIN new : Len(new[x]) = 2} = {x \in DOMAIN net : Len(net[x]) = 2} \union {n}
    BY <1>1, <1>2
  <2> QED
    BY <1>1, <1>2, <2>1 DEF TableOf
<1> QED
  BY <1>1, <1>2, <1>3, <1>4, <1>7, <1>8, <1>9 DEF Grown

-----------------------------------------------------------------------------
(* The stack of replacements. *)

LEMMA SetOf ==
  ASSUME NEW S, NEW s \in Seq(S)
  PROVE  /\ ToSet(s) \subseteq S /\ s \in Seq(ToSet(s))
         /\ s # <<>> => /\ Last(s) \in ToSet(s) /\ Front(s) \in Seq(S)
                        /\ ToSet(Front(s)) \subseteq ToSet(s)
         /\ \A e \in S : ToSet(Append(s, e)) = ToSet(s) \union {e} /\ Append(s, e) \in Seq(S)
<1>1. DOMAIN s = 1..Len(s) /\ Len(s) \in Nat /\ \A i \in 1..Len(s) : s[i] \in S
  BY LenProperties, ElementOfSeq
<1>2. ToSet(s) = {s[i] : i \in 1..Len(s)}
  BY <1>1 DEF ToSet
<1>3. s \in Seq(ToSet(s))
  <2>1. s \in [1..Len(s) -> ToSet(s)]
    BY <1>1, <1>2, LenProperties
  <2> QED
    BY <1>1, <2>1, TupleIs
<1>4. ASSUME s # <<>>
      PROVE  Last(s) \in ToSet(s) /\ Front(s) \in Seq(S) /\ ToSet(Front(s)) \subseteq ToSet(s)
  <2>1. Len(s) \in Nat \ {0}
    BY <1>4, EmptySeq
  <2>2. \A i \in 1..(Len(s) - 1) : s[i] \in ToSet(s)
    BY <1>1, <1>2
  <2>3. 1 \in Int /\ Len(s) - 1 \in Int
    BY <2>1
  <2>4. Front(s) \in Seq(ToSet(s))
    BY <2>2, <2>3, SubSeqProperties DEF Front
  <2>5. ToSet(Front(s)) \subseteq ToSet(s)
    <3>1. DOMAIN Front(s) = 1..Len(Front(s)) /\ \A i \in 1..Len(Front(s)) : Front(s)[i] \in ToSet(s)
      BY <2>4, LenProperties, ElementOfSeq
    <3> QED
      BY <3>1 DEF ToSet
  <2>6. Front(s) \in Seq(S)
    BY <1>1, <1>2, <2>4, SeqMonotonic
  <2>7. Last(s) \in ToSet(s)
    BY <1>2, <2>1 DEF Last
  <2> QED
    BY <2>5, <2>6, <2>7
<1>5. ASSUME NEW e \in S PROVE ToSet(Append(s, e)) = ToSet(s) \union {e} /\ Append(s, e) \in Seq(S)
  <2> DEFINE t == Append(s, e)
  <2>1. /\ t \in Seq(S) /\ Len(t) = Len(s) + 1
        /\ \A i \in 1..Len(s) : t[i] = s[i]
        /\ t[Len(s) + 1] = e
    BY AppendProperties
  <2>2. DOMAIN t = 1..(Len(s) + 1)
    BY <2>1, LenProperties
  <2> HIDE DEF t
  <2>3. ToSet(t) = {t[i] : i \in 1..(Len(s) + 1)}
    BY <2>2 DEF ToSet
  <2>4. ToSet(t) = ToSet(s) \union {e}
    BY <1>1, <1>2, <2>1, <2>3
  <2> QED
    BY <2>1, <2>4 DEF t
<1>6. ToSet(s) \subseteq S
  BY <1>1, <1>2
<1> QED
  BY <1>3, <1>4, <1>5, <1>6

\* What is taken from the stack leaves the rest in place.
LEMMA UnscheduledIs ==
  ASSUME NEW n, NEW A, vStackReplace \in Seq(A)
  PROVE  Unscheduled(n) \in Seq(ToSet(vStackReplace))
<1> DEFINE D == 1..Len(vStackReplace)
           E == ToSet(vStackReplace)
           V == [left : Seq(E), skip : BOOLEAN]
           base == [left |-> <<>>, skip |-> FALSE]
           Op(acc, pair) == IF pair.old = n /\ ~acc.skip
                              THEN [acc EXCEPT !.skip = TRUE]
                              ELSE [left |-> Append(acc.left, pair), skip |-> FALSE]
           Iter(g) == g = [S \in SUBSET D |->
                             IF S = {} THEN base ELSE Op(g[S \ {TopOf(S)}], vStackReplace[TopOf(S)])]
           f == CHOOSE g : Iter(g)
           step == [x \in D \X V |-> Op(x[2], vStackReplace[x[1]])]
<1>1. DOMAIN vStackReplace = D /\ Len(vStackReplace) \in Nat
  BY LenProperties
<1>2. Unscheduled(n) = f[D].left
  BY <1>1 DEF Unscheduled, FoldLeft, MapThenFoldSet, Max, TopOf
<1>3. \A i \in D : vStackReplace[i] \in E
  BY <1>1 DEF ToSet
<1>4. ASSUME NEW acc \in V, NEW pair \in E PROVE Op(acc, pair) \in V
  <2>1. acc.left \in Seq(E) /\ acc.skip \in BOOLEAN
    OBVIOUS
  <2>2. Append(acc.left, pair) \in Seq(E)
    <3> HIDE DEF E
    <3> QED
      BY <2>1, AppendProperties
  <2>3. [acc EXCEPT !.skip = TRUE] \in V
    OBVIOUS
  <2>4. [left |-> Append(acc.left, pair), skip |-> FALSE] \in V
    BY <2>2
  <2> HIDE DEF V, E
  <2> QED
    BY <2>3, <2>4
<1>5. base \in V
  BY EmptySeq
<1> HIDE DEF Op, V, E, base
<1>6. step \in [D \X V -> V]
  BY <1>3, <1>4
<1>7. \A i \in D, v \in V : step[<<i, v>>] = Op(v, vStackReplace[i])
  OBVIOUS
<1> HIDE DEF step
<1>8. PICK g \in [SUBSET D -> V] : LeftFolds(g, Len(vStackReplace), base, step)
  BY <1>1, <1>5, <1>6, FoldLeftExists
<1>9. ASSUME NEW T \in SUBSET D, T # {} PROVE TopOf(T) \in D /\ TopOf(T) \in T
  BY <1>1, <1>9, TopOfIs
<1>10. Iter(g)
  <2>1. ASSUME NEW T \in SUBSET D
        PROVE  g[T] = IF T = {} THEN base ELSE Op(g[T \ {TopOf(T)}], vStackReplace[TopOf(T)])
    <3>1. g[T] = IF T = {} THEN base ELSE step[<<TopOf(T), g[T \ {TopOf(T)}]>>]
      BY <1>8 DEF LeftFolds
    <3>2. CASE T = {}
      BY <3>1, <3>2
    <3>3. CASE T # {}
      <4>1. T \ {TopOf(T)} \in SUBSET D
        OBVIOUS
      <4>2. g[T \ {TopOf(T)}] \in V /\ TopOf(T) \in D
        BY <1>9, <3>3, <4>1
      <4> QED
        BY <1>7, <3>1, <3>3, <4>2
    <3> QED
      BY <3>2, <3>3
  <2> QED
    BY <2>1
<1>11. Iter(f)
  BY <1>10
<1> HIDE DEF f
<1>12. f[D] \in V
  <2> DEFINE B == {T \in SUBSET D : f[T] \notin V}
  <2>1. SUFFICES ASSUME B # {} PROVE FALSE
    OBVIOUS
  <2>2. B \in SUBSET SUBSET D /\ IsFiniteSet(D)
    BY <1>1, FS_Interval
  <2> HIDE DEF B, D
  <2>3. PICK T \in B : \A U \in B : U \subseteq T => U = T
    BY <2>1, <2>2, LeastSubset
  <2>4. T \in SUBSET D /\ f[T] \notin V
    BY DEF B
  <2>5. CASE T = {}
    BY <1>5, <1>11, <2>4, <2>5
  <2>6. CASE T # {}
    <3> DEFINE U == T \ {TopOf(T)}
    <3>1. U \in SUBSET D /\ U \subseteq T /\ U # T
      BY <1>9, <2>4, <2>6
    <3>2. f[U] \in V
      BY <2>3, <3>1 DEF B
    <3>3. f[T] = Op(f[U], vStackReplace[TopOf(T)])
      BY <1>11, <2>4, <2>6
    <3> HIDE DEF U
    <3> QED
      BY <1>3, <1>4, <1>9, <2>4, <2>6, <3>2, <3>3
  <2> QED
    BY <2>5, <2>6
<1>13. f[D].left \in Seq(E)
  BY <1>12 DEF V
<1> QED
  BY <1>2, <1>13 DEF E

\* A finite set of numbers has a greatest one.
LEMMA MaxOf ==
  ASSUME NEW S \in SUBSET Nat, IsFiniteSet(S), S # {}
  PROVE  Max(S) \in S /\ \A y \in S : Max(S) >= y
<1> DEFINE K == {U \in SUBSET S : U = {} \/ \E x \in U : \A y \in U : x >= y}
<1>1. {} \in K
  OBVIOUS
<1>2. ASSUME NEW U \in SUBSET S, NEW z \in S \ U, U \in K
      PROVE  U \union {z} \in K
  <2>1. CASE U = {}
    BY <2>1
  <2>2. CASE U # {}
    <3>1. PICK x \in U : \A y \in U : x >= y
      BY <1>2, <2>2
    <3>2. CASE z >= x
      BY <3>1, <3>2
    <3>3. CASE ~(z >= x)
      BY <3>1, <3>3
    <3> QED
      BY <3>2, <3>3
  <2> QED
    BY <2>1, <2>2
<1>3. SUBSET S \subseteq K
  <2>1. \A U \in SUBSET S : \A z \in S \ U : U \in K => U \union {z} \in K
    BY <1>2
  <2> HIDE DEF K
  <2> QED
    BY <1>1, <2>1, SubsetInduction
<1>4. \E x \in S : \A y \in S : x >= y
  BY <1>3
<1> QED
  BY <1>4 DEF Max

-----------------------------------------------------------------------------
(* A fanout that is looked at. *)

LEMMA BitsTwice ==
  ASSUME NEW S \in SUBSET Minterms, NEW p, p[2] \in BOOLEAN, NEW c \in BOOLEAN
  PROVE  Bits(S, NotCond(p, c)) = IF c THEN Minterms \ Bits(S, p) ELSE Bits(S, p)
<1>1. NotCond(p, c)[2] = (p[2] # c)
  BY DEF NotCond
<1>2. CASE c = TRUE /\ p[2] = TRUE
  BY <1>1, <1>2 DEF Bits
<1>3. CASE c = TRUE /\ p[2] = FALSE
  BY <1>1, <1>3 DEF Bits
<1>4. CASE c = FALSE /\ p[2] = TRUE
  BY <1>1, <1>4 DEF Bits
<1>5. CASE c = FALSE /\ p[2] = FALSE
  BY <1>1, <1>5 DEF Bits
<1> QED
  BY <1>2, <1>3, <1>4, <1>5

\* Its fanins after the replacement, and that they make it what it was.
LEMMA FanoutIs ==
  ASSUME HeapInv, pc = "fanouts", NEW n \in vNodes, IsNode(n)
  PROVE  /\ n \in Nodes /\ n \in Objects /\ n \notin 0..nPis /\ pOld \in Objects
         /\ pNew \in Lits(vFanins)
         /\ Fanin1(n) \in Lits(vFanins) /\ Fanin1(n)[1] = pNew[1]
         /\ Fanin2(n) \in Lits(vFanins) /\ Fanin2(n)[1] # pOld
         /\ FaninIds(vFanins, n) = {pOld, Fanin2(n)[1]}
         /\ \A f : Solves(f, vFanins) /\ f[pOld] = Bits(f[pNew[1]], pNew) =>
              f[n] = Bits(f[pNew[1]], Fanin1(n)) \intersect Bits(f[Fanin2(n)[1]], Fanin2(n))
<1>1. n \in Nodes /\ n \in Objects /\ pOld \in FaninIds(vFanins, n) /\ NetInv
  BY FanoutsAre DEF HeapInv, WalkInv, Nodes
<1>2. pNew \in Lits(vFanins) /\ pOld \in Objects
  BY DEF HeapInv, PairInv, PairsOf
<1> DEFINE e == OldFanin(n)
           a == vFanins[n][e]
<1>3. /\ n \notin 0..nPis
      /\ vFanins[n][1] \in Lits(vFanins) /\ vFanins[n][2] \in Lits(vFanins)
      /\ FaninIds(vFanins, n) = {vFanins[n][1][1], vFanins[n][2][1]}
      /\ vFanins[n][1][1] # vFanins[n][2][1]
  BY <1>1, NodesAre
<1>4. /\ (e = 1 /\ 3 - e = 2) \/ (e = 2 /\ 3 - e = 1)
      /\ a[1] = pOld
  BY <1>1, <1>3 DEF OldFanin
<1>5. /\ Fanin2(n) \in Lits(vFanins) /\ Fanin2(n)[1] # pOld
      /\ FaninIds(vFanins, n) = {pOld, Fanin2(n)[1]}
  BY <1>3, <1>4 DEF Fanin2
<1>6. a \in Lits(vFanins) /\ a[2] \in BOOLEAN /\ pNew[2] \in BOOLEAN /\ pNew[1] \in DOMAIN vFanins
  <2>1. a \in Lits(vFanins)
    BY <1>3, <1>4
  <2> HIDE DEF a
  <2> QED
    BY <1>2, <2>1 DEF Lits
<1>7. Fanin1(n) = <<pNew[1], pNew[2] # a[2]>> /\ Fanin1(n) = NotCond(pNew, a[2])
  BY DEF Fanin1, NotCond
<1> HIDE DEF a, e
<1>8. Fanin1(n) \in Lits(vFanins) /\ Fanin1(n)[1] = pNew[1]
  <2>1. (pNew[2] # a[2]) \in BOOLEAN
    BY <1>6
  <2>2. <<pNew[1], pNew[2] # a[2]>> \in Lits(vFanins)
    BY <1>6, <2>1 DEF Lits
  <2> QED
    BY <1>7, <2>2
<1>9. ASSUME NEW f, Solves(f, vFanins), f[pOld] = Bits(f[pNew[1]], pNew)
      PROVE  f[n] = Bits(f[pNew[1]], Fanin1(n)) \intersect Bits(f[Fanin2(n)[1]], Fanin2(n))
  <2>1. f[n] = Bits(f[vFanins[n][1][1]], vFanins[n][1]) \intersect Bits(f[vFanins[n][2][1]], vFanins[n][2])
    BY <1>1, <1>9, NodeMeaning
  <2>2. f[n] = Bits(f[pOld], a) \intersect Bits(f[Fanin2(n)[1]], Fanin2(n))
    <3>1. CASE e = 1 /\ 3 - e = 2
      BY <1>4, <2>1, <3>1 DEF Fanin2, a, e
    <3>2. CASE e = 2 /\ 3 - e = 1
      BY <1>4, <2>1, <3>2 DEF Fanin2, a, e
    <3> QED
      BY <1>4, <3>1, <3>2
  <2>3. f[pNew[1]] \in SUBSET Minterms
    BY <1>6, <1>9 DEF Solves
  <2>4. Bits(f[pNew[1]], Fanin1(n)) = IF a[2] THEN Minterms \ Bits(f[pNew[1]], pNew) ELSE Bits(f[pNew[1]], pNew)
    <3>1. Bits(f[pNew[1]], NotCond(pNew, a[2])) = IF a[2] THEN Minterms \ Bits(f[pNew[1]], pNew) ELSE Bits(f[pNew[1]], pNew)
      <4>1. \A S \in SUBSET Minterms, c \in BOOLEAN :
              Bits(S, NotCond(pNew, c)) = IF c THEN Minterms \ Bits(S, pNew) ELSE Bits(S, pNew)
        BY <1>6, BitsTwice
      <4>2. a[2] \in BOOLEAN
        BY <1>6
      <4> QED
        BY <2>3, <4>1, <4>2, Zenon
    <3> QED
      BY <1>7, <3>1, Zenon
  <2>5. Bits(f[pOld], a) = IF a[2] THEN Minterms \ f[pOld] ELSE f[pOld]
    BY DEF Bits
  <2> QED
    BY <1>9, <2>2, <2>4, <2>5
<1> QED
  BY <1>1, <1>2, <1>3, <1>5, <1>8, <1>9

LEMMA LevelOverIn ==
  ASSUME Level \in [Objects -> Nat], NEW p0 \in Lits(vFanins), NEW p1 \in Lits(vFanins)
  PROVE  LevelOver(p0, p1) \in Nat
<1>1. Level[p0[1]] \in Nat /\ Level[p1[1]] \in Nat
  BY DEF Lits, Objects
<1> DEFINE a == Level[p0[1]]
           b == Level[p1[1]]
<1>2. LevelOver(p0, p1) = 1 + Max({a, b}) /\ a \in Int /\ b \in Int
  BY <1>1 DEF LevelOver
<1>3. a \in Nat /\ b \in Nat
  BY <1>1
<1> HIDE DEF a, b
<1>4. Max({a, b}) \in {a, b}
  BY <1>2, MaxIs
<1> QED
  BY <1>2, <1>3, <1>4

-----------------------------------------------------------------------------
(* The heap: the steps that leave the network alone. *)

LEMMA NetSame ==
  ASSUME HeapInv, UNCHANGED <<vFanins, table>>, TypeInv', PairInv', WalkInv' PROVE HeapInv'
<1>1. NetInv'
  BY DEF HeapInv, NetInv
<1> QED
  BY <1>1 DEF HeapInv

LEMMA HeapReplace == ASSUME HeapInv, Replace PROVE HeapInv'
<1>1. PICK old \in Nodes, new \in {n \in Objects : ~IsCo(n)} \X BOOLEAN :
        vStackReplace' = <<[old |-> old, new |-> new]>>
  BY DEF Replace
<1>2. vFanins' = vFanins /\ Level' = Level /\ table' = table /\ vNodes' = vNodes
      /\ pc = "idle" /\ pc' = "replace" /\ network' = network
      /\ fUpdateLevel' = fUpdateLevel /\ RetValue' = RetValue
  BY DEF Replace, heap, fixed
<1>3. [old |-> old, new |-> new] \in PairsOf(vFanins)
  <2>1. old \in Nat \ (0..nPis)
    BY NodesAre DEF HeapInv, NetInv, WellFormed, Objects
  <2>2. new \in Lits(vFanins)
    BY DEF Lits, Objects
  <2> QED
    BY <2>1, <2>2 DEF PairsOf
<1>4. PairInv'
  <2>1. <<[old |-> old, new |-> new]>> \in Seq(PairsOf(vFanins))
    BY <1>3
  <2> QED
    BY <1>1, <1>2, <2>1 DEF PairInv
<1>5. TypeInv' /\ WalkInv'
  BY <1>2 DEF HeapInv, TypeInv, WalkInv, Objects
<1> QED
  BY <1>2, <1>4, <1>5, NetSame

LEMMA HeapNextPair == ASSUME HeapInv, NextPair PROVE HeapInv'
<1> DEFINE pair == Last(vStackReplace)
<1>1. /\ pc = "replace" /\ vStackReplace # <<>>
      /\ pOld' = pair.old /\ pNew' = pair.new /\ vNodes' = Fanouts(pair.old)
      /\ \/ Fanouts(pair.old) = {} /\ pc' = "idle" /\ RetValue' = 0
         \/ Fanouts(pair.old) # {} /\ pc' = "fanouts" /\ RetValue' = RetValue
      /\ vStackReplace' = Front(vStackReplace)
      /\ vFanins' = vFanins /\ Level' = Level /\ table' = table /\ network' = network
      /\ fUpdateLevel' = fUpdateLevel
  BY DEF NextPair, heap, fixed
<1>2. vStackReplace \in Seq(PairsOf(vFanins))
  BY DEF HeapInv, PairInv
<1>3. pair \in PairsOf(vFanins) /\ Front(vStackReplace) \in Seq(PairsOf(vFanins))
  <2>1. pair \in ToSet(vStackReplace) /\ ToSet(vStackReplace) \subseteq PairsOf(vFanins)
        /\ Front(vStackReplace) \in Seq(PairsOf(vFanins))
    BY <1>1, <1>2, SetOf
  <2> QED
    BY <2>1
<1> HIDE DEF pair
<1>4. pair = [old |-> pair.old, new |-> pair.new]
  BY <1>3 DEF PairsOf
<1>5. ASSUME Fanouts(pair.old) # {} PROVE pair.old \in Objects
  BY <1>5, FanoutsAre DEF HeapInv
<1>6. PairInv'
  BY <1>1, <1>3, <1>4, <1>5 DEF PairInv, Objects
<1>7. TypeInv'
  BY <1>1 DEF HeapInv, TypeInv, Objects
<1>8. WalkInv'
  BY <1>1 DEF WalkInv, Fanouts, Objects
<1> QED
  BY <1>1, <1>6, <1>7, <1>8, NetSame

LEMMA HeapSchedule == ASSUME HeapInv, Schedule PROVE HeapInv'
<1>1. PICK n \in vNodes :
        /\ IsNode(n) /\ AndLookup(Fanin1(n), Fanin2(n)) # NULL
        /\ vStackReplace' = Append(vStackReplace,
             [old |-> n, new |-> AndLookup(Fanin1(n), Fanin2(n))])
        /\ vNodes' = vNodes \ {n}
  BY DEF Schedule
<1>2. /\ pc = "fanouts" /\ pc' = pc /\ pOld' = pOld /\ pNew' = pNew
      /\ vFanins' = vFanins /\ Level' = Level /\ table' = table /\ network' = network
      /\ fUpdateLevel' = fUpdateLevel /\ RetValue' = RetValue
  BY DEF Schedule, heap, fixed, current
<1> DEFINE r == AndLookup(Fanin1(n), Fanin2(n))
<1>3. n \in Nodes /\ n \in Objects /\ n \notin 0..nPis
      /\ Fanin1(n) \in Lits(vFanins) /\ Fanin2(n) \in Lits(vFanins)
  BY <1>1, <1>2, FanoutIs
<1>4. r \in Lits(vFanins)
  <2>1. NetInv /\ r # NULL
    BY <1>1 DEF HeapInv
  <2> HIDE DEF r
  <2>2. PICK q : q = r
    OBVIOUS
  <2>3. IsAnd(Fanin1(n), Fanin2(n), q)
    BY <1>3, <2>1, <2>2, LookupIs DEF r
  <2> QED
    BY <2>2, <2>3 DEF IsAnd
<1>5. [old |-> n, new |-> r] \in PairsOf(vFanins)
  <2>1. n \in Nat \ (0..nPis)
    BY <1>3 DEF HeapInv, NetInv, WellFormed, Objects
  <2> HIDE DEF r
  <2> QED
    BY <1>4, <2>1 DEF PairsOf
<1>6. PairInv'
  <2>1. vStackReplace' \in Seq(PairsOf(vFanins))
    <3>1. vStackReplace \in Seq(PairsOf(vFanins))
      BY DEF HeapInv, PairInv
    <3> DEFINE p == [old |-> n, new |-> r]
    <3>2. p \in PairsOf(vFanins) /\ vStackReplace' = Append(vStackReplace, p)
      BY <1>1, <1>5
    <3> HIDE DEF p
    <3> QED
      BY <3>1, <3>2, SetOf
  <2> QED
    BY <1>2, <2>1 DEF HeapInv, PairInv, Objects
<1>7. TypeInv'
  BY <1>2 DEF HeapInv, TypeInv, Objects
<1>8. WalkInv'
  BY <1>1, <1>2 DEF HeapInv, WalkInv, Fanouts, Objects
<1> QED
  BY <1>2, <1>6, <1>7, <1>8, NetSame

\* Those that leave the stack alone, too, or take nodes from it.
LEMMA HeapUnstacked ==
  ASSUME HeapInv, vFanins' = vFanins, table' = table, network' = network,
         fUpdateLevel' = fUpdateLevel, vStackReplace' \in Seq(ToSet(vStackReplace)),
         Level' \in [Objects -> Nat], RetValue' \in {0, 1}, pc' # "fanouts",
         pc' \in {"idle", "replace", "delete", "cleanup", "levels"},
         IF pc' = "levels" THEN vNodes' \subseteq Nodes ELSE vNodes' = {}
  PROVE  HeapInv'
<1>1. TypeInv'
  BY DEF HeapInv, TypeInv, Objects
<1>2. PairInv'
  <2>1. ToSet(vStackReplace) \subseteq PairsOf(vFanins)
    BY SetOf DEF HeapInv, PairInv
  <2>2. vStackReplace' \in Seq(PairsOf(vFanins))
    BY <2>1, SeqMonotonic
  <2> QED
    BY <2>2 DEF PairInv
<1>3. WalkInv'
  BY DEF WalkInv, Nodes, IsNode, Objects
<1> QED
  BY <1>1, <1>2, <1>3, NetSame

LEMMA StackSame ==
  ASSUME HeapInv, vStackReplace' = vStackReplace PROVE vStackReplace' \in Seq(ToSet(vStackReplace))
<1>1. vStackReplace \in Seq(PairsOf(vFanins))
  BY DEF HeapInv, PairInv
<1>2. vStackReplace \in Seq(ToSet(vStackReplace))
  BY <1>1, SetOf
<1> QED
  BY <1>2

LEMMA HeapAllReplaced == ASSUME HeapInv, AllReplaced PROVE HeapInv'
<1>1. /\ pc = "replace" /\ RetValue' = 1 /\ pc' \in {"levels", "idle"}
      /\ vFanins' = vFanins /\ Level' = Level /\ table' = table /\ network' = network
      /\ fUpdateLevel' = fUpdateLevel /\ vStackReplace' = vStackReplace /\ vNodes' = vNodes
  BY DEF AllReplaced, heap, fixed, lists
<1>2. vNodes = {} /\ Level \in [Objects -> Nat]
  BY <1>1 DEF HeapInv, WalkInv, TypeInv
<1> QED
  BY <1>1, <1>2, StackSame, HeapUnstacked

LEMMA HeapFanoutsDone == ASSUME HeapInv, FanoutsDone PROVE HeapInv'
<1>1. /\ pc = "fanouts" /\ vNodes = {} /\ pc' \in {"delete", "replace"} /\ RetValue' = RetValue
      /\ vFanins' = vFanins /\ Level' = Level /\ table' = table /\ network' = network
      /\ fUpdateLevel' = fUpdateLevel /\ vStackReplace' = vStackReplace /\ vNodes' = vNodes
  BY DEF FanoutsDone, heap, fixed, lists
<1>2. Level \in [Objects -> Nat] /\ RetValue \in {0, 1}
  BY DEF HeapInv, TypeInv
<1> QED
  BY <1>1, <1>2, StackSame, HeapUnstacked

LEMMA HeapSkipCall == ASSUME HeapInv, SkipCall PROVE HeapInv'
<1>1. /\ pc \in {"delete", "cleanup"} /\ pc' = pc /\ RetValue' = RetValue
      /\ vFanins' = vFanins /\ Level' = Level /\ table' = table /\ network' = network
      /\ fUpdateLevel' = fUpdateLevel /\ vStackReplace' = vStackReplace /\ vNodes' = vNodes
  BY DEF SkipCall, heap, fixed, lists
<1>2. Level \in [Objects -> Nat] /\ RetValue \in {0, 1} /\ vNodes = {}
  BY <1>1 DEF HeapInv, TypeInv, WalkInv
<1> QED
  BY <1>1, <1>2, StackSame, HeapUnstacked

LEMMA HeapKeepNode == ASSUME HeapInv, KeepNode PROVE HeapInv'
<1>1. /\ pc \in {"delete", "cleanup"} /\ pc' = pc /\ RetValue' = RetValue
      /\ vFanins' = vFanins /\ Level' = Level /\ table' = table /\ network' = network
      /\ fUpdateLevel' = fUpdateLevel /\ vStackReplace' = Unscheduled(Head(doomed)) /\ vNodes' = vNodes
  BY DEF KeepNode, heap, fixed
<1>2. Level \in [Objects -> Nat] /\ RetValue \in {0, 1} /\ vNodes = {}
  BY <1>1 DEF HeapInv, TypeInv, WalkInv
<1>3. Unscheduled(Head(doomed)) \in Seq(ToSet(vStackReplace))
  BY UnscheduledIs DEF HeapInv, PairInv
<1> QED
  BY <1>1, <1>2, <1>3, HeapUnstacked

LEMMA HeapDeleted == ASSUME HeapInv, Deleted PROVE HeapInv'
<1>1. /\ pc \in {"delete", "cleanup"} /\ pc' \in {"replace", "idle"} /\ RetValue' = RetValue
      /\ vFanins' = vFanins /\ Level' = Level /\ table' = table /\ network' = network
      /\ fUpdateLevel' = fUpdateLevel /\ vStackReplace' = vStackReplace /\ vNodes' = vNodes
  BY DEF Deleted, heap, fixed, lists
<1>2. Level \in [Objects -> Nat] /\ RetValue \in {0, 1} /\ vNodes = {}
  BY <1>1 DEF HeapInv, TypeInv, WalkInv
<1> QED
  BY <1>1, <1>2, StackSame, HeapUnstacked

LEMMA HeapCleanup == ASSUME HeapInv, Cleanup PROVE HeapInv'
<1>1. /\ pc = "idle" /\ pc' = "cleanup" /\ RetValue' = RetValue
      /\ vFanins' = vFanins /\ Level' = Level /\ table' = table /\ network' = network
      /\ fUpdateLevel' = fUpdateLevel /\ vStackReplace' = vStackReplace /\ vNodes' = vNodes
  BY DEF Cleanup, heap, fixed, lists
<1>2. Level \in [Objects -> Nat] /\ RetValue \in {0, 1} /\ vNodes = {}
  BY <1>1 DEF HeapInv, TypeInv, WalkInv
<1> QED
  BY <1>1, <1>2, StackSame, HeapUnstacked

LEMMA HeapNextOfLevel == ASSUME HeapInv, NextOfLevel PROVE HeapInv'
<1>1. PICK x \in vLevels : vNodes' = {n \in Fanouts(x[2]) : IsNode(n)}
  BY DEF NextOfLevel
<1>2. /\ pc = "levels" /\ pc' = pc /\ RetValue' = RetValue
      /\ vFanins' = vFanins /\ Level' = Level /\ table' = table /\ network' = network
      /\ fUpdateLevel' = fUpdateLevel /\ vStackReplace' = vStackReplace
  BY DEF NextOfLevel, heap, fixed
<1>3. vNodes' \subseteq Nodes
  BY <1>1 DEF Fanouts, Nodes
<1>4. Level \in [Objects -> Nat] /\ RetValue \in {0, 1}
  BY DEF HeapInv, TypeInv
<1> QED
  BY <1>2, <1>3, <1>4, StackSame, HeapUnstacked

LEMMA HeapUpdateFanout == ASSUME HeapInv, UpdateFanout PROVE HeapInv'
<1>1. PICK n \in vNodes :
        /\ vNodes' = vNodes \ {n}
        /\ \/ Level' = Level
           \/ Level' = [Level EXCEPT ![n] = LevelOver(vFanins[n][1], vFanins[n][2])]
  BY DEF UpdateFanout
<1>2. /\ pc = "levels" /\ pc' = pc /\ RetValue' = RetValue
      /\ vFanins' = vFanins /\ table' = table /\ network' = network
      /\ fUpdateLevel' = fUpdateLevel /\ vStackReplace' = vStackReplace
  BY DEF UpdateFanout, fixed
<1>3. n \in Nodes /\ vNodes' \subseteq Nodes
  BY <1>1, <1>2 DEF HeapInv, WalkInv
<1>4. vFanins[n][1] \in Lits(vFanins) /\ vFanins[n][2] \in Lits(vFanins)
  BY <1>3, NodesAre DEF HeapInv
<1>5. Level \in [Objects -> Nat] /\ RetValue \in {0, 1}
  BY DEF HeapInv, TypeInv
<1>6. LevelOver(vFanins[n][1], vFanins[n][2]) \in Nat
  BY <1>4, <1>5, LevelOverIn
<1>7. Level' \in [Objects -> Nat]
  BY <1>1, <1>5, <1>6
<1> QED
  BY <1>2, <1>3, <1>5, <1>7, StackSame, HeapUnstacked

LEMMA HeapLevelsDone == ASSUME HeapInv, LevelsDone PROVE HeapInv'
<1>1. /\ pc = "levels" /\ vNodes = {} /\ pc' = "idle" /\ RetValue' = RetValue
      /\ vFanins' = vFanins /\ Level' = Level /\ table' = table /\ network' = network
      /\ fUpdateLevel' = fUpdateLevel /\ vStackReplace' = vStackReplace /\ vNodes' = vNodes
  BY DEF LevelsDone, heap, fixed, lists
<1>2. Level \in [Objects -> Nat] /\ RetValue \in {0, 1}
  BY DEF HeapInv, TypeInv
<1> QED
  BY <1>1, <1>2, StackSame, HeapUnstacked

-----------------------------------------------------------------------------
(* The heap: the steps that change the network. *)

\* A fanout is given other fanins: what is derived from the network changes with it.
LEMMA HeapPatched ==
  ASSUME HeapInv, pc = "fanouts", NEW n \in vNodes,
         NEW s \in [1..1 -> Lits(vFanins)] \union [1..2 -> Lits(vFanins)],
         vFanins' = Patched(vFanins, n, s), Strashed(vFanins'), table' = TableOf(vFanins'),
         Level' \in [Objects -> Nat], vNodes' = vNodes \ {n}, pc' = pc,
         UNCHANGED <<vStackReplace, pOld, pNew, network, fUpdateLevel, RetValue>>
  PROVE  HeapInv'
<1>1. n \in Objects /\ n \notin 0..nPis /\ WellFormed(vFanins) /\ pOld \in Objects
  <2>1. n \in Fanouts(pOld) /\ WellFormed(vFanins)
    BY DEF HeapInv, WalkInv, NetInv
  <2>2. n \in DOMAIN vFanins /\ pOld \in FaninIds(vFanins, n) /\ pOld \in Objects
    BY <2>1 DEF Fanouts, Objects, HeapInv, PairInv
  <2> QED
    BY <2>1, <2>2, FaninsAre DEF Objects
<1> DEFINE net == vFanins'
<1>2. /\ DOMAIN net = DOMAIN vFanins /\ Lits(net) = Lits(vFanins)
      /\ \A x \in DOMAIN vFanins : x # n => FaninIds(net, x) = FaninIds(vFanins, x)
  <2> HIDE DEF net
  <2>1. n \in DOMAIN vFanins /\ net = Patched(vFanins, n, s)
    BY <1>1 DEF Objects, net
  <2> QED
    BY <2>1, PatchedIs
<1>3. WellFormed(net)
  <2> HIDE DEF net
  <2>1. n \in DOMAIN vFanins \ (0..nPis) /\ net = Patched(vFanins, n, s)
    BY <1>1 DEF Objects, net
  <2> QED
    BY <1>1, <2>1, PatchedWell
<1>4. NetInv'
  BY <1>3 DEF NetInv
<1>5. TypeInv'
  BY <1>2 DEF HeapInv, TypeInv, Objects
<1>6. PairInv'
  <2>1. PairsOf(net) = PairsOf(vFanins)
    BY <1>2 DEF PairsOf
  <2> HIDE DEF net
  <2>2. vStackReplace' \in Seq(PairsOf(net)) /\ [old |-> pOld', new |-> pNew'] \in PairsOf(net)
        /\ pOld' \in DOMAIN net
    BY <1>1, <1>2, <2>1 DEF HeapInv, PairInv, Objects
  <2> QED
    BY <2>2 DEF PairInv, Objects, net
<1>7. WalkInv'
  <2>1. ASSUME NEW x \in vNodes, x # n PROVE x \in DOMAIN net /\ pOld \in FaninIds(net, x)
    <3>1. x \in DOMAIN vFanins /\ pOld \in FaninIds(vFanins, x)
      BY DEF HeapInv, WalkInv, Fanouts, Objects
    <3> QED
      BY <1>2, <2>1, <3>1
  <2> QED
    BY <2>1 DEF WalkInv, Fanouts, Objects
<1> QED
  BY <1>4, <1>5, <1>6, <1>7 DEF HeapInv

\* An output's new fanin
LEMMA CoFaninIs ==
  ASSUME HeapInv, pc = "fanouts", NEW n \in vNodes, IsCo(n)
  PROVE  /\ n \in Objects /\ n \notin 0..nPis /\ Len(vFanins[n]) = 1 /\ pOld \in Objects
         /\ vFanins[n][1] \in Lits(vFanins) /\ vFanins[n][1][1] = pOld
         /\ FaninIds(vFanins, n) = {pOld} /\ pNew \in Lits(vFanins)
         /\ NotCond(pNew, vFanins[n][1][2]) \in Lits(vFanins)
         /\ NotCond(pNew, vFanins[n][1][2])[1] = pNew[1]
         /\ vFanins[n][1][2] \in BOOLEAN
<1>1. n \in DOMAIN vFanins /\ Len(vFanins[n]) = 1 /\ pOld \in FaninIds(vFanins, n) /\ WellFormed(vFanins)
  BY DEF HeapInv, WalkInv, Fanouts, Objects, NetInv, IsCo
<1>2. n \notin 0..nPis /\ vFanins[n][1] \in Lits(vFanins) /\ FaninIds(vFanins, n) = {vFanins[n][1][1]}
  BY <1>1, FaninsAre
<1>3. pOld \in Objects /\ pNew \in Lits(vFanins)
  BY DEF HeapInv, PairInv, PairsOf
<1> DEFINE c == vFanins[n][1][2]
<1>4. c \in BOOLEAN /\ pNew[1] \in DOMAIN vFanins /\ pNew[2] \in BOOLEAN
  <2>1. \A p \in Lits(vFanins) : p[1] \in DOMAIN vFanins /\ p[2] \in BOOLEAN
    BY DEF Lits
  <2> QED
    BY <1>2, <1>3, <2>1
<1> HIDE DEF c
<1>5. NotCond(pNew, c) \in Lits(vFanins) /\ NotCond(pNew, c)[1] = pNew[1]
  <2>1. (pNew[2] # c) \in BOOLEAN
    BY <1>4
  <2>2. <<pNew[1], pNew[2] # c>> \in Lits(vFanins)
    BY <1>4, <2>1 DEF Lits
  <2> QED
    BY <2>2 DEF NotCond
<1> QED
  BY <1>1, <1>2, <1>3, <1>4, <1>5 DEF Objects, c

\* The changes PatchFanin makes
PatchedFanin(n) == Patched(vFanins, n, <<NotCond(pNew, vFanins[n][1][2])>>)

LEMMA HeapPatchFanin == ASSUME HeapInv, PatchFanin PROVE HeapInv'
<1>1. PICK n \in vNodes : IsCo(n) /\ vNodes' = vNodes \ {n} /\ vFanins' = PatchedFanin(n)
  <2>1. PICK n \in vNodes :
          /\ IsCo(n) /\ vNodes' = vNodes \ {n}
          /\ vFanins' = [vFanins EXCEPT ![n] = <<NotCond(pNew, vFanins[n][1][2])>>]
    BY DEF PatchFanin
  <2> QED
    BY <2>1 DEF PatchedFanin, Patched
<1>2. /\ pc = "fanouts" /\ pc' = pc /\ table' = table /\ Level' = Level
      /\ UNCHANGED <<vStackReplace, pOld, pNew, network, fUpdateLevel, RetValue>>
  BY DEF PatchFanin, lists, current, fixed
<1>3. /\ n \in Objects /\ Len(vFanins[n]) = 1
      /\ NotCond(pNew, vFanins[n][1][2]) \in Lits(vFanins)
  BY <1>1, <1>2, CoFaninIs
<1> DEFINE s == <<NotCond(pNew, vFanins[n][1][2])>>
           net == vFanins'
<1>4. s \in [1..1 -> Lits(vFanins)] /\ Len(s) = 1 /\ net = Patched(vFanins, n, s)
  BY <1>1, <1>3 DEF PatchedFanin
<1> HIDE DEF s, net
<1>5. n \in DOMAIN vFanins /\ NetInv /\ Level \in [Objects -> Nat]
  BY <1>3 DEF Objects, HeapInv, TypeInv
<1>6. Strashed(net)
  BY <1>4, <1>5, PatchedStrashed DEF NetInv
<1>7. table = TableOf(net)
  <2>1. TableOf(net) = TableOf(vFanins)
    BY <1>3, <1>4, <1>5, PatchedTable
  <2> QED
    BY <1>5, <2>1 DEF NetInv
<1> QED
  BY <1>1, <1>2, <1>4, <1>5, <1>6, <1>7, HeapPatched DEF net

\* What Rehash puts in
LEMMA RehashIs ==
  ASSUME HeapInv, pc = "fanouts", NEW n \in vNodes, IsNode(n),
         AndLookup(Fanin1(n), Fanin2(n)) = NULL,
         NEW s, s = Ordered(Fanin1(n), Fanin2(n)), NEW net, net = Patched(vFanins, n, s)
  PROVE  /\ s \in [1..2 -> Lits(vFanins)] /\ Len(s) = 2 /\ s[1] \in Lits(vFanins) /\ s[2] \in Lits(vFanins)
         /\ s = <<Fanin1(n), Fanin2(n)>> \/ s = <<Fanin2(n), Fanin1(n)>>
         /\ Strashed(net)
         /\ TableOf(net) = (table \ {<<vFanins[n], n>>}) \union {<<s, n>>}
         /\ FaninIds(net, n) = {pNew[1], Fanin2(n)[1]}
<1>1. /\ n \in Nodes /\ n \in DOMAIN vFanins /\ Len(vFanins[n]) = 2
      /\ Fanin1(n) \in Lits(vFanins) /\ Fanin2(n) \in Lits(vFanins) /\ Fanin1(n)[1] = pNew[1]
  BY FanoutIs DEF Objects, Nodes, IsNode
<1>2. NetInv /\ WellFormed(vFanins)
  BY DEF HeapInv, NetInv
<1>3. /\ Fanin1(n)[1] # Fanin2(n)[1] /\ Fanin1(n)[1] # 0 /\ Fanin2(n)[1] # 0
      /\ \A x \in Nodes : vFanins[x] # Ordered(Fanin1(n), Fanin2(n))
  BY <1>1, <1>2, LookupNull
<1>4. /\ s \in [1..2 -> Lits(vFanins)] /\ s = <<s[1], s[2]>> /\ Len(s) = 2
      /\ s = <<Fanin1(n), Fanin2(n)>> \/ s = <<Fanin2(n), Fanin1(n)>>
      /\ s[1][1] < s[2][1]
  BY <1>1, <1>2, <1>3, OrderedIs
<1>5. 0 < s[1][1]
  <2>1. Fanin1(n)[1] \in Nat /\ Fanin2(n)[1] \in Nat
    BY <1>1, <1>2, LitsAre
  <2> QED
    BY <1>3, <1>4, <2>1
<1>6. \A x \in DOMAIN vFanins : Len(vFanins[x]) = 2 => vFanins[x] # s
  BY <1>3 DEF Nodes, IsNode, Objects
<1>7. Strashed(net)
  BY <1>1, <1>2, <1>4, <1>5, <1>6, PatchedStrashed DEF NetInv
<1>8. TableOf(net) = (TableOf(vFanins) \ {<<vFanins[n], n>>}) \union {<<s, n>>}
  BY <1>1, <1>4, PatchedTable
<1>9. FaninIds(net, n) = {s[1][1], s[2][1]}
  <2>1. net[n] = s
    BY <1>1, PatchedIs
  <2>2. DOMAIN s = {1, 2}
    BY <1>4
  <2> QED
    BY <2>1, <2>2 DEF FaninIds
<1> QED
  BY <1>1, <1>2, <1>4, <1>7, <1>8, <1>9 DEF NetInv

LEMMA HeapRehash == ASSUME HeapInv, Rehash PROVE HeapInv'
<1>1. PICK n \in vNodes :
        /\ IsNode(n) /\ AndLookup(Fanin1(n), Fanin2(n)) = NULL
        /\ vNodes' = vNodes \ {n}
        /\ vFanins' = [vFanins EXCEPT ![n] = Ordered(Fanin1(n), Fanin2(n))]
        /\ table' = (table \ {<<vFanins[n], n>>}) \union {<<Ordered(Fanin1(n), Fanin2(n)), n>>}
        /\ Level' = [Level EXCEPT ![n] = LevelOver(Ordered(Fanin1(n), Fanin2(n))[1],
                                                   Ordered(Fanin1(n), Fanin2(n))[2])]
  BY DEF Rehash
<1>2. /\ pc = "fanouts" /\ pc' = pc
      /\ UNCHANGED <<vStackReplace, pOld, pNew, network, fUpdateLevel, RetValue>>
  BY DEF Rehash, current, fixed
<1>3. PICK s : s = Ordered(Fanin1(n), Fanin2(n))
  OBVIOUS
<1> DEFINE net == vFanins'
<1>4. net = Patched(vFanins, n, s)
  BY <1>1, <1>3 DEF Patched
<1>5. /\ table' = (table \ {<<vFanins[n], n>>}) \union {<<s, n>>}
      /\ Level' = [Level EXCEPT ![n] = LevelOver(s[1], s[2])]
  BY <1>1, <1>3
<1> HIDE DEF net
<1>6. /\ s \in [1..2 -> Lits(vFanins)] /\ s[1] \in Lits(vFanins) /\ s[2] \in Lits(vFanins)
      /\ Strashed(net) /\ table' = TableOf(net)
  BY <1>1, <1>2, <1>3, <1>4, <1>5, RehashIs
<1>7. Level' \in [Objects -> Nat]
  <2>1. Level \in [Objects -> Nat]
    BY DEF HeapInv, TypeInv
  <2>2. LevelOver(s[1], s[2]) \in Nat
    BY <1>6, <2>1, LevelOverIn
  <2> QED
    BY <1>5, <2>1, <2>2
<1> QED
  BY <1>1, <1>2, <1>4, <1>6, <1>7, HeapPatched DEF net

\* What Abc_AigDeleteNode takes away
LEMMA DeletedIs ==
  ASSUME HeapInv, pc \in {"delete", "cleanup"}, NEW n, IsDoomed(n), NEW net, net = Without(vFanins, n)
  PROVE  /\ n \in Nodes /\ n \notin 0..nPis /\ vNodes = {}
         /\ \A x \in Objects : n \notin FaninIds(vFanins, x)
         /\ DOMAIN net = Objects \ {n} /\ WellFormed(net) /\ Strashed(net)
         /\ \A x \in DOMAIN net : net[x] = vFanins[x] /\ FaninIds(net, x) = FaninIds(vFanins, x)
         /\ TableOf(net) = table \ {<<vFanins[n], n>>}
<1>1. n \in Nodes /\ n \notin 0..nPis /\ Len(vFanins[n]) = 2 /\ n \in DOMAIN vFanins
  BY NodesAre DEF IsDoomed, IsNode, Nodes, HeapInv, Objects
<1>2. \A x \in Objects : n \notin FaninIds(vFanins, x)
  BY DEF IsDoomed, Fanouts
<1>3. vNodes = {} /\ NetInv
  BY DEF HeapInv, WalkInv
<1>4. /\ DOMAIN net = DOMAIN vFanins \ {n} /\ WellFormed(net)
      /\ \A x \in DOMAIN net : net[x] = vFanins[x] /\ FaninIds(net, x) = FaninIds(vFanins, x)
      /\ Strashed(vFanins) => Strashed(net)
      /\ Len(vFanins[n]) = 2 => TableOf(net) = TableOf(vFanins) \ {<<vFanins[n], n>>}
  BY <1>1, <1>2, <1>3, WithoutIs DEF NetInv, Objects
<1> QED
  BY <1>1, <1>2, <1>3, <1>4 DEF NetInv, Objects

\* The pairs that are left do not need the node.
LEMMA StackWithout ==
  ASSUME NEW n, NEW net, NEW new, NEW s \in Seq(PairsOf(net)),
         ~Awaited(n, s), DOMAIN new = DOMAIN net \ {n}
  PROVE  s \in Seq(PairsOf(new))
<1>1. DOMAIN s = 1..Len(s) /\ Len(s) \in Nat /\ \A i \in 1..Len(s) : s[i] \in PairsOf(net)
  BY LenProperties, ElementOfSeq
<1>2. \A i \in 1..Len(s) : s[i] \in PairsOf(new)
  <2> SUFFICES ASSUME NEW i \in 1..Len(s) PROVE s[i] \in PairsOf(new)
    OBVIOUS
  <2>1. s[i] \in PairsOf(net) /\ s[i].new[1] # n
    BY <1>1 DEF Awaited
  <2>2. s[i].new \in Lits(new)
    BY <2>1 DEF PairsOf, Lits
  <2> QED
    BY <2>1, <2>2 DEF PairsOf
<1>3. s \in [1..Len(s) -> PairsOf(new)]
  BY <1>1, <1>2, LenProperties
<1> QED
  BY <1>1, <1>3, TupleIs

\* What DeleteNode does, for the n it is called for
Deletes(n) ==
  /\ IsDoomed(n) /\ ~Awaited(n, Unscheduled(n))
  /\ vStackReplace' = Unscheduled(n)
  /\ vLevels' = {x \in vLevels : x[2] # n}
  /\ table' = table \ {<<vFanins[n], n>>}
  /\ vFanins' = Without(vFanins, n)
  /\ Level' = Without(Level, n)

LEMMA DeleteNodeIs ==
  ASSUME HeapInv, DeleteNode
  PROVE  /\ pc \in {"delete", "cleanup"} /\ UNCHANGED <<pc, pOld, pNew, network, fUpdateLevel, RetValue, vNodes>>
         /\ \E n : Deletes(n)
<1>1. /\ pc \in {"delete", "cleanup"}
      /\ UNCHANGED <<pc, pOld, pNew, network, fUpdateLevel, RetValue, vNodes>>
  BY DEF DeleteNode, current, fixed
<1>2. Without(Level, Head(doomed)) = [x \in Objects \ {Head(doomed)} |-> Level[x]]
  <2>1. DOMAIN Level = Objects
    BY DEF HeapInv, TypeInv
  <2> QED
    BY <2>1 DEF Without
<1>3. Without(vFanins, Head(doomed)) = [x \in Objects \ {Head(doomed)} |-> vFanins[x]]
  BY DEF Without, Objects
<1>4. Deletes(Head(doomed))
  BY <1>2, <1>3 DEF DeleteNode, Deletes
<1> QED
  BY <1>1, <1>4

LEMMA HeapDeleteNode == ASSUME HeapInv, DeleteNode PROVE HeapInv'
<1>1. /\ pc \in {"delete", "cleanup"}
      /\ UNCHANGED <<pc, pOld, pNew, network, fUpdateLevel, RetValue, vNodes>>
  BY DeleteNodeIs
<1>2. PICK n : Deletes(n)
  BY DeleteNodeIs
<1> DEFINE net == vFanins'
<1>3. net = Without(vFanins, n)
  BY <1>2 DEF Deletes
<1>4. /\ DOMAIN net = Objects \ {n} /\ WellFormed(net) /\ Strashed(net)
      /\ TableOf(net) = table \ {<<vFanins[n], n>>} /\ vNodes = {}
  <2> HIDE DEF net
  <2> QED
    BY <1>1, <1>2, <1>3, DeletedIs DEF Deletes
<1>5. NetInv'
  BY <1>2, <1>4 DEF NetInv, Deletes
<1>6. PairInv'
  <2>1. vStackReplace' \in Seq(PairsOf(vFanins))
    <3>1. vStackReplace \in Seq(PairsOf(vFanins))
      BY DEF HeapInv, PairInv
    <3>2. Unscheduled(n) \in Seq(ToSet(vStackReplace)) /\ ToSet(vStackReplace) \subseteq PairsOf(vFanins)
      BY <3>1, UnscheduledIs, SetOf
    <3>3. Unscheduled(n) \in Seq(PairsOf(vFanins))
      BY <3>2, SeqMonotonic
    <3> QED
      BY <1>2, <3>3 DEF Deletes
  <2>2. ~Awaited(n, vStackReplace')
    BY <1>2 DEF Deletes
  <2> HIDE DEF net
  <2>3. vStackReplace' \in Seq(PairsOf(net))
    BY <1>4, <2>1, <2>2, StackWithout DEF Objects
  <2> QED
    BY <1>1, <2>3 DEF PairInv, net
<1>7. TypeInv'
  <2>1. Level \in [Objects -> Nat]
    BY DEF HeapInv, TypeInv
  <2>2. Level' \in [Objects \ {n} -> Nat]
    BY <1>2, <2>1 DEF Without, Deletes
  <2> QED
    BY <1>1, <1>4, <2>2 DEF HeapInv, TypeInv, Objects
<1>8. WalkInv'
  BY <1>1, <1>4 DEF WalkInv
<1> QED
  BY <1>5, <1>6, <1>7, <1>8 DEF HeapInv

\* What AndCreate puts in
Creates(n, p0, p1) ==
  /\ p0 \in {x \in Objects : ~IsCo(x)} \X BOOLEAN /\ p1 \in {x \in Objects : ~IsCo(x)} \X BOOLEAN
  /\ n = Max(Objects) + 1
  /\ p0[1] < p1[1] /\ AndLookup(p0, p1) = NULL
  /\ vFanins' = With(vFanins, n, <<p0, p1>>)
  /\ Level' = With(Level, n, LevelOver(p0, p1))
  /\ table' = table \union {<< <<p0, p1>>, n >>}

LEMMA AndCreateIs ==
  ASSUME HeapInv, AndCreate
  PROVE  /\ pc = "idle" /\ UNCHANGED <<vStackReplace, vLevels, pc, pOld, pNew, network, fUpdateLevel, RetValue, vNodes>>
         /\ \E n, p0, p1 : Creates(n, p0, p1)
<1>1. /\ pc = "idle"
      /\ UNCHANGED <<vStackReplace, vLevels, pc, pOld, pNew, network, fUpdateLevel, RetValue, vNodes>>
  BY DEF AndCreate, lists, current, fixed
<1> DEFINE n == Max(Objects) + 1
<1>2. PICK p0 \in {x \in Objects : ~IsCo(x)} \X BOOLEAN, p1 \in {x \in Objects : ~IsCo(x)} \X BOOLEAN :
        /\ p0[1] < p1[1] /\ AndLookup(p0, p1) = NULL
        /\ vFanins' = [x \in Objects \union {n} |-> IF x = n THEN <<p0, p1>> ELSE vFanins[x]]
        /\ Level' = [x \in Objects \union {n} |-> IF x = n THEN LevelOver(p0, p1) ELSE Level[x]]
        /\ table' = table \union {<< <<p0, p1>>, n >>}
  BY DEF AndCreate
<1>3. DOMAIN Level = Objects
  BY DEF HeapInv, TypeInv
<1>4. PICK m : m = n
  OBVIOUS
<1> HIDE DEF n
<1>5. With(Level, m, LevelOver(p0, p1)) = [x \in Objects \union {m} |-> IF x = m THEN LevelOver(p0, p1) ELSE Level[x]]
  BY <1>3 DEF With
<1>6. With(vFanins, m, <<p0, p1>>) = [x \in Objects \union {m} |-> IF x = m THEN <<p0, p1>> ELSE vFanins[x]]
  BY DEF With, Objects
<1>7. Creates(m, p0, p1)
  BY <1>2, <1>4, <1>5, <1>6 DEF Creates, n
<1> QED
  BY <1>1, <1>7

\* and what the network is with it
Created(n, p0, p1, net) ==
  /\ n \in Nat \ Objects /\ p0 \in Lits(vFanins) /\ p1 \in Lits(vFanins)
  /\ DOMAIN net = Objects \union {n} /\ net[n] = <<p0, p1>> /\ WellFormed(net) /\ Strashed(net)
  /\ \A x \in Objects : net[x] = vFanins[x] /\ FaninIds(net, x) = FaninIds(vFanins, x)
  /\ Lits(vFanins) \subseteq Lits(net)
  /\ TableOf(net) = table \union {<< <<p0, p1>>, n >>}

LEMMA CreatedIs ==
  ASSUME HeapInv, NEW n, NEW p0, NEW p1, Creates(n, p0, p1), NEW net, net = With(vFanins, n, <<p0, p1>>)
  PROVE  Created(n, p0, p1, net)
<1>1. NetInv /\ WellFormed(vFanins) /\ Strashed(vFanins)
  BY DEF HeapInv, NetInv
<1>2. p0 \in Lits(vFanins) /\ p1 \in Lits(vFanins)
  BY DEF Creates, Lits, Objects
<1>3. n \in Nat \ DOMAIN vFanins
  <2>1. DOMAIN vFanins \in SUBSET Nat /\ IsFiniteSet(DOMAIN vFanins) /\ DOMAIN vFanins # {}
    BY <1>1, AigConstants DEF WellFormed
  <2>2. Max(DOMAIN vFanins) \in Nat /\ \A y \in DOMAIN vFanins : Max(DOMAIN vFanins) >= y
    BY <2>1, MaxOf
  <2>3. n = Max(DOMAIN vFanins) + 1
    BY DEF Creates, Objects
  <2> QED
    BY <2>1, <2>2, <2>3
<1>4. PICK s : s = <<p0, p1>>
  OBVIOUS
<1>5. /\ s \in [1..2 -> Lits(vFanins)] /\ Len(s) = 2 /\ s[1] = p0 /\ s[2] = p1
  BY <1>2, <1>4
<1>6. /\ p0[1] # p1[1] /\ p0[1] # 0 /\ p1[1] # 0
      /\ \A x \in Nodes : vFanins[x] # Ordered(p0, p1)
  BY <1>1, <1>2, LookupNull DEF Creates
<1>7. p0[1] \in Nat /\ p1[1] \in Nat /\ p0[1] < p1[1]
  BY <1>1, <1>2, LitsAre DEF Creates
<1>8. /\ 0 < s[1][1] /\ s[1][1] < s[2][1]
      /\ \A x \in DOMAIN vFanins : Len(vFanins[x]) = 2 => vFanins[x] # s
  <2>1. Ordered(p0, p1) = s
    BY <1>4, <1>7 DEF Ordered
  <2> QED
    BY <1>5, <1>6, <1>7, <2>1 DEF Nodes, IsNode, Objects
<1>9. net = With(vFanins, n, s)
  BY <1>4
<1>10. /\ DOMAIN net = (DOMAIN vFanins) \union {n} /\ net[n] = s /\ WellFormed(net) /\ Strashed(net)
       /\ \A x \in DOMAIN vFanins : net[x] = vFanins[x] /\ FaninIds(net, x) = FaninIds(vFanins, x)
       /\ Lits(vFanins) \subseteq Lits(net)
       /\ TableOf(net) = TableOf(vFanins) \union {<<s, n>>}
  <2>1. WellFormed(vFanins) /\ n \in Nat \ DOMAIN vFanins
        /\ s \in [1..2 -> Lits(vFanins)] /\ Len(s) = 2 /\ net = With(vFanins, n, s)
    BY <1>1, <1>3, <1>5, <1>9
  <2>2. /\ Strashed(vFanins) /\ 0 < s[1][1] /\ s[1][1] < s[2][1]
        /\ \A x \in DOMAIN vFanins : Len(vFanins[x]) = 2 => vFanins[x] # s
    BY <1>1, <1>8
  <2>3. PICK base : base = vFanins
    OBVIOUS
  <2>4. WellFormed(base) /\ n \in Nat \ DOMAIN base /\ s \in [1..2 -> Lits(base)]
        /\ net = With(base, n, s)
    BY <2>1, <2>3
  <2>5. Grown(net, base, n, s)
    BY <2>1, <2>4, WithIs
  <2> QED
    BY <2>2, <2>3, <2>5 DEF Grown
<1>11. table = TableOf(vFanins)
  BY <1>1 DEF NetInv
<1> QED
  BY <1>2, <1>3, <1>4, <1>10, <1>11 DEF Objects, Created

LEMMA HeapAndCreate == ASSUME HeapInv, AndCreate PROVE HeapInv'
<1>1. pc = "idle" /\ UNCHANGED <<vStackReplace, vLevels, pc, pOld, pNew, network, fUpdateLevel, RetValue, vNodes>>
  BY AndCreateIs
<1>2. PICK n, p0, p1 : Creates(n, p0, p1)
  BY AndCreateIs
<1> DEFINE net == vFanins'
<1>3. net = With(vFanins, n, <<p0, p1>>) /\ table' = table \union {<< <<p0, p1>>, n >>}
      /\ Level' = With(Level, n, LevelOver(p0, p1))
  BY <1>2 DEF Creates
<1>4. /\ n \in Nat \ Objects /\ p0 \in Lits(vFanins) /\ p1 \in Lits(vFanins)
      /\ DOMAIN net = Objects \union {n} /\ WellFormed(net) /\ Strashed(net)
      /\ Lits(vFanins) \subseteq Lits(net)
      /\ TableOf(net) = table \union {<< <<p0, p1>>, n >>}
  <2> HIDE DEF net
  <2>1. Created(n, p0, p1, net)
    BY <1>2, <1>3, CreatedIs
  <2> QED
    BY <2>1 DEF Created
<1>5. NetInv'
  BY <1>3, <1>4 DEF NetInv
<1>6. PairInv'
  <2> HIDE DEF net
  <2>1. PairsOf(vFanins) \subseteq PairsOf(net) /\ vStackReplace \in Seq(PairsOf(vFanins))
    BY <1>4 DEF PairsOf, HeapInv, PairInv
  <2>2. vStackReplace \in Seq(PairsOf(net))
    BY <2>1, SeqMonotonic
  <2> QED
    BY <1>1, <2>2 DEF PairInv, net
<1>7. TypeInv'
  <2>1. Level \in [Objects -> Nat]
    BY DEF HeapInv, TypeInv
  <2>2. LevelOver(p0, p1) \in Nat
    BY <1>4, <2>1, LevelOverIn
  <2>3. Level' \in [Objects \union {n} -> Nat]
    BY <1>3, <2>1, <2>2 DEF With
  <2> QED
    BY <1>1, <1>4, <2>3 DEF HeapInv, TypeInv, Objects
<1>8. WalkInv'
  BY <1>1 DEF HeapInv, WalkInv
<1> QED
  BY <1>5, <1>6, <1>7, <1>8 DEF HeapInv

LEMMA HeapInit == ASSUME Init PROVE HeapInv
<1>1. /\ network \in Networks /\ fUpdateLevel \in BOOLEAN /\ vFanins = network
      /\ Level = LevelsOf(network) /\ table = {<<vFanins[n], n>> : n \in Nodes}
      /\ vStackReplace = <<>> /\ pc = "idle" /\ vNodes = {} /\ RetValue = 1
  BY AigConstants DEF Init
<1>2. WellFormed(vFanins) /\ Strashed(vFanins) /\ Acyclic(vFanins)
  BY <1>1, AigConstants
<1>3. Level \in [Objects -> Nat]
  BY <1>1, <1>2, LevelsAre DEF Objects
<1>4. NetInv
  BY <1>1, <1>2 DEF NetInv, TableOf, Nodes, IsNode, Objects
<1>5. PairInv
  BY <1>1, EmptySeq DEF PairInv
<1> QED
  BY <1>1, <1>3, <1>4, <1>5 DEF HeapInv, TypeInv, WalkInv

LEMMA HeapSteps == ASSUME HeapInv, [Next]_vars PROVE HeapInv'
<1>1. CASE Call
  BY <1>1, HeapAndCreate, HeapReplace, HeapCleanup DEF Call
<1>2. CASE Step
  BY <1>2, HeapNextPair, HeapAllReplaced, HeapPatchFanin, HeapSchedule, HeapRehash, HeapFanoutsDone,
     HeapSkipCall, HeapKeepNode, HeapDeleteNode, HeapDeleted, HeapNextOfLevel, HeapUpdateFanout,
     HeapLevelsDone DEF Step
<1>3. CASE UNCHANGED vars
  BY <1>3 DEF vars, heap, lists, current, fixed, HeapInv, TypeInv, NetInv, PairInv, WalkInv,
              Objects, Nodes, IsNode, Fanouts
<1> QED
  BY <1>1, <1>2, <1>3 DEF Next

\* Whatever calls come in whatever order, the network is a network at every step, its
\* table holds its nodes and no others, and what waits are literals of it.
THEOREM HeapInvariant == Spec => []HeapInv
<1>1. Init => HeapInv
  BY HeapInit
<1>2. HeapInv /\ [Next]_vars => HeapInv'
  BY HeapSteps
<1> QED
  BY <1>1, <1>2, PTL DEF Spec

-----------------------------------------------------------------------------
(* The levels. *)

LEMMA LevelSame ==
  ASSUME LevelInv, UNCHANGED <<vFanins, Level, vLevels, fUpdateLevel>>, pc = "levels" => vNodes = {},
         fUpdateLevel /\ RetValue' = 1 /\ pc' \in {"idle", "cleanup"} => vLevels = {}
  PROVE  LevelInv'
<1>1. Looked = {}
  BY DEF Looked
<1>2. fUpdateLevel => Levelled(vFanins, Level, vLevels, Looked')
  BY <1>1 DEF LevelInv, Levelled
<1> QED
  BY <1>2 DEF LevelInv

\* A node is given other fanins and the level that goes with them, and is marked.
Relevelled(old, net, n, l, k, marks, added) ==
  LET v == Rise(net, l, n)
  IN  /\ WellFormed(net) /\ n \in DOMAIN net /\ DOMAIN old = DOMAIN net
      /\ Len(old[n]) = 2 /\ Len(net[n]) = 2 /\ \A x \in DOMAIN net : x # n => net[x] = old[x]
      /\ l \in [DOMAIN net -> Nat] /\ k = [l EXCEPT ![n] = v]
      /\ \/ added = {x \in marks : x[2] # n}
         \/ added = {x \in marks : x[2] # n} \union {<<v, n>>}

LEMMA LevelledAt ==
  ASSUME NEW old, NEW net, NEW n, NEW l, NEW k, NEW marks, NEW added,
         Relevelled(old, net, n, l, k, marks, added), NEW looked, NEW v, v = Rise(net, l, n)
  PROVE  /\ MarksRight(old, l, marks) => MarksRight(net, k, added)
         /\ <<v, n>> \in added /\ Levelled(old, l, marks, looked) => Levelled(net, k, added, looked \ {n})
<1> USE DEF Relevelled
<1>1. k[n] = v /\ \A x \in DOMAIN net : x # n => k[x] = l[x]
  OBVIOUS
<1>2. MarksRight(old, l, marks) => MarksRight(net, k, added)
  <2> SUFFICES ASSUME MarksRight(old, l, marks), NEW x \in added
               PROVE  x[2] \in DOMAIN net /\ Len(net[x[2]]) = 2 /\ x = <<k[x[2]], x[2]>>
    BY DEF MarksRight
  <2>1. CASE x = <<v, n>>
    BY <1>1, <2>1
  <2>2. CASE x # <<v, n>>
    BY <1>1, <2>2 DEF MarksRight
  <2> QED
    BY <2>1, <2>2
<1>3. ASSUME <<v, n>> \in added, Levelled(old, l, marks, looked),
             NEW m \in DOMAIN net, Len(net[m]) = 2
      PROVE  \/ k[m] = Rise(net, k, m)
             \/ \E x \in added : x[2] \in FaninIds(net, m)
             \/ m \in looked \ {n}
  <2>1. CASE n \in FaninIds(net, m)
    <3>1. <<v, n>>[2] = n
      OBVIOUS
    <3> QED
      BY <1>3, <2>1, <3>1
  <2>2. CASE n \notin FaninIds(net, m)
    <3>1. Rise(net, k, m) = Rise(net, l, m)
      <4>1. FaninIds(net, m) \subseteq DOMAIN net
        BY <1>3, NetDown DEF Down
      <4>2. \A x \in FaninIds(net, m) : k[x] = l[x]
        BY <1>1, <2>2, <4>1
      <4>3. WellFormed(net) /\ m \in DOMAIN net /\ Len(net[m]) = 2
        BY <1>3
      <4> HIDE DEF Relevelled
      <4>4. \A g, h : (\A x \in FaninIds(net, m) : g[x] = h[x]) => Rise(net, g, m) = Rise(net, h, m)
        BY <4>3, RiseLocal
      <4> QED
        BY <4>2, <4>4
    <3>2. CASE m = n
      BY <1>1, <3>1, <3>2
    <3>3. CASE m # n
      <4>1. net[m] = old[m] /\ FaninIds(net, m) = FaninIds(old, m) /\ Rise(net, l, m) = Rise(old, l, m)
        BY <1>3, <3>3 DEF FaninIds, Rise
      <4>2. \/ l[m] = Rise(old, l, m)
            \/ \E x \in marks : x[2] \in FaninIds(old, m)
            \/ m \in looked
        BY <1>3, <4>1 DEF Levelled
      <4>3. CASE l[m] = Rise(old, l, m)
        BY <1>1, <1>3, <3>1, <3>3, <4>1, <4>3
      <4>4. CASE \E x \in marks : x[2] \in FaninIds(old, m)
        <5>1. PICK x \in marks : x[2] \in FaninIds(old, m)
          BY <4>4
        <5>2. x \in added
          BY <2>2, <4>1, <5>1
        <5> QED
          BY <4>1, <5>1, <5>2
      <4>5. CASE m \in looked
        BY <3>3, <4>5
      <4> QED
        BY <4>2, <4>3, <4>4, <4>5
    <3> QED
      BY <3>2, <3>3
  <2> QED
    BY <2>1, <2>2
<1>4. ASSUME <<v, n>> \in added, Levelled(old, l, marks, looked)
      PROVE  Levelled(net, k, added, looked \ {n})
  <2>1. \A m \in {x \in DOMAIN net : Len(net[x]) = 2} :
          \/ k[m] = Rise(net, k, m)
          \/ \E x \in added : x[2] \in FaninIds(net, m)
          \/ m \in looked \ {n}
    BY <1>3, <1>4
  <2> QED
    BY <2>1 DEF Levelled
<1> QED
  BY <1>2, <1>4

LEMMA LevelReplace == ASSUME HeapInv, LevelInv, Replace PROVE LevelInv'
BY LevelSame DEF Replace, heap, fixed

LEMMA LevelNextPair == ASSUME HeapInv, LevelInv, NextPair PROVE LevelInv'
<1>1. /\ UNCHANGED <<vFanins, Level, vLevels, fUpdateLevel>> /\ pc = "replace"
      /\ (pc' = "idle" /\ RetValue' = 0) \/ pc' = "fanouts"
  BY DEF NextPair, heap, fixed
<1> QED
  BY <1>1, LevelSame

LEMMA LevelAllReplaced == ASSUME HeapInv, LevelInv, AllReplaced PROVE LevelInv'
<1>1. /\ UNCHANGED <<vFanins, Level, vLevels, fUpdateLevel>> /\ pc = "replace"
      /\ pc' = IF fUpdateLevel THEN "levels" ELSE "idle"
  BY DEF AllReplaced, heap, fixed, lists
<1> QED
  BY <1>1, LevelSame

LEMMA LevelSchedule == ASSUME HeapInv, LevelInv, Schedule PROVE LevelInv'
BY LevelSame DEF Schedule, heap, fixed

LEMMA LevelFanoutsDone == ASSUME HeapInv, LevelInv, FanoutsDone PROVE LevelInv'
<1>1. /\ UNCHANGED <<vFanins, Level, vLevels, fUpdateLevel>> /\ pc = "fanouts"
      /\ pc' \in {"delete", "replace"}
  BY DEF FanoutsDone, heap, fixed, lists
<1> QED
  BY <1>1, LevelSame

LEMMA LevelSkipCall == ASSUME HeapInv, LevelInv, SkipCall PROVE LevelInv'
<1>1. /\ UNCHANGED <<vFanins, Level, vLevels, fUpdateLevel>> /\ pc \in {"delete", "cleanup"}
      /\ pc' = pc /\ RetValue' = RetValue
  BY DEF SkipCall, heap, fixed, lists
<1> QED
  BY <1>1, LevelSame DEF LevelInv

LEMMA LevelKeepNode == ASSUME HeapInv, LevelInv, KeepNode PROVE LevelInv'
<1>1. /\ UNCHANGED <<vFanins, Level, vLevels, fUpdateLevel>> /\ pc \in {"delete", "cleanup"}
      /\ pc' = pc /\ RetValue' = RetValue
  BY DEF KeepNode, heap, fixed
<1> QED
  BY <1>1, LevelSame DEF LevelInv

LEMMA LevelDeleted == ASSUME HeapInv, LevelInv, Deleted PROVE LevelInv'
<1>1. /\ UNCHANGED <<vFanins, Level, vLevels, fUpdateLevel>> /\ pc \in {"delete", "cleanup"}
      /\ pc' = (IF pc = "delete" THEN "replace" ELSE "idle") /\ RetValue' = RetValue
  BY DEF Deleted, heap, fixed, lists
<1> QED
  BY <1>1, LevelSame DEF LevelInv

LEMMA LevelCleanup == ASSUME HeapInv, LevelInv, Cleanup PROVE LevelInv'
<1>1. /\ UNCHANGED <<vFanins, Level, vLevels, fUpdateLevel>> /\ pc = "idle" /\ RetValue' = RetValue
  BY DEF Cleanup, heap, fixed, lists
<1> QED
  BY <1>1, LevelSame DEF LevelInv

LEMMA LevelLevelsDone == ASSUME HeapInv, LevelInv, LevelsDone PROVE LevelInv'
<1>1. /\ UNCHANGED <<vFanins, Level, vLevels, fUpdateLevel>> /\ vNodes = {} /\ vLevels = {}
  BY DEF LevelsDone, heap, fixed, lists
<1> QED
  BY <1>1, LevelSame

LEMMA LevelNextOfLevel == ASSUME HeapInv, LevelInv, NextOfLevel PROVE LevelInv'
<1>1. PICK x \in vLevels : vLevels' = vLevels \ {x} /\ vNodes' = {n \in Fanouts(x[2]) : IsNode(n)}
  BY DEF NextOfLevel
<1>2. /\ UNCHANGED <<vFanins, Level, fUpdateLevel>> /\ pc = "levels" /\ pc' = pc /\ vNodes = {}
  BY DEF NextOfLevel, heap, fixed
<1>3. MarksRight(vFanins, Level, vLevels')
  BY <1>1 DEF LevelInv, MarksRight
<1>4. ASSUME fUpdateLevel PROVE Levelled(vFanins, Level, vLevels', vNodes')
  <2> SUFFICES ASSUME NEW n \in DOMAIN vFanins, Len(vFanins[n]) = 2
               PROVE  \/ Level[n] = Rise(vFanins, Level, n)
                      \/ \E y \in vLevels' : y[2] \in FaninIds(vFanins, n)
                      \/ n \in vNodes'
    BY DEF Levelled
  <2>1. \/ Level[n] = Rise(vFanins, Level, n)
        \/ \E y \in vLevels : y[2] \in FaninIds(vFanins, n)
    BY <1>2, <1>4 DEF LevelInv, Levelled, Looked
  <2>2. x[2] \in FaninIds(vFanins, n) => n \in vNodes'
    BY <1>1 DEF Fanouts, IsNode, Objects
  <2> QED
    BY <1>1, <2>1, <2>2
<1> QED
  BY <1>2, <1>3, <1>4 DEF LevelInv, Looked

LEMMA LevelUpdateFanout == ASSUME HeapInv, LevelInv, UpdateFanout PROVE LevelInv'
<1>1. PICK n \in vNodes :
        LET v == LevelOver(vFanins[n][1], vFanins[n][2])
        IN  /\ vNodes' = vNodes \ {n}
            /\ \/ Level[n] = v /\ UNCHANGED <<Level, vLevels>>
               \/ /\ Level' = [Level EXCEPT ![n] = v]
                  /\ vLevels' = {x \in vLevels : x[2] # n} \union {<<v, n>>}
  BY DEF UpdateFanout
<1>2. /\ UNCHANGED <<vFanins, fUpdateLevel>> /\ pc = "levels" /\ pc' = pc
  BY DEF UpdateFanout, fixed
<1>3. n \in DOMAIN vFanins /\ Len(vFanins[n]) = 2 /\ WellFormed(vFanins) /\ Level \in [DOMAIN vFanins -> Nat]
  BY <1>2 DEF HeapInv, WalkInv, Nodes, IsNode, Objects, NetInv, TypeInv
<1> DEFINE v == LevelOver(vFanins[n][1], vFanins[n][2])
<1>4. v = Rise(vFanins, Level, n)
  BY <1>3 DEF LevelOver, Rise
<1>5. /\ MarksRight(vFanins, Level, vLevels)
      /\ fUpdateLevel => Levelled(vFanins, Level, vLevels, vNodes)
  BY <1>2 DEF LevelInv, Looked
<1>6. CASE Level[n] = v /\ UNCHANGED <<Level, vLevels>>
  <2>1. fUpdateLevel => Levelled(vFanins, Level, vLevels, vNodes \ {n})
    BY <1>4, <1>5, <1>6 DEF Levelled
  <2> QED
    BY <1>1, <1>2, <1>5, <1>6, <2>1 DEF LevelInv, Looked
<1>7. CASE /\ Level' = [Level EXCEPT ![n] = v]
           /\ vLevels' = {x \in vLevels : x[2] # n} \union {<<v, n>>}
  <2> HIDE DEF v
  <2>1. /\ MarksRight(vFanins, Level', vLevels')
        /\ fUpdateLevel => Levelled(vFanins, Level', vLevels', vNodes \ {n})
    <3>1. PICK k, added : k = Level' /\ added = vLevels'
      OBVIOUS
    <3>2. k = [Level EXCEPT ![n] = v] /\ added = {x \in vLevels : x[2] # n} \union {<<v, n>>}
      BY <1>7, <3>1
    <3>3. /\ MarksRight(vFanins, k, added)
          /\ <<v, n>> \in added /\ Levelled(vFanins, Level, vLevels, vNodes)
             => Levelled(vFanins, k, added, vNodes \ {n})
      <4>1. Relevelled(vFanins, vFanins, n, Level, k, vLevels, added)
        BY <1>3, <1>4, <3>2 DEF Relevelled
      <4> QED
        BY <1>4, <1>5, <4>1, LevelledAt
    <3> QED
      BY <1>5, <3>1, <3>2, <3>3
  <2> QED
    BY <1>1, <1>2, <2>1 DEF LevelInv, Looked
<1> QED
  BY <1>1, <1>6, <1>7

LEMMA LevelRehash == ASSUME HeapInv, LevelInv, Rehash PROVE LevelInv'
<1>1. PICK n \in vNodes :
        LET s == Ordered(Fanin1(n), Fanin2(n))
            others == {x \in vLevels : x[2] # n}
        IN  /\ IsNode(n) /\ AndLookup(Fanin1(n), Fanin2(n)) = NULL
            /\ vFanins' = [vFanins EXCEPT ![n] = s]
            /\ Level' = [Level EXCEPT ![n] = LevelOver(s[1], s[2])]
            /\ vLevels' = IF fUpdateLevel THEN others \union {<<LevelOver(s[1], s[2]), n>>} ELSE others
  BY DEF Rehash
<1>2. pc = "fanouts" /\ pc' = pc /\ fUpdateLevel' = fUpdateLevel
  BY DEF Rehash, fixed
<1>3. PICK s, net, k, added, v :
        /\ s = Ordered(Fanin1(n), Fanin2(n)) /\ net = vFanins' /\ k = Level' /\ added = vLevels'
        /\ v = LevelOver(s[1], s[2])
  OBVIOUS
<1>4. net = Patched(vFanins, n, s)
  BY <1>1, <1>3 DEF Patched
<1>5. /\ k = [Level EXCEPT ![n] = v]
      /\ added = IF fUpdateLevel THEN {x \in vLevels : x[2] # n} \union {<<v, n>>}
                                 ELSE {x \in vLevels : x[2] # n}
  BY <1>1, <1>3
<1>6. /\ s \in [1..2 -> Lits(vFanins)] /\ Len(s) = 2
  BY <1>1, <1>2, <1>3, <1>4, RehashIs
<1>7. /\ n \in DOMAIN vFanins /\ Len(vFanins[n]) = 2 /\ WellFormed(vFanins) /\ n \notin 0..nPis
      /\ Level \in [DOMAIN vFanins -> Nat]
  BY <1>1, <1>2, FanoutIs DEF IsNode, Objects, HeapInv, NetInv, TypeInv
<1>8. /\ DOMAIN net = DOMAIN vFanins /\ net[n] = s /\ WellFormed(net)
      /\ \A x \in DOMAIN net : x # n => net[x] = vFanins[x]
  BY <1>4, <1>6, <1>7, PatchedIs, PatchedWell
<1>9. v = Rise(net, Level, n)
  BY <1>3, <1>6, <1>8 DEF LevelOver, Rise
<1>10. /\ MarksRight(vFanins, Level, vLevels)
       /\ fUpdateLevel => Levelled(vFanins, Level, vLevels, {})
  BY <1>2 DEF LevelInv, Looked
<1>11. /\ MarksRight(net, k, added)
       /\ <<v, n>> \in added /\ Levelled(vFanins, Level, vLevels, {}) => Levelled(net, k, added, {} \ {n})
  <2> DEFINE others == {x \in vLevels : x[2] # n}
  <2>1. added = others \/ added = others \union {<<v, n>>}
    BY <1>5
  <2>2. Relevelled(vFanins, net, n, Level, k, vLevels, added)
    <3>1. /\ WellFormed(net) /\ n \in DOMAIN net /\ DOMAIN vFanins = DOMAIN net
          /\ Len(vFanins[n]) = 2 /\ Len(net[n]) = 2
          /\ \A x \in DOMAIN net : x # n => net[x] = vFanins[x]
      BY <1>6, <1>7, <1>8
    <3>2. Level \in [DOMAIN net -> Nat] /\ k = [Level EXCEPT ![n] = Rise(net, Level, n)]
      BY <1>5, <1>7, <1>8, <1>9
    <3>3. \/ added = {x \in vLevels : x[2] # n}
          \/ added = {x \in vLevels : x[2] # n} \union {<<Rise(net, Level, n), n>>}
      BY <1>9, <2>1
    <3> QED
      BY <3>1, <3>2, <3>3 DEF Relevelled
  <2>3. PICK base, l : base = vFanins /\ l = Level
    OBVIOUS
  <2>4. Relevelled(base, net, n, l, k, vLevels, added) /\ v = Rise(net, l, n)
    BY <1>9, <2>2, <2>3
  <2>5. \A looked : /\ MarksRight(base, l, vLevels) => MarksRight(net, k, added)
                    /\ <<v, n>> \in added /\ Levelled(base, l, vLevels, looked)
                         => Levelled(net, k, added, looked \ {n})
    BY <2>4, LevelledAt
  <2> QED
    BY <1>10, <2>3, <2>5
<1>12. fUpdateLevel => Levelled(net, k, added, {})
  <2>1. fUpdateLevel => <<v, n>> \in added
    BY <1>5
  <2>2. {} \ {n} = {}
    OBVIOUS
  <2> QED
    BY <1>10, <1>11, <2>1, <2>2
<1> QED
  BY <1>2, <1>3, <1>11, <1>12 DEF LevelInv, Looked

\* An object that both networks have, with the same fanins and levels of them
LEMMA RiseSame ==
  ASSUME NEW net, WellFormed(net), NEW m \in DOMAIN net, NEW old, old[m] = net[m], NEW l, NEW k,
         \A x \in FaninIds(net, m) : k[x] = l[x]
  PROVE  Rise(net, k, m) = Rise(old, l, m)
<1>1. Rise(net, k, m) = Rise(net, l, m)
  BY RiseLocal
<1> QED
  BY <1>1 DEF Rise

LEMMA LevelDeleteNode == ASSUME HeapInv, LevelInv, DeleteNode PROVE LevelInv'
<1>1. /\ pc \in {"delete", "cleanup"} /\ pc' = pc /\ fUpdateLevel' = fUpdateLevel /\ RetValue' = RetValue
  BY DeleteNodeIs
<1>2. PICK n : Deletes(n)
  BY DeleteNodeIs
<1>3. PICK net, k, marks : net = vFanins' /\ k = Level' /\ marks = vLevels'
  OBVIOUS
<1>4. net = Without(vFanins, n) /\ k = Without(Level, n) /\ marks = {x \in vLevels : x[2] # n} /\ IsDoomed(n)
  BY <1>2, <1>3 DEF Deletes
<1>5. /\ DOMAIN net = Objects \ {n} /\ WellFormed(net)
      /\ \A x \in DOMAIN net : net[x] = vFanins[x] /\ FaninIds(net, x) = FaninIds(vFanins, x)
      /\ \A x \in Objects : n \notin FaninIds(vFanins, x)
  BY <1>1, <1>4, DeletedIs
<1>6. \A x \in DOMAIN net : k[x] = Level[x]
  <2>1. DOMAIN Level = Objects
    BY DEF HeapInv, TypeInv
  <2> QED
    BY <1>4, <1>5, <2>1 DEF Without
<1>7. MarksRight(net, k, marks)
  <2> SUFFICES ASSUME NEW x \in marks
               PROVE  x[2] \in DOMAIN net /\ Len(net[x[2]]) = 2 /\ x = <<k[x[2]], x[2]>>
    BY DEF MarksRight
  <2>1. x \in vLevels /\ x[2] # n
    BY <1>4
  <2>2. x[2] \in Objects /\ Len(vFanins[x[2]]) = 2 /\ x = <<Level[x[2]], x[2]>>
    BY <2>1 DEF LevelInv, MarksRight, Objects
  <2>3. x[2] \in DOMAIN net
    BY <1>5, <2>1, <2>2
  <2> QED
    BY <1>5, <1>6, <2>2, <2>3
<1>8. ASSUME fUpdateLevel PROVE Levelled(net, k, marks, {})
  <2> SUFFICES ASSUME NEW m \in DOMAIN net, Len(net[m]) = 2
               PROVE  \/ k[m] = Rise(net, k, m)
                      \/ \E x \in marks : x[2] \in FaninIds(net, m)
    BY DEF Levelled
  <2>1. m \in DOMAIN vFanins /\ Len(vFanins[m]) = 2 /\ vFanins[m] = net[m]
        /\ FaninIds(net, m) = FaninIds(vFanins, m) /\ n \notin FaninIds(net, m)
    BY <1>5 DEF Objects
  <2>2. \/ Level[m] = Rise(vFanins, Level, m)
        \/ \E x \in vLevels : x[2] \in FaninIds(vFanins, m)
    BY <1>1, <1>8, <2>1 DEF LevelInv, Levelled, Looked
  <2>3. Rise(net, k, m) = Rise(vFanins, Level, m)
    <3>1. FaninIds(net, m) \subseteq DOMAIN net
      BY <1>5, NetDown DEF Down
    <3>2. \A x \in FaninIds(net, m) : k[x] = Level[x]
      BY <1>6, <3>1
    <3> QED
      BY <1>5, <2>1, <3>2, RiseSame
  <2>4. ASSUME NEW x \in vLevels, x[2] \in FaninIds(vFanins, m)
        PROVE  x \in marks /\ x[2] \in FaninIds(net, m)
    BY <1>4, <2>1, <2>4
  <2> QED
    BY <1>6, <2>2, <2>3, <2>4
<1>9. vLevels = {} => marks = {}
  BY <1>4
<1> QED
  BY <1>1, <1>3, <1>7, <1>8, <1>9 DEF LevelInv, Looked

LEMMA LevelAndCreate == ASSUME HeapInv, LevelInv, AndCreate PROVE LevelInv'
<1>1. /\ pc = "idle" /\ UNCHANGED <<vLevels, pc, fUpdateLevel, RetValue>>
  BY AndCreateIs
<1>2. PICK n, p0, p1 : Creates(n, p0, p1)
  BY AndCreateIs
<1>3. PICK net, k : net = vFanins' /\ k = Level'
  OBVIOUS
<1>4. net = With(vFanins, n, <<p0, p1>>) /\ k = With(Level, n, LevelOver(p0, p1))
  BY <1>2, <1>3 DEF Creates
<1>5. Created(n, p0, p1, net)
  BY <1>2, <1>4, CreatedIs
<1>6. /\ n \notin Objects /\ p0[1] \in Objects /\ p1[1] \in Objects
      /\ DOMAIN net = Objects \union {n} /\ net[n] = <<p0, p1>> /\ WellFormed(net)
      /\ \A x \in Objects : net[x] = vFanins[x] /\ FaninIds(net, x) = FaninIds(vFanins, x)
  BY <1>5 DEF Created, Lits, Objects
<1>7. k[n] = LevelOver(p0, p1) /\ \A x \in Objects : k[x] = Level[x]
  <2>1. DOMAIN Level = Objects
    BY DEF HeapInv, TypeInv
  <2> QED
    BY <1>4, <1>6, <2>1 DEF With
<1>8. MarksRight(net, k, vLevels)
  <2> SUFFICES ASSUME NEW x \in vLevels
               PROVE  x[2] \in DOMAIN net /\ Len(net[x[2]]) = 2 /\ x = <<k[x[2]], x[2]>>
    BY DEF MarksRight
  <2>1. x[2] \in Objects /\ Len(vFanins[x[2]]) = 2 /\ x = <<Level[x[2]], x[2]>>
    BY DEF LevelInv, MarksRight, Objects
  <2> QED
    BY <1>6, <1>7, <2>1
<1>9. ASSUME fUpdateLevel PROVE Levelled(net, k, vLevels, {})
  <2> SUFFICES ASSUME NEW m \in DOMAIN net, Len(net[m]) = 2
               PROVE  \/ k[m] = Rise(net, k, m)
                      \/ \E x \in vLevels : x[2] \in FaninIds(net, m)
    BY DEF Levelled
  <2>1. CASE m = n
    <3>1. k[p0[1]] = Level[p0[1]] /\ k[p1[1]] = Level[p1[1]] /\ net[n][1] = p0 /\ net[n][2] = p1
      BY <1>6, <1>7
    <3> QED
      BY <1>7, <2>1, <3>1 DEF LevelOver, Rise
  <2>2. CASE m # n
    <3>1. m \in DOMAIN vFanins /\ Len(vFanins[m]) = 2 /\ vFanins[m] = net[m]
          /\ FaninIds(net, m) = FaninIds(vFanins, m)
      BY <1>6, <2>2 DEF Objects
    <3>2. \/ Level[m] = Rise(vFanins, Level, m)
          \/ \E x \in vLevels : x[2] \in FaninIds(vFanins, m)
      BY <1>1, <1>9, <3>1 DEF LevelInv, Levelled, Looked
    <3>3. Rise(net, k, m) = Rise(vFanins, Level, m)
      <4>1. FaninIds(vFanins, m) \subseteq Objects
        BY <3>1, NetDown DEF Down, Objects, HeapInv, NetInv
      <4>2. \A x \in FaninIds(net, m) : k[x] = Level[x]
        BY <1>7, <3>1, <4>1
      <4> QED
        BY <1>6, <3>1, <4>2, RiseSame
    <3> QED
      BY <1>7, <3>1, <3>2, <3>3 DEF Objects
  <2> QED
    BY <2>1, <2>2
<1> QED
  BY <1>1, <1>3, <1>8, <1>9 DEF LevelInv, Looked

LEMMA LevelPatchFanin == ASSUME HeapInv, LevelInv, PatchFanin PROVE LevelInv'
<1>1. PICK n \in vNodes : IsCo(n) /\ vFanins' = PatchedFanin(n)
  <2>1. PICK n \in vNodes :
          /\ IsCo(n) /\ vFanins' = [vFanins EXCEPT ![n] = <<NotCond(pNew, vFanins[n][1][2])>>]
    BY DEF PatchFanin
  <2> QED
    BY <2>1 DEF PatchedFanin, Patched
<1>2. /\ pc = "fanouts" /\ pc' = pc /\ UNCHANGED <<Level, vLevels, fUpdateLevel>>
  BY DEF PatchFanin, lists, fixed
<1>3. PICK s, net : s = <<NotCond(pNew, vFanins[n][1][2])>> /\ net = vFanins'
  OBVIOUS
<1>4. Len(vFanins[n]) = 1 /\ Len(s) = 1 /\ n \in DOMAIN vFanins /\ net = Patched(vFanins, n, s)
  BY <1>1, <1>3 DEF IsCo, Objects, PatchedFanin
<1>5. /\ DOMAIN net = DOMAIN vFanins /\ net[n] = s
      /\ \A x \in DOMAIN vFanins : x # n => net[x] = vFanins[x] /\ FaninIds(net, x) = FaninIds(vFanins, x)
  BY <1>4, PatchedIs
<1>6. MarksRight(net, Level, vLevels)
  <2> SUFFICES ASSUME NEW x \in vLevels
               PROVE  x[2] \in DOMAIN net /\ Len(net[x[2]]) = 2 /\ x = <<Level[x[2]], x[2]>>
    BY DEF MarksRight
  <2>1. x[2] \in DOMAIN vFanins /\ Len(vFanins[x[2]]) = 2 /\ x = <<Level[x[2]], x[2]>>
    BY DEF LevelInv, MarksRight
  <2> QED
    BY <1>4, <1>5, <2>1
<1>7. ASSUME fUpdateLevel PROVE Levelled(net, Level, vLevels, {})
  <2> SUFFICES ASSUME NEW m \in DOMAIN net, Len(net[m]) = 2
               PROVE  \/ Level[m] = Rise(net, Level, m)
                      \/ \E x \in vLevels : x[2] \in FaninIds(net, m)
    BY DEF Levelled
  <2>1. m \in DOMAIN vFanins /\ m # n /\ net[m] = vFanins[m] /\ FaninIds(net, m) = FaninIds(vFanins, m)
    BY <1>4, <1>5
  <2>2. \/ Level[m] = Rise(vFanins, Level, m)
        \/ \E x \in vLevels : x[2] \in FaninIds(vFanins, m)
    BY <1>2, <1>7, <2>1 DEF LevelInv, Levelled, Looked
  <2>3. Rise(net, Level, m) = Rise(vFanins, Level, m)
    BY <2>1 DEF Rise
  <2> QED
    BY <2>1, <2>2, <2>3
<1> QED
  BY <1>2, <1>3, <1>6, <1>7 DEF LevelInv, Looked

LEMMA LevelInit == ASSUME Init PROVE LevelInv
<1>1. vFanins \in Networks /\ Level = LevelsOf(vFanins) /\ vLevels = {} /\ pc = "idle"
  BY DEF Init
<1>2. WellFormed(vFanins) /\ Acyclic(vFanins)
  BY <1>1, AigConstants
<1>3. \A n \in DOMAIN vFanins : Level[n] = Rise(vFanins, Level, n)
  BY <1>1, <1>2, LevelsAre
<1> QED
  BY <1>1, <1>3 DEF LevelInv, MarksRight, Levelled

LEMMA LevelSteps == ASSUME HeapInv, LevelInv, [Next]_vars PROVE LevelInv'
<1>1. CASE Call
  BY <1>1, LevelAndCreate, LevelReplace, LevelCleanup DEF Call
<1>2. CASE Step
  BY <1>2, LevelNextPair, LevelAllReplaced, LevelPatchFanin, LevelSchedule, LevelRehash, LevelFanoutsDone,
     LevelSkipCall, LevelKeepNode, LevelDeleteNode, LevelDeleted, LevelNextOfLevel, LevelUpdateFanout,
     LevelLevelsDone DEF Step
<1>3. CASE UNCHANGED vars
  BY <1>3 DEF vars, heap, lists, fixed, LevelInv, Looked
<1> QED
  BY <1>1, <1>2, <1>3 DEF Next

\* A level that is not right has a fanin that is marked or is about to be looked at.
THEOREM LevelInvariant == Spec => []LevelInv
<1>1. Init => LevelInv
  BY LevelInit
<1>2. HeapInv /\ LevelInv /\ [Next]_vars => LevelInv'
  BY LevelSteps
<1> QED
  BY <1>1, <1>2, HeapInvariant, PTL DEF Spec

\* What the pairs that wait and the one under way put in is still there, and what the
\* walks over fanouts and levels come to is a live object.
THEOREM TypesAreRight == Spec => []AigTypeOK
<1>1. HeapInv => AigTypeOK
  <2> SUFFICES ASSUME HeapInv PROVE AigTypeOK
    OBVIOUS
  <2>1. \A n \in Objects : vFanins[n] \in SeqOf(Objects \X BOOLEAN, 2)
    <3> SUFFICES ASSUME NEW n \in Objects PROVE vFanins[n] \in SeqOf(Objects \X BOOLEAN, 2)
      OBVIOUS
    <3>1. \/ vFanins[n] = <<>>
          \/ vFanins[n] \in [1..1 -> Objects \X BOOLEAN]
          \/ vFanins[n] \in [1..2 -> Objects \X BOOLEAN]
      BY DEF HeapInv, NetInv, WellFormed, Objects
    <3>2. <<>> \in [1..0 -> Objects \X BOOLEAN]
      OBVIOUS
    <3>3. 0 \in 0..2 /\ 1 \in 0..2 /\ 2 \in 0..2
      OBVIOUS
    <3> QED
      BY <3>1, <3>2, <3>3 DEF SeqOf
  <2>2. DOMAIN Level = Objects /\ \A n \in Objects : Level[n] \in Nat
    BY DEF HeapInv, TypeInv
  <2>3. \A x \in table : x[2] \in Nat
    BY DEF HeapInv, NetInv, TableOf, WellFormed
  <2>4. \A p \in ToSet(vStackReplace) : p.old \in Nat /\ p.new \in Objects \X BOOLEAN
    <3>1. ToSet(vStackReplace) \subseteq PairsOf(vFanins)
      BY SetOf DEF HeapInv, PairInv
    <3> QED
      BY <3>1 DEF PairsOf, Lits, Objects
  <2>5. pc = "fanouts" => pOld \in Objects /\ pNew \in Objects \X BOOLEAN
    BY DEF HeapInv, PairInv, PairsOf, Lits, Objects
  <2>6. vNodes \subseteq Objects
    BY DEF HeapInv, WalkInv, TypeInv, Fanouts, Nodes
  <2> QED
    BY <2>1, <2>2, <2>3, <2>4, <2>5, <2>6 DEF AigTypeOK, HeapInv, TypeInv
<1> QED
  BY <1>1, HeapInvariant, PTL

\* The hash table and the levels are right at every step of a replacement.
THEOREM TableAndLevels == Spec => []AigCheck
<1>1. HeapInv /\ LevelInv => AigCheck
  <2> SUFFICES ASSUME HeapInv, LevelInv PROVE AigCheck
    OBVIOUS
  <2>1. table = {<<vFanins[n], n>> : n \in Nodes}
    BY DEF HeapInv, NetInv, TableOf, Nodes, IsNode, Objects
  <2>2. \A n, m \in Nodes : vFanins[n] = vFanins[m] => n = m
    BY DEF HeapInv, NetInv, Strashed, Nodes, IsNode, Objects
  <2>3. \A n \in Nodes : 0 < vFanins[n][1][1] /\ vFanins[n][1][1] < vFanins[n][2][1]
    BY NodesAre DEF HeapInv
  <2>4. pc = "fanouts" => \A n \in vNodes : pOld \in FaninIds(vFanins, n)
    BY DEF HeapInv, WalkInv, Fanouts
  <2>5. \A x \in vLevels : IsNode(x[2]) /\ x[1] = Level[x[2]]
    <3> SUFFICES ASSUME NEW x \in vLevels PROVE IsNode(x[2]) /\ x[1] = Level[x[2]]
      OBVIOUS
    <3>1. x[2] \in DOMAIN vFanins /\ Len(vFanins[x[2]]) = 2 /\ x = <<Level[x[2]], x[2]>>
      BY DEF LevelInv, MarksRight
    <3> QED
      BY <3>1 DEF IsNode, Objects
  <2>6. ASSUME pc = "idle", fUpdateLevel, RetValue = 1, NEW n \in Nodes
        PROVE  Level[n] = LevelOver(vFanins[n][1], vFanins[n][2])
    <3>1. Level[n] = Rise(vFanins, Level, n) /\ Len(vFanins[n]) = 2
      BY <2>6 DEF LevelInv, Levelled, Looked, Nodes, IsNode, Objects
    <3> QED
      BY <3>1 DEF Rise, LevelOver
  <2> QED
    BY <2>1, <2>2, <2>3, <2>4, <2>5, <2>6 DEF AigCheck
<1> QED
  BY <1>1, HeapInvariant, LevelInvariant, PTL

-----------------------------------------------------------------------------
(* The functions of the outputs, as long as there are no cycles. *)

LEMMA NoCycleIs ==
  ASSUME HeapInv, NoCycle PROVE Acyclic(vFanins)
<1> SUFFICES ASSUME NEW S \in SUBSET DOMAIN vFanins, S # {},
                    \A n \in S : FaninIds(vFanins, n) \intersect S # {}
             PROVE  FALSE
  BY DEF Acyclic
<1> DEFINE D == DOMAIN vFanins
           C == {Cone(vFanins, n) : n \in S}
<1>1. IsFiniteSet(D) /\ Down(vFanins, D)
  BY NetDown DEF HeapInv, NetInv, WellFormed
<1>2. ASSUME NEW n \in D
      PROVE  /\ n \in Cone(vFanins, n) /\ Cone(vFanins, n) \in SUBSET D
             /\ Down(vFanins, Cone(vFanins, n))
             /\ \A R : n \in R /\ Down(vFanins, R) => Cone(vFanins, n) \subseteq R
  BY <1>1, ConeIs
<1>3. C \in SUBSET SUBSET D /\ C # {}
  BY <1>2
<1>4. PICK T \in C : \A V \in C : V \subseteq T => V = T
  <2> HIDE DEF C, D
  <2> QED
    BY <1>1, <1>3, LeastSubset
<1>5. PICK n \in S : T = Cone(vFanins, n)
  BY <1>4
<1>6. PICK k \in S : k \in FaninIds(vFanins, n)
  OBVIOUS
<1>7. Cone(vFanins, k) \subseteq Cone(vFanins, n)
  <2>1. k \in Cone(vFanins, n) /\ Down(vFanins, Cone(vFanins, n))
    BY <1>2, <1>6 DEF Down
  <2> QED
    BY <1>2, <2>1
<1>8. n \notin Cone(vFanins, k) /\ n \in Cone(vFanins, n)
  BY <1>2, <1>6 DEF NoCycle, Objects
<1>9. Cone(vFanins, k) \in C
  OBVIOUS
<1> QED
  BY <1>4, <1>5, <1>7, <1>8, <1>9

\* The functions that Function computes
Means(f, net) == Solves(f, net) /\ \A p : Function(net, p) = Bits(f[p[1]], p)

LEMMA MeansIs ==
  ASSUME NEW net, WellFormed(net), Acyclic(net) PROVE \E f : Means(f, net)
BY FunctionIs DEF Means

LEMMA Agree ==
  ASSUME NEW old, NEW new, WellFormed(new), Acyclic(new), NEW f, Means(f, old),
         NEW R \in SUBSET DOMAIN new, Down(new, R), \A n \in R : f[n] = Meaning(new, f, n)
  PROVE  \A p : p[1] \in R => Function(new, p) = Function(old, p)
<1>1. PICK g : Means(g, new)
  BY MeansIs
<1>2. \A n \in R : f[n] = g[n]
  <2>1. Solves(g, new)
    BY <1>1 DEF Means
  <2> QED
    BY <2>1, SameMeaning
<1> SUFFICES ASSUME NEW p, p[1] \in R PROVE Function(new, p) = Function(old, p)
  OBVIOUS
<1>3. Function(new, p) = Bits(g[p[1]], p) /\ Function(old, p) = Bits(f[p[1]], p)
  BY <1>1 DEF Means
<1> QED
  BY <1>2, <1>3

LEMMA PairsAre ==
  ASSUME HeapInv PROVE \A p \in Pairs : p.old \in Nat \ (0..nPis) /\ p.new \in Lits(vFanins)
<1>1. ToSet(vStackReplace) \subseteq PairsOf(vFanins)
  BY SetOf DEF HeapInv, PairInv
<1>2. pc = "fanouts" => [old |-> pOld, new |-> pNew] \in PairsOf(vFanins)
  BY DEF HeapInv, PairInv
<1> QED
  BY <1>1, <1>2 DEF Pairs, PairsOf

\* A step that keeps the functions and adds no pair
LEMMA MeaningSame ==
  ASSUME HeapInv, MeaningInv, network' = network, NEW net, net = vFanins',
         \A p : p[1] \in DOMAIN net /\ p[1] \in Objects => Function(net, p) = Function(vFanins, p),
         \A n \in DOMAIN net : Len(net[n]) = 1 => IsCo(n),
         pc' \in {"replace", "fanouts", "delete"} =>
           /\ InCall /\ DOMAIN net \subseteq Objects
           /\ \A p \in Pairs' : p \in Pairs /\ p.new[1] \in DOMAIN net
  PROVE  MeaningInv'
<1>1. FunctionsKept'
  <2> SUFFICES ASSUME NEW n \in DOMAIN net, Len(net[n]) = 1
               PROVE  Function(net, <<n, FALSE>>) = Function(network, <<n, FALSE>>)
    BY DEF FunctionsKept, IsCo, Objects
  <2>1. IsCo(n) /\ n \in Objects
    BY DEF IsCo
  <2>2. Function(vFanins, <<n, FALSE>>) = Function(network, <<n, FALSE>>)
    BY <2>1 DEF MeaningInv, FunctionsKept
  <2>3. <<n, FALSE>>[1] = n
    OBVIOUS
  <2> QED
    BY <2>1, <2>2, <2>3
<1>2. PairMeaning'
  <2> SUFFICES ASSUME pc' \in {"replace", "fanouts", "delete"}, NEW p \in Pairs', p.old \in DOMAIN net
               PROVE  Function(net, p.new) = Function(net, <<p.old, FALSE>>)
    BY DEF PairMeaning, InCall, Objects
  <2>1. p \in Pairs /\ p.new[1] \in DOMAIN net /\ p.old \in Objects
    OBVIOUS
  <2>2. Function(vFanins, p.new) = Function(vFanins, <<p.old, FALSE>>)
    BY <2>1 DEF MeaningInv, PairMeaning
  <2>3. p.new[1] \in Objects
    OBVIOUS
  <2>4. <<p.old, FALSE>>[1] = p.old
    OBVIOUS
  <2> QED
    BY <2>1, <2>2, <2>3, <2>4
<1> QED
  BY <1>1, <1>2 DEF MeaningInv

\* and one that leaves the network alone
LEMMA MeaningStill ==
  ASSUME HeapInv, MeaningInv, network' = network, vFanins' = vFanins,
         pc' \in {"replace", "fanouts", "delete"} => InCall /\ \A p \in Pairs' : p \in Pairs
  PROVE  MeaningInv'
<1>1. \A p \in Pairs : p.new[1] \in DOMAIN vFanins
  BY PairsAre DEF Lits
<1>2. \A n \in DOMAIN vFanins : Len(vFanins[n]) = 1 => IsCo(n)
  BY DEF IsCo, Objects
<1>3. PICK net : net = vFanins'
  OBVIOUS
<1>4. net = vFanins
  BY <1>3
<1> QED
  BY <1>1, <1>2, <1>3, <1>4, MeaningSame DEF Objects

LEMMA StackPairs ==
  ASSUME HeapInv, vStackReplace' \in Seq(ToSet(vStackReplace)), pc' # "fanouts"
  PROVE  \A p \in Pairs' : p \in Pairs
<1>1. ToSet(vStackReplace') \subseteq ToSet(vStackReplace)
  <2>1. PICK s : s = vStackReplace'
    OBVIOUS
  <2>2. ToSet(s) \subseteq ToSet(vStackReplace)
    BY <2>1, SetOf
  <2> QED
    BY <2>1, <2>2
<1> QED
  BY <1>1 DEF Pairs

LEMMA MeaningReplace == ASSUME HeapInv, MeaningInv, Replace PROVE MeaningInv'
<1>1. PICK old \in Nodes, new \in {n \in Objects : ~IsCo(n)} \X BOOLEAN :
        MayReplace(old, new) /\ vStackReplace' = <<[old |-> old, new |-> new]>>
  BY DEF Replace
<1>2. pc' = "replace" /\ vFanins' = vFanins /\ network' = network
  BY DEF Replace, heap, fixed
<1>3. FunctionsKept'
  BY <1>2 DEF MeaningInv, FunctionsKept, IsCo, Objects
<1>4. \A p \in Pairs' : p.old = old /\ p.new = new
  <2>1. ToSet(vStackReplace') = {[old |-> old, new |-> new]}
    BY <1>1 DEF ToSet
  <2> QED
    BY <1>2, <2>1 DEF Pairs
<1>5. Function(vFanins, new) = Function(vFanins, <<old, FALSE>>)
  BY <1>1 DEF MayReplace
<1>6. PairMeaning'
  <2> SUFFICES ASSUME NEW p \in Pairs' PROVE Function(vFanins', p.new) = Function(vFanins', <<p.old, FALSE>>)
    BY DEF PairMeaning
  <2>1. p.old = old /\ p.new = new
    BY <1>4
  <2> QED
    BY <1>2, <1>5, <2>1
<1> QED
  BY <1>3, <1>6 DEF MeaningInv

LEMMA MeaningNextPair == ASSUME HeapInv, MeaningInv, NextPair PROVE MeaningInv'
<1>1. /\ pc = "replace" /\ vStackReplace # <<>> /\ vFanins' = vFanins /\ network' = network
      /\ pOld' = Last(vStackReplace).old /\ pNew' = Last(vStackReplace).new
      /\ vStackReplace' = Front(vStackReplace)
  BY DEF NextPair, heap, fixed
<1>2. vStackReplace \in Seq(PairsOf(vFanins))
  BY DEF HeapInv, PairInv
<1>3. /\ Last(vStackReplace) \in ToSet(vStackReplace) /\ Last(vStackReplace) \in PairsOf(vFanins)
      /\ ToSet(Front(vStackReplace)) \subseteq ToSet(vStackReplace)
  BY <1>1, <1>2, SetOf
<1>4. [old |-> pOld', new |-> pNew'] = Last(vStackReplace)
  BY <1>1, <1>3 DEF PairsOf
<1>5. \A p \in Pairs' : p \in Pairs
  BY <1>1, <1>3, <1>4 DEF Pairs
<1> QED
  BY <1>1, <1>5, MeaningStill DEF InCall

LEMMA MeaningSchedule == ASSUME HeapInv, MeaningInv, Acyclic(vFanins), Schedule PROVE MeaningInv'
<1>1. PICK n \in vNodes :
        /\ IsNode(n) /\ AndLookup(Fanin1(n), Fanin2(n)) # NULL
        /\ vStackReplace' = Append(vStackReplace,
             [old |-> n, new |-> AndLookup(Fanin1(n), Fanin2(n))])
  BY DEF Schedule
<1>2. /\ pc = "fanouts" /\ pc' = pc /\ pOld' = pOld /\ pNew' = pNew
      /\ vFanins' = vFanins /\ network' = network
  BY DEF Schedule, heap, fixed, current
<1>3. PICK r : r = AndLookup(Fanin1(n), Fanin2(n))
  OBVIOUS
<1>4. PICK f : Means(f, vFanins)
  BY MeansIs DEF HeapInv, NetInv
<1>5. /\ n \in Objects /\ n \notin 0..nPis /\ Fanin1(n) \in Lits(vFanins) /\ Fanin2(n) \in Lits(vFanins)
      /\ Fanin1(n)[1] = pNew[1] /\ pOld \in Objects
      /\ f[pOld] = Bits(f[pNew[1]], pNew) =>
           f[n] = Bits(f[pNew[1]], Fanin1(n)) \intersect Bits(f[Fanin2(n)[1]], Fanin2(n))
  BY <1>1, <1>2, <1>4, FanoutIs DEF Means
<1>6. f[pOld] = Bits(f[pNew[1]], pNew)
  <2>1. [old |-> pOld, new |-> pNew] \in Pairs
    BY <1>2 DEF Pairs
  <2>2. Function(vFanins, pNew) = Function(vFanins, <<pOld, FALSE>>)
    BY <1>2, <1>5, <2>1 DEF MeaningInv, PairMeaning, InCall
  <2> QED
    BY <1>4, <2>2 DEF Means, Bits
<1>7. /\ r \in Lits(vFanins)
      /\ Bits(f[r[1]], r) = Bits(f[Fanin1(n)[1]], Fanin1(n)) \intersect Bits(f[Fanin2(n)[1]], Fanin2(n))
  <2>1. IsAnd(Fanin1(n), Fanin2(n), r)
    BY <1>1, <1>3, <1>5, LookupIs DEF HeapInv
  <2>2. Solves(f, vFanins)
    BY <1>4 DEF Means
  <2> QED
    BY <2>1, <2>2 DEF IsAnd
<1>8. Function(vFanins, r) = Function(vFanins, <<n, FALSE>>)
  <2>1. Function(vFanins, r) = Bits(f[r[1]], r)
        /\ Function(vFanins, <<n, FALSE>>) = Bits(f[n], <<n, FALSE>>)
    BY <1>4 DEF Means
  <2>2. Bits(f[n], <<n, FALSE>>) = f[n]
    BY DEF Bits
  <2>3. f[n] = Bits(f[pNew[1]], Fanin1(n)) \intersect Bits(f[Fanin2(n)[1]], Fanin2(n))
    BY <1>5, <1>6
  <2> QED
    BY <1>5, <1>7, <2>1, <2>2, <2>3
<1>9. \A p \in Pairs' : p \in Pairs \/ p = [old |-> n, new |-> r]
  <2>1. vStackReplace \in Seq(PairsOf(vFanins))
    BY DEF HeapInv, PairInv
  <2> DEFINE q == [old |-> n, new |-> r]
  <2>2. q \in PairsOf(vFanins)
    <3>1. n \in Nat \ (0..nPis)
      BY <1>5 DEF HeapInv, NetInv, WellFormed, Objects
    <3> QED
      BY <1>7, <3>1 DEF PairsOf
  <2>3. vStackReplace' = Append(vStackReplace, q)
    BY <1>1, <1>3
  <2> HIDE DEF q
  <2>4. ToSet(vStackReplace') = ToSet(vStackReplace) \union {q}
    BY <2>1, <2>2, <2>3, SetOf
  <2> QED
    BY <1>2, <2>4 DEF Pairs, q
<1>10. PairMeaning'
  <2> SUFFICES ASSUME NEW p \in Pairs', p.old \in Objects
               PROVE  Function(vFanins, p.new) = Function(vFanins, <<p.old, FALSE>>)
    BY <1>2 DEF PairMeaning, Objects
  <2>1. CASE p \in Pairs
    BY <1>2, <2>1 DEF MeaningInv, PairMeaning, InCall
  <2>2. CASE p = [old |-> n, new |-> r]
    BY <1>8, <2>2
  <2> QED
    BY <1>9, <2>1, <2>2
<1>11. FunctionsKept'
  BY <1>2 DEF MeaningInv, FunctionsKept, IsCo, Objects
<1> QED
  BY <1>10, <1>11 DEF MeaningInv

\* A fanout of pOld is given fanins that make it what it was.
LEMMA MeaningPatched ==
  ASSUME HeapInv, HeapInv', MeaningInv, Acyclic(vFanins'), pc = "fanouts", pc' = pc,
         UNCHANGED <<vStackReplace, pOld, pNew, network>>,
         NEW n \in Objects, NEW s, NEW net, net = vFanins', net = Patched(vFanins, n, s),
         Len(s) = Len(vFanins[n]), NEW f, Means(f, vFanins), f[n] = Meaning(net, f, n)
  PROVE  MeaningInv'
<1>1. /\ DOMAIN net = DOMAIN vFanins /\ net[n] = s
      /\ \A x \in DOMAIN vFanins : x # n => net[x] = vFanins[x]
  BY PatchedIs DEF Objects
<1>2. WellFormed(net) /\ Acyclic(net) /\ Down(net, DOMAIN net)
  BY NetDown DEF HeapInv, NetInv
<1>3. \A x \in DOMAIN net : f[x] = Meaning(net, f, x)
  <2> SUFFICES ASSUME NEW x \in DOMAIN net, x # n PROVE f[x] = Meaning(net, f, x)
    OBVIOUS
  <2>1. f[x] = Meaning(vFanins, f, x)
    BY <1>1 DEF Means, Solves
  <2> QED
    BY <1>1, <2>1 DEF Meaning
<1>4. \A p : p[1] \in DOMAIN net => Function(net, p) = Function(vFanins, p)
  BY <1>2, <1>3, Agree
<1>5. \A x \in DOMAIN net : Len(net[x]) = 1 => IsCo(x)
  BY <1>1 DEF IsCo, Objects
<1>6. Pairs' = Pairs /\ InCall
  BY DEF Pairs, InCall
<1>7. \A p \in Pairs : p.new[1] \in DOMAIN net
  BY <1>1, PairsAre DEF Lits
<1> QED
  BY <1>1, <1>4, <1>5, <1>6, <1>7, MeaningSame DEF Objects

\* What a pair under way says of the functions
LEMMA OldIsNew ==
  ASSUME HeapInv, MeaningInv, pc = "fanouts", NEW f, Means(f, vFanins)
  PROVE  f[pOld] = Bits(f[pNew[1]], pNew)
<1>1. [old |-> pOld, new |-> pNew] \in Pairs /\ pOld \in Objects
  BY DEF Pairs, HeapInv, PairInv
<1>2. Function(vFanins, pNew) = Function(vFanins, <<pOld, FALSE>>)
  BY <1>1 DEF MeaningInv, PairMeaning, InCall
<1> QED
  BY <1>2 DEF Means, Bits

LEMMA MeaningPatchFanin ==
  ASSUME HeapInv, HeapInv', MeaningInv, Acyclic(vFanins), Acyclic(vFanins'), PatchFanin
  PROVE  MeaningInv'
<1>1. PICK n \in vNodes : IsCo(n) /\ vFanins' = PatchedFanin(n)
  <2>1. PICK n \in vNodes :
          /\ IsCo(n) /\ vFanins' = [vFanins EXCEPT ![n] = <<NotCond(pNew, vFanins[n][1][2])>>]
    BY DEF PatchFanin
  <2> QED
    BY <2>1 DEF PatchedFanin, Patched
<1>2. pc = "fanouts" /\ pc' = pc /\ UNCHANGED <<vStackReplace, pOld, pNew, network>>
  BY DEF PatchFanin, lists, current, fixed
<1>3. PICK f : Means(f, vFanins)
  BY MeansIs DEF HeapInv, NetInv
<1>4. PICK c, s, net : c = vFanins[n][1][2] /\ s = <<NotCond(pNew, c)>> /\ net = vFanins'
  OBVIOUS
<1>5. net = Patched(vFanins, n, s)
  BY <1>1, <1>4 DEF PatchedFanin
<1>6. /\ n \in Objects /\ n \notin 0..nPis /\ Len(vFanins[n]) = 1 /\ pOld \in Objects
      /\ vFanins[n][1][1] = pOld /\ pNew \in Lits(vFanins) /\ c \in BOOLEAN
      /\ NotCond(pNew, c)[1] = pNew[1]
  BY <1>1, <1>2, <1>4, CoFaninIs
<1>7. f[pOld] = Bits(f[pNew[1]], pNew) /\ f[pNew[1]] \in SUBSET Minterms /\ pNew[2] \in BOOLEAN
  BY <1>2, <1>3, <1>6, OldIsNew DEF Means, Solves, Lits
<1>8. f[n] = IF c THEN Minterms \ f[pOld] ELSE f[pOld]
  <2>1. f[n] = Meaning(vFanins, f, n)
    BY <1>3, <1>6 DEF Means, Solves, Objects
  <2>2. n # 0 /\ n \notin 1..nPis
    BY <1>6, AigConstants
  <2> QED
    BY <1>4, <1>6, <2>1, <2>2 DEF Meaning, Bits
<1>9. Meaning(net, f, n) = Bits(f[pNew[1]], NotCond(pNew, c))
  <2>1. net[n] = s /\ s[1] = NotCond(pNew, c) /\ Len(s) = 1
    BY <1>4, <1>5, <1>6, PatchedIs DEF Objects
  <2>2. n # 0 /\ n \notin 1..nPis
    BY <1>6, AigConstants
  <2> QED
    BY <1>6, <2>1, <2>2 DEF Meaning
<1>10. Bits(f[pNew[1]], NotCond(pNew, c)) = IF c THEN Minterms \ Bits(f[pNew[1]], pNew) ELSE Bits(f[pNew[1]], pNew)
  <2>1. \A S \in SUBSET Minterms, b \in BOOLEAN :
          Bits(S, NotCond(pNew, b)) = IF b THEN Minterms \ Bits(S, pNew) ELSE Bits(S, pNew)
    BY <1>7, BitsTwice
  <2> QED
    BY <1>6, <1>7, <2>1, Zenon
<1>11. f[n] = Meaning(net, f, n) /\ Len(s) = Len(vFanins[n])
  BY <1>4, <1>6, <1>7, <1>8, <1>9, <1>10
<1> QED
  BY <1>2, <1>3, <1>4, <1>5, <1>6, <1>11, MeaningPatched

LEMMA MeaningRehash ==
  ASSUME HeapInv, HeapInv', MeaningInv, Acyclic(vFanins), Acyclic(vFanins'), Rehash
  PROVE  MeaningInv'
<1>1. PICK n \in vNodes :
        /\ IsNode(n) /\ AndLookup(Fanin1(n), Fanin2(n)) = NULL
        /\ vFanins' = [vFanins EXCEPT ![n] = Ordered(Fanin1(n), Fanin2(n))]
  BY DEF Rehash
<1>2. pc = "fanouts" /\ pc' = pc /\ UNCHANGED <<vStackReplace, pOld, pNew, network>>
  BY DEF Rehash, current, fixed
<1>3. PICK s, net : s = Ordered(Fanin1(n), Fanin2(n)) /\ net = vFanins'
  OBVIOUS
<1>4. net = Patched(vFanins, n, s)
  BY <1>1, <1>3 DEF Patched
<1>5. PICK f : Means(f, vFanins)
  BY MeansIs DEF HeapInv, NetInv
<1>6. Len(s) = 2 /\ (s = <<Fanin1(n), Fanin2(n)>> \/ s = <<Fanin2(n), Fanin1(n)>>)
  BY <1>1, <1>2, <1>3, <1>4, RehashIs
<1>7. /\ n \in Objects /\ n \notin 0..nPis /\ Len(vFanins[n]) = 2 /\ Fanin1(n)[1] = pNew[1]
      /\ f[n] = Bits(f[pNew[1]], Fanin1(n)) \intersect Bits(f[Fanin2(n)[1]], Fanin2(n))
  BY <1>1, <1>2, <1>5, FanoutIs, OldIsNew DEF Means, IsNode
<1>8. f[n] = Meaning(net, f, n)
  <2>1. net[n] = s
    BY <1>4, <1>7, PatchedIs DEF Objects
  <2>2. n # 0 /\ n \notin 1..nPis
    BY <1>7, AigConstants
  <2>3. Meaning(net, f, n) = Bits(f[s[1][1]], s[1]) \intersect Bits(f[s[2][1]], s[2])
    BY <1>6, <2>1, <2>2 DEF Meaning
  <2> QED
    BY <1>6, <1>7, <2>3
<1> QED
  BY <1>2, <1>3, <1>4, <1>5, <1>6, <1>7, <1>8, MeaningPatched

LEMMA MeaningDeleteNode ==
  ASSUME HeapInv, HeapInv', MeaningInv, Acyclic(vFanins), Acyclic(vFanins'), DeleteNode
  PROVE  MeaningInv'
<1>1. /\ pc \in {"delete", "cleanup"} /\ pc' = pc /\ network' = network
  BY DeleteNodeIs
<1>2. PICK n : Deletes(n)
  BY DeleteNodeIs
<1>3. PICK net : net = vFanins'
  OBVIOUS
<1>4. net = Without(vFanins, n) /\ IsDoomed(n) /\ vStackReplace' = Unscheduled(n)
  BY <1>2, <1>3 DEF Deletes
<1>5. /\ DOMAIN net = Objects \ {n} /\ WellFormed(net) /\ Acyclic(net)
      /\ \A x \in DOMAIN net : net[x] = vFanins[x]
  BY <1>1, <1>3, <1>4, DeletedIs
<1>6. PICK f : Means(f, vFanins)
  BY MeansIs DEF HeapInv, NetInv
<1>7. \A x \in DOMAIN net : f[x] = Meaning(net, f, x)
  <2> SUFFICES ASSUME NEW x \in DOMAIN net PROVE f[x] = Meaning(net, f, x)
    OBVIOUS
  <2>1. f[x] = Meaning(vFanins, f, x)
    BY <1>5, <1>6 DEF Means, Solves, Objects
  <2> QED
    BY <1>5, <2>1 DEF Meaning
<1>8. \A p : p[1] \in DOMAIN net => Function(net, p) = Function(vFanins, p)
  BY <1>5, <1>6, <1>7, Agree, NetDown
<1>9. \A x \in DOMAIN net : Len(net[x]) = 1 => IsCo(x)
  BY <1>5 DEF IsCo, Objects
<1>10. \A p \in Pairs' : p \in Pairs /\ p.new[1] \in DOMAIN net
  <2>1. \A p \in Pairs' : p \in Pairs
    BY <1>1, <1>4, UnscheduledIs, StackPairs DEF HeapInv, PairInv
  <2>2. ToSet(vStackReplace') \subseteq PairsOf(net)
    <3>1. PICK s : s = vStackReplace' /\ s \in Seq(PairsOf(net))
      BY <1>3 DEF HeapInv, PairInv
    <3> QED
      BY <3>1, SetOf
  <2>3. \A p \in Pairs' : p.new[1] \in DOMAIN net
    BY <1>1, <2>2 DEF Pairs, PairsOf, Lits
  <2> QED
    BY <2>1, <2>3
<1> QED
  BY <1>1, <1>3, <1>5, <1>8, <1>9, <1>10, MeaningSame DEF InCall

LEMMA MeaningAndCreate ==
  ASSUME HeapInv, HeapInv', MeaningInv, Acyclic(vFanins), Acyclic(vFanins'), AndCreate
  PROVE  MeaningInv'
<1>1. pc = "idle" /\ pc' = pc /\ network' = network
  BY AndCreateIs
<1>2. PICK n, p0, p1 : Creates(n, p0, p1)
  BY AndCreateIs
<1>3. PICK net : net = vFanins'
  OBVIOUS
<1>4. net = With(vFanins, n, <<p0, p1>>)
  BY <1>2, <1>3 DEF Creates
<1>5. Created(n, p0, p1, net)
  BY <1>2, <1>4, CreatedIs
<1>6. /\ DOMAIN net = Objects \union {n} /\ net[n] = <<p0, p1>> /\ WellFormed(net) /\ Acyclic(net)
      /\ \A x \in Objects : net[x] = vFanins[x] /\ FaninIds(net, x) = FaninIds(vFanins, x)
  BY <1>3, <1>5 DEF Created
<1>7. PICK f : Means(f, vFanins)
  BY MeansIs DEF HeapInv, NetInv
<1>8. \A x \in Objects : f[x] = Meaning(net, f, x)
  <2> SUFFICES ASSUME NEW x \in Objects PROVE f[x] = Meaning(net, f, x)
    OBVIOUS
  <2>1. f[x] = Meaning(vFanins, f, x)
    BY <1>7 DEF Means, Solves, Objects
  <2> QED
    BY <1>6, <2>1 DEF Meaning
<1>9. \A p : p[1] \in Objects => Function(net, p) = Function(vFanins, p)
  <2>1. Down(net, Objects)
    <3>1. Down(vFanins, Objects)
      BY NetDown DEF HeapInv, NetInv, Objects
    <3> QED
      BY <1>6, <3>1 DEF Down
  <2>2. Objects \in SUBSET DOMAIN net
    BY <1>6
  <2> QED
    BY <1>6, <1>7, <1>8, <2>1, <2>2, Agree
<1>10. \A x \in DOMAIN net : Len(net[x]) = 1 => IsCo(x)
  <2>1. Len(net[n]) = 2
    BY <1>6
  <2> QED
    BY <1>6, <2>1 DEF IsCo, Objects
<1> QED
  BY <1>1, <1>3, <1>9, <1>10, MeaningSame

LEMMA MeaningSteps ==
  ASSUME HeapInv, HeapInv', MeaningInv, Acyclic(vFanins), Acyclic(vFanins'), [Next]_vars
  PROVE  MeaningInv'
<1>1. CASE AllReplaced
  <2>1. vFanins' = vFanins /\ network' = network /\ pc' \in {"levels", "idle"}
    BY <1>1 DEF AllReplaced, heap, fixed
  <2> QED
    BY <2>1, MeaningStill
<1>2. CASE FanoutsDone
  <2>1. /\ vFanins' = vFanins /\ network' = network /\ vStackReplace' = vStackReplace
        /\ pc = "fanouts" /\ pc' \in {"delete", "replace"}
    BY <1>2 DEF FanoutsDone, heap, fixed, lists
  <2>2. \A p \in Pairs' : p \in Pairs
    BY <2>1, StackSame, StackPairs
  <2> QED
    BY <2>1, <2>2, MeaningStill DEF InCall
<1>3. CASE SkipCall
  <2>1. /\ vFanins' = vFanins /\ network' = network /\ vStackReplace' = vStackReplace
        /\ pc \in {"delete", "cleanup"} /\ pc' = pc
    BY <1>3 DEF SkipCall, heap, fixed, lists
  <2>2. \A p \in Pairs' : p \in Pairs
    BY <2>1, StackSame, StackPairs
  <2> QED
    BY <2>1, <2>2, MeaningStill DEF InCall
<1>4. CASE KeepNode
  <2>1. /\ vFanins' = vFanins /\ network' = network /\ vStackReplace' = Unscheduled(Head(doomed))
        /\ pc \in {"delete", "cleanup"} /\ pc' = pc
    BY <1>4 DEF KeepNode, heap, fixed
  <2>2. \A p \in Pairs' : p \in Pairs
    BY <2>1, UnscheduledIs, StackPairs DEF HeapInv, PairInv
  <2> QED
    BY <2>1, <2>2, MeaningStill DEF InCall
<1>5. CASE Deleted
  <2>1. /\ vFanins' = vFanins /\ network' = network /\ vStackReplace' = vStackReplace
        /\ (pc = "delete" /\ pc' = "replace") \/ pc' = "idle"
    BY <1>5 DEF Deleted, heap, fixed, lists
  <2>2. \A p \in Pairs' : p \in Pairs
    BY <2>1, StackSame, StackPairs
  <2> QED
    BY <2>1, <2>2, MeaningStill DEF InCall
<1>6. CASE Cleanup \/ LevelsDone \/ NextOfLevel \/ UpdateFanout
  <2>1. vFanins' = vFanins /\ network' = network /\ pc' \in {"cleanup", "idle", "levels"}
    BY <1>6 DEF Cleanup, LevelsDone, NextOfLevel, UpdateFanout, heap, fixed
  <2> QED
    BY <2>1, MeaningStill
<1>7. CASE UNCHANGED vars
  BY <1>7 DEF vars, heap, lists, fixed, current, MeaningInv, FunctionsKept, PairMeaning, InCall, Pairs,
              IsCo, Objects
<1> QED
  BY <1>1, <1>2, <1>3, <1>4, <1>5, <1>6, <1>7, MeaningReplace, MeaningNextPair, MeaningSchedule,
     MeaningPatchFanin, MeaningRehash, MeaningDeleteNode, MeaningAndCreate DEF Next, Call, Step

FaninsAcyclic == Acyclic(vFanins)

\* However far a replacement and what it sets off have got, every output has the
\* function it had at the start, as long as no object comes to depend on itself.
THEOREM FunctionsStay == Spec /\ []NoCycle => []FunctionsKept
<1>1. Init => MeaningInv
  <2> SUFFICES ASSUME Init PROVE MeaningInv
    OBVIOUS
  <2>1. vFanins = network /\ pc = "idle"
    BY DEF Init
  <2> QED
    BY <2>1 DEF MeaningInv, FunctionsKept, PairMeaning, InCall
<1>2. HeapInv /\ HeapInv' /\ FaninsAcyclic /\ FaninsAcyclic' /\ MeaningInv /\ [Next]_vars => MeaningInv'
  BY MeaningSteps DEF FaninsAcyclic
<1>3. MeaningInv => FunctionsKept
  BY DEF MeaningInv
<1>4. HeapInv /\ NoCycle => FaninsAcyclic
  BY NoCycleIs DEF FaninsAcyclic
<1> QED
  BY <1>1, <1>2, <1>3, <1>4, HeapInvariant, PTL DEF Spec
==============================================================================
