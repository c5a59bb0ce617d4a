----------------------------- MODULE MapperProofs ------------------------------
(***************************************************************************)
(* Proofs about Mapper, for any circuits, libraries and choices.           *)
(***************************************************************************)
EXTENDS Mapper, FoldTheorems

Pins == Nodes \X Phases
Below(n) == (1..(n - 1)) \X Phases
Gates == [leaves : SUBSET Pins, area : Int]
GatesBelow(n) == {g \in Gates : g.leaves \subseteq Below(n) /\ g.area \in Nat}

Counters == [Nodes -> [Phases -> Int]]

\* A gate of a node is connected to lower nodes.
Coverings ==
  {c \in [Nodes -> [Phases -> Gates]] :
     \A n \in Nodes, p \in Phases : c[n][p] = None \/ c[n][p] \in GatesBelow(n)}

CircuitOK ==
  /\ circuit.ins \in Nat /\ circuit.last \in Nat /\ circuit.ins < circuit.last
  /\ circuit.outs \in Seq(Pins)

LEMMA PinsFinite == ASSUME CircuitOK PROVE IsFiniteSet(Pins)
<1>1. IsFiniteSet(Nodes)
  <2>1. 1 \in Int /\ circuit.last \in Int
    BY DEF CircuitOK
  <2>2. IsFiniteSet(1..circuit.last)
    BY <2>1, FS_Interval
  <2> QED
    BY <2>2 DEF Nodes
<1>2. IsFiniteSet(Phases)
  <2>1. 0 \in Int /\ 1 \in Int
    OBVIOUS
  <2>2. IsFiniteSet(0..1)
    BY <2>1, FS_Interval
  <2>3. Phases = 0..1
    BY DEF Phases
  <2> QED
    BY <2>2, <2>3
<1> QED
  BY <1>1, <1>2, FS_Product DEF Pins

-----------------------------------------------------------------------------
(* A visit of all nodes, outputs first, in which gates add to the counters of  *)
(* their leaves.  M gives a pin its gate, T the counters of its node with which *)
(* the gate counts.                                                             *)

Signed(d, k) == IF d = 1 THEN k ELSE -k

Pass(s, n, p, M, T, d) == IF s[n] \in T[n][p] THEN Count(s, M[n][p], d) ELSE s

\* The gates of G that count towards pin x
Hits(s, G, M, T, x) ==
  {y \in G : s[y[1]] \in T[y[1]][y[2]] /\ x \in M[y[1]][y[2]].leaves}

Connected(M) ==
  /\ M \in [Nodes -> [Phases -> Gates]]
  /\ \A n \in Nodes, p \in Phases : M[n][p].leaves \subseteq Below(n)

\* The counters s are those of base and what the gates of G have added.
Passed(s, base, G, M, T, d) ==
  \A x \in Pins : s[x[1]][x[2]] = base[x[1]][x[2]] + Signed(d, Cardinality(Hits(s, G, M, T, x)))

\* Counting a gate changes only its leaves.
LEMMA CountIs ==
  ASSUME NEW s \in Counters, NEW m \in Gates, NEW d \in {1, -1}
  PROVE  /\ Count(s, m, d) \in Counters
         /\ \A x \in Pins : Count(s, m, d)[x[1]][x[2]]
                             = IF x \in m.leaves THEN s[x[1]][x[2]] + d ELSE s[x[1]][x[2]]
<1>1. ASSUME NEW n \in Nodes, NEW p \in Phases
      PROVE  s[n][p] \in Int
  BY DEF Counters
<1>2. Count(s, m, d) \in Counters
  BY <1>1 DEF Counters, Count
<1>3. ASSUME NEW x \in Pins
      PROVE  Count(s, m, d)[x[1]][x[2]] = IF x \in m.leaves THEN s[x[1]][x[2]] + d ELSE s[x[1]][x[2]]
  <2>1. x = <<x[1], x[2]>> /\ x[1] \in Nodes /\ x[2] \in Phases
    BY DEF Pins
  <2> QED
    BY <2>1 DEF Count
<1> QED
  BY <1>2, <1>3

\* ... none of them at the gate's node or above.
LEMMA CountBelow ==
  ASSUME CircuitOK, NEW s \in Counters, NEW m \in Gates, NEW d \in {1, -1}, NEW n \in Nodes,
         m.leaves \subseteq Below(n)
  PROVE  \A k \in Nodes : k >= n => Count(s, m, d)[k] = s[k]
<1> SUFFICES ASSUME NEW k \in Nodes, k >= n PROVE Count(s, m, d)[k] = s[k]
  OBVIOUS
<1>1. s[k] = [p \in Phases |-> s[k][p]]
  BY DEF Counters
<1>2. \A p \in Phases : <<k, p>> \notin m.leaves
  BY DEF Below, Nodes, CircuitOK
<1>3. Count(s, m, d)[k] = [p \in Phases |-> s[k][p]]
  BY <1>2 DEF Count
<1> QED
  BY <1>1, <1>3

\* The next pin: the gates of G are counted, and it is not among them.
Ready(s, base, G, M, T, d, n, p) ==
  /\ base \in Counters /\ s \in Counters /\ d \in {1, -1} /\ G \in SUBSET Pins
  /\ n \in Nodes /\ p \in Phases
  /\ \A y \in G : y[1] >= n
  /\ <<n, p>> \notin G /\ Passed(s, base, G, M, T, d)

\* One pin more is visited.
LEMMA PassStep ==
  ASSUME CircuitOK, NEW M, Connected(M), NEW s, NEW base, NEW G, NEW T, NEW d, NEW n, NEW p,
         Ready(s, base, G, M, T, d, n, p)
  PROVE  /\ Pass(s, n, p, M, T, d) \in Counters
         /\ Passed(Pass(s, n, p, M, T, d), base, G \union {<<n, p>>}, M, T, d)
<1>8. /\ base \in Counters /\ s \in Counters /\ d \in {1, -1} /\ G \in SUBSET Pins
      /\ n \in Nodes /\ p \in Phases
      /\ \A y \in G : y[1] >= n
      /\ <<n, p>> \notin G /\ Passed(s, base, G, M, T, d)
  BY DEF Ready
<1> USE <1>8
<1> DEFINE m == M[n][p]
           t == Pass(s, n, p, M, T, d)
           z == <<n, p>>
<1>1. m \in Gates /\ m.leaves \subseteq Below(n)
  BY DEF Connected
<1>2. t = IF s[n] \in T[n][p] THEN Count(s, m, d) ELSE s
  BY DEF Pass
<1> HIDE DEF m, t
<1>3. t \in Counters
  BY <1>1, <1>2, CountIs
<1>4. \A k \in Nodes : k >= n => t[k] = s[k]
  BY <1>1, <1>2, CountBelow
<1>5. n >= n /\ z \in Pins /\ \A y \in G : y[1] \in Nodes
  BY DEF Pins, Nodes, CircuitOK
<1>6. ASSUME NEW x \in Pins
      PROVE  t[x[1]][x[2]] = base[x[1]][x[2]] + Signed(d, Cardinality(Hits(t, G \union {z}, M, T, x)))
  <2> DEFINE H == Hits(s, G, M, T, x)
             here == s[n] \in T[n][p] /\ x \in m.leaves
  <2>1. Hits(t, G \union {z}, M, T, x) = IF here THEN H \union {z} ELSE H
    <3>1. \A y \in G : t[y[1]] = s[y[1]]
      BY <1>4, <1>5
    <3>2. t[n] = s[n]
      BY <1>4, <1>5
    <3>3. Hits(t, G \union {z}, M, T, x)
            = Hits(t, G, M, T, x) \union (IF here THEN {z} ELSE {})
      BY <3>2 DEF Hits, m
    <3>4. Hits(t, G, M, T, x) = H
      BY <3>1 DEF Hits
    <3> HIDE DEF here, H
    <3> QED
      BY <3>3, <3>4
  <2>2. IsFiniteSet(H) /\ z \notin H
    <3>1. H \subseteq G /\ H \in SUBSET Pins
      BY DEF Hits
    <3> HIDE DEF H
    <3> QED
      BY <3>1, PinsFinite, FS_Subset
  <2>3. Cardinality(H) \in Nat /\ Cardinality(H \union {z}) = Cardinality(H) + 1
    <3> HIDE DEF H, z
    <3> QED
      BY <2>2, FS_CardinalityType, FS_AddElement
  <2>4. s[x[1]][x[2]] = base[x[1]][x[2]] + Signed(d, Cardinality(H))
    BY DEF Passed
  <2>5. t[x[1]][x[2]] = IF here THEN s[x[1]][x[2]] + d ELSE s[x[1]][x[2]]
    <3>1. Count(s, m, d)[x[1]][x[2]] = IF x \in m.leaves THEN s[x[1]][x[2]] + d ELSE s[x[1]][x[2]]
      <4>1. \A y \in Pins : Count(s, m, d)[y[1]][y[2]]
                             = IF y \in m.leaves THEN s[y[1]][y[2]] + d ELSE s[y[1]][y[2]]
        BY Zenon, <1>1, CountIs
      <4> QED
        BY Zenon, <4>1
    <3>2. CASE s[n] \in T[n][p]
      BY <1>2, <3>1, <3>2
    <3>3. CASE s[n] \notin T[n][p]
      BY <1>2, <3>3
    <3> QED
      BY <3>2, <3>3
  <2>6. base[x[1]][x[2]] \in Int
    <3>1. x[1] \in Nodes /\ x[2] \in Phases
      BY DEF Pins
    <3> QED
      BY <3>1 DEF Counters
  <2> HIDE DEF here, H, z
  <2>7. CASE here
    <3>1. Signed(d, Cardinality(H \union {z})) = Signed(d, Cardinality(H)) + d
      BY <2>3 DEF Signed
    <3>2. Signed(d, Cardinality(H)) \in Int
      BY <2>3 DEF Signed
    <3>3. \A a, b \in Int : (a + b) + d = a + (b + d)
      OBVIOUS
    <3> QED
      BY <2>1, <2>4, <2>5, <2>6, <2>7, <3>1, <3>2, <3>3
  <2>8. CASE ~here
    BY <2>1, <2>4, <2>5, <2>8
  <2> QED
    BY <2>7, <2>8
<1>7. Passed(t, base, G \union {z}, M, T, d)
  BY <1>6 DEF Passed
<1> QED
  BY <1>3, <1>4, <1>7 DEF t

\* The counters at the end of a visit, node by node
Visits(tr, base, M, T, d) ==
  /\ tr[0] = base
  /\ \A i \in 1..circuit.last :
       tr[i - 1] \in Counters =>
         tr[i] = Pass(Pass(tr[i - 1], Down[i], 0, M, T, d), Down[i], 1, M, T, d)

From(k) == {y \in Pins : y[1] >= k}

LEMMA VisitStep ==
  ASSUME CircuitOK, NEW base \in Counters, NEW d \in {1, -1}, NEW M, Connected(M), NEW T,
         NEW n \in Nodes, NEW s \in Counters, Passed(s, base, From(n + 1), M, T, d)
  PROVE  LET t == Pass(Pass(s, n, 0, M, T, d), n, 1, M, T, d)
         IN  t \in Counters /\ Passed(t, base, From(n), M, T, d)
<1> DEFINE u == Pass(s, n, 0, M, T, d)
           t == Pass(u, n, 1, M, T, d)
           G == From(n + 1)
<1>1. /\ G \in SUBSET Pins /\ \A y \in G : y[1] >= n
      /\ <<n, 0>> \notin G
  BY DEF From, Pins, Nodes, CircuitOK
<1>2. 0 \in Phases /\ 1 \in Phases
  BY DEF Phases
<1> HIDE DEF G
<1>3. u \in Counters /\ Passed(u, base, G \union {<<n, 0>>}, M, T, d)
  <2>1. Ready(s, base, G, M, T, d, n, 0)
    BY <1>1, <1>2 DEF Ready, G
  <2> QED
    BY <2>1, PassStep
<1> HIDE DEF u
<1> DEFINE J == G \union {<<n, 0>>}
<1>4. /\ J \in SUBSET Pins /\ \A y \in J : y[1] >= n
      /\ <<n, 1>> \notin J
  BY <1>1, <1>2 DEF From, G, Pins, Nodes, CircuitOK
<1>5. Passed(u, base, J, M, T, d)
  BY <1>3
<1> HIDE DEF J
<1>6. t \in Counters /\ Passed(t, base, J \union {<<n, 1>>}, M, T, d)
  <2>1. Ready(u, base, J, M, T, d, n, 1)
    BY <1>2, <1>3, <1>4, <1>5 DEF Ready
  <2> QED
    BY <2>1, PassStep
<1>7. J \union {<<n, 1>>} = From(n)
  <2>1. \A y \in Pins : y[1] \in Int /\ y = <<y[1], y[2]>> /\ y[2] \in {0, 1}
    BY DEF Pins, Nodes, Phases, CircuitOK
  <2>2. n \in Int /\ <<n, 0>> \in Pins /\ <<n, 1>> \in Pins
    BY <1>2 DEF Pins, Nodes, CircuitOK
  <2>3. ASSUME NEW y \in From(n) PROVE y \in J \union {<<n, 1>>}
    <3>1. y \in Pins /\ y[1] >= n
      BY DEF From
    <3>2. CASE y[1] = n
      BY <2>1, <3>1, <3>2 DEF J
    <3>3. CASE y[1] # n
      <4>1. y[1] >= n + 1
        BY <2>1, <2>2, <3>1, <3>3
      <4> QED
        BY <3>1, <4>1 DEF From, J, G
    <3> QED
      BY <3>2, <3>3
  <2>4. J \union {<<n, 1>>} \subseteq From(n)
    BY <1>4, <2>2 DEF From
  <2> QED
    BY <2>3, <2>4
<1> QED
  BY <1>6, <1>7 DEF t, u

LEMMA VisitIs ==
  ASSUME CircuitOK, NEW base \in Counters, NEW d \in {1, -1}, NEW M, Connected(M), NEW T,
         NEW tr, Visits(tr, base, M, T, d)
  PROVE  tr[circuit.last] \in Counters /\ Passed(tr[circuit.last], base, Pins, M, T, d)
<1> DEFINE Is(i) == /\ tr[i] \in Counters
                    /\ Passed(tr[i], base, From(circuit.last + 1 - i), M, T, d)
           K == {i \in Nat : i <= circuit.last => Is(i)}
<1>1. circuit.last \in Nat
  BY DEF CircuitOK
<1>2. Is(0)
  <2>1. From(circuit.last + 1) = {}
    BY <1>1 DEF From, Pins, Nodes
  <2>2. ASSUME NEW x \in Pins
        PROVE  base[x[1]][x[2]] = base[x[1]][x[2]] + Signed(d, Cardinality(Hits(base, {}, M, T, x)))
    <3>1. Hits(base, {}, M, T, x) = {}
      BY DEF Hits
    <3>2. Signed(d, Cardinality(Hits(base, {}, M, T, x))) = 0
      BY <3>1, FS_EmptySet DEF Signed
    <3>3. x[1] \in Nodes /\ x[2] \in Phases
      BY DEF Pins
    <3>4. base[x[1]][x[2]] \in Int
      BY <3>3 DEF Counters
    <3> QED
      BY <3>2, <3>4
  <2>3. Passed(base, base, {}, M, T, d)
    BY <2>2 DEF Passed
  <2>4. circuit.last + 1 - 0 = circuit.last + 1
    BY <1>1
  <2> QED
    BY <2>1, <2>3, <2>4 DEF Visits
<1>3. ASSUME NEW i \in Nat, i \in K PROVE i + 1 \in K
  <2> SUFFICES ASSUME i + 1 <= circuit.last PROVE Is(i + 1)
    OBVIOUS
  <2> DEFINE n == circuit.last - i
  <2>1. /\ i + 1 \in 1..circuit.last /\ (i + 1) - 1 = i /\ n \in Nodes
        /\ circuit.last + 1 - i = n + 1 /\ circuit.last + 1 - (i + 1) = n
    BY <1>1 DEF Nodes
  <2>2. Down[i + 1] = n
    BY <2>1 DEF Down, Nodes
  <2>3. tr[i] \in Counters /\ Passed(tr[i], base, From(n + 1), M, T, d)
    BY <1>1, <1>3, <2>1
  <2> HIDE DEF n
  <2>4. tr[i + 1] = Pass(Pass(tr[i], n, 0, M, T, d), n, 1, M, T, d)
    BY <2>1, <2>2, <2>3 DEF Visits
  <2>5. tr[i + 1] \in Counters /\ Passed(tr[i + 1], base, From(n), M, T, d)
    BY <2>1, <2>3, <2>4, VisitStep
  <2> QED
    BY <2>1, <2>5
<1>4. Is(circuit.last)
  <2>1. 0 \in K
    BY <1>2
  <2> HIDE DEF K, Is
  <2>2. Nat \subseteq K
    BY <1>3, <2>1, NumberInduction
  <2> QED
    BY <1>1, <2>2 DEF K
<1>5. From(circuit.last + 1 - circuit.last) = Pins
  BY <1>1 DEF From, Pins, Nodes
<1> QED
  BY <1>4, <1>5

-----------------------------------------------------------------------------
(* A fold over the nodes is such a visit. *)

LEMMA CoveringConnected ==
  ASSUME CircuitOK, NEW c \in Coverings PROVE Connected(c)
<1>1. \A n \in Nodes, p \in Phases : c[n][p] = None \/ c[n][p] \in GatesBelow(n)
  BY DEF Coverings
<1>2. None.leaves = {}
  BY DEF None
<1>3. \A n \in Nodes, p \in Phases : c[n][p].leaves \subseteq Below(n)
  BY <1>1, <1>2 DEF GatesBelow
<1>4. c \in [Nodes -> [Phases -> Gates]]
  BY DEF Coverings
<1> QED
  BY <1>3, <1>4 DEF Connected

LEMMA PassKeeps ==
  ASSUME NEW s \in Counters, NEW n \in Nodes, NEW p \in Phases, NEW M, Connected(M), NEW T,
         NEW d \in {1, -1}
  PROVE  Pass(s, n, p, M, T, d) \in Counters
<1>1. M[n][p] \in Gates
  BY DEF Connected
<1>2. Count(s, M[n][p], d) \in Counters
  BY <1>1, CountIs
<1> QED
  BY <1>2 DEF Pass

\* The fold as a function on the sets of positions that are still to be folded
Fold(g, base, M, T, d) ==
  /\ g[{}] = base
  /\ \A S \in SUBSET (1..circuit.last) :
       S # {} /\ g[S \ {TopOf(S)}] \in Counters =>
         g[S] = Pass(Pass(g[S \ {TopOf(S)}], Down[TopOf(S)], 0, M, T, d), Down[TopOf(S)], 1, M, T, d)

LEMMA FoldHas ==
  ASSUME CircuitOK, NEW base \in Counters, NEW d \in {1, -1}, NEW M, Connected(M), NEW T
  PROVE  \E g \in [SUBSET (1..circuit.last) -> Counters] : Fold(g, base, M, T, d)
<1> DEFINE D == 1..circuit.last
           Op(s, n) == Pass(Pass(s, n, 0, M, T, d), n, 1, M, T, d)
           op == [x \in D \X Counters |-> Op(x[2], Down[x[1]])]
<1>1. ASSUME NEW s \in Counters, NEW n \in Nodes PROVE Op(s, n) \in Counters
  <2>1. 0 \in Phases /\ 1 \in Phases
    BY DEF Phases
  <2>2. Pass(s, n, 0, M, T, d) \in Counters
    BY <2>1, PassKeeps
  <2> QED
    BY <2>1, <2>2, PassKeeps
<1> HIDE DEF Op
<1>2. /\ circuit.last \in Nat /\ D = Nodes
      /\ \A i \in D : Down[i] \in Nodes
  BY DEF CircuitOK, Down, Nodes
<1>3. PICK g \in [SUBSET D -> Counters] : LeftFolds(g, circuit.last, base, op)
  <2>1. \A x \in D \X Counters : Op(x[2], Down[x[1]]) \in Counters
    BY <1>1, <1>2
  <2>2. op \in [D \X Counters -> Counters]
    BY <2>1
  <2> HIDE DEF op
  <2> QED
    BY <1>2, <2>2, FoldLeftExists
<1>4. ASSUME NEW S \in SUBSET D, S # {}
      PROVE  g[S] = Op(g[S \ {TopOf(S)}], Down[TopOf(S)])
  <2> DEFINE x == TopOf(S)
  <2>1. x \in D /\ S \ {x} \in SUBSET D
    BY <1>2, <1>4, TopOfIs
  <2> HIDE DEF x
  <2>2. g[S \ {x}] \in Counters
    BY <2>1
  <2>3. op[<<x, g[S \ {x}]>>] = Op(g[S \ {x}], Down[x])
    BY <2>1, <2>2
  <2> HIDE DEF op
  <2> QED
    BY <1>3, <1>4, <2>3 DEF LeftFolds, x
<1>5. g[{}] = base
  BY <1>3 DEF LeftFolds
<1>6. Fold(g, base, M, T, d)
  BY <1>4, <1>5 DEF Fold, Op
<1> QED
  BY <1>6

LEMMA FoldVisits ==
  ASSUME CircuitOK, NEW base, NEW d, NEW M, NEW T, NEW g, Fold(g, base, M, T, d)
  PROVE  \E tr : Visits(tr, base, M, T, d) /\ tr[circuit.last] = g[1..circuit.last]
<1> DEFINE Op(s, n) == Pass(Pass(s, n, 0, M, T, d), n, 1, M, T, d)
           tr == [i \in 0..circuit.last |-> g[1..i]]
<1>1. circuit.last \in Nat
  BY DEF CircuitOK
<1>2. ASSUME NEW i \in 1..circuit.last, tr[i - 1] \in Counters
      PROVE  tr[i] = Op(tr[i - 1], Down[i])
  <2>1. 1..i \in SUBSET (1..circuit.last) /\ 1..i # {} /\ i \in Nat \ {0}
    BY <1>1
  <2>2. TopOf(1..i) = i /\ (1..i) \ {TopOf(1..i)} = 1..(i - 1)
    BY <2>1, TopOfInterval
  <2>3. tr[i] = g[1..i] /\ tr[i - 1] = g[1..(i - 1)]
    BY <1>1
  <2> HIDE DEF tr
  <2> QED
    BY <1>2, <2>1, <2>2, <2>3 DEF Fold
<1>3. tr[0] = base /\ tr[circuit.last] = g[1..circuit.last]
  <2>1. 1..0 = {}
    OBVIOUS
  <2> QED
    BY <1>1, <2>1 DEF Fold
<1> HIDE DEF tr
<1>4. Visits(tr, base, M, T, d)
  BY <1>2, <1>3 DEF Visits
<1> QED
  BY <1>3, <1>4

\* What both come to
LEMMA FoldPassed ==
  ASSUME CircuitOK, NEW base \in Counters, NEW d \in {1, -1}, NEW M, Connected(M), NEW T,
         NEW g, Fold(g, base, M, T, d)
  PROVE  /\ g[1..circuit.last] \in Counters
         /\ Passed(g[1..circuit.last], base, Pins, M, T, d)
<1>1. PICK tr : Visits(tr, base, M, T, d) /\ tr[circuit.last] = g[1..circuit.last]
  BY FoldVisits
<1>2. tr[circuit.last] \in Counters /\ Passed(tr[circuit.last], base, Pins, M, T, d)
  BY <1>1, VisitIs
<1> QED
  BY <1>1, <1>2

-----------------------------------------------------------------------------
(* Map_CutRefDeref visits the gates that turn. *)

TurnTest(c, r) ==
  [n \in Nodes |-> [p \in Phases |->
     {v \in [Phases -> Int] :
        /\ c[n][p] # None
        /\ IF Both(c, n) THEN (r[n][p] = 0) # (v[p] = 0)
                         ELSE (Total(r, n) = 0) # (v[0] + v[1] = 0)}]]

LEMMA RefDerefPasses ==
  ASSUME CircuitOK, NEW c \in Coverings, NEW r \in Counters, NEW m \in Gates, NEW d \in {1, -1}
  PROVE  LET s == CutRefDeref(c, r, m, d)
         IN  s \in Counters /\ Passed(s, Count(r, m, d), Pins, c, TurnTest(c, r), d)
<1> DEFINE D == 1..circuit.last
           base == Count(r, m, d)
           Test == TurnTest(c, r)
           Gate(s, n, p) == IF Turns(c, r, s, n, p) THEN Count(s, c[n][p], d) ELSE s
           Op(s, n) == Gate(Gate(s, n, 0), n, 1)
           Iter(g) == g = [S \in SUBSET D |->
                             IF S = {} THEN base ELSE Op(g[S \ {TopOf(S)}], Down[TopOf(S)])]
           f == CHOOSE g : Iter(g)
<1>1. CutRefDeref(c, r, m, d) = f[D]
  <2>1. DOMAIN Down = D
    BY DEF Down, Nodes
  <2> QED
    BY <2>1 DEF CutRefDeref, FoldLeft, MapThenFoldSet, Max, TopOf
<1>2. ASSUME NEW s \in Counters, NEW n \in Nodes, NEW p \in Phases
      PROVE  Gate(s, n, p) = Pass(s, n, p, c, Test, d) /\ Gate(s, n, p) \in Counters
  <2>1. s[n] \in [Phases -> Int]
    BY DEF Counters
  <2>2. Turns(c, r, s, n, p) <=> s[n] \in Test[n][p]
    BY <2>1 DEF Turns, TurnTest, Total
  <2>3. Gate(s, n, p) = Pass(s, n, p, c, Test, d)
    BY <2>2 DEF Pass
  <2> QED
    BY <2>3, PassKeeps, CoveringConnected
<1> HIDE DEF Gate, Test
<1>3. ASSUME NEW s \in Counters, NEW n \in Nodes
      PROVE  Op(s, n) = Pass(Pass(s, n, 0, c, Test, d), n, 1, c, Test, d)
  BY <1>2 DEF Phases
<1> HIDE DEF Op
<1>4. base \in Counters /\ Connected(c)
  BY CountIs, CoveringConnected
<1> HIDE DEF base
<1>5. PICK g \in [SUBSET D -> Counters] : Fold(g, base, c, Test, d)
  BY <1>4, FoldHas
<1>6. ASSUME NEW S \in SUBSET D, S # {}
      PROVE  TopOf(S) \in D /\ Down[TopOf(S)] \in Nodes
  <2>1. circuit.last \in Nat
    BY DEF CircuitOK
  <2>2. TopOf(S) \in D
    BY <1>6, <2>1, TopOfIs
  <2> QED
    BY <2>1, <2>2 DEF Down, Nodes
<1>7. Iter(g)
  <2>1. ASSUME NEW S \in SUBSET D, S # {}
        PROVE  g[S] = Op(g[S \ {TopOf(S)}], Down[TopOf(S)])
    <3>1. g[S \ {TopOf(S)}] \in Counters
      OBVIOUS
    <3> QED
      BY <1>3, <1>5, <1>6, <2>1, <3>1 DEF Fold
  <2>2. g[{}] = base
    BY <1>5 DEF Fold
  <2> QED
    BY <2>1, <2>2
<1>8. Iter(f)
  BY <1>7
<1> HIDE DEF f
<1>9. Fold(f, base, c, Test, d)
  BY <1>3, <1>6, <1>8 DEF Fold
<1>10. f[D] \in Counters /\ Passed(f[D], base, Pins, c, Test, d)
  BY <1>4, <1>9, FoldPassed
<1> QED
  BY <1>1, <1>10 DEF base, Test

-----------------------------------------------------------------------------
(* Map_MappingSetRefs visits the gates of the pins that are used, and TrueRefs *)
(* those that are built.                                                       *)

LEMMA OutputRefsAre ==
  ASSUME CircuitOK
  PROVE  OutputRefs \in Counters /\ \A x \in Pins : OutputRefs[x[1]][x[2]] >= 0
<1>1. ASSUME NEW n \in Nodes, NEW p \in Phases
      PROVE  Cardinality({i \in DOMAIN circuit.outs : circuit.outs[i] = <<n, p>>}) \in Nat
  <2> DEFINE S == {i \in DOMAIN circuit.outs : circuit.outs[i] = <<n, p>>}
  <2>1. DOMAIN circuit.outs = 1..Len(circuit.outs) /\ Len(circuit.outs) \in Int /\ 1 \in Int
    BY DEF CircuitOK
  <2>2. IsFiniteSet(1..Len(circuit.outs))
    BY <2>1, FS_Interval
  <2>3. S \in SUBSET (1..Len(circuit.outs))
    BY <2>1
  <2> HIDE DEF S
  <2>4. Cardinality(S) \in Nat
    BY <2>2, <2>3, FS_Subset, FS_CardinalityType
  <2> QED
    BY <2>4 DEF S
<1>2. OutputRefs \in Counters
  BY <1>1 DEF OutputRefs, Counters
<1>3. \A n \in Nodes, p \in Phases : OutputRefs[n][p] >= 0
  BY <1>1 DEF OutputRefs
<1> QED
  BY <1>2, <1>3 DEF Pins

\* The gate each phase is made with
GateMap(c) == [n \in Nodes |-> [p \in Phases |-> GateFor(c, n, p)]]

LEMMA GateMapConnected ==
  ASSUME CircuitOK, NEW c \in Coverings PROVE Connected(GateMap(c))
<1>1. \A n \in Nodes, p \in Phases : c[n][p] \in Gates /\ c[n][p].leaves \subseteq Below(n)
  BY CoveringConnected DEF Connected
<1>2. \A p \in Phases : 1 - p \in Phases
  BY DEF Phases
<1>3. \A n \in Nodes, p \in Phases :
        GateFor(c, n, p) \in Gates /\ GateFor(c, n, p).leaves \subseteq Below(n)
  BY <1>1, <1>2 DEF GateFor
<1> QED
  BY <1>3 DEF Connected, GateMap

UsedTest == [n \in Nodes |-> [p \in Phases |-> {v \in [Phases -> Int] : v[p] > 0}]]

BuiltTest(c) ==
  [n \in Nodes |-> [p \in Phases |->
     {v \in [Phases -> Int] :
        c[n][p] # None /\ (v[p] > 0 \/ (c[n][1 - p] = None /\ v[1 - p] > 0))}]]

LEMMA SetRefsPasses ==
  ASSUME CircuitOK, NEW c \in Coverings
  PROVE  /\ SetRefs(c) \in Counters
         /\ Passed(SetRefs(c), OutputRefs, Pins, GateMap(c), UsedTest, 1)
<1>b. Connected(GateMap(c))
  BY GateMapConnected
<1> DEFINE M == GateMap(c)
<1>m. \A n \in Nodes, p \in Phases : M[n][p] = GateFor(c, n, p)
  BY DEF GateMap
<1>c. Connected(M)
  BY <1>b
<1> HIDE DEF M
<1> DEFINE D == 1..circuit.last
           base == OutputRefs
           Test == UsedTest
           Gate(s, n, p) == IF s[n][p] > 0 THEN Count(s, GateFor(c, n, p), 1) ELSE s
           Op(s, n) == Gate(Gate(s, n, 0), n, 1)
           Iter(g) == g = [S \in SUBSET D |->
                             IF S = {} THEN base ELSE Op(g[S \ {TopOf(S)}], Down[TopOf(S)])]
           f == CHOOSE g : Iter(g)
<1>1. SetRefs(c) = f[D]
  <2>1. DOMAIN Down = D
    BY DEF Down, Nodes
  <2> QED
    BY <2>1 DEF SetRefs, FoldLeft, MapThenFoldSet, Max, TopOf
<1>2. ASSUME NEW s \in Counters, NEW n \in Nodes, NEW p \in Phases
      PROVE  Gate(s, n, p) = Pass(s, n, p, M, Test, 1) /\ Gate(s, n, p) \in Counters
  <2>1. s[n] \in [Phases -> Int]
    BY DEF Counters
  <2>2. s[n][p] > 0 <=> s[n] \in Test[n][p]
    BY <2>1 DEF UsedTest
  <2>3. Gate(s, n, p) = Pass(s, n, p, M, Test, 1)
    BY <2>2, <1>m DEF Pass
  <2> QED
    BY <2>3, <1>c, PassKeeps
<1> HIDE DEF Gate, Test
<1>3. ASSUME NEW s \in Counters, NEW n \in Nodes
      PROVE  Op(s, n) = Pass(Pass(s, n, 0, M, Test, 1), n, 1, M, Test, 1)
  BY <1>2 DEF Phases
<1> HIDE DEF Op
<1>4. base \in Counters
  BY OutputRefsAre
<1> HIDE DEF base
<1>5. PICK g \in [SUBSET D -> Counters] : Fold(g, base, M, Test, 1)
  BY <1>c, <1>4, FoldHas
<1>6. ASSUME NEW S \in SUBSET D, S # {}
      PROVE  TopOf(S) \in D /\ Down[TopOf(S)] \in Nodes
  <2>1. circuit.last \in Nat
    BY DEF CircuitOK
  <2>2. TopOf(S) \in D
    BY <1>6, <2>1, TopOfIs
  <2> QED
    BY <2>1, <2>2 DEF Down, Nodes
<1>7. Iter(g)
  <2>1. ASSUME NEW S \in SUBSET D, S # {}
        PROVE  g[S] = Op(g[S \ {TopOf(S)}], Down[TopOf(S)])
    <3>1. g[S \ {TopOf(S)}] \in Counters
      OBVIOUS
    <3> QED
      BY <1>3, <1>5, <1>6, <2>1, <3>1 DEF Fold
  <2>2. g[{}] = base
    BY <1>5 DEF Fold
  <2> QED
    BY <2>1, <2>2
<1>8. Iter(f)
  BY <1>7
<1> HIDE DEF f
<1>9. Fold(f, base, M, Test, 1)
  BY <1>3, <1>6, <1>8 DEF Fold
<1>10. f[D] \in Counters /\ Passed(f[D], base, Pins, M, Test, 1)
  BY <1>c, <1>4, <1>9, FoldPassed
<1> QED
  BY <1>1, <1>10 DEF base, Test, M

LEMMA TrueRefsPasses ==
  ASSUME CircuitOK, NEW c \in Coverings
  PROVE  /\ TrueRefs(c) \in Counters
         /\ Passed(TrueRefs(c), OutputRefs, Pins, c, BuiltTest(c), 1)
<1>c. Connected(c)
  BY CoveringConnected
<1> DEFINE D == 1..circuit.last
           base == OutputRefs
           Test == BuiltTest(c)
           Gate(s, n, p) == IF Built(c, s, n, p) THEN Count(s, c[n][p], 1) ELSE s
           Op(s, n) == Gate(Gate(s, n, 0), n, 1)
           Iter(g) == g = [S \in SUBSET D |->
                             IF S = {} THEN base ELSE Op(g[S \ {TopOf(S)}], Down[TopOf(S)])]
           f == CHOOSE g : Iter(g)
<1>1. TrueRefs(c) = f[D]
  <2>1. DOMAIN Down = D
    BY DEF Down, Nodes
  <2> QED
    BY <2>1 DEF TrueRefs, FoldLeft, MapThenFoldSet, Max, TopOf
<1>2. ASSUME NEW s \in Counters, NEW n \in Nodes, NEW p \in Phases
      PROVE  Gate(s, n, p) = Pass(s, n, p, c, Test, 1) /\ Gate(s, n, p) \in Counters
  <2>1. s[n] \in [Phases -> Int]
    BY DEF Counters
  <2>2. Built(c, s, n, p) <=> s[n] \in Test[n][p]
    BY <2>1 DEF Built, BuiltTest
  <2>3. Gate(s, n, p) = Pass(s, n, p, c, Test, 1)
    BY <2>2 DEF Pass
  <2> QED
    BY <2>3, <1>c, PassKeeps
<1> HIDE DEF Gate, Test
<1>3. ASSUME NEW s \in Counters, NEW n \in Nodes
      PROVE  Op(s, n) = Pass(Pass(s, n, 0, c, Test, 1), n, 1, c, Test, 1)
  BY <1>2 DEF Phases
<1> HIDE DEF Op
<1>4. base \in Counters
  BY OutputRefsAre
<1> HIDE DEF base
<1>5. PICK g \in [SUBSET D -> Counters] : Fold(g, base, c, Test, 1)
  BY <1>c, <1>4, FoldHas
<1>6. ASSUME NEW S \in SUBSET D, S # {}
      PROVE  TopOf(S) \in D /\ Down[TopOf(S)] \in Nodes
  <2>1. circuit.last \in Nat
    BY DEF CircuitOK
  <2>2. TopOf(S) \in D
    BY <1>6, <2>1, TopOfIs
  <2> QED
    BY <2>1, <2>2 DEF Down, Nodes
<1>7. Iter(g)
  <2>1. ASSUME NEW S \in SUBSET D, S # {}
        PROVE  g[S] = Op(g[S \ {TopOf(S)}], Down[TopOf(S)])
    <3>1. g[S \ {TopOf(S)}] \in Counters
      OBVIOUS
    <3> QED
      BY <1>3, <1>5, <1>6, <2>1, <3>1 DEF Fold
  <2>2. g[{}] = base
    BY <1>5 DEF Fold
  <2> QED
    BY <2>1, <2>2
<1>8. Iter(f)
  BY <1>7
<1> HIDE DEF f
<1>9. Fold(f, base, c, Test, 1)
  BY <1>3, <1>6, <1>8 DEF Fold
<1>10. f[D] \in Counters /\ Passed(f[D], base, Pins, c, Test, 1)
  BY <1>c, <1>4, <1>9, FoldPassed
<1> QED
  BY <1>1, <1>10 DEF base, Test

-----------------------------------------------------------------------------
(* What the counters come to. *)

Val(r, x) == r[x[1]][x[2]]

\* The gates of G, of a covering c, that are connected to pin x
Users(c, G, x) == {y \in G : x \in Val(c, y).leaves}
Uses(c, G, x) == Cardinality(Users(c, G, x))

On(m, x) == IF x \in m.leaves THEN 1 ELSE 0

Turned(c, r, s) == {y \in Pins : Turns(c, r, s, y[1], y[2])}
Used(c, r) == {y \in Pins : Built(c, r, y[1], y[2])}

LEMMA PinIs ==
  ASSUME CircuitOK, NEW x \in Pins
  PROVE  /\ x = <<x[1], x[2]>> /\ x[1] \in Nodes /\ x[2] \in Phases
         /\ x[1] \in Int /\ 1 <= x[1] /\ x[1] <= circuit.last /\ x[2] \in {0, 1}
  BY DEF Pins, Nodes, Phases, CircuitOK

LEMMA ValIs ==
  ASSUME CircuitOK, NEW r \in Counters, NEW x \in Pins
  PROVE  Val(r, x) \in Int
  BY PinIs DEF Val, Counters

\* Counters with the same values are the same.
LEMMA CountersEqual ==
  ASSUME CircuitOK, NEW r \in Counters, NEW s \in Counters, \A x \in Pins : Val(r, x) = Val(s, x)
  PROVE  r = s
<1>1. ASSUME NEW n \in Nodes, NEW p \in Phases PROVE r[n][p] = s[n][p]
  <2>1. <<n, p>> \in Pins
    BY DEF Pins
  <2> QED
    BY <2>1 DEF Val
<1>2. \A n \in Nodes : r[n] \in [Phases -> Int] /\ s[n] \in [Phases -> Int]
  BY DEF Counters
<1>3. \A n \in Nodes : r[n] = s[n]
  BY <1>1, <1>2
<1> QED
  BY <1>3 DEF Counters

\* The users of a pin are above it.
LEMMA UsersAre ==
  ASSUME CircuitOK, NEW c \in Coverings, NEW G \in SUBSET Pins, NEW x \in Pins
  PROVE  /\ IsFiniteSet(Users(c, G, x)) /\ Uses(c, G, x) \in Nat
         /\ \A y \in Users(c, G, x) : y \in G /\ y[1] > x[1]
<1>1. Users(c, G, x) \in SUBSET Pins
  BY DEF Users
<1>2. IsFiniteSet(Users(c, G, x)) /\ Uses(c, G, x) \in Nat
  BY <1>1, PinsFinite, FS_Subset, FS_CardinalityType DEF Uses
<1>3. ASSUME NEW y \in Users(c, G, x) PROVE y \in G /\ y[1] > x[1]
  <2>1. y \in G /\ x \in Val(c, y).leaves
    BY DEF Users
  <2>2. y[1] \in Nodes /\ y[2] \in Phases
    BY <2>1, PinIs
  <2>3. Val(c, y).leaves \subseteq Below(y[1])
    BY <2>2, CoveringConnected DEF Connected, Val
  <2>4. x \in Below(y[1])
    BY <2>1, <2>3
  <2>5. x[1] \in 1..(y[1] - 1) /\ y[1] \in Int
    BY <2>1, <2>4, PinIs DEF Below
  <2> QED
    BY <2>1, <2>5
<1> QED
  BY <1>2, <1>3

\* More gates, more users.
LEMMA UsesMore ==
  ASSUME CircuitOK, NEW c \in Coverings, NEW G \in SUBSET Pins, NEW H \in SUBSET Pins, NEW x \in Pins,
         \A y \in G : y[1] > x[1] => y \in H
  PROVE  Uses(c, G, x) <= Uses(c, H, x)
<1>1. Users(c, G, x) \subseteq Users(c, H, x)
  BY UsersAre DEF Users
<1> QED
  BY <1>1, UsersAre, FS_Subset DEF Uses

\* Only the gates above matter.
LEMMA UsesAbove ==
  ASSUME CircuitOK, NEW c \in Coverings, NEW G \in SUBSET Pins, NEW H \in SUBSET Pins, NEW x \in Pins,
         \A y \in Pins : y[1] > x[1] => (y \in G <=> y \in H)
  PROVE  Uses(c, G, x) = Uses(c, H, x)
<1>1. Users(c, G, x) = Users(c, H, x)
  BY UsersAre DEF Users
<1> QED
  BY <1>1 DEF Uses

LEMMA UsesUnion ==
  ASSUME CircuitOK, NEW c \in Coverings, NEW G \in SUBSET Pins, NEW H \in SUBSET Pins, NEW x \in Pins,
         G \intersect H = {}
  PROVE  Uses(c, G \union H, x) = Uses(c, G, x) + Uses(c, H, x)
<1>1. Users(c, G \union H, x) = Users(c, G, x) \union Users(c, H, x)
  BY DEF Users
<1>2. Users(c, G, x) \intersect Users(c, H, x) = {}
  BY DEF Users
<1>3. Cardinality(Users(c, G, x) \intersect Users(c, H, x)) = 0
  BY <1>2, FS_EmptySet
<1>4. Uses(c, G, x) \in Nat /\ Uses(c, H, x) \in Nat
  BY UsersAre
<1>5. Cardinality(Users(c, G, x) \union Users(c, H, x))
        = Uses(c, G, x) + Uses(c, H, x) - Cardinality(Users(c, G, x) \intersect Users(c, H, x))
  BY UsersAre, FS_Union DEF Uses
<1>6. Uses(c, G \union H, x) = Cardinality(Users(c, G, x) \union Users(c, H, x))
  BY <1>1 DEF Uses
<1> QED
  BY <1>3, <1>4, <1>5, <1>6

\* One gate uses each of its leaves once.
LEMMA UsesOne ==
  ASSUME CircuitOK, NEW c \in Coverings, NEW G \in SUBSET Pins, NEW z \in G, NEW x \in Pins
  PROVE  Uses(c, G, x) = Uses(c, G \ {z}, x) + On(Val(c, z), x)
<1>1. Users(c, G \ {z}, x) = Users(c, G, x) \ {z}
  BY DEF Users
<1>2. Cardinality(Users(c, G, x) \ {z})
        = IF z \in Users(c, G, x) THEN Uses(c, G, x) - 1 ELSE Uses(c, G, x)
  BY UsersAre, FS_RemoveElement DEF Uses
<1>3. z \in Users(c, G, x) <=> x \in Val(c, z).leaves
  BY DEF Users
<1>4. Uses(c, G, x) \in Nat
  BY UsersAre
<1>5. Uses(c, G \ {z}, x) = Cardinality(Users(c, G, x) \ {z})
  BY <1>1 DEF Uses
<1> QED
  BY <1>2, <1>3, <1>4, <1>5 DEF On

\* Coverings that agree on the gates have the same users.
LEMMA UsesSame ==
  ASSUME NEW c, NEW e, NEW G, NEW x, \A y \in G : Val(c, y) = Val(e, y)
  PROVE  Uses(c, G, x) = Uses(e, G, x)
<1>1. Users(c, G, x) = Users(e, G, x)
  BY DEF Users
<1> QED
  BY <1>1 DEF Uses

\* Map_CutRefDeref: the leaves of the match, and of the gates that turn, are counted.
LEMMA RefsAre ==
  ASSUME CircuitOK, NEW c \in Coverings, NEW r \in Counters, NEW m \in Gates, NEW d \in {1, -1}
  PROVE  LET s == CutRefDeref(c, r, m, d)
         IN  /\ s \in Counters
             /\ \A x \in Pins :
                  Val(s, x) = Val(r, x) + Signed(d, On(m, x) + Uses(c, Turned(c, r, s), x))
<1> DEFINE s == CutRefDeref(c, r, m, d)
           Test == TurnTest(c, r)
<1>1. s \in Counters /\ Passed(s, Count(r, m, d), Pins, c, Test, d)
  BY RefDerefPasses
<1> HIDE DEF s
<1>2. ASSUME NEW x \in Pins
      PROVE  Val(s, x) = Val(r, x) + Signed(d, On(m, x) + Uses(c, Turned(c, r, s), x))
  <2>1. Hits(s, Pins, c, Test, x) = Users(c, Turned(c, r, s), x)
    <3>1. ASSUME NEW y \in Pins
          PROVE  Turns(c, r, s, y[1], y[2]) <=> s[y[1]] \in Test[y[1]][y[2]]
      <4>1. s[y[1]] \in [Phases -> Int] /\ y[1] \in Nodes /\ y[2] \in Phases
        BY <1>1, PinIs DEF Counters
      <4> QED
        BY <4>1 DEF Turns, TurnTest, Total
    <3> QED
      BY <3>1 DEF Hits, Users, Turned, Val
  <2>2. Val(s, x) = Val(Count(r, m, d), x) + Signed(d, Uses(c, Turned(c, r, s), x))
    BY <1>1, <2>1 DEF Passed, Val, Uses
  <2>3. Val(Count(r, m, d), x) = IF x \in m.leaves THEN Val(r, x) + d ELSE Val(r, x)
    <3>1. \A y \in Pins : Count(r, m, d)[y[1]][y[2]]
                           = IF y \in m.leaves THEN r[y[1]][y[2]] + d ELSE r[y[1]][y[2]]
      BY Zenon, CountIs
    <3> QED
      BY Zenon, <3>1 DEF Val
  <2>4. Val(r, x) \in Int /\ Uses(c, Turned(c, r, s), x) \in Nat
    BY ValIs, UsersAre DEF Turned
  <2> HIDE DEF Test
  <2> QED
    BY <2>2, <2>3, <2>4 DEF Signed, On
<1> QED
  BY <1>1, <1>2 DEF s

\* The true counters: the leaves of the gates that are built, and the outputs.
LEMMA TrueRefsAre ==
  ASSUME CircuitOK, NEW c \in Coverings
  PROVE  /\ TrueRefs(c) \in Counters
         /\ \A x \in Pins :
              Val(TrueRefs(c), x) = Val(OutputRefs, x) + Uses(c, Used(c, TrueRefs(c)), x)
<1> DEFINE t == TrueRefs(c)
           Test == BuiltTest(c)
<1>1. t \in Counters /\ Passed(t, OutputRefs, Pins, c, Test, 1)
  BY TrueRefsPasses
<1> HIDE DEF t
<1>2. ASSUME NEW x \in Pins
      PROVE  Val(t, x) = Val(OutputRefs, x) + Uses(c, Used(c, t), x)
  <2>1. Hits(t, Pins, c, Test, x) = Users(c, Used(c, t), x)
    <3>1. ASSUME NEW y \in Pins
          PROVE  Built(c, t, y[1], y[2]) <=> t[y[1]] \in Test[y[1]][y[2]]
      <4>1. t[y[1]] \in [Phases -> Int] /\ y[1] \in Nodes /\ y[2] \in Phases
        BY <1>1, PinIs DEF Counters
      <4> QED
        BY <4>1 DEF Built, BuiltTest
    <3> QED
      BY <3>1 DEF Hits, Users, Used, Val
  <2> QED
    BY <1>1, <2>1 DEF Passed, Val, Uses, Signed
<1> QED
  BY <1>1, <1>2 DEF t

\* Map_MappingSetRefs: the leaves of the gate of every phase that is used, and the
\* outputs.
Makers(c, s, x) == {y \in Pins : Val(s, y) > 0 /\ x \in GateFor(c, y[1], y[2]).leaves}

LEMMA SetRefsAre ==
  ASSUME CircuitOK, NEW c \in Coverings
  PROVE  /\ SetRefs(c) \in Counters
         /\ \A x \in Pins :
              Val(SetRefs(c), x) = Val(OutputRefs, x) + Cardinality(Makers(c, SetRefs(c), x))
<1> DEFINE s == SetRefs(c)
<1>1. s \in Counters /\ Passed(s, OutputRefs, Pins, GateMap(c), UsedTest, 1)
  BY SetRefsPasses
<1> HIDE DEF s
<1>2. ASSUME NEW x \in Pins
      PROVE  Val(s, x) = Val(OutputRefs, x) + Cardinality(Makers(c, s, x))
  <2>1. Hits(s, Pins, GateMap(c), UsedTest, x) = Makers(c, s, x)
    <3>1. ASSUME NEW y \in Pins
          PROVE  /\ s[y[1]] \in UsedTest[y[1]][y[2]] <=> Val(s, y) > 0
                 /\ GateMap(c)[y[1]][y[2]] = GateFor(c, y[1], y[2])
      <4>1. s[y[1]] \in [Phases -> Int] /\ y[1] \in Nodes /\ y[2] \in Phases
        BY <1>1, PinIs DEF Counters
      <4> QED
        BY <4>1 DEF UsedTest, GateMap, Val
    <3> QED
      BY <3>1 DEF Hits, Makers
  <2> QED
    BY <1>1, <2>1 DEF Passed, Val, Signed
<1> QED
  BY <1>1, <1>2 DEF s

-----------------------------------------------------------------------------
(* From the outputs down: what holds of a node if it holds of all above.       *)

Closed(K) == \A n \in Nodes : (n + 1)..circuit.last \subseteq K => n \in K

LEMMA TopDown ==
  ASSUME CircuitOK, NEW K, Closed(K)
  PROVE  Nodes \subseteq K
<1> DEFINE J == {i \in Nat : \A n \in Nodes : n > circuit.last - i => n \in K}
<1>1. 0 \in J
  BY DEF Nodes, CircuitOK
<1>2. ASSUME NEW i \in Nat, i \in J PROVE i + 1 \in J
  <2> SUFFICES ASSUME NEW n \in Nodes, n > circuit.last - (i + 1) PROVE n \in K
    OBVIOUS
  <2>1. (n + 1)..circuit.last \subseteq K
    BY <1>2 DEF Nodes, CircuitOK
  <2> QED
    BY <2>1 DEF Closed
<1>3. circuit.last \in J
  <2>1. Nat \subseteq J
    <3> HIDE DEF J
    <3> QED
      BY <1>1, <1>2, NumberInduction
  <2> QED
    BY <2>1 DEF CircuitOK
<1> QED
  BY <1>3 DEF Nodes, CircuitOK

\* The nodes with a value of each pin
Like(r, s) == {n \in Nodes : \A p \in Phases : r[n][p] = s[n][p]}

LEMMA TurnsSame ==
  ASSUME NEW c, NEW r, NEW s, NEW n \in Like(r, s), NEW p \in Phases
  PROVE  ~Turns(c, r, s, n, p)
<1>1. r[n][0] = s[n][0] /\ r[n][1] = s[n][1] /\ r[n][p] = s[n][p]
  BY DEF Like, Phases
<1> QED
  BY <1>1 DEF Turns, Total

LEMMA TurnsLike ==
  ASSUME NEW c, NEW r, NEW s, NEW u, NEW v, NEW n \in Nodes, n \in Like(r, u), n \in Like(s, v),
         NEW p \in Phases
  PROVE  Turns(c, r, s, n, p) <=> Turns(c, u, v, n, p)
<1>1. /\ r[n][0] = u[n][0] /\ r[n][1] = u[n][1] /\ r[n][p] = u[n][p]
      /\ s[n][0] = v[n][0] /\ s[n][1] = v[n][1] /\ s[n][p] = v[n][p]
  BY DEF Like, Phases
<1> QED
  BY <1>1 DEF Turns, Total

LEMMA TurnsBack ==
  ASSUME NEW c, NEW r, NEW s, NEW n, NEW p
  PROVE  Turns(c, r, s, n, p) <=> Turns(c, s, r, n, p)
  BY DEF Turns

\* The pins above one
LEMMA NodesAbove ==
  ASSUME CircuitOK, NEW K, NEW n \in Nodes, (n + 1)..circuit.last \subseteq K, NEW y \in Pins, y[1] > n
  PROVE  y[1] \in K
  BY PinIs DEF Nodes, CircuitOK

\* Nothing changes at the node of the match or above.
LEMMA KeptAbove ==
  ASSUME CircuitOK, NEW c \in Coverings, NEW r \in Counters, NEW m \in Gates, NEW d \in {1, -1},
         NEW n \in Nodes, m.leaves \subseteq Below(n)
  PROVE  LET s == CutRefDeref(c, r, m, d)
         IN  /\ \A x \in Pins : x[1] >= n => Val(s, x) = Val(r, x)
             /\ \A y \in Turned(c, r, s) : y[1] < n
<1> DEFINE s == CutRefDeref(c, r, m, d)
           K == {k \in Nodes : k >= n => k \in Like(s, r)}
<1>1. /\ s \in Counters
      /\ \A x \in Pins : Val(s, x) = Val(r, x) + Signed(d, On(m, x) + Uses(c, Turned(c, r, s), x))
  BY RefsAre
<1> HIDE DEF s
<1>2. ASSUME NEW k \in Nodes, (k + 1)..circuit.last \subseteq K, k >= n, NEW p \in Phases
      PROVE  s[k][p] = r[k][p]
  <2> DEFINE x == <<k, p>>
  <2>1. x \in Pins /\ x[1] = k /\ Val(s, x) = s[k][p] /\ Val(r, x) = r[k][p]
    BY DEF Pins, Val
  <2> HIDE DEF x
  <2>2. \A y \in Pins : y[1] > x[1] => y \notin Turned(c, r, s)
    <3> SUFFICES ASSUME NEW y \in Pins, y[1] > k PROVE ~Turns(c, r, s, y[1], y[2])
      BY <2>1 DEF Turned
    <3>1. y[1] \in K
      BY <1>2, NodesAbove
    <3>2. y[1] \in Nodes /\ y[2] \in Phases /\ y[1] \in Int /\ k \in Int /\ n \in Int
      BY PinIs DEF Nodes, CircuitOK
    <3>3. y[1] >= n
      BY <1>2, <3>2
    <3>4. y[1] \in Like(r, s)
      BY <3>1, <3>3 DEF Like
    <3> QED
      BY <3>2, <3>4, TurnsSame
  <2>3. Uses(c, Turned(c, r, s), x) = Uses(c, {}, x)
    BY <2>1, <2>2, UsesAbove DEF Turned
  <2>4. Uses(c, {}, x) = 0
    BY FS_EmptySet DEF Uses, Users
  <2>5. On(m, x) = 0
    BY <1>2, <2>1 DEF On, Below, Nodes, CircuitOK, x
  <2>6. Val(s, x) = Val(r, x) + Signed(d, 0) /\ Val(r, x) \in Int
    BY <1>1, <2>1, <2>3, <2>4, <2>5, ValIs
  <2> QED
    BY <2>1, <2>6 DEF Signed
<1>3. Closed(K)
  BY <1>2 DEF Closed, Like
<1>4. Nodes \subseteq K
  <2> HIDE DEF K
  <2> QED
    BY <1>3, TopDown
<1>5. ASSUME NEW x \in Pins, x[1] >= n PROVE Val(s, x) = Val(r, x) /\ x \notin Turned(c, r, s)
  <2>1. x[1] \in Nodes /\ x[2] \in Phases
    BY PinIs
  <2>2. x[1] \in Like(s, r)
    BY <1>4, <1>5, <2>1
  <2>3. x[1] \in Like(r, s) /\ Val(s, x) = Val(r, x)
    BY <2>1, <2>2 DEF Like, Val
  <2> QED
    BY <2>1, <2>3, TurnsSame DEF Turned
<1>6. \A y \in Turned(c, r, s) : y \in Pins /\ y[1] \in Int /\ n \in Int
  BY PinIs DEF Turned, Nodes, CircuitOK
<1> QED
  BY <1>5, <1>6 DEF s

\* Map_CutRef and Map_CutDeref undo each other, whatever the counters are.
LEMMA RefDerefBack ==
  ASSUME CircuitOK, NEW c \in Coverings, NEW r \in Counters, NEW m \in Gates,
         NEW d \in {1, -1}, NEW e \in {1, -1}, e # d
  PROVE  CutRefDeref(c, CutRefDeref(c, r, m, d), m, e) = r
<1> DEFINE s == CutRefDeref(c, r, m, d)
           u == CutRefDeref(c, s, m, e)
           K == Like(u, r)
<1>1. /\ s \in Counters
      /\ \A x \in Pins : Val(s, x) = Val(r, x) + Signed(d, On(m, x) + Uses(c, Turned(c, r, s), x))
  BY RefsAre
<1> HIDE DEF s
<1>2. /\ u \in Counters
      /\ \A x \in Pins : Val(u, x) = Val(s, x) + Signed(e, On(m, x) + Uses(c, Turned(c, s, u), x))
  BY <1>1, RefsAre
<1> HIDE DEF u
<1>3. ASSUME NEW k \in Nodes, (k + 1)..circuit.last \subseteq K, NEW p \in Phases
      PROVE  u[k][p] = r[k][p]
  <2> DEFINE x == <<k, p>>
  <2>1. x \in Pins /\ x[1] = k /\ Val(u, x) = u[k][p] /\ Val(r, x) = r[k][p]
    BY DEF Pins, Val
  <2> HIDE DEF x
  <2>2. ASSUME NEW y \in Pins, y[1] > x[1]
        PROVE  y \in Turned(c, s, u) <=> y \in Turned(c, r, s)
    <3>1. y[1] \in K /\ y[1] \in Nodes /\ y[2] \in Phases
      BY <1>3, <2>1, <2>2, NodesAbove, PinIs
    <3>2. y[1] \in Like(u, r) /\ y[1] \in Like(s, s)
      BY <3>1 DEF Like
    <3>3. Turns(c, s, u, y[1], y[2]) <=> Turns(c, s, r, y[1], y[2])
      BY <3>1, <3>2, TurnsLike
    <3> QED
      BY <3>3, TurnsBack DEF Turned
  <2>3. Uses(c, Turned(c, s, u), x) = Uses(c, Turned(c, r, s), x)
    <3>1. Turned(c, s, u) \in SUBSET Pins /\ Turned(c, r, s) \in SUBSET Pins
      BY DEF Turned
    <3> QED
      BY <2>1, <2>2, <3>1, UsesAbove
  <2>4. Uses(c, Turned(c, r, s), x) \in Nat /\ On(m, x) \in Nat /\ Val(r, x) \in Int
    BY <2>1, UsersAre, ValIs DEF Turned, On
  <2>5. /\ Val(u, x) = Val(s, x) + Signed(e, On(m, x) + Uses(c, Turned(c, r, s), x))
        /\ Val(s, x) = Val(r, x) + Signed(d, On(m, x) + Uses(c, Turned(c, r, s), x))
    BY <1>1, <1>2, <2>1, <2>3
  <2> QED
    BY <2>1, <2>4, <2>5 DEF Signed
<1>4. Closed(K)
  BY <1>3 DEF Closed, Like
<1>5. Nodes \subseteq K
  <2> HIDE DEF K
  <2> QED
    BY <1>4, TopDown
<1>6. \A x \in Pins : Val(u, x) = Val(r, x)
  BY <1>5, PinIs DEF Like, Val
<1>7. u = r
  BY <1>2, <1>6, CountersEqual
<1> QED
  BY <1>7 DEF u, s

\* Two coverings that differ in the gate of one pin, which has one in both
OneOther(c, e, z) ==
  /\ \A y \in Pins : y # z => Val(c, y) = Val(e, y)
  /\ Val(c, z) # None /\ Val(e, z) # None

LEMMA SameShape ==
  ASSUME CircuitOK, NEW c, NEW e, NEW z \in Pins, OneOther(c, e, z),
         NEW n \in Nodes, NEW p \in Phases
  PROVE  /\ c[n][p] = None <=> e[n][p] = None
         /\ Both(c, n) <=> Both(e, n)
         /\ \A r : Built(c, r, n, p) <=> Built(e, r, n, p)
         /\ \A r, s : Turns(c, r, s, n, p) <=> Turns(e, r, s, n, p)
<1>1. \A q \in Phases : c[n][q] = None <=> e[n][q] = None
  <2> SUFFICES ASSUME NEW q \in Phases PROVE c[n][q] = None <=> e[n][q] = None
    OBVIOUS
  <2> DEFINE y == <<n, q>>
  <2>1. y \in Pins /\ Val(c, y) = c[n][q] /\ Val(e, y) = e[n][q]
    BY DEF Pins, Val
  <2> HIDE DEF y
  <2> QED
    BY <2>1 DEF OneOther
<1>2. 0 \in Phases /\ 1 \in Phases /\ 1 - p \in Phases
  BY DEF Phases
<1>3. Both(c, n) <=> Both(e, n)
  BY <1>1, <1>2 DEF Both
<1>4. \A r : Built(c, r, n, p) <=> Built(e, r, n, p)
  BY <1>1, <1>2 DEF Built
<1>5. \A r, s : Turns(c, r, s, n, p) <=> Turns(e, r, s, n, p)
  BY <1>1, <1>3 DEF Turns
<1> QED
  BY <1>1, <1>3, <1>4, <1>5

\* Whichever of its gates a pin has, a match below it is referenced in the same way.
LEMMA OtherGate ==
  ASSUME CircuitOK, NEW c \in Coverings, NEW e \in Coverings, NEW z \in Pins, OneOther(c, e, z),
         NEW r \in Counters, NEW m \in Gates, m.leaves \subseteq Below(z[1]), NEW d \in {1, -1}
  PROVE  CutRefDeref(c, r, m, d) = CutRefDeref(e, r, m, d)
<1> DEFINE s == CutRefDeref(c, r, m, d)
           u == CutRefDeref(e, r, m, d)
           K == Like(s, u)
<1>1. /\ s \in Counters
      /\ \A x \in Pins : Val(s, x) = Val(r, x) + Signed(d, On(m, x) + Uses(c, Turned(c, r, s), x))
  BY RefsAre
<1>2. /\ u \in Counters
      /\ \A x \in Pins : Val(u, x) = Val(r, x) + Signed(d, On(m, x) + Uses(e, Turned(e, r, u), x))
  BY RefsAre
<1>3. z \notin Turned(e, r, u)
  <2>1. z[1] \in Nodes /\ ~(z[1] < z[1])
    BY PinIs
  <2>2. \A y \in Turned(e, r, u) : y[1] < z[1]
    BY <2>1, KeptAbove
  <2> HIDE DEF u
  <2> QED
    BY <2>1, <2>2
<1> HIDE DEF s, u
<1>4. ASSUME NEW k \in Nodes, (k + 1)..circuit.last \subseteq K, NEW p \in Phases
      PROVE  s[k][p] = u[k][p]
  <2> DEFINE x == <<k, p>>
  <2>1. x \in Pins /\ x[1] = k /\ Val(s, x) = s[k][p] /\ Val(u, x) = u[k][p]
    BY DEF Pins, Val
  <2> HIDE DEF x
  <2>2. ASSUME NEW y \in Pins, y[1] > x[1]
        PROVE  y \in Turned(c, r, s) <=> y \in Turned(e, r, u)
    <3>1. y[1] \in K /\ y[1] \in Nodes /\ y[2] \in Phases
      BY <1>4, <2>1, <2>2, NodesAbove, PinIs
    <3>2. y[1] \in Like(s, u) /\ y[1] \in Like(r, r)
      BY <3>1 DEF Like
    <3>3. Turns(c, r, s, y[1], y[2]) <=> Turns(c, r, u, y[1], y[2])
      BY <3>1, <3>2, TurnsLike
    <3>4. Turns(c, r, u, y[1], y[2]) <=> Turns(e, r, u, y[1], y[2])
      BY <3>1, SameShape
    <3> QED
      BY <3>3, <3>4 DEF Turned
  <2>3. Uses(c, Turned(c, r, s), x) = Uses(c, Turned(e, r, u), x)
    <3>1. Turned(c, r, s) \in SUBSET Pins /\ Turned(e, r, u) \in SUBSET Pins
      BY DEF Turned
    <3> QED
      BY <2>1, <2>2, <3>1, UsesAbove
  <2>4. Uses(c, Turned(e, r, u), x) = Uses(e, Turned(e, r, u), x)
    <3>1. \A y \in Turned(e, r, u) : Val(c, y) = Val(e, y)
      BY <1>3 DEF OneOther, Turned
    <3> QED
      BY <3>1, UsesSame
  <2> QED
    BY <1>1, <1>2, <2>1, <2>3, <2>4
<1>5. Closed(K)
  BY <1>4 DEF Closed, Like
<1>6. Nodes \subseteq K
  <2> HIDE DEF K
  <2> QED
    BY <1>5, TopDown
<1>7. \A x \in Pins : Val(s, x) = Val(u, x)
  BY <1>6, PinIs DEF Like, Val
<1>8. s = u
  BY <1>1, <1>2, <1>7, CountersEqual
<1> QED
  BY <1>8 DEF s, u

-----------------------------------------------------------------------------
(* Which gates turn. *)

\* Where the counters only rise, the gates that turn are those that come into use.
LEMMA TurnsUp ==
  ASSUME NEW c, NEW r, NEW s, NEW n, NEW p \in Phases,
         \A q \in Phases : r[n][q] \in Nat /\ s[n][q] \in Nat /\ r[n][q] <= s[n][q]
  PROVE  /\ Turns(c, r, s, n, p) <=> Built(c, s, n, p) /\ ~Built(c, r, n, p)
         /\ Built(c, r, n, p) => Built(c, s, n, p)
<1>1. /\ r[n][0] \in Nat /\ s[n][0] \in Nat /\ r[n][0] <= s[n][0]
      /\ r[n][1] \in Nat /\ s[n][1] \in Nat /\ r[n][1] <= s[n][1]
  BY DEF Phases
<1>2. CASE p = 0
  BY <1>1, <1>2 DEF Turns, Built, Both, Total
<1>3. CASE p = 1
  <2>1. 1 - p = 0
    BY <1>3
  <2>2. Built(c, r, n, p) <=> c[n][1] # None /\ (r[n][1] > 0 \/ (c[n][0] = None /\ r[n][0] > 0))
    BY <1>3, <2>1 DEF Built
  <2>3. Built(c, s, n, p) <=> c[n][1] # None /\ (s[n][1] > 0 \/ (c[n][0] = None /\ s[n][0] > 0))
    BY <1>3, <2>1 DEF Built
  <2> DEFINE a == r[n][0]
             b == r[n][1]
             u == s[n][0]
             v == s[n][1]
             none0 == c[n][0] = None
             none1 == c[n][1] = None
  <2>4. Turns(c, r, s, n, p) <=>
          /\ ~none1
          /\ IF ~none0 /\ ~none1 THEN (b = 0) # (v = 0) ELSE (a + b = 0) # (u + v = 0)
    BY <1>3 DEF Turns, Both, Total
  <2>5. a \in Nat /\ b \in Nat /\ u \in Nat /\ v \in Nat /\ a <= u /\ b <= v
    BY <1>1
  <2>6. /\ Built(c, r, n, p) <=> ~none1 /\ (b > 0 \/ (none0 /\ a > 0))
        /\ Built(c, s, n, p) <=> ~none1 /\ (v > 0 \/ (none0 /\ u > 0))
    BY <2>2, <2>3
  <2> HIDE DEF a, b, u, v, none0, none1
  <2> QED
    BY <2>4, <2>5, <2>6
<1> QED
  BY <1>2, <1>3 DEF Phases

NotNegative(r) == \A x \in Pins : Val(r, x) >= 0

\* What a pin is counted too often: more than the outputs and the gates in use need.
Slack(c, r, x) == Val(r, x) - Val(OutputRefs, x) - Uses(c, Used(c, r), x)

LEMMA SlackIs ==
  ASSUME CircuitOK, NEW c \in Coverings, NEW r \in Counters, NEW x \in Pins
  PROVE  /\ Val(r, x) \in Int /\ Val(OutputRefs, x) \in Nat /\ Uses(c, Used(c, r), x) \in Nat
         /\ Slack(c, r, x) \in Int
<1>1. Val(r, x) \in Int /\ Val(OutputRefs, x) \in Int /\ Val(OutputRefs, x) >= 0
  BY ValIs, OutputRefsAre DEF Val
<1>2. Uses(c, Used(c, r), x) \in Nat
  BY UsersAre DEF Used
<1> QED
  BY <1>1, <1>2 DEF Slack

\* The gates in use with the greater counters, and those that turned
LEMMA UsedUp ==
  ASSUME CircuitOK, NEW c \in Coverings, NEW r \in Counters, NEW s \in Counters,
         NotNegative(r), \A x \in Pins : Val(r, x) <= Val(s, x)
  PROVE  /\ Used(c, s) = Used(c, r) \union Turned(c, r, s)
         /\ Used(c, r) \intersect Turned(c, r, s) = {}
         /\ Turned(c, s, r) = Turned(c, r, s)
<1>1. ASSUME NEW y \in Pins
      PROVE  /\ Turns(c, r, s, y[1], y[2]) <=> Built(c, s, y[1], y[2]) /\ ~Built(c, r, y[1], y[2])
             /\ Built(c, r, y[1], y[2]) => Built(c, s, y[1], y[2])
  <2>1. y[1] \in Nodes /\ y[2] \in Phases
    BY PinIs
  <2>2. ASSUME NEW q \in Phases
        PROVE  r[y[1]][q] \in Nat /\ s[y[1]][q] \in Nat /\ r[y[1]][q] <= s[y[1]][q]
    <3> DEFINE x == <<y[1], q>>
    <3>1. x \in Pins /\ Val(r, x) = r[y[1]][q] /\ Val(s, x) = s[y[1]][q]
      BY <2>1 DEF Pins, Val
    <3> HIDE DEF x
    <3>2. Val(r, x) \in Int /\ Val(s, x) \in Int /\ Val(r, x) >= 0 /\ Val(r, x) <= Val(s, x)
      BY <3>1, ValIs DEF NotNegative
    <3> QED
      BY <3>1, <3>2
  <2> QED
    BY <2>1, <2>2, TurnsUp
<1>2. Turned(c, s, r) = Turned(c, r, s)
  BY TurnsBack DEF Turned
<1> QED
  BY <1>1, <1>2 DEF Used, Turned

LEMMA UsesUp ==
  ASSUME CircuitOK, NEW c \in Coverings, NEW r \in Counters, NEW s \in Counters,
         NotNegative(r), \A x \in Pins : Val(r, x) <= Val(s, x), NEW x \in Pins
  PROVE  Uses(c, Used(c, s), x) = Uses(c, Used(c, r), x) + Uses(c, Turned(c, r, s), x)
<1>1. Used(c, r) \in SUBSET Pins /\ Turned(c, r, s) \in SUBSET Pins
  BY DEF Used, Turned
<1> QED
  BY <1>1, UsedUp, UsesUnion

\* A match that is referenced takes up one reference more of each leaf.
LEMMA RefSlack ==
  ASSUME CircuitOK, NEW c \in Coverings, NEW r \in Counters, NEW m \in Gates, NotNegative(r)
  PROVE  LET s == CutRef(c, r, m)
         IN  /\ s \in Counters /\ NotNegative(s)
             /\ \A x \in Pins : /\ Val(r, x) <= Val(s, x)
                                /\ Slack(c, s, x) = Slack(c, r, x) + On(m, x)
<1> DEFINE s == CutRef(c, r, m)
<1>1. /\ s \in Counters
      /\ \A x \in Pins : Val(s, x) = Val(r, x) + Signed(1, On(m, x) + Uses(c, Turned(c, r, s), x))
  BY RefsAre DEF CutRef
<1> HIDE DEF s
<1>2. ASSUME NEW x \in Pins
      PROVE  /\ On(m, x) \in Nat /\ Uses(c, Turned(c, r, s), x) \in Nat
             /\ Val(s, x) = Val(r, x) + On(m, x) + Uses(c, Turned(c, r, s), x)
  <2>1. On(m, x) \in Nat /\ Uses(c, Turned(c, r, s), x) \in Nat /\ Val(r, x) \in Int
    BY UsersAre, ValIs DEF Turned, On
  <2> QED
    BY <1>1, <2>1 DEF Signed
<1>3. \A x \in Pins : Val(r, x) <= Val(s, x)
  BY <1>2, ValIs
<1>4. NotNegative(s)
  BY <1>1, <1>3, ValIs DEF NotNegative
<1>5. ASSUME NEW x \in Pins PROVE Slack(c, s, x) = Slack(c, r, x) + On(m, x)
  <2>1. Uses(c, Used(c, s), x) = Uses(c, Used(c, r), x) + Uses(c, Turned(c, r, s), x)
    BY <1>1, <1>3, UsesUp
  <2> QED
    BY <1>2, <2>1, SlackIs DEF Slack
<1> QED
  BY <1>1, <1>3, <1>4, <1>5 DEF s

\* There is room to dereference the match: it is counted beside the gates in use
\* other than that of the pin it is below.
Room(c, r, m, z) ==
  \A x \in Pins : Val(r, x) >= On(m, x) + Uses(c, Used(c, r) \ {z}, x)

LEMMA DerefDown ==
  ASSUME CircuitOK, NEW c \in Coverings, NEW r \in Counters, NEW m \in Gates, NEW z \in Pins,
         m.leaves \subseteq Below(z[1]), Room(c, r, m, z)
  PROVE  LET s == CutDeref(c, r, m)
         IN  s \in Counters /\ NotNegative(s) /\ \A x \in Pins : Val(s, x) <= Val(r, x)
<1> DEFINE s == CutDeref(c, r, m)
           K == {n \in Nodes : \A p \in Phases : s[n][p] >= 0}
<1>1. /\ s \in Counters
      /\ \A x \in Pins : Val(s, x) = Val(r, x) + Signed(-1, On(m, x) + Uses(c, Turned(c, r, s), x))
  BY RefsAre DEF CutDeref
<1>2. z \notin Turned(c, r, s)
  <2>1. z[1] \in Nodes /\ ~(z[1] < z[1])
    BY PinIs
  <2>2. \A y \in Turned(c, r, s) : y[1] < z[1]
    BY <2>1, KeptAbove DEF CutDeref
  <2> HIDE DEF s
  <2> QED
    BY <2>1, <2>2
<1> HIDE DEF s
<1>3. ASSUME NEW x \in Pins
      PROVE  /\ On(m, x) \in Nat /\ Uses(c, Turned(c, r, s), x) \in Nat
             /\ Val(r, x) \in Int /\ Val(s, x) \in Int
             /\ Val(s, x) = Val(r, x) - On(m, x) - Uses(c, Turned(c, r, s), x)
  <2>1. On(m, x) \in Nat /\ Uses(c, Turned(c, r, s), x) \in Nat /\ Val(r, x) \in Int /\ Val(s, x) \in Int
    BY <1>1, UsersAre, ValIs DEF Turned, On
  <2> QED
    BY <1>1, <2>1 DEF Signed
<1>4. \A x \in Pins : Val(s, x) <= Val(r, x)
  BY <1>3
<1>5. ASSUME NEW k \in Nodes, (k + 1)..circuit.last \subseteq K, NEW p \in Phases
      PROVE  s[k][p] >= 0
  <2> DEFINE x == <<k, p>>
  <2>1. x \in Pins /\ x[1] = k /\ Val(s, x) = s[k][p]
    BY DEF Pins, Val
  <2> HIDE DEF x
  <2>2. ASSUME NEW y \in Pins, y[1] > x[1], y \in Turned(c, r, s)
        PROVE  y \in Used(c, r) \ {z}
    <3>1. y[1] \in K /\ y[1] \in Nodes /\ y[2] \in Phases
      BY <1>5, <2>1, <2>2, NodesAbove, PinIs
    <3>2. ASSUME NEW q \in Phases
          PROVE  s[y[1]][q] \in Nat /\ r[y[1]][q] \in Nat /\ s[y[1]][q] <= r[y[1]][q]
      <4> DEFINE w == <<y[1], q>>
      <4>1. w \in Pins /\ Val(r, w) = r[y[1]][q] /\ Val(s, w) = s[y[1]][q]
        BY <3>1 DEF Pins, Val
      <4> HIDE DEF w
      <4>2. Val(r, w) \in Int /\ Val(s, w) \in Int /\ Val(s, w) <= Val(r, w)
        BY <1>3, <1>4, <4>1
      <4>3. s[y[1]][q] >= 0
        BY <3>1
      <4> QED
        BY <4>1, <4>2, <4>3
    <3>3. Turns(c, s, r, y[1], y[2])
      BY <2>2, TurnsBack DEF Turned
    <3>4. Built(c, r, y[1], y[2])
      BY <3>1, <3>2, <3>3, TurnsUp
    <3> QED
      BY <1>2, <2>2, <3>4 DEF Used
  <2>3. Uses(c, Turned(c, r, s), x) <= Uses(c, Used(c, r) \ {z}, x)
    <3>1. Turned(c, r, s) \in SUBSET Pins /\ (Used(c, r) \ {z}) \in SUBSET Pins
      BY DEF Turned, Used
    <3>2. \A y \in Turned(c, r, s) : y[1] > x[1] => y \in Used(c, r) \ {z}
      BY <2>2 DEF Turned
    <3> QED
      BY <2>1, <3>1, <3>2, UsesMore
  <2>4. Uses(c, Used(c, r) \ {z}, x) \in Nat
    BY <2>1, UsersAre DEF Used
  <2>5. Val(r, x) >= On(m, x) + Uses(c, Used(c, r) \ {z}, x)
    BY <2>1 DEF Room
  <2> QED
    BY <1>3, <2>1, <2>3, <2>4, <2>5
<1>6. Closed(K)
  BY <1>5 DEF Closed
<1>7. Nodes \subseteq K
  <2> HIDE DEF K
  <2> QED
    BY <1>6, TopDown
<1>8. NotNegative(s)
  BY <1>7, PinIs DEF NotNegative, Val
<1> QED
  BY <1>1, <1>4, <1>8 DEF s

\* A match that is dereferenced gives one reference of each leaf back; the gates at
\* its pin and above stay as they are.
LEMMA DerefSlack ==
  ASSUME CircuitOK, NEW c \in Coverings, NEW r \in Counters, NEW m \in Gates, NEW z \in Pins,
         m.leaves \subseteq Below(z[1]), Room(c, r, m, z)
  PROVE  LET s == CutDeref(c, r, m)
         IN  /\ s \in Counters /\ NotNegative(s)
             /\ \A x \in Pins : Val(s, x) <= Val(r, x)
             /\ \A x \in Pins : Slack(c, s, x) = Slack(c, r, x) - On(m, x)
             /\ \A x \in Pins : x[1] >= z[1] => Val(s, x) = Val(r, x)
<1> DEFINE s == CutDeref(c, r, m)
<1>1. /\ s \in Counters
      /\ \A x \in Pins : Val(s, x) = Val(r, x) + Signed(-1, On(m, x) + Uses(c, Turned(c, r, s), x))
  BY RefsAre DEF CutDeref
<1>2. NotNegative(s) /\ \A x \in Pins : Val(s, x) <= Val(r, x)
  BY DerefDown
<1>3. \A x \in Pins : x[1] >= z[1] => Val(s, x) = Val(r, x)
  BY PinIs, KeptAbove DEF CutDeref
<1> HIDE DEF s
<1>4. ASSUME NEW x \in Pins PROVE Slack(c, s, x) = Slack(c, r, x) - On(m, x)
  <2>1. On(m, x) \in Nat /\ Uses(c, Turned(c, r, s), x) \in Nat
    BY UsersAre DEF Turned, On
  <2>2. Val(s, x) = Val(r, x) - On(m, x) - Uses(c, Turned(c, r, s), x)
    BY <1>1, <2>1, ValIs DEF Signed
  <2>3. Uses(c, Used(c, r), x) = Uses(c, Used(c, s), x) + Uses(c, Turned(c, s, r), x)
    BY <1>1, <1>2, UsesUp
  <2>4. Turned(c, s, r) = Turned(c, r, s)
    BY TurnsBack DEF Turned
  <2> QED
    BY <1>1, <2>1, <2>2, <2>3, <2>4, SlackIs DEF Slack
<1> QED
  BY <1>1, <1>2, <1>3, <1>4 DEF s

\* Counters that cover what is needed leave room to dereference a gate in use.
Covers(c, r) == \A x \in Pins : Slack(c, r, x) >= 0

LEMMA CoverRoom ==
  ASSUME CircuitOK, NEW c \in Coverings, NEW r \in Counters, Covers(c, r), NEW z \in Used(c, r)
  PROVE  NotNegative(r) /\ Room(c, r, Val(c, z), z)
<1>1. ASSUME NEW x \in Pins PROVE Val(r, x) >= 0 /\ Val(r, x) >= On(Val(c, z), x) + Uses(c, Used(c, r) \ {z}, x)
  <2>1. Used(c, r) \in SUBSET Pins
    BY DEF Used
  <2>2. Uses(c, Used(c, r), x) = Uses(c, Used(c, r) \ {z}, x) + On(Val(c, z), x)
    BY <2>1, UsesOne
  <2>3. Slack(c, r, x) >= 0
    BY DEF Covers
  <2>4. On(Val(c, z), x) \in Nat /\ Uses(c, Used(c, r) \ {z}, x) \in Nat
    BY <2>1, UsersAre DEF On
  <2> QED
    BY <2>2, <2>3, <2>4, SlackIs DEF Slack
<1> QED
  BY <1>1 DEF NotNegative, Room

LEMMA CoverNotNegative ==
  ASSUME CircuitOK, NEW c \in Coverings, NEW r \in Counters, Covers(c, r)
  PROVE  NotNegative(r)
  BY SlackIs DEF Covers, Slack, NotNegative

-----------------------------------------------------------------------------
(* Replacing and dropping a gate leaves the slack as it is.                    *)

LEMMA BuiltLike ==
  ASSUME NEW c, NEW r, NEW s, NEW n \in Like(r, s), NEW p \in Phases
  PROVE  Built(c, r, n, p) <=> Built(c, s, n, p)
<1>1. r[n][p] = s[n][p] /\ r[n][1 - p] = s[n][1 - p]
  BY DEF Like, Phases
<1> QED
  BY <1>1 DEF Built

\* The gate of a pin, and that it is connected below the pin
LEMMA GateIs ==
  ASSUME CircuitOK, NEW c \in Coverings, NEW z \in Pins
  PROVE  Val(c, z) \in Gates /\ Val(c, z).leaves \subseteq Below(z[1])
<1>1. z[1] \in Nodes /\ z[2] \in Phases
  BY PinIs
<1> QED
  BY <1>1, CoveringConnected DEF Connected, Val

LEMMA LikeAt ==
  ASSUME CircuitOK, NEW r, NEW s, NEW z \in Pins,
         \A x \in Pins : x[1] >= z[1] => Val(s, x) = Val(r, x)
  PROVE  z[1] \in Like(r, s)
<1>1. z[1] \in Nodes /\ z[1] >= z[1]
  BY PinIs
<1>2. ASSUME NEW p \in Phases PROVE r[z[1]][p] = s[z[1]][p]
  <2> DEFINE x == <<z[1], p>>
  <2>1. x \in Pins /\ x[1] = z[1] /\ Val(r, x) = r[z[1]][p] /\ Val(s, x) = s[z[1]][p]
    BY <1>1 DEF Pins, Val
  <2> HIDE DEF x
  <2> QED
    BY <1>1, <2>1
<1> QED
  BY <1>1, <1>2 DEF Like

\* Map_MatchNodePhase takes out the gate of a pin that is used.
LEMMA TakenOut ==
  ASSUME CircuitOK, NEW c \in Coverings, NEW r \in Counters, Covers(c, r), NEW z \in Used(c, r)
  PROVE  LET s == CutDeref(c, r, Val(c, z))
         IN  /\ s \in Counters /\ NotNegative(s)
             /\ \A x \in Pins : Val(s, x) <= Val(r, x)
             /\ \A x \in Pins : Slack(c, s, x) = Slack(c, r, x) - On(Val(c, z), x)
             /\ z[1] \in Like(r, s) /\ z \in Used(c, s)
<1> DEFINE m == Val(c, z)
           s == CutDeref(c, r, m)
<1>1. z \in Pins
  BY DEF Used
<1>2. m \in Gates /\ m.leaves \subseteq Below(z[1])
  BY <1>1, GateIs
<1>3. Room(c, r, m, z)
  BY CoverRoom
<1> HIDE DEF m
<1>4. /\ s \in Counters /\ NotNegative(s)
      /\ \A x \in Pins : Val(s, x) <= Val(r, x)
      /\ \A x \in Pins : Slack(c, s, x) = Slack(c, r, x) - On(m, x)
      /\ \A x \in Pins : x[1] >= z[1] => Val(s, x) = Val(r, x)
  BY <1>1, <1>2, <1>3, DerefSlack
<1> HIDE DEF s
<1>5. z[1] \in Like(r, s)
  BY <1>1, <1>4, LikeAt
<1>6. z \in Used(c, s)
  BY <1>1, <1>5, BuiltLike, PinIs DEF Used
<1> QED
  BY <1>4, <1>5, <1>6 DEF s, m

\* Another gate at a pin
LEMMA OtherSlack ==
  ASSUME CircuitOK, NEW c \in Coverings, NEW e \in Coverings, NEW z \in Pins, OneOther(c, e, z),
         NEW r \in Counters, NEW x \in Pins
  PROVE  /\ Used(e, r) = Used(c, r)
         /\ Slack(e, r, x) = IF z \in Used(c, r)
                             THEN Slack(c, r, x) + On(Val(c, z), x) - On(Val(e, z), x)
                             ELSE Slack(c, r, x)
<1> DEFINE U == Used(c, r)
<1>1. Used(e, r) = U
  <2>1. \A y \in Pins : Built(c, r, y[1], y[2]) <=> Built(e, r, y[1], y[2])
    BY PinIs, SameShape
  <2> QED
    BY <2>1 DEF Used
<1>2. U \in SUBSET Pins
  BY DEF Used
<1>3. CASE z \in U
  <2>1. /\ Uses(c, U, x) = Uses(c, U \ {z}, x) + On(Val(c, z), x)
        /\ Uses(e, U, x) = Uses(e, U \ {z}, x) + On(Val(e, z), x)
    BY <1>2, <1>3, UsesOne
  <2>2. Uses(c, U \ {z}, x) = Uses(e, U \ {z}, x)
    <3>1. \A y \in U \ {z} : Val(c, y) = Val(e, y)
      BY <1>2 DEF OneOther
    <3> QED
      BY <3>1, UsesSame
  <2>3. Uses(c, U \ {z}, x) \in Nat /\ On(Val(c, z), x) \in Nat /\ On(Val(e, z), x) \in Nat
    BY <1>2, UsersAre DEF On
  <2> HIDE DEF U
  <2>4. /\ Slack(c, r, x) = Val(r, x) - Val(OutputRefs, x) - Uses(c, U, x)
        /\ Slack(e, r, x) = Val(r, x) - Val(OutputRefs, x) - Uses(e, U, x)
    BY <1>1 DEF Slack, U
  <2>5. Val(r, x) \in Int /\ Val(OutputRefs, x) \in Int
    BY SlackIs
  <2>6. Slack(e, r, x) = Slack(c, r, x) + On(Val(c, z), x) - On(Val(e, z), x)
    BY <2>1, <2>2, <2>3, <2>4, <2>5
  <2> QED
    BY <1>1, <1>3, <2>6 DEF U
<1>4. CASE z \notin U
  <2>1. \A y \in U : Val(c, y) = Val(e, y)
    BY <1>2, <1>4 DEF OneOther
  <2>2. Uses(c, U, x) = Uses(e, U, x)
    BY <2>1, UsesSame
  <2> QED
    BY <1>1, <1>4, <2>2 DEF Slack
<1> QED
  BY <1>1, <1>3, <1>4

LEMMA ReplaceSlack ==
  ASSUME CircuitOK, NEW c \in Coverings, NEW e \in Coverings, NEW z, OneOther(c, e, z),
         NEW r \in Counters, Covers(c, r), z \in Used(c, r)
  PROVE  LET s == CutDeref(c, r, Val(c, z))
             u == CutRef(e, s, Val(e, z))
         IN  u \in Counters /\ \A x \in Pins : Slack(e, u, x) = Slack(c, r, x)
<1> DEFINE s == CutDeref(c, r, Val(c, z))
           u == CutRef(e, s, Val(e, z))
<1>1. z \in Pins /\ Val(e, z) \in Gates
  BY GateIs DEF Used
<1>2. /\ s \in Counters /\ NotNegative(s) /\ z \in Used(c, s)
      /\ \A x \in Pins : Slack(c, s, x) = Slack(c, r, x) - On(Val(c, z), x)
  BY TakenOut
<1> HIDE DEF s
<1>3. /\ u \in Counters
      /\ \A x \in Pins : Slack(e, u, x) = Slack(e, s, x) + On(Val(e, z), x)
  BY <1>1, <1>2, RefSlack
<1> HIDE DEF u
<1>4. ASSUME NEW x \in Pins PROVE Slack(e, u, x) = Slack(c, r, x)
  <2>1. Slack(e, s, x) = Slack(c, s, x) + On(Val(c, z), x) - On(Val(e, z), x)
    BY <1>1, <1>2, OtherSlack
  <2>2. Slack(c, r, x) \in Int /\ On(Val(c, z), x) \in Int /\ On(Val(e, z), x) \in Int
    BY SlackIs DEF On
  <2> QED
    BY <1>2, <1>3, <2>1, <2>2
<1> QED
  BY <1>3, <1>4 DEF u, s

\* The gate of a pin is given up where both phases are used.
LEMMA DroppedUsed ==
  ASSUME CircuitOK, NEW c \in Coverings, NEW e \in Coverings, NEW z \in Pins,
         \A y \in Pins : y # z => Val(c, y) = Val(e, y), Val(e, z) = None,
         NEW r \in Counters, r[z[1]][0] > 0, r[z[1]][1] > 0, Both(c, z[1])
  PROVE  Used(e, r) = Used(c, r) \ {z} /\ z \in Used(c, r)
<1>z. z[1] \in Nodes /\ z[2] \in {0, 1} /\ 1 - z[2] \in {0, 1} /\ z = <<z[1], z[2]>>
  BY PinIs
<1>1. z \in Used(c, r)
  BY <1>z DEF Used, Built, Both
<1>2. ASSUME NEW y \in Pins, y # z
      PROVE  Built(e, r, y[1], y[2]) <=> Built(c, r, y[1], y[2])
  <2>1. y[1] \in Nodes /\ y[2] \in {0, 1} /\ y = <<y[1], y[2]>> /\ 1 - y[2] \in {0, 1}
    BY PinIs
  <2>2. e[y[1]][y[2]] = c[y[1]][y[2]]
    BY <1>2 DEF Val
  <2>3. CASE y[1] = z[1]
    <3>1. y[2] = 1 - z[2] /\ r[y[1]][y[2]] > 0
      BY <1>z, <1>2, <2>1, <2>3
    <3> QED
      BY <2>2, <3>1 DEF Built
  <2>4. CASE y[1] # z[1]
    <3> DEFINE x == <<y[1], 1 - y[2]>>
    <3>1. x \in Pins /\ x # z /\ Val(c, x) = c[y[1]][1 - y[2]] /\ Val(e, x) = e[y[1]][1 - y[2]]
      BY <2>1, <2>4 DEF Pins, Phases, Val
    <3> HIDE DEF x
    <3>2. e[y[1]][1 - y[2]] = c[y[1]][1 - y[2]]
      BY <3>1
    <3> QED
      BY <2>2, <3>2 DEF Built
  <2> QED
    BY <2>3, <2>4
<1>3. z \notin Used(e, r)
  BY DEF Used, Built, Val
<1> QED
  BY <1>1, <1>2, <1>3 DEF Used

LEMMA DropSlack ==
  ASSUME CircuitOK, NEW c \in Coverings, NEW e \in Coverings, NEW z \in Pins,
         \A y \in Pins : y # z => Val(c, y) = Val(e, y), Val(e, z) = None,
         NEW r \in Counters, Covers(c, r), r[z[1]][0] > 0, r[z[1]][1] > 0, Both(c, z[1])
  PROVE  LET s == CutDeref(c, r, Val(c, z))
         IN  s \in Counters /\ \A x \in Pins : Slack(e, s, x) = Slack(c, r, x)
<1> DEFINE s == CutDeref(c, r, Val(c, z))
<1>1. z \in Used(c, r)
  BY DroppedUsed
<1>2. /\ s \in Counters /\ z \in Used(c, s) /\ z[1] \in Like(r, s)
      /\ \A x \in Pins : Slack(c, s, x) = Slack(c, r, x) - On(Val(c, z), x)
  BY <1>1, TakenOut
<1> HIDE DEF s
<1>3. s[z[1]][0] > 0 /\ s[z[1]][1] > 0
  BY <1>2 DEF Like, Phases
<1>4. Used(e, s) = Used(c, s) \ {z}
  BY <1>2, <1>3, DroppedUsed
<1>5. ASSUME NEW x \in Pins PROVE Slack(e, s, x) = Slack(c, r, x)
  <2> DEFINE U == Used(c, s)
  <2>1. U \in SUBSET Pins /\ z \in U
    BY <1>2 DEF Used
  <2>2. Uses(c, U, x) = Uses(c, U \ {z}, x) + On(Val(c, z), x)
    BY <2>1, UsesOne
  <2>3. Uses(c, U \ {z}, x) = Uses(e, U \ {z}, x)
    <3>1. \A y \in U \ {z} : Val(c, y) = Val(e, y)
      BY <2>1
    <3> QED
      BY <3>1, UsesSame
  <2>4. Uses(c, U \ {z}, x) \in Nat /\ On(Val(c, z), x) \in Nat
    BY <2>1, UsersAre DEF On
  <2>5. /\ Slack(c, s, x) = Val(s, x) - Val(OutputRefs, x) - Uses(c, U, x)
        /\ Slack(e, s, x) = Val(s, x) - Val(OutputRefs, x) - Uses(e, U \ {z}, x)
    BY <1>4 DEF Slack
  <2>6. Val(s, x) \in Int /\ Val(OutputRefs, x) \in Int /\ Slack(c, r, x) \in Int
    BY <1>2, SlackIs
  <2> HIDE DEF U
  <2> QED
    BY <1>2, <2>2, <2>3, <2>4, <2>5, <2>6
<1> QED
  BY <1>2, <1>5 DEF s

-----------------------------------------------------------------------------
(* The true counters, and those that Map_MappingSetRefs finds.                 *)

LEMMA BuiltMore ==
  ASSUME NEW c, NEW r, NEW s, NEW n, NEW p \in Phases,
         \A q \in Phases : r[n][q] \in Int /\ s[n][q] \in Int /\ r[n][q] <= s[n][q],
         Built(c, r, n, p)
  PROVE  Built(c, s, n, p)
<1>1. 1 - p \in Phases
  BY DEF Phases
<1>2. /\ r[n][p] \in Int /\ s[n][p] \in Int /\ r[n][p] <= s[n][p]
      /\ r[n][1 - p] \in Int /\ s[n][1 - p] \in Int /\ r[n][1 - p] <= s[n][1 - p]
  BY <1>1
<1> QED
  BY <1>2 DEF Built

\* True counters have no slack,
LEMMA TrueSlack ==
  ASSUME CircuitOK, NEW c \in Coverings, NEW x \in Pins
  PROVE  Slack(c, TrueRefs(c), x) = 0
<1> DEFINE t == TrueRefs(c)
<1>1. t \in Counters /\ Val(t, x) = Val(OutputRefs, x) + Uses(c, Used(c, t), x)
  BY TrueRefsAre
<1> HIDE DEF t
<1>2. Slack(c, t, x) = 0
  BY <1>1, SlackIs DEF Slack
<1> QED
  BY <1>2 DEF t

\* ... and counters without slack are the true ones.
LEMMA ExactTrue ==
  ASSUME CircuitOK, NEW c \in Coverings, NEW r \in Counters, \A x \in Pins : Slack(c, r, x) = 0
  PROVE  r = TrueRefs(c)
<1> DEFINE t == TrueRefs(c)
           K == Like(r, t)
<1>1. t \in Counters /\ \A x \in Pins : Slack(c, t, x) = 0
  BY TrueRefsAre, TrueSlack
<1> HIDE DEF t
<1>2. ASSUME NEW k \in Nodes, (k + 1)..circuit.last \subseteq K, NEW p \in Phases
      PROVE  r[k][p] = t[k][p]
  <2> DEFINE x == <<k, p>>
  <2>1. x \in Pins /\ x[1] = k /\ Val(r, x) = r[k][p] /\ Val(t, x) = t[k][p]
    BY DEF Pins, Val
  <2> HIDE DEF x
  <2>2. \A y \in Pins : y[1] > x[1] => (y \in Used(c, r) <=> y \in Used(c, t))
    <3> SUFFICES ASSUME NEW y \in Pins, y[1] > x[1]
                 PROVE  Built(c, r, y[1], y[2]) <=> Built(c, t, y[1], y[2])
      BY DEF Used
    <3>1. y[1] \in K /\ y[2] \in Phases
      BY <1>2, <2>1, NodesAbove, PinIs
    <3> QED
      BY <3>1, BuiltLike
  <2>3. Uses(c, Used(c, r), x) = Uses(c, Used(c, t), x)
    <3>1. Used(c, r) \in SUBSET Pins /\ Used(c, t) \in SUBSET Pins
      BY DEF Used
    <3> QED
      BY <2>1, <2>2, <3>1, UsesAbove
  <2>4. Slack(c, r, x) = 0 /\ Slack(c, t, x) = 0
    BY <1>1, <2>1
  <2>5. Val(r, x) \in Int /\ Val(t, x) \in Int /\ Val(OutputRefs, x) \in Int /\ Uses(c, Used(c, r), x) \in Int
    BY <1>1, <2>1, SlackIs
  <2> QED
    BY <2>1, <2>3, <2>4, <2>5 DEF Slack
<1>3. Closed(K)
  BY <1>2 DEF Closed, Like
<1>4. Nodes \subseteq K
  <2> HIDE DEF K
  <2> QED
    BY <1>3, TopDown
<1>5. \A x \in Pins : Val(r, x) = Val(t, x)
  BY <1>4, PinIs DEF Like, Val
<1> QED
  BY <1>1, <1>5, CountersEqual DEF t

\* Counters that cover what they need themselves cover the true ones.
LEMMA CoverTrue ==
  ASSUME CircuitOK, NEW c \in Coverings, NEW r \in Counters, Covers(c, r)
  PROVE  \A x \in Pins : Val(TrueRefs(c), x) <= Val(r, x)
<1> DEFINE t == TrueRefs(c)
           K == {n \in Nodes : \A p \in Phases : t[n][p] <= r[n][p]}
<1>1. t \in Counters /\ \A x \in Pins : Val(t, x) = Val(OutputRefs, x) + Uses(c, Used(c, t), x)
  BY TrueRefsAre
<1> HIDE DEF t
<1>2. ASSUME NEW k \in Nodes, (k + 1)..circuit.last \subseteq K, NEW p \in Phases
      PROVE  t[k][p] <= r[k][p]
  <2> DEFINE x == <<k, p>>
  <2>1. x \in Pins /\ x[1] = k /\ Val(r, x) = r[k][p] /\ Val(t, x) = t[k][p]
    BY DEF Pins, Val
  <2> HIDE DEF x
  <2>2. ASSUME NEW y \in Used(c, t), y[1] > x[1] PROVE y \in Used(c, r)
    <3>1. y \in Pins /\ Built(c, t, y[1], y[2])
      BY DEF Used
    <3>2. y[1] \in K /\ y[2] \in Phases /\ y[1] \in Nodes
      BY <1>2, <2>1, <2>2, <3>1, NodesAbove, PinIs
    <3>3. \A q \in Phases : t[y[1]][q] \in Int /\ r[y[1]][q] \in Int /\ t[y[1]][q] <= r[y[1]][q]
      BY <1>1, <3>2 DEF Counters
    <3>4. Built(c, r, y[1], y[2])
      BY <3>1, <3>2, <3>3, BuiltMore
    <3> QED
      BY <3>1, <3>4 DEF Used
  <2>3. Uses(c, Used(c, t), x) <= Uses(c, Used(c, r), x)
    <3>1. Used(c, r) \in SUBSET Pins /\ Used(c, t) \in SUBSET Pins
      BY DEF Used
    <3> QED
      BY <2>1, <2>2, <3>1, UsesMore
  <2>4. Slack(c, r, x) >= 0
    BY <2>1 DEF Covers
  <2>5. /\ Val(r, x) \in Int /\ Val(t, x) \in Int /\ Val(OutputRefs, x) \in Int
        /\ Uses(c, Used(c, r), x) \in Int /\ Uses(c, Used(c, t), x) \in Int
    BY <1>1, <2>1, SlackIs
  <2> QED
    BY <1>1, <2>1, <2>3, <2>4, <2>5 DEF Slack
<1>3. Closed(K)
  BY <1>2 DEF Closed
<1>4. Nodes \subseteq K
  <2> HIDE DEF K
  <2> QED
    BY <1>3, TopDown
<1>5. \A x \in Pins : Val(t, x) <= Val(r, x)
  BY <1>4, PinIs DEF Val
<1> QED
  BY <1>5 DEF t

\* Every gate in use is the gate of a phase that is used.
LEMMA UsersMade ==
  ASSUME CircuitOK, NEW c \in Coverings, NEW s \in Counters, NEW x \in Pins
  PROVE  Uses(c, Used(c, s), x) <= Cardinality(Makers(c, s, x))
<1> DEFINE U == Users(c, Used(c, s), x)
           W == Makers(c, s, x)
           other(y) == <<y[1], 1 - y[2]>>
           f == [y \in U |-> IF Val(s, y) > 0 THEN y ELSE other(y)]
<1>1. ASSUME NEW y \in U
      PROVE  /\ y \in Pins /\ Val(c, y) # None /\ x \in Val(c, y).leaves
             /\ Val(s, y) > 0 \/ (Val(c, other(y)) = None /\ Val(s, other(y)) > 0)
             /\ other(y) \in Pins /\ other(y) # y
  <2>1. y \in Pins /\ Built(c, s, y[1], y[2]) /\ x \in Val(c, y).leaves
    BY DEF Users, Used
  <2>2. y = <<y[1], y[2]>> /\ y[1] \in Nodes /\ y[2] \in {0, 1}
    BY <2>1, PinIs
  <2> QED
    BY <2>1, <2>2 DEF Built, Val, Pins, Phases
<1>2. ASSUME NEW y \in U PROVE f[y] \in W
  <2>1. CASE Val(s, y) > 0
    <3>1. GateFor(c, y[1], y[2]) = Val(c, y)
      BY <1>1 DEF GateFor, Val
    <3> QED
      BY <1>1, <2>1, <3>1 DEF Makers
  <2>2. CASE ~(Val(s, y) > 0)
    <3>1. y[2] \in {0, 1}
      BY <1>1, PinIs
    <3>2. other(y)[1] = y[1] /\ other(y)[2] = 1 - y[2] /\ 1 - (1 - y[2]) = y[2]
      BY <3>1
    <3>3. Val(c, other(y)) = None
      BY <1>1, <2>2
    <3>4. c[y[1]][1 - y[2]] = None
      BY <3>2, <3>3 DEF Val
    <3>5. GateFor(c, other(y)[1], other(y)[2]) = Val(c, y)
      BY <3>2, <3>4 DEF GateFor, Val
    <3> QED
      BY <1>1, <2>2, <3>5 DEF Makers
  <2> QED
    BY <2>1, <2>2
<1>3. ASSUME NEW y \in U, NEW w \in U, f[y] = f[w] PROVE y = w
  <2>1. /\ y = <<y[1], y[2]>> /\ w = <<w[1], w[2]>> /\ y[2] \in {0, 1} /\ w[2] \in {0, 1}
    BY <1>1, PinIs
  <2>2. CASE Val(s, y) > 0 /\ Val(s, w) > 0
    BY <1>3, <2>2
  <2>3. CASE Val(s, y) > 0 /\ ~(Val(s, w) > 0)
    BY <1>1, <1>3, <2>3
  <2>4. CASE ~(Val(s, y) > 0) /\ Val(s, w) > 0
    BY <1>1, <1>3, <2>4
  <2>5. CASE ~(Val(s, y) > 0) /\ ~(Val(s, w) > 0)
    BY <1>3, <2>1, <2>5
  <2> QED
    BY <2>2, <2>3, <2>4, <2>5
<1>4. f \in Injection(U, W)
  BY <1>2, <1>3 DEF Injection, IsInjective
<1>5. IsFiniteSet(W)
  <2>1. W \in SUBSET Pins
    BY DEF Makers
  <2> HIDE DEF W
  <2> QED
    BY <2>1, PinsFinite, FS_Subset
<1>6. Cardinality(U) <= Cardinality(W)
  <2> HIDE DEF U, W, f
  <2> QED
    BY <1>4, <1>5, FS_Injection
<1> QED
  BY <1>6 DEF Uses

LEMMA SetRefsCover ==
  ASSUME CircuitOK, NEW c \in Coverings
  PROVE  SetRefs(c) \in Counters /\ Covers(c, SetRefs(c))
<1> DEFINE s == SetRefs(c)
<1>1. /\ s \in Counters
      /\ \A x \in Pins : Val(s, x) = Val(OutputRefs, x) + Cardinality(Makers(c, s, x))
  BY SetRefsAre
<1> HIDE DEF s
<1>2. ASSUME NEW x \in Pins PROVE Slack(c, s, x) >= 0
  <2>1. Uses(c, Used(c, s), x) <= Cardinality(Makers(c, s, x))
    BY <1>1, UsersMade
  <2>2. Makers(c, s, x) \in SUBSET Pins
    BY DEF Makers
  <2>3. Cardinality(Makers(c, s, x)) \in Nat
    BY <2>2, PinsFinite, FS_Subset, FS_CardinalityType
  <2> QED
    BY <1>1, <2>1, <2>3, SlackIs DEF Slack
<1> QED
  BY <1>1, <1>2 DEF Covers, s

-----------------------------------------------------------------------------
(* The invariant of the passes.                                             *)

MapperTypeOK ==
  /\ circuit \in Circuits
  /\ mpc \in {"match", "refs", "counted", "failed", "done"}
  /\ fMappingMode \in 0..3 /\ trial \in 0..nTrials
  /\ node \in Ands /\ step \in 0..2
  /\ pCutBest \in Coverings /\ nRefAct \in Counters

\* The trial runs are over when the second pass begins.
TrialInv == fMappingMode > 0 => trial = nTrials

\* Counters in use have no pin counted too seldom, and true ones none too often.
CoverInv == Maintained => Covers(pCutBest, nRefAct)

NoSlack(c, r) == \A x \in Pins : Slack(c, r, x) = 0
ExactInv == exact /\ Maintained => NoSlack(pCutBest, nRefAct)

MapInv == MapperTypeOK /\ TrialInv /\ CoverInv /\ ExactInv

\* What the assumption on the constants says of the circuit that is mapped
LEMMA CircuitIs ==
  ASSUME circuit \in Circuits
  PROVE  /\ CircuitOK /\ nTrials \in Nat /\ AreaInv \in Nat
         /\ \A n \in Ands, p \in Phases : Matches(n, p) \subseteq GatesBelow(n)
         /\ Ands \subseteq Nodes
<1>1. CircuitOK /\ nTrials \in Nat /\ AreaInv \in Nat
  BY MapperConstants DEF CircuitOK, Pins, Nodes
<1>2. Ands \subseteq Nodes
  BY <1>1 DEF CircuitOK, Ands, Nodes
<1>3. ASSUME NEW n \in Ands, NEW p \in Phases, NEW m \in Matches(n, p) PROVE m \in GatesBelow(n)
  <2>1. m \in [leaves : SUBSET Below(n), area : Nat]
    BY <1>3, MapperConstants DEF Ands, Matches, Below
  <2>2. Below(n) \subseteq Pins
    BY <1>1, <1>2 DEF Below, Pins, Nodes, CircuitOK, Ands
  <2> QED
    BY <2>1, <2>2 DEF GatesBelow, Gates
<1> QED
  BY <1>1, <1>2, <1>3

\* A step maps the same circuit.
LEMMA SameCircuit ==
  ASSUME circuit' = circuit
  PROVE  /\ Nodes' = Nodes /\ Ands' = Ands /\ Pins' = Pins /\ OutputRefs' = OutputRefs
         /\ Coverings' = Coverings /\ Counters' = Counters
<1>1. Nodes' = Nodes /\ Ands' = Ands
  BY DEF Nodes, Ands
<1>2. Pins' = Pins
  BY <1>1 DEF Pins
<1>3. OutputRefs' = OutputRefs
  BY <1>1 DEF OutputRefs
<1>4. Gates' = Gates
  BY <1>2 DEF Gates
<1>5. Coverings' = Coverings
  BY <1>1, <1>4 DEF Coverings, GatesBelow
<1> QED
  BY <1>1, <1>2, <1>3, <1>5 DEF Counters

LEMMA SameSlack ==
  ASSUME circuit' = circuit, NEW c, NEW r, pCutBest' = c, nRefAct' = r
  PROVE  /\ Covers(pCutBest, nRefAct)' <=> Covers(c, r)
         /\ NoSlack(pCutBest, nRefAct)' <=> NoSlack(c, r)
<1>1. Pins' = Pins /\ OutputRefs' = OutputRefs
  BY SameCircuit
<1>2. Used(pCutBest, nRefAct)' = Used(c, r)
  BY <1>1 DEF Used, Built
<1> QED
  BY <1>1, <1>2 DEF Covers, NoSlack, Slack, Uses, Users, Val

\* The covering with another match for a phase
Put(c, n, p, m) == [c EXCEPT ![n][p] = m]

LEMMA CutChanges ==
  ASSUME CircuitOK, NEW c \in Coverings, NEW n \in Nodes, NEW p \in Phases,
         NEW m, m = None \/ m \in GatesBelow(n),
         NEW e, e = Put(c, n, p, m), NEW z, z = <<n, p>>
  PROVE  /\ e \in Coverings /\ z \in Pins /\ Val(e, z) = m /\ Val(c, z) = c[n][p]
         /\ \A y \in Pins : y # z => Val(c, y) = Val(e, y)
<1>1. c \in [Nodes -> [Phases -> Gates]]
  BY DEF Coverings
<1>2. m \in Gates
  BY DEF None, Gates, GatesBelow
<1>3. e \in [Nodes -> [Phases -> Gates]]
  BY <1>1, <1>2 DEF Put
<1>4. ASSUME NEW k \in Nodes, NEW q \in Phases
      PROVE  e[k][q] = IF k = n /\ q = p THEN m ELSE c[k][q]
  BY <1>1, <1>4 DEF Put
<1>5. ASSUME NEW k \in Nodes, NEW q \in Phases PROVE e[k][q] = None \/ e[k][q] \in GatesBelow(k)
  BY <1>4, <1>5 DEF Coverings
<1>6. e \in Coverings
  BY <1>3, <1>5 DEF Coverings
<1>7. z \in Pins /\ z[1] = n /\ z[2] = p
  BY DEF Pins
<1>8. Val(e, z) = m /\ Val(c, z) = c[n][p]
  BY <1>4, <1>7 DEF Val
<1>9. ASSUME NEW y \in Pins, y # z PROVE Val(c, y) = Val(e, y)
  <2>1. y = <<y[1], y[2]>> /\ y[1] \in Nodes /\ y[2] \in Phases
    BY PinIs
  <2>2. ~(y[1] = n /\ y[2] = p)
    BY <1>9, <2>1
  <2> QED
    BY <1>4, <2>1, <2>2 DEF Val
<1> QED
  BY <1>6, <1>7, <1>8, <1>9

LEMMA NothingMapped ==
  ASSUME CircuitOK PROVE NoCuts \in Coverings /\ NoRefs \in Counters
<1>1. NoRefs \in Counters
  BY DEF NoRefs, Counters
<1>2. NoCuts \in Coverings
  <2>1. None \in Gates /\ \A n \in Nodes : Elementary \in GatesBelow(n)
    BY DEF None, Elementary, Gates, GatesBelow
  <2>2. Elementary \in Gates
    BY DEF Elementary, Gates
  <2>3. NoCuts \in [Nodes -> [Phases -> Gates]]
    BY <2>1, <2>2 DEF NoCuts
  <2>4. ASSUME NEW n \in Nodes, NEW p \in Phases
        PROVE  NoCuts[n][p] = None \/ NoCuts[n][p] \in GatesBelow(n)
    BY <2>1 DEF NoCuts
  <2> QED
    BY <2>3, <2>4 DEF Coverings
<1> QED
  BY <1>1, <1>2

LEMMA MapInitially ==
  ASSUME Init PROVE MapInv
<1>1. /\ CircuitOK /\ nTrials \in Nat
      /\ Ands \subseteq Nodes
  BY CircuitIs DEF Init
<1>2. node \in Ands
  BY <1>1 DEF Init, Ands, CircuitOK
<1>3. NoCuts \in Coverings /\ NoRefs \in Counters
  BY <1>1, NothingMapped
<1>4. MapperTypeOK
  BY <1>1, <1>2, <1>3 DEF Init, MapperTypeOK
<1>5. TrialInv /\ ~Maintained
  BY DEF Init, TrialInv, Maintained
<1> QED
  BY <1>4, <1>5 DEF MapInv, CoverInv, ExactInv

LEMMA MatchByFlowKeeps ==
  ASSUME MapInv, MatchByFlow PROVE MapInv'
<1>1. /\ CircuitOK /\ MapperTypeOK
      /\ \A n \in Ands, p \in Phases : Matches(n, p) \subseteq GatesBelow(n)
      /\ Ands \subseteq Nodes
  BY CircuitIs DEF MapInv, MapperTypeOK
<1>2. PICK m \in Matches(node, step) \union {None} : pCutBest' = [pCutBest EXCEPT ![node][step] = m]
  BY DEF MatchByFlow
<1>3. pCutBest' \in Coverings
  <2>1. node \in Ands /\ node \in Nodes /\ step \in Phases /\ pCutBest \in Coverings
    BY <1>1 DEF MatchByFlow, MapperTypeOK
  <2>2. m = None \/ m \in GatesBelow(node)
    BY <1>1, <1>2, <2>1
  <2> QED
    BY <1>1, <1>2, <2>1, <2>2, CutChanges DEF Put
<1>4. circuit' = circuit /\ step' \in 0..2
  BY DEF MatchByFlow, Phases
<1>5. MapperTypeOK'
  BY <1>1, <1>3, <1>4, SameCircuit DEF MatchByFlow, MapperTypeOK
<1>6. TrialInv' /\ ~Maintained'
  BY DEF MatchByFlow, MapInv, TrialInv, Maintained
<1> QED
  BY <1>5, <1>6 DEF MapInv, CoverInv, ExactInv

\* What the code takes to be a gate in use is one.
LEMMA InUseIs ==
  ASSUME NEW n, NEW p, <<n, p>> \in Pins, pCutBest[n][p] # None
  PROVE  InUse(n, p) <=> <<n, p>> \in Used(pCutBest, nRefAct)
<1> DEFINE z == <<n, p>>
<1>1. z[1] = n /\ z[2] = p
  OBVIOUS
<1>2. Built(pCutBest, nRefAct, n, p) <=> InUse(n, p)
  BY DEF Built, InUse
<1> QED
  BY <1>1, <1>2 DEF Used

\* Replacing a gate changes no slack.
LEMMA MatchSlack ==
  ASSUME CircuitOK, pCutBest \in Coverings, nRefAct \in Counters, Covers(pCutBest, nRefAct),
         NEW n \in Nodes, NEW p \in Phases, pCutBest[n][p] # None, NEW m \in GatesBelow(n),
         NEW e, e = Put(pCutBest, n, p, m)
  PROVE  LET r == IF InUse(n, p) THEN CutRef(e, Without(n, p), m) ELSE Without(n, p)
         IN  /\ e \in Coverings /\ r \in Counters
             /\ \A x \in Pins : Slack(e, r, x) = Slack(pCutBest, nRefAct, x)
<1> DEFINE z == <<n, p>>
<1>1. m # None
  BY DEF None, GatesBelow
<1>7. z = <<n, p>>
  OBVIOUS
<1> HIDE DEF z
<1>2. /\ e \in Coverings /\ z \in Pins /\ Val(e, z) = m /\ Val(pCutBest, z) = pCutBest[n][p]
      /\ \A y \in Pins : y # z => Val(pCutBest, y) = Val(e, y)
  BY <1>7, CutChanges
<1>3. InUse(n, p) <=> z \in Used(pCutBest, nRefAct)
  BY <1>2, <1>7, InUseIs
<1>4. OneOther(pCutBest, e, z)
  BY <1>1, <1>2 DEF OneOther
<1>5. CASE InUse(n, p)
  <2> DEFINE s == CutDeref(pCutBest, nRefAct, Val(pCutBest, z))
             u == CutRef(e, s, Val(e, z))
  <2>1. u \in Counters /\ \A x \in Pins : Slack(e, u, x) = Slack(pCutBest, nRefAct, x)
    BY <1>2, <1>3, <1>4, <1>5, ReplaceSlack
  <2>2. Without(n, p) = s
    BY <1>2, <1>5 DEF Without
  <2> HIDE DEF s
  <2> QED
    BY <1>2, <1>5, <2>1, <2>2
<1>6. CASE ~InUse(n, p)
  <2>1. \A x \in Pins : Slack(e, nRefAct, x) = Slack(pCutBest, nRefAct, x)
    BY <1>2, <1>3, <1>4, <1>6, OtherSlack
  <2>2. Without(n, p) = nRefAct
    BY <1>6 DEF Without
  <2> QED
    BY <1>2, <1>6, <2>1, <2>2
<1> QED
  BY <1>5, <1>6

LEMMA MatchByAreaKeeps ==
  ASSUME MapInv, MatchByArea PROVE MapInv'
<1>1. /\ CircuitOK /\ MapperTypeOK
      /\ \A n \in Ands, p \in Phases : Matches(n, p) \subseteq GatesBelow(n)
      /\ Ands \subseteq Nodes
  BY CircuitIs DEF MapInv, MapperTypeOK
<1>2. /\ node \in Nodes /\ node \in Ands /\ step \in Phases /\ pCutBest \in Coverings
      /\ nRefAct \in Counters
  BY <1>1 DEF MatchByArea, MapperTypeOK
<1>3. Maintained /\ Maintained' /\ exact' = exact
  BY DEF MatchByArea, Maintained
<1>4. Covers(pCutBest, nRefAct)
  BY <1>3 DEF MapInv, CoverInv
<1>5. /\ pCutBest' \in Coverings /\ nRefAct' \in Counters
      /\ \A x \in Pins : Slack(pCutBest', nRefAct', x) = Slack(pCutBest, nRefAct, x)
  <2>1. CASE pCutBest[node][step] = None
    BY <1>2, <2>1 DEF MatchByArea
  <2>2. CASE pCutBest[node][step] # None
    <3> DEFINE r == Without(node, step)
    <3>1. PICK m \in Matches(node, step) :
            /\ pCutBest' = [pCutBest EXCEPT ![node][step] = m]
            /\ nRefAct' = IF InUse(node, step) THEN CutRef(pCutBest', r, m) ELSE r
      BY <2>2 DEF MatchByArea
    <3>2. m \in GatesBelow(node)
      BY <1>1, <1>2, <3>1
    <3> HIDE DEF r
    <3> DEFINE e == [pCutBest EXCEPT ![node][step] = m]
               s == IF InUse(node, step) THEN CutRef(e, r, m) ELSE r
    <3>5. e = Put(pCutBest, node, step, m)
      BY DEF Put
    <3>4. pCutBest' = e /\ nRefAct' = s
      BY <3>1
    <3>6. s = IF InUse(node, step) THEN CutRef(e, Without(node, step), m) ELSE Without(node, step)
      BY DEF r
    <3> HIDE DEF e, s
    <3>7. node \in Nodes /\ step \in Phases /\ CircuitOK /\ pCutBest \in Coverings
      BY <1>1, <1>2
    <3>3. /\ e \in Coverings /\ s \in Counters
          /\ \A x \in Pins : Slack(e, s, x) = Slack(pCutBest, nRefAct, x)
      BY <1>2, <1>4, <2>2, <3>2, <3>5, <3>6, <3>7, MatchSlack
    <3> QED
      BY <3>3, <3>4
  <2> QED
    BY <2>1, <2>2
<1>6. circuit' = circuit /\ step' \in 0..2
  BY DEF MatchByArea, Phases
<1>7. MapperTypeOK'
  BY <1>1, <1>5, <1>6, SameCircuit DEF MatchByArea, MapperTypeOK
<1>8. TrialInv'
  BY DEF MatchByArea, MapInv, TrialInv
<1>9. CoverInv'
  <2>1. Covers(pCutBest', nRefAct')
    BY <1>4, <1>5 DEF Covers
  <2> QED
    BY <1>6, <2>1, SameSlack DEF CoverInv
<1>10. ExactInv'
  <2>1. exact => NoSlack(pCutBest', nRefAct')
    BY <1>3, <1>5 DEF NoSlack, MapInv, ExactInv
  <2> QED
    BY <1>3, <1>6, <2>1, SameSlack DEF ExactInv
<1> QED
  BY <1>7, <1>8, <1>9, <1>10 DEF MapInv

LEMMA NoMatchKeeps ==
  ASSUME MapInv, NoMatch PROVE MapInv'
<1>1. circuit' = circuit /\ ~Maintained'
  BY DEF NoMatch, Maintained
<1>2. MapperTypeOK'
  BY <1>1, SameCircuit DEF NoMatch, MapInv, MapperTypeOK
<1> QED
  BY <1>1, <1>2 DEF NoMatch, MapInv, TrialInv, CoverInv, ExactInv

\* Dropping the gate of a phase in an exact pass changes no slack.
LEMMA DropKeepsSlack ==
  ASSUME CircuitOK, pCutBest \in Coverings, nRefAct \in Counters, Covers(pCutBest, nRefAct),
         node \in Nodes, NEW p \in Phases, DropPhase(p), fMappingMode # 0
  PROVE  /\ nRefAct' \in Counters
         /\ \A x \in Pins : Slack(pCutBest', nRefAct', x) = Slack(pCutBest, nRefAct, x)
<1>1. /\ nRefAct[node][0] > 0 /\ nRefAct[node][1] > 0 /\ Both(pCutBest, node)
      /\ nRefAct' = CutDeref(pCutBest, nRefAct, pCutBest[node][p])
      /\ pCutBest' = Put(pCutBest, node, p, None)
  BY DEF DropPhase, Put
<1>2. ASSUME NEW e, e = Put(pCutBest, node, p, None), NEW s, s = nRefAct', NEW z, z = <<node, p>>
      PROVE  s \in Counters /\ \A x \in Pins : Slack(e, s, x) = Slack(pCutBest, nRefAct, x)
  <2>1. /\ e \in Coverings /\ z \in Pins /\ Val(e, z) = None
        /\ Val(pCutBest, z) = pCutBest[node][p]
        /\ \A y \in Pins : y # z => Val(pCutBest, y) = Val(e, y)
    BY <1>2, CutChanges
  <2>2. z[1] = node
    BY <1>2
  <2>3. /\ CutDeref(pCutBest, nRefAct, Val(pCutBest, z)) \in Counters
        /\ \A x \in Pins : Slack(e, CutDeref(pCutBest, nRefAct, Val(pCutBest, z)), x)
                             = Slack(pCutBest, nRefAct, x)
    BY <1>1, <2>1, <2>2, DropSlack
  <2>4. CutDeref(pCutBest, nRefAct, Val(pCutBest, z)) = s
    BY <1>1, <1>2, <2>1
  <2> QED
    BY <2>3, <2>4
<1> QED
  BY <1>1, <1>2

LEMMA TryDroppingKeeps ==
  ASSUME MapInv, TryDroppingOnePhase PROVE MapInv'
<1>1. /\ CircuitOK /\ MapperTypeOK /\ Ands \subseteq Nodes
  BY CircuitIs DEF MapInv, MapperTypeOK
<1>2. node \in Nodes /\ pCutBest \in Coverings /\ nRefAct \in Counters
  BY <1>1 DEF MapperTypeOK
<1>3. circuit' = circuit /\ exact' = exact /\ (Maintained' => Maintained /\ fMappingMode # 0)
  BY DEF TryDroppingOnePhase, Maintained
<1>4. pCutBest' \in Coverings
  <2>1. ASSUME NEW p \in Phases, DropPhase(p) PROVE pCutBest' \in Coverings
    <3>1. pCutBest' = Put(pCutBest, node, p, None)
      BY <2>1 DEF DropPhase, Put
    <3>2. ASSUME NEW e, e = Put(pCutBest, node, p, None) PROVE e \in Coverings
      BY <1>1, <1>2, <3>2, CutChanges
    <3> QED
      BY <3>1, <3>2
  <2> QED
    BY <1>2, <2>1 DEF TryDroppingOnePhase
<1>5. ASSUME Maintained, fMappingMode # 0
      PROVE  /\ nRefAct' \in Counters
             /\ \A x \in Pins : Slack(pCutBest', nRefAct', x) = Slack(pCutBest, nRefAct, x)
  <2>1. Covers(pCutBest, nRefAct)
    BY <1>5 DEF MapInv, CoverInv
  <2>2. ASSUME NEW p \in Phases, DropPhase(p)
        PROVE  /\ nRefAct' \in Counters
               /\ \A x \in Pins : Slack(pCutBest', nRefAct', x) = Slack(pCutBest, nRefAct, x)
    BY <1>1, <1>2, <1>5, <2>1, <2>2, DropKeepsSlack
  <2>3. CASE UNCHANGED <<pCutBest, nRefAct>>
    BY <1>2, <2>3
  <2> QED
    BY <2>2, <2>3 DEF TryDroppingOnePhase
<1>6. nRefAct' \in Counters
  <2>1. CASE fMappingMode \in {2, 3}
    <3>1. Maintained /\ fMappingMode # 0
      BY <2>1 DEF TryDroppingOnePhase, Maintained
    <3> QED
      BY <1>5, <3>1
  <2>2. CASE fMappingMode \notin {2, 3}
    <3>1. ASSUME NEW p \in Phases, DropPhase(p) PROVE nRefAct' = nRefAct
      BY <2>2, <3>1 DEF DropPhase
    <3>2. nRefAct' = nRefAct
      BY <3>1 DEF TryDroppingOnePhase
    <3> QED
      BY <1>2, <3>2
  <2> QED
    BY <2>1, <2>2
<1>7. MapperTypeOK'
  <2>1. node' \in Ands
    BY <1>1 DEF TryDroppingOnePhase, MapperTypeOK, Ands, CircuitOK
  <2>2. step' \in 0..2 /\ mpc' \in {"match", "refs"}
    BY DEF TryDroppingOnePhase
  <2> QED
    BY <1>1, <1>3, <1>4, <1>6, <2>1, <2>2, SameCircuit DEF TryDroppingOnePhase, MapperTypeOK
<1>8. TrialInv'
  BY DEF TryDroppingOnePhase, MapInv, TrialInv
<1>9. CoverInv'
  <2>1. Maintained' => Covers(pCutBest', nRefAct')
    BY <1>3, <1>5 DEF MapInv, CoverInv, Covers
  <2> QED
    BY <1>3, <2>1, SameSlack DEF CoverInv
<1>10. ExactInv'
  <2>1. exact /\ Maintained' => NoSlack(pCutBest', nRefAct')
    BY <1>3, <1>5 DEF MapInv, ExactInv, NoSlack
  <2> QED
    BY <1>3, <2>1, SameSlack DEF ExactInv
<1> QED
  BY <1>7, <1>8, <1>9, <1>10 DEF MapInv

LEMMA CountRefsKeeps ==
  ASSUME MapInv, CountRefs PROVE MapInv'
<1>1. /\ CircuitOK /\ MapperTypeOK
  BY CircuitIs DEF MapInv, MapperTypeOK
<1>2. circuit' = circuit /\ pCutBest' = pCutBest /\ nRefAct' = SetRefs(pCutBest)
  BY DEF CountRefs
<1>3. nRefAct' \in Counters /\ Covers(pCutBest', nRefAct')
  <2>1. SetRefs(pCutBest) \in Counters /\ Covers(pCutBest, SetRefs(pCutBest))
    BY <1>1, SetRefsCover DEF MapperTypeOK
  <2> QED
    BY <1>2, <2>1
<1>4. exact' => NoSlack(pCutBest', nRefAct')
  <2>1. NoSlack(pCutBest, TrueRefs(pCutBest))
    BY <1>1, TrueSlack DEF NoSlack, MapperTypeOK
  <2>2. exact' => nRefAct' = TrueRefs(pCutBest)
    BY DEF CountRefs
  <2> QED
    BY <1>2, <2>1, <2>2
<1>5. MapperTypeOK'
  BY <1>1, <1>2, <1>3, SameCircuit DEF CountRefs, MapperTypeOK
<1>6. TrialInv'
  BY DEF CountRefs, MapInv, TrialInv
<1>7. CoverInv' /\ ExactInv'
  BY <1>2, <1>3, <1>4, SameSlack DEF CoverInv, ExactInv
<1> QED
  BY <1>5, <1>6, <1>7 DEF MapInv

LEMMA CleanMatchesKeeps ==
  ASSUME MapInv, CleanMatches PROVE MapInv'
<1>1. /\ CircuitOK /\ MapperTypeOK /\ nTrials \in Nat
  BY CircuitIs DEF MapInv, MapperTypeOK
<1>2. circuit' = circuit /\ fMappingMode' = fMappingMode
  BY DEF CleanMatches
<1>3. fMappingMode = 0
  BY <1>1 DEF CleanMatches, MapInv, TrialInv, MapperTypeOK
<1>4. MapperTypeOK'
  <2>1. NoCuts \in Coverings /\ NoRefs \in Counters
    BY <1>1, NothingMapped
  <2>2. trial' \in 0..nTrials
    BY <1>1 DEF CleanMatches, MapperTypeOK
  <2> QED
    BY <1>1, <1>2, <2>1, <2>2, SameCircuit DEF CleanMatches, MapperTypeOK
<1>5. ~Maintained'
  BY <1>2, <1>3 DEF CleanMatches, Maintained
<1> QED
  BY <1>2, <1>3, <1>4, <1>5 DEF MapInv, TrialInv, CoverInv, ExactInv

LEMMA NextPassKeeps ==
  ASSUME MapInv, NextPass PROVE MapInv'
<1>1. /\ CircuitOK /\ MapperTypeOK
  BY CircuitIs DEF MapInv, MapperTypeOK
<1>2. circuit' = circuit /\ pCutBest' = pCutBest /\ nRefAct' = nRefAct /\ exact' = exact
  BY DEF NextPass
<1>3. Maintained
  BY DEF NextPass, Maintained
<1>4. MapperTypeOK'
  BY <1>1, <1>2, SameCircuit DEF NextPass, MapperTypeOK
<1>5. TrialInv'
  BY DEF NextPass, TrialInv
<1>6. Covers(pCutBest', nRefAct') /\ (exact => NoSlack(pCutBest', nRefAct'))
  BY <1>2, <1>3 DEF MapInv, CoverInv, ExactInv
<1>7. CoverInv' /\ ExactInv'
  BY <1>2, <1>6, SameSlack DEF CoverInv, ExactInv
<1> QED
  BY <1>4, <1>5, <1>7 DEF MapInv

LEMMA MapSteps ==
  ASSUME MapInv, [Next]_vars PROVE MapInv'
<1>1. CASE UNCHANGED vars
  <2>1. circuit' = circuit /\ pCutBest' = pCutBest /\ nRefAct' = nRefAct
    BY <1>1 DEF vars
  <2>2. MapperTypeOK' /\ TrialInv'
    BY <1>1, <2>1, SameCircuit DEF vars, MapInv, MapperTypeOK, TrialInv
  <2>3. Maintained' = Maintained /\ exact' = exact
    BY <1>1 DEF vars, Maintained
  <2>4. /\ Maintained => Covers(pCutBest', nRefAct')
        /\ exact /\ Maintained => NoSlack(pCutBest', nRefAct')
    BY <2>1 DEF MapInv, CoverInv, ExactInv
  <2>5. CoverInv' /\ ExactInv'
    BY <2>1, <2>3, <2>4, SameSlack DEF CoverInv, ExactInv
  <2> QED
    BY <2>2, <2>5 DEF MapInv
<1>2. CASE Next
  BY <1>2, MatchByFlowKeeps, MatchByAreaKeeps, NoMatchKeeps, TryDroppingKeeps,
     CountRefsKeeps,
     CleanMatchesKeeps, NextPassKeeps DEF Next
<1> QED
  BY <1>1, <1>2

LEMMA MapInvariant == Spec => []MapInv
<1>1. Init => MapInv
  BY MapInitially
<1>2. MapInv /\ [Next]_vars => MapInv'
  BY MapSteps
<1> QED
  BY <1>1, <1>2, PTL DEF Spec

\* However the passes replace and drop gates, no counter is below the uses of its pin:
\* a gate that is needed is never taken to be free.
THEOREM RefsAlwaysCover == Spec => []RefsCover
<1>1. ASSUME MapInv, Maintained, NEW n \in Nodes, NEW p \in Phases
      PROVE  nRefAct[n][p] >= TrueRefs(pCutBest)[n][p]
  <2> DEFINE t == TrueRefs(pCutBest)
             x == <<n, p>>
  <2>1. CircuitOK /\ pCutBest \in Coverings /\ nRefAct \in Counters
    BY <1>1, CircuitIs DEF MapInv, MapperTypeOK
  <2>2. Covers(pCutBest, nRefAct)
    BY <1>1 DEF MapInv, CoverInv
  <2>3. t \in Counters
    BY <2>1, TrueRefsAre
  <2>4. x \in Pins
    BY DEF Pins
  <2>5. Val(t, x) <= Val(nRefAct, x)
    BY <2>1, <2>2, <2>4, CoverTrue
  <2>6. t[n][p] \in Int /\ nRefAct[n][p] \in Int
    BY <2>1, <2>3 DEF Counters
  <2> HIDE DEF t
  <2>7. t[n][p] <= nRefAct[n][p]
    BY <2>5 DEF Val
  <2>8. nRefAct[n][p] >= t[n][p]
    BY <2>6, <2>7
  <2> QED
    BY <2>8 DEF t
<1>2. MapInv => RefsCover
  BY <1>1 DEF RefsCover
<1> QED
  BY <1>2, MapInvariant, PTL

\* Referencing a match and dereferencing it again leaves every counter as it was,
\* whatever the gates it brings into use are.
THEOREM NoTrace == Spec => []MeasureLeavesNoTrace
<1>1. ASSUME MapInv, Maintained, mpc = "match", step \in Phases, NEW m \in Matches(node, step)
      PROVE  LET r == Without(node, step) IN CutDeref(pCutBest, CutRef(pCutBest, r, m), m) = r
  <2> DEFINE r == Without(node, step)
  <2>1. /\ CircuitOK /\ pCutBest \in Coverings /\ nRefAct \in Counters
        /\ node \in Ands /\ node \in Nodes
        /\ \A n \in Ands, p \in Phases : Matches(n, p) \subseteq GatesBelow(n)
    BY <1>1, CircuitIs DEF MapInv, MapperTypeOK
  <2>2. m \in Gates
    BY <1>1, <2>1 DEF GatesBelow
  <2>3. pCutBest[node][step] \in Gates
    BY <1>1, <2>1 DEF Coverings
  <2>4. r \in Counters
    BY <2>1, <2>3, RefsAre DEF Without, CutDeref
  <2> HIDE DEF r
  <2>5. CutRefDeref(pCutBest, CutRefDeref(pCutBest, r, m, 1), m, -1) = r
    BY <2>1, <2>2, <2>4, RefDerefBack
  <2> QED
    BY <2>5 DEF r, CutRef, CutDeref
<1>2. MapInv => MeasureLeavesNoTrace
  BY <1>1 DEF MeasureLeavesNoTrace
<1> QED
  BY <1>2, MapInvariant, PTL

\* A pass that starts with the true counters ends every step with the true ones.
THEOREM ExactRemains == Spec => []ExactStays
<1>1. ASSUME MapInv, exact, Maintained PROVE nRefAct = TrueRefs(pCutBest)
  <2>1. CircuitOK /\ pCutBest \in Coverings /\ nRefAct \in Counters
    BY <1>1, CircuitIs DEF MapInv, MapperTypeOK
  <2>2. \A x \in Pins : Slack(pCutBest, nRefAct, x) = 0
    BY <1>1 DEF MapInv, ExactInv, NoSlack
  <2> QED
    BY <2>1, <2>2, ExactTrue
<1>2. MapInv => ExactStays
  BY <1>1 DEF ExactStays
<1> QED
  BY <1>2, MapInvariant, PTL

-----------------------------------------------------------------------------
(* The area: a gate in use counts, and the inverter of a phase that has no   *)
(* gate of its own.                                                         *)

GateArea(c, r) ==
  [x \in Pins |-> IF Val(c, x) = None THEN (IF Val(r, x) > 0 THEN AreaInv ELSE 0)
                  ELSE IF x \in Used(c, r) THEN Val(c, x).area ELSE 0]

AreaOf(c, r) == SumFunctionOnSet(GateArea(c, r), Pins)

\* What turns between the counters r and s
TurnArea(c, r, s) ==
  [x \in Pins |-> IF Turns(c, r, s, x[1], x[2]) THEN Val(c, x).area
                  ELSE IF Val(c, x) = None /\ (Val(r, x) = 0) # (Val(s, x) = 0)
                       THEN AreaInv ELSE 0]

LEMMA AreasAre ==
  ASSUME CircuitOK, AreaInv \in Nat, NEW c \in Coverings, NEW r, NEW s
  PROVE  /\ Summable(GateArea(c, r), Pins) /\ AreaOf(c, r) \in Int
         /\ Summable(TurnArea(c, r, s), Pins)
<1>1. ASSUME NEW x \in Pins PROVE Val(c, x).area \in Int
  BY GateIs DEF Gates
<1>2. Summable(GateArea(c, r), Pins)
  BY <1>1 DEF Summable, GateArea
<1>3. Summable(TurnArea(c, r, s), Pins)
  BY <1>1 DEF Summable, TurnArea
<1> QED
  BY <1>2, <1>3, PinsFinite, SumInt DEF AreaOf

LEMMA GetAreaIs ==
  ASSUME CircuitOK, AreaInv \in Nat, NEW c \in Coverings, NEW r \in Counters, NotNegative(r)
  PROVE  GetArea(c, r) = AreaOf(c, r)
<1> DEFINE F(x) == IF Total(r, x[1]) = 0 THEN 0
                   ELSE IF c[x[1]][x[2]] = None
                        THEN (IF r[x[1]][x[2]] > 0 THEN AreaInv ELSE 0)
                   ELSE IF r[x[1]][x[2]] > 0 \/ c[x[1]][1 - x[2]] = None
                        THEN c[x[1]][x[2]].area ELSE 0
           Iter(g) == g = [T \in SUBSET Pins |->
                             IF T = {} THEN 0
                             ELSE F(CHOOSE x \in T : TRUE) + g[T \ {CHOOSE x \in T : TRUE}]]
           h == GateArea(c, r)
           f == CHOOSE j : Iter(j)
<1>1. GetArea(c, r) = f[Pins]
  BY DEF GetArea, MapThenSumSet, MapThenFoldSet, Pins
<1>2. ASSUME NEW x \in Pins PROVE F(x) = h[x]
  <2>1. /\ x[2] \in {0, 1} /\ x[1] \in Nodes
        /\ r[x[1]][0] \in Int /\ r[x[1]][1] \in Int
        /\ r[x[1]][0] >= 0 /\ r[x[1]][1] >= 0
    <3>1. x[1] \in Nodes /\ x[2] \in {0, 1}
      BY PinIs
    <3>2. <<x[1], 0>> \in Pins /\ <<x[1], 1>> \in Pins
      BY <3>1 DEF Pins, Phases
    <3>3. Val(r, <<x[1], 0>>) >= 0 /\ Val(r, <<x[1], 1>>) >= 0
      BY <3>2 DEF NotNegative
    <3> QED
      BY <3>1, <3>3 DEF Val, Counters, Phases
  <2>2. x \in Used(c, r) <=> Built(c, r, x[1], x[2])
    BY DEF Used
  <2>3. CASE x[2] = 0
    BY <2>1, <2>2, <2>3 DEF GateArea, Val, Built, Total
  <2>4. CASE x[2] = 1
    BY <2>1, <2>2, <2>4 DEF GateArea, Val, Built, Total
  <2> QED
    BY <2>1, <2>3, <2>4
<1>3. Summable(h, Pins) /\ IsFiniteSet(Pins)
  BY AreasAre, PinsFinite
<1> HIDE DEF F, h
<1>4. PICK g \in [SUBSET Pins -> Int] : SumFolds(g, h, Pins)
  BY <1>3, SumIs
<1>5. Iter(g)
  BY <1>2, <1>4 DEF SumFolds
<1>6. Iter(f)
  BY <1>5
<1> HIDE DEF f
<1>7. SumFolds(f, h, Pins)
  BY <1>2, <1>6 DEF SumFolds
<1>8. f[Pins] = SumFunctionOnSet(h, Pins)
  BY <1>3, <1>7, SumByFold
<1> QED
  BY <1>1, <1>8 DEF AreaOf, h

LEMMA TrueAreaIs ==
  ASSUME CircuitOK, AreaInv \in Nat, NEW c \in Coverings
  PROVE  TrueArea(c) = AreaOf(c, TrueRefs(c))
<1> DEFINE s == TrueRefs(c)
           F(x) == IF Built(c, s, x[1], x[2]) THEN c[x[1]][x[2]].area
                   ELSE IF c[x[1]][x[2]] = None /\ s[x[1]][x[2]] > 0 THEN AreaInv ELSE 0
           Iter(g) == g = [T \in SUBSET Pins |->
                             IF T = {} THEN 0
                             ELSE F(CHOOSE x \in T : TRUE) + g[T \ {CHOOSE x \in T : TRUE}]]
           h == GateArea(c, s)
           f == CHOOSE j : Iter(j)
<1>1. TrueArea(c) = f[Pins]
  BY DEF TrueArea, MapThenSumSet, MapThenFoldSet, Pins
<1> HIDE DEF s
<1>2. ASSUME NEW x \in Pins PROVE F(x) = h[x]
  <2>1. x \in Used(c, s) <=> Built(c, s, x[1], x[2])
    BY DEF Used
  <2> QED
    BY <2>1 DEF GateArea, Val, Built
<1>3. Summable(h, Pins) /\ IsFiniteSet(Pins)
  BY AreasAre, PinsFinite
<1> HIDE DEF F, h
<1>4. PICK g \in [SUBSET Pins -> Int] : SumFolds(g, h, Pins)
  BY <1>3, SumIs
<1>5. Iter(g)
  BY <1>2, <1>4 DEF SumFolds
<1>6. Iter(f)
  BY <1>5
<1> HIDE DEF f
<1>7. SumFolds(f, h, Pins)
  BY <1>2, <1>6 DEF SumFolds
<1>8. f[Pins] = SumFunctionOnSet(h, Pins)
  BY <1>3, <1>7, SumByFold
<1> QED
  BY <1>1, <1>8 DEF AreaOf, h, s

LEMMA CutAreaIs ==
  ASSUME CircuitOK, AreaInv \in Nat, NEW c \in Coverings, NEW r, NEW s, NEW m
  PROVE  CutArea(c, r, s, m) = m.area + SumFunctionOnSet(TurnArea(c, r, s), Pins)
<1> DEFINE F(x) == IF Turns(c, r, s, x[1], x[2]) THEN c[x[1]][x[2]].area
                   ELSE IF c[x[1]][x[2]] = None /\ (r[x[1]][x[2]] = 0) # (s[x[1]][x[2]] = 0)
                        THEN AreaInv ELSE 0
           Iter(g) == g = [T \in SUBSET Pins |->
                             IF T = {} THEN 0
                             ELSE F(CHOOSE x \in T : TRUE) + g[T \ {CHOOSE x \in T : TRUE}]]
           h == TurnArea(c, r, s)
           f == CHOOSE j : Iter(j)
<1>1. CutArea(c, r, s, m) = m.area + f[Pins]
  BY DEF CutArea, MapThenSumSet, MapThenFoldSet, Pins
<1>2. ASSUME NEW x \in Pins PROVE F(x) = h[x]
  BY <1>2 DEF TurnArea, Val
<1>3. Summable(h, Pins) /\ IsFiniteSet(Pins)
  BY AreasAre, PinsFinite
<1> HIDE DEF F, h
<1>4. PICK g \in [SUBSET Pins -> Int] : SumFolds(g, h, Pins)
  BY <1>3, SumIs
<1>5. Iter(g)
  BY <1>2, <1>4 DEF SumFolds
<1>6. Iter(f)
  BY <1>5
<1> HIDE DEF f
<1>7. SumFolds(f, h, Pins)
  BY <1>2, <1>6 DEF SumFolds
<1>8. f[Pins] = SumFunctionOnSet(h, Pins)
  BY <1>3, <1>7, SumByFold
<1> QED
  BY <1>1, <1>8 DEF h

\* Counters that are higher add the area of what turns.
LEMMA AreaUp ==
  ASSUME CircuitOK, AreaInv \in Nat, NEW c \in Coverings, NEW r \in Counters, NEW s \in Counters,
         NotNegative(r), \A x \in Pins : Val(r, x) <= Val(s, x)
  PROVE  AreaOf(c, s) = AreaOf(c, r) + SumFunctionOnSet(TurnArea(c, r, s), Pins)
<1> DEFINE h == GateArea(c, r)
           k == TurnArea(c, r, s)
           l == GateArea(c, s)
<1>1. Used(c, s) = Used(c, r) \union Turned(c, r, s) /\ Used(c, r) \intersect Turned(c, r, s) = {}
  BY UsedUp
<1>2. ASSUME NEW x \in Pins PROVE l[x] = h[x] + k[x]
  <2>1. /\ Val(r, x) \in Int /\ Val(s, x) \in Int /\ Val(r, x) >= 0 /\ Val(r, x) <= Val(s, x)
        /\ Val(c, x).area \in Int
    BY ValIs, GateIs DEF NotNegative, Gates
  <2>2. CASE Val(c, x) = None
    <3>1. ~Turns(c, r, s, x[1], x[2])
      BY <2>2 DEF Turns, Val
    <3> QED
      BY <2>1, <2>2, <3>1 DEF GateArea, TurnArea
  <2>3. CASE Val(c, x) # None
    <3>1. Turns(c, r, s, x[1], x[2]) <=> x \in Turned(c, r, s)
      BY DEF Turned
    <3>2. l[x] = IF x \in Used(c, s) THEN Val(c, x).area ELSE 0
      BY <2>3 DEF GateArea
    <3>3. h[x] = IF x \in Used(c, r) THEN Val(c, x).area ELSE 0
      BY <2>3 DEF GateArea
    <3>4. k[x] = IF x \in Turned(c, r, s) THEN Val(c, x).area ELSE 0
      BY <2>3, <3>1 DEF TurnArea
    <3> QED
      BY <1>1, <2>1, <3>2, <3>3, <3>4
  <2> QED
    BY <2>2, <2>3
<1>3. Summable(h, Pins) /\ Summable(k, Pins) /\ IsFiniteSet(Pins)
  BY AreasAre, PinsFinite
<1> HIDE DEF h, k, l
<1>4. SumFunctionOnSet(l, Pins) = SumFunctionOnSet(h, Pins) + SumFunctionOnSet(k, Pins)
  BY <1>2, <1>3, SumPlus
<1> QED
  BY <1>4 DEF AreaOf, h, k, l

\* The area that the exact passes compare
LEMMA AreaDerefedIs ==
  ASSUME CircuitOK, AreaInv \in Nat, NEW c \in Coverings, NEW r \in Counters, NotNegative(r),
         NEW m \in Gates
  PROVE  AreaDerefed(c, r, m) = m.area + AreaOf(c, CutRef(c, r, m)) - AreaOf(c, r)
<1> DEFINE s == CutRef(c, r, m)
<1>1. s \in Counters /\ \A x \in Pins : Val(r, x) <= Val(s, x)
  BY RefSlack
<1>2. AreaDerefed(c, r, m) = CutArea(c, r, s, m)
  BY DEF AreaDerefed
<1> HIDE DEF s
<1>3. AreaOf(c, s) = AreaOf(c, r) + SumFunctionOnSet(TurnArea(c, r, s), Pins)
  BY <1>1, AreaUp
<1>4. CutArea(c, r, s, m) = m.area + SumFunctionOnSet(TurnArea(c, r, s), Pins)
  BY CutAreaIs
<1>5. SumFunctionOnSet(TurnArea(c, r, s), Pins) \in Int /\ AreaOf(c, r) \in Int /\ m.area \in Int
  BY AreasAre, PinsFinite, SumInt DEF Gates
<1> QED
  BY <1>2, <1>3, <1>4, <1>5 DEF s

LEMMA GateNotNegative ==
  ASSUME CircuitOK, NEW c \in Coverings, NEW x \in Pins
  PROVE  Val(c, x).area \in Int /\ (Val(c, x) # None => Val(c, x).area >= 0)
<1>1. x[1] \in Nodes /\ x[2] \in Phases
  BY PinIs
<1>2. c[x[1]][x[2]] = None \/ c[x[1]][x[2]] \in GatesBelow(x[1])
  BY <1>1 DEF Coverings
<1> QED
  BY <1>2 DEF Val, GatesBelow, None

\* Higher counters have no less area.
LEMMA AreaMore ==
  ASSUME CircuitOK, AreaInv \in Nat, NEW c \in Coverings, NEW r \in Counters, NEW s \in Counters,
         NotNegative(r), \A x \in Pins : Val(r, x) <= Val(s, x)
  PROVE  AreaOf(c, r) <= AreaOf(c, s)
<1> DEFINE h == GateArea(c, r)
           k == GateArea(c, s)
<1>1. Used(c, r) \subseteq Used(c, s)
  BY UsedUp
<1>2. ASSUME NEW x \in Pins PROVE h[x] <= k[x]
  <2>1. /\ Val(r, x) \in Int /\ Val(s, x) \in Int /\ Val(r, x) <= Val(s, x)
        /\ Val(c, x).area \in Int
        /\ Val(c, x) # None => Val(c, x).area >= 0
    BY ValIs, GateNotNegative
  <2> QED
    BY <1>1, <2>1 DEF GateArea
<1>3. Summable(h, Pins) /\ Summable(k, Pins) /\ IsFiniteSet(Pins)
  BY AreasAre, PinsFinite
<1> HIDE DEF h, k
<1> QED
  BY <1>2, <1>3, SumLess DEF AreaOf, h, k

\* The area depends on which counters are positive only.
LEMMA AreaSame ==
  ASSUME CircuitOK, AreaInv \in Nat, NEW c \in Coverings, NEW r, NEW s,
         \A x \in Pins : Val(r, x) > 0 <=> Val(s, x) > 0
  PROVE  AreaOf(c, r) = AreaOf(c, s)
<1> DEFINE h == GateArea(c, r)
           k == GateArea(c, s)
<1>1. ASSUME NEW x \in Pins PROVE x \in Used(c, r) <=> x \in Used(c, s)
  <2>1. x[1] \in Nodes /\ x[2] \in {0, 1} /\ 1 - x[2] \in {0, 1}
    BY PinIs
  <2> DEFINE y == <<x[1], 1 - x[2]>>
  <2>2. y \in Pins
    BY <2>1 DEF Pins, Phases
  <2>3. /\ Val(r, x) > 0 <=> Val(s, x) > 0
        /\ Val(r, y) > 0 <=> Val(s, y) > 0
    BY <2>2
  <2> QED
    BY <2>3 DEF Used, Built, Val
<1>2. ASSUME NEW x \in Pins PROVE h[x] = k[x]
  <2>1. Val(r, x) > 0 <=> Val(s, x) > 0
    OBVIOUS
  <2> QED
    BY <1>1, <2>1 DEF GateArea
<1>3. Summable(h, Pins) /\ IsFiniteSet(Pins)
  BY AreasAre, PinsFinite
<1> HIDE DEF h, k
<1> QED
  BY <1>2, <1>3, SumSame DEF AreaOf, h, k

\* A match takes the place of another one in an exact pass.
LEMMA ReplaceArea ==
  ASSUME CircuitOK, AreaInv \in Nat, NEW c \in Coverings, NEW e \in Coverings,
         NEW z, OneOther(c, e, z), NEW r \in Counters, Covers(c, r), z \in Used(c, r),
         LET s == CutDeref(c, r, Val(c, z))
         IN  AreaDerefed(c, s, Val(e, z)) <= AreaDerefed(c, s, Val(c, z))
  PROVE  AreaOf(e, CutRef(e, CutDeref(c, r, Val(c, z)), Val(e, z))) <= AreaOf(c, r)
<1> DEFINE s == CutDeref(c, r, Val(c, z))
           u == CutRef(c, s, Val(e, z))
           h == GateArea(c, u)
           k == GateArea(e, u)
<1>1. z \in Pins
  BY DEF Used
<1>2. /\ Val(c, z) \in Gates /\ Val(e, z) \in Gates
      /\ Val(e, z).leaves \subseteq Below(z[1])
  BY <1>1, GateIs
<1>3. s \in Counters /\ NotNegative(s) /\ z \in Used(c, s)
  BY TakenOut
<1>4. CutRef(c, s, Val(c, z)) = r
  BY <1>2, RefDerefBack DEF CutRef, CutDeref
<1>5. AreaDerefed(c, s, Val(e, z)) <= AreaDerefed(c, s, Val(c, z))
  OBVIOUS
<1> HIDE DEF s
<1>6. u \in Counters /\ \A x \in Pins : Val(s, x) <= Val(u, x)
  BY <1>2, <1>3, RefSlack
<1>7. CutRef(e, s, Val(e, z)) = u
  BY <1>1, <1>2, <1>3, OtherGate DEF CutRef
<1>8. /\ AreaDerefed(c, s, Val(e, z)) = Val(e, z).area + AreaOf(c, u) - AreaOf(c, s)
      /\ AreaDerefed(c, s, Val(c, z)) = Val(c, z).area + AreaOf(c, r) - AreaOf(c, s)
  BY <1>2, <1>3, <1>4, AreaDerefedIs
<1> HIDE DEF u
<1>9. z \in Used(c, u) /\ z \in Used(e, u)
  <2>1. z \in Used(c, u)
    BY <1>3, <1>6, UsedUp
  <2>2. Used(e, u) = Used(c, u)
    BY <1>1, <1>6, OtherSlack
  <2> QED
    BY <2>1, <2>2
<1>10. Used(e, u) = Used(c, u)
  BY <1>1, <1>6, OtherSlack
<1>11. ASSUME NEW x \in Pins, x # z PROVE h[x] = k[x]
  BY <1>10, <1>11 DEF GateArea, OneOther
<1>12. h[z] = Val(c, z).area /\ k[z] = Val(e, z).area
  BY <1>1, <1>9 DEF GateArea, OneOther
<1>13. Summable(h, Pins) /\ Summable(k, Pins) /\ IsFiniteSet(Pins)
  BY AreasAre, PinsFinite
<1>14. AreaOf(c, u) = SumFunctionOnSet(h, Pins) /\ AreaOf(e, u) = SumFunctionOnSet(k, Pins)
  BY DEF AreaOf
<1> HIDE DEF h, k
<1>15. SumFunctionOnSet(k, Pins) = SumFunctionOnSet(h, Pins) - h[z] + k[z]
  BY <1>1, <1>11, <1>13, SumChanges
<1>16. /\ AreaOf(c, u) \in Int /\ AreaOf(c, s) \in Int /\ AreaOf(c, r) \in Int
       /\ Val(c, z).area \in Int /\ Val(e, z).area \in Int
  BY <1>2, AreasAre DEF Gates
<1>17. AreaOf(e, u) <= AreaOf(c, r)
  BY <1>5, <1>8, <1>12, <1>14, <1>15, <1>16
<1> QED
  BY <1>7, <1>17 DEF s

\* A gate that is not in use has no area.
LEMMA UnusedArea ==
  ASSUME CircuitOK, AreaInv \in Nat, NEW c \in Coverings, NEW e \in Coverings,
         NEW z \in Pins, OneOther(c, e, z), NEW r \in Counters, z \notin Used(c, r)
  PROVE  AreaOf(e, r) = AreaOf(c, r)
<1> DEFINE h == GateArea(c, r)
           k == GateArea(e, r)
<1>1. Used(e, r) = Used(c, r)
  BY OtherSlack
<1>2. ASSUME NEW x \in Pins PROVE h[x] = k[x]
  <2>1. CASE x = z
    BY <1>1, <2>1 DEF GateArea, OneOther
  <2>2. CASE x # z
    BY <1>1, <2>2 DEF GateArea, OneOther
  <2> QED
    BY <2>1, <2>2
<1>3. Summable(h, Pins) /\ IsFiniteSet(Pins)
  BY AreasAre, PinsFinite
<1> HIDE DEF h, k
<1> QED
  BY <1>2, <1>3, SumSame DEF AreaOf, h, k

\* An inverter takes the place of the gate of a phase.
LEMMA DropArea ==
  ASSUME CircuitOK, AreaInv \in Nat, NEW c \in Coverings, NEW e \in Coverings, NEW z \in Pins,
         \A y \in Pins : y # z => Val(c, y) = Val(e, y), Val(e, z) = None,
         NEW r \in Counters, Covers(c, r), r[z[1]][0] > 0, r[z[1]][1] > 0, Both(c, z[1]),
         AreaInv <= Val(c, z).area
  PROVE  AreaOf(e, CutDeref(c, r, Val(c, z))) <= AreaOf(c, r)
<1> DEFINE s == CutDeref(c, r, Val(c, z))
           h == GateArea(c, s)
           k == GateArea(e, s)
<1>1. z \in Used(c, r)
  BY DroppedUsed
<1>2. /\ s \in Counters /\ NotNegative(s) /\ z[1] \in Like(r, s)
      /\ \A x \in Pins : Val(s, x) <= Val(r, x)
  BY <1>1, TakenOut
<1> HIDE DEF s
<1>3. s[z[1]][0] > 0 /\ s[z[1]][1] > 0
  BY <1>2 DEF Like, Phases
<1>4. Used(e, s) = Used(c, s) \ {z} /\ z \in Used(c, s)
  BY <1>2, <1>3, DroppedUsed
<1>5. Val(s, z) > 0
  <2>1. z[2] \in {0, 1}
    BY PinIs
  <2> QED
    BY <1>3, <2>1 DEF Val
<1>6. Val(c, z) # None /\ Val(c, z).area \in Int
  BY <1>1, GateNotNegative DEF Used, Built, Val
<1>7. ASSUME NEW x \in Pins, x # z PROVE h[x] = k[x]
  BY <1>4, <1>7 DEF GateArea
<1>8. h[z] = Val(c, z).area /\ k[z] = AreaInv
  BY <1>4, <1>5, <1>6 DEF GateArea
<1>9. Summable(h, Pins) /\ Summable(k, Pins) /\ IsFiniteSet(Pins)
  BY AreasAre, PinsFinite
<1>10. AreaOf(c, s) = SumFunctionOnSet(h, Pins) /\ AreaOf(e, s) = SumFunctionOnSet(k, Pins)
  BY DEF AreaOf
<1> HIDE DEF h, k
<1>11. SumFunctionOnSet(k, Pins) = SumFunctionOnSet(h, Pins) - h[z] + k[z]
  BY <1>7, <1>9, SumChanges
<1>12. AreaOf(c, s) <= AreaOf(c, r)
  BY <1>2, AreaMore
<1>13. AreaOf(c, s) \in Int /\ AreaOf(c, r) \in Int
  BY AreasAre
<1>14. AreaOf(e, s) <= AreaOf(c, r)
  BY <1>6, <1>8, <1>10, <1>11, <1>12, <1>13
<1> QED
  BY <1>14 DEF s

\* The counters that Map_MappingSetRefs leaves
Made(c, r) == \A x \in Pins : Val(r, x) = Val(OutputRefs, x) + Cardinality(Makers(c, r, x))

\* They are positive where the true ones are, though a pin may be counted twice for
\* the two phases of a node with one gate.
LEMMA SamePositive ==
  ASSUME CircuitOK, NEW c \in Coverings, NEW r \in Counters, Covers(c, r), Made(c, r)
  PROVE  \A x \in Pins : Val(r, x) > 0 <=> Val(TrueRefs(c), x) > 0
<1> DEFINE t == TrueRefs(c)
           K == {n \in Nodes : \A p \in Phases : r[n][p] > 0 => t[n][p] > 0}
<1>1. t \in Counters /\ \A x \in Pins : Slack(c, t, x) = 0 /\ Val(t, x) <= Val(r, x)
  BY TrueRefsAre, TrueSlack, CoverTrue
<1> HIDE DEF t
<1>2. ASSUME NEW n \in Nodes, (n + 1)..circuit.last \subseteq K, NEW p \in Phases, r[n][p] > 0
      PROVE  t[n][p] > 0
  <2> DEFINE x == <<n, p>>
             U == Users(c, Used(c, t), x)
  <2>1. x \in Pins /\ x[1] = n /\ Val(r, x) = r[n][p] /\ Val(t, x) = t[n][p]
    BY DEF Pins, Val
  <2> HIDE DEF x
  <2>2. /\ Val(t, x) \in Int /\ Val(OutputRefs, x) \in Nat /\ Uses(c, Used(c, t), x) \in Nat
        /\ Val(t, x) = Val(OutputRefs, x) + Uses(c, Used(c, t), x)
    BY <1>1, <2>1, SlackIs DEF Slack
  <2>3. CASE Val(OutputRefs, x) > 0
    BY <2>1, <2>2, <2>3
  <2>4. CASE Val(OutputRefs, x) = 0
    <3>1. Makers(c, r, x) # {}
      <4>1. SUFFICES ASSUME Makers(c, r, x) = {} PROVE FALSE
        OBVIOUS
      <4>2. Val(r, x) = 0
        BY <2>1, <2>4, <4>1, FS_EmptySet DEF Made
      <4> QED
        BY <1>2, <2>1, <4>2
    <3>2. PICK y \in Pins : Val(r, y) > 0 /\ x \in GateFor(c, y[1], y[2]).leaves
      BY <3>1 DEF Makers
    <3>3. y[1] \in Nodes /\ y[2] \in {0, 1} /\ y[1] > n
      <4>1. y[1] \in Nodes /\ y[2] \in {0, 1}
        BY PinIs
      <4>2. GateFor(c, y[1], y[2]).leaves \subseteq Below(y[1])
        BY <4>1, GateMapConnected DEF Connected, GateMap, Phases
      <4>3. x \in Below(y[1]) /\ x[1] \in Int /\ y[1] \in Int
        BY <2>1, <3>2, <4>2, PinIs
      <4>4. x[1] < y[1]
        BY <4>3 DEF Below
      <4> QED
        BY <2>1, <4>1, <4>3, <4>4
    <3>4. Val(t, y) > 0
      <4>1. y[1] \in K
        BY <1>2, <3>3, NodesAbove
      <4> QED
        BY <3>2, <3>3, <4>1 DEF Val, Phases
    <3>5. U # {}
      <4>1. CASE Val(c, y) # None
        <5>1. GateFor(c, y[1], y[2]) = Val(c, y)
          BY <4>1 DEF GateFor, Val
        <5>2. y \in Used(c, t)
          BY <3>4, <4>1 DEF Used, Built, Val
        <5> QED
          BY <3>2, <5>1, <5>2 DEF Users
      <4>2. CASE Val(c, y) = None
        <5> DEFINE w == <<y[1], 1 - y[2]>>
        <5>1. w \in Pins /\ w[1] = y[1] /\ w[2] = 1 - y[2] /\ 1 - (1 - y[2]) = y[2]
          BY <3>3 DEF Pins, Phases
        <5> HIDE DEF w
        <5>2. GateFor(c, y[1], y[2]) = Val(c, w)
          BY <4>2, <5>1 DEF GateFor, Val
        <5>3. Val(c, w) # None
          BY <3>2, <5>2 DEF None
        <5>4. w \in Used(c, t)
          <6>1. c[w[1]][1 - w[2]] = None /\ t[w[1]][1 - w[2]] > 0
            BY <3>4, <4>2, <5>1 DEF Val
          <6> QED
            BY <5>1, <5>3, <6>1 DEF Used, Built, Val
        <5> QED
          BY <3>2, <5>2, <5>4 DEF Users
      <4> QED
        BY <4>1, <4>2
    <3>6. Used(c, t) \in SUBSET Pins
      BY DEF Used
    <3>7. IsFiniteSet(U)
      BY <2>1, <3>6, UsersAre
    <3>8. Uses(c, Used(c, t), x) # 0
      <4> HIDE DEF U
      <4>1. Cardinality(U) # 0
        BY <3>5, <3>7, FS_EmptySet
      <4> QED
        BY <4>1 DEF Uses, U
    <3> QED
      BY <2>1, <2>2, <3>8
  <2> QED
    BY <2>2, <2>3, <2>4
<1>3. Closed(K)
  BY <1>2 DEF Closed
<1>4. Nodes \subseteq K
  <2> HIDE DEF K
  <2> QED
    BY <1>3, TopDown
<1>5. ASSUME NEW x \in Pins PROVE Val(r, x) > 0 <=> Val(t, x) > 0
  <2>1. x[1] \in K /\ x[2] \in Phases
    BY <1>4, PinIs
  <2>2. Val(r, x) > 0 => Val(t, x) > 0
    BY <2>1 DEF Val
  <2>3. Val(t, x) <= Val(r, x) /\ Val(t, x) \in Int /\ Val(r, x) \in Int
    BY <1>1, ValIs
  <2> QED
    BY <2>2, <2>3
<1> QED
  BY <1>5 DEF t

\* The area of the covering is that of the counters of Map_MappingSetRefs, and not more
\* than that of any counters that cover.
LEMMA CountedArea ==
  ASSUME CircuitOK, AreaInv \in Nat, NEW c \in Coverings, NEW r \in Counters, Covers(c, r)
  PROVE  /\ TrueArea(c) <= AreaOf(c, r)
         /\ Made(c, r) => TrueArea(c) = AreaOf(c, r)
<1> DEFINE t == TrueRefs(c)
<1>1. t \in Counters /\ Covers(c, t) /\ \A x \in Pins : Val(t, x) <= Val(r, x)
  BY TrueRefsAre, TrueSlack, CoverTrue DEF Covers
<1>2. TrueArea(c) = AreaOf(c, t)
  BY TrueAreaIs
<1>3. Made(c, r) => \A x \in Pins : Val(r, x) > 0 <=> Val(t, x) > 0
  BY SamePositive
<1> HIDE DEF t
<1>4. NotNegative(t)
  BY <1>1, CoverNotNegative
<1>5. AreaOf(c, t) <= AreaOf(c, r)
  BY <1>1, <1>4, AreaMore
<1>6. ASSUME Made(c, r) PROVE AreaOf(c, r) = AreaOf(c, t)
  BY <1>3, <1>6, AreaSame
<1> QED
  BY <1>2, <1>5, <1>6

-----------------------------------------------------------------------------
(* What keeps the area from growing.  When a phase is dropped no areas are   *)
(* compared, so this needs a library in which no gate is smaller than the    *)
(* inverter that replaces it.                                               *)

InverterIsSmallest ==
  \A k \in Circuits : \A n \in (k.ins + 1)..k.last, p \in Phases :
    \A m \in k.matches[n][p] : AreaInv <= m.area

\* The gates of the covering are of the library.
LargeInv == \A n \in Ands, p \in Phases :
              pCutBest[n][p] # None => AreaInv <= pCutBest[n][p].area

\* The counters are those of Map_MappingSetRefs.
Counted == mpc \in {"counted", "done"}

CountedInv ==
  /\ Counted => Covers(pCutBest, nRefAct) /\ Made(pCutBest, nRefAct)
  /\ Counted /\ (fMappingMode > 0 \/ trial < nTrials) => AreaFinal = AreaOf(pCutBest, nRefAct)

\* The area that Map_MappingGetArea would find now has not grown.
GrowthInv == Maintained /\ mpc = "match" => AreaOf(pCutBest, nRefAct) <= AreaFinal

AreaKeptInv == MapInv /\ AreaFinal \in Int /\ LargeInv /\ CountedInv /\ GrowthInv

LEMMA LargeMatches ==
  ASSUME InverterIsSmallest, circuit \in Circuits, NEW n \in Ands, NEW p \in Phases,
         NEW m \in Matches(n, p)
  PROVE  AreaInv <= m.area /\ m # None
<1>1. m \in GatesBelow(n)
  BY CircuitIs
<1> QED
  BY <1>1 DEF InverterIsSmallest, Ands, Matches, GatesBelow, None

LEMMA SameArea ==
  ASSUME circuit' = circuit, NEW c, NEW r, pCutBest' = c, nRefAct' = r
  PROVE  /\ AreaOf(pCutBest, nRefAct)' = AreaOf(c, r)
         /\ Made(pCutBest, nRefAct)' <=> Made(c, r)
<1>1. Pins' = Pins /\ OutputRefs' = OutputRefs
  BY SameCircuit
<1>2. Used(pCutBest, nRefAct)' = Used(c, r)
  BY <1>1 DEF Used, Built
<1>3. GateArea(pCutBest, nRefAct)' = GateArea(c, r)
  BY <1>1, <1>2 DEF GateArea, Val
<1>4. AreaOf(pCutBest, nRefAct)' = AreaOf(c, r)
  BY <1>1, <1>3 DEF AreaOf
<1>5. ASSUME NEW x PROVE Makers(pCutBest, nRefAct, x)' = Makers(c, r, x)
  BY <1>1 DEF Makers, Val, GateFor
<1> QED
  BY <1>1, <1>4, <1>5 DEF Made, Val

\* LargeInv is kept where a match or nothing is put.
LEMMA LargeKept ==
  ASSUME InverterIsSmallest, circuit \in Circuits, circuit' = circuit, LargeInv,
         pCutBest \in Coverings, NEW n \in Ands, NEW p \in Phases,
         NEW m, m = None \/ m \in Matches(n, p), pCutBest' = Put(pCutBest, n, p, m)
  PROVE  LargeInv'
<1>1. Ands' = Ands /\ CircuitOK /\ n \in Nodes /\ Ands \subseteq Nodes
  BY SameCircuit, CircuitIs
<1>2. m # None => AreaInv <= m.area
  BY LargeMatches
<1>3. ASSUME NEW k \in Ands, NEW q \in Phases
      PROVE  pCutBest'[k][q] = IF k = n /\ q = p THEN m ELSE pCutBest[k][q]
  BY <1>1, <1>3 DEF Put, Coverings
<1>4. ASSUME NEW k \in Ands, NEW q \in Phases, pCutBest'[k][q] # None
      PROVE  AreaInv <= pCutBest'[k][q].area
  <2>1. CASE k = n /\ q = p
    BY <1>2, <1>3, <1>4, <2>1
  <2>2. CASE ~(k = n /\ q = p)
    <3>1. pCutBest'[k][q] = pCutBest[k][q]
      BY <1>3, <2>2
    <3> QED
      BY <1>4, <3>1 DEF LargeInv
  <2> QED
    BY <2>1, <2>2
<1> QED
  BY <1>1, <1>4 DEF LargeInv

LEMMA AreaInitially ==
  ASSUME Init PROVE AreaKeptInv
<1>1. MapInv
  BY MapInitially
<1>2. LargeInv
  BY CircuitIs DEF Init, LargeInv, NoCuts
<1>3. AreaFinal \in Int /\ ~Counted /\ ~Maintained
  BY DEF Init, Counted, Maintained
<1> QED
  BY <1>1, <1>2, <1>3 DEF AreaKeptInv, CountedInv, GrowthInv

LEMMA MatchByFlowArea ==
  ASSUME InverterIsSmallest, AreaKeptInv, MatchByFlow, MapInv' PROVE AreaKeptInv'
<1>1. /\ MapperTypeOK /\ CircuitOK
  BY CircuitIs DEF AreaKeptInv, MapInv, MapperTypeOK
<1>2. PICK m \in Matches(node, step) \union {None} : pCutBest' = Put(pCutBest, node, step, m)
  BY DEF MatchByFlow, Put
<1>3. /\ circuit \in Circuits /\ circuit' = circuit /\ LargeInv /\ pCutBest \in Coverings
      /\ node \in Ands /\ step \in Phases /\ (m = None \/ m \in Matches(node, step))
  BY <1>1, <1>2 DEF MatchByFlow, MapperTypeOK, AreaKeptInv
<1>4. LargeInv'
  BY <1>2, <1>3, LargeKept
<1>5. ~Counted' /\ ~Maintained' /\ AreaFinal' = AreaFinal
  BY DEF MatchByFlow, Counted, Maintained
<1> QED
  BY <1>4, <1>5 DEF AreaKeptInv, CountedInv, GrowthInv

\* A match that adds no more area than the old one
LEMMA MatchArea ==
  ASSUME CircuitOK, AreaInv \in Nat, pCutBest \in Coverings, nRefAct \in Counters,
         Covers(pCutBest, nRefAct), NEW n \in Nodes, NEW p \in Phases,
         NEW old, old = pCutBest[n][p], old # None, NEW m \in GatesBelow(n),
         m = old \/ AreaDerefed(pCutBest, Without(n, p), m)
                      <= AreaDerefed(pCutBest, Without(n, p), old),
         NEW e, e = Put(pCutBest, n, p, m)
  PROVE  LET r == IF InUse(n, p) THEN CutRef(e, Without(n, p), m) ELSE Without(n, p)
         IN  AreaOf(e, r) <= AreaOf(pCutBest, nRefAct)
<1> DEFINE z == <<n, p>>
           s == CutDeref(pCutBest, nRefAct, old)
<1>1. m # None
  BY DEF None, GatesBelow
<1>2. z = <<n, p>>
  OBVIOUS
<1> HIDE DEF z
<1>3. /\ e \in Coverings /\ z \in Pins /\ Val(e, z) = m /\ Val(pCutBest, z) = old
      /\ \A y \in Pins : y # z => Val(pCutBest, y) = Val(e, y)
  BY <1>2, CutChanges
<1>4. InUse(n, p) <=> z \in Used(pCutBest, nRefAct)
  BY <1>2, <1>3, InUseIs
<1>5. OneOther(pCutBest, e, z)
  BY <1>1, <1>3 DEF OneOther
<1>6. CASE InUse(n, p)
  <2>1. Without(n, p) = s
    BY <1>6 DEF Without
  <2>2. /\ s \in Counters /\ NotNegative(s)
    BY <1>3, <1>4, <1>6, TakenOut
  <2> HIDE DEF s
  <2>3. m \in Gates /\ old \in Gates
    BY <1>3, GateIs
  <2>4. AreaDerefed(pCutBest, s, m) <= AreaDerefed(pCutBest, s, old)
    <3>1. AreaDerefed(pCutBest, s, old) \in Int
      <4>1. /\ AreaDerefed(pCutBest, s, old)
                 = old.area + AreaOf(pCutBest, CutRef(pCutBest, s, old)) - AreaOf(pCutBest, s)
            /\ AreaOf(pCutBest, CutRef(pCutBest, s, old)) \in Int /\ AreaOf(pCutBest, s) \in Int
        BY <2>2, <2>3, AreaDerefedIs, AreasAre
      <4> QED
        BY <2>3, <4>1 DEF Gates
    <3> QED
      BY <2>1, <3>1
  <2>5. AreaOf(e, CutRef(e, s, m)) <= AreaOf(pCutBest, nRefAct)
    BY <1>3, <1>4, <1>5, <1>6, <2>4, ReplaceArea DEF s
  <2> QED
    BY <1>6, <2>1, <2>5
<1>7. CASE ~InUse(n, p)
  <2>1. Without(n, p) = nRefAct
    BY <1>7 DEF Without
  <2>2. AreaOf(e, nRefAct) = AreaOf(pCutBest, nRefAct)
    BY <1>3, <1>4, <1>5, <1>7, UnusedArea
  <2>3. AreaOf(pCutBest, nRefAct) \in Int
    BY AreasAre
  <2> QED
    BY <1>7, <2>1, <2>2, <2>3
<1> QED
  BY <1>6, <1>7

LEMMA MatchByAreaArea ==
  ASSUME InverterIsSmallest, AreaKeptInv, MatchByArea, MapInv' PROVE AreaKeptInv'
<1>1. /\ CircuitOK /\ MapperTypeOK /\ AreaInv \in Nat /\ MapInv
      /\ \A n \in Ands, p \in Phases : Matches(n, p) \subseteq GatesBelow(n)
      /\ Ands \subseteq Nodes
  BY CircuitIs DEF AreaKeptInv, MapInv, MapperTypeOK
<1>2. /\ node \in Nodes /\ node \in Ands /\ step \in Phases /\ pCutBest \in Coverings
      /\ nRefAct \in Counters /\ circuit \in Circuits /\ circuit' = circuit /\ LargeInv
  BY <1>1 DEF MatchByArea, MapperTypeOK, AreaKeptInv
<1>3. Maintained /\ mpc = "match" /\ ~Counted' /\ AreaFinal' = AreaFinal
  BY DEF MatchByArea, Maintained, Counted
<1>4. /\ Covers(pCutBest, nRefAct) /\ AreaOf(pCutBest, nRefAct) <= AreaFinal /\ AreaFinal \in Int
      /\ AreaOf(pCutBest, nRefAct) \in Int
  BY <1>1, <1>2, <1>3, AreasAre DEF AreaKeptInv, MapInv, CoverInv, GrowthInv
<1>5. CASE pCutBest[node][step] = None
  <2>1. pCutBest' = pCutBest /\ nRefAct' = nRefAct
    BY <1>5 DEF MatchByArea
  <2>2. Ands' = Ands /\ AreaOf(pCutBest, nRefAct)' = AreaOf(pCutBest, nRefAct)
    BY <1>2, <2>1, SameCircuit, SameArea
  <2>3. LargeInv'
    BY <1>2, <2>1, <2>2 DEF LargeInv
  <2> QED
    BY <1>3, <1>4, <2>2, <2>3 DEF AreaKeptInv, CountedInv, GrowthInv
<1>6. CASE pCutBest[node][step] # None
  <2> DEFINE old == pCutBest[node][step]
             r == Without(node, step)
  <2>1. PICK m \in Matches(node, step) :
          /\ m = old \/ AreaDerefed(pCutBest, r, m) <= AreaDerefed(pCutBest, r, old)
          /\ pCutBest' = [pCutBest EXCEPT ![node][step] = m]
          /\ nRefAct' = IF InUse(node, step) THEN CutRef(pCutBest', r, m) ELSE r
    BY <1>6 DEF MatchByArea
  <2>2. m \in GatesBelow(node)
    BY <1>1, <1>2, <2>1
  <2>3. pCutBest' = Put(pCutBest, node, step, m)
    BY <2>1 DEF Put
  <2> HIDE DEF r
  <2>4. ASSUME NEW e, e = pCutBest', NEW s, s = nRefAct', NEW o, o = old
        PROVE  AreaOf(e, s) <= AreaOf(pCutBest, nRefAct) /\ AreaOf(e, s) \in Int
    <3> HIDE DEF old
    <3> DEFINE v == IF InUse(node, step) THEN CutRef(e, r, m) ELSE r
    <3>1. o = pCutBest[node][step] /\ o # None
      BY <1>6, <2>4 DEF old
    <3>2. m = o \/ AreaDerefed(pCutBest, r, m) <= AreaDerefed(pCutBest, r, o)
      BY <2>1, <2>4
    <3>3. e = Put(pCutBest, node, step, m)
      BY <2>3, <2>4
    <3>4. AreaOf(e, v) <= AreaOf(pCutBest, nRefAct)
      BY <1>1, <1>2, <1>4, <2>2, <3>1, <3>2, <3>3, MatchArea DEF r
    <3>5. s = v
      BY <2>1, <2>4
    <3>6. e \in Coverings
      BY <1>1, <1>2, <2>2, <3>3, CutChanges
    <3> HIDE DEF v
    <3>7. AreaOf(e, s) \in Int
      BY <1>1, <3>6, AreasAre
    <3> QED
      BY <3>4, <3>5, <3>7
  <2>5. AreaOf(pCutBest, nRefAct)' <= AreaOf(pCutBest, nRefAct)
        /\ AreaOf(pCutBest, nRefAct)' \in Int
    <3>1. ASSUME NEW e, e = pCutBest', NEW s, s = nRefAct'
          PROVE  AreaOf(pCutBest, nRefAct)' = AreaOf(e, s)
      BY <1>2, <3>1, SameArea
    <3> QED
      BY <2>4, <3>1
  <2>6. LargeInv'
    BY <1>2, <2>1, <2>3, LargeKept
  <2> QED
    BY <1>3, <1>4, <2>5, <2>6 DEF AreaKeptInv, CountedInv, GrowthInv
<1> QED
  BY <1>5, <1>6

\* The step changes neither the covering nor the counters.
LEMMA AreaUnchanged ==
  ASSUME AreaKeptInv, circuit' = circuit, pCutBest' = pCutBest
  PROVE  /\ LargeInv'
         /\ nRefAct' = nRefAct =>
              /\ AreaOf(pCutBest, nRefAct)' = AreaOf(pCutBest, nRefAct)
              /\ Covers(pCutBest, nRefAct)' <=> Covers(pCutBest, nRefAct)
              /\ Made(pCutBest, nRefAct)' <=> Made(pCutBest, nRefAct)
<1>1. Ands' = Ands
  BY SameCircuit
<1>2. LargeInv'
  BY <1>1 DEF AreaKeptInv, LargeInv
<1> QED
  BY <1>2, SameArea, SameSlack

LEMMA NoMatchArea ==
  ASSUME AreaKeptInv, NoMatch, MapInv' PROVE AreaKeptInv'
<1>1. LargeInv'
  BY AreaUnchanged DEF NoMatch
<1>2. ~Counted' /\ ~Maintained' /\ AreaFinal' = AreaFinal
  BY DEF NoMatch, Counted, Maintained
<1> QED
  BY <1>1, <1>2 DEF AreaKeptInv, CountedInv, GrowthInv

\* A gate that is dropped is not smaller than the inverter.
LEMMA DropKeepsArea ==
  ASSUME CircuitOK, AreaInv \in Nat, pCutBest \in Coverings, nRefAct \in Counters,
         Covers(pCutBest, nRefAct), LargeInv, node \in Nodes, node \in Ands,
         NEW p \in Phases, DropPhase(p), fMappingMode # 0,
         NEW e, e = pCutBest', NEW s, s = nRefAct'
  PROVE  AreaOf(e, s) <= AreaOf(pCutBest, nRefAct)
<1> DEFINE z == <<node, p>>
<1>1. /\ nRefAct[node][0] > 0 /\ nRefAct[node][1] > 0 /\ Both(pCutBest, node)
      /\ s = CutDeref(pCutBest, nRefAct, pCutBest[node][p])
      /\ e = Put(pCutBest, node, p, None)
  BY DEF DropPhase, Put
<1>2. z = <<node, p>> /\ z[1] = node
  OBVIOUS
<1> HIDE DEF z
<1>3. /\ e \in Coverings /\ z \in Pins /\ Val(e, z) = None /\ Val(pCutBest, z) = pCutBest[node][p]
      /\ \A y \in Pins : y # z => Val(pCutBest, y) = Val(e, y)
  BY <1>1, <1>2, CutChanges
<1>4. pCutBest[node][p] # None
  BY <1>1 DEF Both, Phases
<1>5. AreaInv <= Val(pCutBest, z).area
  BY <1>3, <1>4 DEF LargeInv
<1>6. AreaOf(e, CutDeref(pCutBest, nRefAct, Val(pCutBest, z))) <= AreaOf(pCutBest, nRefAct)
  BY <1>1, <1>2, <1>3, <1>5, DropArea
<1> QED
  BY <1>1, <1>3, <1>6

LEMMA TryDroppingArea ==
  ASSUME InverterIsSmallest, AreaKeptInv, TryDroppingOnePhase, MapInv' PROVE AreaKeptInv'
<1>1. /\ CircuitOK /\ MapperTypeOK /\ AreaInv \in Nat /\ MapInv /\ Ands \subseteq Nodes
  BY CircuitIs DEF AreaKeptInv, MapInv, MapperTypeOK
<1>2. /\ node \in Nodes /\ node \in Ands /\ pCutBest \in Coverings
      /\ nRefAct \in Counters /\ circuit \in Circuits /\ circuit' = circuit /\ LargeInv
      /\ pCutBest' \in Coverings
  <2>1. pCutBest' \in Coverings' /\ circuit' = circuit
    BY DEF TryDroppingOnePhase, MapInv, MapperTypeOK
  <2> QED
    BY <1>1, <2>1, SameCircuit DEF MapperTypeOK, AreaKeptInv
<1>3. ~Counted' /\ AreaFinal' = AreaFinal /\ AreaFinal \in Int
  BY DEF TryDroppingOnePhase, Counted, AreaKeptInv
<1>4. LargeInv'
  <2>1. ASSUME NEW p \in Phases, DropPhase(p) PROVE LargeInv'
    <3>1. pCutBest' = Put(pCutBest, node, p, None)
      BY <2>1 DEF DropPhase, Put
    <3> QED
      BY <1>2, <3>1, LargeKept
  <2>2. CASE UNCHANGED <<pCutBest, nRefAct>>
    BY <1>2, <2>2, AreaUnchanged
  <2> QED
    BY <2>1, <2>2 DEF TryDroppingOnePhase
<1>5. ASSUME Maintained' PROVE AreaOf(pCutBest, nRefAct)' <= AreaFinal
  <2>1. Maintained /\ mpc = "match" /\ fMappingMode # 0
    BY <1>3, <1>5 DEF TryDroppingOnePhase, Maintained, Counted
  <2>2. Covers(pCutBest, nRefAct) /\ AreaOf(pCutBest, nRefAct) <= AreaFinal
    BY <1>1, <2>1 DEF AreaKeptInv, MapInv, CoverInv, GrowthInv
  <2>3. ASSUME NEW e, e = pCutBest', NEW s, s = nRefAct'
        PROVE  /\ AreaOf(e, s) <= AreaOf(pCutBest, nRefAct)
               /\ AreaOf(e, s) \in Int /\ AreaOf(pCutBest, nRefAct) \in Int
               /\ AreaOf(pCutBest, nRefAct)' = AreaOf(e, s)
    <3>1. AreaOf(e, s) \in Int /\ AreaOf(pCutBest, nRefAct) \in Int
      BY <1>1, <1>2, <2>3, AreasAre
    <3>2. ASSUME NEW p \in Phases, DropPhase(p) PROVE AreaOf(e, s) <= AreaOf(pCutBest, nRefAct)
      BY <1>1, <1>2, <2>1, <2>2, <2>3, <3>2, DropKeepsArea
    <3>3. ASSUME UNCHANGED <<pCutBest, nRefAct>>
          PROVE  AreaOf(e, s) <= AreaOf(pCutBest, nRefAct)
      BY <2>3, <3>1, <3>3
    <3>4. AreaOf(e, s) <= AreaOf(pCutBest, nRefAct)
      BY <3>2, <3>3 DEF TryDroppingOnePhase
    <3>5. AreaOf(pCutBest, nRefAct)' = AreaOf(e, s)
      BY <1>2, <2>3, SameArea
    <3> QED
      BY <3>1, <3>4, <3>5
  <2> QED
    BY <1>3, <2>2, <2>3
<1> QED
  BY <1>3, <1>4, <1>5 DEF AreaKeptInv, CountedInv, GrowthInv

LEMMA CountRefsArea ==
  ASSUME AreaKeptInv, CountRefs, MapInv' PROVE AreaKeptInv'
<1>1. /\ CircuitOK /\ MapperTypeOK /\ AreaInv \in Nat /\ MapInv
  BY CircuitIs DEF AreaKeptInv, MapInv, MapperTypeOK
<1>2. /\ circuit' = circuit /\ pCutBest' = pCutBest /\ nRefAct' = SetRefs(pCutBest)
      /\ pCutBest \in Coverings /\ mpc' = "counted" /\ AreaFinal \in Int
      /\ fMappingMode' = fMappingMode /\ trial' = trial
  BY <1>1 DEF CountRefs, MapperTypeOK, AreaKeptInv
<1>3. ASSUME NEW s, s = nRefAct'
      PROVE  s \in Counters /\ Covers(pCutBest, s) /\ Made(pCutBest, s)
  BY <1>1, <1>2, <1>3, SetRefsCover, SetRefsAre DEF Made
<1>4. ASSUME NEW s, s = nRefAct'
      PROVE  /\ Covers(pCutBest, nRefAct)' /\ Made(pCutBest, nRefAct)'
             /\ AreaOf(pCutBest, nRefAct)' = AreaOf(pCutBest, s)
             /\ GetArea(pCutBest, s) = AreaOf(pCutBest, s) /\ AreaOf(pCutBest, s) \in Int
  <2>1. s \in Counters /\ Covers(pCutBest, s) /\ Made(pCutBest, s)
    BY <1>3, <1>4
  <2>2. NotNegative(s)
    BY <1>1, <1>2, <2>1, CoverNotNegative
  <2> QED
    BY <1>1, <1>2, <1>4, <2>1, <2>2, SameSlack, SameArea, GetAreaIs, AreasAre
<1>5. ASSUME NEW s, s = nRefAct'
      PROVE  /\ AreaFinal' \in Int
             /\ fMappingMode > 0 \/ trial < nTrials => AreaFinal' = AreaOf(pCutBest, s)
  <2>1. AreaFinal' = IF fMappingMode = 0 /\ trial = nTrials THEN AreaFinal ELSE GetArea(pCutBest, s)
    BY <1>5 DEF CountRefs
  <2>2. ~(fMappingMode = 0 /\ trial = nTrials) <=> fMappingMode > 0 \/ trial < nTrials
    BY <1>1, CircuitIs DEF MapperTypeOK
  <2>3. GetArea(pCutBest, s) = AreaOf(pCutBest, s) /\ AreaOf(pCutBest, s) \in Int
    BY <1>4, <1>5
  <2> QED
    BY <1>2, <2>1, <2>2, <2>3
<1>6. CountedInv' /\ AreaFinal' \in Int
  BY <1>2, <1>4, <1>5 DEF CountedInv
<1>7. LargeInv' /\ GrowthInv'
  BY <1>2, AreaUnchanged DEF GrowthInv
<1> QED
  BY <1>6, <1>7 DEF AreaKeptInv

LEMMA CleanMatchesArea ==
  ASSUME AreaKeptInv, CleanMatches, MapInv' PROVE AreaKeptInv'
<1>1. /\ CircuitOK /\ MapperTypeOK /\ nTrials \in Nat /\ circuit' = circuit
  BY CircuitIs DEF CleanMatches, AreaKeptInv, MapInv, MapperTypeOK
<1>2. Ands' = Ands /\ Ands \subseteq Nodes
  BY <1>1, SameCircuit, CircuitIs DEF MapperTypeOK
<1>3. fMappingMode = 0
  BY <1>1 DEF CleanMatches, AreaKeptInv, MapInv, TrialInv, MapperTypeOK
<1>4. LargeInv'
  BY <1>2 DEF CleanMatches, LargeInv, NoCuts
<1>5. ~Counted' /\ ~Maintained' /\ AreaFinal' = AreaFinal
  BY <1>3 DEF CleanMatches, Counted, Maintained
<1> QED
  BY <1>4, <1>5 DEF AreaKeptInv, CountedInv, GrowthInv

LEMMA NextPassArea ==
  ASSUME AreaKeptInv, NextPass, MapInv' PROVE AreaKeptInv'
<1>1. /\ circuit' = circuit /\ pCutBest' = pCutBest /\ nRefAct' = nRefAct
      /\ AreaFinal' = AreaFinal /\ trial' = trial /\ Counted /\ AreaFinal \in Int
      /\ CountedInv /\ trial = nTrials
  BY DEF NextPass, Counted, AreaKeptInv
<1>2. MapperTypeOK /\ nTrials \in Nat
  BY CircuitIs DEF AreaKeptInv, MapInv, MapperTypeOK
<1>3. /\ LargeInv' /\ AreaOf(pCutBest, nRefAct)' = AreaOf(pCutBest, nRefAct)
      /\ Covers(pCutBest, nRefAct)' <=> Covers(pCutBest, nRefAct)
      /\ Made(pCutBest, nRefAct)' <=> Made(pCutBest, nRefAct)
  BY <1>1, AreaUnchanged
<1>4. CASE fMappingMode < 3
  <2>1. mpc' = "match" /\ fMappingMode' = fMappingMode + 1
    BY <1>4 DEF NextPass
  <2>2. Maintained' => fMappingMode > 0
    BY <1>2, <2>1 DEF Maintained, MapperTypeOK
  <2>3. GrowthInv'
    <3>1. Maintained' => AreaFinal = AreaOf(pCutBest, nRefAct)
      BY <1>1, <2>2 DEF CountedInv
    <3> QED
      BY <1>1, <1>3, <3>1 DEF GrowthInv
  <2> QED
    BY <1>1, <1>3, <2>1, <2>3 DEF AreaKeptInv, CountedInv, Counted
<1>5. CASE ~(fMappingMode < 3)
  <2>1. mpc' = "done" /\ fMappingMode' = fMappingMode
    BY <1>5 DEF NextPass
  <2> QED
    BY <1>1, <1>3, <2>1 DEF AreaKeptInv, CountedInv, GrowthInv, Counted, Maintained
<1> QED
  BY <1>4, <1>5

LEMMA AreaSteps ==
  ASSUME InverterIsSmallest, AreaKeptInv, [Next]_vars PROVE AreaKeptInv'
<1>1. MapInv'
  BY MapSteps DEF AreaKeptInv
<1>2. CASE UNCHANGED vars
  <2>1. circuit' = circuit /\ pCutBest' = pCutBest /\ nRefAct' = nRefAct
    BY <1>2 DEF vars
  <2>2. /\ LargeInv' /\ AreaOf(pCutBest, nRefAct)' = AreaOf(pCutBest, nRefAct)
        /\ Covers(pCutBest, nRefAct)' <=> Covers(pCutBest, nRefAct)
        /\ Made(pCutBest, nRefAct)' <=> Made(pCutBest, nRefAct)
    BY <2>1, AreaUnchanged
  <2> QED
    BY <1>1, <1>2, <2>2 DEF vars, AreaKeptInv, CountedInv, GrowthInv, Counted, Maintained
<1>3. CASE Next
  BY <1>1, <1>3, MatchByFlowArea, MatchByAreaArea, NoMatchArea, TryDroppingArea,
     CountRefsArea,
     CleanMatchesArea, NextPassArea DEF Next
<1> QED
  BY <1>2, <1>3

\* With a library whose smallest gate is the inverter the covering's area never grows in
\* an exact pass, and the area that Map_MappingGetArea returns is the covering's.
THEOREM AreaKept ==
  ASSUME InverterIsSmallest PROVE Spec => []AreaNeverGrows
<1>1. Init => AreaKeptInv
  BY AreaInitially
<1>2. AreaKeptInv /\ [Next]_vars => AreaKeptInv'
  BY AreaSteps
<1>3. ASSUME AreaKeptInv, Maintained, mpc = "match" PROVE TrueArea(pCutBest) <= AreaFinal
  <2>1. /\ CircuitOK /\ AreaInv \in Nat /\ pCutBest \in Coverings /\ nRefAct \in Counters
        /\ Covers(pCutBest, nRefAct) /\ AreaOf(pCutBest, nRefAct) <= AreaFinal
        /\ AreaFinal \in Int
    BY <1>3, CircuitIs DEF AreaKeptInv, MapInv, MapperTypeOK, CoverInv, GrowthInv
  <2>2. TrueArea(pCutBest) <= AreaOf(pCutBest, nRefAct)
    BY <2>1, CountedArea
  <2>3. TrueArea(pCutBest) \in Int /\ AreaOf(pCutBest, nRefAct) \in Int
    BY <2>1, TrueAreaIs, AreasAre
  <2> QED
    BY <2>1, <2>2, <2>3
<1>4. ASSUME AreaKeptInv, Counted, fMappingMode > 0 \/ trial < nTrials
      PROVE  AreaFinal = TrueArea(pCutBest)
  <2>1. /\ CircuitOK /\ AreaInv \in Nat /\ pCutBest \in Coverings /\ nRefAct \in Counters
        /\ Covers(pCutBest, nRefAct) /\ Made(pCutBest, nRefAct)
        /\ AreaFinal = AreaOf(pCutBest, nRefAct)
    BY <1>4, CircuitIs DEF AreaKeptInv, MapInv, MapperTypeOK, CountedInv
  <2> QED
    BY <2>1, CountedArea
<1>5. AreaKeptInv => AreaNeverGrows
  BY <1>3, <1>4 DEF AreaNeverGrows, Counted
<1> QED
  BY <1>1, <1>2, <1>5, PTL DEF Spec
================================================================================
