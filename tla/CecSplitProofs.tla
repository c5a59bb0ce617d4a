--------------------------- MODULE CecSplitProofs ---------------------------
(***************************************************************************)
(* Proofs about miter splitting (CecSplitTest: the threads of CecSplitPool *)
(* and the serial procedure) as a command of a session, for every number   *)
(* of workers, every miter over any inputs, and every answer of the        *)
(* solvers.                                                                *)
(***************************************************************************)
EXTENDS ParallelCommands, FiniteSetTheorems, SequenceTheorems, TLAPS

\* Some of the inputs, with their constants.
Partial == UNION {[D -> {0, 1}] : D \in SUBSET Vars}
Cofactors == [values : Partial, vCofVars : Partial]

\* Neither NULL nor what a lost record holds is a cofactor.
Bounds == IterLimits \subseteq Nat /\ NoJob \notin Cofactors /\ Garbage \notin Cofactors

Jobs == Cofactors \union {NoJob, Garbage}
Searching == {"create", "while", "scan", "assign", "raise", "endscan", "conclude"}
MPcs == Searching \union {"wait", "stop", "stopraise", "returned"}

\* The types of the program's variables.
TypeOK ==
  /\ wpc \in [Cec!Worker -> Cec!WorkerPcs] /\ DOMAIN cur = Cec!Worker
  /\ fWorking \in [Cec!Worker -> {0, 1}] /\ job \in [Cec!Worker -> Jobs]
  /\ mpc \in MPcs /\ scan \in Cec!Worker
  /\ Sat \subseteq Cec!Assignments /\ nIterMax \in Nat /\ nIter \in Nat
  /\ vStack \in Seq(Cofactors)
  /\ Result \in [Cec!Worker -> {Cec!SAT, Cec!UNSAT, Cec!UNDEC}]
  /\ fWorkToDo \in BOOLEAN /\ RetValue \in {Cec!SAT, Cec!UNSAT, Cec!UNDEC}

\* The constants of the session are such constants.
LEMMA PoolConstants == nSolvers \in Nat \ {0} /\ NoJob # Garbage
  BY CommandConstants, JobConstants

LEMMA BoundsHold == Bounds
  BY CommandConstants, JobConstants DEF Bounds, Cofactors, Partial

-----------------------------------------------------------------------------
(* The inductive invariant of the threads. *)

\* A worker with nothing to do, and one that has a cofactor.
Idle(w) == wpc[w] = "spin" /\ fWorking[w] = 0
Working(w) == /\ fWorking[w] = 1 /\ job[w] \in Cofactors
              /\ wpc[w] \in {"spin", "read", "run", "clear"}
              /\ wpc[w] \in {"run", "clear"} => cur[w] = job[w]

\* Flags and positions of manager and workers, as long as there is no verdict.
LinkInv ==
  /\ mpc = "create" =>
       /\ \A w \in Cec!Worker : fWorking[w] = 0 /\ wpc[w] \in {"none", "spin"} /\ job[w] = NoJob
       /\ \A w \in Cec!Worker : w < scan => wpc[w] = "spin"
  /\ mpc \in Searching /\ mpc # "create" =>
       \A w \in Cec!Worker : (Idle(w) /\ job[w] \in Cofactors \union {NoJob}) \/ Working(w)
  /\ mpc = "assign" => Idle(scan) /\ job[scan] = NoJob
  /\ mpc = "raise" => Idle(scan) /\ job[scan] \in Cofactors

\* The answer about the cofactor in the record is right, if there is one.
Right(w) == /\ Result[w] = Cec!SAT => Sat # {}
            /\ Result[w] = Cec!UNSAT => Cec!Inputs(job[w]) \intersect Sat = {}

AnswerInv ==
  mpc \in Searching =>
    \A w \in Cec!Worker :
      /\ wpc[w] = "clear" => Right(w)
      /\ Idle(w) /\ job[w] # NoJob /\ ~(mpc = "raise" /\ w = scan) => Right(w)

\* No assignment is lost: what can make the miter 1 is in a record or on the stack.
OnStack(a)  == \E n \in 1..Len(vStack) : a \in Cec!Inputs(vStack[n])
InRecord(a) == \E w \in Cec!Worker : job[w] # NoJob /\ a \in Cec!Inputs(job[w])
CoverInv == mpc \in Searching => \A a \in Sat : OnStack(a) \/ InRecord(a)

\* Two cofactors have no assignment in common.
Apart(c, d) == \A a \in Cec!Inputs(c) : a \notin Cec!Inputs(d)

\* The cofactors of the stack s and those that g names for the members of W: all of
\* them are apart, and each assignment that makes the miter 1 is in one of them.
AllApart(s, W, g) ==
  /\ \A n, m \in 1..Len(s) : n # m => Apart(s[n], s[m])
  /\ \A w, x \in W : w # x => Apart(g[w], g[x])
  /\ \A n \in 1..Len(s), w \in W : Apart(s[n], g[w])
Holds(s, W, g, a) == \/ \E n \in 1..Len(s) : a \in Cec!Inputs(s[n])
                     \/ \E w \in W : a \in Cec!Inputs(g[w])

\* No assignment is in two places.
ApartInv == mpc \in Searching => AllApart(vStack, Cec!Busy, job)

\* What it means that there is no work: of the workers looked at none has any.
Seen == IF mpc = "while" \/ mpc = "endscan" \/ mpc = "conclude" THEN Cec!Worker
        ELSE {w \in Cec!Worker : w < scan}
WorkInv ==
  /\ mpc \in Searching => RetValue = Cec!UNDEC
  /\ mpc = "create" => fWorkToDo
  /\ mpc = "raise" => fWorkToDo
  /\ mpc \in Searching /\ ~fWorkToDo => vStack = <<>> /\ \A w \in Seen : job[w] = NoJob
  /\ mpc = "conclude" /\ fWorkToDo => nIterMax > 0 /\ nIter >= nIterMax

IInv == /\ TypeOK /\ LinkInv /\ AnswerInv /\ CoverInv /\ ApartInv /\ WorkInv
        /\ Cec!RightVerdict

-----------------------------------------------------------------------------
(* Lemmas about the data. *)

\* The workers are numbered from 1.
LEMMA WorkersAre ==
  /\ \A w \in Cec!Worker : w \in Nat /\ 1 <= w /\ w <= nSolvers
  /\ 1 \in Cec!Worker /\ nSolvers \in Cec!Worker
  /\ \A w \in Cec!Worker : w < nSolvers => w + 1 \in Cec!Worker
  BY PoolConstants DEF Cec!Worker

\* Neither NULL nor garbage is a cofactor, and both may be in a record.
LEMMA JobsAre ==
  ASSUME Bounds
  PROVE  /\ NoJob \in Jobs /\ Garbage \in Jobs /\ Cofactors \subseteq Jobs
         /\ NoJob \notin Cofactors /\ Garbage \notin Cofactors
  BY DEF Bounds, Jobs

\* The miter is a cofactor that stands for all assignments.
LEMMA WholeIs == Cec!Whole \in Cofactors /\ \A a \in Cec!Assignments : a \in Cec!Inputs(Cec!Whole)
<1>1. <<>> \in [{} -> {0, 1}] /\ DOMAIN <<>> = {}
  OBVIOUS
<1>2. <<>> \in Partial
  BY <1>1 DEF Partial
<1> QED
  BY <1>1, <1>2 DEF Cec!Whole, Cofactors, Cec!Inputs

\* One constant more.
LEMMA OneMore ==
  ASSUME NEW g \in Partial, NEW v \in Vars, NEW x \in {0, 1}
  PROVE  [u \in DOMAIN g \union {v} |-> IF u = v THEN x ELSE g[u]] \in Partial
<1>1. PICK D \in SUBSET Vars : g \in [D -> {0, 1}]
  BY DEF Partial
<1>2. /\ [u \in D \union {v} |-> IF u = v THEN x ELSE g[u]] \in [D \union {v} -> {0, 1}]
      /\ D \union {v} \in SUBSET Vars /\ DOMAIN g = D
  BY <1>1
<1> QED
  BY <1>2 DEF Partial

\* A cofactor is one, and the two together lose no assignment.
LEMMA Split ==
  ASSUME NEW c \in Cofactors, NEW v \in Vars
  PROVE  /\ Cec!Cofactor(c, v, 0, 0) \in Cofactors /\ Cec!Cofactor(c, v, 1, 0) \in Cofactors
         /\ \A a \in Cec!Inputs(c) : \/ a \in Cec!Inputs(Cec!Cofactor(c, v, 0, 0))
                                 \/ a \in Cec!Inputs(Cec!Cofactor(c, v, 1, 0))
<1>1. c.values \in Partial /\ c.vCofVars \in Partial
  BY DEF Cofactors
<1>2. ASSUME NEW x \in {0, 1}
      PROVE  /\ Cec!Cofactor(c, v, x, 0) \in Cofactors
             /\ \A a \in Cec!Inputs(c) : a[v] = x =>
                  a \in Cec!Inputs(Cec!Cofactor(c, v, x, 0))
  <2> DEFINE values == [u \in DOMAIN c.values \union {v} |-> IF u = v THEN x ELSE c.values[u]]
  <2>1. Cec!Cofactor(c, v, x, 0).values = values
    BY DEF Cec!Cofactor
  <2>2. Cec!Cofactor(c, v, x, 0) \in Cofactors
    BY <1>1, OneMore DEF Cec!Cofactor, Cofactors
  <2>3. ASSUME NEW a \in Cec!Inputs(c), a[v] = x
        PROVE  a \in Cec!Assignments /\ \A u \in DOMAIN values : a[u] = values[u]
    BY <2>3 DEF Cec!Inputs
  <2> QED
    BY <2>1, <2>2, <2>3 DEF Cec!Inputs
<1>3. \A a \in Cec!Inputs(c) : a[v] = 0 \/ a[v] = 1
  BY DEF Cec!Inputs, Cec!Assignments
<1> QED
  BY <1>2, <1>3

\* What a push and a pop do to a stack.
LEMMA Pushed ==
  ASSUME NEW S, NEW s \in Seq(S), NEW c \in S, NEW d \in S
  PROVE  /\ s \o <<c, d>> \in Seq(S) /\ Len(s \o <<c, d>>) = Len(s) + 2
         /\ \A n \in 1..Len(s) : (s \o <<c, d>>)[n] = s[n]
         /\ (s \o <<c, d>>)[Len(s) + 1] = c /\ (s \o <<c, d>>)[Len(s) + 2] = d
  OBVIOUS

LEMMA Popped ==
  ASSUME NEW S, NEW s \in Seq(S), s # <<>>
  PROVE  /\ Cec!Last(s) \in S /\ Cec!Front(s) \in Seq(S)
         /\ Len(Cec!Front(s)) = Len(s) - 1 /\ Cec!Last(s) = s[Len(s)]
         /\ \A n \in 1..(Len(s) - 1) : Cec!Front(s)[n] = s[n]
<1>1. Len(s) \in Nat \ {0} /\ \A n \in 1..Len(s) : s[n] \in S
  BY EmptySeq, LenProperties
<1>2. /\ Cec!Front(s) \in Seq(S) /\ Len(Cec!Front(s)) = Len(s) - 1
      /\ \A n \in 1..(Len(s) - 1) : Cec!Front(s)[n] = s[n]
  <2>1. \A n \in 1..(Len(s) - 1) : s[n] \in S
    BY <1>1
  <2>2. 1 \in Int /\ Len(s) - 1 \in Int
    BY <1>1
  <2>3. /\ SubSeq(s, 1, Len(s) - 1) \in Seq(S)
        /\ Len(SubSeq(s, 1, Len(s) - 1)) = IF 1 <= Len(s) - 1 THEN (Len(s) - 1) - 1 + 1 ELSE 0
        /\ \A n \in 1..((Len(s) - 1) - 1 + 1) : SubSeq(s, 1, Len(s) - 1)[n] = s[1 + n - 1]
    BY <2>1, <2>2, SubSeqProperties
  <2>4. Len(SubSeq(s, 1, Len(s) - 1)) = Len(s) - 1
    <3>1. \A m \in Nat \ {0} : (IF 1 <= m - 1 THEN (m - 1) - 1 + 1 ELSE 0) = m - 1
      OBVIOUS
    <3> QED
      BY <1>1, <2>3, <3>1, Zenon
  <2>5. ASSUME NEW n \in 1..(Len(s) - 1) PROVE SubSeq(s, 1, Len(s) - 1)[n] = s[n]
    <3>1. n \in 1..((Len(s) - 1) - 1 + 1) /\ 1 + n - 1 = n
      BY <1>1
    <3> QED
      BY <2>3, <3>1
  <2> QED
    BY <2>3, <2>4, <2>5 DEF Cec!Front
<1> QED
  BY <1>1, <1>2 DEF Cec!Last

\* The two cofactors of a cofactor are apart and take no assignment from others.
LEMMA SplitApart ==
  ASSUME NEW c \in Cofactors, NEW v \in Cec!FreeVars(c),
         NEW r \in {0, 1}, NEW q \in {0, 1}
  PROVE  LET c0 == Cec!Cofactor(c, v, 0, r)
             c1 == Cec!Cofactor(c, v, 1, q)
         IN  /\ Apart(c0, c1) /\ Apart(c1, c0)
             /\ \A a \in Cec!Inputs(c0) \union Cec!Inputs(c1) : a \in Cec!Inputs(c)
<1>1. ASSUME NEW x \in {0, 1}, NEW y \in {0, 1}, NEW a \in Cec!Inputs(Cec!Cofactor(c, v, x, y))
      PROVE  a[v] = x /\ a \in Cec!Inputs(c)
  <2> DEFINE values == [u \in DOMAIN c.values \union {v} |-> IF u = v THEN x ELSE c.values[u]]
  <2>1. Cec!Cofactor(c, v, x, y).values = values
    BY DEF Cec!Cofactor
  <2>2. a \in Cec!Assignments /\ \A u \in DOMAIN values : a[u] = values[u]
    BY <1>1, <2>1 DEF Cec!Inputs
  <2>3. v \notin DOMAIN c.values
    BY DEF Cec!FreeVars
  <2>4. a[v] = x /\ \A u \in DOMAIN c.values : a[u] = c.values[u]
    BY <2>2, <2>3
  <2> QED
    BY <2>2, <2>4 DEF Cec!Inputs
<1> QED
  BY <1>1 DEF Apart

\* Every cofactor stands for some assignment, so those that are apart differ.
LEMMA NotEmpty == ASSUME NEW c \in Cofactors PROVE \E a : a \in Cec!Inputs(c)
<1> DEFINE a == [v \in Vars |-> IF v \in DOMAIN c.values THEN c.values[v] ELSE 0]
<1>1. PICK D \in SUBSET Vars : c.values \in [D -> {0, 1}]
  BY DEF Cofactors, Partial
<1>2. a \in Cec!Assignments /\ \A v \in DOMAIN c.values : a[v] = c.values[v]
  BY <1>1 DEF Cec!Assignments
<1> QED
  BY <1>2 DEF Cec!Inputs

LEMMA ApartDiffer ==
  ASSUME NEW c \in Cofactors, NEW d \in Cofactors, Apart(c, d)
  PROVE  c # d
  BY NotEmpty DEF Apart

\* What happens to the cofactors: one leaves, is split on the stack, or comes from it.
LEMMA ApartDropped ==
  ASSUME NEW s, NEW W, NEW g, NEW V, NEW h, AllApart(s, W, g),
         V \subseteq W, \A w \in V : h[w] = g[w]
  PROVE  AllApart(s, V, h)
  BY DEF AllApart

LEMMA ApartPushed ==
  ASSUME NEW s \in Seq(Cofactors), NEW W, NEW g, NEW V, NEW h, AllApart(s, W, g),
         NEW x \in W, NEW c \in Cofactors, NEW d \in Cofactors,
         V = W \ {x}, \A w \in V : h[w] = g[w],
         Apart(c, d), Apart(d, c),
         \A a \in Cec!Inputs(c) \union Cec!Inputs(d) : a \in Cec!Inputs(g[x])
  PROVE  AllApart(s \o <<c, d>>, V, h)
<1> DEFINE t == s \o <<c, d>>
<1>1. /\ Len(s) \in Nat /\ Len(t) = Len(s) + 2
      /\ \A n \in 1..Len(s) : t[n] = s[n]
      /\ t[Len(s) + 1] = c /\ t[Len(s) + 2] = d
  BY Pushed, LenProperties
<1> HIDE DEF t
<1>2. \A n \in 1..Len(t) : n \in 1..Len(s) \/ n = Len(s) + 1 \/ n = Len(s) + 2
  BY <1>1
<1>3. ASSUME NEW n \in 1..Len(s)
      PROVE  /\ Apart(s[n], c) /\ Apart(s[n], d) /\ Apart(c, s[n]) /\ Apart(d, s[n])
  BY DEF AllApart, Apart
<1>4. ASSUME NEW w \in V PROVE Apart(c, h[w]) /\ Apart(d, h[w])
  <2>1. w \in W /\ w # x /\ h[w] = g[w]
    OBVIOUS
  <2> QED
    BY <2>1 DEF AllApart, Apart
<1>5. ASSUME NEW n \in 1..Len(t), NEW m \in 1..Len(t), n # m PROVE Apart(t[n], t[m])
  <2>1. CASE n \in 1..Len(s) /\ m \in 1..Len(s)
    BY <1>1, <1>5, <2>1 DEF AllApart
  <2>2. CASE n \in 1..Len(s) /\ m \notin 1..Len(s)
    BY <1>1, <1>2, <1>3, <2>2
  <2>3. CASE n \notin 1..Len(s) /\ m \in 1..Len(s)
    BY <1>1, <1>2, <1>3, <2>3
  <2>4. CASE n \notin 1..Len(s) /\ m \notin 1..Len(s)
    BY <1>1, <1>2, <1>5, <2>4
  <2> QED
    BY <2>1, <2>2, <2>3, <2>4
<1>6. ASSUME NEW n \in 1..Len(t), NEW w \in V PROVE Apart(t[n], h[w])
  <2>1. CASE n \in 1..Len(s)
    BY <1>1, <2>1 DEF AllApart
  <2>2. CASE n \notin 1..Len(s)
    BY <1>1, <1>2, <1>4, <2>2
  <2> QED
    BY <2>1, <2>2
<1>7. \A w, y \in V : w # y => Apart(h[w], h[y])
  BY DEF AllApart
<1> QED
  BY <1>5, <1>6, <1>7 DEF AllApart, t

LEMMA ApartPopped ==
  ASSUME NEW s \in Seq(Cofactors), s # <<>>, NEW W, NEW g, NEW x, NEW h,
         AllApart(s, W, g), x \notin W,
         \A w \in W : h[w] = g[w], h[x] = Cec!Last(s)
  PROVE  AllApart(Cec!Front(s), W \union {x}, h)
<1> DEFINE t == Cec!Front(s)
<1>1. /\ Len(s) \in Nat \ {0} /\ Len(t) = Len(s) - 1
      /\ h[x] = s[Len(s)]
      /\ \A n \in 1..(Len(s) - 1) : t[n] = s[n]
  BY Popped, LenProperties, EmptySeq
<1> HIDE DEF t
<1>2. \A n \in 1..Len(t) : n \in 1..Len(s) /\ n # Len(s) /\ t[n] = s[n]
  BY <1>1
<1>3. Len(s) \in 1..Len(s)
  BY <1>1
<1>4. \A n, m \in 1..Len(t) : n # m => Apart(t[n], t[m])
  BY <1>2 DEF AllApart
<1>5. \A w \in W : Apart(h[w], h[x]) /\ Apart(h[x], h[w])
  BY <1>1, <1>3 DEF AllApart, Apart
<1>6. \A w, y \in W \union {x} : w # y => Apart(h[w], h[y])
  BY <1>5 DEF AllApart
<1>7. \A n \in 1..Len(t), w \in W \union {x} : Apart(t[n], h[w])
  BY <1>1, <1>2, <1>3 DEF AllApart
<1> QED
  BY <1>4, <1>6, <1>7 DEF AllApart, t

\* What NothingLost says follows: it speaks of the set of the cofactors.
LEMMA OutApart ==
  ASSUME NEW s \in Seq(Cofactors), NEW W, NEW g, \A w \in W : g[w] \in Cofactors,
         AllApart(s, W, g)
  PROVE  /\ \A c, d \in {g[w] : w \in W} \union Cec!Range(s) : c # d => Apart(c, d)
         /\ \A w, x \in W : g[w] = g[x] => w = x
         /\ {g[w] : w \in W} \intersect Cec!Range(s) = {}
<1>1. /\ \A c \in Cec!Range(s) : \E n \in 1..Len(s) : c = s[n]
      /\ \A n \in 1..Len(s) : s[n] \in Cofactors
  BY DEF Cec!Range
<1>2. ASSUME NEW c \in {g[w] : w \in W} \union Cec!Range(s),
             NEW d \in {g[w] : w \in W} \union Cec!Range(s), c # d
      PROVE  Apart(c, d)
  <2>1. CASE \E w, x \in W : c = g[w] /\ d = g[x]
    BY <1>2, <2>1 DEF AllApart
  <2>2. CASE \E n \in 1..Len(s), w \in W : {c, d} = {s[n], g[w]}
    <3>1. PICK n \in 1..Len(s), w \in W : {c, d} = {s[n], g[w]}
      BY <2>2
    <3>2. (c = s[n] /\ d = g[w]) \/ (c = g[w] /\ d = s[n])
      BY <1>2, <3>1
    <3> QED
      BY <3>2 DEF AllApart, Apart
  <2>3. CASE \E n, m \in 1..Len(s) : c = s[n] /\ d = s[m]
    BY <1>2, <2>3 DEF AllApart
  <2> QED
    BY <1>1, <2>1, <2>2, <2>3
<1>3. ASSUME NEW w \in W, NEW x \in W, g[w] = g[x] PROVE w = x
  BY <1>3, ApartDiffer DEF AllApart
<1>4. ASSUME NEW w \in W, g[w] \in Cec!Range(s) PROVE FALSE
  BY <1>1, <1>4, ApartDiffer DEF AllApart
<1> QED
  BY <1>2, <1>3, <1>4

LEMMA OutCovers ==
  ASSUME NEW s \in Seq(Cofactors), NEW W, NEW g, NEW a, Holds(s, W, g, a)
  PROVE  a \in Cec!Covered({g[w] : w \in W} \union Cec!Range(s))
<1>1. ASSUME NEW n \in 1..Len(s) PROVE s[n] \in Cec!Range(s)
  BY DEF Cec!Range
<1> QED
  BY <1>1 DEF Holds, Cec!Covered

-----------------------------------------------------------------------------
(* The steps of the threads. *)

\* Every step keeps the types.
LEMMA TypeStep ==
  ASSUME Bounds, IInv, [Cec!Next]_(Cec!vars)
  PROVE  TypeOK'
<1> USE PoolConstants, WorkersAre, JobsAre DEF Cec!worker, Cec!record, Cec!own, Cec!fixed,
    Cec!cexs, IInv,
      TypeOK, MPcs, Searching, Cec!WorkerPcs
<1>1. CASE Cec!StartThreads
  BY <1>1 DEF Cec!StartThreads, Cec!CreateWorker
<1>2. CASE Cec!WhileWork
  BY <1>2 DEF Cec!WhileWork
<1>3. CASE Cec!StillWorking
  BY <1>3 DEF Cec!StillWorking, Cec!NextWorker
<1>4. CASE Cec!NothingToCollect
  BY <1>4 DEF Cec!NothingToCollect
<1>5. CASE Cec!CollectSat
  BY <1>5 DEF Cec!CollectSat
<1>6. CASE Cec!CollectOther
  <2>1. /\ job[scan] \in Cofactors /\ scan \in Cec!Worker /\ Idle(scan) /\ mpc = "scan"
        /\ job' = [job EXCEPT ![scan] = NoJob] /\ vStack \in Seq(Cofactors)
    <3>1. /\ fWorking[scan] = 0 /\ job[scan] # NoJob /\ mpc = "scan"
          /\ job' = [job EXCEPT ![scan] = NoJob]
      BY <1>6 DEF Cec!CollectOther
    <3>2. scan \in Cec!Worker /\ vStack \in Seq(Cofactors)
      BY DEF TypeOK
    <3>3. (Idle(scan) /\ job[scan] \in Cofactors \union {NoJob}) \/ Working(scan)
      BY <3>1, <3>2 DEF LinkInv, Searching
    <3> QED
      BY <3>1, <3>2, <3>3 DEF Idle, Working
  <2>2. CASE /\ Result[scan] = Cec!UNDEC /\ fWorkToDo' = TRUE /\ nIter' = nIter + 1
             /\ \E v \in Cec!FreeVars(job[scan]) :
                  vStack' = vStack \o <<Cec!Cofactor(job[scan], v, 0, 0), Cec!Cofactor(job[scan], v, 1, 0)>>
    <3>1. PICK v \in Cec!FreeVars(job[scan]) :
            vStack' = vStack \o <<Cec!Cofactor(job[scan], v, 0, 0), Cec!Cofactor(job[scan], v, 1, 0)>>
      BY <2>2
    <3>2. v \in Vars
      BY DEF Cec!FreeVars
    <3> DEFINE c == Cec!Cofactor(job[scan], v, 0, 0)
               d == Cec!Cofactor(job[scan], v, 1, 0)
    <3>3. /\ c \in Cofactors /\ d \in Cofactors
          /\ \A a \in Cec!Inputs(job[scan]) : a \in Cec!Inputs(c) \/ a \in Cec!Inputs(d)
      BY <2>1, <3>2, Split
    <3> DEFINE new == vStack \o <<c, d>>
    <3>pushed. vStack' = new
      BY <3>1
    <3> HIDE DEF c, d
    <3>4. vStack' \in Seq(Cofactors)
      BY <2>1, <3>pushed, <3>3, Pushed
    <3> QED
      BY <1>6, <2>2, <3>4 DEF Cec!CollectOther
  <2>3. CASE Result[scan] = Cec!UNSAT /\ UNCHANGED <<vStack, fWorkToDo, nIter>>
    BY <1>6, <2>3 DEF Cec!CollectOther
  <2> QED
    BY <1>6, <2>2, <2>3 DEF Cec!CollectOther
<1>7. CASE Cec!NoCofactorLeft
  BY <1>7 DEF Cec!NoCofactorLeft, Cec!NextWorker
<1>8. CASE Cec!AssignCofactor
  <2>1. Cec!Last(vStack) \in Jobs /\ Cec!Front(vStack) \in Seq(Cofactors)
    BY <1>8, Popped DEF Cec!AssignCofactor
  <2> QED
    BY <1>8, <2>1 DEF Cec!AssignCofactor
<1>9. CASE Cec!StartJob
  BY <1>9 DEF Cec!StartJob, Cec!NextWorker
<1>10. CASE Cec!EndOfScan
  BY <1>10 DEF Cec!EndOfScan
<1>11. CASE Cec!NoMoreWork
  BY <1>11 DEF Cec!NoMoreWork
<1>12. CASE Cec!Conclude
  BY <1>12 DEF Cec!Conclude
<1>13. CASE Cec!WaitAll
  BY <1>13 DEF Cec!WaitAll, Cec!WaitScan
<1>14. CASE Cec!StopSkipped
  BY <1>14 DEF Cec!StopSkipped, Cec!NextStop
<1>15. CASE Cec!StopCleanup
  BY <1>15 DEF Cec!StopCleanup
<1>16. CASE Cec!StopThread
  BY <1>16 DEF Cec!StopThread, Cec!NextStop
<1>17. ASSUME NEW w \in Cec!Worker, Cec!WorkerThread(w) PROVE TypeOK'
  <2>1. CASE Cec!Wake(w) /\ UNCHANGED <<mpc, scan, Cec!fixed, Cec!own>>
    BY <2>1 DEF Cec!Wake
  <2>2. CASE Cec!ReadJob(w) /\ UNCHANGED <<mpc, scan, Cec!fixed, Cec!own>>
    BY <2>2 DEF Cec!ReadJob
  <2>3. CASE Cec!ClearFlag(w) /\ UNCHANGED <<mpc, scan, Cec!fixed, Cec!own>>
    BY <2>3 DEF Cec!ClearFlag
  <2>4. CASE Cec!Solved(w)
    <3>1. PICK answ \in Cec!Answers(cur[w]) : Result' = [Result EXCEPT ![w] = answ]
      BY <1>17, <2>4 DEF Cec!WorkerThread, Cec!Solved, Cec!Wake, Cec!ReadJob, Cec!ClearFlag
    <3>2. answ \in {Cec!SAT, Cec!UNSAT, Cec!UNDEC}
      BY DEF Cec!Answers
    <3>3. Result' \in [Cec!Worker -> {Cec!SAT, Cec!UNSAT, Cec!UNDEC}]
      BY <3>1, <3>2
    <3> QED
      BY <1>17, <2>4, <3>3 DEF Cec!WorkerThread, Cec!Solved, Cec!Wake, Cec!ReadJob,
         Cec!ClearFlag
  <2> QED
    BY <1>17, <2>1, <2>2, <2>3, <2>4 DEF Cec!WorkerThread
<1>18. ASSUME NEW w \in Cec!Worker, Cec!Reused(w) PROVE TypeOK'
  <2>1. job' \in [Cec!Worker -> Jobs]
    BY <1>18 DEF Cec!Reused, Cec!FrameReused
  <2>2. fWorking' \in [Cec!Worker -> {0, 1}]
    BY <1>18 DEF Cec!Reused, Cec!FrameReused
  <2> QED
    BY <1>18, <2>1, <2>2 DEF Cec!Reused, Cec!FrameReused
<1>19. CASE UNCHANGED Cec!vars
  BY <1>19 DEF Cec!vars
<1> QED
  BY <1>1, <1>2, <1>3, <1>4, <1>5, <1>6, <1>7, <1>8, <1>9, <1>10, <1>11, <1>12,
     <1>13, <1>14, <1>15, <1>16, <1>17, <1>18, <1>19 DEF Cec!Next, Cec!Manager

\* A worker gets a cofactor only when it is idle.
LEMMA LinkStep ==
  ASSUME Bounds, IInv, [Cec!Next]_(Cec!vars)
  PROVE  LinkInv'
<1> USE PoolConstants, WorkersAre, JobsAre DEF Cec!worker, Cec!record, Cec!own, Cec!fixed,
    Cec!cexs, IInv,
      TypeOK, LinkInv, Idle, Working, Searching
<1>1. CASE Cec!StartThreads
  BY <1>1 DEF Cec!StartThreads, Cec!CreateWorker
<1>2. CASE Cec!WhileWork
  BY <1>2 DEF Cec!WhileWork
<1>3. CASE Cec!StillWorking
  BY <1>3 DEF Cec!StillWorking, Cec!NextWorker
<1>4. CASE Cec!NothingToCollect
  BY <1>4 DEF Cec!NothingToCollect
<1>5. CASE Cec!CollectSat
  BY <1>5 DEF Cec!CollectSat
<1>6. CASE Cec!CollectOther
  BY <1>6 DEF Cec!CollectOther
<1>7. CASE Cec!NoCofactorLeft
  BY <1>7 DEF Cec!NoCofactorLeft, Cec!NextWorker
<1>8. CASE Cec!AssignCofactor
  <2>1. Cec!Last(vStack) \in Cofactors
    BY <1>8, Popped DEF Cec!AssignCofactor
  <2> QED
    BY <1>8, <2>1 DEF Cec!AssignCofactor
<1>9. CASE Cec!StartJob
  BY <1>9 DEF Cec!StartJob, Cec!NextWorker
<1>10. CASE Cec!EndOfScan
  BY <1>10 DEF Cec!EndOfScan
<1>11. CASE Cec!NoMoreWork
  BY <1>11 DEF Cec!NoMoreWork
<1>12. CASE Cec!Conclude
  BY <1>12 DEF Cec!Conclude
<1>13. CASE Cec!WaitAll
  BY <1>13 DEF Cec!WaitAll, Cec!WaitScan
<1>14. CASE Cec!StopSkipped
  BY <1>14 DEF Cec!StopSkipped, Cec!NextStop
<1>15. CASE Cec!StopCleanup
  BY <1>15 DEF Cec!StopCleanup
<1>16. CASE Cec!StopThread
  BY <1>16 DEF Cec!StopThread, Cec!NextStop
<1>17. ASSUME NEW w \in Cec!Worker, Cec!WorkerThread(w) PROVE LinkInv'
  <2>1. CASE Cec!Wake(w) /\ UNCHANGED <<mpc, scan, Cec!fixed, Cec!own>>
    <3>1. \A v \in Cec!Worker : v # w => wpc'[v] = wpc[v]
      BY <2>1 DEF Cec!Wake
    <3>2. wpc[w] = "spin" /\ fWorking[w] = 1 /\ wpc'[w] = "read"
      BY <2>1 DEF Cec!Wake
    <3>3. UNCHANGED <<cur, fWorking, job, mpc, scan>>
      BY <2>1 DEF Cec!Wake
    <3>4. mpc # "create" /\ (mpc \in {"assign", "raise"} => w # scan)
      BY <3>2
    <3>5. ASSUME NEW v \in Cec!Worker
          PROVE  (Idle(v) => Idle(v)') /\ (Working(v) => Working(v)')
      BY <3>1, <3>2, <3>3
    <3> HIDE DEF Idle, Working
    <3> QED
      BY <3>3, <3>4, <3>5
  <2>2. CASE Cec!ReadJob(w) /\ UNCHANGED <<mpc, scan, Cec!fixed, Cec!own>>
    BY <2>2 DEF Cec!ReadJob
  <2>3. CASE Cec!ClearFlag(w) /\ UNCHANGED <<mpc, scan, Cec!fixed, Cec!own>>
    BY <2>3 DEF Cec!ClearFlag
  <2>4. CASE Cec!Solved(w)
    BY <1>17, <2>4 DEF Cec!WorkerThread, Cec!Solved, Cec!Wake, Cec!ReadJob, Cec!ClearFlag
  <2> QED
    BY <1>17, <2>1, <2>2, <2>3, <2>4 DEF Cec!WorkerThread
<1>18. ASSUME NEW w \in Cec!Worker, Cec!Reused(w) PROVE LinkInv'
  BY <1>18 DEF Cec!Reused, Cec!FrameReused
<1>19. CASE UNCHANGED Cec!vars
  BY <1>19 DEF Cec!vars
<1> QED
  BY <1>1, <1>2, <1>3, <1>4, <1>5, <1>6, <1>7, <1>8, <1>9, <1>10, <1>11, <1>12,
     <1>13, <1>14, <1>15, <1>16, <1>17, <1>18, <1>19 DEF Cec!Next, Cec!Manager

\* An answer stays with its cofactor until it is collected.
LEMMA AnswerStep ==
  ASSUME Bounds, IInv, [Cec!Next]_(Cec!vars)
  PROVE  AnswerInv'
<1> USE PoolConstants, WorkersAre, JobsAre DEF Cec!worker, Cec!record, Cec!own, Cec!fixed,
    Cec!cexs, IInv,
      TypeOK, LinkInv, AnswerInv, Right, Idle, Working, Searching
<1>1. CASE Cec!StartThreads
  BY <1>1 DEF Cec!StartThreads, Cec!CreateWorker
<1>2. CASE Cec!WhileWork
  BY <1>2 DEF Cec!WhileWork
<1>3. CASE Cec!StillWorking
  BY <1>3 DEF Cec!StillWorking, Cec!NextWorker
<1>4. CASE Cec!NothingToCollect
  BY <1>4 DEF Cec!NothingToCollect
<1>5. CASE Cec!CollectSat
  BY <1>5 DEF Cec!CollectSat
<1>6. CASE Cec!CollectOther
  BY <1>6 DEF Cec!CollectOther
<1>7. CASE Cec!NoCofactorLeft
  BY <1>7 DEF Cec!NoCofactorLeft, Cec!NextWorker
<1>8. CASE Cec!AssignCofactor
  BY <1>8 DEF Cec!AssignCofactor
<1>9. CASE Cec!StartJob
  BY <1>9 DEF Cec!StartJob, Cec!NextWorker
<1>10. CASE Cec!EndOfScan
  BY <1>10 DEF Cec!EndOfScan
<1>11. CASE Cec!NoMoreWork
  BY <1>11 DEF Cec!NoMoreWork
<1>12. CASE Cec!Conclude
  BY <1>12 DEF Cec!Conclude
<1>13. CASE Cec!WaitAll
  BY <1>13 DEF Cec!WaitAll, Cec!WaitScan
<1>14. CASE Cec!StopSkipped
  BY <1>14 DEF Cec!StopSkipped, Cec!NextStop
<1>15. CASE Cec!StopCleanup
  BY <1>15 DEF Cec!StopCleanup
<1>16. CASE Cec!StopThread
  BY <1>16 DEF Cec!StopThread, Cec!NextStop
<1>17. ASSUME NEW w \in Cec!Worker, Cec!WorkerThread(w) PROVE AnswerInv'
  <2>1. CASE Cec!Wake(w) /\ UNCHANGED <<mpc, scan, Cec!fixed, Cec!own>>
    BY <2>1 DEF Cec!Wake
  <2>2. CASE Cec!ReadJob(w) /\ UNCHANGED <<mpc, scan, Cec!fixed, Cec!own>>
    BY <2>2 DEF Cec!ReadJob
  <2>3. CASE Cec!ClearFlag(w) /\ UNCHANGED <<mpc, scan, Cec!fixed, Cec!own>>
    BY <2>3 DEF Cec!ClearFlag
  <2>4. CASE Cec!Solved(w)
    <3>1. wpc[w] = "run" /\ UNCHANGED <<cur, fWorking, job, mpc, scan, Sat>>
          /\ wpc' = [wpc EXCEPT ![w] = "clear"]
      BY <1>17, <2>4 DEF Cec!WorkerThread, Cec!Solved, Cec!Wake, Cec!ReadJob, Cec!ClearFlag
    <3>2. PICK answ \in Cec!Answers(cur[w]) : Result' = [Result EXCEPT ![w] = answ]
      BY <1>17, <2>4 DEF Cec!WorkerThread, Cec!Solved, Cec!Wake, Cec!ReadJob, Cec!ClearFlag
    <3>3. ASSUME mpc \in Searching PROVE Right(w)'
      <4>1. cur[w] = job[w]
        BY <3>1, <3>3
      <4> QED
        BY <3>1, <3>2, <4>1 DEF Cec!Answers, Cec!SAT, Cec!UNSAT, Cec!UNDEC
    <3>4. \A v \in Cec!Worker : v # w => (Right(v)' <=> Right(v)) /\ wpc'[v] = wpc[v]
      BY <3>1, <3>2
    <3> HIDE DEF Right
    <3> QED
      BY <3>1, <3>3, <3>4
  <2> QED
    BY <1>17, <2>1, <2>2, <2>3, <2>4 DEF Cec!WorkerThread
<1>18. ASSUME NEW w \in Cec!Worker, Cec!Reused(w) PROVE AnswerInv'
  BY <1>18 DEF Cec!Reused, Cec!FrameReused
<1>19. CASE UNCHANGED Cec!vars
  BY <1>19 DEF Cec!vars
<1> QED
  BY <1>1, <1>2, <1>3, <1>4, <1>5, <1>6, <1>7, <1>8, <1>9, <1>10, <1>11, <1>12,
     <1>13, <1>14, <1>15, <1>16, <1>17, <1>18, <1>19 DEF Cec!Next, Cec!Manager

\* An assignment leaves a record when it is refuted, or for the stack.
LEMMA CoverStep ==
  ASSUME Bounds, IInv, [Cec!Next]_(Cec!vars)
  PROVE  CoverInv'
<1> USE PoolConstants, WorkersAre, JobsAre DEF Cec!worker, Cec!record, Cec!own, Cec!fixed,
    Cec!cexs, IInv,
      TypeOK, LinkInv, CoverInv, OnStack, InRecord, Searching
<1>1. CASE Cec!StartThreads
  BY <1>1 DEF Cec!StartThreads, Cec!CreateWorker
<1>2. CASE Cec!WhileWork
  BY <1>2 DEF Cec!WhileWork
<1>3. CASE Cec!StillWorking
  BY <1>3 DEF Cec!StillWorking, Cec!NextWorker
<1>4. CASE Cec!NothingToCollect
  BY <1>4 DEF Cec!NothingToCollect
<1>5. CASE Cec!CollectSat
  BY <1>5 DEF Cec!CollectSat
<1>6. CASE Cec!CollectOther
  <2>1. /\ job[scan] \in Cofactors /\ scan \in Cec!Worker /\ Idle(scan) /\ mpc = "scan"
        /\ job' = [job EXCEPT ![scan] = NoJob] /\ vStack \in Seq(Cofactors)
    <3>1. /\ fWorking[scan] = 0 /\ job[scan] # NoJob /\ mpc = "scan"
          /\ job' = [job EXCEPT ![scan] = NoJob]
      BY <1>6 DEF Cec!CollectOther
    <3>2. scan \in Cec!Worker /\ vStack \in Seq(Cofactors)
      BY DEF TypeOK
    <3>3. (Idle(scan) /\ job[scan] \in Cofactors \union {NoJob}) \/ Working(scan)
      BY <3>1, <3>2 DEF LinkInv, Searching
    <3> QED
      BY <3>1, <3>2, <3>3 DEF Idle, Working
  <2>2. CASE /\ Result[scan] = Cec!UNDEC /\ fWorkToDo' = TRUE /\ nIter' = nIter + 1
             /\ \E v \in Cec!FreeVars(job[scan]) :
                  vStack' = vStack \o <<Cec!Cofactor(job[scan], v, 0, 0), Cec!Cofactor(job[scan], v, 1, 0)>>
    <3>1. PICK v \in Cec!FreeVars(job[scan]) :
            vStack' = vStack \o <<Cec!Cofactor(job[scan], v, 0, 0), Cec!Cofactor(job[scan], v, 1, 0)>>
      BY <2>2
    <3>2. v \in Vars
      BY DEF Cec!FreeVars
    <3> DEFINE c == Cec!Cofactor(job[scan], v, 0, 0)
               d == Cec!Cofactor(job[scan], v, 1, 0)
    <3>3. /\ c \in Cofactors /\ d \in Cofactors
          /\ \A a \in Cec!Inputs(job[scan]) : a \in Cec!Inputs(c) \/ a \in Cec!Inputs(d)
      BY <2>1, <3>2, Split
    <3> DEFINE new == vStack \o <<c, d>>
    <3>pushed. vStack' = new
      BY <3>1
    <3> HIDE DEF c, d
    <3>4. /\ Len(vStack) \in Nat /\ Len(vStack') = Len(vStack) + 2
          /\ \A n \in 1..Len(vStack) : vStack'[n] = vStack[n]
          /\ vStack'[Len(vStack) + 1] = c /\ vStack'[Len(vStack) + 2] = d
      BY <2>1, <3>pushed, <3>3, Pushed, LenProperties
    <3>5. ASSUME NEW a \in Sat, OnStack(a) \/ InRecord(a) PROVE OnStack(a)' \/ InRecord(a)'
      <4>1. CASE OnStack(a)
        <5>1. PICK n \in 1..Len(vStack) : a \in Cec!Inputs(vStack[n])
          BY <4>1
        <5>2. n \in 1..Len(vStack') /\ a \in Cec!Inputs(vStack'[n])
          BY <3>4, <5>1
        <5> QED
          BY <5>2 DEF Cec!Inputs
      <4>2. CASE InRecord(a)
        <5>1. PICK w \in Cec!Worker : job[w] # NoJob /\ a \in Cec!Inputs(job[w])
          BY <4>2
        <5>2. CASE w = scan
          <6>1. a \in Cec!Inputs(c) \/ a \in Cec!Inputs(d)
            BY <3>3, <5>1, <5>2
          <6>2. Len(vStack) + 1 \in 1..Len(vStack') /\ Len(vStack) + 2 \in 1..Len(vStack')
            BY <3>4
          <6> QED
            BY <3>4, <6>1, <6>2 DEF Cec!Inputs
        <5>3. CASE w # scan
          BY <2>1, <5>1, <5>3 DEF Cec!Inputs
        <5> QED
          BY <5>2, <5>3
      <4> QED
        BY <3>5, <4>1, <4>2
    <3> QED
      BY <1>6, <2>1, <3>5 DEF Cec!CollectOther
  <2>3. CASE Result[scan] = Cec!UNSAT /\ UNCHANGED <<vStack, fWorkToDo, nIter>>
    <3>1. Cec!Inputs(job[scan]) \intersect Sat = {}
      BY <2>1, <2>3 DEF AnswerInv, Right, Idle
    <3>2. ASSUME NEW a \in Sat, InRecord(a) PROVE InRecord(a)'
      BY <2>1, <3>1, <3>2 DEF Cec!Inputs
    <3>3. \A a : OnStack(a) => OnStack(a)'
      BY <2>3 DEF Cec!Inputs
    <3> HIDE DEF OnStack, InRecord
    <3> QED
      BY <1>6, <2>1, <3>2, <3>3 DEF Cec!CollectOther
  <2> QED
    BY <1>6, <2>2, <2>3 DEF Cec!CollectOther
<1>7. CASE Cec!NoCofactorLeft
  BY <1>7 DEF Cec!NoCofactorLeft, Cec!NextWorker
<1>8. CASE Cec!AssignCofactor
  <2> USE <1>8 DEF Cec!AssignCofactor
  <2>1. /\ scan \in Cec!Worker /\ job[scan] = NoJob /\ mpc = "assign" /\ Sat' = Sat
        /\ vStack \in Seq(Cofactors) /\ vStack # <<>>
    BY DEF LinkInv
  <2>2. /\ Len(vStack) \in Nat /\ Len(vStack') = Len(vStack) - 1
        /\ job'[scan] = vStack[Len(vStack)] /\ job'[scan] # NoJob
        /\ \A n \in 1..(Len(vStack) - 1) : vStack'[n] = vStack[n]
    <3>1. /\ Cec!Last(vStack) \in Cofactors /\ Cec!Last(vStack) = vStack[Len(vStack)]
          /\ Len(Cec!Front(vStack)) = Len(vStack) - 1 /\ Len(vStack) \in Nat
          /\ \A n \in 1..(Len(vStack) - 1) : Cec!Front(vStack)[n] = vStack[n]
      BY <2>1, Popped, LenProperties, Zenon
    <3>2. vStack' = Cec!Front(vStack) /\ job'[scan] = Cec!Last(vStack)
      BY <2>1
    <3> HIDE DEF Cec!AssignCofactor, IInv, TypeOK, LinkInv, CoverInv, Searching
    <3> QED
      BY <3>1, <3>2
  <2>3. \A w \in Cec!Worker : w # scan => job'[w] = job[w]
    OBVIOUS
  <2> HIDE DEF Cec!AssignCofactor, IInv, TypeOK, LinkInv, CoverInv, Searching
  <2>4. ASSUME NEW a \in Sat, OnStack(a) PROVE OnStack(a)' \/ InRecord(a)'
    <3>1. PICK n \in 1..Len(vStack) : a \in Cec!Inputs(vStack[n])
      BY <2>4
    <3>2. CASE n = Len(vStack)
      <4>1. a \in Cec!Inputs(job'[scan]) /\ job'[scan] # NoJob /\ scan \in Cec!Worker
        BY <2>1, <2>2, <3>1, <3>2
      <4> QED
        BY <4>1 DEF Cec!Inputs
    <3>3. CASE n # Len(vStack)
      <4>1. n \in 1..Len(vStack') /\ vStack'[n] = vStack[n]
        BY <2>2, <3>1, <3>3
      <4>2. a \in Cec!Inputs(vStack'[n])
        BY <3>1, <4>1
      <4> QED
        BY <4>1, <4>2 DEF Cec!Inputs
    <3> QED
      BY <3>2, <3>3
  <2>5. ASSUME NEW a \in Sat, InRecord(a) PROVE InRecord(a)'
    BY <2>1, <2>3, <2>5 DEF Cec!Inputs
  <2> HIDE DEF OnStack, InRecord
  <2> QED
    BY <2>1, <2>4, <2>5 DEF IInv, CoverInv, Searching
<1>9. CASE Cec!StartJob
  BY <1>9 DEF Cec!StartJob, Cec!NextWorker
<1>10. CASE Cec!EndOfScan
  BY <1>10 DEF Cec!EndOfScan
<1>11. CASE Cec!NoMoreWork
  BY <1>11 DEF Cec!NoMoreWork
<1>12. CASE Cec!Conclude
  BY <1>12 DEF Cec!Conclude
<1>13. CASE Cec!WaitAll
  BY <1>13 DEF Cec!WaitAll, Cec!WaitScan
<1>14. CASE Cec!StopSkipped
  BY <1>14 DEF Cec!StopSkipped, Cec!NextStop
<1>15. CASE Cec!StopCleanup
  BY <1>15 DEF Cec!StopCleanup
<1>16. CASE Cec!StopThread
  BY <1>16 DEF Cec!StopThread, Cec!NextStop
<1>17. ASSUME NEW w \in Cec!Worker, Cec!WorkerThread(w) PROVE CoverInv'
  <2>1. CASE Cec!Wake(w) /\ UNCHANGED <<mpc, scan, Cec!fixed, Cec!own>>
    BY <2>1 DEF Cec!Wake
  <2>2. CASE Cec!ReadJob(w) /\ UNCHANGED <<mpc, scan, Cec!fixed, Cec!own>>
    BY <2>2 DEF Cec!ReadJob
  <2>3. CASE Cec!ClearFlag(w) /\ UNCHANGED <<mpc, scan, Cec!fixed, Cec!own>>
    BY <2>3 DEF Cec!ClearFlag
  <2>4. CASE Cec!Solved(w)
    BY <1>17, <2>4 DEF Cec!WorkerThread, Cec!Solved, Cec!Wake, Cec!ReadJob, Cec!ClearFlag
  <2> QED
    BY <1>17, <2>1, <2>2, <2>3, <2>4 DEF Cec!WorkerThread
<1>18. ASSUME NEW w \in Cec!Worker, Cec!Reused(w) PROVE CoverInv'
  BY <1>18 DEF Cec!Reused, Cec!FrameReused
<1>19. CASE UNCHANGED Cec!vars
  BY <1>19 DEF Cec!vars
<1> QED
  BY <1>1, <1>2, <1>3, <1>4, <1>5, <1>6, <1>7, <1>8, <1>9, <1>10, <1>11, <1>12,
     <1>13, <1>14, <1>15, <1>16, <1>17, <1>18, <1>19 DEF Cec!Next, Cec!Manager

\* A cofactor moves from the stack to a record, and is replaced by its two parts.
LEMMA ApartStep ==
  ASSUME Bounds, IInv, [Cec!Next]_(Cec!vars)
  PROVE  ApartInv'
<1> USE PoolConstants, WorkersAre, JobsAre DEF Cec!worker, Cec!record, Cec!own, Cec!fixed, Cec!cexs
<1>0. /\ TypeOK /\ LinkInv
      /\ mpc \in Searching => AllApart(vStack, Cec!Busy, job)
      /\ vStack \in Seq(Cofactors) /\ scan \in Cec!Worker /\ DOMAIN job = Cec!Worker
  BY DEF IInv, ApartInv, TypeOK
<1>a. AllApart(vStack', Cec!Busy', job') => ApartInv'
  BY DEF ApartInv, AllApart, Apart, Cec!Inputs
<1>b. ASSUME mpc \in Searching \/ mpc' \notin Searching, UNCHANGED <<vStack, job>> PROVE ApartInv'
  <2>1. Cec!Busy' = Cec!Busy
    BY <1>b DEF Cec!Busy
  <2>2. CASE mpc \in Searching
    BY <1>0, <1>a, <1>b, <2>1, <2>2
  <2>3. CASE mpc' \notin Searching
    BY <2>3 DEF ApartInv, Searching
  <2> QED
    BY <1>b, <2>2, <2>3
<1>1. CASE Cec!StartThreads
  BY <1>1, <1>b DEF Cec!StartThreads, Cec!CreateWorker, Searching
<1>2. CASE Cec!WhileWork
  BY <1>2, <1>b DEF Cec!WhileWork, Searching
<1>3. CASE Cec!StillWorking
  BY <1>3, <1>b DEF Cec!StillWorking, Searching
<1>4. CASE Cec!NothingToCollect
  BY <1>4, <1>b DEF Cec!NothingToCollect, Searching
<1>5. CASE Cec!CollectSat
  BY <1>5, <1>b DEF Cec!CollectSat, Searching
<1>6. CASE Cec!CollectOther
  <2>1. /\ fWorking[scan] = 0 /\ job[scan] # NoJob /\ mpc = "scan"
        /\ job' = [job EXCEPT ![scan] = NoJob]
    BY <1>6 DEF Cec!CollectOther
  <2>2. job[scan] \in Cofactors
    BY <1>0, <2>1 DEF LinkInv, Searching, Idle, Working
  <2>3. /\ scan \in Cec!Busy /\ Cec!Busy' = Cec!Busy \ {scan}
        /\ \A w \in Cec!Busy' : job'[w] = job[w]
    BY <1>0, <2>1 DEF Cec!Busy
  <2>4. AllApart(vStack, Cec!Busy, job)
    BY <1>0, <2>1 DEF Searching
  <2>5. ASSUME NEW v \in Cec!FreeVars(job[scan]),
               vStack' = vStack \o <<Cec!Cofactor(job[scan], v, 0, 0),
                                     Cec!Cofactor(job[scan], v, 1, 0)>>
        PROVE  ApartInv'
    <3> DEFINE c == Cec!Cofactor(job[scan], v, 0, 0)
               d == Cec!Cofactor(job[scan], v, 1, 0)
    <3>1. c \in Cofactors /\ d \in Cofactors
      BY <2>2, Split DEF Cec!FreeVars
    <3>2. /\ Apart(c, d) /\ Apart(d, c)
          /\ \A a \in Cec!Inputs(c) \union Cec!Inputs(d) : a \in Cec!Inputs(job[scan])
      BY <2>2, SplitApart
    <3>3. vStack' = vStack \o <<c, d>>
      BY <2>5
    <3> HIDE DEF c, d
    <3>4. AllApart(vStack', Cec!Busy', job')
      BY <1>0, <2>3, <2>4, <3>1, <3>2, <3>3, ApartPushed
    <3> QED
      BY <1>a, <3>4
  <2>6. CASE UNCHANGED vStack
    <3>1. AllApart(vStack, Cec!Busy', job')
      BY <2>3, <2>4, ApartDropped
    <3> QED
      BY <1>a, <2>6, <3>1
  <2> QED
    BY <1>6, <2>5, <2>6 DEF Cec!CollectOther
<1>7. CASE Cec!NoCofactorLeft
  BY <1>7, <1>b DEF Cec!NoCofactorLeft, Searching
<1>8. CASE Cec!AssignCofactor
  <2>1. /\ mpc = "assign" /\ vStack # <<>> /\ vStack' = Cec!Front(vStack)
        /\ job' = [job EXCEPT ![scan] = Cec!Last(vStack)]
    BY <1>8 DEF Cec!AssignCofactor
  <2>2. Cec!Last(vStack) \in Cofactors /\ job[scan] = NoJob
    BY <1>0, <2>1, Popped DEF LinkInv
  <2>3. /\ scan \notin Cec!Busy /\ Cec!Busy' = Cec!Busy \union {scan}
        /\ \A w \in Cec!Busy : job'[w] = job[w]
        /\ job'[scan] = Cec!Last(vStack)
    BY <1>0, <2>1, <2>2 DEF Cec!Busy, Bounds
  <2>4. AllApart(vStack, Cec!Busy, job)
    BY <1>0, <2>1 DEF Searching
  <2>5. AllApart(Cec!Front(vStack), Cec!Busy \union {scan}, job')
    BY <1>0, <2>1, <2>3, <2>4, ApartPopped
  <2> QED
    BY <1>a, <2>1, <2>3, <2>5
<1>9. CASE Cec!StartJob
  BY <1>9, <1>b DEF Cec!StartJob, Searching
<1>10. CASE Cec!EndOfScan
  BY <1>10, <1>b DEF Cec!EndOfScan, Searching
<1>11. CASE Cec!NoMoreWork
  BY <1>11, <1>b DEF Cec!NoMoreWork, Searching
<1>12. CASE Cec!Conclude
  BY <1>12, <1>b DEF Cec!Conclude, Searching
<1>13. CASE Cec!WaitAll
  BY <1>13, <1>b DEF Cec!WaitAll, Cec!WaitScan, Searching
<1>14. CASE Cec!StopSkipped \/ Cec!StopCleanup \/ Cec!StopThread
  <2>1. mpc' \notin Searching
    BY <1>14 DEF Cec!StopSkipped, Cec!StopCleanup, Cec!StopThread, Cec!NextStop, Searching
  <2> QED
    BY <2>1 DEF ApartInv, Searching
<1>15. ASSUME NEW w \in Cec!Worker, Cec!WorkerThread(w) PROVE ApartInv'
  <2>1. UNCHANGED <<mpc, vStack, job>>
    BY <1>15 DEF Cec!WorkerThread, Cec!Wake, Cec!ReadJob, Cec!ClearFlag, Cec!Solved
  <2> QED
    BY <1>b, <2>1 DEF Searching
<1>16. ASSUME NEW w \in Cec!Worker, Cec!Reused(w) PROVE ApartInv'
  <2>1. mpc' \notin Searching
    BY <1>16 DEF Cec!Reused, Cec!FrameReused, Searching
  <2> QED
    BY <2>1 DEF ApartInv, Searching
<1>17. CASE UNCHANGED Cec!vars
  BY <1>17, <1>b DEF Cec!vars, Searching
<1> QED
  BY <1>1, <1>2, <1>3, <1>4, <1>5, <1>6, <1>7, <1>8, <1>9, <1>10, <1>11, <1>12,
     <1>13, <1>14, <1>15, <1>16, <1>17 DEF Cec!Next, Cec!Manager

\* The flag fWorkToDo is FALSE only if a whole scan has found nothing.
LEMMA WorkStep ==
  ASSUME Bounds, IInv, [Cec!Next]_(Cec!vars)
  PROVE  WorkInv'
<1> USE PoolConstants, WorkersAre, JobsAre DEF Cec!worker, Cec!record, Cec!own, Cec!fixed,
    Cec!cexs, IInv,
      TypeOK, LinkInv, WorkInv, Seen, Idle, Working, Searching
<1>1. CASE Cec!StartThreads
  BY <1>1 DEF Cec!StartThreads, Cec!CreateWorker
<1>2. CASE Cec!WhileWork
  <2>1. /\ mpc' = "scan" /\ scan' = 1 /\ fWorkToDo' = (vStack # <<>>)
        /\ UNCHANGED <<vStack, RetValue>> /\ RetValue = Cec!UNDEC
    BY <1>2 DEF Cec!WhileWork
  <2>2. ~fWorkToDo' => vStack' = <<>>
    BY <2>1
  <2> HIDE DEF IInv, TypeOK, LinkInv, WorkInv, Idle, Working, Seen
  <2>3. ASSUME NEW w \in Seen' PROVE FALSE
    <3>1. w \in Cec!Worker /\ w < scan' /\ scan' = 1
      BY <2>1 DEF Seen
    <3> QED
      BY <3>1, WorkersAre
  <2>4. ~fWorkToDo' => vStack' = <<>> /\ \A w \in Seen' : job'[w] = NoJob
    BY <2>2, <2>3
  <2> QED
    BY <2>1, <2>4 DEF WorkInv
<1>3. CASE Cec!StillWorking
  BY <1>3 DEF Cec!StillWorking, Cec!NextWorker
<1>4. CASE Cec!NothingToCollect
  BY <1>4 DEF Cec!NothingToCollect
<1>5. CASE Cec!CollectSat
  BY <1>5 DEF Cec!CollectSat
<1>6. CASE Cec!CollectOther
  BY <1>6 DEF Cec!CollectOther
<1>7. CASE Cec!NoCofactorLeft
  BY <1>7 DEF Cec!NoCofactorLeft, Cec!NextWorker
<1>8. CASE Cec!AssignCofactor
  BY <1>8 DEF Cec!AssignCofactor
<1>9. CASE Cec!StartJob
  BY <1>9 DEF Cec!StartJob, Cec!NextWorker
<1>10. CASE Cec!EndOfScan
  BY <1>10 DEF Cec!EndOfScan
<1>11. CASE Cec!NoMoreWork
  BY <1>11 DEF Cec!NoMoreWork
<1>12. CASE Cec!Conclude
  BY <1>12 DEF Cec!Conclude
<1>13. CASE Cec!WaitAll
  BY <1>13 DEF Cec!WaitAll, Cec!WaitScan
<1>14. CASE Cec!StopSkipped
  BY <1>14 DEF Cec!StopSkipped, Cec!NextStop
<1>15. CASE Cec!StopCleanup
  BY <1>15 DEF Cec!StopCleanup
<1>16. CASE Cec!StopThread
  BY <1>16 DEF Cec!StopThread, Cec!NextStop
<1>17. ASSUME NEW w \in Cec!Worker, Cec!WorkerThread(w) PROVE WorkInv'
  <2>1. CASE Cec!Wake(w) /\ UNCHANGED <<mpc, scan, Cec!fixed, Cec!own>>
    BY <2>1 DEF Cec!Wake
  <2>2. CASE Cec!ReadJob(w) /\ UNCHANGED <<mpc, scan, Cec!fixed, Cec!own>>
    BY <2>2 DEF Cec!ReadJob
  <2>3. CASE Cec!ClearFlag(w) /\ UNCHANGED <<mpc, scan, Cec!fixed, Cec!own>>
    BY <2>3 DEF Cec!ClearFlag
  <2>4. CASE Cec!Solved(w)
    BY <1>17, <2>4 DEF Cec!WorkerThread, Cec!Solved, Cec!Wake, Cec!ReadJob, Cec!ClearFlag
  <2> QED
    BY <1>17, <2>1, <2>2, <2>3, <2>4 DEF Cec!WorkerThread
<1>18. ASSUME NEW w \in Cec!Worker, Cec!Reused(w) PROVE WorkInv'
  BY <1>18 DEF Cec!Reused, Cec!FrameReused
<1>19. CASE UNCHANGED Cec!vars
  BY <1>19 DEF Cec!vars
<1> QED
  BY <1>1, <1>2, <1>3, <1>4, <1>5, <1>6, <1>7, <1>8, <1>9, <1>10, <1>11, <1>12,
     <1>13, <1>14, <1>15, <1>16, <1>17, <1>18, <1>19 DEF Cec!Next, Cec!Manager

\* A verdict is reached by CollectSat or Conclude, and kept.
LEMMA VerdictStep ==
  ASSUME Bounds, IInv, [Cec!Next]_(Cec!vars)
  PROVE  Cec!RightVerdict'
<1> USE PoolConstants, WorkersAre, JobsAre DEF Cec!worker, Cec!record, Cec!own, Cec!fixed,
    Cec!cexs, IInv,
      TypeOK, Cec!RightVerdict, Searching, Cec!SAT, Cec!UNSAT, Cec!UNDEC
<1>1. CASE Cec!StartThreads
  BY <1>1 DEF Cec!StartThreads, Cec!CreateWorker
<1>2. CASE Cec!WhileWork
  BY <1>2 DEF Cec!WhileWork
<1>3. CASE Cec!StillWorking
  BY <1>3 DEF Cec!StillWorking, Cec!NextWorker
<1>4. CASE Cec!NothingToCollect
  BY <1>4 DEF Cec!NothingToCollect
<1>5. CASE Cec!CollectSat
  <2>1. Sat # {}
    <3>1. scan \in Cec!Worker /\ mpc = "scan" /\ job[scan] # NoJob /\ Result[scan] = Cec!SAT /\ Idle(scan)
      BY <1>5 DEF Cec!CollectSat, LinkInv, Idle, Working
    <3> QED
      BY <3>1 DEF AnswerInv, Right
  <2>2. RetValue' = Cec!SAT /\ mpc' = "wait" /\ Sat' = Sat
    BY <1>5 DEF Cec!CollectSat
  <2> QED
    BY <2>1, <2>2
<1>6. CASE Cec!CollectOther
  BY <1>6 DEF Cec!CollectOther
<1>7. CASE Cec!NoCofactorLeft
  BY <1>7 DEF Cec!NoCofactorLeft, Cec!NextWorker
<1>8. CASE Cec!AssignCofactor
  BY <1>8 DEF Cec!AssignCofactor
<1>9. CASE Cec!StartJob
  BY <1>9 DEF Cec!StartJob, Cec!NextWorker
<1>10. CASE Cec!EndOfScan
  BY <1>10 DEF Cec!EndOfScan
<1>11. CASE Cec!NoMoreWork
  BY <1>11 DEF Cec!NoMoreWork
<1>12. CASE Cec!Conclude
  <2> USE <1>12 DEF Cec!Conclude
  <2>1. CASE fWorkToDo
    BY <2>1 DEF WorkInv
  <2>2. CASE ~fWorkToDo
    <3>1. vStack = <<>> /\ \A w \in Cec!Worker : job[w] = NoJob
      BY <2>2 DEF WorkInv, Seen
    <3>2. \A a \in Sat : FALSE
      <4>1. Len(vStack) = 0
        BY <3>1
      <4> QED
        BY <3>1, <4>1 DEF CoverInv, OnStack, InRecord
    <3> QED
      BY <2>2, <3>2
  <2> QED
    BY <2>1, <2>2
<1>13. CASE Cec!WaitAll
  BY <1>13 DEF Cec!WaitAll, Cec!WaitScan
<1>14. CASE Cec!StopSkipped
  BY <1>14 DEF Cec!StopSkipped, Cec!NextStop
<1>15. CASE Cec!StopCleanup
  BY <1>15 DEF Cec!StopCleanup
<1>16. CASE Cec!StopThread
  BY <1>16 DEF Cec!StopThread, Cec!NextStop
<1>17. ASSUME NEW w \in Cec!Worker, Cec!WorkerThread(w) PROVE Cec!RightVerdict'
  <2>1. CASE Cec!Wake(w) /\ UNCHANGED <<mpc, scan, Cec!fixed, Cec!own>>
    BY <2>1 DEF Cec!Wake
  <2>2. CASE Cec!ReadJob(w) /\ UNCHANGED <<mpc, scan, Cec!fixed, Cec!own>>
    BY <2>2 DEF Cec!ReadJob
  <2>3. CASE Cec!ClearFlag(w) /\ UNCHANGED <<mpc, scan, Cec!fixed, Cec!own>>
    BY <2>3 DEF Cec!ClearFlag
  <2>4. CASE Cec!Solved(w)
    BY <1>17, <2>4 DEF Cec!WorkerThread, Cec!Solved, Cec!Wake, Cec!ReadJob, Cec!ClearFlag
  <2> QED
    BY <1>17, <2>1, <2>2, <2>3, <2>4 DEF Cec!WorkerThread
<1>18. ASSUME NEW w \in Cec!Worker, Cec!Reused(w) PROVE Cec!RightVerdict'
  BY <1>18 DEF Cec!Reused, Cec!FrameReused
<1>19. CASE UNCHANGED Cec!vars
  BY <1>19 DEF Cec!vars
<1> QED
  BY <1>1, <1>2, <1>3, <1>4, <1>5, <1>6, <1>7, <1>8, <1>9, <1>10, <1>11, <1>12,
     <1>13, <1>14, <1>15, <1>16, <1>17, <1>18, <1>19 DEF Cec!Next, Cec!Manager

-----------------------------------------------------------------------------
\* The initial states.
LEMMA InitInv == ASSUME Bounds, Cec!Init PROVE IInv
<1> USE PoolConstants, WorkersAre, JobsAre, WholeIs DEF Cec!Init, Cec!PoolInit
<1>1. TypeOK
  BY DEF TypeOK, Cec!WorkerPcs, MPcs, Searching, Bounds
<1>2. LinkInv /\ AnswerInv /\ WorkInv /\ Cec!RightVerdict
  BY DEF LinkInv, AnswerInv, WorkInv, Cec!RightVerdict, Idle, Searching
<1>3. CoverInv
  <2>1. Len(vStack) = 1 /\ vStack[1] = Cec!Whole
    OBVIOUS
  <2> QED
    BY <2>1 DEF CoverInv, OnStack
<1>4. ApartInv
  BY DEF ApartInv, AllApart, Cec!Busy
<1> QED
  BY <1>1, <1>2, <1>3, <1>4 DEF IInv

\* As many as there are workers with different cofactors.
LEMMA SameSize ==
  ASSUME NEW W, IsFiniteSet(W), NEW g, \A w, x \in W : g[w] = g[x] => w = x
  PROVE  Cec!Cardinality({g[w] : w \in W}) = Cec!Cardinality(W)
<1> DEFINE S == {g[w] : w \in W}
           h == [w \in W |-> g[w]]
<1>1. h \in [W -> S] /\ \A w, x \in W : h[w] = h[x] => w = x
  OBVIOUS
<1>2. \A y \in S : \E w \in W : h[w] = y
  OBVIOUS
<1> HIDE DEF h, S
<1>3. h \in Injection(W, S)
  BY <1>1 DEF Injection, IsInjective
<1>4. h \in Surjection(W, S)
  BY <1>1, <1>2 DEF Surjection
<1>5. Cardinality(S) = Cardinality(W)
  BY <1>3, <1>4, FS_Bijection DEF Bijection, ExistsBijection
<1>6. \A T : Cec!Cardinality(T) = Cardinality(T)
  BY DEF Cec!Cardinality, Cardinality
<1> QED
  BY <1>5, <1>6 DEF S

\* NothingLost follows: the cofactors at hand are those of the invariant, and there
\* are as many as there are workers that have one.
LEMMA ThreadsLoseNothing ==
  ASSUME Bounds, TypeOK, LinkInv, CoverInv, ApartInv
  PROVE  Cec!NothingLost
<1> SUFFICES ASSUME mpc \in {"create", "while", "scan", "assign", "raise", "endscan"}
             PROVE  Cec!NothingLost
  BY DEF Cec!NothingLost
<1> DEFINE given == {job[w] : w \in Cec!Busy}
           out   == given \union Cec!Range(vStack)
<1>1. mpc \in Searching /\ vStack \in Seq(Cofactors)
  BY DEF Searching, TypeOK
<1>2. \A w \in Cec!Busy : job[w] \in Cofactors
  BY <1>1 DEF LinkInv, Cec!Busy, Searching, Idle, Working
<1>3. AllApart(vStack, Cec!Busy, job)
  BY <1>1 DEF ApartInv
<1>4. Sat \subseteq Cec!Covered(out)
  <2>1. ASSUME NEW a \in Sat PROVE Holds(vStack, Cec!Busy, job, a)
    BY <1>1 DEF CoverInv, OnStack, InRecord, Holds, Cec!Busy
  <2> QED
    BY <1>1, <2>1, OutCovers
<1>5. \A w \in Cec!Busy : \A x \in Cec!Busy : job[w] = job[x] => w = x
  BY <1>1, <1>2, <1>3, OutApart
<1>6. given \intersect Cec!Range(vStack) = {}
  BY <1>1, <1>2, <1>3, OutApart
<1>7. \A c, d \in out : c # d => Cec!Inputs(c) \intersect Cec!Inputs(d) = {}
  <2>1. \A c, d \in out : c # d => Apart(c, d)
    BY <1>1, <1>2, <1>3, OutApart
  <2> HIDE DEF out
  <2> QED
    BY <2>1 DEF Apart
<1>8. Cec!Cardinality(given) = Cec!Cardinality(Cec!Busy)
  <2>1. IsFiniteSet(1..nSolvers)
    BY PoolConstants, FS_Interval
  <2>2. IsFiniteSet(Cec!Busy)
    BY <2>1, FS_Subset DEF Cec!Busy, Cec!Worker
  <2> QED
    BY <1>5, <2>2, SameSize
<1> HIDE DEF given, out
<1> QED
  BY <1>4, <1>6, <1>7, <1>8 DEF Cec!NothingLost, given, out

-----------------------------------------------------------------------------
(* The serial procedure. *)

\* A cofactor whose list has the constants it was made with.
Exact == {c \in Cofactors : c.vCofVars = c.values}

\* No thread has been started.
NoThreads == mpc = "create" /\ \A w \in Cec!Worker : wpc[w] = "none"

Limit == nIterMax > 0 /\ nIter >= nIterMax

SerialInv ==
  /\ pc \in {"check", "loop", "solve", "end", "returned"}
  /\ Sat \subseteq Cec!Assignments /\ nIterMax \in Nat /\ nIter \in Nat
  /\ vStack \in Seq(Exact) /\ pPart \in Seq(Exact)
  /\ pc \in {"check", "loop"} => pPart = <<>>
  /\ pc = "solve" => pPart # <<>>
  /\ pc \in {"check", "loop", "solve"} => RetValue = Cec!UNDEC
  /\ pc \in {"loop", "solve"} =>
       /\ AllApart(vStack, 1..Len(pPart), pPart)
       /\ \A a \in Sat : Holds(vStack, 1..Len(pPart), pPart, a)
  /\ pc \in {"end", "returned"} => (RetValue = Cec!SAT => pCexComb \in Sat)
  /\ pc = "end" => (RetValue = Cec!UNDEC => vStack = <<>> \/ Limit)
  /\ pc = "returned" => (RetValue = Cec!UNDEC => Limit)

\* The serial procedure has the same cofactors.
LEMMA SerialIs ==
  /\ \A c : Cec!Serial!Inputs(c) = Cec!Inputs(c)
  /\ \A S : Cec!Serial!Covered(S) = Cec!Covered(S)
  /\ \A s : Cec!Serial!Range(s) = Cec!Range(s)
  /\ \A s : Cec!Serial!Last(s) = Cec!Last(s) /\ Cec!Serial!Front(s) = Cec!Front(s)
  /\ \A c : Cec!Serial!FreeVars(c) = Cec!FreeVars(c)
  /\ \A c, v, x, y : Cec!Serial!Cofactor(c, v, x, y) = Cec!Cofactor(c, v, x, y)
  /\ Cec!Serial!Whole = Cec!Whole /\ Cec!Serial!Assignments = Cec!Assignments
  /\ \A c : Cec!Serial!Answers(c) = Cec!Answers(c) /\ Cec!Serial!Models(c) = Cec!Models(c)
  /\ Cec!Serial!SAT = Cec!SAT /\ Cec!Serial!UNSAT = Cec!UNSAT
  /\ Cec!Serial!UNDEC = Cec!UNDEC
<1>1. Cec!Serial!SAT = Cec!SAT /\ Cec!Serial!UNSAT = Cec!UNSAT /\ Cec!Serial!UNDEC = Cec!UNDEC
  BY DEF Cec!Serial!SAT, Cec!SAT, Cec!Serial!UNSAT, Cec!UNSAT, Cec!Serial!UNDEC, Cec!UNDEC
<1>2. \A c : Cec!Serial!Inputs(c) = Cec!Inputs(c)
  BY DEF Cec!Serial!Inputs, Cec!Inputs, Cec!Serial!Assignments, Cec!Assignments
<1>3. \A c : Cec!Serial!FreeVars(c) = Cec!FreeVars(c)
  BY DEF Cec!Serial!FreeVars, Cec!FreeVars
<1>4. \A S : Cec!Serial!Covered(S) = Cec!Covered(S)
  BY <1>2 DEF Cec!Serial!Covered, Cec!Covered
<1>5. /\ \A s : Cec!Serial!Range(s) = Cec!Range(s)
      /\ \A s : Cec!Serial!Last(s) = Cec!Last(s)
      /\ \A s : Cec!Serial!Front(s) = Cec!Front(s)
  BY DEF Cec!Serial!Range, Cec!Range, Cec!Serial!Last, Cec!Last, Cec!Serial!Front, Cec!Front
<1>6. \A c, v, x, y : Cec!Serial!Cofactor(c, v, x, y) = Cec!Cofactor(c, v, x, y)
  BY DEF Cec!Serial!Cofactor, Cec!Cofactor
<1>7. Cec!Serial!Whole = Cec!Whole /\ Cec!Serial!Assignments = Cec!Assignments
  BY DEF Cec!Serial!Whole, Cec!Whole, Cec!Serial!Assignments, Cec!Assignments
<1>8. \A c : Cec!Serial!Answers(c) = Cec!Answers(c)
  BY <1>1, <1>2, <1>3 DEF Cec!Serial!Answers, Cec!Answers
<1>9. \A c : Cec!Serial!Models(c) = Cec!Models(c)
  BY <1>2 DEF Cec!Serial!Models, Cec!Models
<1> QED
  BY <1>1, <1>2, <1>3, <1>4, <1>5, <1>6, <1>7, <1>8, <1>9

\* The counter-example that an exact cofactor gives is an assignment of the solver.
LEMMA ExactModels ==
  ASSUME NEW c \in Exact
  PROVE  Cec!Models(c) \subseteq Sat
<1>1. ASSUME NEW a \in Cec!Inputs(c)
      PROVE  [v \in Vars |-> IF v \in DOMAIN c.vCofVars THEN c.vCofVars[v] ELSE a[v]] = a
  <2>1. /\ a \in [Vars -> {0, 1}] /\ c.vCofVars = c.values
        /\ \A v \in DOMAIN c.values : a[v] = c.values[v]
    BY <1>1 DEF Exact, Cec!Inputs, Cec!Assignments
  <2> QED
    BY <2>1
<1> QED
  BY <1>1 DEF Cec!Models

LEMMA ExactSplit ==
  ASSUME NEW c \in Exact, NEW v \in Cec!FreeVars(c)
  PROVE  Cec!Cofactor(c, v, 0, 0) \in Exact /\ Cec!Cofactor(c, v, 1, 1) \in Exact
<1>1. c.values \in Partial /\ c.vCofVars = c.values /\ v \in Vars
  BY DEF Exact, Cofactors, Cec!FreeVars
<1>2. ASSUME NEW x \in {0, 1} PROVE Cec!Cofactor(c, v, x, x) \in Exact
  BY <1>1, OneMore DEF Cec!Cofactor, Exact, Cofactors
<1> QED
  BY <1>2

\* An assignment of a cofactor is in one of the two it is split into.
LEMMA ExactCover ==
  ASSUME NEW c \in Exact, NEW v \in Cec!FreeVars(c), NEW a \in Cec!Inputs(c)
  PROVE  \/ a \in Cec!Inputs(Cec!Cofactor(c, v, 0, 0))
         \/ a \in Cec!Inputs(Cec!Cofactor(c, v, 1, 1))
<1>1. a[v] \in {0, 1} /\ a \in Cec!Assignments
  BY DEF Cec!FreeVars, Cec!Inputs, Cec!Assignments
<1>2. ASSUME NEW x \in {0, 1}, a[v] = x PROVE a \in Cec!Inputs(Cec!Cofactor(c, v, x, x))
  <2> DEFINE values == [u \in DOMAIN c.values \union {v} |-> IF u = v THEN x ELSE c.values[u]]
  <2>1. Cec!Cofactor(c, v, x, x).values = values
    BY DEF Cec!Cofactor
  <2>2. \A u \in DOMAIN values : a[u] = values[u]
    BY <1>2 DEF Cec!Inputs
  <2> QED
    BY <1>1, <2>1, <2>2 DEF Cec!Inputs
<1> QED
  BY <1>1, <1>2

\* What a cofactor that was solved leaves, and what the two halves of one leave.
LEMMA Headed ==
  ASSUME NEW S, NEW s \in Seq(S), NEW p \in Seq(S), p # <<>>
  PROVE  /\ Head(p) \in S /\ Tail(p) \in Seq(S) /\ Append(s, Head(p)) \in Seq(S)
         /\ Len(p) \in Nat \ {0} /\ Head(p) = p[1]
         /\ Len(Tail(p)) = Len(p) - 1
         /\ \A w \in 1..Len(Tail(p)) : Tail(p)[w] = p[w + 1] /\ w + 1 \in 1..Len(p)
         /\ Len(s) \in Nat /\ Len(Append(s, Head(p))) = Len(s) + 1
         /\ \A n \in 1..Len(s) : Append(s, Head(p))[n] = s[n]
         /\ Append(s, Head(p))[Len(s) + 1] = Head(p)
<1>1. Len(p) \in Nat \ {0} /\ Len(s) \in Nat
  BY EmptySeq, LenProperties
<1>2. Head(p) = p[1] /\ Head(p) \in S
  BY <1>1
<1>3. Tail(p) \in Seq(S) /\ Len(Tail(p)) = Len(p) - 1
  BY <1>1
<1>4. \A w \in 1..(Len(p) - 1) : Tail(p)[w] = p[w + 1] /\ w + 1 \in 1..Len(p)
  BY <1>1
<1>5. /\ Append(s, Head(p)) \in Seq(S) /\ Len(Append(s, Head(p))) = Len(s) + 1
      /\ \A n \in 1..Len(s) : Append(s, Head(p))[n] = s[n]
      /\ Append(s, Head(p))[Len(s) + 1] = Head(p)
  BY <1>1, <1>2
<1> QED
  BY <1>1, <1>2, <1>3, <1>4, <1>5

LEMMA PartSolved ==
  ASSUME NEW s \in Seq(Exact), NEW p \in Seq(Exact), p # <<>>,
         AllApart(s, 1..Len(p), p)
  PROVE  LET t == Append(s, Head(p))
         IN  /\ AllApart(s, 1..Len(Tail(p)), Tail(p))
             /\ AllApart(t, 1..Len(Tail(p)), Tail(p))
             /\ \A a : Holds(s, 1..Len(p), p, a) =>
                  /\ Holds(t, 1..Len(Tail(p)), Tail(p), a)
                  /\ a \notin Cec!Inputs(Head(p)) => Holds(s, 1..Len(Tail(p)), Tail(p), a)
<1> DEFINE t == Append(s, Head(p))
           q == Tail(p)
<1>1. /\ Len(p) \in Nat \ {0} /\ Head(p) = p[1] /\ Len(q) = Len(p) - 1
      /\ \A w \in 1..Len(q) : q[w] = p[w + 1] /\ w + 1 \in 1..Len(p)
      /\ Len(s) \in Nat /\ Len(t) = Len(s) + 1
      /\ \A n \in 1..Len(s) : t[n] = s[n]
      /\ t[Len(s) + 1] = p[1] /\ 1 \in 1..Len(p)
  BY Headed
<1> HIDE DEF t, q
<1>2. \A w, x \in 1..Len(q) : w # x => Apart(q[w], q[x])
  BY <1>1 DEF AllApart
<1>3. \A w \in 1..Len(q) : Apart(p[1], q[w])
  BY <1>1 DEF AllApart
<1>4. \A n \in 1..Len(s), w \in 1..Len(q) : Apart(s[n], q[w])
  BY <1>1 DEF AllApart
<1>5. \A n \in 1..Len(s) : Apart(s[n], p[1]) /\ Apart(p[1], s[n])
  BY <1>1 DEF AllApart, Apart
<1>6. \A n \in 1..Len(t) : (n \in 1..Len(s) /\ t[n] = s[n]) \/ (n = Len(s) + 1 /\ t[n] = p[1])
  BY <1>1
<1>7. AllApart(s, 1..Len(q), q)
  BY <1>2, <1>4 DEF AllApart
<1>8. AllApart(t, 1..Len(q), q)
  <2>1. \A n \in 1..Len(t), w \in 1..Len(q) : Apart(t[n], q[w])
    BY <1>3, <1>4, <1>6
  <2>2. ASSUME NEW n \in 1..Len(t), NEW m \in 1..Len(t), n # m PROVE Apart(t[n], t[m])
    BY <1>5, <1>6, <2>2 DEF AllApart
  <2> QED
    BY <1>2, <2>1, <2>2 DEF AllApart
<1>9. ASSUME NEW a, Holds(s, 1..Len(p), p, a)
      PROVE  /\ Holds(t, 1..Len(q), q, a)
             /\ a \notin Cec!Inputs(p[1]) => Holds(s, 1..Len(q), q, a)
  <2>1. CASE \E n \in 1..Len(s) : a \in Cec!Inputs(s[n])
    <3>1. \A n \in 1..Len(s) : n \in 1..Len(t)
      BY <1>1
    <3> QED
      BY <1>1, <2>1, <3>1 DEF Holds
  <2>2. ASSUME NEW w \in 1..Len(p), a \in Cec!Inputs(p[w])
        PROVE  /\ Holds(t, 1..Len(q), q, a)
               /\ a \notin Cec!Inputs(p[1]) => Holds(s, 1..Len(q), q, a)
    <3>1. CASE w = 1
      <4>1. Len(s) + 1 \in 1..Len(t)
        BY <1>1
      <4> QED
        BY <1>1, <2>2, <3>1, <4>1 DEF Holds
    <3>2. CASE w # 1
      <4>1. w - 1 \in 1..Len(q) /\ (w - 1) + 1 = w
        BY <1>1, <3>2
      <4>2. a \in Cec!Inputs(q[w - 1])
        BY <1>1, <2>2, <4>1
      <4> QED
        BY <4>1, <4>2 DEF Holds
    <3> QED
      BY <3>1, <3>2
  <2> QED
    BY <1>9, <2>1, <2>2 DEF Holds
<1> QED
  BY <1>1, <1>7, <1>8, <1>9 DEF t, q

LEMMA PartSplit ==
  ASSUME NEW s \in Seq(Exact), s # <<>>, NEW g, AllApart(s, {}, g),
         NEW v \in Cec!FreeVars(Cec!Last(s))
  PROVE  LET t == Cec!Front(s)
             p == <<Cec!Cofactor(Cec!Last(s), v, 0, 0), Cec!Cofactor(Cec!Last(s), v, 1, 1)>>
         IN  /\ t \in Seq(Exact) /\ p \in Seq(Exact)
             /\ AllApart(t, 1..Len(p), p)
             /\ \A a : Holds(s, {}, g, a) => Holds(t, 1..Len(p), p, a)
<1> DEFINE t == Cec!Front(s)
           l == Cec!Last(s)
           c == Cec!Cofactor(l, v, 0, 0)
           d == Cec!Cofactor(l, v, 1, 1)
           p == <<c, d>>
<1>1. /\ t \in Seq(Exact) /\ l \in Exact /\ l = s[Len(s)]
      /\ Len(t) = Len(s) - 1 /\ Len(s) \in Nat \ {0}
      /\ \A n \in 1..(Len(s) - 1) : t[n] = s[n]
  BY Popped, LenProperties, EmptySeq
<1>2. c \in Exact /\ d \in Exact /\ l \in Cofactors
  BY <1>1, ExactSplit DEF Exact
<1>3. /\ Apart(c, d) /\ Apart(d, c)
      /\ \A a \in Cec!Inputs(c) \union Cec!Inputs(d) : a \in Cec!Inputs(l)
  BY <1>2, SplitApart
<1>4. \A a \in Cec!Inputs(l) : a \in Cec!Inputs(c) \/ a \in Cec!Inputs(d)
  BY <1>1, ExactCover
<1> HIDE DEF t, l, c, d
<1>5. p \in Seq(Exact) /\ 1..Len(p) = {1, 2} /\ p[1] = c /\ p[2] = d
  BY <1>2
<1> HIDE DEF p
<1>6. \A n \in 1..Len(t) : n \in 1..Len(s) /\ n # Len(s) /\ t[n] = s[n]
  BY <1>1
<1>7. Len(s) \in 1..Len(s)
  BY <1>1
<1>8. \A n \in 1..Len(t) : Apart(t[n], c) /\ Apart(t[n], d)
  <2>1. \A n \in 1..Len(t) : Apart(t[n], l)
    BY <1>1, <1>6, <1>7 DEF AllApart
  <2> QED
    BY <1>3, <2>1 DEF Apart
<1>9. AllApart(t, 1..Len(p), p)
  <2>1. \A n, m \in 1..Len(t) : n # m => Apart(t[n], t[m])
    BY <1>6 DEF AllApart
  <2>2. \A w, x \in {1, 2} : w # x => Apart(p[w], p[x])
    BY <1>3, <1>5
  <2>3. \A n \in 1..Len(t), w \in {1, 2} : Apart(t[n], p[w])
    BY <1>5, <1>8
  <2> QED
    BY <1>5, <2>1, <2>2, <2>3 DEF AllApart
<1>10. ASSUME NEW a, NEW n \in 1..Len(s), a \in Cec!Inputs(s[n]) PROVE Holds(t, 1..Len(p), p, a)
  <2>1. CASE n = Len(s)
    BY <1>1, <1>4, <1>5, <1>10, <2>1 DEF Holds
  <2>2. CASE n # Len(s)
    <3>1. n \in 1..Len(t) /\ t[n] = s[n]
      BY <1>1, <2>2
    <3> QED
      BY <1>10, <3>1 DEF Holds
  <2> QED
    BY <2>1, <2>2
<1>11. \A a : Holds(s, {}, g, a) => Holds(t, 1..Len(p), p, a)
  BY <1>10 DEF Holds
<1> QED
  BY <1>1, <1>5, <1>9, <1>11 DEF t, l, c, d, p

\* The serial procedure starts with nothing on the stack.
LEMMA SerialInit == ASSUME Bounds, Cec!Serial!Init PROVE SerialInv
<1>1. Sat \subseteq Cec!Assignments /\ nIterMax \in Nat
  BY SerialIs DEF Cec!Serial!Init, Bounds
<1> QED
  BY <1>1, SerialIs DEF Cec!Serial!Init, SerialInv

\* Each of its steps keeps the invariant.
LEMMA SerialSteps ==
  ASSUME SerialInv, Cec!Serial!Next
  PROVE  SerialInv'
<1> USE SerialIs DEF Cec!Serial!fixed
<1>inv. /\ Sat \subseteq Cec!Assignments /\ nIterMax \in Nat /\ nIter \in Nat
        /\ vStack \in Seq(Exact) /\ pPart \in Seq(Exact)
        /\ pc \in {"check", "loop"} => pPart = <<>>
        /\ pc = "solve" => pPart # <<>>
        /\ pc \in {"check", "loop", "solve"} => RetValue = Cec!UNDEC
        /\ pc \in {"end", "returned"} => (RetValue = Cec!SAT => pCexComb \in Sat)
        /\ pc = "end" => (RetValue = Cec!UNDEC => vStack = <<>> \/ Limit)
        /\ pc = "returned" => (RetValue = Cec!UNDEC => Limit)
  BY DEF SerialInv
<1>apart. pc \in {"loop", "solve"} =>
            /\ AllApart(vStack, 1..Len(pPart), pPart)
            /\ \A a \in Sat : Holds(vStack, 1..Len(pPart), pPart, a)
  BY DEF SerialInv
<1>values. Cec!SAT = 0 /\ Cec!UNSAT = 1 /\ Cec!UNDEC = -1
  BY DEF Cec!SAT, Cec!UNSAT, Cec!UNDEC
<1>goal. ASSUME pc' \in {"loop", "solve"}, UNCHANGED <<Sat, nIterMax, RetValue, pCexComb>>,
                RetValue = Cec!UNDEC, nIter' \in Nat,
                vStack' \in Seq(Exact), pPart' \in Seq(Exact),
                pc' = "loop" <=> pPart' = <<>>,
                AllApart(vStack', 1..Len(pPart'), pPart'),
                \A a \in Sat : Holds(vStack', 1..Len(pPart'), pPart', a)
         PROVE  SerialInv'
  <2>1. AllApart(vStack, 1..Len(pPart), pPart)'
    BY <1>goal DEF AllApart, Apart, Cec!Inputs
  <2>2. (\A a \in Sat : Holds(vStack, 1..Len(pPart), pPart, a))'
    BY <1>goal DEF Holds, Cec!Inputs
  <2> QED
    BY <1>goal, <1>inv, <2>1, <2>2 DEF SerialInv
<1>1. CASE Cec!Serial!CheckProblem
  <2>1. /\ pc = "check" /\ UNCHANGED <<Sat, nIterMax, pPart, nIter>> /\ pPart = <<>>
        /\ RetValue = Cec!UNDEC
    BY <1>1, <1>inv DEF Cec!Serial!CheckProblem
  <2>2. PICK answ \in Cec!Answers(Cec!Whole) :
          IF answ = Cec!UNDEC
            THEN /\ vStack' = <<Cec!Whole>> /\ pc' = "loop" /\ UNCHANGED <<RetValue, pCexComb>>
            ELSE /\ RetValue' = answ
                 /\ IF answ = Cec!SAT THEN pCexComb' \in Cec!Models(Cec!Whole)
                                        ELSE UNCHANGED pCexComb
                 /\ pc' = "returned" /\ UNCHANGED vStack
    BY <1>1 DEF Cec!Serial!CheckProblem
  <2>3. Cec!Whole \in Exact /\ \A a \in Cec!Assignments : a \in Cec!Inputs(Cec!Whole)
    BY WholeIs DEF Cec!Whole, Exact
  <2>4. CASE answ = Cec!UNDEC
    <3>1. /\ vStack' = <<Cec!Whole>> /\ pc' = "loop" /\ UNCHANGED <<RetValue, pCexComb>>
          /\ pPart' = <<>>
      BY <2>1, <2>2, <2>4
    <3> HIDE DEF Cec!Serial!fixed
    <3>2. /\ vStack' \in Seq(Exact) /\ Len(vStack') = 1 /\ vStack'[1] = Cec!Whole
          /\ pPart' \in Seq(Exact) /\ Len(pPart') = 0
      BY <2>3, <3>1
    <3>3. AllApart(vStack', 1..Len(pPart'), pPart')
      BY <3>2 DEF AllApart
    <3>4. \A a \in Sat : Holds(vStack', 1..Len(pPart'), pPart', a)
      BY <1>inv, <2>3, <3>2 DEF Holds
    <3> QED
      BY <1>goal, <1>inv, <2>1, <3>1, <3>2, <3>3, <3>4
  <2>5. CASE answ # Cec!UNDEC
    <3>1. RetValue' = answ /\ pc' = "returned" /\ UNCHANGED vStack
      BY <2>2, <2>5
    <3>2. answ = Cec!SAT => pCexComb' \in Sat
      BY <2>2, <2>3, <2>5, ExactModels
    <3> QED
      BY <1>inv, <2>1, <2>5, <3>1, <3>2 DEF SerialInv
  <2> QED
    BY <2>4, <2>5
<1>2. CASE Cec!Serial!Split
  <2>1. /\ pc = "loop" /\ vStack # <<>> /\ vStack' = Cec!Front(vStack) /\ pc' = "solve"
        /\ UNCHANGED <<Sat, nIterMax, nIter, RetValue, pCexComb>>
        /\ pPart = <<>> /\ RetValue = Cec!UNDEC
    BY <1>2, <1>inv DEF Cec!Serial!Split
  <2>2. PICK v \in Cec!FreeVars(Cec!Last(vStack)) :
          pPart' = <<Cec!Cofactor(Cec!Last(vStack), v, 0, 0),
                     Cec!Cofactor(Cec!Last(vStack), v, 1, 1)>>
    BY <1>2 DEF Cec!Serial!Split
  <2>3. 1..Len(pPart) = {}
    BY <2>1
  <2>4. /\ AllApart(vStack, {}, pPart)
        /\ \A a \in Sat : Holds(vStack, {}, pPart, a)
    BY <1>apart, <2>1, <2>3
  <2>5. /\ vStack' \in Seq(Exact) /\ pPart' \in Seq(Exact)
        /\ AllApart(vStack', 1..Len(pPart'), pPart')
        /\ \A a \in Sat : Holds(vStack', 1..Len(pPart'), pPart', a)
    BY <1>inv, <2>1, <2>2, <2>4, PartSplit
  <2>6. pPart' # <<>>
    BY <2>2
  <2> QED
    BY <1>goal, <1>inv, <2>1, <2>5, <2>6
<1>3. CASE Cec!Serial!SolveSat
  <2>1. /\ pc = "solve" /\ RetValue' = Cec!SAT /\ pCexComb' \in Cec!Models(Head(pPart))
        /\ pc' = "end" /\ pPart' = <<>> /\ UNCHANGED <<Sat, nIterMax, vStack, nIter>>
    BY <1>3 DEF Cec!Serial!SolveSat
  <2>2. pCexComb' \in Sat
    BY <1>inv, <2>1, Headed, ExactModels
  <2>3. pPart' \in Seq(Exact)
    BY <2>1
  <2> QED
    BY <1>inv, <1>values, <2>1, <2>2, <2>3 DEF SerialInv
<1>4. CASE Cec!Serial!SolveOther
  <2>1. /\ pc = "solve" /\ pPart' = Tail(pPart) /\ pPart # <<>> /\ RetValue = Cec!UNDEC
        /\ UNCHANGED <<Sat, nIterMax, RetValue, pCexComb>>
        /\ IF Tail(pPart) # <<>>
             THEN UNCHANGED <<pc, nIter>>
             ELSE IF nIterMax > 0 /\ nIter >= nIterMax
                    THEN pc' = "end" /\ UNCHANGED nIter
                    ELSE pc' = "loop" /\ nIter' = nIter + 1
    BY <1>4, <1>inv DEF Cec!Serial!SolveOther
  <2>2. PICK answ \in Cec!Answers(Head(pPart)) \ {Cec!SAT} :
          vStack' = IF answ = Cec!UNDEC THEN Append(vStack, Head(pPart)) ELSE vStack
    BY <1>4 DEF Cec!Serial!SolveOther
  <2>3. answ # Cec!UNDEC => Cec!Inputs(Head(pPart)) \intersect Sat = {}
    BY <2>2 DEF Cec!Answers
  <2>4. /\ AllApart(vStack', 1..Len(pPart'), pPart')
        /\ \A a \in Sat : Holds(vStack', 1..Len(pPart'), pPart', a)
    <3>1. /\ AllApart(vStack, 1..Len(pPart), pPart)
          /\ \A a \in Sat : Holds(vStack, 1..Len(pPart), pPart, a)
      BY <1>apart, <2>1
    <3>2. /\ AllApart(vStack, 1..Len(Tail(pPart)), Tail(pPart))
          /\ AllApart(Append(vStack, Head(pPart)), 1..Len(Tail(pPart)), Tail(pPart))
          /\ \A a \in Sat :
               /\ Holds(Append(vStack, Head(pPart)), 1..Len(Tail(pPart)), Tail(pPart), a)
               /\ a \notin Cec!Inputs(Head(pPart)) =>
                    Holds(vStack, 1..Len(Tail(pPart)), Tail(pPart), a)
      BY <1>inv, <2>1, <3>1, PartSolved
    <3>3. CASE answ = Cec!UNDEC
      BY <2>1, <2>2, <3>2, <3>3
    <3>4. CASE answ # Cec!UNDEC
      <4>1. \A a \in Sat : a \notin Cec!Inputs(Head(pPart))
        BY <2>3, <3>4
      <4> QED
        BY <2>1, <2>2, <3>2, <3>4, <4>1
    <3> QED
      BY <3>3, <3>4
  <2>5. vStack' \in Seq(Exact) /\ pPart' \in Seq(Exact)
    BY <1>inv, <2>1, <2>2, Headed
  <2>6. CASE pc' = "end"
    <3>1. Limit' /\ nIter' = nIter
      BY <1>inv, <2>1, <2>6 DEF Limit
    <3> QED
      BY <1>inv, <1>values, <2>1, <2>5, <2>6, <3>1 DEF SerialInv
  <2>7. CASE pc' # "end"
    <3>1. pc' \in {"loop", "solve"} /\ (pc' = "loop" <=> pPart' = <<>>) /\ nIter' \in Nat
      BY <1>inv, <2>1, <2>7
    <3> QED
      BY <1>goal, <2>1, <2>4, <2>5, <3>1
  <2> QED
    BY <2>6, <2>7
<1>5. CASE Cec!Serial!StackEmpty
  <2>1. /\ pc = "loop" /\ vStack = <<>> /\ pc' = "end"
        /\ UNCHANGED <<Sat, nIterMax, vStack, pPart, nIter, RetValue, pCexComb>>
    BY <1>5 DEF Cec!Serial!StackEmpty
  <2> QED
    BY <1>inv, <1>values, <2>1 DEF SerialInv
<1>6. CASE Cec!Serial!Conclude
  <2>1. /\ pc = "end" /\ RetValue' = (IF vStack = <<>> THEN Cec!UNSAT ELSE RetValue)
        /\ vStack' = <<>> /\ pc' = "returned"
        /\ UNCHANGED <<Sat, nIterMax, pPart, nIter, pCexComb>>
    BY <1>6 DEF Cec!Serial!Conclude
  <2>2. vStack' \in Seq(Exact)
    BY <2>1
  <2>3. /\ RetValue' = Cec!SAT => pCexComb' \in Sat
        /\ RetValue' = Cec!UNDEC => Limit'
    BY <1>inv, <1>values, <2>1 DEF Limit
  <2> QED
    BY <1>inv, <2>1, <2>2, <2>3 DEF SerialInv
<1> QED
  BY <1>1, <1>2, <1>3, <1>4, <1>5, <1>6 DEF Cec!Serial!Next

\* Its NothingLost follows as that of the threads does.
LEMMA SerialLosesNothing == ASSUME SerialInv PROVE Cec!Serial!NothingLost
<1> SUFFICES ASSUME pc \in {"loop", "solve"} PROVE Cec!Serial!NothingLost
  BY DEF Cec!Serial!NothingLost
<1> DEFINE W == 1..Len(pPart)
           out == Cec!Range(vStack) \union Cec!Range(pPart)
<1>1. /\ vStack \in Seq(Cofactors) /\ pPart \in Seq(Cofactors)
      /\ AllApart(vStack, W, pPart)
      /\ \A a \in Sat : Holds(vStack, W, pPart, a)
  BY SeqMonotonic DEF SerialInv, Exact
<1>2. Cec!Range(pPart) = {pPart[w] : w \in W}
  BY <1>1 DEF Cec!Range
<1>3. \A w \in W : pPart[w] \in Cofactors
  BY <1>1
<1>4. Sat \subseteq Cec!Covered(out)
  BY <1>1, <1>2, OutCovers
<1>5. \A c, d \in out : c # d => Apart(c, d)
  BY <1>1, <1>2, <1>3, OutApart
<1> HIDE DEF out
<1>6. \A c, d \in out : c # d => Cec!Inputs(c) \intersect Cec!Inputs(d) = {}
  BY <1>5 DEF Apart
<1> QED
  BY <1>4, <1>6, SerialIs DEF Cec!Serial!NothingLost, out

-----------------------------------------------------------------------------
(* Both of them, as a command of the session. *)

\* The threads start after the first check, if that has not given the answer.
ThreadsInv ==
  /\ TypeOK /\ LinkInv /\ AnswerInv /\ CoverInv /\ ApartInv /\ Cec!RightVerdict
  /\ pc \in {"check", "threads", "returned"}
  /\ pc # "returned" => WorkInv
  /\ pc # "threads" => NoThreads
  /\ pc = "returned" => RetValue = IF Sat # {} THEN Cec!SAT ELSE Cec!UNSAT

TestInv ==
  /\ engine \in {"threads", "serial"}
  /\ engine = "threads" => ThreadsInv
  /\ engine = "serial" => NoThreads /\ SerialInv

\* The first check of the threads.
LEMMA CheckStep ==
  ASSUME Bounds, TestInv, Cec!CheckProblem
  PROVE  TestInv'
<1>1. /\ engine = "threads" /\ pc = "check" /\ engine' = engine
      /\ UNCHANGED <<wpc, cur, fWorking, job, mpc, scan, pCnf, Result, fWorkToDo, Sat,
                     nIterMax, vStack, nIter>>
  BY DEF Cec!CheckProblem, Cec!poolOnly, Cec!fixed
<1>2. PICK answ \in Cec!Answers(Cec!Whole) :
        IF answ = Cec!UNDEC
          THEN pc' = "threads" /\ UNCHANGED <<RetValue, pCexComb>>
          ELSE RetValue' = answ /\ pc' = "returned"
  BY DEF Cec!CheckProblem
<1>3. ThreadsInv
  BY <1>1 DEF TestInv
<1>4. LinkInv' /\ AnswerInv' /\ CoverInv' /\ ApartInv' /\ NoThreads' /\ Cec!RightVerdict'
  <2>1. LinkInv' /\ NoThreads'
    BY <1>1, <1>3 DEF ThreadsInv, LinkInv, NoThreads, Idle, Working
  <2>2. AnswerInv'
    BY <1>1, <1>3 DEF ThreadsInv, AnswerInv, Right, Idle, Cec!Inputs
  <2>3. CoverInv'
    BY <1>1, <1>3 DEF ThreadsInv, CoverInv, OnStack, InRecord, Cec!Inputs
  <2>4. ApartInv'
    BY <1>1, <1>3 DEF ThreadsInv, ApartInv, AllApart, Apart, Cec!Inputs, Cec!Busy
  <2>5. Cec!RightVerdict'
    <3>1. mpc' = "create"
      BY <1>1, <1>3 DEF ThreadsInv, NoThreads
    <3> QED
      BY <3>1 DEF Cec!RightVerdict
  <2> QED
    BY <2>1, <2>2, <2>3, <2>4, <2>5
<1>5. CASE answ = Cec!UNDEC
  <2>1. pc' = "threads" /\ RetValue' = RetValue
    BY <1>2, <1>5
  <2>2. TypeOK' /\ WorkInv'
    BY <1>1, <1>3, <2>1 DEF ThreadsInv, TypeOK, WorkInv, Seen
  <2> QED
    BY <1>1, <1>4, <2>1, <2>2 DEF TestInv, ThreadsInv
<1>6. CASE answ # Cec!UNDEC
  <2>1. pc' = "returned" /\ RetValue' = answ
    BY <1>2, <1>6
  <2>2. answ = IF Cec!Inputs(Cec!Whole) \intersect Sat # {} THEN Cec!SAT ELSE Cec!UNSAT
    BY <1>2, <1>6 DEF Cec!Answers
  <2>3. Cec!Inputs(Cec!Whole) \intersect Sat # {} <=> Sat # {}
    BY <1>3, WholeIs DEF ThreadsInv, TypeOK
  <2>4. RetValue' = IF Sat' # {} THEN Cec!SAT ELSE Cec!UNSAT
    BY <1>1, <2>1, <2>2, <2>3
  <2>5. TypeOK'
    BY <1>1, <1>3, <2>4 DEF ThreadsInv, TypeOK
  <2> QED
    BY <1>1, <1>4, <2>1, <2>4, <2>5 DEF TestInv, ThreadsInv
<1> QED
  BY <1>5, <1>6

\* What does not touch the state of the test keeps the invariant.
LEMMA TestStutter ==
  ASSUME Bounds, TestInv, UNCHANGED Cec!testVars
  PROVE  TestInv'
<1>1. UNCHANGED <<wpc, cur, fWorking, job, mpc, scan, Sat, nIterMax, vStack, pCnf, Result,
                  nIter, fWorkToDo, RetValue, pCex, pCexComb, engine, pc, pPart>>
  BY DEF Cec!testVars, Cec!vars, Cec!own, Cec!cexs
<1>2. CASE engine = "threads"
  <2>1. ThreadsInv
    BY <1>2 DEF TestInv
  <2>2. LinkInv' /\ NoThreads' = NoThreads
    BY <1>1, <2>1 DEF ThreadsInv, LinkInv, NoThreads, Idle, Working
  <2>3. AnswerInv'
    BY <1>1, <2>1 DEF ThreadsInv, AnswerInv, Right, Idle, Cec!Inputs
  <2>4. CoverInv'
    BY <1>1, <2>1 DEF ThreadsInv, CoverInv, OnStack, InRecord, Cec!Inputs
  <2>5. ApartInv'
    BY <1>1, <2>1 DEF ThreadsInv, ApartInv, AllApart, Apart, Cec!Inputs, Cec!Busy
  <2>6. Cec!RightVerdict'
    BY <1>1, <2>1 DEF ThreadsInv, Cec!RightVerdict
  <2>7. TypeOK' /\ WorkInv' = WorkInv
    BY <1>1, <2>1 DEF ThreadsInv, TypeOK, WorkInv, Seen
  <2> QED
    BY <1>1, <1>2, <2>1, <2>2, <2>3, <2>4, <2>5, <2>6, <2>7 DEF TestInv, ThreadsInv
<1>3. CASE engine = "serial"
  BY <1>1, <1>3 DEF TestInv, NoThreads, SerialInv, AllApart, Apart, Holds, Cec!Inputs, Limit
<1> QED
  BY <1>2, <1>3 DEF TestInv

\* Every step keeps the invariant.
LEMMA TestStep ==
  ASSUME Bounds, TestInv, [Cec!TestNext]_(Cec!testVars)
  PROVE  TestInv'
<1>1. CASE Cec!CheckProblem
  BY <1>1, CheckStep
<1>2. CASE Cec!SerialStep
  <2>1. engine = "serial" /\ Cec!Serial!Next /\ UNCHANGED <<wpc, mpc, engine>>
    BY <1>2 DEF Cec!SerialStep, Cec!poolOnly
  <2>2. SerialInv'
    BY <2>1, SerialSteps DEF TestInv
  <2> QED
    BY <2>1, <2>2 DEF TestInv, NoThreads
<1>3. ASSUME Cec!Next, engine = "threads", pc = "threads", UNCHANGED <<engine, pc>>
      PROVE  TestInv'
  <2>1. IInv
    BY <1>3 DEF TestInv, ThreadsInv, IInv
  <2>2. TypeOK' /\ LinkInv' /\ AnswerInv' /\ CoverInv' /\ ApartInv' /\ WorkInv'
        /\ Cec!RightVerdict'
    BY <1>3, <2>1, TypeStep, LinkStep, AnswerStep, CoverStep, ApartStep, WorkStep, VerdictStep
  <2> QED
    BY <1>3, <2>2 DEF TestInv, ThreadsInv
<1>4. CASE Cec!ThreadedManager
  <2>1. Cec!Next /\ pc = "threads" /\ UNCHANGED <<engine, pc>>
    BY <1>4 DEF Cec!ThreadedManager, Cec!Next
  <2> QED
    BY <1>3, <2>1 DEF TestInv, SerialInv
<1>5. ASSUME NEW w \in Cec!Worker,
             Cec!ThreadedWorker(w) \/ (Cec!Reused(w) /\ UNCHANGED <<engine, pc, pPart>>)
      PROVE  TestInv'
  <2>1. Cec!Next /\ UNCHANGED <<engine, pc>>
    BY <1>5 DEF Cec!ThreadedWorker, Cec!Next
  <2>2. ~NoThreads
    BY <1>5 DEF Cec!ThreadedWorker, Cec!WorkerThread, Cec!Wake, Cec!ReadJob, Cec!ClearFlag,
       Cec!Solved, Cec!Reused, Cec!FrameReused, NoThreads
  <2>3. engine = "threads" /\ pc = "threads"
    BY <2>2 DEF TestInv, ThreadsInv
  <2> QED
    BY <1>3, <2>1, <2>3
<1>6. CASE UNCHANGED Cec!testVars
  BY <1>6, TestStutter
<1> QED
  BY <1>1, <1>2, <1>4, <1>5, <1>6 DEF Cec!TestNext, Cec!TestManager

\* The initial states.
LEMMA TestStart == ASSUME Bounds, Cec!TestInit PROVE TestInv
<1>1. CASE engine = "threads" /\ Cec!Init /\ pc = "check" /\ pPart = <<>>
  <2>1. IInv
    BY <1>1, InitInv
  <2>2. NoThreads
    BY <1>1 DEF Cec!Init, Cec!PoolInit, NoThreads
  <2> QED
    BY <1>1, <2>1, <2>2 DEF TestInv, ThreadsInv, IInv
<1>2. CASE engine = "serial" /\ Cec!Serial!Init /\ Cec!PoolInit(NoJob)
  <2>1. NoThreads
    BY <1>2 DEF Cec!PoolInit, NoThreads
  <2> QED
    BY <1>2, <2>1, SerialInit DEF TestInv
<1> QED
  BY <1>1, <1>2 DEF Cec!TestInit

-----------------------------------------------------------------------------
(* The session. *)

\* Every step is one of the command that runs, which stays the same.
LEMMA Steps ==
  ASSUME command = "cec" => TestInv, [Next]_vars
  PROVE  command' = command /\ (command = "cec" => [Cec!TestNext]_(Cec!testVars))
<1>1. CASE Manager
  BY <1>1 DEF Manager, OfTuner, OfStoch, OfCnf, OfBmcs, OfCec, OfGla, OfProg, Cec!TestNext
<1>2. CASE PdrAnswers \/ Provers
  BY <1>2 DEF PdrAnswers, Provers, OfGla
<1>3. ASSUME NEW t \in Threads, Thread(t)
      PROVE  command' = command /\ (command = "cec" => Cec!TestNext)
  <2>1. command' = command
    BY <1>3 DEF Thread
  <2>2. ASSUME command = "cec" PROVE Cec!TestNext
    <3>1. t <= nSolvers /\ Cec!ThreadedWorker(t)
      BY <1>3, <2>2 DEF Thread, OfTuner, OfStoch, OfCnf, OfBmcs, OfCec, OfProg
    <3>2. t \in Cec!Worker
      BY <3>1 DEF Cec!Worker, Threads
    <3> QED
      BY <3>1, <3>2 DEF Cec!TestNext
  <2> QED
    BY <2>1, <2>2
<1>4. ASSUME NEW t \in Threads, Reused(t)
      PROVE  command' = command /\ (command = "cec" => Cec!TestNext)
  <2>1. command' = command
    BY <1>4 DEF Reused
  <2>2. ASSUME command = "cec" PROVE Cec!TestNext
    <3>1. t \in DOMAIN wpc /\ mpc = "returned"
      BY <1>4 DEF Reused, Pool!FrameReused
    <3>2. TypeOK
      BY <2>2, <3>1 DEF TestInv, ThreadsInv, NoThreads
    <3>3. t \in Cec!Worker
      BY <3>1, <3>2 DEF TypeOK
    <3>4. Cec!FrameReused(t)
      BY <1>4 DEF Reused, Pool!FrameReused, Pool!worker, Cec!FrameReused, Cec!worker
    <3>5. UNCHANGED <<Cec!fixed, Cec!own, engine, pc, pPart>>
      BY <1>4 DEF Reused, work, cec, Cec!fixed, Cec!own, Cec!cexs
    <3> QED
      BY <3>3, <3>4, <3>5 DEF Cec!TestNext, Cec!Reused
  <2> QED
    BY <2>1, <2>2
<1>5. CASE UNCHANGED vars
  BY <1>5 DEF vars, pool, work, shared, cec, Cec!testVars, Cec!vars, Cec!own, Cec!cexs
<1> QED
  BY <1>1, <1>2, <1>3, <1>4, <1>5 DEF Next

\* The invariant holds in every reachable state of the command.
LEMMA Invariant == Spec => [](command = "cec" => TestInv)
<1>1. Init => (command = "cec" => TestInv)
  BY BoundsHold, TestStart DEF Init
<1>2. (command = "cec" => TestInv) /\ [Next]_vars => (command = "cec" => TestInv)'
  BY BoundsHold, Steps, TestStep
<1> QED
  BY <1>1, <1>2, PTL DEF Spec

\* Cec_GiaSplitTestInt and Cec_GiaSplitTest2 lose no cofactor and look at none twice:
\* what can make the miter 1 is on the stack, in a worker's record, or one of the two
\* cofactors that are being solved, and each assignment is in one of these places.
THEOREM NothingIsLost == Spec => []NoCofactorLost
<1>1. TestInv => Cec!NoCofactorLost
  BY BoundsHold, ThreadsLoseNothing, SerialLosesNothing DEF TestInv, ThreadsInv,
     Cec!NoCofactorLost
<1> QED
  BY <1>1, Invariant, PTL DEF NoCofactorLost

\* "SATISFIABLE" and "UNSATISFIABLE" of the threads are true of the miter, and
\* "UNDECIDED" is left to a call with an iteration limit.  The serial procedure's
\* "SATISFIABLE" comes with an assignment that makes the miter 1.
THEOREM VerdictIsRight == Spec => []SplitVerdict
<1>1. TestInv => Cec!ThreadsVerdict
  BY DEF TestInv, ThreadsInv, Cec!ThreadsVerdict
<1>2. TestInv => Cec!SerialVerdict
  BY DEF TestInv, NoThreads, SerialInv, Limit, Cec!SerialVerdict, Cec!Returned
<1> QED
  BY <1>1, <1>2, Invariant, PTL DEF SplitVerdict
=============================================================================
