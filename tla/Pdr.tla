---------------------------------- MODULE Pdr ----------------------------------
(***************************************************************************)
(* Property directed reachability, proof/pdr: Pdr_ManSolve with its        *)
(* proof-obligation queue (Pdr_ManBlockCube), the clauses of the time      *)
(* frames and the SAT solver of each frame.                                *)
(*                                                                         *)
(* A cube is a set of literals <<register, value>>.  A solver is modelled  *)
(* by what its clauses leave possible: F[k] is the set of states that the  *)
(* clauses added to solver k do not exclude, and P[k] the outputs that are *)
(* set to 0 in it.  Which assignment a solver returns, which part of a     *)
(* cube it needs, and in what order literals and equal obligations are     *)
(* tried, is left open.                                                    *)
(***************************************************************************)
EXTENDS Integers, Sequences, FiniteSets, SequencesExt

CONSTANTS
  Flops,      \* the registers
  Inputs,     \* the values of the primary inputs
  nOuts,      \* the number of property outputs
  Cases       \* the designs and parameters: a set of pairs <<design, par>>

State   == [Flops -> BOOLEAN]
Literal == Flops \X BOOLEAN
Cube    == SUBSET Literal
Outs    == 1..nOuts
Zero    == [r \in Flops |-> FALSE]

\* A design: the next state, and the states and inputs that assert each output
Design == [next : [State \X Inputs -> State], bad : [Outs -> SUBSET (State \X Inputs)]]

\* Pdr_Par_t; timed is nTimeOutOne > 0, which needs fSolveAll
Params == [fSolveAll : BOOLEAN, fReuseProofOblig : BOOLEAN, fShortest : BOOLEAN,
           fShiftStart : BOOLEAN, nRestLimit : Nat, timed : BOOLEAN]

ASSUME PdrConstants ==
  /\ Flops # {}
  /\ nOuts \in Nat \ {0}
  /\ Cases \subseteq Design \X Params

VARIABLES
  design, par,
  pc,          \* "output", "block", "frame", "push" or "done"
  iFrame,      \* the top frame, kMax
  iOutCur,
  vClauses,    \* level -> the cubes whose clauses hold up to this level
  F, P,        \* the solvers
  pQueue,      \* the proof obligations
  nQueLim, iUseFrame,
  k, todo,     \* Pdr_ManPushClauses: the level, and its cubes still to look at
  fInv,        \* a level became empty
  vOutMap,     \* -2 unknown, -1 undecided, 0 fails, 1 proved
  vCexes,      \* the inputs of each output's counter-example
  RetValue

vars == <<design, par, pc, iFrame, iOutCur, vClauses, F, P, pQueue, nQueLim,
          iUseFrame, k, todo, fInv, vOutMap, vCexes, RetValue>>
fixed   == <<design, par>>
solvers == <<F, P>>
queue   == <<pQueue, nQueLim, iUseFrame>>
push    == <<k, todo, fInv>>
results == <<vOutMap, vCexes, RetValue>>

FAILS == 0      \* SAT, the answer "fails"
PROVED == 1
UNDEC  == -1
UNKNOWN == -2
NoCex  == <<>>

-----------------------------------------------------------------------------
(* Cubes and clauses. *)

States(c) == {s \in State : \A l \in c : s[l[1]] = l[2]}

\* Pdr_SetIsInit: no positive literal
SetIsInit(c) == \A l \in c : ~l[2]

\* Pdr_SetContains
SetContains(old, new) == new \subseteq old

\* What the clauses of a level and above leave
Above(cl, j) == {s \in State : \A i \in DOMAIN cl : i >= j => \A c \in cl[i] : s \notin States(c)}

Max2(a, b) == IF a > b THEN a ELSE b
Min2(a, b) == IF a < b THEN a ELSE b

-----------------------------------------------------------------------------
(* The questions to the solvers. *)

Unsolved == {o \in Outs : vOutMap[o] = UNKNOWN}

\* The assignments solver j allows
Allowed(j) == {x \in F[j] \X Inputs : \A o \in P[j] : x \notin design.bad[o]}

\* Pdr_ManCheckCube with no cube: the assignments that assert the output
Failing(j, o) == Allowed(j) \intersect design.bad[o]

\* Pdr_ManCheckCube: how the cube is reached from outside it.  "without" is the
\* cube of the clause that the activation literal switches on.
Reaching(j, c, without) ==
  {x \in Allowed(j) : x[1] \notin States(without) /\ design.next[x] \in States(c)}

CheckCube(j, c) == Reaching(j, c, c) = {}

\* Pdr_ManCheckCubeCs
CheckCubeCs(j, c) == \A x \in Allowed(j) : x[1] \notin States(c)

\* Pdr_ManCheckContainment
CheckContainment(j, c) ==
  \E i \in j..iFrame : \E d \in vClauses[i] : SetContains(c, d)

\* With this input: the states that assert the output, or step into the cube
Asserting(o, i) == {s \in State : <<s, i>> \in design.bad[o]}
Stepping(c, i)  == {s \in State : design.next[<<s, i>>] \in States(c)}

\* Pdr_ManTernarySim: some literals of the state under which the target is hit
\* whatever the other registers hold; "if nothing is left, literal 0".
TernarySim(s, target) ==
  LET lits == {<<r, s[r]>> : r \in Flops}
  IN  {IF c = {} THEN {<<CHOOSE r \in Flops : TRUE, TRUE>>} ELSE c :
         c \in {d \in SUBSET lits : States(d) \subseteq target}}

\* Pdr_ManReduceClause: a part of the cube, without the initial state, that the
\* last question needed; it was asked with the clause of the whole cube.
ReduceClause(j, c) ==
  {d \in SUBSET c : ~SetIsInit(d) /\ Reaching(j, d, c) = {}}

\* Mutant: a literal is removed without asking the solver again.
GeneralizeUnchecked(j, c) == {d \in SUBSET c : ~SetIsInit(d)}

\* Pdr_ManGeneralize: literals are removed as long as the solver says that the
\* rest, with its own clause, is unreachable
Generalize(j, c) ==
  {d \in SUBSET c : ~SetIsInit(d) /\ CheckCube(j, d)}

-----------------------------------------------------------------------------

Init ==
  /\ \E x \in Cases : design = x[1] /\ par = x[2]
  /\ pc = "output"
  /\ iFrame = 0 /\ iOutCur = 1
  /\ vClauses = [j \in 0..0 |-> {}]
  /\ F = [j \in 0..0 |-> {Zero}]
  /\ P = [j \in 0..0 |-> {}]
  /\ pQueue = {} /\ nQueLim = 0 /\ iUseFrame = 1
  /\ k = 0 /\ todo = {} /\ fInv = FALSE
  /\ vOutMap = [o \in Outs |-> UNKNOWN]
  /\ vCexes = [o \in Outs |-> NoCex]
  /\ RetValue = UNDEC

\* Mutant: one turn too many.
NextBeyond ==
  IF iOutCur <= nOuts THEN iOutCur' = iOutCur + 1 /\ pc' = "output"
                      ELSE pc' = "frame" /\ UNCHANGED iOutCur

\* The next turn of Saig_ManForEachPo, or its end
NextOutput ==
  IF iOutCur < nOuts THEN iOutCur' = iOutCur + 1 /\ pc' = "output"
                     ELSE pc' = "frame" /\ UNCHANGED iOutCur

\* "skip disproved outputs", "skip output whose time has run out"
SkipOutput ==
  /\ pc = "output"
  /\ iOutCur \notin Unsolved
  /\ NextOutput
  /\ UNCHANGED <<fixed, iFrame, vClauses, solvers, queue, push, results>>

OutputHolds ==
  /\ pc = "output"
  /\ iOutCur \in Unsolved
  /\ Failing(iFrame, iOutCur) = {}
  /\ NextOutput
  /\ UNCHANGED <<fixed, iFrame, vClauses, solvers, queue, push, results>>

\* A proof obligation is a cube, the frame it has to be blocked in, and the
\* inputs that lead from each of its states to the output (the chain pNext).
OutputFails ==
  /\ pc = "output"
  /\ iOutCur \in Unsolved
  /\ \E x \in Failing(iFrame, iOutCur) :
       \E c \in TernarySim(x[1], Asserting(iOutCur, x[2])) :
         pQueue' = pQueue \union {[iFrame |-> iFrame, pState |-> c, ins |-> <<x[2]>>]}
  /\ pc' = "block"
  /\ UNCHANGED <<fixed, iFrame, iOutCur, vClauses, solvers, nQueLim, iUseFrame, push,
                 results>>

-----------------------------------------------------------------------------
(* Pdr_ManBlockCube, one turn of its loop. *)

Heads == {ob \in pQueue : \A x \in pQueue : ob.iFrame <= x.iFrame}

\* An obligation in frame 0: the output fails.  Without fSolveAll that is the
\* answer, otherwise the other outputs go on.
CexFound ==
  /\ pc = "block"
  /\ \E ob \in Heads :
       /\ ob.iFrame = 0
       /\ vCexes' = [vCexes EXCEPT ![iOutCur] = ob.ins]
  /\ vOutMap' = [vOutMap EXCEPT ![iOutCur] = FAILS]
  /\ IF ~par.fSolveAll \/ \A o \in Outs : vOutMap'[o] = FAILS
       THEN RetValue' = FAILS /\ pc' = "done" /\ UNCHANGED <<iOutCur, pQueue>>
       ELSE pQueue' = {} /\ NextOutput /\ UNCHANGED RetValue
  /\ UNCHANGED <<fixed, iFrame, vClauses, solvers, nQueLim, iUseFrame, push>>

\* The queue is empty, or only holds what was put off to the next frame.
LevelBlocked ==
  /\ pc = "block"
  /\ \A ob \in pQueue : ob.iFrame > iFrame
  /\ pc' = "output"
  /\ UNCHANGED <<fixed, iFrame, iOutCur, vClauses, solvers, queue, push, results>>

Full == nQueLim > 0 /\ Cardinality(pQueue) >= nQueLim

\* Mutant: the limit is not raised.
RestartSameLimit ==
  /\ pc = "block"
  /\ \E ob \in Heads : ob.iFrame \in 1..iFrame
  /\ Full
  /\ pQueue' = {}
  /\ pc' = "output"
  /\ UNCHANGED <<fixed, iFrame, iOutCur, vClauses, solvers, nQueLim, iUseFrame, push,
                 results>>

\* "restart"
Restart ==
  /\ pc = "block"
  /\ \E ob \in Heads : ob.iFrame \in 1..iFrame
  /\ Full
  /\ nQueLim' = (nQueLim * 3) \div 2
  /\ pQueue' = {}
  /\ pc' = "output"
  /\ UNCHANGED <<fixed, iFrame, iOutCur, vClauses, solvers, iUseFrame, push, results>>

Popped(ob) ==
  /\ pc = "block"
  /\ ob \in Heads
  /\ ob.iFrame \in 1..iFrame
  /\ ~Full
  /\ iUseFrame' = Min2(iUseFrame, ob.iFrame)

Covered(ob) == CheckContainment(ob.iFrame, ob.pState) \/ CheckCubeCs(ob.iFrame, ob.pState)

DropObligation ==
  /\ \E ob \in Heads : Popped(ob) /\ Covered(ob) /\ pQueue' = pQueue \ {ob}
  /\ UNCHANGED <<fixed, pc, iFrame, iOutCur, vClauses, solvers, nQueLim, push, results>>

\* Mutant: the obligation moves up although the shortest trace is wanted.
BlockAndRequeue ==
  /\ \E ob \in Heads :
       /\ Popped(ob)
       /\ ~Covered(ob)
       /\ CheckCube(ob.iFrame - 1, ob.pState)
       /\ \E c \in Generalize(ob.iFrame - 1, ob.pState), last \in ob.iFrame..iFrame :
            /\ \A j \in ob.iFrame..(last - 1) : CheckCube(j, c)
            /\ last < iFrame => ~CheckCube(last, c)
            /\ vClauses' = [vClauses EXCEPT ![last] = @ \union {c}]
            /\ F' = [j \in DOMAIN F |-> IF j \in 1..last THEN F[j] \ States(c) ELSE F[j]]
            /\ pQueue' = (pQueue \ {ob}) \union
                 (IF last < iFrame \/ par.fReuseProofOblig
                    THEN {[ob EXCEPT !.iFrame = last + 1]} ELSE {})
  /\ UNCHANGED <<fixed, pc, iFrame, iOutCur, P, nQueLim, push, results>>

\* The cube is unreachable from the frame before: a part of it becomes a
\* clause, up to "the last frame where pCubeMin holds", and the obligation moves
\* above that.
BlockObligation ==
  /\ \E ob \in Heads :
       /\ Popped(ob)
       /\ ~Covered(ob)
       /\ CheckCube(ob.iFrame - 1, ob.pState)
       /\ \E c \in Generalize(ob.iFrame - 1, ob.pState), last \in ob.iFrame..iFrame :
            /\ \A j \in ob.iFrame..(last - 1) : CheckCube(j, c)
            /\ last < iFrame => ~CheckCube(last, c)
            /\ vClauses' = [vClauses EXCEPT ![last] = @ \union {c}]
            /\ F' = [j \in DOMAIN F |-> IF j \in 1..last THEN F[j] \ States(c) ELSE F[j]]
            /\ pQueue' = (pQueue \ {ob}) \union
                 (IF (last < iFrame \/ par.fReuseProofOblig) /\ ~par.fShortest
                    THEN {[ob EXCEPT !.iFrame = last + 1]} ELSE {})
  /\ UNCHANGED <<fixed, pc, iFrame, iOutCur, P, nQueLim, push, results>>

\* Mutant: the predecessor is put into the frame of its successor.
PredecessorInPlace ==
  /\ \E ob \in Heads :
       /\ Popped(ob)
       /\ ~Covered(ob)
       /\ \E x \in Reaching(ob.iFrame - 1, ob.pState, ob.pState) :
            \E c \in TernarySim(x[1], Stepping(ob.pState, x[2])) :
              pQueue' = pQueue \union {[iFrame |-> ob.iFrame, pState |-> c,
                                        ins |-> <<x[2]>> \o ob.ins]}
  /\ UNCHANGED <<fixed, pc, iFrame, iOutCur, vClauses, solvers, nQueLim, push, results>>

\* It is reachable: the predecessor has to be blocked first.
FindPredecessor ==
  /\ \E ob \in Heads :
       /\ Popped(ob)
       /\ ~Covered(ob)
       /\ \E x \in Reaching(ob.iFrame - 1, ob.pState, ob.pState) :
            \E c \in TernarySim(x[1], Stepping(ob.pState, x[2])) :
              pQueue' = pQueue \union {[iFrame |-> ob.iFrame - 1, pState |-> c,
                                        ins |-> <<x[2]>> \o ob.ins]}
  /\ UNCHANGED <<fixed, pc, iFrame, iOutCur, vClauses, solvers, nQueLim, push, results>>

\* timeToStopOne: the output is given up, during the search or after it
OutputTimesOut ==
  /\ pc \in {"output", "block"}
  /\ par.timed
  /\ iOutCur \in Unsolved
  /\ vOutMap' = [vOutMap EXCEPT ![iOutCur] = UNDEC]
  /\ \/ pQueue' = {}
     \/ pc = "output" /\ Failing(iFrame, iOutCur) = {} /\ UNCHANGED pQueue
  /\ NextOutput
  /\ UNCHANGED <<fixed, iFrame, vClauses, solvers, nQueLim, iUseFrame, push, vCexes,
                 RetValue>>

-----------------------------------------------------------------------------
(* A new time frame, and Pdr_ManPushClauses. *)

\* The outputs that are not solved are 0 in the old top frame from now on.
OpenFrame ==
  /\ pc = "frame"
  /\ nQueLim' = par.nRestLimit
  /\ iFrame' = iFrame + 1
  /\ vClauses' = [j \in 0..(iFrame + 1) |-> IF j <= iFrame THEN vClauses[j] ELSE {}]
  /\ F' = [j \in 0..(iFrame + 1) |-> IF j <= iFrame THEN F[j] ELSE State]
  /\ P' = [j \in 0..(iFrame + 1) |-> CASE j < iFrame -> P[j]
                                       [] j = iFrame -> Unsolved
                                       [] OTHER      -> {}]
  /\ k' = IF par.fShiftStart THEN iUseFrame ELSE 1
  /\ todo' = vClauses'[k']
  /\ fInv' = FALSE
  /\ pc' = "push"
  /\ UNCHANGED <<fixed, iOutCur, pQueue, iUseFrame, results>>

\* One cube of the level: the others it contains are removed, and it moves up,
\* reduced, if it holds there.  The reduced clause only gets into solver k + 1.
PushCube ==
  /\ pc = "push"
  /\ k < iFrame
  /\ \E c \in todo :
       LET rest  == {d \in todo : ~SetContains(d, c)}
           level == (vClauses[k] \ todo) \union rest \union {c}
       IN  /\ todo' = rest
           /\ IF CheckCube(k, c)
                THEN \E d \in ReduceClause(k, c) :
                       /\ vClauses' = [vClauses EXCEPT
                            ![k]     = level \ {c},
                            ![k + 1] = {e \in @ : ~SetContains(e, d)} \union {d}]
                       /\ F' = [F EXCEPT ![k + 1] = @ \ States(d)]
                ELSE vClauses' = [vClauses EXCEPT ![k] = level] /\ UNCHANGED F
  /\ UNCHANGED <<fixed, pc, iFrame, iOutCur, P, queue, k, fInv, results>>

\* Mutant: the level above is looked at.
LevelAbove ==
  /\ pc = "push"
  /\ k < iFrame
  /\ todo = {}
  /\ fInv' = (fInv \/ vClauses[k + 1] = {})
  /\ k' = k + 1
  /\ todo' = vClauses[k + 1]
  /\ UNCHANGED <<fixed, pc, iFrame, iOutCur, vClauses, solvers, queue, results>>

NextLevel ==
  /\ pc = "push"
  /\ k < iFrame
  /\ todo = {}
  /\ fInv' = (fInv \/ vClauses[k] = {})
  /\ k' = k + 1
  /\ todo' = vClauses[k + 1]
  /\ UNCHANGED <<fixed, pc, iFrame, iOutCur, vClauses, solvers, queue, results>>

\* "clean up the last one", and the verdict if a level is empty: what was
\* unknown is proved.
LastLevel ==
  /\ pc = "push"
  /\ k >= iFrame
  /\ \E kept \in SUBSET vClauses[iFrame] :
       /\ \A c \in vClauses[iFrame] : \E d \in kept : SetContains(c, d)
       /\ \A c, d \in kept : SetContains(c, d) => c = d
       /\ vClauses' = [vClauses EXCEPT ![iFrame] = kept]
  /\ IF fInv
       THEN /\ vOutMap' = [o \in Outs |-> IF vOutMap[o] = UNKNOWN THEN PROVED ELSE vOutMap[o]]
            /\ RetValue' = CASE \A o \in Outs : vOutMap[o] = UNKNOWN -> PROVED
                             [] \E o \in Outs : vOutMap[o] = FAILS  -> FAILS
                             [] OTHER -> UNDEC
            /\ pc' = "done"
            /\ UNCHANGED <<iOutCur, iUseFrame>>
       ELSE /\ pc' = "output"
            /\ iOutCur' = 1
            /\ iUseFrame' = Max2(iFrame, 1)
            /\ UNCHANGED <<vOutMap, RetValue>>
  /\ UNCHANGED <<fixed, iFrame, solvers, pQueue, nQueLim, push, vCexes>>

-----------------------------------------------------------------------------

\* Pdr_ManFetchSolver, when a solver has used up its activation variables: it
\* starts again with the clauses of its level and above.  The top solver never
\* has any.
FetchSolver(j) ==
  /\ pc \in {"block", "push"}
  /\ j < iFrame
  /\ F' = [F EXCEPT ![j] = IF j = 0 THEN @ ELSE Above(vClauses, j)]
  /\ P' = [P EXCEPT ![j] = Unsolved]
  /\ UNCHANGED <<fixed, pc, iFrame, iOutCur, vClauses, queue, push, results>>

\* A time-out, a limit or a callback ends the search; "convert all unknown
\* entries into undecided".
Stop ==
  /\ pc # "done"
  /\ vOutMap' = [o \in Outs |-> IF vOutMap[o] = UNKNOWN THEN UNDEC ELSE vOutMap[o]]
  /\ RetValue' = UNDEC
  /\ pc' = "done"
  /\ UNCHANGED <<fixed, iFrame, iOutCur, vClauses, solvers, queue, push, vCexes>>

Step ==
  \/ SkipOutput \/ OutputHolds \/ OutputFails
  \/ CexFound \/ LevelBlocked \/ Restart
  \/ DropObligation \/ BlockObligation \/ FindPredecessor
  \/ OpenFrame \/ PushCube \/ NextLevel \/ LastLevel

Next == Step \/ OutputTimesOut \/ Stop \/ \E j \in DOMAIN F : FetchSolver(j)

Spec == Init /\ [][Next]_vars

\* The search goes on; nothing has to stop it.
FairSpec == Spec /\ WF_vars(Step)

-----------------------------------------------------------------------------
(* What the search promises. *)

Closed(S) == Zero \in S /\ \A s \in S, i \in Inputs : design.next[<<s, i>>] \in S

Reachable == {s \in State : \A S \in SUBSET State : Closed(S) => s \in S}

Holds(o) == \A s \in Reachable, i \in Inputs : <<s, i>> \notin design.bad[o]

\* The clauses of frame j and above
Frame(j) == IF j = 0 THEN {Zero} ELSE Above(vClauses, j)

\* No state of frame j asserts the output.
Clear(j, o) == \A s \in Frame(j), i \in Inputs : <<s, i>> \notin design.bad[o]

\* The states at the end of a sequence of inputs, and whether the last input
\* asserts the output there
After(ins) == FoldLeft(LAMBDA s, i : design.next[<<s, i>>], Zero, ins)
Asserts(ins, o) == ins # <<>> /\ <<After(Front(ins)), Last(ins)>> \in design.bad[o]

TypeOK ==
  /\ design \in Design /\ par \in Params
  /\ pc \in {"output", "block", "frame", "push", "done"}
  /\ iFrame \in Nat /\ iOutCur \in Outs
  /\ vClauses \in [0..iFrame -> SUBSET Cube]
  /\ F \in [0..iFrame -> SUBSET State]
  /\ P \in [0..iFrame -> SUBSET Outs]
  /\ pQueue \subseteq [iFrame : 0..(iFrame + 1), pState : Cube, ins : Seq(Inputs)]
  /\ nQueLim \in Nat /\ iUseFrame \in 1..Max2(iFrame, 1)
  /\ k \in 0..iFrame /\ todo \subseteq Cube /\ fInv \in BOOLEAN
  /\ vOutMap \in [Outs -> {UNKNOWN, UNDEC, FAILS, PROVED}]
  /\ RetValue \in {UNDEC, FAILS, PROVED}

\* The clauses of each frame hold initially and after every step from the frame
\* below, each solver knows no more than they say, and no output that is still
\* open can be asserted below the top.
FramesHold ==
  /\ \A j \in 0..iFrame : Zero \in Frame(j) /\ Frame(j) \subseteq F[j]
  /\ \A j \in 0..(iFrame - 1) :
       /\ \A s \in Frame(j), i \in Inputs : design.next[<<s, i>>] \in Frame(j + 1)
       /\ \A o \in Unsolved \union P[j] : Clear(j, o)

\* "UNSAT": an output that is said to be proved is never asserted.
ProvedIsTrue == \A o \in Outs : vOutMap[o] = PROVED => Holds(o)

\* "CEX for output %d is not valid": what is reported for a failing output
\* asserts that output, from the initial state.
CexIsValid == \A o \in Outs : vOutMap[o] = FAILS => Asserts(vCexes[o], o)

\* The counter-examples are valid, and with fShortest none is shorter.
CexIsTrace ==
  /\ CexIsValid
  /\ par.fShortest =>
       \A o \in Outs : vOutMap[o] = FAILS =>
         \A ins \in SeqOf(Inputs, Len(vCexes[o]) - 1) : ~Asserts(ins, o)

\* "assert( !Pdr_SetIsInit(pThis->pState, -1) )"
NoInitObligation == \A ob \in pQueue : ob.iFrame > 0 => ~SetIsInit(ob.pState)

\* The search ends.
Terminates == <>(pc = "done")

=============================================================================
