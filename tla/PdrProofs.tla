------------------------------- MODULE PdrProofs -------------------------------
(***************************************************************************)
(* Proofs about Pdr, for every design, whatever its registers, inputs and  *)
(* outputs, and whatever the solvers answer.                               *)
(*                                                                         *)
(* The frames of the argument are those of the clauses, not of the         *)
(* solvers: a clause that was reduced while it was pushed is only in one   *)
(* solver, so the solvers alone need not contain each other.  That the     *)
(* counter-examples are traces is shown last, along the runs that their    *)
(* inputs describe.                                                        *)
(***************************************************************************)
EXTENDS Pdr, FoldTheorems

\* The level that is being pushed, and the empty one that was seen.
PushInv ==
  pc = "push" =>
    /\ k \in 1..iFrame
    /\ todo \subseteq vClauses[k]
    /\ fInv => \E j \in 1..(k - 1) : vClauses[j] = {}

\* The outputs that were checked in the top frame cannot be asserted there.
TopInv ==
  /\ P[iFrame] = {}
  /\ pc \in {"output", "block"} => \A o \in Unsolved : o < iOutCur => Clear(iFrame, o)
  /\ pc = "frame" => \A o \in Unsolved : Clear(iFrame, o)

\* What has to be blocked in a frame is not in the frame below.
QueueInv ==
  \A ob \in pQueue : ob.iFrame >= 1 => States(ob.pState) \intersect Frame(ob.iFrame - 1) = {}

IInv == TypeOK /\ FramesHold /\ PushInv /\ TopInv /\ QueueInv /\ ProvedIsTrue

-----------------------------------------------------------------------------
(* The initial state. *)

LEMMA ZeroState == Zero \in State
  BY DEF Zero, State

LEMMA InitInv == Init => IInv
<1> SUFFICES ASSUME Init PROVE IInv
  OBVIOUS
<1>1. TypeOK
  <2>1. design \in Design /\ par \in Params
    BY PdrConstants DEF Init
  <2>2. 0..iFrame = {0} /\ DOMAIN F = {0} /\ iFrame = 0
    BY DEF Init
  <2>3. F \in [0..iFrame -> SUBSET State]
    BY <2>2, ZeroState DEF Init
  <2>4. vClauses \in [0..iFrame -> SUBSET Cube] /\ P \in [0..iFrame -> SUBSET Outs]
    BY <2>2 DEF Init
  <2>5. iOutCur \in Outs /\ vOutMap \in [Outs -> {UNKNOWN, UNDEC, FAILS, PROVED}]
    BY PdrConstants DEF Init, Outs
  <2>6. k \in 0..iFrame /\ iUseFrame \in 1..Max2(iFrame, 1)
    BY DEF Init, Max2
  <2> QED
    BY <2>1, <2>3, <2>4, <2>5, <2>6 DEF Init, TypeOK
<1>2. FramesHold
  BY DEF Init, FramesHold, Frame
<1>3. PushInv /\ TopInv /\ QueueInv
  BY PdrConstants DEF Init, PushInv, TopInv, QueueInv, Unsolved, Outs
<1>4. ProvedIsTrue
  BY DEF Init, ProvedIsTrue, UNKNOWN, PROVED
<1> QED
  BY <1>1, <1>2, <1>3, <1>4 DEF IInv

-----------------------------------------------------------------------------
(* Cubes, frames and what the solvers say about them. *)

LEMMA InitCube ==
  ASSUME NEW c \in Cube, SetIsInit(c)
  PROVE  Zero \in States(c)
  BY ZeroState DEF Cube, Literal, SetIsInit, States, Zero

LEMMA NotInitCube ==
  ASSUME NEW c, ~SetIsInit(c), c \in Cube
  PROVE  Zero \notin States(c)
<1>1. PICK l \in c : l[2]
  BY DEF SetIsInit
<1>2. l[1] \in Flops /\ l[2] \in BOOLEAN
  BY DEF Cube, Literal
<1>3. Zero[l[1]] # l[2]
  BY <1>1, <1>2 DEF Zero
<1> QED
  BY <1>3 DEF States

LEMMA SubCube ==
  ASSUME NEW c, NEW d \in SUBSET c
  PROVE  States(c) \subseteq States(d)
  BY DEF States

LEMMA FrameStates ==
  ASSUME NEW j
  PROVE  Frame(j) \subseteq State
  BY ZeroState DEF Frame, Above

\* A clause of a level holds in its frame and in those below.
LEMMA FrameAvoids ==
  ASSUME TypeOK, NEW j \in 1..iFrame, NEW i \in j..iFrame, NEW c \in vClauses[i]
  PROVE  Frame(j) \intersect States(c) = {}
  BY DEF Frame, Above, TypeOK

LEMMA FrameMonotone ==
  ASSUME TypeOK, FramesHold, NEW i \in 0..iFrame, NEW j \in 0..iFrame, i <= j
  PROVE  Frame(i) \subseteq Frame(j)
<1>1. CASE i = 0
  BY <1>1 DEF FramesHold, Frame
<1>2. CASE i # 0
  BY <1>2 DEF TypeOK, Frame, Above
<1> QED
  BY <1>1, <1>2

\* An empty level makes two frames the same.
LEMMA EmptyLevel ==
  ASSUME TypeOK, NEW j \in 1..(iFrame - 1), vClauses[j] = {}
  PROVE  Frame(j + 1) = Frame(j)
<1>1. \A s \in State : s \in Frame(j) <=>
        \A i \in j..iFrame : \A c \in vClauses[i] : s \notin States(c)
  BY DEF TypeOK, Frame, Above
<1>2. \A s \in State : s \in Frame(j + 1) <=>
        \A i \in (j + 1)..iFrame : \A c \in vClauses[i] : s \notin States(c)
  BY DEF TypeOK, Frame, Above
<1>3. \A i \in j..iFrame : i = j \/ i \in (j + 1)..iFrame
  BY DEF TypeOK
<1>4. (j + 1)..iFrame \subseteq j..iFrame
  OBVIOUS
<1>5. \A s \in State : s \in Frame(j) <=> s \in Frame(j + 1)
  BY <1>1, <1>2, <1>3, <1>4
<1>6. Frame(j) \subseteq State /\ Frame(j + 1) \subseteq State
  BY FrameStates
<1> QED
  BY <1>5, <1>6

LEMMA FrameAllowed ==
  ASSUME TypeOK, FramesHold, NEW j \in 0..(iFrame - 1), NEW s \in Frame(j),
         NEW i \in Inputs
  PROVE  <<s, i>> \in Allowed(j)
<1>1. j \in 0..iFrame
  BY DEF TypeOK
<1>2. s \in F[j]
  BY <1>1 DEF FramesHold
<1>3. \A o \in P[j] : <<s, i>> \notin design.bad[o]
  BY DEF FramesHold, Clear
<1> QED
  BY <1>2, <1>3 DEF Allowed

\* "The cube holds": no state of the frame steps into it from outside.
LEMMA Unreached ==
  ASSUME TypeOK, FramesHold, NEW j \in 0..(iFrame - 1), NEW c, NEW w,
         Reaching(j, c, w) = {},
         NEW s \in Frame(j), s \notin States(w), NEW i \in Inputs
  PROVE  design.next[<<s, i>>] \notin States(c)
  BY FrameAllowed DEF Reaching

\* What ternary simulation returns hits the target from all its states.
LEMMA TernaryHits ==
  ASSUME NEW s \in State, NEW target, NEW c \in TernarySim(s, target)
  PROVE  c \in Cube /\ States(c) \subseteq target
<1> DEFINE lits == {<<r, s[r]>> : r \in Flops}
           r0   == CHOOSE r \in Flops : TRUE
<1>0. r0 \in Flops
  BY PdrConstants
<1>1. lits \in Cube
  BY DEF Cube, Literal, State
<1>4. {<<r0, TRUE>>} \in Cube
  <2> HIDE DEF r0
  <2>1. <<r0, TRUE>> \in Literal
    BY <1>0 DEF Literal
  <2>2. \A l \in Literal : {l} \in Cube
    BY DEF Cube
  <2> QED
    BY <2>1, <2>2
<1>2. PICK d \in SUBSET lits : /\ States(d) \subseteq target
                               /\ c = IF d = {} THEN {<<r0, TRUE>>} ELSE d
  BY DEF TernarySim
<1>3. States(c) \subseteq States(d)
  BY <1>2 DEF States
<1> QED
  <2> HIDE DEF r0, lits
  <2> QED
    BY <1>1, <1>2, <1>3, <1>4 DEF Cube

-----------------------------------------------------------------------------
(* What the steps do to the frames. *)

\* The frames are the same, and no output becomes open again.
LEMMA FramesKept ==
  ASSUME TypeOK, FramesHold, UNCHANGED <<design, iFrame>>,
         \A j \in 0..iFrame : Frame(j)' = Frame(j),
         Unsolved' \subseteq Unsolved,
         \A j \in 0..iFrame : Frame(j) \subseteq F'[j],
         \A j \in 0..(iFrame - 1) : P'[j] \subseteq Unsolved \union P[j]
  PROVE  FramesHold'
<1>1. \A j \in 0..iFrame' : Zero \in Frame(j)' /\ Frame(j)' \subseteq F'[j]
  BY DEF FramesHold
<1>2. ASSUME NEW j \in 0..(iFrame' - 1)
      PROVE  /\ \A s \in Frame(j)', i \in Inputs : design'.next[<<s, i>>] \in Frame(j + 1)'
             /\ \A o \in Unsolved' \union P'[j] : Clear(j, o)'
  <2>1. j \in 0..iFrame /\ j + 1 \in 0..iFrame /\ j \in 0..(iFrame - 1)
    BY DEF TypeOK
  <2>2. ASSUME NEW s \in Frame(j)', NEW i \in Inputs
        PROVE  design'.next[<<s, i>>] \in Frame(j + 1)'
    <3>1. Frame(j)' = Frame(j) /\ Frame(j + 1)' = Frame(j + 1)
      BY <2>1
    <3>2. design.next[<<s, i>>] \in Frame(j + 1)
      BY <2>1, <3>1 DEF FramesHold
    <3> QED
      BY <3>1, <3>2
  <2>3. \A o \in Unsolved' \union P'[j] : Clear(j, o)
    BY <2>1 DEF FramesHold
  <2> QED
    BY <2>1, <2>2, <2>3 DEF Clear
<1> QED
  BY <1>1, <1>2 DEF FramesHold

\* Clauses that others of their level contain are removed.
LEMMA SameFrames ==
  ASSUME TypeOK, UNCHANGED iFrame, vClauses' \in [0..iFrame -> SUBSET Cube],
         \A i \in 0..iFrame : vClauses'[i] \subseteq vClauses[i],
         \A i \in 0..iFrame : \A e \in vClauses[i] : \E d \in vClauses'[i] : d \subseteq e
  PROVE  \A j \in 0..iFrame : Frame(j)' = Frame(j)
<1> SUFFICES ASSUME NEW j \in 0..iFrame PROVE Frame(j)' = Frame(j)
  OBVIOUS
<1>1. ASSUME NEW s \in State, NEW i \in 0..iFrame
      PROVE  (\A e \in vClauses[i] : s \notin States(e)) <=> (\A e \in vClauses'[i] : s \notin States(e))
  BY SubCube
<1> QED
  BY <1>1 DEF Frame, Above, TypeOK

\* A clause is added to a level, and what it contains may be removed up to there.
LEMMA AddedClause ==
  ASSUME TypeOK, UNCHANGED iFrame, vClauses' \in [0..iFrame -> SUBSET Cube],
         NEW m \in 1..iFrame, NEW c \in vClauses'[m], Zero \notin States(c),
         \A i \in 0..iFrame : \A e \in vClauses'[i] : e \in vClauses[i] \/ (i = m /\ e = c),
         \A i \in 0..iFrame : \A e \in vClauses[i] : e \in vClauses'[i] \/ (i <= m /\ c \subseteq e)
  PROVE  \A j \in 0..iFrame :
           Frame(j)' = IF j <= m THEN Frame(j) \ States(c) ELSE Frame(j)
<1> SUFFICES ASSUME NEW j \in 0..iFrame
             PROVE  Frame(j)' = IF j <= m THEN Frame(j) \ States(c) ELSE Frame(j)
  OBVIOUS
<1>0. iFrame \in Nat /\ DOMAIN vClauses = 0..iFrame /\ DOMAIN vClauses' = 0..iFrame
  BY DEF TypeOK
<1>1. CASE j = 0
  BY <1>1 DEF Frame
<1>2. CASE j # 0 /\ j <= m
  <2>1. ASSUME NEW s \in State
        PROVE  s \in Above(vClauses', j) <=> s \in Above(vClauses, j) /\ s \notin States(c)
    <3>1. ASSUME s \in Above(vClauses', j)
          PROVE  s \in Above(vClauses, j) /\ s \notin States(c)
      <4>1. s \notin States(c)
        BY <1>0, <1>2, <3>1 DEF Above
      <4>2. ASSUME NEW i \in 0..iFrame, i >= j, NEW e \in vClauses[i] PROVE s \notin States(e)
        BY <1>0, <3>1, <4>1, <4>2, SubCube DEF Above
      <4> QED
        BY <1>0, <4>1, <4>2 DEF Above
    <3>2. ASSUME s \in Above(vClauses, j), s \notin States(c)
          PROVE  s \in Above(vClauses', j)
      BY <1>0, <3>2 DEF Above
    <3> QED
      BY <3>1, <3>2
  <2>2. Above(vClauses', j) \subseteq State /\ Above(vClauses, j) \subseteq State
    BY DEF Above
  <2> QED
    BY <1>2, <2>1, <2>2 DEF Frame
<1>3. CASE j # 0 /\ ~(j <= m)
  <2>1. ASSUME NEW i \in 0..iFrame, i >= j PROVE vClauses'[i] = vClauses[i]
    <3>1. i # m /\ ~(i <= m)
      BY <1>3, <2>1
    <3>2. vClauses'[i] \subseteq vClauses[i] /\ vClauses[i] \subseteq vClauses'[i]
      BY <3>1
    <3> QED
      BY <3>2
  <2> QED
    BY <1>0, <1>3, <2>1 DEF Frame, Above
<1> QED
  BY <1>1, <1>2, <1>3

\* A clause that no frame below m steps into is added to the frames up to m.
LEMMA NewClause ==
  ASSUME TypeOK, FramesHold, UNCHANGED <<design, iFrame, P, vOutMap>>,
         NEW m \in 1..iFrame, NEW c, Zero \notin States(c),
         \A j \in 0..iFrame :
            Frame(j)' = IF j <= m THEN Frame(j) \ States(c) ELSE Frame(j),
         \A j \in 0..iFrame : Frame(j)' \subseteq F'[j],
         \A j \in 0..(m - 1) : \A s \in Frame(j) \ States(c), i \in Inputs :
            design.next[<<s, i>>] \notin States(c)
  PROVE  FramesHold'
<1>1. \A j \in 0..iFrame : Frame(j)' \subseteq Frame(j)
  OBVIOUS
<1>2. \A j \in 0..iFrame' : Zero \in Frame(j)' /\ Frame(j)' \subseteq F'[j]
  BY DEF FramesHold
<1>3. ASSUME NEW j \in 0..(iFrame - 1), NEW s \in Frame(j)', NEW i \in Inputs
      PROVE  design'.next[<<s, i>>] \in Frame(j + 1)'
  <2>j. j \in 0..iFrame /\ j + 1 \in 0..iFrame /\ iFrame \in Nat /\ design' = design
    BY DEF TypeOK
  <2>1. s \in Frame(j) /\ design.next[<<s, i>>] \in Frame(j + 1)
    BY <1>1, <2>j DEF FramesHold
  <2>2. CASE j + 1 <= m
    <3>1. j \in 0..(m - 1) /\ j <= m
      BY <2>2, <2>j
    <3>2. s \in Frame(j) \ States(c)
      BY <3>1, <2>j
    <3>3. design.next[<<s, i>>] \notin States(c)
      BY <3>1, <3>2
    <3> QED
      BY <2>1, <2>2, <2>j, <3>3
  <2>3. CASE ~(j + 1 <= m)
    BY <2>1, <2>3, <2>j
  <2> QED
    BY <2>2, <2>3
<1>4. ASSUME NEW j \in 0..(iFrame - 1), NEW o \in Unsolved' \union P'[j]
      PROVE  Clear(j, o)'
  <2>1. j \in 0..iFrame /\ o \in Unsolved \union P[j]
    BY DEF TypeOK, Unsolved
  <2>2. Clear(j, o)
    BY <2>1 DEF FramesHold
  <2> QED
    BY <1>1, <2>1, <2>2 DEF Clear
<1> QED
  BY <1>2, <1>3, <1>4 DEF FramesHold

-----------------------------------------------------------------------------
(* Every step has the right types. *)

LEMMA TypeStep == TypeOK /\ [Next]_vars => TypeOK'
<1> SUFFICES ASSUME TypeOK, [Next]_vars PROVE TypeOK'
  OBVIOUS
<1> USE PdrConstants
<1>o. ASSUME NextOutput PROVE iOutCur' \in Outs /\ pc' \in {"output", "frame"}
  BY <1>o DEF NextOutput, TypeOK, Outs
<1>1. CASE SkipOutput
  BY <1>1, <1>o DEF SkipOutput, TypeOK, fixed, solvers, queue, push, results
<1>2. CASE OutputHolds
  BY <1>2, <1>o DEF OutputHolds, TypeOK, fixed, solvers, queue, push, results
<1>3. CASE OutputFails
  <2>1. pQueue' \subseteq [iFrame : 0..(iFrame + 1), pState : Cube, ins : Seq(Inputs)]
    <3>1. PICK x \in Failing(iFrame, iOutCur) :
            \E c \in TernarySim(x[1], Asserting(iOutCur, x[2])) :
              pQueue' = pQueue \union {[iFrame |-> iFrame, pState |-> c, ins |-> <<x[2]>>]}
      BY <1>3 DEF OutputFails
    <3>2. x \in State \X Inputs
      BY DEF Failing, Allowed, TypeOK
    <3>3. \A c \in TernarySim(x[1], Asserting(iOutCur, x[2])) : c \in Cube
      BY <3>2, TernaryHits
    <3>4. <<x[2]>> \in Seq(Inputs) /\ iFrame \in 0..(iFrame + 1)
      BY <3>2 DEF TypeOK
    <3>5. PICK c \in Cube :
            pQueue' = pQueue \union {[iFrame |-> iFrame, pState |-> c, ins |-> <<x[2]>>]}
      BY <3>1, <3>3
    <3>6. [iFrame |-> iFrame, pState |-> c, ins |-> <<x[2]>>]
            \in [iFrame : 0..(iFrame + 1), pState : Cube, ins : Seq(Inputs)]
      BY <3>4, <3>5
    <3> QED
      BY <3>5, <3>6 DEF TypeOK
  <2> QED
    BY <1>3, <2>1 DEF OutputFails, TypeOK, fixed, solvers, push, results
<1>4. CASE CexFound
  <2>1. vOutMap' \in [Outs -> {UNKNOWN, UNDEC, FAILS, PROVED}]
    BY <1>4 DEF CexFound, TypeOK, FAILS
  <2>2. iOutCur' \in Outs /\ pc' \in {"output", "frame", "done"} /\ pQueue' \subseteq pQueue
        /\ RetValue' \in {UNDEC, FAILS, PROVED}
    BY <1>4, <1>o DEF CexFound, TypeOK
  <2> QED
    BY <1>4, <2>1, <2>2 DEF CexFound, TypeOK, fixed, solvers, push
<1>5. CASE LevelBlocked
  BY <1>5 DEF LevelBlocked, TypeOK, fixed, solvers, queue, push, results
<1>6. CASE Restart
  <2>1. nQueLim' \in Nat
    BY <1>6 DEF Restart, TypeOK
  <2> QED
    BY <1>6, <2>1 DEF Restart, TypeOK, fixed, solvers, push, results
<1>p. ASSUME NEW ob \in Heads, Popped(ob)
      PROVE  /\ iUseFrame' \in 1..Max2(iFrame, 1) /\ pc = "block"
             /\ ob \in pQueue /\ ob \in [iFrame : 1..iFrame, pState : Cube, ins : Seq(Inputs)]
  BY <1>p DEF Popped, Heads, TypeOK, Min2, Max2
<1>7. CASE DropObligation
  BY <1>7, <1>p DEF DropObligation, TypeOK, fixed, solvers, push, results
<1>8. CASE BlockObligation
  <2>1. PICK ob \in Heads :
          /\ Popped(ob)
          /\ \E c \in Generalize(ob.iFrame - 1, ob.pState), last \in ob.iFrame..iFrame :
               /\ vClauses' = [vClauses EXCEPT ![last] = @ \union {c}]
               /\ F' = [j \in DOMAIN F |-> IF j \in 1..last THEN F[j] \ States(c) ELSE F[j]]
               /\ pQueue' = (pQueue \ {ob}) \union
                    (IF (last < iFrame \/ par.fReuseProofOblig) /\ ~par.fShortest
                       THEN {[ob EXCEPT !.iFrame = last + 1]} ELSE {})
    BY <1>8 DEF BlockObligation
  <2>2. PICK c \in Generalize(ob.iFrame - 1, ob.pState), last \in ob.iFrame..iFrame :
          /\ vClauses' = [vClauses EXCEPT ![last] = @ \union {c}]
          /\ F' = [j \in DOMAIN F |-> IF j \in 1..last THEN F[j] \ States(c) ELSE F[j]]
          /\ pQueue' = (pQueue \ {ob}) \union
               (IF (last < iFrame \/ par.fReuseProofOblig) /\ ~par.fShortest
                  THEN {[ob EXCEPT !.iFrame = last + 1]} ELSE {})
    BY <2>1
  <2>3. ob \in [iFrame : 1..iFrame, pState : Cube, ins : Seq(Inputs)] /\ c \in Cube
    BY <1>p, <2>1 DEF Generalize, Cube
  <2>4. [ob EXCEPT !.iFrame = last + 1] \in [iFrame : 0..(iFrame + 1), pState : Cube, ins : Seq(Inputs)]
    <3>1. last + 1 \in 0..(iFrame + 1)
      BY <2>3 DEF TypeOK
    <3> QED
      BY <2>3, <3>1
  <2>5. vClauses' \in [0..iFrame -> SUBSET Cube] /\ F' \in [0..iFrame -> SUBSET State]
    BY <2>2, <2>3 DEF TypeOK
  <2>6. pQueue' \subseteq [iFrame : 0..(iFrame + 1), pState : Cube, ins : Seq(Inputs)]
    BY <2>2, <2>4 DEF TypeOK
  <2> QED
    BY <1>8, <1>p, <2>1, <2>5, <2>6 DEF BlockObligation, TypeOK, fixed, push, results
<1>9. CASE FindPredecessor
  <2>1. PICK ob \in Heads : 
          /\ Popped(ob)
          /\ \E x \in Reaching(ob.iFrame - 1, ob.pState, ob.pState) :
               \E c \in TernarySim(x[1], Stepping(ob.pState, x[2])) :
                 pQueue' = pQueue \union {[iFrame |-> ob.iFrame - 1, pState |-> c,
                                           ins |-> <<x[2]>> \o ob.ins]}
    BY <1>9 DEF FindPredecessor
  <2>2. PICK x \in Reaching(ob.iFrame - 1, ob.pState, ob.pState) :
          \E c \in TernarySim(x[1], Stepping(ob.pState, x[2])) :
            pQueue' = pQueue \union {[iFrame |-> ob.iFrame - 1, pState |-> c,
                                      ins |-> <<x[2]>> \o ob.ins]}
    BY <2>1
  <2>3. ob \in [iFrame : 1..iFrame, pState : Cube, ins : Seq(Inputs)]
    BY <1>p, <2>1
  <2>4. x \in State \X Inputs
    BY <2>3 DEF Reaching, Allowed, TypeOK
  <2>5. \A c \in TernarySim(x[1], Stepping(ob.pState, x[2])) : c \in Cube
    BY <2>4, TernaryHits
  <2>6. pQueue' \subseteq [iFrame : 0..(iFrame + 1), pState : Cube, ins : Seq(Inputs)]
    <3>1. ob.iFrame - 1 \in 0..(iFrame + 1)
      BY <2>3 DEF TypeOK
    <3>2. <<x[2]>> \in Seq(Inputs) /\ ob.ins \in Seq(Inputs)
      BY <2>3, <2>4
    <3>3. <<x[2]>> \o ob.ins \in Seq(Inputs)
      BY <3>2
    <3>4. PICK c \in Cube : pQueue' = pQueue \union
            {[iFrame |-> ob.iFrame - 1, pState |-> c, ins |-> <<x[2]>> \o ob.ins]}
      BY <2>2, <2>5
    <3>5. [iFrame |-> ob.iFrame - 1, pState |-> c, ins |-> <<x[2]>> \o ob.ins]
            \in [iFrame : 0..(iFrame + 1), pState : Cube, ins : Seq(Inputs)]
      BY <3>1, <3>3, <3>4
    <3> QED
      BY <3>4, <3>5 DEF TypeOK
  <2> QED
    BY <1>9, <1>p, <2>1, <2>6 DEF FindPredecessor, TypeOK, fixed, solvers, push, results
<1>10. CASE OpenFrame
  <2>1. iFrame' \in Nat /\ iFrame' = iFrame + 1 /\ nQueLim' \in Nat
    BY <1>10 DEF OpenFrame, TypeOK, Params
  <2>2. vClauses' \in [0..iFrame' -> SUBSET Cube]
    BY <1>10, <2>1 DEF OpenFrame, TypeOK
  <2>3. F' \in [0..iFrame' -> SUBSET State]
    BY <1>10, <2>1 DEF OpenFrame, TypeOK
  <2>4. P' \in [0..iFrame' -> SUBSET Outs]
    BY <1>10, <2>1 DEF OpenFrame, TypeOK, Unsolved
  <2>5. iUseFrame' \in 1..Max2(iFrame', 1) /\ k' \in 0..iFrame'
    BY <1>10, <2>1 DEF OpenFrame, TypeOK, Max2
  <2>6. todo' \subseteq Cube
    BY <1>10, <2>2, <2>5 DEF OpenFrame
  <2>7. pQueue' \subseteq [iFrame : 0..(iFrame' + 1), pState : Cube, ins : Seq(Inputs)]
    BY <1>10, <2>1 DEF OpenFrame, TypeOK
  <2> QED
    BY <1>10, <2>1, <2>2, <2>3, <2>4, <2>5, <2>6, <2>7 DEF OpenFrame, TypeOK, fixed, results
<1>11. CASE PushCube
  <2>1. /\ todo' \subseteq todo
        /\ vClauses' \in [0..iFrame -> SUBSET Cube]
        /\ F' \in [0..iFrame -> SUBSET State]
    <3>1. k \in 0..(iFrame - 1) /\ k + 1 \in 0..iFrame
      BY <1>11 DEF PushCube, TypeOK
    <3>2. PICK c \in todo :
            LET rest  == {d \in todo : ~SetContains(d, c)}
                level == (vClauses[k] \ todo) \union rest \union {c}
            IN  /\ todo' = rest
                /\ IF CheckCube(k, c)
                     THEN \E d \in ReduceClause(k, c) :
                            /\ vClauses' = [vClauses EXCEPT
                                 ![k]     = level \ {c},
                                 ![k + 1] = {e \in @ : ~SetContains(e, d)} \union {d}]
                            /\ F' = [F EXCEPT ![k + 1] = @ \ States(d)]
                     ELSE vClauses' = [vClauses EXCEPT ![k] = level] /\ UNCHANGED F
      BY <1>11 DEF PushCube
    <3> DEFINE rest  == {d \in todo : ~SetContains(d, c)}
               level == (vClauses[k] \ todo) \union rest \union {c}
    <3>3. /\ vClauses \in [0..iFrame -> SUBSET Cube] /\ F \in [0..iFrame -> SUBSET State]
          /\ todo \subseteq Cube
      BY DEF TypeOK
    <3>e. c \in todo
      BY Zenon, <3>2
    <3>a. c \in Cube /\ vClauses[k] \in SUBSET Cube
      <4>1. c \in Cube
        BY Zenon, <3>3, <3>e
      <4>2. k \in 0..iFrame
        BY <3>1 DEF TypeOK
      <4>3. vClauses[k] \in SUBSET Cube
        BY Zenon, <3>3, <4>2
      <4> QED
        BY <4>1, <4>3
    <3>b. rest \subseteq todo
      OBVIOUS
    <3>c. level \subseteq Cube
      <4> HIDE DEF rest
      <4> QED
        BY <3>3, <3>a, <3>b
    <3>d. ReduceClause(k, c) \subseteq Cube
      <4>1. ReduceClause(k, c) \subseteq SUBSET c
        BY Zenon DEF ReduceClause
      <4> QED
        BY <3>a, <4>1 DEF Cube
    <3>4. ReduceClause(k, c) \subseteq Cube /\ level \subseteq Cube /\ rest \subseteq todo
      BY <3>b, <3>c, <3>d
    <3>5. CASE CheckCube(k, c)
      <4>1. PICK d \in ReduceClause(k, c) :
              /\ vClauses' = [vClauses EXCEPT
                   ![k]     = level \ {c},
                   ![k + 1] = {e \in @ : ~SetContains(e, d)} \union {d}]
              /\ F' = [F EXCEPT ![k + 1] = @ \ States(d)]
        BY <3>2, <3>5
      <4>2. d \in Cube
        BY <3>4
      <4> HIDE DEF level
      <4> QED
        BY <3>1, <3>2, <3>3, <3>4, <4>1, <4>2
    <3>6. CASE ~CheckCube(k, c)
      <4>1. vClauses' = [vClauses EXCEPT ![k] = level] /\ F' = F
        BY <3>2, <3>6
      <4> HIDE DEF level
      <4> QED
        BY <3>1, <3>2, <3>3, <3>4, <4>1
    <3> QED
      BY <3>5, <3>6
  <2> QED
    BY <1>11, <2>1 DEF PushCube, TypeOK, fixed, queue, results
<1>12. CASE NextLevel
  <2>1. k' \in 0..iFrame /\ todo' \subseteq Cube /\ fInv' \in BOOLEAN
    BY <1>12 DEF NextLevel, TypeOK
  <2> QED
    BY <1>12, <2>1 DEF NextLevel, TypeOK, fixed, solvers, queue, results
<1>13. CASE LastLevel
  <2>1. vClauses' \in [0..iFrame -> SUBSET Cube]
    BY <1>13 DEF LastLevel, TypeOK
  <2>2. /\ vOutMap' \in [Outs -> {UNKNOWN, UNDEC, FAILS, PROVED}]
        /\ RetValue' \in {UNDEC, FAILS, PROVED}
        /\ pc' \in {"done", "output"}
        /\ iOutCur' \in Outs
        /\ iUseFrame' \in 1..Max2(iFrame, 1)
    BY <1>13 DEF LastLevel, TypeOK, Outs, Max2
  <2> QED
    BY <1>13, <2>1, <2>2 DEF LastLevel, TypeOK, fixed, solvers, push
<1>14. CASE OutputTimesOut
  <2>1. vOutMap' \in [Outs -> {UNKNOWN, UNDEC, FAILS, PROVED}] /\ pQueue' \subseteq pQueue
    BY <1>14 DEF OutputTimesOut, TypeOK
  <2> QED
    BY <1>14, <1>o, <2>1 DEF OutputTimesOut, TypeOK, fixed, solvers, push
<1>15. CASE Stop
  BY <1>15 DEF Stop, TypeOK, fixed, solvers, queue, push
<1>16. ASSUME NEW j \in DOMAIN F, FetchSolver(j) PROVE TypeOK'
  <2>1. F' \in [0..iFrame -> SUBSET State] /\ P' \in [0..iFrame -> SUBSET Outs]
    BY <1>16 DEF FetchSolver, TypeOK, Above, Unsolved
  <2> QED
    BY <1>16, <2>1 DEF FetchSolver, TypeOK, fixed, queue, push, results
<1>17. CASE UNCHANGED vars
  BY <1>17 DEF vars, TypeOK
<1> QED
  BY <1>1, <1>2, <1>3, <1>4, <1>5, <1>6, <1>7, <1>8, <1>9, <1>10, <1>11, <1>12,
     <1>13, <1>14, <1>15, <1>16, <1>17 DEF Next, Step

-----------------------------------------------------------------------------
(* The steps that change the frames. *)

\* The clause of a blocked cube: the cube is not in the frame below, and no
\* frame up to "last" steps into it.
LEMMA BlockStep ==
  ASSUME IInv, BlockObligation
  PROVE  /\ FramesHold' /\ QueueInv'
         /\ \A j \in 0..iFrame : Frame(j)' \subseteq Frame(j)
<1>1. PICK ob \in Heads :
        /\ Popped(ob)
        /\ ~Covered(ob)
        /\ CheckCube(ob.iFrame - 1, ob.pState)
        /\ \E c \in Generalize(ob.iFrame - 1, ob.pState), last \in ob.iFrame..iFrame :
             /\ \A j \in ob.iFrame..(last - 1) : CheckCube(j, c)
             /\ last < iFrame => ~CheckCube(last, c)
             /\ vClauses' = [vClauses EXCEPT ![last] = @ \union {c}]
             /\ F' = [j \in DOMAIN F |-> IF j \in 1..last THEN F[j] \ States(c) ELSE F[j]]
             /\ pQueue' = (pQueue \ {ob}) \union
                  (IF (last < iFrame \/ par.fReuseProofOblig) /\ ~par.fShortest
                     THEN {[ob EXCEPT !.iFrame = last + 1]} ELSE {})
  BY Zenon DEF BlockObligation
<1>2. PICK c \in Generalize(ob.iFrame - 1, ob.pState), last \in ob.iFrame..iFrame :
             /\ \A j \in ob.iFrame..(last - 1) : CheckCube(j, c)
             /\ last < iFrame => ~CheckCube(last, c)
             /\ vClauses' = [vClauses EXCEPT ![last] = @ \union {c}]
             /\ F' = [j \in DOMAIN F |-> IF j \in 1..last THEN F[j] \ States(c) ELSE F[j]]
             /\ pQueue' = (pQueue \ {ob}) \union
                  (IF (last < iFrame \/ par.fReuseProofOblig) /\ ~par.fShortest
                     THEN {[ob EXCEPT !.iFrame = last + 1]} ELSE {})
  BY <1>1, Zenon
<1> USE DEF IInv
<1>0. TypeOK'
  BY TypeStep DEF Next, Step
<1>q. pQueue' \subseteq (pQueue \ {ob}) \union {[ob EXCEPT !.iFrame = last + 1]}
  BY <1>2
<1>3. /\ ob \in pQueue /\ ob \in [iFrame : 1..iFrame, pState : Cube, ins : Seq(Inputs)]
      /\ iFrame \in Nat
  BY <1>1 DEF Popped, Heads, TypeOK
<1>4. /\ last \in 1..iFrame /\ ob.iFrame \in 1..iFrame
      /\ c \in Cube /\ c \subseteq ob.pState /\ Zero \notin States(c)
      /\ Reaching(ob.iFrame - 1, c, c) = {}
  <2>1. /\ c \subseteq ob.pState /\ ~SetIsInit(c) /\ Reaching(ob.iFrame - 1, c, c) = {}
    BY <1>2 DEF Generalize, CheckCube
  <2>2. c \in Cube /\ ob.iFrame \in 1..iFrame
    BY <1>3, <2>1 DEF Cube
  <2> QED
    BY <1>3, <2>1, <2>2, NotInitCube
<1>5. UNCHANGED <<design, iFrame, P, vOutMap>>
  BY DEF BlockObligation, fixed, results
<1>6. \A j \in 0..iFrame :
        Frame(j)' = IF j <= last THEN Frame(j) \ States(c) ELSE Frame(j)
  <2>1. vClauses \in [0..iFrame -> SUBSET Cube] /\ vClauses' \in [0..iFrame -> SUBSET Cube]
    BY <1>0, <1>5 DEF TypeOK
  <2>2. c \in vClauses'[last]
    BY <1>2, <1>4, <2>1
  <2>3. \A i \in 0..iFrame : \A e \in vClauses'[i] : e \in vClauses[i] \/ (i = last /\ e = c)
    BY <1>2, <2>1
  <2>4. \A i \in 0..iFrame : \A e \in vClauses[i] : e \in vClauses'[i]
    BY <1>2, <2>1
  <2> QED
    BY <1>4, <1>5, <2>1, <2>2, <2>3, <2>4, AddedClause
<1>7. \A j \in 0..iFrame : Frame(j)' \subseteq F'[j]
  <2> SUFFICES ASSUME NEW j \in 0..iFrame PROVE Frame(j)' \subseteq F'[j]
    OBVIOUS
  <2>1. Frame(j) \subseteq F[j] /\ j \in DOMAIN F
    BY DEF FramesHold, TypeOK
  <2>2. CASE j \in 1..last
    BY <1>2, <1>6, <2>1, <2>2
  <2>3. CASE j \notin 1..last
    BY <1>2, <1>6, <2>1, <2>3
  <2> QED
    BY <2>2, <2>3
<1>8. ASSUME NEW j \in 0..(last - 1), NEW s \in Frame(j) \ States(c), NEW i \in Inputs
      PROVE  design.next[<<s, i>>] \notin States(c)
  <2>0. j \in 0..iFrame /\ j \in 0..(iFrame - 1)
    BY <1>3, <1>4
  <2>1. CASE j < ob.iFrame
    <3>1. ob.iFrame - 1 \in 0..(iFrame - 1) /\ ob.iFrame - 1 \in 0..iFrame /\ j <= ob.iFrame - 1
      BY <1>3, <1>4, <2>1
    <3>2. s \in Frame(ob.iFrame - 1)
      BY <2>0, <3>1, FrameMonotone
    <3> QED
      BY <1>4, <3>1, <3>2, Unreached
  <2>2. CASE ~(j < ob.iFrame)
    <3>1. Reaching(j, c, c) = {}
      BY <1>2, <1>4, <2>2 DEF CheckCube
    <3> QED
      BY <2>0, <3>1, Unreached
  <2> QED
    BY <2>1, <2>2
<1>9. FramesHold'
  BY <1>4, <1>5, <1>6, <1>7, <1>8, NewClause
<1>10. \A j \in 0..iFrame : Frame(j)' \subseteq Frame(j)
  BY <1>6
<1>11. ASSUME NEW x \in pQueue', x.iFrame >= 1
       PROVE  States(x.pState) \intersect Frame(x.iFrame - 1)' = {}
  <2>1. CASE x \in pQueue
    <3>1. x.iFrame - 1 \in 0..iFrame
      BY <1>11, <2>1 DEF TypeOK
    <3> QED
      BY <1>10, <1>11, <2>1, <3>1 DEF QueueInv
  <2>2. CASE x \notin pQueue
    <3>1. x.iFrame - 1 = last /\ x.pState = ob.pState
      BY <1>q, <1>3, <1>4, <2>2
    <3>2. Frame(last)' \intersect States(c) = {}
      BY <1>4, <1>6
    <3>3. States(ob.pState) \subseteq States(c)
      BY <1>4, SubCube
    <3> QED
      BY <3>1, <3>2, <3>3
  <2> QED
    BY <2>1, <2>2
<1> QED
  BY <1>9, <1>10, <1>11 DEF QueueInv

\* A clause moves up only if its frame does not step out of it.
LEMMA PushStep ==
  ASSUME IInv, PushCube
  PROVE  /\ FramesHold' /\ PushInv'
         /\ \A j \in 0..iFrame : Frame(j)' \subseteq Frame(j)
<1> USE DEF IInv
<1>0. TypeOK' /\ UNCHANGED <<design, iFrame, pc, k, fInv, P, vOutMap>> /\ iFrame \in Nat
  BY TypeStep DEF Next, Step, PushCube, fixed, results, TypeOK
<1>1. /\ k \in 1..(iFrame - 1) /\ k + 1 \in 1..iFrame /\ k \in 1..iFrame
      /\ todo \subseteq vClauses[k] /\ k \in 0..iFrame
  BY <1>0 DEF PushCube, PushInv
<1>2. /\ vClauses \in [0..iFrame -> SUBSET Cube] /\ vClauses' \in [0..iFrame -> SUBSET Cube]
      /\ F \in [0..iFrame -> SUBSET State]
  BY <1>0 DEF TypeOK
<1>3. PICK c \in todo :
        LET rest  == {d \in todo : ~SetContains(d, c)}
            level == (vClauses[k] \ todo) \union rest \union {c}
        IN  /\ todo' = rest
            /\ IF CheckCube(k, c)
                 THEN \E d \in ReduceClause(k, c) :
                        /\ vClauses' = [vClauses EXCEPT
                             ![k]     = level \ {c},
                             ![k + 1] = {e \in @ : ~SetContains(e, d)} \union {d}]
                        /\ F' = [F EXCEPT ![k + 1] = @ \ States(d)]
                 ELSE vClauses' = [vClauses EXCEPT ![k] = level] /\ UNCHANGED F
  BY DEF PushCube
<1> DEFINE rest  == {d \in todo : ~SetContains(d, c)}
           level == (vClauses[k] \ todo) \union rest \union {c}
<1>4. /\ c \in Cube /\ c \in vClauses[k] /\ level \subseteq vClauses[k]
      /\ rest \subseteq level \ {c} /\ todo' = rest
      /\ \A e \in vClauses[k] : e \in level \/ c \subseteq e
      /\ c \in level
  BY <1>1, <1>2, <1>3 DEF SetContains
<1>5. CASE CheckCube(k, c)
  <2>1. PICK d \in ReduceClause(k, c) :
          /\ vClauses' = [vClauses EXCEPT
               ![k]     = level \ {c},
               ![k + 1] = {e \in @ : ~SetContains(e, d)} \union {d}]
          /\ F' = [F EXCEPT ![k + 1] = @ \ States(d)]
    BY <1>3, <1>5
  <2>2. d \in Cube /\ d \subseteq c /\ Zero \notin States(d) /\ Reaching(k, d, c) = {}
    <3>1. d \subseteq c /\ ~SetIsInit(d) /\ Reaching(k, d, c) = {}
      BY DEF ReduceClause
    <3>2. d \in Cube
      BY <1>4, <3>1 DEF Cube
    <3> QED
      BY <3>1, <3>2, NotInitCube
  <2> HIDE DEF rest, level
  <2>3. /\ vClauses'[k] = level \ {c}
        /\ vClauses'[k + 1] = {e \in vClauses[k + 1] : ~SetContains(e, d)} \union {d}
        /\ \A i \in 0..iFrame : i # k /\ i # k + 1 => vClauses'[i] = vClauses[i]
    BY <1>1, <1>2, <2>1
  <2>4. \A j \in 0..iFrame :
          Frame(j)' = IF j <= k + 1 THEN Frame(j) \ States(d) ELSE Frame(j)
    <3>1. d \in vClauses'[k + 1]
      BY <2>3
    <3>2. ASSUME NEW i \in 0..iFrame, NEW e \in vClauses'[i]
          PROVE  e \in vClauses[i] \/ (i = k + 1 /\ e = d)
      BY <1>4, <2>3, <3>2
    <3>3. ASSUME NEW i \in 0..iFrame, NEW e \in vClauses[i]
          PROVE  e \in vClauses'[i] \/ (i <= k + 1 /\ d \subseteq e)
      <4>1. CASE i = k
        <5>1. e \in vClauses'[i] \/ c \subseteq e
          BY <1>4, <2>3, <4>1
        <5> QED
          BY <1>1, <2>2, <4>1, <5>1
      <4>2. CASE i = k + 1
        BY <1>1, <2>3, <4>2 DEF SetContains
      <4>3. CASE i # k /\ i # k + 1
        BY <2>3, <4>3
      <4> QED
        BY <4>1, <4>2, <4>3
    <3> QED
      BY <1>0, <1>1, <1>2, <2>2, <3>1, <3>2, <3>3, AddedClause
  <2>5. \A j \in 0..iFrame : Frame(j)' \subseteq F'[j]
    BY <1>1, <1>2, <2>1, <2>4 DEF FramesHold
  <2>6. ASSUME NEW j \in 0..k, NEW s \in Frame(j) \ States(d), NEW i \in Inputs
        PROVE  design.next[<<s, i>>] \notin States(d)
    <3>1. j \in 0..iFrame /\ j <= k /\ k \in 0..(iFrame - 1)
      BY <1>0, <1>1
    <3>2. s \in Frame(k)
      BY <1>1, <3>1, FrameMonotone
    <3>3. s \notin States(c)
      <4>1. Frame(k) \intersect States(c) = {}
        BY <1>1, <1>4, FrameAvoids
      <4> QED
        BY <3>2, <4>1
    <3> QED
      BY <2>2, <3>1, <3>2, <3>3, Unreached
  <2>7. FramesHold'
    <3>1. (k + 1) - 1 = k
      BY <1>1
    <3> QED
      BY <1>0, <1>1, <2>2, <2>4, <2>5, <2>6, <3>1, NewClause
  <2>8. rest \subseteq vClauses'[k] /\ vClauses'[k] \subseteq vClauses[k]
    BY <1>4, <2>3
  <2>9. ASSUME NEW j \in 1..(k - 1) PROVE vClauses'[j] = vClauses[j]
    <3>1. j \in 0..iFrame /\ j # k /\ j # k + 1
      BY <1>0, <1>1
    <3> QED
      BY <2>3, <3>1
  <2>10. PushInv'
    BY <1>0, <1>1, <1>4, <2>8, <2>9 DEF PushInv, PushCube
  <2> QED
    BY <2>4, <2>7, <2>10
<1>6. CASE ~CheckCube(k, c)
  <2>1. vClauses' = [vClauses EXCEPT ![k] = level] /\ UNCHANGED F
    BY <1>3, <1>6
  <2> HIDE DEF rest, level
  <2>2. \A i \in 0..iFrame : vClauses'[i] \subseteq vClauses[i]
    BY <1>1, <1>2, <1>4, <2>1
  <2>3. ASSUME NEW i \in 0..iFrame, NEW e \in vClauses[i]
        PROVE  \E d \in vClauses'[i] : d \subseteq e
    BY <1>1, <1>2, <1>4, <2>1
  <2>4. \A j \in 0..iFrame : Frame(j)' = Frame(j)
    BY <1>0, <1>2, <2>2, <2>3, SameFrames
  <2>5. FramesHold'
    BY <1>0, <2>1, <2>4, FramesKept DEF FramesHold, Unsolved
  <2>6. PushInv'
    BY <1>0, <1>1, <1>2, <1>4, <2>1 DEF PushInv, PushCube
  <2> QED
    BY <2>4, <2>5, <2>6
<1> QED
  BY <1>5, <1>6

\* A new top frame knows nothing; the outputs that were checked are 0 in the old one.
LEMMA OpenStep ==
  ASSUME IInv, OpenFrame
  PROVE  /\ FramesHold' /\ PushInv' /\ TopInv'
         /\ \A j \in 0..iFrame : Frame(j)' = Frame(j)
<1> USE DEF IInv
<1>0. /\ TypeOK' /\ iFrame \in Nat /\ iFrame' = iFrame + 1 /\ pc' = "push"
      /\ Unsolved' = Unsolved /\ design' = design
  BY TypeStep DEF Next, Step, OpenFrame, results, fixed, Unsolved, TypeOK
<1>1. /\ vClauses \in [0..iFrame -> SUBSET Cube]
      /\ vClauses' = [j \in 0..(iFrame + 1) |-> IF j <= iFrame THEN vClauses[j] ELSE {}]
      /\ F' = [j \in 0..(iFrame + 1) |-> IF j <= iFrame THEN F[j] ELSE State]
  BY DEF OpenFrame, TypeOK
<1>2. ASSUME NEW j \in 0..iFrame PROVE Frame(j)' = Frame(j)
  <2>1. \A i \in 0..iFrame : vClauses'[i] = vClauses[i]
    BY <1>0, <1>1
  <2>2. vClauses'[iFrame + 1] = {} /\ DOMAIN vClauses' = 0..(iFrame + 1) /\ DOMAIN vClauses = 0..iFrame
    BY <1>0, <1>1
  <2>3. \A i \in 0..(iFrame + 1) : i \in 0..iFrame \/ i = iFrame + 1
    BY <1>0
  <2>4. 0..iFrame \subseteq 0..(iFrame + 1)
    BY <1>0
  <2>5. \A s \in State : s \in Above(vClauses', j) <=> s \in Above(vClauses, j)
    BY <2>1, <2>2, <2>3, <2>4 DEF Above
  <2>6. Above(vClauses', j) = Above(vClauses, j)
    BY <2>5 DEF Above
  <2> QED
    BY <2>6 DEF Frame
<1>3. \A j : j = iFrame + 1 => Frame(j)' = State
  BY <1>0, <1>1 DEF Frame, Above
<1>4. \A j \in 0..iFrame' : Zero \in Frame(j)' /\ Frame(j)' \subseteq F'[j]
  <2> SUFFICES ASSUME NEW j \in 0..iFrame' PROVE Zero \in Frame(j)' /\ Frame(j)' \subseteq F'[j]
    OBVIOUS
  <2>1. CASE j \in 0..iFrame
    <3>1. F'[j] = F[j]
      BY <1>0, <1>1, <2>1
    <3> QED
      BY <1>2, <2>1, <3>1 DEF FramesHold
  <2>2. CASE j \notin 0..iFrame
    <3>1. j = iFrame + 1
      BY <1>0, <2>2
    <3>2. F'[j] = State
      BY <1>0, <1>1, <3>1
    <3> QED
      BY <1>3, <3>1, <3>2, ZeroState
  <2> QED
    BY <2>1, <2>2
<1>5. ASSUME NEW j \in 0..(iFrame' - 1)
      PROVE  /\ \A s \in Frame(j)', i \in Inputs : design'.next[<<s, i>>] \in Frame(j + 1)'
             /\ \A o \in Unsolved' \union P'[j] : Clear(j, o)'
  <2>0. j \in 0..iFrame
    BY <1>0
  <2>1. CASE j < iFrame
    <3>1. j \in 0..(iFrame - 1) /\ j + 1 \in 0..iFrame
      BY <1>0, <2>0, <2>1
    <3>2. P'[j] = P[j]
      BY <1>0, <2>0, <2>1 DEF OpenFrame
    <3>3. ASSUME NEW s \in Frame(j)', NEW i \in Inputs
          PROVE  design'.next[<<s, i>>] \in Frame(j + 1)'
      <4>1. Frame(j)' = Frame(j) /\ Frame(j + 1)' = Frame(j + 1)
        BY <1>2, <2>0, <3>1
      <4>2. design.next[<<s, i>>] \in Frame(j + 1)
        BY <3>1, <4>1 DEF FramesHold
      <4> QED
        BY <1>0, <4>1, <4>2
    <3>4. \A o \in Unsolved' \union P'[j] : Clear(j, o)
      BY <1>0, <3>1, <3>2 DEF FramesHold
    <3> QED
      BY <1>0, <1>2, <2>0, <3>3, <3>4 DEF Clear
  <2>2. CASE j = iFrame
    <3>1. P'[j] = Unsolved
      BY <1>0, <2>0, <2>2 DEF OpenFrame
    <3>2. \A o \in Unsolved' \union P'[j] : Clear(j, o)
      BY <1>0, <2>2, <3>1 DEF TopInv, OpenFrame
    <3>3. \A s \in Frame(j), i \in Inputs : design.next[<<s, i>>] \in State
      BY FrameStates DEF TypeOK, Design
    <3>4. Frame(j)' = Frame(j) /\ Frame(j + 1)' = State
      <4>1. j + 1 = iFrame + 1
        BY <2>2
      <4>2. Frame(j + 1)' = State
        BY <1>3, <4>1
      <4> QED
        BY <1>2, <2>0, <4>2
    <3>5. \A o \in Unsolved' \union P'[j] : Clear(j, o)'
      BY <1>0, <3>2, <3>4 DEF Clear
    <3> QED
      BY <1>0, <3>3, <3>4, <3>5
  <2> QED
    BY <1>0, <2>0, <2>1, <2>2
<1>6. FramesHold'
  BY <1>4, <1>5 DEF FramesHold
<1>7. k' \in 1..iFrame' /\ todo' = vClauses'[k'] /\ ~fInv'
  BY <1>0 DEF OpenFrame, TypeOK, Max2
<1>8. PushInv'
  BY <1>7 DEF PushInv
<1>9. P'[iFrame'] = {}
  BY <1>0 DEF OpenFrame
<1>10. TopInv'
  BY <1>0, <1>9 DEF TopInv
<1> QED
  BY <1>2, <1>6, <1>8, <1>10

\* A solver that starts again has what its frame has.
LEMMA FetchStep ==
  ASSUME IInv, NEW j \in DOMAIN F, FetchSolver(j)
  PROVE  FramesHold' /\ P'[iFrame] = P[iFrame]
<1> USE DEF IInv
<1>0. j \in 0..(iFrame - 1) /\ UNCHANGED <<design, iFrame, vClauses, vOutMap>> /\ iFrame \in Nat
  BY DEF FetchSolver, TypeOK, fixed, results
<1>1. \A i \in 0..iFrame : Frame(i)' = Frame(i)
  BY <1>0 DEF Frame, Above
<1>2. ASSUME NEW i \in 0..iFrame PROVE Frame(i) \subseteq F'[i]
  BY DEF FetchSolver, FramesHold, TypeOK, Frame
<1>3. P'[iFrame] = P[iFrame] /\ \A i \in 0..(iFrame - 1) : P'[i] \subseteq Unsolved \union P[i]
  BY <1>0 DEF FetchSolver, TypeOK
<1>4. Unsolved' = Unsolved
  BY <1>0 DEF Unsolved
<1> QED
  BY <1>0, <1>1, <1>2, <1>3, <1>4, FramesKept

\* Two equal frames are closed under the steps of the design, and no open output
\* can be asserted in them.
LEMMA LastStep ==
  ASSUME IInv, LastLevel
  PROVE  /\ FramesHold' /\ ProvedIsTrue'
         /\ \A j \in 0..iFrame : Frame(j)' = Frame(j)
<1> USE DEF IInv
<1>0. TypeOK' /\ UNCHANGED <<design, iFrame, F, P>> /\ iFrame \in Nat
  BY TypeStep DEF Next, Step, LastLevel, fixed, solvers, TypeOK
<1>1. \A j \in 0..iFrame : Frame(j)' = Frame(j)
  <2>1. PICK kept \in SUBSET vClauses[iFrame] :
          /\ \A c \in vClauses[iFrame] : \E d \in kept : SetContains(c, d)
          /\ vClauses' = [vClauses EXCEPT ![iFrame] = kept]
    BY DEF LastLevel
  <2>2. vClauses \in [0..iFrame -> SUBSET Cube] /\ vClauses' \in [0..iFrame -> SUBSET Cube]
    BY <1>0 DEF TypeOK
  <2>3. \A i \in 0..iFrame : vClauses'[i] \subseteq vClauses[i]
    BY <1>0, <2>1, <2>2
  <2>4. ASSUME NEW i \in 0..iFrame, NEW e \in vClauses[i]
        PROVE  \E d \in vClauses'[i] : d \subseteq e
    BY <1>0, <2>1, <2>2 DEF SetContains
  <2> QED
    BY <1>0, <2>2, <2>3, <2>4, SameFrames
<1>2. \A o \in Outs :
        /\ vOutMap'[o] = UNKNOWN => vOutMap[o] = UNKNOWN
        /\ vOutMap'[o] = PROVED => vOutMap[o] = PROVED \/ (vOutMap[o] = UNKNOWN /\ fInv)
  BY DEF LastLevel, UNKNOWN, PROVED
<1>3. FramesHold'
  <2>1. Unsolved' \subseteq Unsolved
    <3>1. Unsolved' = {o \in Outs : vOutMap'[o] = UNKNOWN}
      BY DEF Unsolved
    <3> QED
      BY <1>2, <3>1 DEF Unsolved
  <2>2. \A j \in 0..(iFrame - 1) : P'[j] \subseteq Unsolved \union P[j]
    BY <1>0
  <2> QED
    BY <1>0, <1>1, <2>1, <2>2, FramesKept DEF FramesHold
<1>4. ASSUME fInv, NEW o \in Unsolved PROVE Holds(o)
  <2>1. PICK j \in 1..(k - 1) : vClauses[j] = {}
    BY <1>4 DEF PushInv, LastLevel
  <2>2. j \in 1..(iFrame - 1) /\ j \in 0..(iFrame - 1) /\ j \in 0..iFrame
    BY <1>0, <2>1 DEF TypeOK
  <2>3. Frame(j + 1) = Frame(j)
    BY <2>1, <2>2, EmptyLevel
  <2>4. Closed(Frame(j))
    BY <2>2, <2>3 DEF Closed, FramesHold
  <2>5. Reachable \subseteq Frame(j)
    BY <2>4, FrameStates DEF Reachable
  <2>6. Clear(j, o)
    BY <2>2 DEF FramesHold
  <2> QED
    BY <2>5, <2>6 DEF Holds, Clear
<1>5. ASSUME NEW o \in Outs, vOutMap'[o] = PROVED PROVE Holds(o)'
  <2>1. Holds(o)
    <3>1. CASE vOutMap[o] = PROVED
      BY <3>1 DEF ProvedIsTrue
    <3>2. CASE vOutMap[o] = UNKNOWN /\ fInv
      BY <1>4, <3>2 DEF Unsolved
    <3> QED
      BY <1>2, <1>5, <3>1, <3>2
  <2> QED
    BY <1>0, <2>1 DEF Holds, Reachable, Closed
<1> QED
  BY <1>1, <1>3, <1>5 DEF ProvedIsTrue

-----------------------------------------------------------------------------
(* The other steps. *)

\* The frames stay or get smaller, and so does what is asked of them.
LEMMA QueueKept ==
  ASSUME TypeOK, QueueInv, pQueue' \subseteq pQueue,
         \A j \in 0..iFrame : Frame(j)' \subseteq Frame(j)
  PROVE  QueueInv'
<1> SUFFICES ASSUME NEW ob \in pQueue', ob.iFrame >= 1
             PROVE  States(ob.pState) \intersect Frame(ob.iFrame - 1)' = {}
  BY DEF QueueInv
<1>1. ob \in pQueue /\ ob.iFrame - 1 \in 0..iFrame
  BY DEF TypeOK
<1>2. States(ob.pState) \intersect Frame(ob.iFrame - 1) = {}
  BY <1>1 DEF QueueInv
<1> QED
  BY <1>1, <1>2

LEMMA TopKept ==
  ASSUME TypeOK, TopInv, UNCHANGED <<design, iFrame>>, P'[iFrame] = P[iFrame],
         Frame(iFrame)' \subseteq Frame(iFrame), Unsolved' \subseteq Unsolved,
         pc' \in {"output", "block"} => pc \in {"output", "block"} /\ iOutCur' = iOutCur,
         pc' = "frame" => pc = "frame"
  PROVE  TopInv'
<1>1. Frame(iFrame)' \subseteq Frame(iFrame) /\ iFrame' = iFrame /\ design' = design
  OBVIOUS
<1>2. \A o : Clear(iFrame, o) => Clear(iFrame, o)'
  BY <1>1 DEF Clear
<1> QED
  BY <1>2 DEF TopInv

\* The output is done: it holds in the top frame, or it is not open any more.
LEMMA TopNext ==
  ASSUME TypeOK, TopInv, pc \in {"output", "block"}, NextOutput,
         UNCHANGED <<design, iFrame, vClauses, P>>, Unsolved' \subseteq Unsolved,
         iOutCur \in Unsolved' => Clear(iFrame, iOutCur)
  PROVE  TopInv'
<1>1. \A o : Clear(iFrame, o) => Clear(iFrame, o)'
  BY DEF Clear, Frame
<1>2. \A o \in Unsolved' : o \in Outs /\ o \in Nat /\ iOutCur \in Nat /\ nOuts \in Nat /\ o <= nOuts
  BY PdrConstants DEF TypeOK, Unsolved, Outs
<1>3. \A o \in Unsolved' : o <= iOutCur => Clear(iFrame, o)'
  BY <1>1, <1>2 DEF TopInv
<1>4. CASE iOutCur < nOuts
  BY <1>2, <1>3, <1>4 DEF NextOutput, TopInv
<1>5. CASE ~(iOutCur < nOuts)
  BY <1>2, <1>3, <1>5 DEF NextOutput, TopInv
<1> QED
  BY <1>4, <1>5

LEMMA ProvedKept ==
  ASSUME ProvedIsTrue, UNCHANGED design,
         \A o \in Outs : vOutMap'[o] = PROVED => vOutMap[o] = PROVED
  PROVE  ProvedIsTrue'
  BY DEF ProvedIsTrue, Holds, Reachable, Closed

\* A failing state is blocked below the top: there the output is 0.
LEMMA RootObligation ==
  ASSUME IInv, OutputFails
  PROVE  QueueInv'
<1> USE DEF IInv
<1>1. PICK x \in Failing(iFrame, iOutCur) :
        \E c \in TernarySim(x[1], Asserting(iOutCur, x[2])) :
          pQueue' = pQueue \union {[iFrame |-> iFrame, pState |-> c, ins |-> <<x[2]>>]}
  BY DEF OutputFails
<1>2. x[1] \in State /\ x[2] \in Inputs
  BY DEF Failing, Allowed, TypeOK
<1>3. PICK c \in TernarySim(x[1], Asserting(iOutCur, x[2])) :
        pQueue' = pQueue \union {[iFrame |-> iFrame, pState |-> c, ins |-> <<x[2]>>]}
  BY <1>1
<1>4. \A t \in States(c) : <<t, x[2]>> \in design.bad[iOutCur]
  BY <1>2, TernaryHits DEF Asserting
<1>5. iFrame >= 1 => States(c) \intersect Frame(iFrame - 1) = {}
  <2> SUFFICES ASSUME iFrame >= 1 PROVE States(c) \intersect Frame(iFrame - 1) = {}
    OBVIOUS
  <2>1. iFrame - 1 \in 0..(iFrame - 1)
    BY DEF TypeOK
  <2>2. Clear(iFrame - 1, iOutCur)
    BY <2>1 DEF FramesHold, OutputFails
  <2> QED
    BY <1>2, <1>4, <2>2 DEF Clear
<1>6. UNCHANGED vClauses
  BY DEF OutputFails
<1>7. ASSUME NEW ob \in pQueue', ob.iFrame >= 1
      PROVE  States(ob.pState) \intersect Frame(ob.iFrame - 1) = {}
  <2>1. CASE ob \in pQueue
    BY <1>7, <2>1 DEF QueueInv
  <2>2. CASE ob = [iFrame |-> iFrame, pState |-> c, ins |-> <<x[2]>>]
    BY <1>5, <1>7, <2>2
  <2> QED
    BY <1>3, <2>1, <2>2
<1> QED
  BY <1>6, <1>7 DEF QueueInv, Frame

\* A predecessor of a cube that is not in frame j is not in frame j - 1.
LEMMA PredecessorObligation ==
  ASSUME IInv, FindPredecessor
  PROVE  QueueInv'
<1> USE DEF IInv
<1>1. PICK ob \in Heads :
        /\ Popped(ob)
        /\ \E x \in Reaching(ob.iFrame - 1, ob.pState, ob.pState) :
             \E c \in TernarySim(x[1], Stepping(ob.pState, x[2])) :
               pQueue' = pQueue \union {[iFrame |-> ob.iFrame - 1, pState |-> c,
                                         ins |-> <<x[2]>> \o ob.ins]}
  BY DEF FindPredecessor
<1>2. PICK x \in Reaching(ob.iFrame - 1, ob.pState, ob.pState) :
        \E c \in TernarySim(x[1], Stepping(ob.pState, x[2])) :
          pQueue' = pQueue \union {[iFrame |-> ob.iFrame - 1, pState |-> c,
                                    ins |-> <<x[2]>> \o ob.ins]}
  BY <1>1
<1>3. /\ ob \in pQueue /\ ob \in [iFrame : 1..iFrame, pState : Cube, ins : Seq(Inputs)]
      /\ ob.iFrame \in 1..iFrame /\ iFrame \in Nat
  BY <1>1 DEF Popped, Heads, TypeOK
<1>4. x[1] \in State /\ x[2] \in Inputs
  BY <1>3 DEF Reaching, Allowed, TypeOK
<1>5. PICK c \in TernarySim(x[1], Stepping(ob.pState, x[2])) :
        pQueue' = pQueue \union {[iFrame |-> ob.iFrame - 1, pState |-> c,
                                  ins |-> <<x[2]>> \o ob.ins]}
  BY <1>2
<1>6. \A t \in States(c) : design.next[<<t, x[2]>>] \in States(ob.pState)
  BY <1>4, TernaryHits DEF Stepping
<1>7. States(ob.pState) \intersect Frame(ob.iFrame - 1) = {}
  <2>1. QueueInv /\ ob \in pQueue /\ ob.iFrame >= 1
    BY <1>3
  <2> QED
    BY ONLY <2>1 DEF QueueInv
<1>8. ob.iFrame - 1 >= 1 => States(c) \intersect Frame((ob.iFrame - 1) - 1) = {}
  <2> SUFFICES ASSUME ob.iFrame - 1 >= 1, NEW t \in States(c), t \in Frame((ob.iFrame - 1) - 1)
               PROVE  FALSE
    OBVIOUS
  <2>1. (ob.iFrame - 1) - 1 \in 0..(iFrame - 1) /\ ((ob.iFrame - 1) - 1) + 1 = ob.iFrame - 1
    BY <1>3
  <2>2. design.next[<<t, x[2]>>] \in Frame(ob.iFrame - 1)
    BY <1>4, <2>1 DEF FramesHold
  <2> QED
    BY <1>6, <1>7, <2>2
<1>9. UNCHANGED vClauses
  BY DEF FindPredecessor
<1>10. ASSUME NEW y \in pQueue', y.iFrame >= 1
       PROVE  States(y.pState) \intersect Frame(y.iFrame - 1) = {}
  <2>1. CASE y \in pQueue
    BY <1>10, <2>1 DEF QueueInv
  <2>2. CASE y = [iFrame |-> ob.iFrame - 1, pState |-> c, ins |-> <<x[2]>> \o ob.ins]
    BY <1>8, <1>10, <2>2
  <2> QED
    BY <1>5, <2>1, <2>2
<1> QED
  BY <1>9, <1>10 DEF QueueInv, Frame

\* The top solver was asked: with no output set to 0 in it, the answer is about
\* the whole frame.
LEMMA CheckedOutput ==
  ASSUME IInv, Failing(iFrame, iOutCur) = {}
  PROVE  Clear(iFrame, iOutCur)
<1>1. iFrame \in 0..iFrame /\ P[iFrame] = {}
  BY DEF IInv, TypeOK, TopInv
<1>2. Frame(iFrame) \subseteq F[iFrame]
  BY <1>1 DEF IInv, FramesHold
<1> QED
  BY <1>1, <1>2 DEF Failing, Allowed, Clear

\* No output becomes open or proved.
StillOpen ==
  \A o \in Outs :
    /\ vOutMap'[o] = UNKNOWN => vOutMap[o] = UNKNOWN
    /\ vOutMap'[o] = PROVED => vOutMap[o] = PROVED

\* A step that leaves clauses and solvers alone and proves no output.
LEMMA Quiet ==
  ASSUME IInv, UNCHANGED <<fixed, iFrame, vClauses, solvers>>,
         StillOpen
  PROVE  /\ FramesHold' /\ ProvedIsTrue' /\ Unsolved' \subseteq Unsolved
         /\ \A j \in 0..iFrame : Frame(j)' = Frame(j)
<1>1. UNCHANGED <<design, iFrame, vClauses, F, P>>
  BY DEF fixed, solvers
<1>2. Unsolved' \subseteq Unsolved
  BY DEF Unsolved, StillOpen
<1>3. \A j \in 0..iFrame : Frame(j)' = Frame(j)
  BY <1>1 DEF Frame, Above
<1>4. FramesHold'
  BY <1>1, <1>2, <1>3, FramesKept DEF IInv, FramesHold
<1>5. ProvedIsTrue'
  BY <1>1, ProvedKept DEF IInv, StillOpen
<1> QED
  BY <1>2, <1>3, <1>4, <1>5

-----------------------------------------------------------------------------
(* The invariant. *)

\* Every step of the search keeps it.
LEMMA InductiveStep == IInv /\ [Next]_vars => IInv'
<1> SUFFICES ASSUME IInv, [Next]_vars PROVE IInv'
  OBVIOUS
<1> USE DEF IInv
<1>0. TypeOK' /\ iFrame \in 0..iFrame
  BY TypeStep DEF TypeOK
<1>a. ASSUME UNCHANGED results
      PROVE  StillOpen
  BY <1>a DEF results, StillOpen
<1>b. ASSUME NEW v \in {FAILS, UNDEC}, vOutMap' = [vOutMap EXCEPT ![iOutCur] = v]
      PROVE  /\ iOutCur \notin Unsolved'
             /\ StillOpen
  BY <1>b DEF TypeOK, FAILS, UNDEC, UNKNOWN, PROVED, Unsolved, StillOpen
<1>c. ASSUME NextOutput PROVE pc' # "push"
  BY <1>c DEF NextOutput
<1>1. CASE SkipOutput
  <2>1. FramesHold' /\ ProvedIsTrue' /\ Unsolved' \subseteq Unsolved
    BY <1>1, <1>a, Quiet DEF SkipOutput
  <2>2. QueueInv'
    BY <1>1, QueueKept DEF SkipOutput, queue, Frame
  <2>3. TopInv'
    BY <1>1, <2>1, TopNext DEF SkipOutput, fixed, solvers
  <2> QED
    BY <1>0, <1>1, <1>c, <2>1, <2>2, <2>3 DEF SkipOutput, PushInv
<1>2. CASE OutputHolds
  <2>1. FramesHold' /\ ProvedIsTrue' /\ Unsolved' \subseteq Unsolved
    BY <1>2, <1>a, Quiet DEF OutputHolds
  <2>2. QueueInv'
    BY <1>2, QueueKept DEF OutputHolds, queue, Frame
  <2>3. TopInv'
    BY <1>2, <2>1, TopNext, CheckedOutput DEF OutputHolds, fixed, solvers
  <2> QED
    BY <1>0, <1>2, <1>c, <2>1, <2>2, <2>3 DEF OutputHolds, PushInv
<1>3. CASE OutputFails
  <2>1. /\ FramesHold' /\ ProvedIsTrue' /\ Unsolved' \subseteq Unsolved
        /\ \A j \in 0..iFrame : Frame(j)' = Frame(j)
    BY <1>3, <1>a, Quiet DEF OutputFails
  <2>2. TopInv'
    BY <1>0, <1>3, <2>1, TopKept DEF OutputFails, fixed, solvers
  <2> QED
    BY <1>0, <1>3, <2>1, <2>2, RootObligation DEF OutputFails, PushInv
<1>4. CASE CexFound
  <2>1. /\ FramesHold' /\ ProvedIsTrue' /\ Unsolved' \subseteq Unsolved
        /\ \A j \in 0..iFrame : Frame(j)' = Frame(j)
    BY <1>4, <1>b, Quiet DEF CexFound
  <2>2. QueueInv'
    BY <1>4, <2>1, QueueKept DEF CexFound
  <2>3. CASE NextOutput
    <3>1. TopInv'
      BY <1>4, <1>b, <2>1, <2>3, TopNext DEF CexFound, fixed, solvers
    <3> QED
      BY <1>0, <1>c, <2>1, <2>2, <2>3, <3>1 DEF PushInv
  <2>4. CASE pc' = "done"
    <3>1. TopInv'
      BY <1>4, <2>4 DEF CexFound, TopInv, solvers
    <3> QED
      BY <1>0, <2>1, <2>2, <2>4, <3>1 DEF PushInv
  <2> QED
    BY <1>4, <2>3, <2>4 DEF CexFound
<1>5. CASE LevelBlocked
  <2>1. /\ FramesHold' /\ ProvedIsTrue' /\ Unsolved' \subseteq Unsolved
        /\ \A j \in 0..iFrame : Frame(j)' = Frame(j)
    BY <1>5, <1>a, Quiet DEF LevelBlocked
  <2>2. QueueInv'
    BY <1>5, <2>1, QueueKept DEF LevelBlocked, queue
  <2>3. TopInv'
    BY <1>0, <1>5, <2>1, TopKept DEF LevelBlocked, fixed, solvers
  <2> QED
    BY <1>0, <1>5, <2>1, <2>2, <2>3 DEF LevelBlocked, PushInv
<1>6. CASE Restart
  <2>1. /\ FramesHold' /\ ProvedIsTrue' /\ Unsolved' \subseteq Unsolved
        /\ \A j \in 0..iFrame : Frame(j)' = Frame(j)
    BY <1>6, <1>a, Quiet DEF Restart
  <2>2. QueueInv'
    BY <1>6, <2>1, QueueKept DEF Restart
  <2>3. TopInv'
    BY <1>0, <1>6, <2>1, TopKept DEF Restart, fixed, solvers
  <2> QED
    BY <1>0, <1>6, <2>1, <2>2, <2>3 DEF Restart, PushInv
<1>7. CASE DropObligation
  <2>1. /\ FramesHold' /\ ProvedIsTrue' /\ Unsolved' \subseteq Unsolved
        /\ \A j \in 0..iFrame : Frame(j)' = Frame(j)
    BY <1>7, <1>a, Quiet DEF DropObligation
  <2>2. pQueue' \subseteq pQueue /\ pc = "block"
    BY <1>7 DEF DropObligation, Popped
  <2>3. QueueInv'
    BY <2>1, <2>2, QueueKept
  <2>4. TopInv'
    BY <1>0, <1>7, <2>1, <2>2, TopKept DEF DropObligation, fixed, solvers
  <2> QED
    BY <1>0, <1>7, <2>1, <2>2, <2>3, <2>4 DEF DropObligation, PushInv
<1>8. CASE BlockObligation
  <2>1. /\ FramesHold' /\ QueueInv'
        /\ \A j \in 0..iFrame : Frame(j)' \subseteq Frame(j)
    BY <1>8, BlockStep
  <2>2. pc = "block"
    BY <1>8 DEF BlockObligation, Popped
  <2>3. TopInv'
    BY <1>0, <1>8, <2>1, <2>2, TopKept DEF BlockObligation, fixed, results, Unsolved
  <2>4. ProvedIsTrue'
    BY <1>8, ProvedKept DEF BlockObligation, fixed, results
  <2> QED
    BY <1>0, <1>8, <2>1, <2>2, <2>3, <2>4 DEF BlockObligation, PushInv
<1>9. CASE FindPredecessor
  <2>1. /\ FramesHold' /\ ProvedIsTrue' /\ Unsolved' \subseteq Unsolved
        /\ \A j \in 0..iFrame : Frame(j)' = Frame(j)
    BY <1>9, <1>a, Quiet DEF FindPredecessor
  <2>2. pc = "block"
    BY <1>9 DEF FindPredecessor, Popped
  <2>3. TopInv'
    BY <1>0, <1>9, <2>1, <2>2, TopKept DEF FindPredecessor, fixed, solvers
  <2> QED
    BY <1>0, <1>9, <2>1, <2>2, <2>3, PredecessorObligation DEF FindPredecessor, PushInv
<1>10. CASE OpenFrame
  <2>1. /\ FramesHold' /\ PushInv' /\ TopInv'
        /\ \A j \in 0..iFrame : Frame(j)' \subseteq Frame(j)
    BY <1>10, OpenStep
  <2>2. QueueInv'
    BY <1>10, <2>1, QueueKept DEF OpenFrame
  <2>3. ProvedIsTrue'
    BY <1>10, ProvedKept DEF OpenFrame, fixed, results
  <2> QED
    BY <1>0, <2>1, <2>2, <2>3
<1>11. CASE PushCube
  <2>1. /\ FramesHold' /\ PushInv'
        /\ \A j \in 0..iFrame : Frame(j)' \subseteq Frame(j)
    BY <1>11, PushStep
  <2>2. QueueInv'
    BY <1>11, <2>1, QueueKept DEF PushCube, queue
  <2>3. TopInv'
    BY <1>0, <1>11, <2>1, TopKept DEF PushCube, fixed, results, Unsolved
  <2>4. ProvedIsTrue'
    BY <1>11, ProvedKept DEF PushCube, fixed, results
  <2> QED
    BY <1>0, <2>1, <2>2, <2>3, <2>4
<1>12. CASE NextLevel
  <2>1. /\ FramesHold' /\ ProvedIsTrue' /\ Unsolved' \subseteq Unsolved
        /\ \A j \in 0..iFrame : Frame(j)' = Frame(j)
    BY <1>12, <1>a, Quiet DEF NextLevel
  <2>2. QueueInv'
    BY <1>12, <2>1, QueueKept DEF NextLevel, queue
  <2>3. TopInv'
    BY <1>0, <1>12, <2>1, TopKept DEF NextLevel, fixed, solvers
  <2>4. k' \in 1..iFrame /\ k' = k + 1 /\ k \in 1..(k' - 1)
    BY <1>12 DEF NextLevel, PushInv, TypeOK
  <2>5. fInv' => \E j \in 1..(k' - 1) : vClauses[j] = {}
    <3>1. CASE fInv
      BY <1>12, <2>4, <3>1 DEF NextLevel, PushInv
    <3>2. CASE vClauses[k] = {}
      BY <2>4, <3>2
    <3> QED
      BY <1>12, <3>1, <3>2 DEF NextLevel
  <2>6. PushInv'
    BY <1>12, <2>4, <2>5 DEF NextLevel, PushInv
  <2> QED
    BY <1>0, <2>1, <2>2, <2>3, <2>6
<1>13. CASE LastLevel
  <2>1. /\ FramesHold' /\ ProvedIsTrue'
        /\ \A j \in 0..iFrame : Frame(j)' = Frame(j)
    BY <1>13, LastStep
  <2>2. QueueInv'
    BY <1>13, <2>1, QueueKept DEF LastLevel
  <2>3. PushInv'
    BY <1>13 DEF LastLevel, PushInv
  <2>4. \A o \in Unsolved' : o >= 1
    BY <1>0 DEF Unsolved, Outs
  <2>5. P'[iFrame'] = {}
    BY <1>13 DEF LastLevel, TopInv, solvers
  <2>6. pc' = "done" \/ (pc' = "output" /\ iOutCur' = 1)
    BY <1>13 DEF LastLevel
  <2>7. \A o \in Unsolved' : ~(o < 1)
    BY PdrConstants DEF Unsolved, Outs
  <2>8. TopInv'
    BY <2>5, <2>6, <2>7 DEF TopInv
  <2> QED
    BY <1>0, <2>1, <2>2, <2>3, <2>8
<1>14. CASE OutputTimesOut
  <2>1. /\ FramesHold' /\ ProvedIsTrue' /\ Unsolved' \subseteq Unsolved
        /\ iOutCur \notin Unsolved'
        /\ \A j \in 0..iFrame : Frame(j)' = Frame(j)
    BY <1>14, <1>b, Quiet DEF OutputTimesOut
  <2>2. pQueue' \subseteq pQueue
    BY <1>14 DEF OutputTimesOut
  <2>3. QueueInv'
    BY <2>1, <2>2, QueueKept
  <2>4. TopInv'
    BY <1>14, <2>1, TopNext DEF OutputTimesOut, fixed, solvers
  <2> QED
    BY <1>0, <1>14, <1>c, <2>1, <2>3, <2>4 DEF OutputTimesOut, PushInv
<1>15. CASE Stop
  <2>1. StillOpen
    BY <1>15 DEF Stop, StillOpen, UNKNOWN, UNDEC, PROVED
  <2>2. /\ FramesHold' /\ ProvedIsTrue' /\ Unsolved' \subseteq Unsolved
        /\ \A j \in 0..iFrame : Frame(j)' = Frame(j)
    BY <1>15, <2>1, Quiet DEF Stop
  <2>3. QueueInv'
    BY <1>15, <2>2, QueueKept DEF Stop, queue
  <2>4. TopInv'
    BY <1>0, <1>15, <2>2, TopKept DEF Stop, fixed, solvers
  <2> QED
    BY <1>0, <1>15, <2>2, <2>3, <2>4 DEF Stop, PushInv
<1>16. ASSUME NEW j \in DOMAIN F, FetchSolver(j) PROVE IInv'
  <2>1. FramesHold' /\ P'[iFrame] = P[iFrame]
    BY <1>16, FetchStep
  <2>2. /\ UNCHANGED <<design, pc, iFrame, iOutCur, vClauses, pQueue, k, todo, fInv, vOutMap>>
        /\ pc \in {"block", "push"}
    BY <1>16 DEF FetchSolver, fixed, queue, push, results
  <2>3. \A i : Frame(i)' = Frame(i)
    BY <2>2 DEF Frame, Above
  <2>4. Unsolved' = Unsolved
    BY <2>2 DEF Unsolved
  <2>5. TopInv'
    BY <1>0, <2>1, <2>2, <2>3, <2>4, TopKept
  <2>6. QueueInv'
    BY <2>2, <2>3, QueueKept
  <2>7. PushInv'
    BY <2>2 DEF PushInv
  <2>8. ProvedIsTrue'
    BY <2>2, ProvedKept
  <2> QED
    BY <1>0, <2>1, <2>5, <2>6, <2>7, <2>8
<1>17. CASE UNCHANGED vars
  <2>1. UNCHANGED <<design, pc, iFrame, iOutCur, vClauses, F, P, pQueue, k, todo, fInv,
                    vOutMap>>
    BY <1>17 DEF vars
  <2>2. Unsolved' = Unsolved /\ \A i : Frame(i)' = Frame(i)
    BY <2>1 DEF Unsolved, Frame, Above
  <2>3. \A i, o : Clear(i, o)' <=> Clear(i, o)
    BY <2>1, <2>2 DEF Clear
  <2>4. FramesHold'
    BY <2>1, <2>2, <2>3 DEF FramesHold
  <2>5. PushInv' /\ TopInv' /\ QueueInv'
    BY <2>1, <2>2, <2>3 DEF PushInv, TopInv, QueueInv
  <2>6. ProvedIsTrue'
    BY <2>1, ProvedKept
  <2> QED
    BY <1>0, <2>4, <2>5, <2>6
<1> QED
  BY <1>1, <1>2, <1>3, <1>4, <1>5, <1>6, <1>7, <1>8, <1>9, <1>10, <1>11, <1>12,
     <1>13, <1>14, <1>15, <1>16, <1>17 DEF Next, Step

\* It holds in every state of the search.
THEOREM Invariant == Spec => []IInv
<1>1. Init => IInv
  BY InitInv
<1>2. IInv /\ [Next]_vars => IInv'
  BY InductiveStep
<1> QED
  BY <1>1, <1>2, PTL DEF Spec

\* The search keeps its types, whatever the design.
THEOREM Typing == Spec => []TypeOK
<1>1. IInv => TypeOK
  BY DEF IInv
<1> QED
  BY <1>1, Invariant, PTL

\* Blocking, pushing and starting solvers again never make a frame exclude a
\* state that the frame below steps into, nor leave an open output assertable
\* below the top.
THEOREM Frames == Spec => []FramesHold
<1>1. IInv => FramesHold
  BY DEF IInv
<1> QED
  BY <1>1, Invariant, PTL

\* "UNSAT" is true: an output that the search says is proved is not asserted in
\* any state the design reaches.
THEOREM Soundness == Spec => []ProvedIsTrue
<1>1. IInv => ProvedIsTrue
  BY DEF IInv
<1> QED
  BY <1>1, Invariant, PTL

\* The assertion of Pdr_ManBlockCube holds: above frame 0 no cube to block
\* contains the initial state, because the frame below, which the cube is not
\* in, does.
THEOREM NoInitial == Spec => []NoInitObligation
<1>1. IInv => NoInitObligation
  <2> SUFFICES ASSUME IInv, NEW ob \in pQueue, ob.iFrame > 0, SetIsInit(ob.pState)
               PROVE  FALSE
    BY DEF NoInitObligation
  <2>1. /\ ob.pState \in Cube /\ ob.iFrame >= 1
        /\ ob.iFrame - 1 \in 0..iFrame
    BY DEF IInv, TypeOK
  <2>2. Zero \in States(ob.pState)
    BY <2>1, InitCube
  <2>3. Zero \in Frame(ob.iFrame - 1)
    BY <2>1 DEF IInv, FramesHold
  <2> QED
    BY <2>1, <2>2, <2>3 DEF IInv, QueueInv
<1> QED
  BY <1>1, Invariant, PTL

-----------------------------------------------------------------------------
(* What a counter-example leads to. *)

\* The states on the way of the first m inputs.
IsRun(tr, s, ins, m) ==
  /\ tr \in [0..m -> State] /\ tr[0] = s
  /\ \A n \in 1..m : tr[n] = design.next[<<tr[n - 1], ins[n]>>]

\* The last of the inputs asserts the output, after the others.
Hits(s, ins, o) ==
  /\ Len(ins) >= 1
  /\ \E tr : /\ IsRun(tr, s, ins, Len(ins) - 1)
             /\ <<tr[Len(ins) - 1], ins[Len(ins)]>> \in design.bad[o]

\* FoldLeft goes through the states of the run.
LEMMA AfterIsRun ==
  ASSUME design \in Design, NEW ins \in Seq(Inputs)
  PROVE  \E tr : IsRun(tr, Zero, ins, Len(ins)) /\ After(ins) = tr[Len(ins)]
<1> DEFINE D == DOMAIN ins
           pick == [T \in SUBSET D |-> TopOf(T)]
           step == [p \in D \X State |-> design.next[<<p[2], ins[p[1]]>>]]
           Iter(g) == g = [T \in SUBSET D |->
                             IF T = {} THEN Zero
                             ELSE design.next[<<g[T \ {TopOf(T)}], ins[TopOf(T)]>>]]
           f == CHOOSE g : Iter(g)
<1>1. After(ins) = f[D]
  BY DEF After, FoldLeft, MapThenFoldSet, Max, TopOf
<1>2. D = 1..Len(ins) /\ Len(ins) \in Nat
  OBVIOUS
<1>3. design.next \in [State \X Inputs -> State]
  BY DEF Design
<1>4. PICK g \in [SUBSET D -> State] : Folds(g, D, pick, Zero, step)
  <2>1. \A T \in SUBSET D : T # {} => pick[T] \in T
    BY <1>2, TopOfIs
  <2>2. step \in [D \X State -> State]
    <3>1. ASSUME NEW x \in D, NEW s \in State PROVE design.next[<<s, ins[x]>>] \in State
      BY <1>3
    <3> QED
      BY <3>1
  <2>3. IsFiniteSet(D)
    BY <1>2, FS_Interval
  <2> HIDE DEF pick, step, D
  <2> QED
    BY <2>1, <2>2, <2>3, ZeroState, FoldExists, Zenon
<1>5. Iter(g)
  <2>1. ASSUME NEW T \in SUBSET D, T # {}
        PROVE  g[T] = design.next[<<g[T \ {TopOf(T)}], ins[TopOf(T)]>>]
    <3> DEFINE x == TopOf(T)
    <3>1. x \in D /\ pick[T] = x
      BY <1>2, <2>1, TopOfIs
    <3> HIDE DEF x, pick
    <3>2. T \ {x} \in SUBSET D /\ g[T \ {x}] \in State
      OBVIOUS
    <3>3. step[<<x, g[T \ {x}]>>] = design.next[<<g[T \ {x}], ins[x]>>]
      BY <3>1, <3>2
    <3> HIDE DEF step
    <3>4. g[T] = step[<<x, g[T \ {x}]>>]
      BY <1>4, <2>1, <3>1 DEF Folds
    <3> QED
      BY <3>3, <3>4 DEF x
  <2>2. g[{}] = Zero
    BY <1>4 DEF Folds
  <2> QED
    BY <2>1, <2>2
<1>6. Iter(f)
  BY <1>5
<1> HIDE DEF f
<1>7. f[1..0] = Zero
  BY <1>6
<1>8. \A n \in 1..Len(ins) : f[1..n] = design.next[<<f[1..(n - 1)], ins[n]>>]
  <2> SUFFICES ASSUME NEW n \in 1..Len(ins)
               PROVE  f[1..n] = design.next[<<f[1..(n - 1)], ins[n]>>]
    OBVIOUS
  <2>1. 1..n \in SUBSET D /\ 1..n # {} /\ n \in 1..n
    BY <1>2
  <2>2. TopOf(1..n) = n
    <3>1. TopOf(1..n) \in 1..n /\ TopOf(1..n) >= n
      BY <1>2, <2>1, TopOfIs
    <3> QED
      BY <3>1
  <2>3. (1..n) \ {n} = 1..(n - 1)
    OBVIOUS
  <2>4. f[1..n] = design.next[<<f[(1..n) \ {TopOf(1..n)}], ins[TopOf(1..n)]>>]
    BY <1>6, <2>1
  <2> QED
    BY <2>2, <2>3, <2>4
<1> DEFINE tr == [n \in 0..Len(ins) |-> f[1..n]]
           K == {n \in Nat : n <= Len(ins) => f[1..n] \in State}
<1>9. Nat \subseteq K
  <2>1. 0 \in K
    BY <1>7, ZeroState
  <2>2. ASSUME NEW n \in Nat, n \in K PROVE n + 1 \in K
    <3> SUFFICES ASSUME n + 1 <= Len(ins) PROVE f[1..(n + 1)] \in State
      OBVIOUS
    <3>1. f[1..n] \in State /\ n + 1 \in 1..Len(ins) /\ (n + 1) - 1 = n
      BY <1>2, <2>2
    <3>2. f[1..(n + 1)] = design.next[<<f[1..n], ins[n + 1]>>]
      BY <1>8, <3>1
    <3>3. ins[n + 1] \in Inputs
      BY <3>1
    <3> QED
      BY <1>3, <3>1, <3>2, <3>3
  <2> HIDE DEF K
  <2> QED
    BY <2>1, <2>2, NumberInduction
<1>10. tr \in [0..Len(ins) -> State]
  BY <1>9
<1>11. tr[0] = Zero /\ tr[Len(ins)] = f[D]
  BY <1>2, <1>7
<1>12. \A n \in 1..Len(ins) : tr[n] = design.next[<<tr[n - 1], ins[n]>>]
  BY <1>2, <1>8
<1>13. IsRun(tr, Zero, ins, Len(ins))
  BY <1>10, <1>11, <1>12 DEF IsRun
<1> QED
  BY <1>1, <1>11, <1>13

\* There is one run.
LEMMA RunsAgree ==
  ASSUME NEW s, NEW ins, NEW m \in Nat, NEW tr, NEW ts, IsRun(tr, s, ins, m), IsRun(ts, s, ins, m)
  PROVE  \A n \in 0..m : tr[n] = ts[n]
<1> DEFINE K == {n \in Nat : n <= m => tr[n] = ts[n]}
<1>1. 0 \in K
  BY DEF IsRun
<1>2. ASSUME NEW n \in Nat, n \in K PROVE n + 1 \in K
  <2> SUFFICES ASSUME n + 1 <= m PROVE tr[n + 1] = ts[n + 1]
    OBVIOUS
  <2>1. tr[n] = ts[n] /\ n + 1 \in 1..m /\ (n + 1) - 1 = n
    BY <1>2
  <2> QED
    BY <2>1 DEF IsRun
<1>3. Nat \subseteq K
  <2> HIDE DEF K
  <2> QED
    BY <1>1, <1>2, NumberInduction
<1> QED
  BY <1>3

\* What CexIsValid says, of the run.
LEMMA AssertsIsHits ==
  ASSUME design \in Design, NEW ins \in Seq(Inputs), NEW o
  PROVE  Asserts(ins, o) <=> Hits(Zero, ins, o)
<1>1. CASE ins = <<>>
  BY <1>1 DEF Asserts, Hits
<1>2. CASE ins # <<>>
  <2> DEFINE m == Len(ins) - 1
             front == Front(ins)
  <2>1. m \in Nat /\ Len(ins) >= 1
    BY <1>2
  <2>2. front \in Seq(Inputs) /\ Len(front) = m /\ \A n \in 1..m : front[n] = ins[n]
    <3>1. front = SubSeq(ins, 1, m)
      BY DEF Front
    <3>2. m \in 0..Len(ins) /\ 1 \in 1..(m + 1)
      BY <2>1
    <3> HIDE DEF front, m
    <3> QED
      BY <2>1, <3>1, <3>2
  <2>3. Last(ins) = ins[Len(ins)]
    BY DEF Last
  <2> HIDE DEF m, front
  <2>4. PICK tr : IsRun(tr, Zero, front, m) /\ After(front) = tr[m]
    BY <2>2, AfterIsRun
  <2>5. IsRun(tr, Zero, ins, m)
    BY <2>2, <2>4 DEF IsRun
  <2>6. \A ts : IsRun(ts, Zero, ins, m) => ts[m] = tr[m]
    <3> SUFFICES ASSUME NEW ts, IsRun(ts, Zero, ins, m) PROVE ts[m] = tr[m]
      OBVIOUS
    <3>1. m \in 0..m
      BY <2>1
    <3> QED
      BY <2>1, <2>5, <3>1, RunsAgree
  <2>7. Asserts(ins, o) <=> <<tr[m], ins[Len(ins)]>> \in design.bad[o]
    BY <1>2, <2>3, <2>4 DEF Asserts, front
  <2> QED
    BY <2>1, <2>5, <2>6, <2>7 DEF Hits, m
<1> QED
  BY <1>1, <1>2

\* One input that asserts the output.
LEMMA HitsAtOnce ==
  ASSUME NEW s \in State, NEW i \in Inputs, NEW o, <<s, i>> \in design.bad[o]
  PROVE  Hits(s, <<i>>, o)
<1> DEFINE tr == [n \in 0..0 |-> s]
<1>1. Len(<<i>>) = 1 /\ <<i>>[1] = i
  OBVIOUS
<1>2. IsRun(tr, s, <<i>>, 0) /\ tr[0] = s
  BY DEF IsRun
<1> HIDE DEF tr
<1> QED
  BY <1>1, <1>2 DEF Hits

\* One input that leads to where others assert it.
LEMMA HitsLater ==
  ASSUME design \in Design, NEW s \in State, NEW i \in Inputs, NEW ins \in Seq(Inputs), NEW o,
         Hits(design.next[<<s, i>>], ins, o)
  PROVE  Hits(s, <<i>> \o ins, o)
<1> DEFINE m == Len(ins) - 1
           more == <<i>> \o ins
<1>1. m \in Nat
  BY DEF Hits
<1>2. PICK tr : /\ IsRun(tr, design.next[<<s, i>>], ins, m)
                /\ <<tr[m], ins[m + 1]>> \in design.bad[o]
  <2>1. m + 1 = Len(ins)
    BY <1>1
  <2> QED
    BY <2>1 DEF Hits
<1>3. Len(more) = m + 2 /\ more[1] = i /\ \A n \in 1..(m + 1) : more[n + 1] = ins[n]
  BY <1>1
<1> HIDE DEF m, more
<1> DEFINE ts == [n \in 0..(m + 1) |-> IF n = 0 THEN s ELSE tr[n - 1]]
<1>4. ts \in [0..(m + 1) -> State]
  BY <1>1, <1>2 DEF IsRun
<1>5. ASSUME NEW n \in 1..(m + 1) PROVE ts[n] = design.next[<<ts[n - 1], more[n]>>]
  <2>1. CASE n = 1
    <3>1. tr[0] = design.next[<<s, i>>]
      BY <1>2 DEF IsRun
    <3>2. ts[1] = tr[0] /\ ts[0] = s
      BY <1>1
    <3>3. ts[n] = ts[1] /\ ts[n - 1] = ts[0] /\ more[n] = i
      BY <1>3, <2>1
    <3> HIDE DEF ts
    <3> QED
      BY <3>1, <3>2, <3>3
  <2>2. CASE n # 1
    <3>1. n - 1 \in 1..m /\ (n - 1) + 1 = n /\ n - 1 \in 1..(m + 1)
      BY <1>1, <2>2
    <3>2. ts[n] = tr[n - 1] /\ ts[n - 1] = tr[(n - 1) - 1] /\ more[n] = ins[n - 1]
      BY <1>1, <1>3, <2>2, <3>1
    <3>3. tr[n - 1] = design.next[<<tr[(n - 1) - 1], ins[n - 1]>>]
      BY <1>2, <3>1 DEF IsRun
    <3> QED
      BY <3>2, <3>3
  <2> QED
    BY <2>1, <2>2
<1>6. ts[0] = s /\ ts[m + 1] = tr[m] /\ more[m + 2] = ins[m + 1]
  BY <1>1, <1>3
<1> HIDE DEF ts
<1>7. IsRun(ts, s, more, m + 1)
  BY <1>4, <1>5, <1>6 DEF IsRun
<1>8. Len(more) - 1 = m + 1 /\ Len(more) >= 1
  BY <1>1, <1>3
<1> QED
  BY <1>2, <1>3, <1>6, <1>7, <1>8 DEF Hits, more

\* A run from the initial state stays in the frames.
LEMMA RunInFrames ==
  ASSUME TypeOK, FramesHold, NEW ins \in Seq(Inputs), NEW m \in 0..iFrame, m <= Len(ins),
         NEW tr, IsRun(tr, Zero, ins, m)
  PROVE  tr[m] \in Frame(m)
<1> DEFINE K == {n \in Nat : n <= m => tr[n] \in Frame(n)}
<1>0. iFrame \in Nat
  BY DEF TypeOK
<1>1. 0 \in K
  BY DEF IsRun, Frame
<1>2. ASSUME NEW n \in Nat, n \in K PROVE n + 1 \in K
  <2> SUFFICES ASSUME n + 1 <= m PROVE tr[n + 1] \in Frame(n + 1)
    OBVIOUS
  <2>1. tr[n] \in Frame(n) /\ n + 1 \in 1..m /\ (n + 1) - 1 = n /\ n \in 0..(iFrame - 1)
    BY <1>0, <1>2
  <2>2. ins[n + 1] \in Inputs
    BY <1>0, <2>1
  <2>3. design.next[<<tr[n], ins[n + 1]>>] \in Frame(n + 1)
    BY <2>1, <2>2 DEF FramesHold
  <2> QED
    BY <2>1, <2>3 DEF IsRun
<1>3. Nat \subseteq K
  <2> HIDE DEF K
  <2> QED
    BY <1>1, <1>2, NumberInduction
<1> QED
  BY <1>0, <1>3

\* An output that is not asserted below the top has no counter-example that ends there.
LEMMA NoneShorter ==
  ASSUME TypeOK, FramesHold, NEW o \in Unsolved, NEW ins \in SeqOf(Inputs, iFrame)
  PROVE  ~Asserts(ins, o)
<1>0. iFrame \in Nat /\ design \in Design
  BY DEF TypeOK
<1>1. ins \in Seq(Inputs) /\ Len(ins) <= iFrame
  <2>1. PICK n \in 0..iFrame : ins \in [1..n -> Inputs]
    BY DEF SeqOf
  <2> QED
    BY <1>0, <2>1
<1> SUFFICES ASSUME Hits(Zero, ins, o) PROVE FALSE
  BY <1>0, <1>1, AssertsIsHits
<1> DEFINE m == Len(ins) - 1
<1>2. m \in 0..(iFrame - 1) /\ m \in 0..iFrame /\ m <= Len(ins) /\ Len(ins) \in 1..Len(ins)
  BY <1>0, <1>1 DEF Hits
<1>3. PICK tr : IsRun(tr, Zero, ins, m) /\ <<tr[m], ins[Len(ins)]>> \in design.bad[o]
  BY DEF Hits
<1>4. tr[m] \in Frame(m)
  BY <1>1, <1>2, <1>3, RunInFrames
<1>5. ins[Len(ins)] \in Inputs
  BY <1>1, <1>2
<1>6. Clear(m, o)
  BY <1>2 DEF FramesHold
<1> QED
  BY <1>3, <1>4, <1>5, <1>6 DEF Clear

-----------------------------------------------------------------------------
(* Proof obligations and counter-examples: the inductive invariant. *)

\* Obligations that are kept are only ever used for one output.
ReuseAlone(d, p) ==
  p.fReuseProofOblig =>
    \A o, q \in Outs : d.bad[o] # {} /\ d.bad[q] # {} => o = q

\* No obligation is left when the search turns to something else.
NoneKept == ~par.fReuseProofOblig \/ par.fShortest

\* From the states of an obligation its inputs assert the output; in frame 0 they do
\* so from the initial state.
LeadsTo(ob, o) ==
  /\ \A s \in States(ob.pState) : Hits(s, ob.ins, o)
  /\ ob.iFrame = 0 => Hits(Zero, ob.ins, o)

ObligationInv ==
  /\ F[0] \subseteq {Zero}
  /\ ReuseAlone(design, par)
  /\ pc = "block" =>
       /\ iOutCur \in Unsolved /\ design.bad[iOutCur] # {}
       /\ \A ob \in pQueue : LeadsTo(ob, iOutCur)
       /\ NoneKept => \A ob \in pQueue : ob.iFrame <= iFrame
       /\ par.fShortest => \A ob \in pQueue : ob.iFrame + Len(ob.ins) = iFrame + 1
  /\ pc \notin {"block", "done"} =>
       /\ NoneKept => pQueue = {}
       /\ \A ob \in pQueue, o \in Outs : design.bad[o] # {} => LeadsTo(ob, o)

CexInv == vCexes \in [Outs -> Seq(Inputs)] /\ CexIsTrace

TraceInv == ObligationInv /\ CexInv

\* Both notions are about the design alone.
LEMMA LeadsKept ==
  ASSUME UNCHANGED design
  PROVE  \A ob, o : LeadsTo(ob, o)' <=> LeadsTo(ob, o)
<1>1. ASSUME NEW s, NEW ins, NEW m, NEW tr PROVE IsRun(tr, s, ins, m)' <=> IsRun(tr, s, ins, m)
  BY DEF IsRun
<1>2. ASSUME NEW s, NEW ins, NEW o PROVE Hits(s, ins, o)' <=> Hits(s, ins, o)
  BY <1>1 DEF Hits
<1> QED
  BY <1>2 DEF LeadsTo

AfterIn(d, ins) == FoldLeft(LAMBDA s, i : d.next[<<s, i>>], Zero, ins)

LEMMA AssertsKept ==
  ASSUME UNCHANGED design
  PROVE  \A ins, o : Asserts(ins, o)' <=> Asserts(ins, o)
<1>1. \A ins : After(ins) = AfterIn(design, ins)
  BY DEF After, AfterIn
<1>2. \A ins : After(ins)' = AfterIn(design', ins)
  BY DEF After, AfterIn, FoldLeft, MapThenFoldSet, Max
<1>3. \A ins : After(ins)' = After(ins)
  BY <1>1, <1>2
<1> QED
  BY <1>3 DEF Asserts

\* What is reported, and the design it is reported of.
LEMMA CexKept ==
  ASSUME CexInv, UNCHANGED <<design, par, vCexes>>,
         \A o \in Outs : vOutMap'[o] = FAILS => vOutMap[o] = FAILS
  PROVE  CexInv'
<1>1. \A ins, o : Asserts(ins, o)' <=> Asserts(ins, o)
  BY AssertsKept
<1> QED
  BY <1>1 DEF CexInv, CexIsTrace, CexIsValid

\* Some of the obligations, for the same output.
LEMMA ObligationsKept ==
  ASSUME ObligationInv, pc = "block", pc' = "block",
         UNCHANGED <<design, par, iFrame, iOutCur, vOutMap>>, pQueue' \subseteq pQueue, F'[0] \subseteq F[0]
  PROVE  ObligationInv'
<1>1. \A ob, o : LeadsTo(ob, o)' <=> LeadsTo(ob, o)
  BY LeadsKept
<1> QED
  BY <1>1 DEF ObligationInv, NoneKept, Unsolved

\* No obligation is left.
LEMMA ObligationsGone ==
  ASSUME ObligationInv, pc' # "block", UNCHANGED <<design, par>>, pQueue' = {}, F'[0] \subseteq F[0]
  PROVE  ObligationInv'
  BY DEF ObligationInv

\* They are put off.
LEMMA ObligationsPutOff ==
  ASSUME ObligationInv, pc \notin {"block", "done"}, pc' # "block",
         UNCHANGED <<design, par, pQueue>>, F'[0] \subseteq F[0]
  PROVE  ObligationInv'
<1>1. \A ob, o : LeadsTo(ob, o)' <=> LeadsTo(ob, o)
  BY LeadsKept
<1> QED
  BY <1>1 DEF ObligationInv, NoneKept

\* One more for the output at hand.
LEMMA ObligationAdded ==
  ASSUME TypeOK, ObligationInv, pc \in {"output", "block"}, pc' = "block",
         UNCHANGED <<design, par, iFrame, iOutCur, vOutMap, F>>,
         iOutCur \in Unsolved, design.bad[iOutCur] # {},
         NEW new, pQueue' \subseteq pQueue \union {new},
         LeadsTo(new, iOutCur),
         NoneKept => new.iFrame <= iFrame,
         par.fShortest => new.iFrame + Len(new.ins) = iFrame + 1
  PROVE  ObligationInv'
<1>1. iOutCur \in Outs
  BY DEF TypeOK
<1>2. \A ob \in pQueue' : LeadsTo(ob, iOutCur)
  BY <1>1 DEF ObligationInv
<1>3. NoneKept => \A ob \in pQueue' : ob.iFrame <= iFrame
  BY DEF ObligationInv
<1>4. par.fShortest => \A ob \in pQueue' : ob.iFrame + Len(ob.ins) = iFrame + 1
  BY DEF ObligationInv, NoneKept
<1>5. \A ob \in pQueue' : LeadsTo(ob, iOutCur)'
  BY <1>2, LeadsKept
<1> QED
  BY <1>3, <1>4, <1>5 DEF ObligationInv, NoneKept, Unsolved

\* The first obligation of an output.
LEMMA RootLeads ==
  ASSUME TypeOK, F[0] \subseteq {Zero},
         NEW x \in Failing(iFrame, iOutCur),
         NEW c \in TernarySim(x[1], Asserting(iOutCur, x[2]))
  PROVE  LeadsTo([iFrame |-> iFrame, pState |-> c, ins |-> <<x[2]>>], iOutCur)
<1>1. /\ x \in State \X Inputs /\ x \in design.bad[iOutCur] /\ x[1] \in F[iFrame]
      /\ x = <<x[1], x[2]>>
  BY DEF Failing, Allowed, TypeOK
<1>2. \A s \in States(c) : Hits(s, <<x[2]>>, iOutCur)
  <2>1. States(c) \subseteq Asserting(iOutCur, x[2])
    BY <1>1, TernaryHits
  <2> QED
    BY <1>1, <2>1, HitsAtOnce DEF Asserting
<1>3. iFrame = 0 => Hits(Zero, <<x[2]>>, iOutCur)
  BY <1>1, HitsAtOnce
<1> QED
  BY <1>2, <1>3 DEF LeadsTo

\* The obligation of a predecessor.
LEMMA PredecessorLeads ==
  ASSUME TypeOK, F[0] \subseteq {Zero}, NEW o, NEW ob \in pQueue, ob.iFrame \in 1..iFrame,
         LeadsTo(ob, o),
         NEW x \in Reaching(ob.iFrame - 1, ob.pState, ob.pState),
         NEW c \in TernarySim(x[1], Stepping(ob.pState, x[2]))
  PROVE  LeadsTo([iFrame |-> ob.iFrame - 1, pState |-> c, ins |-> <<x[2]>> \o ob.ins], o)
<1>1. /\ x \in State \X Inputs /\ design.next[x] \in States(ob.pState)
      /\ x[1] \in F[ob.iFrame - 1] /\ x = <<x[1], x[2]>>
  BY DEF Reaching, Allowed, TypeOK
<1>2. ob.ins \in Seq(Inputs) /\ design \in Design
  BY DEF TypeOK
<1>3. ASSUME NEW s \in Stepping(ob.pState, x[2]) PROVE Hits(s, <<x[2]>> \o ob.ins, o)
  <2>1. s \in State /\ Hits(design.next[<<s, x[2]>>], ob.ins, o)
    BY DEF Stepping, LeadsTo
  <2> QED
    BY <1>1, <1>2, <2>1, HitsLater
<1>4. States(c) \subseteq Stepping(ob.pState, x[2])
  BY <1>1, TernaryHits
<1>5. x[1] \in Stepping(ob.pState, x[2])
  BY <1>1 DEF Stepping
<1>6. ob.iFrame - 1 = 0 => Zero \in Stepping(ob.pState, x[2])
  BY <1>1, <1>5
<1> QED
  BY <1>3, <1>4, <1>6 DEF LeadsTo

LEMMA TraceInit ==
  ASSUME \A x \in Cases : ReuseAlone(x[1], x[2]), Init
  PROVE  TraceInv
<1>1. ReuseAlone(design, par)
  BY DEF Init
<1>2. ObligationInv
  BY <1>1 DEF Init, ObligationInv
<1>3. CexInv
  BY DEF Init, CexInv, CexIsTrace, CexIsValid, NoCex, UNKNOWN, FAILS
<1> QED
  BY <1>2, <1>3 DEF TraceInv

\* The obligation that ends the search for an output is a counter-example, and with
\* fShortest the frames below the top leave room for no shorter one.
LEMMA CexStep == ASSUME IInv, TraceInv, CexFound PROVE TraceInv'
<1> USE DEF IInv, TraceInv
<1>1. /\ pc = "block" /\ iOutCur \in Outs /\ UNCHANGED <<design, par, iFrame, F>>
      /\ iOutCur \in Unsolved
  BY DEF CexFound, fixed, solvers, TypeOK, ObligationInv
<1>2. PICK ob \in pQueue : ob.iFrame = 0 /\ vCexes' = [vCexes EXCEPT ![iOutCur] = ob.ins]
  BY DEF CexFound, Heads
<1>3. ob.ins \in Seq(Inputs) /\ design \in Design /\ iFrame \in Nat
  BY DEF TypeOK
<1>4. Asserts(ob.ins, iOutCur)
  BY <1>1, <1>2, <1>3, AssertsIsHits DEF ObligationInv, LeadsTo
<1>5. par.fShortest => \A ins \in SeqOf(Inputs, Len(ob.ins) - 1) : ~Asserts(ins, iOutCur)
  <2>1. par.fShortest => Len(ob.ins) - 1 = iFrame
    BY <1>1, <1>2, <1>3 DEF ObligationInv
  <2> QED
    BY <1>1, <2>1, NoneShorter
<1>6. vOutMap' = [vOutMap EXCEPT ![iOutCur] = FAILS]
  BY DEF CexFound
<1>7. \A ins, o : Asserts(ins, o)' <=> Asserts(ins, o)
  BY <1>1, AssertsKept
<1>8. vCexes' \in [Outs -> Seq(Inputs)] /\ vCexes'[iOutCur] = ob.ins
  BY <1>1, <1>2, <1>3 DEF CexInv
<1>9. \A o \in Outs : o # iOutCur => vCexes'[o] = vCexes[o] /\ vOutMap'[o] = vOutMap[o]
  BY <1>2, <1>6 DEF CexInv, TypeOK
<1>10. CexIsTrace'
  BY <1>1, <1>4, <1>5, <1>7, <1>8, <1>9 DEF CexInv, CexIsTrace, CexIsValid
<1>11. ObligationInv'
  <2>1. CASE pc' = "done"
    BY <1>1, <2>1 DEF ObligationInv
  <2>2. CASE pQueue' = {} /\ NextOutput
    <3>1. pc' # "block"
      BY <2>2 DEF NextOutput
    <3> QED
      BY <1>1, <2>2, <3>1, ObligationsGone
  <2> QED
    BY <2>1, <2>2 DEF CexFound
<1> QED
  BY <1>8, <1>10, <1>11 DEF CexInv

\* Every other step.
LEMMA TraceStep == ASSUME IInv, TraceInv, [Next]_vars PROVE TraceInv'
<1> USE DEF TraceInv
<1>0. TypeOK
  BY DEF IInv
<1>n. ASSUME NextOutput PROVE pc' \in {"output", "frame"}
  BY <1>n DEF NextOutput
<1>c. ASSUME UNCHANGED <<fixed, results>> PROVE CexInv'
  BY <1>c, CexKept DEF fixed, results
<1>1. CASE SkipOutput \/ OutputHolds
  <2>1. UNCHANGED <<fixed, solvers, queue, results>> /\ pc = "output" /\ pc' \in {"output", "frame"}
    BY <1>1, <1>n DEF SkipOutput, OutputHolds
  <2> QED
    BY <1>c, <2>1, ObligationsPutOff DEF fixed, solvers, queue
<1>2. CASE OutputFails
  <2>1. PICK x \in Failing(iFrame, iOutCur) :
          \E c \in TernarySim(x[1], Asserting(iOutCur, x[2])) :
            pQueue' = pQueue \union {[iFrame |-> iFrame, pState |-> c, ins |-> <<x[2]>>]}
    BY <1>2 DEF OutputFails
  <2>2. PICK c \in TernarySim(x[1], Asserting(iOutCur, x[2])) :
          pQueue' = pQueue \union {[iFrame |-> iFrame, pState |-> c, ins |-> <<x[2]>>]}
    BY <2>1
  <2> DEFINE new == [iFrame |-> iFrame, pState |-> c, ins |-> <<x[2]>>]
  <2>3. /\ UNCHANGED <<design, par, iFrame, iOutCur, vOutMap, F>> /\ iOutCur \in Unsolved
        /\ pc = "output" /\ pc' = "block" /\ UNCHANGED <<fixed, results>>
    BY <1>2 DEF OutputFails, fixed, solvers, results
  <2>4. LeadsTo(new, iOutCur)
    BY <1>0, RootLeads DEF ObligationInv
  <2>5. design.bad[iOutCur] # {}
    BY DEF Failing
  <2>6. new.iFrame <= iFrame /\ new.iFrame + Len(new.ins) = iFrame + 1 /\ pQueue' = pQueue \union {new}
    BY <1>0, <2>2 DEF TypeOK
  <2> HIDE DEF new
  <2>7. ObligationInv'
    BY <1>0, <2>3, <2>4, <2>5, <2>6, ObligationAdded
  <2> QED
    BY <1>c, <2>3, <2>7
<1>3. CASE CexFound
  BY <1>3, CexStep
<1>4. CASE LevelBlocked
  <2>1. /\ UNCHANGED <<fixed, solvers, queue, results, iFrame, iOutCur>> /\ pc = "block" /\ pc' = "output"
        /\ \A ob \in pQueue : ob.iFrame > iFrame
    BY <1>4 DEF LevelBlocked
  <2>2. NoneKept => pQueue = {}
    BY <1>0, <2>1 DEF ObligationInv, TypeOK
  <2>3. \A ob \in pQueue, o \in Outs : design.bad[o] # {} => LeadsTo(ob, o)
    <3> SUFFICES ASSUME NEW ob \in pQueue, NEW o \in Outs, design.bad[o] # {}
                 PROVE  LeadsTo(ob, o)
      OBVIOUS
    <3>1. par.fReuseProofOblig
      BY <2>2 DEF NoneKept
    <3>2. iOutCur \in Outs /\ design.bad[iOutCur] # {}
      BY <1>0, <2>1 DEF ObligationInv, TypeOK
    <3>3. o = iOutCur
      BY <3>1, <3>2 DEF ObligationInv, ReuseAlone
    <3> QED
      BY <2>1, <3>3 DEF ObligationInv
  <2>4. /\ UNCHANGED <<design, par, pQueue, F>>
    BY <2>1 DEF fixed, solvers, queue
  <2>5. \A ob \in pQueue, o \in Outs : LeadsTo(ob, o)' <=> LeadsTo(ob, o)
    BY <2>4, LeadsKept
  <2>6. ObligationInv'
    BY <2>1, <2>2, <2>3, <2>4, <2>5 DEF ObligationInv, NoneKept
  <2> QED
    BY <1>c, <2>1, <2>6
<1>5. CASE Restart
  <2>1. UNCHANGED <<fixed, solvers, results>> /\ pQueue' = {} /\ pc' = "output"
    BY <1>5 DEF Restart
  <2> QED
    BY <1>c, <2>1, ObligationsGone DEF fixed, solvers
<1>6. CASE DropObligation
  <2>1. /\ UNCHANGED <<fixed, solvers, results, iFrame, iOutCur, pc>> /\ pc = "block"
        /\ pQueue' \subseteq pQueue
    BY <1>6 DEF DropObligation, Popped
  <2> QED
    BY <1>c, <2>1, ObligationsKept DEF fixed, solvers, results
<1>7. CASE BlockObligation
  <2>0. PICK ob \in Heads :
          /\ Popped(ob)
          /\ \E c \in Generalize(ob.iFrame - 1, ob.pState), last \in ob.iFrame..iFrame :
               /\ F' = [j \in DOMAIN F |-> IF j \in 1..last THEN F[j] \ States(c) ELSE F[j]]
               /\ pQueue' = (pQueue \ {ob}) \union
                    (IF (last < iFrame \/ par.fReuseProofOblig) /\ ~par.fShortest
                       THEN {[ob EXCEPT !.iFrame = last + 1]} ELSE {})
    BY <1>7 DEF BlockObligation
  <2>1. PICK last \in ob.iFrame..iFrame :
          /\ ob.iFrame \in 1..iFrame /\ ob \in pQueue
          /\ F'[0] = F[0]
          /\ pQueue' = (pQueue \ {ob}) \union
               (IF (last < iFrame \/ par.fReuseProofOblig) /\ ~par.fShortest
                  THEN {[ob EXCEPT !.iFrame = last + 1]} ELSE {})
    <3>1. ob \in pQueue /\ ob.iFrame \in 1..iFrame
      BY <2>0 DEF Popped, Heads
    <3>2. 0 \in DOMAIN F
      BY <1>0 DEF TypeOK
    <3>3. \A c, last : F' = [j \in DOMAIN F |-> IF j \in 1..last THEN F[j] \ States(c) ELSE F[j]]
                         => F'[0] = F[0]
      BY <3>2
    <3>4. PICK c \in Generalize(ob.iFrame - 1, ob.pState), last \in ob.iFrame..iFrame :
            /\ F' = [j \in DOMAIN F |-> IF j \in 1..last THEN F[j] \ States(c) ELSE F[j]]
            /\ pQueue' = (pQueue \ {ob}) \union
                 (IF (last < iFrame \/ par.fReuseProofOblig) /\ ~par.fShortest
                    THEN {[ob EXCEPT !.iFrame = last + 1]} ELSE {})
      BY <2>0
    <3>5. F'[0] = F[0]
      BY <3>3, <3>4
    <3> QED
      BY Zenon, <3>1, <3>4, <3>5
  <2>2. /\ UNCHANGED <<design, par, iFrame, iOutCur, vOutMap>> /\ pc = "block" /\ pc' = "block"
        /\ UNCHANGED <<fixed, results>>
    BY <1>7 DEF BlockObligation, Popped, fixed, results
  <2> DEFINE new == [ob EXCEPT !.iFrame = last + 1]
  <2>3. ob \in [iFrame : 0..(iFrame + 1), pState : Cube, ins : Seq(Inputs)] /\ iFrame \in Nat
    BY <1>0, <2>1 DEF TypeOK
  <2>4. new.iFrame = last + 1 /\ new.pState = ob.pState /\ new.ins = ob.ins /\ last + 1 >= 1
    BY <2>1, <2>3
  <2>5. LeadsTo(ob, iOutCur) /\ iOutCur \in Unsolved /\ design.bad[iOutCur] # {}
    BY <2>1, <2>2 DEF ObligationInv
  <2>6. CASE (last < iFrame \/ par.fReuseProofOblig) /\ ~par.fShortest
    <3>1. pQueue' \subseteq pQueue \union {new}
      BY <2>1, <2>6
    <3>2. LeadsTo(new, iOutCur)
      BY <2>4, <2>5 DEF LeadsTo
    <3>3. NoneKept => new.iFrame <= iFrame
      BY <2>1, <2>3, <2>4, <2>6 DEF NoneKept
    <3> HIDE DEF new
    <3>4. ObligationInv'
      <4>1. \A ob2 \in pQueue' : LeadsTo(ob2, iOutCur)'
        BY <2>2, <3>1, <3>2, LeadsKept DEF ObligationInv
      <4> QED
        BY <2>1, <2>2, <2>5, <2>6, <3>1, <3>3, <4>1 DEF ObligationInv, NoneKept, Unsolved
    <3> QED
      BY <1>c, <2>2, <3>4
  <2>7. CASE ~((last < iFrame \/ par.fReuseProofOblig) /\ ~par.fShortest)
    <3>1. pQueue' \subseteq pQueue
      BY <2>1, <2>7
    <3>2. ObligationInv'
      BY <2>1, <2>2, <3>1, ObligationsKept
    <3> QED
      BY <1>c, <2>2, <3>2
  <2> QED
    BY <2>6, <2>7
<1>8. CASE FindPredecessor
  <2>1. PICK ob \in Heads :
          /\ Popped(ob)
          /\ \E x \in Reaching(ob.iFrame - 1, ob.pState, ob.pState) :
               \E c \in TernarySim(x[1], Stepping(ob.pState, x[2])) :
                 pQueue' = pQueue \union {[iFrame |-> ob.iFrame - 1, pState |-> c,
                                           ins |-> <<x[2]>> \o ob.ins]}
    BY <1>8 DEF FindPredecessor
  <2>2. PICK x \in Reaching(ob.iFrame - 1, ob.pState, ob.pState) :
          \E c \in TernarySim(x[1], Stepping(ob.pState, x[2])) :
            pQueue' = pQueue \union {[iFrame |-> ob.iFrame - 1, pState |-> c,
                                      ins |-> <<x[2]>> \o ob.ins]}
    BY <2>1
  <2>3. PICK c \in TernarySim(x[1], Stepping(ob.pState, x[2])) :
          pQueue' = pQueue \union {[iFrame |-> ob.iFrame - 1, pState |-> c,
                                    ins |-> <<x[2]>> \o ob.ins]}
    BY <2>2
  <2> DEFINE new == [iFrame |-> ob.iFrame - 1, pState |-> c, ins |-> <<x[2]>> \o ob.ins]
  <2>4. /\ UNCHANGED <<design, par, iFrame, iOutCur, vOutMap, F>> /\ pc = "block"
        /\ pc' = "block" /\ UNCHANGED <<fixed, results>>
    BY <1>8 DEF FindPredecessor, Popped, fixed, solvers, results
  <2>5. ob \in pQueue /\ ob.iFrame \in 1..iFrame /\ ob.ins \in Seq(Inputs) /\ iFrame \in Nat
    BY <1>0, <2>1 DEF Heads, Popped, TypeOK
  <2>6. LeadsTo(ob, iOutCur) /\ iOutCur \in Unsolved /\ design.bad[iOutCur] # {}
    BY <2>4, <2>5 DEF ObligationInv
  <2>7. LeadsTo(new, iOutCur)
    BY <1>0, <2>5, <2>6, PredecessorLeads DEF ObligationInv
  <2>8. /\ new.iFrame = ob.iFrame - 1 /\ new.iFrame <= iFrame
        /\ new.iFrame + Len(new.ins) = ob.iFrame + Len(ob.ins)
    <3>1. x[2] \in Inputs
      BY <1>0 DEF Reaching, Allowed
    <3>2. Len(<<x[2]>> \o ob.ins) = 1 + Len(ob.ins) /\ Len(ob.ins) \in Nat
      BY <2>5, <3>1
    <3> QED
      BY <2>5, <3>2
  <2>9. par.fShortest => new.iFrame + Len(new.ins) = iFrame + 1
    BY <2>4, <2>5, <2>8 DEF ObligationInv
  <2>10. pQueue' \subseteq pQueue \union {new}
    BY <2>3
  <2> HIDE DEF new
  <2>11. ObligationInv'
    BY <1>0, <2>4, <2>6, <2>7, <2>8, <2>9, <2>10, ObligationAdded
  <2> QED
    BY <1>c, <2>4, <2>11
<1>9. CASE OpenFrame
  <2>1. UNCHANGED <<fixed, pQueue, results>> /\ pc = "frame" /\ pc' = "push" /\ F'[0] = F[0]
    BY <1>0, <1>9 DEF OpenFrame, TypeOK
  <2> QED
    BY <1>c, <2>1, ObligationsPutOff DEF fixed
<1>10. CASE PushCube
  <2>1. UNCHANGED <<fixed, queue, results>> /\ pc = "push" /\ pc' = "push"
    BY <1>10 DEF PushCube
  <2>2. F'[0] = F[0]
    <3>1. k + 1 # 0 /\ F \in [0..iFrame -> SUBSET State] /\ iFrame \in Nat
      BY <1>0 DEF TypeOK
    <3>2. UNCHANGED F \/ \E S : F' = [F EXCEPT ![k + 1] = S]
      BY <1>10 DEF PushCube
    <3> QED
      BY <3>1, <3>2
  <2> QED
    BY <1>c, <2>1, <2>2, ObligationsPutOff DEF fixed, queue
<1>11. CASE NextLevel
  <2>1. UNCHANGED <<fixed, solvers, queue, results>> /\ pc = "push" /\ pc' = "push"
    BY <1>11 DEF NextLevel
  <2> QED
    BY <1>c, <2>1, ObligationsPutOff DEF fixed, solvers, queue
<1>12. CASE LastLevel
  <2>1. UNCHANGED <<fixed, solvers, pQueue, vCexes>> /\ pc = "push" /\ pc' \in {"done", "output"}
    BY <1>12 DEF LastLevel
  <2>2. \A o \in Outs : vOutMap'[o] = FAILS => vOutMap[o] = FAILS
    BY <1>12 DEF LastLevel, FAILS, PROVED
  <2> QED
    BY <2>1, <2>2, CexKept, ObligationsPutOff DEF fixed, solvers
<1>13. CASE OutputTimesOut
  <2>1. /\ UNCHANGED <<fixed, solvers, vCexes>> /\ pc' \in {"output", "frame"}
        /\ vOutMap' = [vOutMap EXCEPT ![iOutCur] = UNDEC]
        /\ pQueue' = {} \/ (pc = "output" /\ UNCHANGED pQueue)
    BY <1>13, <1>n DEF OutputTimesOut
  <2>2. \A o \in Outs : vOutMap'[o] = FAILS => vOutMap[o] = FAILS
    BY <1>0, <2>1 DEF TypeOK, FAILS, UNDEC
  <2> QED
    BY <2>1, <2>2, CexKept, ObligationsPutOff, ObligationsGone DEF fixed, solvers
<1>14. CASE Stop
  <2>1. /\ UNCHANGED <<fixed, solvers, vCexes>> /\ pc' = "done"
        /\ \A o \in Outs : vOutMap'[o] = FAILS => vOutMap[o] = FAILS
    BY <1>14 DEF Stop, UNDEC, FAILS
  <2> QED
    BY <2>1, CexKept DEF fixed, solvers, ObligationInv
<1>15. ASSUME NEW j \in DOMAIN F, FetchSolver(j) PROVE TraceInv'
  <2>1. /\ UNCHANGED <<fixed, pc, iFrame, iOutCur, queue, results>> /\ pc \in {"block", "push"}
        /\ F'[0] = F[0]
    BY <1>0, <1>15 DEF FetchSolver, TypeOK
  <2> QED
    BY <1>c, <2>1, ObligationsKept, ObligationsPutOff DEF fixed, queue, results
<1>16. CASE UNCHANGED vars
  <2>1. UNCHANGED <<fixed, pc, iFrame, iOutCur, F, pQueue, results, vOutMap>>
    BY <1>16 DEF vars, fixed, results
  <2>2. CASE pc = "block"
    BY <1>c, <2>1, <2>2, ObligationsKept DEF fixed
  <2>3. CASE pc = "done"
    BY <1>c, <2>1, <2>3 DEF fixed, ObligationInv
  <2>4. CASE pc \notin {"block", "done"}
    BY <1>c, <2>1, <2>4, ObligationsPutOff DEF fixed
  <2> QED
    BY <2>2, <2>3, <2>4
<1> QED
  BY <1>1, <1>2, <1>3, <1>4, <1>5, <1>6, <1>7, <1>8, <1>9, <1>10, <1>11, <1>12,
     <1>13, <1>14, <1>15, <1>16 DEF Next, Step

\* "CEX for output %d is not valid" is never printed, and with fShortest no shorter
\* counter-example exists, provided that obligations are kept (fReuseProofOblig) only
\* if no two outputs can be asserted: otherwise one output's obligation answers for
\* another.
THEOREM Traces ==
  ASSUME \A x \in Cases : ReuseAlone(x[1], x[2])
  PROVE  Spec => []CexIsTrace
<1>1. Init => TraceInv
  BY TraceInit
<1>2. IInv /\ TraceInv /\ [Next]_vars => TraceInv'
  BY TraceStep
<1>3. TraceInv => CexIsTrace
  BY DEF TraceInv, CexInv
<1> QED
  BY <1>1, <1>2, <1>3, Invariant, PTL DEF Spec
================================================================================
