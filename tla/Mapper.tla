------------------------------- MODULE Mapper --------------------------------
(***************************************************************************)
(* The covering that technology mapping builds, and the reference counters *)
(* it is improved with (map/mapper: mapperCore.c, mapperMatch.c,           *)
(* mapperRefs.c).                                                          *)
(*                                                                         *)
(* Every AND node may be implemented in each phase (0 negative, 1          *)
(* positive) by a gate: a match.  Passes over the nodes in topological     *)
(* order choose the matches: for delay (mode 0), for area flow (mode 1)    *)
(* and for exact area (modes 2 and 3).  A phase without a match is made by *)
(* an inverter from the other one.  The exact modes measure a gate by      *)
(* referencing and dereferencing it in the current covering, so their      *)
(* choices are only as good as the counters are.                           *)
(*                                                                         *)
(* A match is the pins it needs (node and phase) and the area of its gate. *)
(* Timing decides which matches are admitted; here any may be, except the  *)
(* ones the area comparison rejects.                                       *)
(***************************************************************************)
EXTENDS Integers, FiniteSets, SequencesExt

CONSTANTS
  Circuits,    \* [ins, last, outs, matches]: inputs are the nodes 1..ins, AND
               \* nodes ins+1..last, outs a sequence of pins
  AreaInv,     \* area of the inverter
  nTrials      \* good_itera_num

Phases == {0, 1}

\* A circuit has something to map; a match of a node is connected to lower nodes.
ASSUME MapperConstants ==
  /\ AreaInv \in Nat /\ nTrials \in Nat
  /\ \A c \in Circuits :
       /\ c.ins \in Nat /\ c.last \in Nat /\ c.ins < c.last
       /\ c.outs \in Seq((1..c.last) \X Phases)
       /\ \A n \in (c.ins + 1)..c.last, p \in Phases :
            c.matches[n][p] \subseteq
              [leaves : SUBSET ((1..(n - 1)) \X Phases), area : Nat]

VARIABLES
  circuit,
  mpc,
  fMappingMode,
  trial,       \* how many runs with trial delay parameters are over
  node,        \* the node Map_MappingMatches is at
  step,        \* 0, 1: matching that phase; 2: dropping a phase
  pCutBest,    \* the match of each node and phase
  nRefAct,     \* the counters of each node's phases; nRefAct[2] is their sum
  AreaFinal,   \* the last Map_MappingGetArea (estArea in a trial run)
  exact        \* history: the counters were the true ones then

vars == <<circuit, mpc, fMappingMode, trial, node, step, pCutBest, nRefAct,
          AreaFinal, exact>>

None == [leaves |-> {}, area |-> -1]          \* NULL
Elementary == [leaves |-> {}, area |-> 0]     \* the cut of an input

Nodes == 1..circuit.last
Ands  == (circuit.ins + 1)..circuit.last
Matches(n, p) == circuit.matches[n][p]

\* The nodes, outputs first.
Down == [k \in Nodes |-> circuit.last + 1 - k]

NoRefs == [n \in Nodes |-> [p \in Phases |-> 0]]
NoCuts == [n \in Nodes |-> [p \in Phases |->
             IF n \in Ands \/ p = 0 THEN None ELSE Elementary]]

Total(r, n) == r[n][0] + r[n][1]
Both(c, n) == c[n][0] # None /\ c[n][1] # None


-----------------------------------------------------------------------------
(* References.  The code recurses from a gate to the gates of its leaves;   *)
(* here the nodes are visited outputs first, so that a node has all the     *)
(* references it gets from above when its own gate is looked at.            *)

\* d more references to each pin of a match
Count(r, m, d) == [n \in Nodes |-> [p \in Phases |->
                     IF <<n, p>> \in m.leaves THEN r[n][p] + d ELSE r[n][p]]]

\* Whether the gate of a node in a phase comes into use or falls out of use
\* between the counters r and s: with one gate the node counts as a whole.
Turns(c, r, s, n, p) ==
  /\ c[n][p] # None
  /\ IF Both(c, n) THEN (r[n][p] = 0) # (s[n][p] = 0)
                   ELSE (Total(r, n) = 0) # (Total(s, n) = 0)

\* Map_CutRefDeref: the counters after referencing (d = 1) or dereferencing
\* (d = -1) a match in the covering c
CutRefDeref(c, r, m, d) ==
  LET Gate(s, n, p) == IF Turns(c, r, s, n, p) THEN Count(s, c[n][p], d) ELSE s
  IN  FoldLeft(LAMBDA s, n : Gate(Gate(s, n, 0), n, 1), Count(r, m, d), Down)

CutRef(c, r, m)   == CutRefDeref(c, r, m, 1)

\* Mutant: only the leaves themselves are dereferenced.
CutDerefLeaves(c, r, m) == Count(r, m, -1)

CutDeref(c, r, m) == CutRefDeref(c, r, m, -1)

\* ... and the area it returns: of the gate itself, and of the gates and
\* inverters that turn.
CutArea(c, r, s, m) ==
  m.area + MapThenSumSet(
    LAMBDA np : LET n == np[1] p == np[2]
                IN  IF Turns(c, r, s, n, p) THEN c[n][p].area
                    ELSE IF c[n][p] = None /\ (r[n][p] = 0) # (s[n][p] = 0)
                         THEN AreaInv ELSE 0,
    Nodes \X Phases)

\* Mutant: the gates that come into use are not counted.
AreaOfGate(c, r, m) == m.area

\* Map_CutGetAreaDerefed: reference, then dereference
AreaDerefed(c, r, m) == CutArea(c, r, CutRef(c, r, m), m)

OutputRefs == [n \in Nodes |-> [p \in Phases |->
                 Cardinality({i \in DOMAIN circuit.outs : circuit.outs[i] = <<n, p>>})]]

\* Mutant: a phase made by an inverter uses no gate.
GateOfPhase(c, n, p) == c[n][p]

\* The gate a phase is made with
GateFor(c, n, p) == IF c[n][p] # None THEN c[n][p] ELSE c[n][1 - p]

\* Map_MappingSetRefs: a node is visited once in each phase it is used in.
SetRefs(c) ==
  LET Visit(s, n, p) == IF s[n][p] > 0 THEN Count(s, GateFor(c, n, p), 1) ELSE s
  IN  FoldLeft(LAMBDA s, n : Visit(Visit(s, n, 0), n, 1), OutputRefs, Down)

\* Map_MappingGetArea
GetArea(c, r) ==
  MapThenSumSet(
    LAMBDA np : LET n == np[1] p == np[2]
                IN  IF Total(r, n) = 0 THEN 0
                    ELSE IF c[n][p] = None THEN (IF r[n][p] > 0 THEN AreaInv ELSE 0)
                    ELSE IF r[n][p] > 0 \/ c[n][1 - p] = None THEN c[n][p].area ELSE 0,
    Nodes \X Phases)

-----------------------------------------------------------------------------
(* What the counters stand for: the pins that the gates of the covering,   *)
(* each built once, and the outputs are connected to.                      *)
Built(c, s, n, p) ==
  c[n][p] # None /\ (s[n][p] > 0 \/ (c[n][1 - p] = None /\ s[n][1 - p] > 0))

TrueRefs(c) ==
  LET Build(s, n, p) == IF Built(c, s, n, p) THEN Count(s, c[n][p], 1) ELSE s
  IN  FoldLeft(LAMBDA s, n : Build(Build(s, n, 0), n, 1), OutputRefs, Down)

TrueArea(c) ==
  LET s == TrueRefs(c)
  IN  MapThenSumSet(LAMBDA np : IF Built(c, s, np[1], np[2]) THEN c[np[1]][np[2]].area
                                ELSE IF c[np[1]][np[2]] = None /\ s[np[1]][np[2]] > 0
                                THEN AreaInv ELSE 0,
                    Nodes \X Phases)

-----------------------------------------------------------------------------
Init ==
  /\ circuit \in Circuits
  /\ mpc = "match" /\ fMappingMode = 0 /\ trial = 0
  /\ node = circuit.ins + 1 /\ step = 0
  /\ pCutBest = NoCuts
  /\ nRefAct = NoRefs
  /\ AreaFinal = 0
  /\ exact = FALSE

\* Map_MatchNodePhase, mapping for delay or area flow: the counters play no
\* part.  A phase that has lost its match stays without after the first pass.
MatchByFlow ==
  /\ mpc = "match" /\ step \in Phases
  /\ fMappingMode \in {0, 1}
  /\ \E m \in Matches(node, step) \union {None} :
       /\ IF fMappingMode = 0 THEN m = None => Matches(node, step) = {}
                              ELSE m = None <=> pCutBest[node][step] = None
       /\ pCutBest' = [pCutBest EXCEPT ![node][step] = m]
  /\ step' = step + 1
  /\ UNCHANGED <<circuit, mpc, fMappingMode, trial, node, nRefAct, AreaFinal, exact>>

\* The gate of the phase is in use.
InUse(n, p) == \/ nRefAct[n][p] > 0
               \/ pCutBest[n][1 - p] = None /\ nRefAct[n][1 - p] > 0

\* The counters without the gate that is to be replaced
Without(n, p) == IF InUse(n, p) THEN CutDeref(pCutBest, nRefAct, pCutBest[n][p])
                                ELSE nRefAct

\* Map_MatchNodePhase, recovering exact area: the old match is dereferenced, a
\* match that adds no more area replaces it and is referenced.
MatchByArea ==
  /\ mpc = "match" /\ step \in Phases
  /\ fMappingMode \in {2, 3}
  /\ IF pCutBest[node][step] = None THEN UNCHANGED <<pCutBest, nRefAct>>
     ELSE LET old == pCutBest[node][step]
              r   == Without(node, step)
          IN  \E m \in Matches(node, step) :
                /\ m = old \/ AreaDerefed(pCutBest, r, m) <= AreaDerefed(pCutBest, r, old)
                /\ pCutBest' = [pCutBest EXCEPT ![node][step] = m]
                /\ nRefAct' = IF InUse(node, step) THEN CutRef(pCutBest', r, m) ELSE r
  /\ step' = step + 1
  /\ UNCHANGED <<circuit, mpc, fMappingMode, trial, node, AreaFinal, exact>>

\* "Could not match both phases of AIG node"
NoMatch ==
  /\ mpc = "match" /\ step = 2
  /\ pCutBest[node] = [p \in Phases |-> None]
  /\ mpc' = "failed"
  /\ UNCHANGED <<circuit, fMappingMode, trial, node, step, pCutBest, nRefAct,
                 AreaFinal, exact>>

\* Mutant: the gate that is dropped is not dereferenced.
DropReferenced(p) ==
  /\ Both(pCutBest, node)
  /\ \/ fMappingMode = 0
     \/ /\ fMappingMode \in {2, 3}
        /\ nRefAct[node][0] > 0 /\ nRefAct[node][1] > 0
  /\ UNCHANGED nRefAct
  /\ pCutBest' = [pCutBest EXCEPT ![node][p] = None]

\* Map_NodeTryDroppingOnePhase gives up phase p, or neither; then the next node.
DropPhase(p) ==
  /\ Both(pCutBest, node)
  /\ \/ fMappingMode = 0 /\ UNCHANGED nRefAct
     \/ /\ fMappingMode \in {2, 3}
        /\ nRefAct[node][0] > 0 /\ nRefAct[node][1] > 0
        /\ nRefAct' = CutDeref(pCutBest, nRefAct, pCutBest[node][p])
  /\ pCutBest' = [pCutBest EXCEPT ![node][p] = None]

TryDroppingOnePhase ==
  /\ mpc = "match" /\ step = 2
  /\ pCutBest[node] # [p \in Phases |-> None]
  /\ \/ \E p \in Phases : DropPhase(p)
     \/ UNCHANGED <<pCutBest, nRefAct>>
  /\ step' = 0
  /\ IF node < circuit.last THEN node' = node + 1 /\ UNCHANGED mpc
                            ELSE node' = circuit.ins + 1 /\ mpc' = "refs"
  /\ UNCHANGED <<circuit, fMappingMode, trial, AreaFinal, exact>>

\* Map_MappingSetRefs and Map_MappingGetArea after every pass; the first pass
\* that is no trial has its area taken only after the next one.
CountRefs ==
  /\ mpc = "refs"
  /\ nRefAct' = SetRefs(pCutBest)
  /\ AreaFinal' = IF fMappingMode = 0 /\ trial = nTrials THEN AreaFinal
                  ELSE GetArea(pCutBest, nRefAct')
  /\ exact' = (nRefAct' = TrueRefs(pCutBest))
  /\ mpc' = "counted"
  /\ UNCHANGED <<circuit, fMappingMode, trial, node, step, pCutBest>>

\* Map_MappingSTA: a run with trial parameters is measured and wiped out,
CleanMatches ==
  /\ mpc = "counted"
  /\ trial < nTrials
  /\ trial' = trial + 1
  /\ pCutBest' = NoCuts
  /\ nRefAct' = NoRefs
  /\ mpc' = "match"
  /\ UNCHANGED <<circuit, fMappingMode, node, step, AreaFinal, exact>>

\* ... then the passes follow each other.
NextPass ==
  /\ mpc = "counted"
  /\ trial = nTrials
  /\ IF fMappingMode < 3 THEN fMappingMode' = fMappingMode + 1 /\ mpc' = "match"
                         ELSE mpc' = "done" /\ UNCHANGED fMappingMode
  /\ UNCHANGED <<circuit, trial, node, step, pCutBest, nRefAct, AreaFinal, exact>>

Next == \/ MatchByFlow \/ MatchByArea \/ NoMatch \/ TryDroppingOnePhase
        \/ CountRefs \/ CleanMatches \/ NextPass

Spec == Init /\ [][Next]_vars

-----------------------------------------------------------------------------
\* The counters are kept up to date, so they are about the present covering.
Maintained == mpc = "counted" \/ (mpc = "match" /\ fMappingMode \in {2, 3})

\* No pin the covering is connected to is counted less often than it is used:
\* a gate that is needed is never taken to be unused.
RefsCover ==
  Maintained =>
    LET t == TrueRefs(pCutBest)
    IN  \A n \in Nodes, p \in Phases : nRefAct[n][p] >= t[n][p]

\* Measuring a match leaves no trace: dereferencing what was referenced gives
\* the counters back, for every match the pass may try.
MeasureLeavesNoTrace ==
  Maintained /\ mpc = "match" /\ step \in Phases =>
    \A m \in Matches(node, step) :
      LET r == Without(node, step)
      IN  CutDeref(pCutBest, CutRef(pCutBest, r, m), m) = r

\* A pass that starts with true counters keeps them true, whatever it replaces
\* and drops.
ExactStays == exact /\ Maintained => nRefAct = TrueRefs(pCutBest)

\* The area of the covering never grows in an exact pass, not even when counters
\* that are too high make a gate that is no longer needed look free; and
\* Map_MappingGetArea, which decides it, is the area of the covering whatever the
\* counters are.
AreaNeverGrows ==
  /\ Maintained /\ mpc = "match" => TrueArea(pCutBest) <= AreaFinal
  /\ mpc \in {"counted", "done"} /\ (fMappingMode > 0 \/ trial < nTrials) =>
       AreaFinal = TrueArea(pCutBest)
=============================================================================
