---------------------------------- MODULE Aig ----------------------------------
(***************************************************************************)
(* Structural hashing and replacement in And-Inverter Graphs, base/abc:    *)
(* Abc_AigAnd, Abc_AigReplace with the cascade of replacements it sets     *)
(* off, Abc_AigDeleteNode, Abc_AigUpdateLevel_int and Abc_AigCleanup.      *)
(*                                                                         *)
(* A literal is <<object, complemented>>.  Objects are numbers: 0 is the   *)
(* constant 1, and vFanins gives an object its fanins: none for the        *)
(* constant and the inputs, one for an output, two for a node.  Fanout     *)
(* lists are kept in step with the fanins and are derived from them here;  *)
(* the order in which fanouts, and nodes of one level, are looked at is    *)
(* left open.                                                              *)
(***************************************************************************)
EXTENDS Integers, Sequences, FiniteSets, SequencesExt, FiniteSetsExt

CONSTANTS
  nPis,           \* the number of primary inputs, the objects 1..nPis
  Networks,       \* the networks at the start, each a value of vFanins
  UpdateLevels,   \* the values of fUpdateLevel
  nReplaces,      \* bound of the model on the calls of Abc_AigReplace
  nNewNodes       \* bound of the model on the nodes that are created

FaninIds(net, n) == {net[n][e][1] : e \in DOMAIN net[n]}

\* What Abc_NtkDoCheck and Abc_AigCheck ask of a network before it is worked on: the
\* constant and the inputs have no fanins, an output has one and a node two; a node's
\* are in order, neither the same nor the constant, and not those of another node;
\* and there are no cycles.
WellFormed(net) ==
  LET lits == (DOMAIN net) \X BOOLEAN
  IN  /\ DOMAIN net \subseteq Nat /\ IsFiniteSet(DOMAIN net) /\ 0..nPis \subseteq DOMAIN net
      /\ \A n \in 0..nPis : net[n] = <<>>
      /\ \A n \in DOMAIN net \ (0..nPis) : net[n] \in [1..1 -> lits] \union [1..2 -> lits]

Strashed(net) ==
  LET nodes == {n \in DOMAIN net : Len(net[n]) = 2}
  IN  /\ \A n \in nodes : 0 < net[n][1][1] /\ net[n][1][1] < net[n][2][1]
      /\ \A n, m \in nodes : net[n] = net[m] => n = m

Acyclic(net) ==
  \A S \in SUBSET DOMAIN net :
    S # {} => \E n \in S : FaninIds(net, n) \intersect S = {}

ASSUME AigConstants ==
  /\ nPis \in Nat /\ nReplaces \in Nat /\ nNewNodes \in Nat
  /\ UpdateLevels \subseteq BOOLEAN
  /\ \A net \in Networks : WellFormed(net) /\ Strashed(net) /\ Acyclic(net)

VARIABLES
  vFanins,        \* live object -> its fanins
  Level,
  table,          \* the entries of pBins: <<the fanins it was hashed by, node>>
  vStackReplace,  \* vStackReplaceOld and vStackReplaceNew, pair by pair
  vLevels,        \* the nodes with fMarkA: <<the level they are stored at, node>>
  pc,             \* "idle", "replace", "fanouts", "delete", "cleanup" or "levels"
  pOld, pNew,     \* of Abc_AigReplace_int
  vNodes,         \* the fanouts that are still to be looked at
  doomed,         \* Abc_AigDeleteNode: the calls still to be made
  fUpdateLevel, RetValue,
  network,        \* the network at the start
  replaces, newNodes

heap    == <<vFanins, Level, table>>
lists   == <<vStackReplace, vLevels>>
current == <<pOld, pNew>>
fixed   == <<fUpdateLevel, network>>
bounds  == <<replaces, newNodes>>
vars    == <<heap, lists, current, fixed, bounds, pc, vNodes, doomed, RetValue>>

Const1 == <<0, FALSE>>
Not(p) == <<p[1], ~p[2]>>
NotCond(p, c) == <<p[1], p[2] # c>>

Objects  == DOMAIN vFanins
IsNode(n) == n \in Objects /\ Len(vFanins[n]) = 2
IsCo(n)   == n \in Objects /\ Len(vFanins[n]) = 1
Nodes    == {n \in Objects : IsNode(n)}

Fanouts(n) == {x \in Objects : n \in FaninIds(vFanins, x)}

\* Mutant: the arguments are not put in order.
AsGiven(p0, p1) == <<p0, p1>>

\* The arguments in the order of their Ids
Ordered(p0, p1) == IF p0[1] > p1[1] THEN <<p1, p0>> ELSE <<p0, p1>>

LevelOver(p0, p1) == 1 + Max({Level[p0[1]], Level[p1[1]]})

NULL == <<-1, FALSE>>

\* Abc_AigAndLookup: "check for trivial cases", then the table.  What has no
\* fanouts cannot be the fanin of a node.
AndLookup(p0, p1) ==
  CASE p0 = p1          -> p0
    [] p0 = Not(p1)     -> Not(Const1)
    [] p0 = Const1      -> p1
    [] p1 = Const1      -> p0
    [] Not(Const1) \in {p0, p1} -> Not(Const1)
    [] OTHER ->
         LET hits == {x \in table : x[1] = Ordered(p0, p1) /\ vFanins[x[2]] = x[1]}
         IN  IF Fanouts(p0[1]) = {} \/ Fanouts(p1[1]) = {} \/ hits = {}
               THEN NULL
               ELSE <<(CHOOSE x \in hits : TRUE)[2], FALSE>>

-----------------------------------------------------------------------------
(* What a network means, and what is asked of a replacement. *)

Minterms == SUBSET (1..nPis)
Bits(S, p) == IF p[2] THEN Minterms \ S ELSE S

\* The assignments of the inputs under which a literal is 1
Function(net, p) ==
  LET f[n \in DOMAIN net] ==
        IF n = 0 THEN Minterms
        ELSE IF n \in 1..nPis THEN {m \in Minterms : n \in m}
        ELSE LET fanin(e) == Bits(f[net[n][e][1]], net[n][e])
             IN  IF Len(net[n]) = 1 THEN fanin(1) ELSE fanin(1) \intersect fanin(2)
  IN  Bits(f[p[1]], p)

\* The object and everything below it
Cone(net, n) ==
  LET c[d \in Nat] ==
        LET above == c[d - 1]
        IN  IF d = 0 THEN {n} ELSE above \union UNION {FaninIds(net, x) : x \in above}
  IN  c[Cardinality(DOMAIN net)]

\* Mutant: the new literal may depend on the node it replaces.
MayReplaceAbove(old, new) ==
  /\ Fanouts(old) # {}
  /\ old # new[1]
  /\ Function(vFanins, new) = Function(vFanins, <<old, FALSE>>)

\* The callers replace a node by a literal with its function that does not
\* depend on it.
MayReplace(old, new) ==
  /\ Fanouts(old) # {}
  /\ old \notin Cone(vFanins, new[1])
  /\ Function(vFanins, new) = Function(vFanins, <<old, FALSE>>)

LevelsOf(net) ==
  LET l[n \in DOMAIN net] ==
        IF Len(net[n]) = 2 THEN 1 + Max({l[net[n][1][1]], l[net[n][2][1]]}) ELSE 0
  IN  l

Init ==
  /\ network \in Networks /\ fUpdateLevel \in UpdateLevels
  /\ vFanins = network
  /\ Level = LevelsOf(network)
  /\ table = {<<vFanins[n], n>> : n \in Nodes}
  /\ vStackReplace = <<>> /\ vLevels = {}
  /\ pc = "idle"
  /\ pOld = 0 /\ pNew = NULL
  /\ vNodes = {} /\ doomed = <<>>
  /\ RetValue = 1
  /\ replaces = 0 /\ newNodes = 0

-----------------------------------------------------------------------------
(* Abc_AigAnd and Abc_AigReplace. *)

\* A node that is not in the table is created.
AndCreate ==
  /\ pc = "idle"
  /\ newNodes < nNewNodes
  /\ \E p0, p1 \in {n \in Objects : ~IsCo(n)} \X BOOLEAN :
       LET n == Max(Objects) + 1
       IN  /\ p0[1] < p1[1]
           /\ AndLookup(p0, p1) = NULL
           /\ vFanins' = [x \in Objects \union {n} |-> IF x = n THEN <<p0, p1>> ELSE vFanins[x]]
           /\ Level' = [x \in Objects \union {n} |-> IF x = n THEN LevelOver(p0, p1) ELSE Level[x]]
           /\ table' = table \union {<< <<p0, p1>>, n >>}
  /\ newNodes' = newNodes + 1
  /\ UNCHANGED <<lists, current, fixed, pc, vNodes, doomed, RetValue, replaces>>

\* "assert( Vec_PtrSize(pMan->vStackReplaceOld) == 0 )"
Replace ==
  /\ pc = "idle"
  /\ replaces < nReplaces
  /\ vStackReplace = <<>>
  /\ \E old \in Nodes, new \in {n \in Objects : ~IsCo(n)} \X BOOLEAN :
       /\ MayReplace(old, new)
       /\ vStackReplace' = <<[old |-> old, new |-> new]>>
  /\ pc' = "replace"
  /\ replaces' = replaces + 1
  /\ UNCHANGED <<heap, vLevels, current, fixed, newNodes, vNodes, doomed, RetValue>>

\* The last pair is taken off the stack.
NextPair ==
  /\ pc = "replace"
  /\ vStackReplace # <<>>
  /\ LET pair == Last(vStackReplace)
     IN  /\ pOld' = pair.old /\ pNew' = pair.new
         /\ vNodes' = Fanouts(pair.old)
         /\ IF Fanouts(pair.old) = {} THEN pc' = "idle" /\ RetValue' = 0
                                      ELSE pc' = "fanouts" /\ UNCHANGED RetValue
  /\ vStackReplace' = Front(vStackReplace)
  /\ UNCHANGED <<heap, vLevels, fixed, bounds, doomed>>

AllReplaced ==
  /\ pc = "replace"
  /\ vStackReplace = <<>>
  /\ RetValue' = 1
  /\ pc' = IF fUpdateLevel THEN "levels" ELSE "idle"
  /\ UNCHANGED <<heap, lists, current, fixed, bounds, vNodes, doomed>>

-----------------------------------------------------------------------------
(* Abc_AigReplace_int, fanout by fanout. *)

PatchFanin ==
  /\ pc = "fanouts"
  /\ \E pFanout \in vNodes :
       /\ IsCo(pFanout)
       /\ vFanins' = [vFanins EXCEPT ![pFanout] = <<NotCond(pNew, @[1][2])>>]
       /\ vNodes' = vNodes \ {pFanout}
  /\ UNCHANGED <<Level, table, lists, current, fixed, bounds, pc, doomed, RetValue>>

\* Mutant: the complement of the old fanin is lost.
Fanin1Plain(n) == pNew

\* The fanins of a fanout after the replacement, and the index of the old one
OldFanin(n) == IF vFanins[n][1][1] = pOld THEN 1 ELSE 2
Fanin1(n) == NotCond(pNew, vFanins[n][OldFanin(n)][2])
Fanin2(n) == vFanins[n][3 - OldFanin(n)]

\* "such node exists": the replacement of the fanout is scheduled.
Schedule ==
  /\ pc = "fanouts"
  /\ \E pFanout \in vNodes :
       /\ IsNode(pFanout)
       /\ LET pFanoutNew == AndLookup(Fanin1(pFanout), Fanin2(pFanout))
          IN  /\ pFanoutNew # NULL
              /\ vStackReplace' = Append(vStackReplace, [old |-> pFanout, new |-> pFanoutNew])
       /\ vNodes' = vNodes \ {pFanout}
  /\ UNCHANGED <<heap, vLevels, current, fixed, bounds, pc, doomed, RetValue>>

\* "such node does not exist": the fanout is hashed again with its new fanins.
Rehash ==
  /\ pc = "fanouts"
  /\ \E pFanout \in vNodes :
       LET fanins == Ordered(Fanin1(pFanout), Fanin2(pFanout))
           level  == LevelOver(fanins[1], fanins[2])
           others == {x \in vLevels : x[2] # pFanout}
       IN  /\ IsNode(pFanout)
           /\ AndLookup(Fanin1(pFanout), Fanin2(pFanout)) = NULL
           /\ table' = (table \ {<<vFanins[pFanout], pFanout>>}) \union {<<fanins, pFanout>>}
           /\ vFanins' = [vFanins EXCEPT ![pFanout] = fanins]
           /\ Level' = [Level EXCEPT ![pFanout] = level]
           /\ vLevels' = IF fUpdateLevel THEN others \union {<<level, pFanout>>} ELSE others
           /\ vNodes' = vNodes \ {pFanout}
  /\ UNCHANGED <<vStackReplace, current, fixed, bounds, pc, doomed, RetValue>>

\* "if the node has no fanouts left, remove its MFFC"
FanoutsDone ==
  /\ pc = "fanouts"
  /\ vNodes = {}
  /\ IF Fanouts(pOld) = {} THEN pc' = "delete" /\ doomed' = <<pOld>>
                           ELSE pc' = "replace" /\ UNCHANGED doomed
  /\ UNCHANGED <<heap, lists, current, fixed, bounds, vNodes, RetValue>>

-----------------------------------------------------------------------------
(* Abc_AigDeleteNode, call by call, and Abc_AigCleanup. *)

\* "remove it from the replacement queue": the entry that moves into the place
\* of a removed one is not looked at.
Unscheduled(n) ==
  FoldLeft(LAMBDA acc, pair :
             IF pair.old = n /\ ~acc.skip
               THEN [acc EXCEPT !.skip = TRUE]
               ELSE [left |-> Append(acc.left, pair), skip |-> FALSE],
           [left |-> <<>>, skip |-> FALSE], vStackReplace).left

\* Mutant: a node is deleted though it is to replace another one.
NeverAwaited(n, stack) == FALSE

\* Whether the node replaces another one of the stack
Awaited(n, stack) == \E j \in DOMAIN stack : stack[j].new[1] = n

\* A call is made for a node, not for an object that is gone, without fanouts.
IsDoomed(n) == IsNode(n) /\ Fanouts(n) = {}

SkipCall ==
  /\ pc \in {"delete", "cleanup"}
  /\ doomed # <<>>
  /\ ~IsDoomed(Head(doomed))
  /\ doomed' = Tail(doomed)
  /\ UNCHANGED <<heap, lists, current, fixed, bounds, pc, vNodes, RetValue>>

KeepNode ==
  /\ pc \in {"delete", "cleanup"}
  /\ doomed # <<>>
  /\ IsDoomed(Head(doomed))
  /\ Awaited(Head(doomed), Unscheduled(Head(doomed)))
  /\ vStackReplace' = Unscheduled(Head(doomed))
  /\ doomed' = Tail(doomed)
  /\ UNCHANGED <<heap, vLevels, current, fixed, bounds, pc, vNodes, RetValue>>

DeleteNode ==
  /\ pc \in {"delete", "cleanup"}
  /\ doomed # <<>>
  /\ LET n == Head(doomed)
     IN  /\ IsDoomed(n)
         /\ ~Awaited(n, Unscheduled(n))
         /\ vStackReplace' = Unscheduled(n)
         /\ vLevels' = {x \in vLevels : x[2] # n}
         /\ table' = table \ {<<vFanins[n], n>>}
         /\ vFanins' = [x \in Objects \ {n} |-> vFanins[x]]
         /\ Level' = [x \in Objects \ {n} |-> Level[x]]
         /\ doomed' = <<vFanins[n][1][1], vFanins[n][2][1]>> \o Tail(doomed)
  /\ UNCHANGED <<current, fixed, bounds, pc, vNodes, RetValue>>

Deleted ==
  /\ pc \in {"delete", "cleanup"}
  /\ doomed = <<>>
  /\ pc' = IF pc = "delete" THEN "replace" ELSE "idle"
  /\ UNCHANGED <<heap, lists, current, fixed, bounds, vNodes, doomed, RetValue>>

\* The nodes without fanouts are collected before the first is deleted.
Cleanup ==
  /\ pc = "idle"
  /\ \E n \in Nodes : Fanouts(n) = {}
  /\ doomed' \in SetToSeqs({n \in Nodes : Fanouts(n) = {}})
  /\ pc' = "cleanup"
  /\ UNCHANGED <<heap, lists, current, fixed, bounds, vNodes, RetValue>>

-----------------------------------------------------------------------------
(* Abc_AigUpdateLevel_int. *)

\* Mutant: the mark is not removed.
NextOfLevelMarked ==
  /\ pc = "levels"
  /\ vNodes = {}
  /\ \E x \in vLevels :
       /\ \A y \in vLevels : x[1] <= y[1]
       /\ vNodes' = {n \in Fanouts(x[2]) : IsNode(n)}
  /\ UNCHANGED <<heap, lists, current, fixed, bounds, pc, doomed, RetValue>>

\* A node of the lowest level: the mark is removed, its fanouts are looked at.
NextOfLevel ==
  /\ pc = "levels"
  /\ vNodes = {}
  /\ \E x \in vLevels :
       /\ \A y \in vLevels : x[1] <= y[1]
       /\ vLevels' = vLevels \ {x}
       /\ vNodes' = {n \in Fanouts(x[2]) : IsNode(n)}
  /\ UNCHANGED <<heap, vStackReplace, current, fixed, bounds, pc, doomed, RetValue>>

UpdateFanout ==
  /\ pc = "levels"
  /\ \E pFanout \in vNodes :
       LET LevelNew == LevelOver(vFanins[pFanout][1], vFanins[pFanout][2])
       IN  /\ vNodes' = vNodes \ {pFanout}
           /\ IF Level[pFanout] = LevelNew
                THEN UNCHANGED <<Level, vLevels>>
                ELSE /\ Level' = [Level EXCEPT ![pFanout] = LevelNew]
                     /\ vLevels' = {x \in vLevels : x[2] # pFanout} \union {<<LevelNew, pFanout>>}
  /\ UNCHANGED <<vFanins, table, vStackReplace, current, fixed, bounds, pc, doomed, RetValue>>

LevelsDone ==
  /\ pc = "levels"
  /\ vNodes = {} /\ vLevels = {}
  /\ pc' = "idle"
  /\ UNCHANGED <<heap, lists, current, fixed, bounds, vNodes, doomed, RetValue>>

Call == AndCreate \/ Replace \/ Cleanup

Step == \/ NextPair \/ AllReplaced
        \/ PatchFanin \/ Schedule \/ Rehash \/ FanoutsDone
        \/ SkipCall \/ KeepNode \/ DeleteNode \/ Deleted
        \/ NextOfLevel \/ UpdateFanout \/ LevelsDone

Next == Call \/ Step

Spec == Init /\ [][Next]_vars

\* A call that was made goes on.
FairSpec == Spec /\ WF_vars(Step)

-----------------------------------------------------------------------------
\* "when deleting a new node that should replace another node, do not delete": what
\* the pairs that wait and the one under way put in is still there.
AigTypeOK ==
  /\ \A n \in Objects : vFanins[n] \in SeqOf(Objects \X BOOLEAN, 2)
  /\ DOMAIN Level = Objects /\ \A n \in Objects : Level[n] \in Nat
  /\ \A x \in table : x[2] \in Nat
  /\ \A p \in ToSet(vStackReplace) : p.old \in Nat /\ p.new \in Objects \X BOOLEAN
  /\ pc \in {"idle", "replace", "fanouts", "delete", "cleanup", "levels"}
  /\ pc = "fanouts" => pOld \in Objects /\ pNew \in Objects \X BOOLEAN
  /\ vNodes \subseteq Objects
  /\ RetValue \in {0, 1} /\ fUpdateLevel \in BOOLEAN

\* Abc_AigCheck at every step of a replacement: the table holds exactly the nodes,
\* each under its fanins and no two under the same, and there are no trivial nodes.
\* A fanout still to be looked at has the old node for a fanin, "assert( iFanin == 0
\* || iFanin == 1 )".  A node is stored at its level, and when a replacement has been
\* completed the levels agree with those of the fanins.
AigCheck ==
  /\ table = {<<vFanins[n], n>> : n \in Nodes}
  /\ \A n, m \in Nodes : vFanins[n] = vFanins[m] => n = m
  /\ \A n \in Nodes : 0 < vFanins[n][1][1] /\ vFanins[n][1][1] < vFanins[n][2][1]
  /\ pc = "fanouts" => \A n \in vNodes : pOld \in FaninIds(vFanins, n)
  /\ \A x \in vLevels : IsNode(x[2]) /\ x[1] = Level[x[2]]
  /\ pc = "idle" /\ fUpdateLevel /\ RetValue = 1 =>
       \A n \in Nodes : Level[n] = LevelOver(vFanins[n][1], vFanins[n][2])

\* "assert( Abc_AigNodeIsAcyclic(pFanout, pFanout) )" and "assert(
\* Abc_ObjRegular(pFanin1) != pFanout )": no object comes to depend on itself, and no
\* fanout still to be looked at is what is to be put into it.  It holds of small
\* networks only: a node that waits to be replaced may be patched and then be found
\* by lookup for a fanout that what replaces it depends on.
NoCycle ==
  /\ \A n \in Objects : \A k \in FaninIds(vFanins, n) : n \notin Cone(vFanins, k)
  /\ pc = "fanouts" => pNew[1] \notin vNodes

\* However far a replacement and what it sets off have got, every output has
\* the function it had at the start.
FunctionsKept ==
  \A n \in Objects : IsCo(n) =>
    Function(vFanins, <<n, FALSE>>) = Function(network, <<n, FALSE>>)

\* Every call ends, though a replacement may set off others.
Settles == pc # "idle" ~> pc = "idle"
================================================================================
