------------------------------- MODULE CecSplit -------------------------------
(***************************************************************************)
(* The problem that proof/cec/cecSplit.c solves by cofactoring: is there   *)
(* an assignment of its inputs that makes a miter 1?                       *)
(*                                                                         *)
(* A cofactor is a copy of the miter in which some inputs are constant.    *)
(* The copy still has all the inputs, and knows of the constants only what *)
(* is recorded in its list vCofVars.                                       *)
(***************************************************************************)
EXTENDS Integers, FiniteSets, Sequences

CONSTANT Vars     \* the inputs

VARIABLE Sat      \* the assignments that make the miter 1

SAT == 0
UNSAT == 1
UNDEC == -1

Assignments == [Vars -> {0, 1}]
NoCex       == <<>>

\* The miter itself
Whole == [values |-> <<>>, vCofVars |-> <<>>]

\* Gia_ManDupCofactorVar, and the literal that is added to vCofVars
Cofactor(c, v, value, recorded) ==
  LET With(g, x) == [u \in DOMAIN g \union {v} |-> IF u = v THEN x ELSE g[u]]
  IN  [values |-> With(c.values, value), vCofVars |-> With(c.vCofVars, recorded)]

\* The assignments a cofactor stands for
Inputs(c) == {a \in Assignments : \A v \in DOMAIN c.values : a[v] = c.values[v]}

\* Gia_SplitCofVar: an input that the cofactor still depends on
FreeVars(c) == Vars \ DOMAIN c.values

\* Cnf_GiaSolveOne: right, or out of time.  A constant is decided without a
\* search.
Answers(c) ==
  {IF Inputs(c) \intersect Sat # {} THEN SAT ELSE UNSAT}
    \union (IF FreeVars(c) # {} THEN {UNDEC} ELSE {})

\* Cec_SplitDeriveModel: the solver's values, and for the inputs that were
\* cofactored the recorded ones
Models(c) ==
  {[v \in Vars |-> IF v \in DOMAIN c.vCofVars THEN c.vCofVars[v] ELSE a[v]] :
     a \in Inputs(c) \intersect Sat}

Covered(S) == UNION {Inputs(c) : c \in S}
=============================================================================
