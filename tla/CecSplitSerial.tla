---------------------------- MODULE CecSplitSerial ----------------------------
(***************************************************************************)
(* Cec_GiaSplitTest2: cofactoring on one core.  The undecided cofactors    *)
(* wait on a stack.                                                        *)
(***************************************************************************)
EXTENDS CecSplit, SequencesExt

CONSTANT IterLimits   \* the values of nIterMax; 0 is no limit

VARIABLES
  nIterMax,
  pc,
  vStack,     \* the cofactors that still have to be split
  pPart,      \* the cofactors of the current iteration: none, one or two
  nIter,
  RetValue,
  pCexComb    \* the counter-example

vars == <<Sat, nIterMax, pc, vStack, pPart, nIter, RetValue, pCexComb>>
fixed == <<Sat, nIterMax>>

Init ==
  /\ Sat \in SUBSET Assignments
  /\ nIterMax \in IterLimits
  /\ pc = "check"
  /\ vStack = <<>>
  /\ pPart = <<>>
  /\ nIter = 1
  /\ RetValue = UNDEC
  /\ pCexComb = NoCex

\* The problem as a whole is tried first.
CheckProblem ==
  /\ pc = "check"
  /\ \E status \in Answers(Whole) :
       IF status = UNDEC
         THEN /\ vStack' = <<Whole>>
              /\ pc' = "loop"
              /\ UNCHANGED <<RetValue, pCexComb>>
         ELSE /\ RetValue' = status
              /\ IF status = SAT THEN pCexComb' \in Models(Whole) ELSE UNCHANGED pCexComb
              /\ pc' = "returned"
              /\ UNCHANGED vStack
  /\ UNCHANGED <<fixed, pPart, nIter>>

\* The top of the stack is cofactored.
Split ==
  /\ pc = "loop"
  /\ vStack # <<>>
  /\ \E v \in FreeVars(Last(vStack)) :
       pPart' = <<Cofactor(Last(vStack), v, 0, 0), Cofactor(Last(vStack), v, 1, 1)>>
  /\ vStack' = Front(vStack)
  /\ pc' = "solve"
  /\ UNCHANGED <<fixed, nIter, RetValue, pCexComb>>

\* The next of the two cofactors is solved.
SolveSat ==
  /\ pc = "solve"
  /\ SAT \in Answers(Head(pPart))
  /\ RetValue' = SAT
  /\ pCexComb' \in Models(Head(pPart))
  /\ pc' = "end"
  /\ pPart' = <<>>
  /\ UNCHANGED <<fixed, vStack, nIter>>

SolveOther ==
  /\ pc = "solve"
  /\ \E status \in Answers(Head(pPart)) \ {SAT} :
       vStack' = IF status = UNDEC THEN Append(vStack, Head(pPart)) ELSE vStack
  /\ pPart' = Tail(pPart)
  /\ IF Tail(pPart) # <<>>
       THEN UNCHANGED <<pc, nIter>>
       ELSE IF nIterMax > 0 /\ nIter >= nIterMax
              THEN pc' = "end" /\ UNCHANGED nIter
              ELSE pc' = "loop" /\ nIter' = nIter + 1
  /\ UNCHANGED <<fixed, RetValue, pCexComb>>

StackEmpty ==
  /\ pc = "loop"
  /\ vStack = <<>>
  /\ pc' = "end"
  /\ UNCHANGED <<fixed, vStack, pPart, nIter, RetValue, pCexComb>>

\* After the loop, however it was left: "if ( Vec_PtrSize(vStack) == 0 )".
Conclude ==
  /\ pc = "end"
  /\ RetValue' = IF vStack = <<>> THEN UNSAT ELSE RetValue
  /\ vStack' = <<>>
  /\ pc' = "returned"
  /\ UNCHANGED <<fixed, pPart, nIter, pCexComb>>

Next == \/ CheckProblem \/ Split \/ SolveSat \/ SolveOther \/ StackEmpty
        \/ Conclude

Spec == Init /\ [][Next]_vars

-----------------------------------------------------------------------------
\* No assignment is lost: what can still make the miter 1 is on the stack or in
\* the cofactors at hand, and no assignment is looked at twice.
NothingLost ==
  pc \in {"loop", "solve"} =>
    /\ Sat \subseteq Covered(Range(vStack) \union Range(pPart))
    /\ \A c, d \in Range(vStack) \union Range(pPart) :
         c # d => Inputs(c) \intersect Inputs(d) = {}
=============================================================================
