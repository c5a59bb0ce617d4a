----------------------------- MODULE CecSplitTest -----------------------------
(***************************************************************************)
(* Cec_GiaSplitTestInt as a whole: a problem that the solver does not      *)
(* decide is given to the serial procedure (CecSplitSerial, when nProcs is *)
(* 1) or to the threads of CecSplitPool.  The two have their own loops and *)
(* the same stack, iteration count and result.                             *)
(***************************************************************************)
EXTENDS CecSplitPool

VARIABLES
  engine,     \* "serial" or "threads"
  pc,         \* where the serial procedure is; "check" and "threads" before
              \* and during the work of the pool
  pPart       \* of CecSplitSerial

Serial == INSTANCE CecSplitSerial

poolOnly == <<wpc, cur, fWorking, job, mpc, scan, pCnf, Result, fWorkToDo, pCex>>
testVars == <<vars, engine, pc, pPart>>

TestInit ==
  \/ engine = "threads" /\ Init /\ pc = "check" /\ pPart = <<>>
  \/ /\ engine = "serial" /\ Serial!Init
     /\ PoolInit(NoJob)
     /\ pCnf = {} /\ fWorkToDo = TRUE
     /\ Result = [w \in Worker |-> UNDEC]
     /\ pCex = [w \in Worker |-> NoCex]

\* "check the problem", before any thread is started.
CheckProblem ==
  /\ engine = "threads" /\ pc = "check"
  /\ \E status \in Answers(Whole) :
       IF status = UNDEC
         THEN pc' = "threads" /\ UNCHANGED <<RetValue, pCexComb>>
         ELSE /\ RetValue' = status
              /\ IF status = SAT THEN pCexComb' \in Models(Whole) ELSE UNCHANGED pCexComb
              /\ pc' = "returned"
  /\ UNCHANGED <<poolOnly, engine, pPart, fixed, vStack, nIter>>

SerialStep == engine = "serial" /\ Serial!Next /\ UNCHANGED <<poolOnly, engine>>

ThreadedManager == pc = "threads" /\ Manager /\ UNCHANGED <<engine, pc, pPart>>

ThreadedWorker(w) == WorkerThread(w) /\ UNCHANGED <<engine, pc, pPart>>

TestManager == CheckProblem \/ SerialStep \/ ThreadedManager

TestNext ==
  \/ TestManager
  \/ \E w \in Worker : ThreadedWorker(w) \/ (Reused(w) /\ UNCHANGED <<engine, pc, pPart>>)

TestSpec == TestInit /\ [][TestNext]_testVars

-----------------------------------------------------------------------------
Returned == pc = "returned" \/ mpc = "returned"

\* Neither procedure loses an assignment, or looks at one twice: what can make
\* the miter 1 is on the stack or in the cofactors at hand.
NoCofactorLost == IF engine = "serial" THEN Serial!NothingLost ELSE NothingLost

\* The threads' verdict is right, however the answers come in, and the first
\* check's too; they are undecided only when the iterations ran out.
ThreadsVerdict ==
  engine = "threads" =>
    /\ RightVerdict
    /\ pc = "returned" => RetValue = IF Sat # {} THEN SAT ELSE UNSAT

\* The serial procedure's SAT comes with an assignment that makes the miter 1,
\* from however deep a cofactor it was derived, and it is undecided only when
\* the iterations ran out.
SerialVerdict ==
  engine = "serial" /\ Returned =>
    /\ RetValue = SAT => pCexComb \in Sat
    /\ RetValue = UNDEC => nIterMax > 0 /\ nIter >= nIterMax

\* "Problem is UNSAT": the text that is printed for RetValue = 1.
UnsatIsRight == Returned /\ RetValue = UNSAT => Sat = {}

\* "combinational counter-example": what comes with the answer SAT makes the
\* miter 1.
CexIsRight == Returned /\ RetValue = SAT => pCexComb \in Sat
=============================================================================
