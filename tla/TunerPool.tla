------------------------------ MODULE TunerPool ------------------------------
(***************************************************************************)
(* Cmd_RunAutoTunerEval (base/cmd/cmdAuto.c): the cost of one setting of   *)
(* the SAT solver, summed over an array of AIGs.  The manager collects a   *)
(* cost when it next comes by an idle worker, and leaves the loop without  *)
(* a loop that waits: a round that found a worker busy is followed by      *)
(* another.                                                                *)
(***************************************************************************)
EXTENDS WorkerPool, Functions

CONSTANTS
  nAigs,    \* the number of AIGs
  Cost      \* AIG -> what Gia_ManSatokoCallOne returns for it

Aigs == 1..nAigs

VARIABLES
  top,         \* the size of vStack, which holds the AIGs 1..top
  Result,      \* ThData[i].Result
  fWorkToDo,
  TotalCost

own  == <<top, Result, fWorkToDo, TotalCost>>
vars == <<wpc, cur, fWorking, job, mpc, scan, own>>

Init ==
  /\ PoolInit(NoJob)
  /\ top = nAigs
  /\ Result = [w \in Worker |-> -1]
  /\ fWorkToDo = TRUE
  /\ TotalCost = 0

StartThreads == CreateWorker("while") /\ UNCHANGED own

\* "while ( fWorkToDo )" and the first statement of its body, or the end.
WhileWork ==
  /\ mpc = "while"
  /\ scan' = 1
  /\ IF fWorkToDo THEN fWorkToDo' = (top > 0) /\ mpc' = "scan"
                  ELSE mpc' = "stop" /\ UNCHANGED fWorkToDo
  /\ UNCHANGED <<worker, record, top, Result, TotalCost>>

NextWorker ==
  IF scan < nProcs THEN scan' = scan + 1 /\ mpc' = "scan"
                   ELSE mpc' = "while" /\ UNCHANGED scan

\* Mutant: a worker that is busy is not taken for work to do.
BusyIgnored ==
  /\ mpc = "scan"
  /\ fWorking[scan] = 1
  /\ NextWorker
  /\ UNCHANGED <<worker, record, own>>

StillWorking ==
  /\ mpc = "scan"
  /\ fWorking[scan] = 1
  /\ fWorkToDo' = TRUE
  /\ NextWorker
  /\ UNCHANGED <<worker, record, top, Result, TotalCost>>

\* An idle worker: what it has finished is added up and its record cleared.
CollectCost ==
  /\ mpc = "scan"
  /\ fWorking[scan] = 0
  /\ TotalCost' = IF job[scan] # NoJob THEN TotalCost + Result[scan] ELSE TotalCost
  /\ job' = [job EXCEPT ![scan] = NoJob]
  /\ mpc' = "assign"
  /\ UNCHANGED <<worker, fWorking, scan, top, Result, fWorkToDo>>

NoAigLeft ==
  /\ mpc = "assign"
  /\ top = 0
  /\ NextWorker
  /\ UNCHANGED <<worker, record, own>>

AssignAig ==
  /\ mpc = "assign"
  /\ top > 0
  /\ job' = [job EXCEPT ![scan] = top]
  /\ top' = top - 1
  /\ mpc' = "raise"
  /\ UNCHANGED <<worker, fWorking, scan, Result, fWorkToDo, TotalCost>>

StartJob ==
  /\ mpc = "raise"
  /\ fWorking' = [fWorking EXCEPT ![scan] = 1]
  /\ NextWorker
  /\ UNCHANGED <<worker, job, own>>

StopThreads == (StopStore \/ StopRaise) /\ UNCHANGED own

Manager == \/ StartThreads \/ WhileWork \/ StillWorking \/ CollectCost
           \/ NoAigLeft \/ AssignAig \/ StartJob \/ StopThreads

\* Cmd_RunAutoTunerEvalWorkerThread
WorkerThread(w) ==
  \/ /\ Wake(w) \/ ReadJob(w) \/ ClearFlag(w)
     /\ UNCHANGED <<mpc, scan, own>>
  \/ /\ Solved(w)
     /\ Result' = [Result EXCEPT ![w] = Cost[cur[w]]]
     /\ UNCHANGED <<mpc, scan, top, fWorkToDo, TotalCost>>

Reused(w) == FrameReused(w) /\ UNCHANGED own

Next == Manager \/ \E w \in Worker : WorkerThread(w) \/ Reused(w)

Spec == Init /\ [][Next]_vars

\* Every thread is scheduled, and the solver comes back.
FairSpec == /\ Spec
            /\ WF_vars(Manager)
            /\ \A w \in Worker : WF_vars(WorkerThread(w))

-----------------------------------------------------------------------------
\* Where every AIG's cost is: still to come, or in the total, once.
CostsAddUp ==
  mpc \in {"while", "scan", "assign", "raise", "stop"} =>
    LET pending == (1..top) \union {job[w] : w \in {v \in Worker : job[v] # NoJob}}
    IN  TotalCost = SumFunctionOnSet(Cost, Aigs \ pending)

\* The value that is returned is the cost of the whole array.
TotalIsRight == mpc = "returned" => TotalCost = SumFunction(Cost)

\* "assert( ThData[i].Result >= 0 )": a record that is collected was solved.
ResultAssert ==
  mpc = "scan" /\ fWorking[scan] = 0 /\ job[scan] # NoJob =>
    Result[scan] = Cost[job[scan]]
=============================================================================
