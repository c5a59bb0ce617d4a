----------------------------- MODULE CecSplitPool -----------------------------
(***************************************************************************)
(* Cec_GiaSplitTestInt: cofactoring on several cores.  A job is a          *)
(* cofactor.  The manager goes round the workers: it collects what an idle *)
(* one has found (splitting the cofactor if that was not decided) and      *)
(* gives it the top of the stack.                                          *)
(***************************************************************************)
EXTENDS WorkerPool, CecSplit, SequencesExt

CONSTANT IterLimits   \* the values of nIterMax; 0 is no limit

VARIABLES
  nIterMax,
  vStack,      \* the cofactors nobody works on
  pCnf,        \* the workers whose record has a CNF
  Result,      \* ThData[i].Result
  nIter,
  fWorkToDo,
  RetValue,
  pCex,        \* the counter-example in each worker's cofactor
  pCexComb     \* the one that was collected

cexs == <<pCex, pCexComb>>
own  == <<vStack, pCnf, Result, nIter, fWorkToDo, RetValue, cexs>>
vars == <<wpc, cur, fWorking, job, mpc, scan, Sat, nIterMax, own>>
fixed == <<Sat, nIterMax>>

Init ==
  /\ PoolInit(NoJob)
  /\ Sat \in SUBSET Assignments
  /\ nIterMax \in IterLimits
  /\ vStack = <<Whole>>
  /\ pCnf = {}
  /\ Result = [w \in Worker |-> UNDEC]
  /\ nIter = 0
  /\ fWorkToDo = TRUE
  /\ RetValue = UNDEC
  /\ pCex = [w \in Worker |-> NoCex]
  /\ pCexComb = NoCex

\* The procedure gets here when the problem as a whole was not decided.
StartThreads == CreateWorker("while") /\ UNCHANGED <<fixed, own>>

\* "while ( fWorkToDo )" and the first statement of its body.
WhileWork ==
  /\ mpc = "while"
  /\ fWorkToDo
  /\ fWorkToDo' = (vStack # <<>>)
  /\ scan' = 1
  /\ mpc' = "scan"
  /\ UNCHANGED <<worker, record, fixed, vStack, pCnf, Result, nIter, RetValue,
                 cexs>>

\* The next turn of the for loop, or its end.
NextWorker ==
  IF scan < nProcs THEN scan' = scan + 1 /\ mpc' = "scan"
                   ELSE mpc' = "endscan" /\ UNCHANGED scan

StillWorking ==
  /\ mpc = "scan"
  /\ fWorking[scan] = 1
  /\ fWorkToDo' = TRUE
  /\ NextWorker
  /\ UNCHANGED <<worker, record, fixed, vStack, pCnf, Result, nIter, RetValue,
                 cexs>>

NothingToCollect ==
  /\ mpc = "scan"
  /\ fWorking[scan] = 0
  /\ job[scan] = NoJob
  /\ mpc' = "assign"
  /\ UNCHANGED <<worker, record, scan, fixed, own>>

\* The counter-example is taken over; "goto finish".
CollectSat ==
  /\ mpc = "scan"
  /\ fWorking[scan] = 0
  /\ job[scan] # NoJob
  /\ Result[scan] = SAT
  /\ RetValue' = SAT
  /\ pCexComb' = pCex[scan]
  /\ mpc' = "wait"
  /\ scan' = 1
  /\ UNCHANGED <<worker, record, fixed, vStack, pCnf, Result, nIter, fWorkToDo,
                 pCex>>

\* Both cofactors of an undecided one go on the stack, with Abc_Var2Lit(iVar, 1)
\* for the constant 0 as well as for the constant 1; a refuted one is gone.
CollectOther ==
  /\ mpc = "scan"
  /\ fWorking[scan] = 0
  /\ job[scan] # NoJob
  /\ \/ /\ Result[scan] = UNDEC
        /\ \E v \in FreeVars(job[scan]) :
             vStack' = vStack \o <<Cofactor(job[scan], v, 0, 0), Cofactor(job[scan], v, 1, 0)>>
        /\ fWorkToDo' = TRUE
        /\ nIter' = nIter + 1
     \/ /\ Result[scan] = UNSAT
        /\ UNCHANGED <<vStack, fWorkToDo, nIter>>
  /\ job' = [job EXCEPT ![scan] = NoJob]
  /\ pCnf' = pCnf \ {scan}
  /\ mpc' = "assign"
  /\ UNCHANGED <<worker, fWorking, scan, fixed, Result, RetValue, cexs>>

NoCofactorLeft ==
  /\ mpc = "assign"
  /\ vStack = <<>>
  /\ NextWorker
  /\ UNCHANGED <<worker, record, fixed, own>>

\* Mutant: the cofactor stays on the stack.
AssignAndKeep ==
  /\ mpc = "assign"
  /\ vStack # <<>>
  /\ job' = [job EXCEPT ![scan] = Last(vStack)]
  /\ pCnf' = pCnf \union {scan}
  /\ mpc' = "raise"
  /\ UNCHANGED <<worker, fWorking, scan, fixed, vStack, Result, nIter, fWorkToDo,
                 RetValue, cexs>>

AssignCofactor ==
  /\ mpc = "assign"
  /\ vStack # <<>>
  /\ job' = [job EXCEPT ![scan] = Last(vStack)]
  /\ vStack' = Front(vStack)
  /\ pCnf' = pCnf \union {scan}
  /\ mpc' = "raise"
  /\ UNCHANGED <<worker, fWorking, scan, fixed, Result, nIter, fWorkToDo,
                 RetValue, cexs>>

StartJob ==
  /\ mpc = "raise"
  /\ fWorking' = [fWorking EXCEPT ![scan] = 1]
  /\ NextWorker
  /\ UNCHANGED <<worker, job, fixed, own>>

\* "if ( nIterMax && nIter >= nIterMax ) break;"
EndOfScan ==
  /\ mpc = "endscan"
  /\ mpc' = IF nIterMax > 0 /\ nIter >= nIterMax THEN "conclude" ELSE "while"
  /\ UNCHANGED <<worker, record, scan, fixed, own>>

NoMoreWork ==
  /\ mpc = "while"
  /\ ~fWorkToDo
  /\ mpc' = "conclude"
  /\ UNCHANGED <<worker, record, scan, fixed, own>>

\* Mutant: every way out of the loop is a proof.
ConcludeUnsat ==
  /\ mpc = "conclude"
  /\ RetValue' = UNSAT
  /\ mpc' = "wait"
  /\ scan' = 1
  /\ UNCHANGED <<worker, record, fixed, vStack, pCnf, Result, nIter, fWorkToDo,
                 cexs>>

\* "if ( !fWorkToDo ) RetValue = 1;"
Conclude ==
  /\ mpc = "conclude"
  /\ RetValue' = IF fWorkToDo THEN RetValue ELSE UNSAT
  /\ mpc' = "wait"
  /\ scan' = 1
  /\ UNCHANGED <<worker, record, fixed, vStack, pCnf, Result, nIter, fWorkToDo,
                 cexs>>

WaitAll == WaitScan /\ UNCHANGED <<fixed, own>>

NextStop ==
  IF scan < nProcs THEN scan' = scan + 1 /\ mpc' = "stop"
                   ELSE mpc' = "returned" /\ UNCHANGED scan

\* The loop that stops the threads: "if ( ThData[i].pCnf == NULL ) continue;"
StopSkipped ==
  /\ mpc = "stop"
  /\ scan \notin pCnf
  /\ job' = [job EXCEPT ![scan] = NoJob]
  /\ NextStop
  /\ UNCHANGED <<worker, fWorking, fixed, own>>

StopCleanup ==
  /\ mpc = "stop"
  /\ scan \in pCnf
  /\ pCnf' = pCnf \ {scan}
  /\ job' = [job EXCEPT ![scan] = NoJob]
  /\ mpc' = "stopraise"
  /\ UNCHANGED <<worker, fWorking, scan, fixed, vStack, Result, nIter,
                 fWorkToDo, RetValue, cexs>>

StopThread ==
  /\ mpc = "stopraise"
  /\ fWorking' = [fWorking EXCEPT ![scan] = 1]
  /\ NextStop
  /\ UNCHANGED <<worker, job, fixed, vStack, pCnf, Result, nIter, fWorkToDo,
                 RetValue, cexs>>

Manager ==
  \/ StartThreads \/ WhileWork \/ StillWorking \/ NothingToCollect
  \/ CollectSat \/ CollectOther \/ NoCofactorLeft \/ AssignCofactor \/ StartJob
  \/ EndOfScan \/ NoMoreWork \/ Conclude \/ WaitAll \/ StopSkipped
  \/ StopCleanup \/ StopThread

\* Cec_GiaSplitWorkerThread
WorkerThread(w) ==
  \/ /\ Wake(w) \/ ReadJob(w) \/ ClearFlag(w)
     /\ UNCHANGED <<mpc, scan, fixed, own>>
  \/ /\ Solved(w)
     /\ \E status \in Answers(cur[w]) :
          /\ Result' = [Result EXCEPT ![w] = status]
          /\ IF status = SAT THEN \E m \in Models(cur[w]) : pCex' = [pCex EXCEPT ![w] = m]
                            ELSE UNCHANGED pCex
     /\ UNCHANGED <<mpc, scan, fixed, vStack, pCnf, nIter, fWorkToDo, RetValue,
                    pCexComb>>

Reused(w) == FrameReused(w) /\ UNCHANGED <<fixed, own>>

Next == Manager \/ \E w \in Worker : WorkerThread(w) \/ Reused(w)

Spec == Init /\ [][Next]_vars

\* Every thread is scheduled, and the solver comes back.
FairSpec == /\ Spec
            /\ WF_vars(Manager)
            /\ \A w \in Worker : WF_vars(WorkerThread(w))

-----------------------------------------------------------------------------
\* The workers whose cofactor has not been collected yet.
Busy == {w \in Worker : job[w] # NoJob}

\* Until a verdict is reached no assignment is lost or given out twice: what can
\* make the miter 1 is on the stack or in some worker's record.
NothingLost ==
  mpc \in {"create", "while", "scan", "assign", "raise", "endscan"} =>
    LET given == {job[w] : w \in Busy}
        out   == given \union Range(vStack)
    IN  /\ Sat \subseteq Covered(out)
        /\ \A c, d \in out : c # d => Inputs(c) \intersect Inputs(d) = {}
        /\ Cardinality(given) = Cardinality(Busy)
        /\ given \intersect Range(vStack) = {}

\* A verdict is right, and UNDECIDED is left to a call with an iteration limit.
RightVerdict ==
  mpc \in {"wait", "stop", "stopraise", "returned"} =>
    CASE RetValue = SAT   -> Sat # {}
      [] RetValue = UNSAT -> Sat = {}
      [] OTHER            -> nIterMax > 0 /\ nIter >= nIterMax
=============================================================================
