------------------------------- MODULE CnfPool -------------------------------
(***************************************************************************)
(* Cnf_RunSolver (sat/cnf/cnfUtil.c): a portfolio.  Problems are numbered  *)
(* from 0, as many as there are workers (this manager keeps no core for    *)
(* itself), and the call returns one solution of any of them.              *)
(***************************************************************************)
EXTENDS WorkerPool

Indices == 0..(nProcs - 1)

NULL == -1

VARIABLES
  k,        \* the next problem
  vRes,     \* ThData[i].vRes: the problem it solves, or NULL
  vResOut,  \* the solution that will be returned
  solved,   \* the problems a solution was found for
  freed,    \* the solutions that were freed
  runs      \* how often each problem was given out

own  == <<k, vRes, vResOut, solved, freed, runs>>
vars == <<wpc, cur, fWorking, job, mpc, scan, own>>

Init ==
  /\ PoolInit(NoJob)
  /\ k = 0
  /\ vRes = [w \in Worker |-> NULL]
  /\ vResOut = NULL
  /\ solved = {}
  /\ freed = {}
  /\ runs = [p \in Indices |-> 0]

StartThreads == CreateWorker("for") /\ UNCHANGED own

\* "for ( k = 0; k < nProcs; )"
ForJobs ==
  /\ mpc = "for"
  /\ mpc' = IF k < nProcs THEN "scan" ELSE "wait"
  /\ scan' = 1
  /\ UNCHANGED <<worker, record, own>>

SkipBusy ==
  /\ mpc = "scan"
  /\ fWorking[scan] = 1
  /\ IF scan < nProcs THEN scan' = scan + 1 /\ UNCHANGED mpc
                      ELSE mpc' = "for" /\ UNCHANGED scan
  /\ UNCHANGED <<worker, record, own>>

\* The first idle worker has a solution: no more problems are given out.
SolutionSeen ==
  /\ mpc = "scan"
  /\ fWorking[scan] = 0
  /\ vRes[scan] # NULL
  /\ k' = nProcs
  /\ mpc' = "for"
  /\ UNCHANGED <<worker, record, scan, vRes, vResOut, solved, freed, runs>>

AssignIndex ==
  /\ mpc = "scan"
  /\ fWorking[scan] = 0
  /\ vRes[scan] = NULL
  /\ job' = [job EXCEPT ![scan] = k]
  /\ runs' = [runs EXCEPT ![k] = @ + 1]
  /\ k' = k + 1
  /\ mpc' = "raise"
  /\ UNCHANGED <<worker, fWorking, scan, vRes, vResOut, solved, freed>>

StartJob == RaiseFlag("raise", "for") /\ UNCHANGED <<scan, own>>

WaitAll == WaitScan /\ UNCHANGED own

\* Mutant: what the last worker has is taken, and nothing is freed.
TakeLast ==
  /\ mpc = "stop"
  /\ vResOut' = vRes[scan]
  /\ vRes' = [vRes EXCEPT ![scan] = NULL]
  /\ job' = [job EXCEPT ![scan] = NoJob]
  /\ mpc' = "stopraise"
  /\ UNCHANGED <<worker, fWorking, scan, k, solved, freed, runs>>

\* The loop that stops the threads also takes the first solution, and frees
\* the others.
TakeSolution ==
  /\ mpc = "stop"
  /\ vResOut' = IF vResOut = NULL THEN vRes[scan] ELSE vResOut
  /\ freed' = IF vResOut = NULL THEN freed ELSE freed \union ({vRes[scan]} \ {NULL})
  /\ vRes' = [vRes EXCEPT ![scan] = NULL]
  /\ job' = [job EXCEPT ![scan] = NoJob]
  /\ mpc' = "stopraise"
  /\ UNCHANGED <<worker, fWorking, scan, k, solved, runs>>

StopThread == StopRaise /\ UNCHANGED own

Manager == \/ StartThreads \/ ForJobs \/ SkipBusy \/ SolutionSeen
           \/ AssignIndex \/ StartJob \/ WaitAll \/ TakeSolution \/ StopThread

\* Cnf_WorkerThread; a run finds a solution, or none in the time it has.
WorkerThread(w) ==
  \/ /\ Wake(w) \/ ReadJob(w) \/ ClearFlag(w)
     /\ UNCHANGED <<mpc, scan, own>>
  \/ /\ Solved(w)
     /\ \/ /\ vRes' = [vRes EXCEPT ![w] = cur[w]]
           /\ solved' = solved \union {cur[w]}
        \/ /\ vRes' = [vRes EXCEPT ![w] = NULL]
           /\ UNCHANGED solved
     /\ UNCHANGED <<mpc, scan, k, vResOut, freed, runs>>

Reused(w) == FrameReused(w) /\ UNCHANGED own

Next == Manager \/ \E w \in Worker : WorkerThread(w) \/ Reused(w)

Spec == Init /\ [][Next]_vars

\* Every thread is scheduled, and the solver process ends.
FairSpec == /\ Spec
            /\ WF_vars(Manager)
            /\ \A w \in Worker : WF_vars(WorkerThread(w))

-----------------------------------------------------------------------------
\* Every solution that was found is in a record, or was freed, or is the one
\* that is returned: none is overwritten by a later run of its worker, and
\* none is freed and returned.
NoSolutionLost ==
  LET held == {vRes[w] : w \in Worker} \ {NULL}
      out  == {vResOut} \ {NULL}
  IN  /\ solved = held \union freed \union out
      /\ held \intersect freed = {} /\ out \intersect (held \union freed) = {}

\* A problem is given out at most once, and all of them are unless there is a
\* solution; the call returns a solution whenever there is one.
PortfolioResult ==
  mpc = "returned" =>
    /\ \A p \in Indices : runs[p] = 1 \/ (runs[p] = 0 /\ solved # {})
    /\ vResOut = NULL <=> solved = {}
    /\ freed = solved \ {vResOut}
=============================================================================
