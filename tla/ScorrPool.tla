----------------------------- MODULE ScorrPool ------------------------------
(***************************************************************************)
(* Ssw_SignalCorrespondenceArray (proof/ssw/sswPart.c): signal             *)
(* correspondence for an array of AIGs, each one a job.  The AIGs are on a *)
(* stack, and the manager gives the top one to the first idle worker.      *)
(***************************************************************************)
EXTENDS WorkerPool

CONSTANT nGias   \* the number of AIGs

ASSUME GiasOK == nGias \in Nat

VARIABLES
  top,      \* the size of vStack: it holds the AIGs 1..top
  swept     \* how often each AIG went through the procedure

vars == <<wpc, cur, fWorking, job, mpc, scan, top, swept>>

Gias == 1..nGias

\* The jobs are numbered; the two other contents of a record are not AIGs.
ASSUME RecordOK == NoJob \notin Gias /\ Garbage \notin Gias

MgrPcs == {"create", "while", "scan", "raise", "wait", "stop", "stopraise",
           "returned"}

Init ==
  /\ PoolInit(Garbage)          \* ThData[i].p is not initialized
  /\ top = nGias
  /\ swept = [g \in Gias |-> 0]

StartThreads == CreateWorker("while") /\ UNCHANGED <<top, swept>>

\* Mutants: the stack is read one job too far, or one too few.
WhileTooLong ==
  /\ mpc = "while"
  /\ mpc' = IF top >= 0 THEN "scan" ELSE "wait"
  /\ scan' = 1
  /\ UNCHANGED <<worker, record, top, swept>>

WhileTooShort ==
  /\ mpc = "while"
  /\ mpc' = IF top > 1 THEN "scan" ELSE "wait"
  /\ scan' = 1
  /\ UNCHANGED <<worker, record, top, swept>>

\* "while ( Vec_PtrSize(vStack) > 0 )"
WhileJobs ==
  /\ mpc = "while"
  /\ mpc' = IF top > 0 THEN "scan" ELSE "wait"
  /\ scan' = 1
  /\ UNCHANGED <<worker, record, top, swept>>

\* "if ( ThData[i].fWorking ) continue;"
SkipBusy ==
  /\ mpc = "scan"
  /\ fWorking[scan] = 1
  /\ IF scan < nProcs THEN scan' = scan + 1 /\ UNCHANGED mpc
                      ELSE mpc' = "while" /\ UNCHANGED scan
  /\ UNCHANGED <<worker, record, top, swept>>

\* Mutant: the flag of the worker is not looked at.
PopForBusy ==
  /\ mpc = "scan"
  /\ job' = [job EXCEPT ![scan] = top]
  /\ top' = top - 1
  /\ mpc' = "raise"
  /\ UNCHANGED <<worker, fWorking, scan, swept>>

PopJob ==
  /\ mpc = "scan"
  /\ fWorking[scan] = 0
  /\ job' = [job EXCEPT ![scan] = top]
  /\ top' = top - 1
  /\ mpc' = "raise"
  /\ UNCHANGED <<worker, fWorking, scan, swept>>

StartJob == RaiseFlag("raise", "while") /\ UNCHANGED <<scan, top, swept>>

WaitAll     == WaitScan  /\ UNCHANGED <<top, swept>>
StopThreads == (StopStore \/ StopRaise) /\ UNCHANGED <<top, swept>>

Manager == \/ StartThreads \/ WhileJobs \/ SkipBusy \/ PopJob \/ StartJob
           \/ WaitAll \/ StopThreads

\* Ssw_GiaWorkerThread
WorkerThread(w) ==
  \/ /\ Wake(w) \/ ReadJob(w) \/ ClearFlag(w)
     /\ UNCHANGED <<mpc, scan, top, swept>>
  \/ /\ Solved(w)
     /\ swept' = [swept EXCEPT ![cur[w]] = @ + 1]
     /\ UNCHANGED <<mpc, scan, top>>

Reused(w) == FrameReused(w) /\ UNCHANGED <<top, swept>>

Next == Manager \/ \E w \in Worker : WorkerThread(w) \/ Reused(w)

Spec == Init /\ [][Next]_vars

\* Every thread is scheduled, and the procedure ends on every AIG.
FairSpec == /\ Spec
            /\ WF_vars(Manager)
            /\ \A w \in Worker : WF_vars(WorkerThread(w))

-----------------------------------------------------------------------------
TypeOK ==
  /\ wpc \in [Worker -> WorkerPcs]
  /\ cur \in [Worker -> Gias \union {NoJob, Garbage}]
  /\ fWorking \in [Worker -> {0, 1}]
  /\ job \in [Worker -> Gias \union {NoJob, Garbage}]
  /\ mpc \in MgrPcs
  /\ scan \in Worker
  /\ top \in 0..nGias
  /\ swept \in [Gias -> Nat]

\* When the manager returns every AIG has been processed exactly once.
AllSwept == mpc = "returned" => \A g \in Gias : swept[g] = 1

\* Ssw_SignalCorrespondenceArray returns.
Returns == <>(mpc = "returned")

\* A pool of this kind is a JobPool.  A worker has its job from the moment the
\* manager stores it until the solver is through.
InHand == [w \in Worker |->
             IF \/ mpc = "raise" /\ w = scan
                \/ fWorking[w] = 1 /\ wpc[w] \in {"spin", "read"} /\ mpc # "returned"
             THEN {job[w]} \ {NoJob}
             ELSE IF wpc[w] = "run" THEN {cur[w]} ELSE {}]
Pool == INSTANCE JobPool WITH
          Worker <- Worker, Jobs <- Gias, todo <- 1..top, inHand <- InHand,
          done <- {g \in Gias : swept[g] > 0}, back <- mpc = "returned"
IsJobPool == Pool!JSpec
=============================================================================
