------------------------------ MODULE StochPool ------------------------------
(***************************************************************************)
(* Gia_StochProcess (aig/gia/giaStoch.c): a synthesis script on every AIG  *)
(* of an array, in place.  A worker hands its AIG to another abc process   *)
(* through a file, whose name is the random number of the worker: the      *)
(* number is drawn once per worker, so the jobs of a worker share it.      *)
(***************************************************************************)
EXTENDS WorkerPool, FiniteSetsExt

CONSTANTS
  nGias,
  Rands     \* the file names there are

Gias == 1..nGias

Absent == 0   \* no such file

VARIABLES
  k,         \* the index of the next AIG
  Rand,      \* ThData[i].Rand
  file,      \* file name -> whose AIG is in it, or Absent
  sub,       \* where each worker is with its file
  vGias      \* entry -> the entry whose AIG it was made from

own  == <<k, Rand, file, sub, vGias>>
vars == <<wpc, cur, fWorking, job, mpc, scan, own>>

\* The generator is reset first; its first 100 values are all different.
Init ==
  /\ PoolInit(NoJob)
  /\ k = 1
  /\ Rand \in {r \in [Worker -> Rands] : \A v, w \in Worker : v # w => r[v] # r[w]}
  /\ file = [r \in Rands |-> Absent]
  /\ sub = [w \in Worker |-> "idle"]
  /\ vGias = [g \in Gias |-> Absent]

StartThreads == CreateWorker("for") /\ UNCHANGED own

\* Mutant: the last AIG is left out.
ForTooShort ==
  /\ mpc = "for"
  /\ mpc' = IF k < nGias THEN "scan" ELSE "wait"
  /\ scan' = 1
  /\ UNCHANGED <<worker, record, own>>

\* "for ( k = 0; k < Vec_PtrSize(vGias); k++ )"
ForJobs ==
  /\ mpc = "for"
  /\ mpc' = IF k <= nGias THEN "scan" ELSE "wait"
  /\ scan' = 1
  /\ UNCHANGED <<worker, record, own>>

\* Every worker is busy: "if ( i == nProcs ) k--;"
SkipBusy ==
  /\ mpc = "scan"
  /\ fWorking[scan] = 1
  /\ IF scan < nProcs THEN scan' = scan + 1 /\ UNCHANGED mpc
                      ELSE mpc' = "for" /\ UNCHANGED scan
  /\ UNCHANGED <<worker, record, own>>

AssignGia ==
  /\ mpc = "scan"
  /\ fWorking[scan] = 0
  /\ job' = [job EXCEPT ![scan] = k]
  /\ mpc' = "raise"
  /\ UNCHANGED <<worker, fWorking, scan, own>>

StartJob ==
  /\ RaiseFlag("raise", "for")
  /\ k' = k + 1
  /\ UNCHANGED <<scan, Rand, file, sub, vGias>>

WaitAll     == WaitScan /\ UNCHANGED own
StopThreads == (StopStore \/ StopRaise) /\ UNCHANGED own

Manager == \/ StartThreads \/ ForJobs \/ SkipBusy \/ AssignGia \/ StartJob
           \/ WaitAll \/ StopThreads

-----------------------------------------------------------------------------
(* Gia_StochProcessOne, inside the worker's job. *)

WriteFile(w) ==
  /\ wpc[w] = "run" /\ sub[w] = "idle"
  /\ file' = [file EXCEPT ![Rand[w]] = cur[w]]
  /\ sub' = [sub EXCEPT ![w] = "system"]
  /\ UNCHANGED <<worker, record, mpc, scan, k, Rand, vGias>>

\* The other process rewrites the file; or it fails, the file is removed, and
\* the AIG is kept as it was.
SystemReturns(w) ==
  /\ sub[w] = "system"
  /\ sub' = [sub EXCEPT ![w] = "read"]
  /\ UNCHANGED <<worker, record, mpc, scan, k, Rand, file, vGias>>

SystemFails(w) ==
  /\ sub[w] = "system"
  /\ Solved(w)
  /\ file' = [file EXCEPT ![Rand[w]] = Absent]
  /\ vGias' = [vGias EXCEPT ![cur[w]] = cur[w]]
  /\ sub' = [sub EXCEPT ![w] = "idle"]
  /\ UNCHANGED <<mpc, scan, k, Rand>>

\* The result is read back, and the smaller of the two AIGs is kept.
ReadFile(w) ==
  /\ sub[w] = "read"
  /\ Solved(w)
  /\ \E made \in {file[Rand[w]] , cur[w]} \ {Absent} :
       vGias' = [vGias EXCEPT ![cur[w]] = made]
  /\ file' = [file EXCEPT ![Rand[w]] = Absent]
  /\ sub' = [sub EXCEPT ![w] = "idle"]
  /\ UNCHANGED <<mpc, scan, k, Rand>>

\* Gia_StochWorkerThread
WorkerThread(w) ==
  \/ /\ Wake(w) \/ ReadJob(w) \/ ClearFlag(w)
     /\ UNCHANGED <<mpc, scan, own>>
  \/ WriteFile(w) \/ SystemReturns(w) \/ SystemFails(w) \/ ReadFile(w)

Reused(w) == FrameReused(w) /\ UNCHANGED own

Next == Manager \/ \E w \in Worker : WorkerThread(w) \/ Reused(w)

Spec == Init /\ [][Next]_vars

\* Every thread is scheduled, and the other process ends.
FairSpec == /\ Spec
            /\ WF_vars(Manager)
            /\ \A w \in Worker : WF_vars(WorkerThread(w))

-----------------------------------------------------------------------------
\* No worker ever reads back an AIG another worker wrote, and a file is only
\* there while its worker uses it.
OwnFile ==
  \A w \in Worker :
    file[Rand[w]] = IF sub[w] = "idle" THEN Absent ELSE cur[w]

\* When the call returns every entry was replaced, by a version of itself.
InPlace == mpc = "returned" => \A g \in Gias : vGias[g] = g
=============================================================================
