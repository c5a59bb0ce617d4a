----------------------------- MODULE WorkerPool -----------------------------
(***************************************************************************)
(* The thread pool that the parallel commands of ABC are written with.     *)
(* There is no lock and no condition variable.  Each worker has a record   *)
(* ThData[i] in the manager's stack frame and spins on its fWorking flag;  *)
(* the manager stores a job in the record and raises the flag, the worker  *)
(* stores its result and clears it.  A job that is NULL (or -1) tells the  *)
(* worker to exit.  Nobody joins the workers: when the manager returns the *)
(* frame that holds ThData is gone, and a worker that still has to look at *)
(* its record finds whatever the stack holds by then.                      *)
(*                                                                         *)
(* This module holds the record, the worker thread and the parts of the    *)
(* manager that every copy has; a manager module extends it.  The steps    *)
(* are the loads and stores of the record, in program order.               *)
(***************************************************************************)
EXTENDS Integers, FiniteSets

CONSTANTS
  nProcs,     \* the number of workers (the manager's thread already taken off)
  NoJob,      \* what tells a worker to exit: NULL, or index -1
  Garbage     \* what a record that was never written, or is gone, may hold

ASSUME PoolConstants ==
  /\ nProcs \in Nat \ {0}
  /\ NoJob # Garbage

VARIABLES
  wpc,        \* where each worker is
  cur,        \* the job it read when it was woken
  fWorking,   \* ThData[i].fWorking
  job,        \* ThData[i].p, pGia, Index or iLit
  mpc,        \* where the manager is
  scan        \* its loop variable i

Worker == 1..nProcs
record == <<fWorking, job>>
worker == <<wpc, cur>>

WorkerPcs == {"none", "spin", "read", "run", "clear", "exit", "lost"}

PoolInit(job0) ==
  /\ wpc = [w \in Worker |-> "none"]
  /\ cur = [w \in Worker |-> NoJob]
  /\ fWorking = [w \in Worker |-> 0]
  /\ job = [w \in Worker |-> job0]
  /\ mpc = "create"
  /\ scan = 1

-----------------------------------------------------------------------------
(* The worker thread. *)

\* Mutant: the worker looks at its record without waiting for the flag.
WakeEarly(w) ==
  /\ wpc[w] = "spin"
  /\ wpc' = [wpc EXCEPT ![w] = "read"]
  /\ UNCHANGED <<cur, record>>

\* "while ( *pPlace == 0 );" ends.
Wake(w) ==
  /\ wpc[w] = "spin"
  /\ fWorking[w] = 1
  /\ wpc' = [wpc EXCEPT ![w] = "read"]
  /\ UNCHANGED <<cur, record>>

\* assert( fWorking ), then look at the job.
ReadJob(w) ==
  /\ wpc[w] = "read"
  /\ cur' = [cur EXCEPT ![w] = job[w]]
  /\ wpc' = [wpc EXCEPT ![w] = CASE job[w] = NoJob   -> "exit"
                                 [] job[w] = Garbage -> "lost"
                                 [] OTHER            -> "run"]
  /\ UNCHANGED record

\* The solver returns; its result is stored (in variables of the manager
\* module).
Solved(w) ==
  /\ wpc[w] = "run"
  /\ wpc' = [wpc EXCEPT ![w] = "clear"]
  /\ UNCHANGED <<cur, record>>

\* Mutant: the worker ends after its job, and leaves the flag up.
LeaveRaised(w) ==
  /\ wpc[w] = "clear"
  /\ wpc' = [wpc EXCEPT ![w] = "exit"]
  /\ UNCHANGED <<cur, record>>

ClearFlag(w) ==
  /\ wpc[w] = "clear"
  /\ fWorking' = [fWorking EXCEPT ![w] = 0]
  /\ wpc' = [wpc EXCEPT ![w] = "spin"]
  /\ cur' = [cur EXCEPT ![w] = NoJob]
  /\ UNCHANGED job

-----------------------------------------------------------------------------
(* The manager's common parts. *)

\* One turn of the loop that starts the threads.
CreateWorker(next) ==
  /\ mpc = "create"
  /\ wpc' = [wpc EXCEPT ![scan] = "spin"]
  /\ IF scan < nProcs
       THEN scan' = scan + 1 /\ UNCHANGED mpc
       ELSE scan' = 1 /\ mpc' = next
  /\ UNCHANGED <<cur, record>>

\* The job is stored first (by the manager module), then the flag is raised.
RaiseFlag(from, next) ==
  /\ mpc = from
  /\ fWorking' = [fWorking EXCEPT ![scan] = 1]
  /\ mpc' = next
  /\ UNCHANGED <<worker, job>>

\* Mutant: one look at each worker, busy or not.
WaitOnce ==
  /\ mpc = "wait"
  /\ IF scan < nProcs THEN scan' = scan + 1 /\ UNCHANGED mpc
                      ELSE scan' = 1 /\ mpc' = "stop"
  /\ UNCHANGED <<worker, record>>

\* "for ( i = 0; i < nProcs; i++ ) if ( fWorking ) i = -1;"
WaitScan ==
  /\ mpc = "wait"
  /\ \/ /\ fWorking[scan] = 1
        /\ scan' = 1
        /\ UNCHANGED mpc
     \/ /\ fWorking[scan] = 0
        /\ IF scan < nProcs
             THEN scan' = scan + 1 /\ UNCHANGED mpc
             ELSE scan' = 1 /\ mpc' = "stop"
  /\ UNCHANGED <<worker, record>>

\* The loop that stops the threads: the job goes away, then the flag is raised.
StopStore ==
  /\ mpc = "stop"
  /\ job' = [job EXCEPT ![scan] = NoJob]
  /\ mpc' = "stopraise"
  /\ UNCHANGED <<worker, fWorking, scan>>

StopRaise ==
  /\ RaiseFlag("stopraise", IF scan < nProcs THEN "stop" ELSE "returned")
  /\ scan' = IF scan < nProcs THEN scan + 1 ELSE scan

\* The frame of a manager that has returned is used for something else.
FrameReused(w) ==
  /\ mpc = "returned"
  /\ wpc[w] \in {"spin", "read"}
  /\ fWorking' = [fWorking EXCEPT ![w] = 1 - @]
  /\ job' = [job EXCEPT ![w] = Garbage]
  /\ UNCHANGED <<worker, mpc, scan>>

-----------------------------------------------------------------------------
\* The worker's own "assert( pThData->fWorking )", at any time.
WorkerAssert == \A w \in Worker : wpc[w] = "read" => fWorking[w] = 1

\* The same while the manager is there, and no worker starts on a record that
\* was not filled in.
SafeWhileManaged ==
  mpc # "returned" =>
    \A w \in Worker : /\ wpc[w] = "read" => fWorking[w] = 1
                      /\ wpc[w] # "lost"

\* The manager's "assert( !ThData[i].fWorking )" in the loop that stops the
\* threads, for the workers it has still to stop.
StopAssert ==
  mpc \in {"stop", "stopraise"} =>
    \A w \in Worker : w >= scan => fWorking[w] = 0 /\ wpc[w] = "spin"
=============================================================================
