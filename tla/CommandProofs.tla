--------------------------- MODULE CommandProofs ---------------------------
(***************************************************************************)
(* Proofs about six commands of a session, for every number of workers,    *)
(* jobs and lines: the solver portfolio (CnfPool), stochastic synthesis    *)
(* (StochPool), the autotuner (TunerPool) and multi-solver bounded model   *)
(* checking (BmcsPool), whose managers give jobs to a WorkerPool; the      *)
(* stand-alone starter (StarterProgram); and gate-level abstraction with   *)
(* its prover thread (Gla).                                                *)
(***************************************************************************)
EXTENDS ParallelCommands, FoldTheorems

LEMMA PoolConstants == nProcs \in Nat \ {0} /\ NoJob # Garbage
  BY CommandConstants, JobConstants

\* Neither what ends a worker nor what a lost record holds is an index.
CnfBounds == NoJob \notin Cnf!Indices /\ Garbage \notin Cnf!Indices

LEMMA CnfBoundsHold == CnfBounds
  BY PoolConstants, JobConstants DEF CnfBounds, Cnf!Indices

CnfJobs == Cnf!Indices \union {NoJob, Garbage}
CnfMPcs == {"create", "for", "scan", "raise", "wait", "stop", "stopraise", "returned"}

\* The types of the program's variables.
CnfTypeOK ==
  /\ wpc \in [Cnf!Worker -> Cnf!WorkerPcs] /\ cur \in [Cnf!Worker -> CnfJobs]
  /\ fWorking \in [Cnf!Worker -> {0, 1}] /\ job \in [Cnf!Worker -> CnfJobs]
  /\ mpc \in CnfMPcs /\ scan \in Cnf!Worker
  /\ k \in 0..nProcs /\ runs \in [Cnf!Indices -> Nat]
  /\ vRes \in [Cnf!Worker -> Cnf!Indices \union {Cnf!NULL}]
  /\ vResOut \in Cnf!Indices \union {Cnf!NULL}
  /\ solved \subseteq Cnf!Indices /\ freed \subseteq Cnf!Indices

-----------------------------------------------------------------------------
(* The solver portfolio: the inductive invariant. *)

\* A worker with nothing to do, and one that has a problem.
CnfIdle(w) == wpc[w] = "spin" /\ fWorking[w] = 0
CnfBusy(w) ==
  /\ fWorking[w] = 1 /\ wpc[w] \in {"spin", "read", "run", "clear"}
  /\ wpc[w] \in {"spin", "read"} => job[w] \in Cnf!Indices
  /\ wpc[w] = "run" => cur[w] \in Cnf!Indices

CnfStopping == {"stop", "stopraise", "returned"}

\* Flags and positions of manager and workers.
CnfLinkInv ==
  /\ mpc = "create" =>
       \A w \in Cnf!Worker :
         fWorking[w] = 0 /\ wpc[w] = IF w < scan THEN "spin" ELSE "none"
  /\ mpc \in {"for", "scan", "raise", "wait"} =>
       \A w \in Cnf!Worker : CnfIdle(w) \/ CnfBusy(w)
  /\ mpc = "scan" => k < nProcs
  /\ mpc = "raise" => CnfIdle(scan) /\ job[scan] \in Cnf!Indices
  /\ mpc = "wait" => \A w \in Cnf!Worker : w < scan => CnfIdle(w)
  /\ mpc \in {"stop", "stopraise"} =>
       \A w \in Cnf!Worker : /\ w >= scan => CnfIdle(w)
                             /\ w < scan => job[w] = NoJob
  /\ mpc = "stopraise" => job[scan] = NoJob
  /\ mpc = "returned" => \A w \in Cnf!Worker : job[w] \in {NoJob, Garbage}
  /\ mpc \in CnfStopping => \A w \in Cnf!Worker : wpc[w] \notin {"run", "clear"}

\* The problem a worker has: to solve, or with its solution.
CnfHas(w, p) ==
  \/ vRes[w] = p
  \/ fWorking[w] = 1 /\ wpc[w] \in {"spin", "read"} /\ job[w] = p /\ mpc \notin CnfStopping
  \/ mpc = "raise" /\ w = scan /\ job[w] = p
  \/ wpc[w] = "run" /\ cur[w] = p

\* No two workers have the same problem, and a worker with a solution gets no
\* other one.
CnfHandInv ==
  /\ \A v, w \in Cnf!Worker : \A p \in Cnf!Indices : CnfHas(v, p) /\ CnfHas(w, p) => v = w
  /\ \A w \in Cnf!Worker : \A p \in Cnf!Indices : CnfHas(w, p) => p < k
  /\ \A w \in Cnf!Worker :
       vRes[w] # Cnf!NULL =>
         /\ wpc[w] = "clear" \/ CnfIdle(w)
         /\ mpc = "raise" => w # scan
  /\ mpc = "create" => \A w \in Cnf!Worker : vRes[w] = Cnf!NULL

\* Which problems were given out.
CnfRunsInv ==
  /\ \A p \in Cnf!Indices : p >= k => runs[p] = 0
  /\ \A p \in Cnf!Indices : p < k => runs[p] = 1 \/ (runs[p] = 0 /\ solved # {})
  /\ mpc = "wait" \/ mpc \in CnfStopping => k = nProcs

\* What the last loop has taken and freed so far.
CnfTakeInv ==
  /\ mpc \notin CnfStopping => freed = {} /\ vResOut = Cnf!NULL
  /\ mpc \in {"stop", "stopraise"} => \A w \in Cnf!Worker : w < scan => vRes[w] = Cnf!NULL
  /\ mpc = "stopraise" => vRes[scan] = Cnf!NULL
  /\ mpc = "returned" => \A w \in Cnf!Worker : vRes[w] = Cnf!NULL
  /\ freed # {} => vResOut # Cnf!NULL

CnfIInv ==
  /\ CnfTypeOK /\ CnfLinkInv /\ CnfHandInv /\ CnfRunsInv /\ CnfTakeInv
  /\ Cnf!NoSolutionLost

-----------------------------------------------------------------------------
(* The portfolio: lemmas about its data. *)

\* The workers are numbered from 1.
LEMMA CnfWorkersAre ==
  /\ \A w \in Cnf!Worker : w \in Nat /\ 1 <= w /\ w <= nProcs
  /\ 1 \in Cnf!Worker /\ nProcs \in Cnf!Worker
  /\ \A w \in Cnf!Worker : w < nProcs => w + 1 \in Cnf!Worker
  BY PoolConstants DEF Cnf!Worker

\* The problems are numbered from 0.
LEMMA CnfIndicesAre ==
  /\ \A p : p \in Cnf!Indices <=> p \in Nat /\ p < nProcs
  /\ Cnf!NULL \notin Cnf!Indices
  /\ NoJob \in CnfJobs /\ Garbage \in CnfJobs /\ Cnf!Indices \subseteq CnfJobs
  BY PoolConstants DEF Cnf!Indices, CnfJobs, Cnf!NULL

\* A worker that runs a solver has a problem.
LEMMA CnfRunning ==
  ASSUME CnfTypeOK, CnfLinkInv, NEW w \in Cnf!Worker, wpc[w] = "run"
  PROVE  cur[w] \in Cnf!Indices /\ mpc \notin CnfStopping
  BY DEF CnfTypeOK, CnfLinkInv, CnfIdle, CnfBusy, CnfMPcs, CnfStopping

\* A worker that reads a job starts on it while the manager gives jobs out, and
\* ends after that.
LEMMA CnfReadJob ==
  ASSUME CnfBounds, CnfTypeOK, CnfLinkInv, NEW w \in Cnf!Worker, Cnf!ReadJob(w)
  PROVE  /\ wpc[w] = "read" /\ mpc # "create" /\ (mpc = "raise" => w # scan)
         /\ cur' = [cur EXCEPT ![w] = job[w]]
         /\ \/ /\ mpc \notin CnfStopping
               /\ job[w] \in Cnf!Indices /\ fWorking[w] = 1
               /\ wpc' = [wpc EXCEPT ![w] = "run"]
            \/ /\ mpc \in CnfStopping
               /\ \/ wpc' = [wpc EXCEPT ![w] = "exit"]
                  \/ wpc' = [wpc EXCEPT ![w] = "lost"]
         /\ UNCHANGED <<fWorking, job>>
<1>1. /\ wpc[w] = "read" /\ cur' = [cur EXCEPT ![w] = job[w]]
      /\ UNCHANGED <<fWorking, job>>
  BY DEF Cnf!ReadJob, Cnf!record
<1>2. /\ job[w] = NoJob => wpc' = [wpc EXCEPT ![w] = "exit"]
      /\ job[w] = Garbage => wpc' = [wpc EXCEPT ![w] = "lost"]
      /\ job[w] \notin {NoJob, Garbage} => wpc' = [wpc EXCEPT ![w] = "run"]
  BY PoolConstants DEF Cnf!ReadJob
<1>3. ~CnfIdle(w) /\ mpc # "create" /\ (mpc = "raise" => w # scan)
  BY <1>1 DEF CnfTypeOK, CnfLinkInv, CnfIdle
<1>4. CASE mpc \in CnfStopping
  <2>1. w >= scan \/ w < scan
    BY CnfWorkersAre DEF CnfTypeOK
  <2>2. job[w] \in {NoJob, Garbage}
    BY <1>3, <1>4, <2>1 DEF CnfLinkInv, CnfStopping
  <2> QED
    BY <1>1, <1>2, <1>3, <1>4, <2>2
<1>5. CASE mpc \notin CnfStopping
  <2>1. CnfBusy(w)
    BY <1>3, <1>5 DEF CnfTypeOK, CnfMPcs, CnfLinkInv, CnfStopping
  <2>2. job[w] \in Cnf!Indices /\ fWorking[w] = 1
    BY <1>1, <2>1 DEF CnfBusy
  <2>3. job[w] \notin {NoJob, Garbage}
    BY <2>2 DEF CnfBounds
  <2> QED
    BY <1>1, <1>2, <1>3, <1>5, <2>2, <2>3
<1> QED
  BY <1>4, <1>5

-----------------------------------------------------------------------------
(* The portfolio: the steps. *)

\* Every step keeps the types.
LEMMA CnfTypeStep ==
  ASSUME CnfBounds, CnfTypeOK, CnfLinkInv, [Cnf!Next]_(Cnf!vars)
  PROVE  CnfTypeOK'
<1> USE PoolConstants, CnfWorkersAre, CnfIndicesAre DEF Cnf!worker, Cnf!record, Cnf!own,
    CnfTypeOK, CnfMPcs,
      Cnf!WorkerPcs, CnfLinkInv, CnfBusy, CnfIdle, CnfStopping
<1>1. CASE Cnf!StartThreads
  BY <1>1 DEF Cnf!StartThreads, Cnf!CreateWorker
<1>2. CASE Cnf!ForJobs
  BY <1>2 DEF Cnf!ForJobs
<1>3. CASE Cnf!SkipBusy
  BY <1>3 DEF Cnf!SkipBusy
<1>4. CASE Cnf!SolutionSeen
  BY <1>4 DEF Cnf!SolutionSeen
<1>5. CASE Cnf!AssignIndex
  BY <1>5 DEF Cnf!AssignIndex
<1>6. CASE Cnf!StartJob
  BY <1>6 DEF Cnf!StartJob, Cnf!RaiseFlag
<1>7. CASE Cnf!WaitAll
  BY <1>7 DEF Cnf!WaitAll, Cnf!WaitScan
<1>8. CASE Cnf!TakeSolution
  BY <1>8 DEF Cnf!TakeSolution
<1>9. CASE Cnf!StopThread
  BY <1>9 DEF Cnf!StopThread, Cnf!StopRaise, Cnf!RaiseFlag
<1>10. ASSUME NEW w \in Cnf!Worker, Cnf!WorkerThread(w) PROVE CnfTypeOK'
  <2>1. CASE Cnf!Wake(w) /\ UNCHANGED <<mpc, scan, Cnf!own>>
    BY <2>1 DEF Cnf!Wake
  <2>2. CASE Cnf!ReadJob(w) /\ UNCHANGED <<mpc, scan, Cnf!own>>
    BY <2>2, CnfReadJob
  <2>3. CASE Cnf!ClearFlag(w) /\ UNCHANGED <<mpc, scan, Cnf!own>>
    BY <2>3 DEF Cnf!ClearFlag
  <2>4. CASE Cnf!Solved(w)
    <3>1. cur[w] \in Cnf!Indices /\ mpc \notin CnfStopping /\ wpc[w] = "run"
      BY <2>4, CnfRunning DEF Cnf!Solved
    <3> QED
      BY <1>10, <2>4, <3>1 DEF Cnf!WorkerThread, Cnf!Solved, Cnf!Wake, Cnf!ReadJob,
         Cnf!ClearFlag
  <2> QED
    BY <1>10, <2>1, <2>2, <2>3, <2>4 DEF Cnf!WorkerThread
<1>11. ASSUME NEW w \in Cnf!Worker, Cnf!Reused(w) PROVE CnfTypeOK'
  BY <1>11 DEF Cnf!Reused, Cnf!FrameReused
<1>12. CASE UNCHANGED Cnf!vars
  BY <1>12 DEF Cnf!vars
<1> QED
  BY <1>1, <1>2, <1>3, <1>4, <1>5, <1>6, <1>7, <1>8, <1>9, <1>10, <1>11, <1>12 DEF
     Cnf!Next, Cnf!Manager

\* A worker gets a problem only when it is idle.
LEMMA CnfLinkStep ==
  ASSUME CnfBounds, CnfIInv, [Cnf!Next]_(Cnf!vars)
  PROVE  CnfLinkInv'
<1> USE PoolConstants, CnfWorkersAre, CnfIndicesAre DEF Cnf!worker, Cnf!record, Cnf!own,
    CnfBounds, CnfIInv,
      CnfTypeOK, CnfLinkInv, CnfIdle, CnfBusy, CnfStopping
<1>1. CASE Cnf!StartThreads
  BY <1>1 DEF Cnf!StartThreads, Cnf!CreateWorker
<1>2. CASE Cnf!ForJobs
  BY <1>2 DEF Cnf!ForJobs
<1>3. CASE Cnf!SkipBusy
  BY <1>3 DEF Cnf!SkipBusy
<1>4. CASE Cnf!SolutionSeen
  BY <1>4 DEF Cnf!SolutionSeen
<1>5. CASE Cnf!AssignIndex
  BY <1>5 DEF Cnf!AssignIndex
<1>6. CASE Cnf!StartJob
  BY <1>6 DEF Cnf!StartJob, Cnf!RaiseFlag
<1>7. CASE Cnf!WaitAll
  BY <1>7 DEF Cnf!WaitAll, Cnf!WaitScan
<1>8. CASE Cnf!TakeSolution
  BY <1>8 DEF Cnf!TakeSolution
<1>9. CASE Cnf!StopThread
  BY <1>9 DEF Cnf!StopThread, Cnf!StopRaise, Cnf!RaiseFlag
<1>10. ASSUME NEW w \in Cnf!Worker, Cnf!WorkerThread(w) PROVE CnfLinkInv'
  <2>1. CASE Cnf!Wake(w) /\ UNCHANGED <<mpc, scan, Cnf!own>>
    BY <2>1 DEF Cnf!Wake
  <2>2. CASE Cnf!ReadJob(w) /\ UNCHANGED <<mpc, scan, Cnf!own>>
    BY <2>2, CnfReadJob
  <2>3. CASE Cnf!ClearFlag(w) /\ UNCHANGED <<mpc, scan, Cnf!own>>
    BY <2>3 DEF Cnf!ClearFlag
  <2>4. CASE Cnf!Solved(w)
    BY <1>10, <2>4 DEF Cnf!WorkerThread, Cnf!Solved, Cnf!Wake, Cnf!ReadJob, Cnf!ClearFlag
  <2> QED
    BY <1>10, <2>1, <2>2, <2>3, <2>4 DEF Cnf!WorkerThread
<1>11. ASSUME NEW w \in Cnf!Worker, Cnf!Reused(w) PROVE CnfLinkInv'
  BY <1>11 DEF Cnf!Reused, Cnf!FrameReused
<1>12. CASE UNCHANGED Cnf!vars
  BY <1>12 DEF Cnf!vars
<1> QED
  BY <1>1, <1>2, <1>3, <1>4, <1>5, <1>6, <1>7, <1>8, <1>9, <1>10, <1>11, <1>12 DEF
     Cnf!Next, Cnf!Manager

\* A problem is with one worker until its solution is taken.
LEMMA CnfHandStep ==
  ASSUME CnfBounds, CnfIInv, [Cnf!Next]_(Cnf!vars)
  PROVE  CnfHandInv'
<1> USE PoolConstants, CnfWorkersAre, CnfIndicesAre DEF Cnf!worker, Cnf!record, Cnf!own,
    CnfIInv, CnfTypeOK,
      CnfLinkInv, CnfHandInv, CnfTakeInv, CnfIdle, CnfBusy, CnfHas, CnfStopping
<1>1. CASE Cnf!StartThreads
  BY <1>1 DEF Cnf!StartThreads, Cnf!CreateWorker
<1>2. CASE Cnf!ForJobs
  BY <1>2 DEF Cnf!ForJobs
<1>3. CASE Cnf!SkipBusy
  BY <1>3 DEF Cnf!SkipBusy
<1>4. CASE Cnf!SolutionSeen
  BY <1>4 DEF Cnf!SolutionSeen
<1>5. CASE Cnf!AssignIndex
  BY <1>5 DEF Cnf!AssignIndex
<1>6. CASE Cnf!StartJob
  BY <1>6 DEF Cnf!StartJob, Cnf!RaiseFlag
<1>7. CASE Cnf!WaitAll
  BY <1>7 DEF Cnf!WaitAll, Cnf!WaitScan
<1>8. CASE Cnf!TakeSolution
  BY <1>8 DEF Cnf!TakeSolution
<1>9. CASE Cnf!StopThread
  BY <1>9 DEF Cnf!StopThread, Cnf!StopRaise, Cnf!RaiseFlag
<1>10. ASSUME NEW w \in Cnf!Worker, Cnf!WorkerThread(w) PROVE CnfHandInv'
  <2>1. CASE Cnf!Wake(w) /\ UNCHANGED <<mpc, scan, Cnf!own>>
    BY <2>1 DEF Cnf!Wake
  <2>2. CASE Cnf!ReadJob(w) /\ UNCHANGED <<mpc, scan, Cnf!own>>
    <3>1. ASSUME NEW v \in Cnf!Worker, NEW p \in Cnf!Indices, CnfHas(v, p)'
          PROVE  CnfHas(v, p)
      <4>1. /\ wpc[w] = "read" /\ cur' = [cur EXCEPT ![w] = job[w]]
            /\ UNCHANGED <<vRes, mpc, scan, fWorking, job>>
        BY <2>2, CnfReadJob
      <4>3. \A u \in Cnf!Worker : u # w => wpc'[u] = wpc[u]
        BY <2>2, CnfReadJob
      <4>4. wpc'[w] = "run" => mpc \notin CnfStopping /\ fWorking[w] = 1
        BY <2>2, CnfReadJob
      <4>5. wpc'[w] \notin {"spin", "read"}
        BY <2>2, CnfReadJob DEF CnfTypeOK
      <4>6. CASE v = w
        BY <3>1, <4>1, <4>4, <4>5, <4>6
      <4>7. CASE v # w
        BY <3>1, <4>1, <4>3, <4>7
      <4> QED
        BY <4>6, <4>7
    <3>2. ASSUME NEW v \in Cnf!Worker, vRes[v] # Cnf!NULL
          PROVE  v # w /\ wpc'[v] = wpc[v]
      BY <2>2, <3>2, CnfReadJob
    <3>3. CnfHandInv /\ UNCHANGED <<vRes, k, mpc, scan, fWorking>>
      BY <2>2, CnfReadJob
    <3> HIDE DEF CnfHas
    <3> QED
      BY <3>1, <3>2, <3>3
  <2>3. CASE Cnf!ClearFlag(w) /\ UNCHANGED <<mpc, scan, Cnf!own>>
    BY <2>3 DEF Cnf!ClearFlag
  <2>4. CASE Cnf!Solved(w)
    BY <1>10, <2>4 DEF Cnf!WorkerThread, Cnf!Solved, Cnf!Wake, Cnf!ReadJob, Cnf!ClearFlag
  <2> QED
    BY <1>10, <2>1, <2>2, <2>3, <2>4 DEF Cnf!WorkerThread
<1>11. ASSUME NEW w \in Cnf!Worker, Cnf!Reused(w) PROVE CnfHandInv'
  BY <1>11 DEF Cnf!Reused, Cnf!FrameReused
<1>12. CASE UNCHANGED Cnf!vars
  BY <1>12 DEF Cnf!vars
<1> QED
  BY <1>1, <1>2, <1>3, <1>4, <1>5, <1>6, <1>7, <1>8, <1>9, <1>10, <1>11, <1>12 DEF
     Cnf!Next, Cnf!Manager

\* The problems are given out in their order.
LEMMA CnfRunsStep ==
  ASSUME CnfBounds, CnfIInv, [Cnf!Next]_(Cnf!vars)
  PROVE  CnfRunsInv'
<1>0. \A w \in Cnf!Worker : vRes[w] # Cnf!NULL => vRes[w] \in solved
  BY DEF CnfIInv, Cnf!NoSolutionLost
<1> USE PoolConstants, CnfWorkersAre, CnfIndicesAre DEF Cnf!worker, Cnf!record, Cnf!own,
    CnfIInv, CnfTypeOK, CnfLinkInv, CnfRunsInv, CnfStopping
<1>1. CASE Cnf!StartThreads
  BY <1>1 DEF Cnf!StartThreads, Cnf!CreateWorker
<1>2. CASE Cnf!ForJobs
  BY <1>2 DEF Cnf!ForJobs
<1>3. CASE Cnf!SkipBusy
  BY <1>3 DEF Cnf!SkipBusy
<1>4. CASE Cnf!SolutionSeen
  <2>1. scan \in Cnf!Worker /\ vRes[scan] # Cnf!NULL
    BY <1>4 DEF Cnf!SolutionSeen
  <2>2. vRes[scan] \in solved
    BY Zenon, <1>0, <2>1
  <2>3. solved # {}
    BY Zenon, <2>2
  <2> QED
    BY <1>4, <2>3 DEF Cnf!SolutionSeen
<1>5. CASE Cnf!AssignIndex
  BY <1>5 DEF Cnf!AssignIndex
<1>6. CASE Cnf!StartJob
  BY <1>6 DEF Cnf!StartJob, Cnf!RaiseFlag
<1>7. CASE Cnf!WaitAll
  BY <1>7 DEF Cnf!WaitAll, Cnf!WaitScan
<1>8. CASE Cnf!TakeSolution
  BY <1>8 DEF Cnf!TakeSolution
<1>9. CASE Cnf!StopThread
  BY <1>9 DEF Cnf!StopThread, Cnf!StopRaise, Cnf!RaiseFlag
<1>10. ASSUME NEW w \in Cnf!Worker, Cnf!WorkerThread(w) PROVE CnfRunsInv'
  <2>1. CASE Cnf!Wake(w) /\ UNCHANGED <<mpc, scan, Cnf!own>>
    BY <2>1 DEF Cnf!Wake
  <2>2. CASE Cnf!ReadJob(w) /\ UNCHANGED <<mpc, scan, Cnf!own>>
    BY <2>2, CnfReadJob
  <2>3. CASE Cnf!ClearFlag(w) /\ UNCHANGED <<mpc, scan, Cnf!own>>
    BY <2>3 DEF Cnf!ClearFlag
  <2>4. CASE Cnf!Solved(w)
    BY <1>10, <2>4 DEF Cnf!WorkerThread, Cnf!Solved, Cnf!Wake, Cnf!ReadJob, Cnf!ClearFlag
  <2> QED
    BY <1>10, <2>1, <2>2, <2>3, <2>4 DEF Cnf!WorkerThread
<1>11. ASSUME NEW w \in Cnf!Worker, Cnf!Reused(w) PROVE CnfRunsInv'
  BY <1>11 DEF Cnf!Reused, Cnf!FrameReused
<1>12. CASE UNCHANGED Cnf!vars
  BY <1>12 DEF Cnf!vars
<1> QED
  BY <1>1, <1>2, <1>3, <1>4, <1>5, <1>6, <1>7, <1>8, <1>9, <1>10, <1>11, <1>12 DEF
     Cnf!Next, Cnf!Manager

\* The last loop takes one solution after the other.
LEMMA CnfTakeStep ==
  ASSUME CnfBounds, CnfIInv, [Cnf!Next]_(Cnf!vars)
  PROVE  CnfTakeInv'
<1> USE PoolConstants, CnfWorkersAre, CnfIndicesAre DEF Cnf!worker, Cnf!record, Cnf!own,
    CnfIInv, CnfTypeOK,
      CnfLinkInv, CnfTakeInv, CnfStopping
<1>1. CASE Cnf!StartThreads
  BY <1>1 DEF Cnf!StartThreads, Cnf!CreateWorker
<1>2. CASE Cnf!ForJobs
  BY <1>2 DEF Cnf!ForJobs
<1>3. CASE Cnf!SkipBusy
  BY <1>3 DEF Cnf!SkipBusy
<1>4. CASE Cnf!SolutionSeen
  BY <1>4 DEF Cnf!SolutionSeen
<1>5. CASE Cnf!AssignIndex
  BY <1>5 DEF Cnf!AssignIndex
<1>6. CASE Cnf!StartJob
  BY <1>6 DEF Cnf!StartJob, Cnf!RaiseFlag
<1>7. CASE Cnf!WaitAll
  BY <1>7 DEF Cnf!WaitAll, Cnf!WaitScan
<1>8. CASE Cnf!TakeSolution
  BY <1>8 DEF Cnf!TakeSolution
<1>9. CASE Cnf!StopThread
  BY <1>9 DEF Cnf!StopThread, Cnf!StopRaise, Cnf!RaiseFlag
<1>10. ASSUME NEW w \in Cnf!Worker, Cnf!WorkerThread(w) PROVE CnfTakeInv'
  <2>1. CASE Cnf!Wake(w) /\ UNCHANGED <<mpc, scan, Cnf!own>>
    BY <2>1 DEF Cnf!Wake
  <2>2. CASE Cnf!ReadJob(w) /\ UNCHANGED <<mpc, scan, Cnf!own>>
    BY <2>2, CnfReadJob
  <2>3. CASE Cnf!ClearFlag(w) /\ UNCHANGED <<mpc, scan, Cnf!own>>
    BY <2>3 DEF Cnf!ClearFlag
  <2>4. CASE Cnf!Solved(w)
    BY <1>10, <2>4 DEF Cnf!WorkerThread, Cnf!Solved, Cnf!Wake, Cnf!ReadJob, Cnf!ClearFlag
  <2> QED
    BY <1>10, <2>1, <2>2, <2>3, <2>4 DEF Cnf!WorkerThread
<1>11. ASSUME NEW w \in Cnf!Worker, Cnf!Reused(w) PROVE CnfTakeInv'
  BY <1>11 DEF Cnf!Reused, Cnf!FrameReused
<1>12. CASE UNCHANGED Cnf!vars
  BY <1>12 DEF Cnf!vars
<1> QED
  BY <1>1, <1>2, <1>3, <1>4, <1>5, <1>6, <1>7, <1>8, <1>9, <1>10, <1>11, <1>12 DEF
     Cnf!Next, Cnf!Manager

\* A solution moves from its record to what is returned, or freed.
LEMMA CnfLostStep ==
  ASSUME CnfBounds, CnfIInv, [Cnf!Next]_(Cnf!vars)
  PROVE  Cnf!NoSolutionLost'
<1> USE PoolConstants, CnfWorkersAre, CnfIndicesAre DEF Cnf!worker, Cnf!record, Cnf!own,
    CnfIInv, CnfTypeOK,
      CnfLinkInv, CnfHandInv, CnfTakeInv, Cnf!NoSolutionLost, CnfIdle, CnfBusy, CnfStopping
<1>1. CASE Cnf!StartThreads
  BY <1>1 DEF Cnf!StartThreads, Cnf!CreateWorker
<1>2. CASE Cnf!ForJobs
  BY <1>2 DEF Cnf!ForJobs
<1>3. CASE Cnf!SkipBusy
  BY <1>3 DEF Cnf!SkipBusy
<1>4. CASE Cnf!SolutionSeen
  BY <1>4 DEF Cnf!SolutionSeen
<1>5. CASE Cnf!AssignIndex
  BY <1>5 DEF Cnf!AssignIndex
<1>6. CASE Cnf!StartJob
  BY <1>6 DEF Cnf!StartJob, Cnf!RaiseFlag
<1>7. CASE Cnf!WaitAll
  BY <1>7 DEF Cnf!WaitAll, Cnf!WaitScan
<1>8. CASE Cnf!TakeSolution
  <2> DEFINE held == {vRes[w] : w \in Cnf!Worker} \ {Cnf!NULL}
             one  == {vRes[scan]} \ {Cnf!NULL}
             out  == {vResOut} \ {Cnf!NULL}
             rest == {vRes'[w] : w \in Cnf!Worker} \ {Cnf!NULL}
  <2>1. /\ mpc = "stop" /\ scan \in Cnf!Worker /\ solved' = solved
        /\ vRes' = [vRes EXCEPT ![scan] = Cnf!NULL]
        /\ vResOut' = IF vResOut = Cnf!NULL THEN vRes[scan] ELSE vResOut
        /\ freed' = IF vResOut = Cnf!NULL THEN freed ELSE freed \union one
    BY <1>8 DEF Cnf!TakeSolution
  <2>2. \A w \in Cnf!Worker : vRes'[w] = IF w = scan THEN Cnf!NULL ELSE vRes[w]
    BY <2>1
  <2>3. ASSUME NEW w \in Cnf!Worker, w # scan, vRes[w] # Cnf!NULL
        PROVE  vRes[w] # vRes[scan]
    BY <2>1, <2>3 DEF CnfHas
  <2>4. /\ solved = held \union freed \union out
        /\ held \intersect freed = {} /\ out \intersect (held \union freed) = {}
        /\ freed # {} => vResOut # Cnf!NULL
    OBVIOUS
  <2> HIDE DEF CnfIInv, CnfTypeOK, CnfLinkInv, CnfHandInv, CnfTakeInv, Cnf!NoSolutionLost
  <2>5. rest = held \ one /\ one \subseteq held
    BY <2>1, <2>2, <2>3
  <2> SUFFICES /\ solved = rest \union freed' \union ({vResOut'} \ {Cnf!NULL})
               /\ rest \intersect freed' = {}
               /\ ({vResOut'} \ {Cnf!NULL}) \intersect (rest \union freed') = {}
    BY <2>1 DEF Cnf!NoSolutionLost
  <2> HIDE DEF held, rest
  <2>6. CASE vResOut = Cnf!NULL
    <3>1. freed = {} /\ out = {}
      BY <2>4, <2>6
    <3>2. freed' = {} /\ {vResOut'} \ {Cnf!NULL} = one
      BY <2>1, <2>6, <3>1
    <3> HIDE DEF one, out
    <3> QED
      BY <2>4, <2>5, <3>1, <3>2
  <2>7. CASE vResOut # Cnf!NULL
    <3>1. freed' = freed \union one /\ {vResOut'} \ {Cnf!NULL} = out
      BY <2>1, <2>7
    <3> HIDE DEF one, out
    <3> QED
      BY <2>4, <2>5, <3>1
  <2> QED
    BY <2>6, <2>7
<1>9. CASE Cnf!StopThread
  BY <1>9 DEF Cnf!StopThread, Cnf!StopRaise, Cnf!RaiseFlag
<1>10. ASSUME NEW w \in Cnf!Worker, Cnf!WorkerThread(w) PROVE Cnf!NoSolutionLost'
  <2>1. CASE Cnf!Wake(w) /\ UNCHANGED <<mpc, scan, Cnf!own>>
    BY <2>1 DEF Cnf!Wake
  <2>2. CASE Cnf!ReadJob(w) /\ UNCHANGED <<mpc, scan, Cnf!own>>
    BY <2>2, CnfReadJob
  <2>3. CASE Cnf!ClearFlag(w) /\ UNCHANGED <<mpc, scan, Cnf!own>>
    BY <2>3 DEF Cnf!ClearFlag
  <2>4. CASE Cnf!Solved(w)
    <3> DEFINE held == {vRes[v] : v \in Cnf!Worker} \ {Cnf!NULL}
               more == {vRes'[v] : v \in Cnf!Worker} \ {Cnf!NULL}
    <3>1. cur[w] \in Cnf!Indices /\ mpc \notin CnfStopping /\ wpc[w] = "run"
      BY <2>4, CnfRunning DEF Cnf!Solved
    <3>2. vRes[w] = Cnf!NULL /\ freed = {} /\ vResOut = Cnf!NULL /\ solved = held
      BY <3>1
    <3>3. /\ freed' = {} /\ vResOut' = Cnf!NULL
          /\ \/ vRes' = [vRes EXCEPT ![w] = cur[w]] /\ solved' = solved \union {cur[w]}
             \/ vRes' = [vRes EXCEPT ![w] = Cnf!NULL] /\ solved' = solved
      BY <1>10, <2>4, <3>2
         DEF Cnf!WorkerThread, Cnf!Solved, Cnf!Wake, Cnf!ReadJob, Cnf!ClearFlag
    <3>4. vRes \in [Cnf!Worker -> Cnf!Indices \union {Cnf!NULL}] /\ cur[w] # Cnf!NULL
      BY <3>1
    <3> HIDE DEF CnfIInv, CnfTypeOK, CnfLinkInv, CnfHandInv, CnfTakeInv,
                 Cnf!NoSolutionLost
    <3>5. ASSUME vRes' = [vRes EXCEPT ![w] = cur[w]], solved' = solved \union {cur[w]}
          PROVE  more = solved'
      <4>1. \A v \in Cnf!Worker : vRes'[v] = IF v = w THEN cur[w] ELSE vRes[v]
        BY <3>4, <3>5
      <4>2. more = held \union {cur[w]}
        BY <3>2, <3>4, <4>1
      <4> QED
        BY <3>2, <3>5, <4>2
    <3>6. ASSUME vRes' = [vRes EXCEPT ![w] = Cnf!NULL], solved' = solved
          PROVE  more = solved'
      <4>1. vRes' = vRes
        BY <3>2, <3>4, <3>6
      <4> QED
        BY <3>2, <3>6, <4>1
    <3>7. more = solved'
      BY <3>3, <3>5, <3>6
    <3> QED
      BY <3>3, <3>7 DEF Cnf!NoSolutionLost
  <2> QED
    BY <1>10, <2>1, <2>2, <2>3, <2>4 DEF Cnf!WorkerThread
<1>11. ASSUME NEW w \in Cnf!Worker, Cnf!Reused(w) PROVE Cnf!NoSolutionLost'
  BY <1>11 DEF Cnf!Reused, Cnf!FrameReused
<1>12. CASE UNCHANGED Cnf!vars
  BY <1>12 DEF Cnf!vars
<1> QED
  BY <1>1, <1>2, <1>3, <1>4, <1>5, <1>6, <1>7, <1>8, <1>9, <1>10, <1>11, <1>12 DEF
     Cnf!Next, Cnf!Manager

-----------------------------------------------------------------------------
\* The initial states.
LEMMA CnfInitInv == ASSUME CnfBounds, Cnf!Init PROVE CnfIInv
<1> USE PoolConstants, CnfWorkersAre, CnfIndicesAre DEF Cnf!Init, Cnf!PoolInit
<1>1. CnfTypeOK
  BY DEF CnfTypeOK, Cnf!WorkerPcs, CnfMPcs
<1>2. CnfLinkInv
  BY DEF CnfLinkInv, CnfStopping
<1>3. CnfHandInv /\ CnfRunsInv
  BY DEF CnfHandInv, CnfRunsInv, CnfHas, CnfStopping
<1>4. CnfTakeInv /\ Cnf!NoSolutionLost
  BY DEF CnfTakeInv, Cnf!NoSolutionLost, CnfStopping
<1> QED
  BY <1>1, <1>2, <1>3, <1>4 DEF CnfIInv

\* Every step of a session that runs it is one of the command.
LEMMA CnfSteps ==
  ASSUME command = "cnf" => CnfTypeOK, [Next]_vars
  PROVE  command' = command /\ (command = "cnf" => [Cnf!Next]_(Cnf!vars))
<1>1. CASE Manager
  BY <1>1 DEF Manager, OfTuner, OfStoch, OfCnf, OfBmcs, OfCec, OfGla, OfProg, Cnf!Next
<1>2. CASE PdrAnswers \/ Provers
  BY <1>2 DEF PdrAnswers, Provers, OfGla
<1>3. ASSUME NEW t \in Threads, Thread(t)
      PROVE  command' = command /\ (command = "cnf" => Cnf!Next)
  <2>1. command' = command
    BY <1>3 DEF Thread
  <2>2. ASSUME command = "cnf" PROVE Cnf!Next
    <3>1. t <= nProcs /\ Cnf!WorkerThread(t)
      BY <1>3, <2>2 DEF Thread, OfTuner, OfStoch, OfCnf, OfBmcs, OfCec, OfProg
    <3>2. t \in Cnf!Worker
      BY <3>1 DEF Cnf!Worker, Threads
    <3> QED
      BY <3>1, <3>2 DEF Cnf!Next
  <2> QED
    BY <2>1, <2>2
<1>4. ASSUME NEW t \in Threads, Reused(t)
      PROVE  command' = command /\ (command = "cnf" => Cnf!Next)
  <2>1. command' = command
    BY <1>4 DEF Reused
  <2>2. ASSUME command = "cnf" PROVE Cnf!Next
    <3>1. t \in Cnf!Worker
      BY <1>4, <2>2 DEF Reused, CnfTypeOK
    <3>2. Cnf!FrameReused(t)
      BY <1>4 DEF Reused, Pool!FrameReused, Pool!worker, Cnf!FrameReused, Cnf!worker
    <3>3. UNCHANGED Cnf!own
      BY <1>4 DEF Reused, cnf, Cnf!own
    <3> QED
      BY <3>1, <3>2, <3>3 DEF Cnf!Next, Cnf!Reused
  <2> QED
    BY <2>1, <2>2
<1>5. CASE UNCHANGED vars
  BY <1>5 DEF vars, pool, shared, cnf, Cnf!vars, Cnf!own
<1> QED
  BY <1>1, <1>2, <1>3, <1>4, <1>5 DEF Next

\* The invariant holds in every reachable state of the command.
LEMMA CnfInvariant == Spec => [](command = "cnf" => CnfIInv)
<1>1. Init => (command = "cnf" => CnfIInv)
  BY CnfBoundsHold, CnfInitInv DEF Init
<1>2. (command = "cnf" => CnfIInv) /\ [Next]_vars => (command = "cnf" => CnfIInv)'
  BY CnfBoundsHold, CnfSteps, CnfTypeStep, CnfLinkStep, CnfHandStep, CnfRunsStep,
     CnfTakeStep,
     CnfLostStep DEF CnfIInv
<1> QED
  BY <1>1, <1>2, PTL DEF Spec

\* Cnf_RunSolver neither overwrites a solution nor frees the one it returns; it
\* gives every problem out once, unless it has a solution, and returns one if
\* there is one.
THEOREM PortfolioIsRight == Spec => []PortfolioResult
<1>1. CnfIInv => Cnf!NoSolutionLost
  BY DEF CnfIInv
<1>2. CnfIInv => Cnf!PortfolioResult
  <2> SUFFICES ASSUME CnfIInv, mpc = "returned"
               PROVE  /\ \A p \in Cnf!Indices : runs[p] = 1 \/ (runs[p] = 0 /\ solved # {})
                      /\ vResOut = Cnf!NULL <=> solved = {}
                      /\ freed = solved \ {vResOut}
    BY DEF Cnf!PortfolioResult
  <2>1. \A p \in Cnf!Indices : runs[p] = 1 \/ (runs[p] = 0 /\ solved # {})
    BY CnfIndicesAre DEF CnfIInv, CnfRunsInv, CnfStopping
  <2>2. /\ \A w \in Cnf!Worker : vRes[w] = Cnf!NULL
        /\ Cnf!NULL \notin freed /\ (freed # {} => vResOut # Cnf!NULL)
    BY CnfIndicesAre DEF CnfIInv, CnfTypeOK, CnfTakeInv
  <2>3. {vRes[w] : w \in Cnf!Worker} \ {Cnf!NULL} = {}
    BY <2>2
  <2>4. solved = freed \union ({vResOut} \ {Cnf!NULL}) /\ vResOut \notin freed
    BY <2>2, <2>3 DEF CnfIInv, Cnf!NoSolutionLost
  <2> QED
    BY <2>1, <2>2, <2>4
<1> QED
  BY <1>1, <1>2, CnfInvariant, PTL DEF PortfolioResult

-----------------------------------------------------------------------------
\* Neither NULL nor what a lost record holds is an AIG.
StochBounds == nGias \in Nat /\ NoJob \notin Stoch!Gias /\ Garbage \notin Stoch!Gias

LEMMA StochBoundsHold == StochBounds
  BY CommandConstants, JobConstants DEF StochBounds, Stoch!Gias

StochJobs == Stoch!Gias \union {NoJob, Garbage}
StochMPcs == {"create", "for", "scan", "raise", "wait", "stop", "stopraise", "returned"}

\* The types of the program's variables.
StochTypeOK ==
  /\ wpc \in [Stoch!Worker -> Stoch!WorkerPcs] /\ cur \in [Stoch!Worker -> StochJobs]
  /\ fWorking \in [Stoch!Worker -> {0, 1}] /\ job \in [Stoch!Worker -> StochJobs]
  /\ mpc \in StochMPcs /\ scan \in Stoch!Worker
  /\ k \in 1..(nGias + 1)
  /\ Rand \in [Stoch!Worker -> Rands] /\ DOMAIN file = Rands
  /\ sub \in [Stoch!Worker -> {"idle", "system", "read"}] /\ DOMAIN vGias = Stoch!Gias

-----------------------------------------------------------------------------
(* Stochastic synthesis: the inductive invariant. *)

\* A worker with nothing to do, and one that has an AIG.
StochIdle(w) == wpc[w] = "spin" /\ fWorking[w] = 0
StochBusy(w) ==
  /\ fWorking[w] = 1 /\ wpc[w] \in {"spin", "read", "run", "clear"}
  /\ wpc[w] \in {"spin", "read"} => job[w] \in Stoch!Gias
  /\ wpc[w] = "run" => cur[w] \in Stoch!Gias

StochStopping == {"stop", "stopraise", "returned"}

\* Flags and positions of manager and workers.
StochLinkInv ==
  /\ mpc = "create" =>
       \A w \in Stoch!Worker :
         fWorking[w] = 0 /\ wpc[w] = IF w < scan THEN "spin" ELSE "none"
  /\ mpc \in {"for", "scan", "raise", "wait"} =>
       \A w \in Stoch!Worker : StochIdle(w) \/ StochBusy(w)
  /\ mpc \in {"scan", "raise"} => k <= nGias
  /\ mpc = "raise" => StochIdle(scan) /\ job[scan] = k
  /\ mpc = "wait" => \A w \in Stoch!Worker : w < scan => StochIdle(w)
  /\ mpc \in {"stop", "stopraise"} =>
       \A w \in Stoch!Worker : /\ w >= scan => StochIdle(w)
                               /\ w < scan => job[w] = NoJob
  /\ mpc = "stopraise" => job[scan] = NoJob
  /\ mpc = "returned" => \A w \in Stoch!Worker : job[w] \in {NoJob, Garbage}
  /\ mpc \in StochStopping => \A w \in Stoch!Worker : wpc[w] \notin {"run", "clear"}

\* Each worker has a file name of its own, and its file holds its AIG while it
\* uses it.
StochFileInv ==
  /\ \A v, w \in Stoch!Worker : Rand[v] = Rand[w] => v = w
  /\ \A w \in Stoch!Worker : sub[w] # "idle" => wpc[w] = "run"
  /\ Stoch!OwnFile

\* A worker still has to put this AIG back.
StochInHand(w, g) ==
  \/ fWorking[w] = 1 /\ wpc[w] \in {"spin", "read"} /\ job[w] = g
  \/ wpc[w] = "run" /\ cur[w] = g

\* Every AIG that was given out is back, as a version of itself, or with a worker.
StochPlaceInv ==
  /\ \A g \in Stoch!Gias : 
       g < k => vGias[g] = g \/ \E w \in Stoch!Worker : StochInHand(w, g)
  /\ mpc = "wait" \/ mpc \in StochStopping => k > nGias
  /\ mpc \in StochStopping => \A g \in Stoch!Gias : vGias[g] = g

StochIInv == StochTypeOK /\ StochLinkInv /\ StochFileInv /\ StochPlaceInv

-----------------------------------------------------------------------------
(* Stochastic synthesis: lemmas about its data. *)

\* The workers are numbered from 1.
LEMMA StochWorkersAre ==
  /\ \A w \in Stoch!Worker : w \in Nat /\ 1 <= w /\ w <= nProcs
  /\ 1 \in Stoch!Worker /\ nProcs \in Stoch!Worker
  /\ \A w \in Stoch!Worker : w < nProcs => w + 1 \in Stoch!Worker
  BY PoolConstants DEF Stoch!Worker

\* So are the AIGs; the file of none is not one of them.
LEMMA StochGiasAre ==
  ASSUME StochBounds
  PROVE  /\ \A g : g \in Stoch!Gias <=> g \in Nat /\ 1 <= g /\ g <= nGias
         /\ Stoch!Absent \notin Stoch!Gias /\ NoJob \in StochJobs /\ Garbage \in StochJobs
         /\ Stoch!Gias \subseteq StochJobs
         /\ nGias \in Nat /\ NoJob \notin Stoch!Gias /\ Garbage \notin Stoch!Gias
  BY DEF StochBounds, Stoch!Gias, StochJobs, Stoch!Absent

\* A worker that runs its script has an AIG.
LEMMA StochRunning ==
  ASSUME StochTypeOK, StochLinkInv, NEW w \in Stoch!Worker, wpc[w] = "run"
  PROVE  cur[w] \in Stoch!Gias /\ mpc \notin StochStopping
  BY DEF StochTypeOK, StochLinkInv, StochIdle, StochBusy, StochMPcs, StochStopping

\* What a worker puts back is a version of the AIG it has.
LEMMA StochPutBack ==
  ASSUME StochBounds, StochTypeOK, StochLinkInv, StochFileInv,
         NEW w \in Stoch!Worker, Stoch!SystemFails(w) \/ Stoch!ReadFile(w)
  PROVE  /\ wpc[w] = "run" /\ cur[w] \in Stoch!Gias /\ mpc \notin StochStopping
         /\ wpc' = [wpc EXCEPT ![w] = "clear"]
         /\ vGias' = [vGias EXCEPT ![cur[w]] = cur[w]]
         /\ file' = [file EXCEPT ![Rand[w]] = Stoch!Absent]
         /\ sub' = [sub EXCEPT ![w] = "idle"]
         /\ UNCHANGED <<cur, fWorking, job, mpc, scan, k, Rand>>
<1>1. wpc[w] = "run" /\ cur[w] \in Stoch!Gias /\ mpc \notin StochStopping
  BY StochRunning DEF Stoch!SystemFails, Stoch!ReadFile, Stoch!Solved
<1>2. CASE Stoch!SystemFails(w)
  BY <1>1, <1>2 DEF Stoch!SystemFails, Stoch!Solved, Stoch!record
<1>3. CASE Stoch!ReadFile(w)
  <2>1. file[Rand[w]] = cur[w]
    BY <1>3 DEF Stoch!ReadFile, StochFileInv, Stoch!OwnFile
  <2>2. vGias' = [vGias EXCEPT ![cur[w]] = cur[w]]
    BY <1>3, <2>1 DEF Stoch!ReadFile
  <2> QED
    BY <1>1, <1>3, <2>2 DEF Stoch!ReadFile, Stoch!Solved, Stoch!record
<1> QED
  BY <1>2, <1>3

\* A worker that reads a job starts on it while the manager gives jobs out, and
\* ends after that.
LEMMA StochReadJob ==
  ASSUME StochBounds, StochTypeOK, StochLinkInv, NEW w \in Stoch!Worker, Stoch!ReadJob(w)
  PROVE  /\ wpc[w] = "read" /\ mpc # "create" /\ (mpc = "raise" => w # scan)
         /\ cur' = [cur EXCEPT ![w] = job[w]]
         /\ \/ /\ mpc \notin StochStopping
               /\ job[w] \in Stoch!Gias /\ fWorking[w] = 1
               /\ wpc' = [wpc EXCEPT ![w] = "run"]
            \/ /\ mpc \in StochStopping
               /\ \/ wpc' = [wpc EXCEPT ![w] = "exit"]
                  \/ wpc' = [wpc EXCEPT ![w] = "lost"]
         /\ UNCHANGED <<fWorking, job>>
<1>1. /\ wpc[w] = "read" /\ cur' = [cur EXCEPT ![w] = job[w]]
      /\ UNCHANGED <<fWorking, job>>
  BY DEF Stoch!ReadJob, Stoch!record
<1>2. /\ job[w] = NoJob => wpc' = [wpc EXCEPT ![w] = "exit"]
      /\ job[w] = Garbage => wpc' = [wpc EXCEPT ![w] = "lost"]
      /\ job[w] \notin {NoJob, Garbage} => wpc' = [wpc EXCEPT ![w] = "run"]
  BY PoolConstants DEF Stoch!ReadJob
<1>3. ~StochIdle(w) /\ mpc # "create" /\ (mpc = "raise" => w # scan)
  BY <1>1 DEF StochTypeOK, StochLinkInv, StochIdle
<1>4. CASE mpc \in StochStopping
  <2>1. w >= scan \/ w < scan
    BY StochWorkersAre DEF StochTypeOK
  <2>2. job[w] \in {NoJob, Garbage}
    BY <1>3, <1>4, <2>1 DEF StochLinkInv, StochStopping
  <2> QED
    BY <1>1, <1>2, <1>3, <1>4, <2>2
<1>5. CASE mpc \notin StochStopping
  <2>1. StochBusy(w)
    BY <1>3, <1>5 DEF StochTypeOK, StochMPcs, StochLinkInv, StochStopping
  <2>2. job[w] \in Stoch!Gias /\ fWorking[w] = 1
    BY <1>1, <2>1 DEF StochBusy
  <2>3. job[w] \notin {NoJob, Garbage}
    BY <2>2 DEF StochBounds
  <2> QED
    BY <1>1, <1>2, <1>3, <1>5, <2>2, <2>3
<1> QED
  BY <1>4, <1>5

-----------------------------------------------------------------------------
(* Stochastic synthesis: the steps. *)

\* Every step keeps the types.
LEMMA StochTypeStep ==
  ASSUME StochBounds, StochIInv, [Stoch!Next]_(Stoch!vars)
  PROVE  StochTypeOK'
<1> USE PoolConstants, StochWorkersAre, StochGiasAre DEF Stoch!worker, Stoch!record,
    Stoch!own, StochIInv, StochTypeOK,
      StochMPcs, Stoch!WorkerPcs, StochLinkInv, StochIdle
<1>1. CASE Stoch!StartThreads
  BY <1>1 DEF Stoch!StartThreads, Stoch!CreateWorker
<1>2. CASE Stoch!ForJobs
  BY <1>2 DEF Stoch!ForJobs
<1>3. CASE Stoch!SkipBusy
  BY <1>3 DEF Stoch!SkipBusy
<1>4. CASE Stoch!AssignGia
  BY <1>4 DEF Stoch!AssignGia
<1>5. CASE Stoch!StartJob
  BY <1>5 DEF Stoch!StartJob, Stoch!RaiseFlag
<1>6. CASE Stoch!WaitAll
  BY <1>6 DEF Stoch!WaitAll, Stoch!WaitScan
<1>7. CASE Stoch!StopThreads
  BY <1>7 DEF Stoch!StopThreads, Stoch!StopStore, Stoch!StopRaise, Stoch!RaiseFlag
<1>8. ASSUME NEW w \in Stoch!Worker, Stoch!WorkerThread(w) PROVE StochTypeOK'
  <2>1. CASE Stoch!Wake(w) /\ UNCHANGED <<mpc, scan, Stoch!own>>
    BY <2>1 DEF Stoch!Wake
  <2>2. CASE Stoch!ReadJob(w) /\ UNCHANGED <<mpc, scan, Stoch!own>>
    BY <2>2, StochReadJob
  <2>3. CASE Stoch!ClearFlag(w) /\ UNCHANGED <<mpc, scan, Stoch!own>>
    BY <2>3 DEF Stoch!ClearFlag
  <2>4. CASE Stoch!WriteFile(w)
    BY <2>4, StochRunning DEF Stoch!WriteFile
  <2>5. CASE Stoch!SystemReturns(w)
    BY <2>5 DEF Stoch!SystemReturns
  <2>6. CASE Stoch!SystemFails(w) \/ Stoch!ReadFile(w)
    BY <2>6, StochPutBack
  <2> QED
    BY <1>8, <2>1, <2>2, <2>3, <2>4, <2>5, <2>6 DEF Stoch!WorkerThread
<1>9. ASSUME NEW w \in Stoch!Worker, Stoch!Reused(w) PROVE StochTypeOK'
  BY <1>9 DEF Stoch!Reused, Stoch!FrameReused
<1>10. CASE UNCHANGED Stoch!vars
  BY <1>10 DEF Stoch!vars
<1> QED
  BY <1>1, <1>2, <1>3, <1>4, <1>5, <1>6, <1>7, <1>8, <1>9, <1>10 DEF Stoch!Next,
     Stoch!Manager

\* A worker gets an AIG only when it is idle.
LEMMA StochLinkStep ==
  ASSUME StochBounds, StochIInv, [Stoch!Next]_(Stoch!vars)
  PROVE  StochLinkInv'
<1> USE PoolConstants, StochWorkersAre, StochGiasAre DEF Stoch!worker, Stoch!record,
    Stoch!own, StochIInv, StochTypeOK,
      StochLinkInv, StochIdle, StochBusy, StochStopping
<1>1. CASE Stoch!StartThreads
  <2>1. /\ mpc = "create" /\ fWorking' = fWorking
        /\ wpc' = [wpc EXCEPT ![scan] = "spin"]
    BY <1>1 DEF Stoch!StartThreads, Stoch!CreateWorker
  <2>2. CASE scan < nProcs
    BY <1>1, <2>1, <2>2 DEF Stoch!StartThreads, Stoch!CreateWorker
  <2>3. CASE ~(scan < nProcs)
    <3>0. scan \in Nat /\ scan <= nProcs /\ nProcs \in Nat
      BY DEF StochTypeOK
    <3>1. scan = nProcs /\ mpc' = "for"
      BY <1>1, <2>3, <3>0 DEF Stoch!StartThreads, Stoch!CreateWorker
    <3>2. \A w \in Stoch!Worker : StochIdle(w)'
      BY <2>1, <3>1
    <3> QED
      BY <3>1, <3>2
  <2> QED
    BY <2>2, <2>3
<1>2. CASE Stoch!ForJobs
  BY <1>2 DEF Stoch!ForJobs
<1>3. CASE Stoch!SkipBusy
  BY <1>3 DEF Stoch!SkipBusy
<1>4. CASE Stoch!AssignGia
  BY <1>4 DEF Stoch!AssignGia
<1>5. CASE Stoch!StartJob
  BY <1>5 DEF Stoch!StartJob, Stoch!RaiseFlag
<1>6. CASE Stoch!WaitAll
  BY <1>6 DEF Stoch!WaitAll, Stoch!WaitScan
<1>7. CASE Stoch!StopThreads
  BY <1>7 DEF Stoch!StopThreads, Stoch!StopStore, Stoch!StopRaise, Stoch!RaiseFlag
<1>8. ASSUME NEW w \in Stoch!Worker, Stoch!WorkerThread(w) PROVE StochLinkInv'
  <2>1. CASE Stoch!Wake(w) /\ UNCHANGED <<mpc, scan, Stoch!own>>
    BY <2>1 DEF Stoch!Wake
  <2>2. CASE Stoch!ReadJob(w) /\ UNCHANGED <<mpc, scan, Stoch!own>>
    BY <2>2, StochReadJob
  <2>3. CASE Stoch!ClearFlag(w) /\ UNCHANGED <<mpc, scan, Stoch!own>>
    BY <2>3 DEF Stoch!ClearFlag
  <2>4. CASE Stoch!WriteFile(w)
    BY <2>4, StochRunning DEF Stoch!WriteFile
  <2>5. CASE Stoch!SystemReturns(w)
    BY <2>5 DEF Stoch!SystemReturns
  <2>6. CASE Stoch!SystemFails(w) \/ Stoch!ReadFile(w)
    BY <2>6, StochPutBack
  <2> QED
    BY <1>8, <2>1, <2>2, <2>3, <2>4, <2>5, <2>6 DEF Stoch!WorkerThread
<1>9. ASSUME NEW w \in Stoch!Worker, Stoch!Reused(w) PROVE StochLinkInv'
  BY <1>9 DEF Stoch!Reused, Stoch!FrameReused
<1>10. CASE UNCHANGED Stoch!vars
  BY <1>10 DEF Stoch!vars
<1> QED
  BY <1>1, <1>2, <1>3, <1>4, <1>5, <1>6, <1>7, <1>8, <1>9, <1>10 DEF Stoch!Next,
     Stoch!Manager

\* A file is written and removed by the worker it belongs to.
LEMMA StochFileStep ==
  ASSUME StochBounds, StochIInv, [Stoch!Next]_(Stoch!vars)
  PROVE  StochFileInv'
<1> USE PoolConstants, StochWorkersAre, StochGiasAre DEF Stoch!worker, Stoch!record,
    Stoch!own, StochIInv, StochTypeOK,
      StochFileInv, Stoch!OwnFile
<1>1. CASE Stoch!StartThreads
  <2>1. \A w \in Stoch!Worker : sub[w] = "idle"
    BY <1>1 DEF Stoch!StartThreads, Stoch!CreateWorker, StochLinkInv
  <2> QED
    BY <1>1, <2>1 DEF Stoch!StartThreads, Stoch!CreateWorker
<1>2. CASE Stoch!ForJobs
  BY <1>2 DEF Stoch!ForJobs
<1>3. CASE Stoch!SkipBusy
  BY <1>3 DEF Stoch!SkipBusy
<1>4. CASE Stoch!AssignGia
  BY <1>4 DEF Stoch!AssignGia
<1>5. CASE Stoch!StartJob
  BY <1>5 DEF Stoch!StartJob, Stoch!RaiseFlag
<1>6. CASE Stoch!WaitAll
  BY <1>6 DEF Stoch!WaitAll, Stoch!WaitScan
<1>7. CASE Stoch!StopThreads
  BY <1>7 DEF Stoch!StopThreads, Stoch!StopStore, Stoch!StopRaise, Stoch!RaiseFlag
<1>8. ASSUME NEW w \in Stoch!Worker, Stoch!WorkerThread(w) PROVE StochFileInv'
  <2>1. CASE Stoch!Wake(w) /\ UNCHANGED <<mpc, scan, Stoch!own>>
    <3>1. \A v \in Stoch!Worker : sub[v] # "idle" => wpc'[v] = wpc[v]
      BY <2>1 DEF Stoch!Wake
    <3> QED
      BY <2>1, <3>1 DEF Stoch!Wake
  <2>2. CASE Stoch!ReadJob(w) /\ UNCHANGED <<mpc, scan, Stoch!own>>
    BY <2>2, StochReadJob
  <2>3. CASE Stoch!ClearFlag(w) /\ UNCHANGED <<mpc, scan, Stoch!own>>
    BY <2>3 DEF Stoch!ClearFlag
  <2>4. CASE Stoch!WriteFile(w)
    BY <2>4, StochRunning DEF Stoch!WriteFile
  <2>5. CASE Stoch!SystemReturns(w)
    BY <2>5 DEF Stoch!SystemReturns
  <2>6. CASE Stoch!SystemFails(w) \/ Stoch!ReadFile(w)
    BY <2>6, StochPutBack
  <2> QED
    BY <1>8, <2>1, <2>2, <2>3, <2>4, <2>5, <2>6 DEF Stoch!WorkerThread
<1>9. ASSUME NEW w \in Stoch!Worker, Stoch!Reused(w) PROVE StochFileInv'
  BY <1>9 DEF Stoch!Reused, Stoch!FrameReused
<1>10. CASE UNCHANGED Stoch!vars
  BY <1>10 DEF Stoch!vars
<1> QED
  BY <1>1, <1>2, <1>3, <1>4, <1>5, <1>6, <1>7, <1>8, <1>9, <1>10 DEF Stoch!Next,
     Stoch!Manager

\* An AIG leaves a worker's hands when it is put back in its place.
LEMMA StochPlaceStep ==
  ASSUME StochBounds, StochIInv, [Stoch!Next]_(Stoch!vars)
  PROVE  StochPlaceInv'
<1> USE PoolConstants, StochWorkersAre, StochGiasAre DEF Stoch!worker, Stoch!record,
    Stoch!own, StochIInv, StochTypeOK,
      StochLinkInv, StochPlaceInv, StochInHand, StochIdle, StochBusy, StochStopping
<1>1. CASE Stoch!StartThreads
  BY <1>1 DEF Stoch!StartThreads, Stoch!CreateWorker
<1>2. CASE Stoch!ForJobs
  BY <1>2 DEF Stoch!ForJobs
<1>3. CASE Stoch!SkipBusy
  BY <1>3 DEF Stoch!SkipBusy
<1>4. CASE Stoch!AssignGia
  BY <1>4 DEF Stoch!AssignGia
<1>5. CASE Stoch!StartJob
  BY <1>5 DEF Stoch!StartJob, Stoch!RaiseFlag
<1>6. CASE Stoch!WaitAll
  BY <1>6 DEF Stoch!WaitAll, Stoch!WaitScan
<1>7. CASE Stoch!StopThreads
  BY <1>7 DEF Stoch!StopThreads, Stoch!StopStore, Stoch!StopRaise, Stoch!RaiseFlag
<1>8. ASSUME NEW w \in Stoch!Worker, Stoch!WorkerThread(w) PROVE StochPlaceInv'
  <2>1. CASE Stoch!Wake(w) /\ UNCHANGED <<mpc, scan, Stoch!own>>
    BY <2>1 DEF Stoch!Wake
  <2>2. CASE Stoch!ReadJob(w) /\ UNCHANGED <<mpc, scan, Stoch!own>>
    BY <2>2, StochReadJob
  <2>3. CASE Stoch!ClearFlag(w) /\ UNCHANGED <<mpc, scan, Stoch!own>>
    BY <2>3 DEF Stoch!ClearFlag
  <2>4. CASE Stoch!WriteFile(w)
    BY <2>4, StochRunning DEF Stoch!WriteFile
  <2>5. CASE Stoch!SystemReturns(w)
    BY <2>5 DEF Stoch!SystemReturns
  <2>6. CASE Stoch!SystemFails(w) \/ Stoch!ReadFile(w)
    BY <2>6, StochPutBack
  <2> QED
    BY <1>8, <2>1, <2>2, <2>3, <2>4, <2>5, <2>6 DEF Stoch!WorkerThread
<1>9. ASSUME NEW w \in Stoch!Worker, Stoch!Reused(w) PROVE StochPlaceInv'
  BY <1>9 DEF Stoch!Reused, Stoch!FrameReused
<1>10. CASE UNCHANGED Stoch!vars
  BY <1>10 DEF Stoch!vars
<1> QED
  BY <1>1, <1>2, <1>3, <1>4, <1>5, <1>6, <1>7, <1>8, <1>9, <1>10 DEF Stoch!Next,
     Stoch!Manager

-----------------------------------------------------------------------------
\* The initial states.
LEMMA StochInitInv == ASSUME StochBounds, Stoch!Init PROVE StochIInv
<1> USE PoolConstants, StochWorkersAre, StochGiasAre DEF Stoch!Init, Stoch!PoolInit
<1>1. StochTypeOK
  BY DEF StochTypeOK, Stoch!WorkerPcs, StochMPcs
<1>2. StochLinkInv
  BY DEF StochLinkInv, StochStopping
<1>3. StochFileInv /\ StochPlaceInv
  BY DEF StochFileInv, Stoch!OwnFile, StochPlaceInv, StochStopping
<1> QED
  BY <1>1, <1>2, <1>3 DEF StochIInv

\* Every step of a session that runs it is one of the command.
LEMMA StochSteps ==
  ASSUME command = "stoch" => StochTypeOK, [Next]_vars
  PROVE  command' = command /\ (command = "stoch" => [Stoch!Next]_(Stoch!vars))
<1>1. CASE Manager
  BY <1>1 DEF Manager, OfTuner, OfStoch, OfCnf, OfBmcs, OfCec, OfGla, OfProg, Stoch!Next
<1>2. CASE PdrAnswers \/ Provers
  BY <1>2 DEF PdrAnswers, Provers, OfGla
<1>3. ASSUME NEW t \in Threads, Thread(t)
      PROVE  command' = command /\ (command = "stoch" => Stoch!Next)
  <2>1. command' = command
    BY <1>3 DEF Thread
  <2>2. ASSUME command = "stoch" PROVE Stoch!Next
    <3>1. t <= nProcs /\ Stoch!WorkerThread(t)
      BY <1>3, <2>2 DEF Thread, OfTuner, OfStoch, OfCnf, OfBmcs, OfCec, OfProg
    <3>2. t \in Stoch!Worker
      BY <3>1 DEF Stoch!Worker, Threads
    <3> QED
      BY <3>1, <3>2 DEF Stoch!Next
  <2> QED
    BY <2>1, <2>2
<1>4. ASSUME NEW t \in Threads, Reused(t)
      PROVE  command' = command /\ (command = "stoch" => Stoch!Next)
  <2>1. command' = command
    BY <1>4 DEF Reused
  <2>2. ASSUME command = "stoch" PROVE Stoch!Next
    <3>1. t \in Stoch!Worker
      BY <1>4, <2>2 DEF Reused, StochTypeOK
    <3>2. Stoch!FrameReused(t)
      BY <1>4 DEF Reused, Pool!FrameReused, Pool!worker, Stoch!FrameReused, Stoch!worker
    <3>3. UNCHANGED Stoch!own
      BY <1>4 DEF Reused, stoch, Stoch!own
    <3> QED
      BY <3>1, <3>2, <3>3 DEF Stoch!Next, Stoch!Reused
  <2> QED
    BY <2>1, <2>2
<1>5. CASE UNCHANGED vars
  BY <1>5 DEF vars, pool, shared, stoch, Stoch!vars, Stoch!own
<1> QED
  BY <1>1, <1>2, <1>3, <1>4, <1>5 DEF Next

\* The invariant holds in every reachable state of the command.
LEMMA StochInvariant == Spec => [](command = "stoch" => StochIInv)
<1>1. Init => (command = "stoch" => StochIInv)
  BY StochBoundsHold, StochInitInv DEF Init
<1>2. (command = "stoch" => StochIInv) /\ [Next]_vars => (command = "stoch" => StochIInv)'
  BY StochBoundsHold, StochSteps, StochTypeStep, StochLinkStep, StochFileStep,
     StochPlaceStep DEF StochIInv
<1> QED
  BY <1>1, <1>2, PTL DEF Spec

\* Gia_StochProcess: no worker reads back an AIG another one wrote, and when the
\* call returns every entry of the array was replaced by a version of itself.
THEOREM FilesAndPlaces == Spec => []InPlace
<1>1. StochIInv => Stoch!OwnFile
  BY DEF StochIInv, StochFileInv
<1>2. StochIInv => Stoch!InPlace
  BY DEF StochIInv, StochPlaceInv, StochStopping, Stoch!InPlace
<1> QED
  BY <1>1, <1>2, StochInvariant, PTL DEF InPlace
-----------------------------------------------------------------------------
\* Neither NULL nor what a lost record holds is an AIG, and each AIG has a cost.
TunerBounds ==
  /\ nAigs \in Nat /\ NoJob \notin Tuner!Aigs /\ Garbage \notin Tuner!Aigs
  /\ Cost \in [Tuner!Aigs -> Nat]

LEMMA TunerBoundsHold == TunerBounds
  BY CommandConstants, JobConstants DEF TunerBounds, Tuner!Aigs

TunerJobs == Tuner!Aigs \union {NoJob, Garbage}
TunerMPcs == {"create", "while", "scan", "assign", "raise", "stop", "stopraise", "returned"}

\* The types of the program's variables.
TunerTypeOK ==
  /\ wpc \in [Tuner!Worker -> Tuner!WorkerPcs] /\ cur \in [Tuner!Worker -> TunerJobs]
  /\ fWorking \in [Tuner!Worker -> {0, 1}] /\ job \in [Tuner!Worker -> TunerJobs]
  /\ mpc \in TunerMPcs /\ scan \in Tuner!Worker
  /\ top \in 0..nAigs /\ Result \in [Tuner!Worker -> Int]
  /\ fWorkToDo \in BOOLEAN /\ TotalCost \in Int

-----------------------------------------------------------------------------
(* The autotuner: the inductive invariant. *)

\* A worker with nothing to do, whose record may hold a result that was not collected,
\* and one that has an AIG.
TunerIdle(w) ==
  /\ wpc[w] = "spin" /\ fWorking[w] = 0
  /\ job[w] # NoJob => job[w] \in Tuner!Aigs /\ Result[w] = Cost[job[w]]
TunerBusy(w) ==
  /\ fWorking[w] = 1 /\ wpc[w] \in {"spin", "read", "run", "clear"}
  /\ job[w] \in Tuner!Aigs
  /\ wpc[w] = "run" => cur[w] = job[w]
  /\ wpc[w] = "clear" => Result[w] = Cost[job[w]]

TunerGiving   == {"while", "scan", "assign", "raise"}
TunerStopping == {"stop", "stopraise", "returned"}

\* Flags and positions of manager and workers.
TunerLinkInv ==
  /\ mpc = "create" =>
       \A w \in Tuner!Worker :
         /\ fWorking[w] = 0 /\ job[w] = NoJob
         /\ wpc[w] = IF w < scan THEN "spin" ELSE "none"
  /\ mpc \in TunerGiving =>
       \A w \in Tuner!Worker :
         (mpc = "raise" => w # scan) => TunerIdle(w) \/ TunerBusy(w)
  /\ mpc \in {"assign", "raise"} => wpc[scan] = "spin" /\ fWorking[scan] = 0
  /\ mpc = "assign" => job[scan] = NoJob
  /\ mpc = "raise" => job[scan] \in Tuner!Aigs
  /\ mpc \in {"stop", "stopraise"} =>
       \A w \in Tuner!Worker : w >= scan => wpc[w] = "spin" /\ fWorking[w] = 0
  /\ mpc \in {"stop", "stopraise"} => \A w \in Tuner!Worker : job[w] = NoJob
  /\ mpc = "returned" => \A w \in Tuner!Worker : job[w] \in {NoJob, Garbage}
  /\ mpc \in TunerStopping => \A w \in Tuner!Worker : wpc[w] \notin {"run", "clear"}

\* What it means that there is no work: no AIG is left, and of the workers looked at
\* none has one.
TunerSeen == IF mpc = "while" THEN Tuner!Worker ELSE {w \in Tuner!Worker : w < scan}
TunerWorkInv ==
  /\ mpc = "create" => top = nAigs /\ fWorkToDo
  /\ mpc \in TunerGiving /\ ~fWorkToDo =>
       top = 0 /\ \A w \in TunerSeen : job[w] = NoJob
  /\ mpc = "raise" => fWorkToDo
  /\ mpc \in TunerStopping => top = 0

\* The AIGs whose costs are not in the total: no two records hold the same one, and
\* none is on the stack as well.
TunerPending == (1..top) \union {job[w] : w \in {v \in Tuner!Worker : job[v] # NoJob}}
TunerSumInv ==
  /\ mpc \in TunerGiving => \A v, w \in Tuner!Worker :
       job[w] # NoJob => job[w] > top /\ (v # w => job[v] # job[w])
  /\ mpc = "create" => TotalCost = 0
  /\ mpc \in TunerGiving =>
       TotalCost = SumFunctionOnSet(Cost, Tuner!Aigs \ TunerPending)
  /\ mpc \in TunerStopping => TotalCost = SumFunctionOnSet(Cost, Tuner!Aigs)

TunerIInv == TunerTypeOK /\ TunerLinkInv /\ TunerWorkInv /\ TunerSumInv

-----------------------------------------------------------------------------
(* The autotuner: lemmas about its data. *)

\* The workers are numbered from 1.
LEMMA TunerWorkersAre ==
  /\ \A w \in Tuner!Worker : w \in Nat /\ 1 <= w /\ w <= nProcs
  /\ 1 \in Tuner!Worker /\ nProcs \in Tuner!Worker
  /\ \A w \in Tuner!Worker : w < nProcs => w + 1 \in Tuner!Worker
  BY PoolConstants DEF Tuner!Worker

\* So are the AIGs.
LEMMA TunerAigsAre ==
  ASSUME TunerBounds
  PROVE  /\ \A g : g \in Tuner!Aigs <=> g \in Nat /\ 1 <= g /\ g <= nAigs
         /\ NoJob \in TunerJobs /\ Garbage \in TunerJobs /\ Tuner!Aigs \subseteq TunerJobs
         /\ nAigs \in Nat /\ NoJob \notin Tuner!Aigs /\ Garbage \notin Tuner!Aigs
         /\ \A g \in Tuner!Aigs : Cost[g] \in Int
  BY DEF TunerBounds, Tuner!Aigs, TunerJobs

\* The pool's sum is the one of the lemmas on folds.
LEMMA TunerSum ==
  \A h, S : Tuner!SumFunctionOnSet(h, S) = SumFunctionOnSet(h, S)
  BY DEF Tuner!SumFunctionOnSet, Tuner!FoldFunctionOnSet, Tuner!MapThenFoldSet,
         SumFunctionOnSet, FoldFunctionOnSet, MapThenFoldSet

\* Costs can be added up over any set of AIGs.
LEMMA TunerCosts ==
  ASSUME TunerBounds, NEW S \in SUBSET Tuner!Aigs
  PROVE  IsFiniteSet(S) /\ Summable(Cost, S)
<1>1. IsFiniteSet(Tuner!Aigs)
  BY FS_Interval DEF TunerBounds, Tuner!Aigs
<1> QED
  BY <1>1, TunerAigsAre, FS_Subset DEF Summable

\* The cost of one more AIG that is no longer pending.
LEMMA TunerOneMore ==
  ASSUME TunerBounds, NEW P \in SUBSET Tuner!Aigs, NEW g \in P
  PROVE  SumFunctionOnSet(Cost, Tuner!Aigs \ (P \ {g}))
           = SumFunctionOnSet(Cost, Tuner!Aigs \ P) + Cost[g]
<1> DEFINE S == Tuner!Aigs \ (P \ {g})
<1>1. S \in SUBSET Tuner!Aigs /\ g \in S /\ S \ {g} = Tuner!Aigs \ P
  OBVIOUS
<1>2. IsFiniteSet(S) /\ Summable(Cost, S)
  BY <1>1, TunerCosts
<1> HIDE DEF S
<1>3. SumFunctionOnSet(Cost, S) = SumFunctionOnSet(Cost, S \ {g}) + Cost[g]
  BY <1>1, <1>2, SumAdds
<1> QED
  BY <1>1, <1>3 DEF S

\* A worker that runs the solver has the AIG of its record.
LEMMA TunerRunning ==
  ASSUME TunerTypeOK, TunerLinkInv, NEW w \in Tuner!Worker, wpc[w] = "run"
  PROVE  /\ cur[w] = job[w] /\ job[w] \in Tuner!Aigs /\ fWorking[w] = 1
         /\ mpc \in TunerGiving /\ (mpc = "raise" => w # scan)
  BY DEF TunerTypeOK, TunerLinkInv, TunerIdle, TunerBusy, TunerMPcs, TunerGiving,
         TunerStopping

\* A worker that reads a job starts on it while the manager gives jobs out, and
\* ends after that.
LEMMA TunerReadJob ==
  ASSUME TunerBounds, TunerTypeOK, TunerLinkInv, NEW w \in Tuner!Worker, Tuner!ReadJob(w)
  PROVE  /\ wpc[w] = "read" /\ mpc # "create" /\ (mpc \in {"assign", "raise"} => w # scan)
         /\ mpc \in {"stop", "stopraise"} => w < scan
         /\ cur' = [cur EXCEPT ![w] = job[w]]
         /\ \/ /\ mpc \in TunerGiving
               /\ job[w] \in Tuner!Aigs /\ fWorking[w] = 1
               /\ wpc' = [wpc EXCEPT ![w] = "run"]
            \/ /\ mpc \in TunerStopping
               /\ \/ wpc' = [wpc EXCEPT ![w] = "exit"]
                  \/ wpc' = [wpc EXCEPT ![w] = "lost"]
         /\ UNCHANGED <<fWorking, job>>
<1>1. /\ wpc[w] = "read" /\ cur' = [cur EXCEPT ![w] = job[w]]
      /\ UNCHANGED <<fWorking, job>>
  BY DEF Tuner!ReadJob, Tuner!record
<1>2. /\ job[w] = NoJob => wpc' = [wpc EXCEPT ![w] = "exit"]
      /\ job[w] = Garbage => wpc' = [wpc EXCEPT ![w] = "lost"]
      /\ job[w] \notin {NoJob, Garbage} => wpc' = [wpc EXCEPT ![w] = "run"]
  BY PoolConstants DEF Tuner!ReadJob
<1>3. mpc # "create" /\ (mpc \in {"assign", "raise"} => w # scan)
  BY <1>1 DEF TunerTypeOK, TunerLinkInv
<1>4. mpc \in {"stop", "stopraise"} => w < scan
  BY <1>1, TunerWorkersAre DEF TunerTypeOK, TunerLinkInv
<1>5. CASE mpc \in TunerStopping
  <2>1. job[w] \in {NoJob, Garbage}
    BY <1>5 DEF TunerLinkInv, TunerStopping
  <2> QED
    BY <1>1, <1>2, <1>3, <1>4, <1>5, <2>1
<1>6. CASE mpc \notin TunerStopping
  <2>1. mpc \in TunerGiving
    BY <1>3, <1>6 DEF TunerTypeOK, TunerMPcs, TunerGiving, TunerStopping
  <2>2. TunerBusy(w)
    BY <1>1, <1>3, <2>1 DEF TunerLinkInv, TunerIdle
  <2>3. job[w] \in Tuner!Aigs /\ fWorking[w] = 1
    BY <1>1, <2>2 DEF TunerBusy
  <2>4. job[w] \notin {NoJob, Garbage}
    BY <2>3 DEF TunerBounds
  <2> QED
    BY <1>1, <1>2, <1>3, <1>4, <2>1, <2>3, <2>4
<1> QED
  BY <1>5, <1>6

\* What a worker that is done leaves in its record.
LEMMA TunerSolved ==
  ASSUME TunerTypeOK, TunerLinkInv, NEW w \in Tuner!Worker, Tuner!Solved(w),
         Result' = [Result EXCEPT ![w] = Cost[cur[w]]]
  PROVE  /\ wpc[w] = "run" /\ wpc' = [wpc EXCEPT ![w] = "clear"]
         /\ job[w] \in Tuner!Aigs /\ fWorking[w] = 1
         /\ mpc \in TunerGiving /\ (mpc = "raise" => w # scan)
         /\ Result' = [Result EXCEPT ![w] = Cost[job[w]]]
         /\ UNCHANGED <<cur, fWorking, job>>
  BY TunerRunning DEF Tuner!Solved, Tuner!record

-----------------------------------------------------------------------------
(* The autotuner: the steps. *)

\* Every step keeps the types.
LEMMA TunerTypeStep ==
  ASSUME TunerBounds, TunerIInv, [Tuner!Next]_(Tuner!vars)
  PROVE  TunerTypeOK'
<1> USE PoolConstants, TunerWorkersAre, TunerAigsAre DEF Tuner!worker, Tuner!record,
    Tuner!own, TunerIInv, TunerTypeOK, TunerMPcs, Tuner!WorkerPcs, TunerLinkInv
<1>1. CASE Tuner!StartThreads
  BY <1>1 DEF Tuner!StartThreads, Tuner!CreateWorker
<1>2. CASE Tuner!WhileWork
  <2>1. CASE fWorkToDo
    BY <1>2, <2>1 DEF Tuner!WhileWork
  <2>2. CASE ~fWorkToDo
    BY <1>2, <2>2 DEF Tuner!WhileWork
  <2> QED
    BY <2>1, <2>2
<1>3. CASE Tuner!StillWorking
  BY <1>3 DEF Tuner!StillWorking, Tuner!NextWorker
<1>4. CASE Tuner!CollectCost
  BY <1>4 DEF Tuner!CollectCost
<1>5. CASE Tuner!NoAigLeft
  BY <1>5 DEF Tuner!NoAigLeft, Tuner!NextWorker
<1>6. CASE Tuner!AssignAig
  BY <1>6 DEF Tuner!AssignAig
<1>7. CASE Tuner!StartJob
  BY <1>7 DEF Tuner!StartJob, Tuner!NextWorker
<1>8. CASE Tuner!StopThreads
  BY <1>8 DEF Tuner!StopThreads, Tuner!StopStore, Tuner!StopRaise, Tuner!RaiseFlag
<1>9. ASSUME NEW w \in Tuner!Worker, Tuner!WorkerThread(w) PROVE TunerTypeOK'
  <2>1. CASE Tuner!Wake(w) /\ UNCHANGED <<mpc, scan, Tuner!own>>
    BY <2>1 DEF Tuner!Wake
  <2>2. CASE Tuner!ReadJob(w) /\ UNCHANGED <<mpc, scan, Tuner!own>>
    BY <2>2, TunerReadJob
  <2>3. CASE Tuner!ClearFlag(w) /\ UNCHANGED <<mpc, scan, Tuner!own>>
    BY <2>3 DEF Tuner!ClearFlag
  <2>4. CASE /\ Tuner!Solved(w) /\ Result' = [Result EXCEPT ![w] = Cost[cur[w]]]
             /\ UNCHANGED <<mpc, scan, top, fWorkToDo, TotalCost>>
    <3>1. /\ wpc[w] = "run" /\ wpc' = [wpc EXCEPT ![w] = "clear"]
          /\ job[w] \in Tuner!Aigs /\ fWorking[w] = 1
          /\ mpc \in TunerGiving /\ (mpc = "raise" => w # scan)
          /\ Result' = [Result EXCEPT ![w] = Cost[job[w]]]
          /\ UNCHANGED <<cur, fWorking, job>>
      BY <2>4, TunerSolved DEF TunerIInv
    <3>2. Cost[job[w]] \in Int
      BY <3>1
    <3> QED
      BY <2>4, <3>1, <3>2
  <2> QED
    BY <1>9, <2>1, <2>2, <2>3, <2>4 DEF Tuner!WorkerThread
<1>10. ASSUME NEW w \in Tuner!Worker, Tuner!Reused(w) PROVE TunerTypeOK'
  BY <1>10 DEF Tuner!Reused, Tuner!FrameReused
<1>11. CASE UNCHANGED Tuner!vars
  BY <1>11 DEF Tuner!vars
<1> QED
  BY <1>1, <1>2, <1>3, <1>4, <1>5, <1>6, <1>7, <1>8, <1>9, <1>10, <1>11
     DEF Tuner!Next, Tuner!Manager

\* A worker gets an AIG only when it is idle and its result was collected.
LEMMA TunerLinkStep ==
  ASSUME TunerBounds, TunerIInv, [Tuner!Next]_(Tuner!vars)
  PROVE  TunerLinkInv'
<1> USE PoolConstants, TunerWorkersAre, TunerAigsAre DEF Tuner!worker, Tuner!record,
    Tuner!own, TunerIInv, TunerTypeOK, TunerLinkInv, TunerIdle, TunerBusy,
    TunerGiving, TunerStopping
<1>1. CASE Tuner!StartThreads
  <2>1. /\ mpc = "create" /\ fWorking' = fWorking /\ job' = job
        /\ wpc' = [wpc EXCEPT ![scan] = "spin"]
    BY <1>1 DEF Tuner!StartThreads, Tuner!CreateWorker
  <2>2. CASE scan < nProcs
    BY <1>1, <2>1, <2>2 DEF Tuner!StartThreads, Tuner!CreateWorker
  <2>3. CASE ~(scan < nProcs)
    <3>1. scan = nProcs /\ mpc' = "while"
      BY <1>1, <2>3 DEF Tuner!StartThreads, Tuner!CreateWorker
    <3>2. \A w \in Tuner!Worker : wpc'[w] = "spin" /\ fWorking'[w] = 0 /\ job'[w] = NoJob
      BY <2>1, <3>1
    <3> QED
      BY <3>1, <3>2
  <2> QED
    BY <2>2, <2>3
<1>2. CASE Tuner!WhileWork
  <2>1. CASE fWorkToDo
    BY <1>2, <2>1 DEF Tuner!WhileWork
  <2>2. CASE ~fWorkToDo
    <3>1. \A w \in Tuner!Worker : job[w] = NoJob
      BY <1>2, <2>2 DEF Tuner!WhileWork, TunerWorkInv, TunerSeen
    <3> QED
      BY <1>2, <2>2, <3>1 DEF Tuner!WhileWork
  <2> QED
    BY <2>1, <2>2
<1>3. CASE Tuner!StillWorking
  BY <1>3 DEF Tuner!StillWorking, Tuner!NextWorker
<1>4. CASE Tuner!CollectCost
  BY <1>4 DEF Tuner!CollectCost
<1>5. CASE Tuner!NoAigLeft
  BY <1>5 DEF Tuner!NoAigLeft, Tuner!NextWorker
<1>6. CASE Tuner!AssignAig
  BY <1>6 DEF Tuner!AssignAig
<1>7. CASE Tuner!StartJob
  BY <1>7 DEF Tuner!StartJob, Tuner!NextWorker
<1>8. CASE Tuner!StopThreads
  BY <1>8 DEF Tuner!StopThreads, Tuner!StopStore, Tuner!StopRaise, Tuner!RaiseFlag
<1>9. ASSUME NEW w \in Tuner!Worker, Tuner!WorkerThread(w) PROVE TunerLinkInv'
  <2>1. CASE Tuner!Wake(w) /\ UNCHANGED <<mpc, scan, Tuner!own>>
    BY <2>1 DEF Tuner!Wake
  <2>2. CASE Tuner!ReadJob(w) /\ UNCHANGED <<mpc, scan, Tuner!own>>
    BY <2>2, TunerReadJob
  <2>3. CASE Tuner!ClearFlag(w) /\ UNCHANGED <<mpc, scan, Tuner!own>>
    BY <2>3 DEF Tuner!ClearFlag
  <2>4. CASE /\ Tuner!Solved(w) /\ Result' = [Result EXCEPT ![w] = Cost[cur[w]]]
             /\ UNCHANGED <<mpc, scan, top, fWorkToDo, TotalCost>>
    <3>1. /\ wpc[w] = "run" /\ wpc' = [wpc EXCEPT ![w] = "clear"]
          /\ job[w] \in Tuner!Aigs /\ fWorking[w] = 1
          /\ mpc \in TunerGiving /\ (mpc = "raise" => w # scan)
          /\ Result' = [Result EXCEPT ![w] = Cost[job[w]]]
          /\ UNCHANGED <<cur, fWorking, job>>
      BY <2>4, TunerSolved DEF TunerIInv
    <3> QED
      BY <2>4, <3>1
  <2> QED
    BY <1>9, <2>1, <2>2, <2>3, <2>4 DEF Tuner!WorkerThread
<1>10. ASSUME NEW w \in Tuner!Worker, Tuner!Reused(w) PROVE TunerLinkInv'
  BY <1>10 DEF Tuner!Reused, Tuner!FrameReused
<1>11. CASE UNCHANGED Tuner!vars
  BY <1>11 DEF Tuner!vars
<1> QED
  BY <1>1, <1>2, <1>3, <1>4, <1>5, <1>6, <1>7, <1>8, <1>9, <1>10, <1>11
     DEF Tuner!Next, Tuner!Manager

\* fWorkToDo is down only if there is nothing left on the stack or in a record.
LEMMA TunerWorkStep ==
  ASSUME TunerBounds, TunerIInv, [Tuner!Next]_(Tuner!vars)
  PROVE  TunerWorkInv'
<1> USE PoolConstants, TunerWorkersAre, TunerAigsAre DEF Tuner!worker, Tuner!record,
    Tuner!own, TunerIInv, TunerTypeOK, TunerWorkInv, TunerSeen, TunerGiving,
    TunerStopping
<1>1. CASE Tuner!StartThreads
  <2>1. mpc' \in {"create", "while"} /\ fWorkToDo' /\ top' = nAigs
    BY <1>1 DEF Tuner!StartThreads, Tuner!CreateWorker
  <2> QED
    BY <2>1
<1>2. CASE Tuner!WhileWork
  <2>1. CASE fWorkToDo
    <3>1. mpc' = "scan" /\ scan' = 1 /\ top' = top
      BY <1>2, <2>1 DEF Tuner!WhileWork
    <3>2. fWorkToDo' = (top > 0)
      BY <1>2, <2>1 DEF Tuner!WhileWork
    <3>3. ~fWorkToDo' => top = 0
      <4>1. ~fWorkToDo' => ~(top > 0)
        BY Zenon, <3>2
      <4> QED
        BY <4>1
    <3>4. {w \in Tuner!Worker : w < scan'} = {}
      BY <3>1
    <3> QED
      BY <3>1, <3>3, <3>4
  <2>2. CASE ~fWorkToDo
    BY <1>2, <2>2 DEF Tuner!WhileWork
  <2> QED
    BY <2>1, <2>2
<1>3. CASE Tuner!StillWorking
  BY <1>3 DEF Tuner!StillWorking, Tuner!NextWorker
<1>4. CASE Tuner!CollectCost
  BY <1>4 DEF Tuner!CollectCost
<1>5. CASE Tuner!NoAigLeft
  <2>1. job[scan] = NoJob
    BY <1>5 DEF Tuner!NoAigLeft, TunerLinkInv
  <2> QED
    BY <1>5, <2>1 DEF Tuner!NoAigLeft, Tuner!NextWorker
<1>6. CASE Tuner!AssignAig
  BY <1>6 DEF Tuner!AssignAig
<1>7. CASE Tuner!StartJob
  BY <1>7 DEF Tuner!StartJob, Tuner!NextWorker
<1>8. CASE Tuner!StopThreads
  BY <1>8 DEF Tuner!StopThreads, Tuner!StopStore, Tuner!StopRaise, Tuner!RaiseFlag
<1>9. ASSUME NEW w \in Tuner!Worker, Tuner!WorkerThread(w) PROVE TunerWorkInv'
  BY <1>9, TunerReadJob DEF Tuner!WorkerThread, Tuner!Wake, Tuner!ClearFlag, Tuner!Solved
<1>10. ASSUME NEW w \in Tuner!Worker, Tuner!Reused(w) PROVE TunerWorkInv'
  BY <1>10 DEF Tuner!Reused, Tuner!FrameReused
<1>11. CASE UNCHANGED Tuner!vars
  BY <1>11 DEF Tuner!vars
<1> QED
  BY <1>1, <1>2, <1>3, <1>4, <1>5, <1>6, <1>7, <1>8, <1>9, <1>10, <1>11
     DEF Tuner!Next, Tuner!Manager

\* While neither the stack nor a record changes, neither does what is pending.
LEMMA TunerSumKept ==
  ASSUME TunerIInv, UNCHANGED <<top, job, TotalCost>>, mpc' = "create" <=> mpc = "create",
         mpc' \in TunerGiving <=> mpc \in TunerGiving,
         mpc' \in TunerStopping <=> mpc \in TunerStopping
  PROVE  TunerSumInv'
<1>1. TunerPending' = TunerPending
  BY DEF TunerPending
<1> QED
  BY <1>1 DEF TunerIInv, TunerSumInv

\* A cost enters the total when its AIG stops being pending, and once.
LEMMA TunerSumStep ==
  ASSUME TunerBounds, TunerIInv, [Tuner!Next]_(Tuner!vars)
  PROVE  TunerSumInv'
<1> USE PoolConstants DEF Tuner!worker, Tuner!record, Tuner!own
<1>0. TunerTypeOK /\ TunerLinkInv /\ TunerWorkInv /\ TunerSumInv
  BY DEF TunerIInv
<1>1. CASE Tuner!StartThreads
  <2>1. /\ mpc = "create" /\ TotalCost = 0 /\ top = nAigs
        /\ \A w \in Tuner!Worker : job[w] = NoJob
    BY <1>0, <1>1 DEF TunerSumInv, TunerWorkInv, TunerLinkInv, Tuner!StartThreads,
       Tuner!CreateWorker
  <2>2. mpc' \in {"create", "while"} /\ UNCHANGED <<top, job, TotalCost>>
    BY <1>1, <2>1 DEF Tuner!StartThreads, Tuner!CreateWorker
  <2>3. TunerPending' = Tuner!Aigs
    BY <2>1, <2>2 DEF TunerPending, Tuner!Aigs
  <2>4. SumFunctionOnSet(Cost, Tuner!Aigs \ TunerPending') = 0
    BY <2>3, SumEmpty
  <2> QED
    BY <2>1, <2>2, <2>4 DEF TunerSumInv, TunerStopping
<1>2. CASE Tuner!WhileWork
  <2>1. CASE fWorkToDo
    BY <1>2, <2>1, TunerSumKept DEF Tuner!WhileWork, TunerGiving, TunerStopping
  <2>2. CASE ~fWorkToDo
    <3>1. top = 0 /\ (\A w \in Tuner!Worker : job[w] = NoJob)
      BY <1>0, <1>2, <2>2 DEF TunerWorkInv, TunerSeen, Tuner!WhileWork, TunerGiving
    <3>2. TunerPending = {}
      BY <3>1 DEF TunerPending
    <3>3. Tuner!Aigs \ TunerPending = Tuner!Aigs
      BY <3>2
    <3>4. TotalCost = SumFunctionOnSet(Cost, Tuner!Aigs)
      BY <1>0, <1>2, <3>3 DEF TunerSumInv, Tuner!WhileWork, TunerGiving
    <3>5. mpc' = "stop" /\ TotalCost' = TotalCost
      BY <1>2, <2>2 DEF Tuner!WhileWork
    <3> QED
      BY <3>4, <3>5 DEF TunerSumInv, TunerGiving
  <2> QED
    BY <2>1, <2>2
<1>3. CASE Tuner!StillWorking
  BY <1>3, TunerSumKept DEF Tuner!StillWorking, Tuner!NextWorker, TunerGiving, TunerStopping
<1>4. CASE Tuner!CollectCost
  <2>1. /\ mpc = "scan" /\ mpc' = "assign" /\ scan \in Tuner!Worker /\ top' = top
        /\ job' = [job EXCEPT ![scan] = NoJob] /\ job \in [Tuner!Worker -> TunerJobs]
        /\ fWorking[scan] = 0
    BY <1>0, <1>4 DEF Tuner!CollectCost, TunerTypeOK
  <2>2. \A w \in Tuner!Worker : TunerIdle(w) \/ TunerBusy(w)
    BY <1>0, <2>1 DEF TunerLinkInv, TunerGiving
  <2>3. /\ \A v, w \in Tuner!Worker :
             job[w] # NoJob => job[w] > top /\ (v # w => job[v] # job[w])
        /\ TotalCost = SumFunctionOnSet(Cost, Tuner!Aigs \ TunerPending)
    BY <1>0, <2>1 DEF TunerSumInv, TunerGiving
  <2>4. \A v, w \in Tuner!Worker :
          job'[w] # NoJob => job'[w] > top' /\ (v # w => job'[v] # job'[w])
    BY <2>1, <2>3
  <2>5. CASE job[scan] = NoJob
    <3>1. job' = job /\ TotalCost' = TotalCost
      BY <1>4, <2>1, <2>5 DEF Tuner!CollectCost
    <3> QED
      BY <2>1, <2>5, <3>1, TunerSumKept DEF TunerGiving, TunerStopping
  <2>6. CASE job[scan] # NoJob
    <3>1. job[scan] \in Tuner!Aigs /\ Result[scan] = Cost[job[scan]]
      BY <2>1, <2>2, <2>6 DEF TunerIdle, TunerBusy
    <3>2. TotalCost' = TotalCost + Cost[job[scan]]
      BY <1>4, <2>6, <3>1 DEF Tuner!CollectCost
    <3>3. TunerPending \in SUBSET Tuner!Aigs
      <4>1. \A w \in Tuner!Worker : job[w] # NoJob => job[w] \in Tuner!Aigs
        BY <2>2 DEF TunerIdle, TunerBusy
      <4>2. 1..top \subseteq Tuner!Aigs
        BY <1>0, TunerAigsAre DEF TunerTypeOK
      <4> QED
        BY <4>1, <4>2 DEF TunerPending
    <3>4. job[scan] \in TunerPending
      BY <2>1, <2>6 DEF TunerPending
    <3>5. TunerPending' = TunerPending \ {job[scan]}
      <4>1. \A w \in Tuner!Worker : job'[w] = IF w = scan THEN NoJob ELSE job[w]
        BY <2>1
      <4>2. ~(job[scan] \in 1..top)
        BY <2>1, <2>3, <2>6, <3>1, <1>0, TunerAigsAre DEF TunerTypeOK
      <4>3. \A w \in Tuner!Worker : w # scan => job[w] # job[scan]
        BY <2>1, <2>3, <2>6
      <4>4. {job'[w] : w \in {v \in Tuner!Worker : job'[v] # NoJob}}
              = {job[w] : w \in {v \in Tuner!Worker : job[v] # NoJob}} \ {job[scan]}
        BY <4>1, <4>3
      <4> QED
        BY <2>1, <4>2, <4>4 DEF TunerPending
    <3>6. SumFunctionOnSet(Cost, Tuner!Aigs \ TunerPending')
            = SumFunctionOnSet(Cost, Tuner!Aigs \ TunerPending) + Cost[job[scan]]
      BY <3>3, <3>4, <3>5, TunerOneMore
    <3> QED
      BY <2>1, <2>3, <2>4, <3>2, <3>6 DEF TunerSumInv, TunerStopping
  <2> QED
    BY <2>5, <2>6
<1>5. CASE Tuner!NoAigLeft
  BY <1>5, TunerSumKept DEF Tuner!NoAigLeft, Tuner!NextWorker, TunerGiving, TunerStopping
<1>6. CASE Tuner!AssignAig
  <2>1. /\ mpc = "assign" /\ mpc' = "raise" /\ scan \in Tuner!Worker /\ top' = top - 1
        /\ job' = [job EXCEPT ![scan] = top] /\ job \in [Tuner!Worker -> TunerJobs]
        /\ top > 0 /\ top \in 0..nAigs /\ TotalCost' = TotalCost /\ job[scan] = NoJob
    BY <1>0, <1>6 DEF Tuner!AssignAig, TunerTypeOK, TunerLinkInv
  <2>2. /\ \A v, w \in Tuner!Worker :
             job[w] # NoJob => job[w] > top /\ (v # w => job[v] # job[w])
        /\ TotalCost = SumFunctionOnSet(Cost, Tuner!Aigs \ TunerPending)
    BY <1>0, <2>1 DEF TunerSumInv, TunerGiving
  <2>3. \A w \in Tuner!Worker : w # scan => TunerIdle(w) \/ TunerBusy(w)
    BY <1>0, <2>1 DEF TunerLinkInv, TunerGiving
  <2>4. \A w \in Tuner!Worker : job[w] # NoJob => job[w] \in Tuner!Aigs
    BY <2>1, <2>3 DEF TunerIdle, TunerBusy
  <2>5. top \in Tuner!Aigs /\ top # NoJob
    BY <2>1, TunerAigsAre
  <2>6. \A w \in Tuner!Worker : job'[w] = IF w = scan THEN top ELSE job[w]
    BY <2>1
  <2>7. \A w \in Tuner!Worker : job'[w] # NoJob => job'[w] > top'
    BY <2>1, <2>2, <2>4, <2>5, <2>6, TunerAigsAre
  <2>8. \A v, w \in Tuner!Worker : job'[w] # NoJob /\ v # w => job'[v] # job'[w]
    <3> SUFFICES ASSUME NEW v \in Tuner!Worker, NEW w \in Tuner!Worker,
                        job'[w] # NoJob, v # w
                 PROVE  job'[v] # job'[w]
      OBVIOUS
    <3>1. CASE w = scan
      BY <2>1, <2>2, <2>4, <2>5, <2>6, <3>1, TunerAigsAre
    <3>2. CASE w # scan
      BY <2>1, <2>2, <2>4, <2>5, <2>6, <3>2, TunerAigsAre
    <3> QED
      BY <3>1, <3>2
  <2>9. TunerPending' = TunerPending
    <3>1. {job'[w] : w \in {v \in Tuner!Worker : job'[v] # NoJob}}
            = {job[w] : w \in {v \in Tuner!Worker : job[v] # NoJob}} \union {top}
      BY <2>1, <2>5, <2>6
    <3>2. (1..top') \union {top} = 1..top
      BY <2>1
    <3> QED
      BY <3>1, <3>2 DEF TunerPending
  <2> QED
    BY <2>1, <2>2, <2>7, <2>8, <2>9 DEF TunerSumInv, TunerStopping
<1>7. CASE Tuner!StartJob
  BY <1>7, TunerSumKept DEF Tuner!StartJob, Tuner!NextWorker, TunerGiving, TunerStopping
<1>8. CASE Tuner!StopThreads
  <2>1. mpc \in TunerStopping /\ mpc' \in TunerStopping /\ TotalCost' = TotalCost
    BY <1>8 DEF Tuner!StopThreads, Tuner!StopStore, Tuner!StopRaise, Tuner!RaiseFlag,
       TunerStopping
  <2> QED
    BY <1>0, <2>1 DEF TunerSumInv, TunerGiving, TunerStopping
<1>9. ASSUME NEW w \in Tuner!Worker, Tuner!WorkerThread(w) PROVE TunerSumInv'
  <2>1. UNCHANGED <<mpc, top, job, TotalCost>>
    BY <1>9 DEF Tuner!WorkerThread, Tuner!Wake, Tuner!ReadJob, Tuner!ClearFlag, Tuner!Solved
  <2> QED
    BY <2>1, TunerSumKept
<1>10. ASSUME NEW w \in Tuner!Worker, Tuner!Reused(w) PROVE TunerSumInv'
  <2>1. mpc = "returned" /\ mpc' = mpc /\ TotalCost' = TotalCost
    BY <1>10 DEF Tuner!Reused, Tuner!FrameReused
  <2> QED
    BY <1>0, <2>1 DEF TunerSumInv, TunerGiving, TunerStopping
<1>11. CASE UNCHANGED Tuner!vars
  BY <1>11, TunerSumKept DEF Tuner!vars
<1> QED
  BY <1>1, <1>2, <1>3, <1>4, <1>5, <1>6, <1>7, <1>8, <1>9, <1>10, <1>11
     DEF Tuner!Next, Tuner!Manager

\* Nothing is given out, and nothing added up.
LEMMA TunerInitInv == ASSUME TunerBounds, Tuner!Init PROVE TunerIInv
<1> USE PoolConstants, TunerWorkersAre, TunerAigsAre DEF Tuner!Init, Tuner!PoolInit
<1>1. TunerTypeOK
  BY DEF TunerTypeOK, Tuner!WorkerPcs, TunerMPcs
<1>2. TunerLinkInv
  BY DEF TunerLinkInv, TunerGiving, TunerStopping
<1>3. TunerWorkInv
  BY DEF TunerWorkInv, TunerGiving, TunerStopping
<1>4. TunerSumInv
  BY DEF TunerSumInv, TunerGiving, TunerStopping
<1> QED
  BY <1>1, <1>2, <1>3, <1>4 DEF TunerIInv

\* A step of a session is one of its command.
LEMMA TunerSteps ==
  ASSUME command = "tuner" => TunerTypeOK, [Next]_vars
  PROVE  command' = command /\ (command = "tuner" => [Tuner!Next]_(Tuner!vars))
<1>1. CASE Manager
  BY <1>1 DEF Manager, OfTuner, OfStoch, OfCnf, OfBmcs, OfCec, OfGla, OfProg, Tuner!Next
<1>2. CASE PdrAnswers \/ Provers
  BY <1>2 DEF PdrAnswers, Provers, OfGla
<1>3. ASSUME NEW t \in Threads, Thread(t)
      PROVE  command' = command /\ (command = "tuner" => Tuner!Next)
  <2>1. command' = command
    BY <1>3 DEF Thread
  <2>2. ASSUME command = "tuner" PROVE Tuner!Next
    <3>1. t <= nProcs /\ Tuner!WorkerThread(t)
      BY <1>3, <2>2 DEF Thread, OfTuner, OfStoch, OfCnf, OfBmcs, OfCec, OfProg
    <3>2. t \in Tuner!Worker
      BY <3>1 DEF Tuner!Worker, Threads
    <3> QED
      BY <3>1, <3>2 DEF Tuner!Next
  <2> QED
    BY <2>1, <2>2
<1>4. ASSUME NEW t \in Threads, Reused(t)
      PROVE  command' = command /\ (command = "tuner" => Tuner!Next)
  <2>1. command' = command
    BY <1>4 DEF Reused
  <2>2. ASSUME command = "tuner" PROVE Tuner!Next
    <3>1. t \in Tuner!Worker
      BY <1>4, <2>2 DEF Reused, TunerTypeOK
    <3>2. Tuner!FrameReused(t)
      BY <1>4 DEF Reused, Pool!FrameReused, Pool!worker, Tuner!FrameReused, Tuner!worker
    <3>3. UNCHANGED Tuner!own
      BY <1>4 DEF Reused, work, tuner, Tuner!own
    <3> QED
      BY <3>1, <3>2, <3>3 DEF Tuner!Next, Tuner!Reused
  <2> QED
    BY <2>1, <2>2
<1>5. CASE UNCHANGED vars
  BY <1>5 DEF vars, pool, work, shared, tuner, Tuner!vars, Tuner!own
<1> QED
  BY <1>1, <1>2, <1>3, <1>4, <1>5 DEF Next

\* The invariant holds in every reachable state of the command.
LEMMA TunerInvariant == Spec => [](command = "tuner" => TunerIInv)
<1>1. Init => (command = "tuner" => TunerIInv)
  BY TunerBoundsHold, TunerInitInv DEF Init
<1>2. (command = "tuner" => TunerIInv) /\ [Next]_vars => (command = "tuner" => TunerIInv)'
  BY TunerBoundsHold, TunerSteps, TunerTypeStep, TunerLinkStep, TunerWorkStep,
     TunerSumStep DEF TunerIInv
<1> QED
  BY <1>1, <1>2, PTL DEF Spec

\* Cmd_RunAutoTunerEval: however the workers finish, each cost is added once and the
\* cost that is returned is that of the whole array of AIGs.
THEOREM TotalIsSum == Spec => []TotalIsRight
<1>1. ASSUME TunerBounds, TunerIInv PROVE Tuner!CostsAddUp
  <2>1. CASE mpc \in TunerGiving
    BY <1>1, <2>1, TunerSum DEF TunerIInv, TunerSumInv, TunerPending, Tuner!CostsAddUp,
       TunerGiving
  <2>2. CASE mpc = "stop"
    <3>1. TunerPending = {}
      BY <1>1, <2>2 DEF TunerIInv, TunerLinkInv, TunerWorkInv, TunerPending, TunerStopping
    <3>2. Tuner!Aigs \ TunerPending = Tuner!Aigs
      BY <3>1
    <3>3. TotalCost = SumFunctionOnSet(Cost, Tuner!Aigs \ TunerPending)
      BY <1>1, <2>2, <3>2 DEF TunerIInv, TunerSumInv, TunerStopping
    <3> QED
      BY <3>3, TunerSum DEF TunerPending, Tuner!CostsAddUp
  <2> QED
    BY <2>1, <2>2 DEF Tuner!CostsAddUp, TunerGiving
<1>2. ASSUME TunerBounds, TunerIInv PROVE Tuner!ResultAssert
  BY <1>2 DEF TunerIInv, TunerTypeOK, TunerLinkInv, TunerGiving, TunerIdle, TunerBusy,
     Tuner!ResultAssert
<1>3. ASSUME TunerBounds, TunerIInv PROVE Tuner!TotalIsRight
  <2>1. DOMAIN Cost = Tuner!Aigs
    BY <1>3 DEF TunerBounds
  <2> QED
    BY <1>3, <2>1, TunerSum DEF TunerIInv, TunerSumInv, TunerStopping, Tuner!TotalIsRight,
       Tuner!SumFunction, Tuner!FoldFunction, Tuner!SumFunctionOnSet
<1>4. TunerIInv => Tuner!CostsAddUp /\ Tuner!ResultAssert /\ Tuner!TotalIsRight
  BY <1>1, <1>2, <1>3, TunerBoundsHold
<1> QED
  BY <1>4, TunerInvariant, PTL DEF TotalIsRight
-----------------------------------------------------------------------------
(* The stand-alone starter. *)

\* The types of the program's variables.
ProgTypeOK ==
  /\ kind \in [Prog!LineNo -> Prog!Kinds] /\ nCores \in Int
  /\ pc \in {"check", "fgets", "sample", "incr", "store", "create", "drain", "return"}
  /\ line \in 1..(NLines + 1) /\ Counter \in Int
  /\ mutex \in Prog!LineNo \union {Prog!Main, Prog!Free} /\ nThreadsRunning \in Int
  /\ tmp \in [Prog!LineNo \union {Prog!Main} -> Int]
  /\ thr \in [Prog!LineNo -> Prog!ThrPcs \union {"report"}]

\* Who holds the mutex, and that what was loaded inside a section is still the
\* value of the counter when it is stored; a report is printed in a section too.
ProgMutexInv ==
  /\ pc = "store" <=> mutex = Prog!Main
  /\ pc = "store" => tmp[Prog!Main] = nThreadsRunning
  /\ \A l \in Prog!LineNo : thr[l] \in {"store", "report"} <=> mutex = l
  /\ \A l \in Prog!LineNo : thr[l] = "store" => tmp[l] = nThreadsRunning

\* The counter is the number of commands that are not over, plus the one that is
\* about to start.
ProgCountInv ==
  nThreadsRunning = Cardinality(Prog!Counted) + (IF pc = "create" THEN 1 ELSE 0)

\* Exactly the commands read so far have a thread; the program waits for its threads
\* at the end of the file or at the limit, and is back when none is left.
ProgReadInv ==
  /\ \A l \in Prog!LineNo : thr[l] # "none" <=> (l < line /\ l \in Prog!Wanted)
  /\ pc = "check" => line = 1
  /\ pc \in {"sample", "incr", "store", "create"} => line \in Prog!Wanted
  /\ pc = "drain" => line = NLines + 1 \/ Cardinality(Prog!Created) = MAX_COMM_NUM
  /\ pc = "return" =>
       /\ Prog!Counted = {}
       /\ nCores <= 0 \/ line = NLines + 1 \/ Cardinality(Prog!Created) = MAX_COMM_NUM

ProgIInv == ProgTypeOK /\ ProgMutexInv /\ ProgCountInv /\ ProgReadInv

\* The program takes Cardinality from the same module.
LEMMA ProgCardinality == \A S : Prog!Cardinality(S) = Cardinality(S)
  BY Zenon DEF Prog!Cardinality, Cardinality

\* The number of commands that are not over is a number.
LEMMA ProgFinite ==
  /\ IsFiniteSet(Prog!Counted) /\ Cardinality(Prog!Counted) \in Nat
  /\ IsFiniteSet(Prog!Created) /\ Cardinality(Prog!Created) \in Nat
<1>1. IsFiniteSet(Prog!LineNo)
  BY StarterConstants, FS_Interval DEF Prog!LineNo
<1>2. Prog!Counted \subseteq Prog!LineNo /\ Prog!Created \subseteq Prog!LineNo
  BY DEF Prog!Counted, Prog!Created
<1> QED
  BY <1>1, <1>2, FS_Subset, FS_CardinalityType

\* A command that starts adds one to both numbers.
LEMMA ProgStarts ==
  ASSUME ProgTypeOK, NEW l \in Prog!LineNo, thr[l] = "none",
         thr' = [thr EXCEPT ![l] = "system"]
  PROVE  /\ Cardinality(Prog!Counted') = Cardinality(Prog!Counted) + 1
         /\ Cardinality(Prog!Created') = Cardinality(Prog!Created) + 1
<1>1. /\ Prog!Counted' = Prog!Counted \union {l} /\ l \notin Prog!Counted
      /\ Prog!Created' = Prog!Created \union {l} /\ l \notin Prog!Created
  BY DEF Prog!Counted, Prog!Created, ProgTypeOK
<1> QED
  BY <1>1, ProgFinite, FS_AddElement

\* A thread that exits takes one away from the commands that are not over.
LEMMA ProgEnds ==
  ASSUME ProgTypeOK, NEW l \in Prog!LineNo, thr[l] = "store",
         thr' = [thr EXCEPT ![l] = "exit"]
  PROVE  /\ Cardinality(Prog!Counted') = Cardinality(Prog!Counted) - 1
         /\ Prog!Created' = Prog!Created
<1>1. /\ Prog!Counted' = Prog!Counted \ {l} /\ l \in Prog!Counted
      /\ Prog!Created' = Prog!Created
  BY DEF Prog!Counted, Prog!Created, ProgTypeOK
<1> QED
  BY <1>1, ProgFinite, FS_RemoveElement

\* A move between two places of a running thread changes neither.
LEMMA ProgMoves ==
  ASSUME ProgTypeOK, NEW l \in Prog!LineNo, NEW to \in {"decr", "store", "report"},
         thr[l] \in {"system", "decr", "report"}, thr' = [thr EXCEPT ![l] = to]
  PROVE  Prog!Counted' = Prog!Counted /\ Prog!Created' = Prog!Created
  BY DEF Prog!Counted, Prog!Created, ProgTypeOK

LEMMA ProgInitInv == ASSUME Prog!ProgramInit PROVE ProgIInv
<1> USE StarterConstants DEF Prog!ProgramInit, Prog!Init
<1>1. ProgTypeOK
  BY DEF ProgTypeOK, Prog!LineNo, Prog!Main, Prog!Free, Prog!Kinds, Prog!ThrPcs
<1>2. Prog!Counted = {}
  BY DEF Prog!Counted
<1>3. ProgCountInv
  BY <1>2, FS_EmptySet DEF ProgCountInv
<1>4. ProgMutexInv
  BY DEF ProgMutexInv, Prog!LineNo, Prog!Main, Prog!Free
<1>5. ProgReadInv
  BY DEF ProgReadInv, Prog!LineNo
<1> QED
  BY <1>1, <1>3, <1>4, <1>5 DEF ProgIInv

\* Every step of the program keeps the invariant.
LEMMA ProgStep == ASSUME ProgIInv, [Prog!ProgramNext]_(Prog!vars) PROVE ProgIInv'
<1> USE StarterConstants DEF ProgIInv
<1>c. Cardinality(Prog!Counted) \in Nat /\ Cardinality(Prog!Created) \in Nat
  BY ProgFinite
<1>s. ASSUME UNCHANGED thr
      PROVE  Prog!Counted' = Prog!Counted /\ Prog!Created' = Prog!Created
  BY <1>s DEF Prog!Counted, Prog!Created
<1>w. ASSUME UNCHANGED kind PROVE Prog!Wanted' = Prog!Wanted
  BY <1>w DEF Prog!Wanted
<1>1. CASE Prog!CheckCPUs
  <2>1. Prog!Counted = {}
    BY <1>1 DEF Prog!CheckCPUs, Prog!Counted, ProgReadInv, Prog!LineNo
  <2> QED
    BY <1>1, <2>1, <1>s, <1>w DEF Prog!CheckCPUs, Prog!file, Prog!shared, ProgTypeOK,
       ProgMutexInv,
       ProgCountInv, ProgReadInv
<1>2. CASE Prog!ReadLine
  BY <1>2, <1>s, <1>w DEF Prog!ReadLine, Prog!file, Prog!shared, ProgTypeOK, ProgMutexInv,
     ProgCountInv, ProgReadInv, Prog!Wanted, Prog!LineNo
<1>3. CASE Prog!SampleCounter
  BY <1>3, <1>s, <1>w DEF Prog!SampleCounter, Prog!file, Prog!shared, ProgTypeOK,
     ProgMutexInv,
     ProgCountInv, ProgReadInv
<1>4. CASE Prog!IncrLoad
  BY <1>4, <1>s, <1>w DEF Prog!IncrLoad, Prog!file, ProgTypeOK, ProgMutexInv, ProgCountInv,
     ProgReadInv, Prog!LineNo, Prog!Main, Prog!Free
<1>5. CASE Prog!IncrStore
  BY <1>5, <1>c, <1>s, <1>w DEF Prog!IncrStore, Prog!file, ProgTypeOK, ProgMutexInv,
     ProgCountInv,
     ProgReadInv, Prog!LineNo, Prog!Main, Prog!Free
<1>6. CASE Prog!CreateCounted
  <2>1. line \in Prog!LineNo /\ thr[line] = "none"
    BY <1>6 DEF Prog!CreateCounted, ProgReadInv, Prog!Wanted, ProgTypeOK, Prog!LineNo
  <2>2. /\ Cardinality(Prog!Counted') = Cardinality(Prog!Counted) + 1
        /\ Cardinality(Prog!Created') = Cardinality(Prog!Created) + 1
    BY <1>6, <2>1, ProgStarts DEF Prog!CreateCounted
  <2>3. /\ pc' = "drain" /\ Cardinality(Prog!Created') = MAX_COMM_NUM
        \/ pc' = "fgets"
    BY <1>6, <2>2, ProgCardinality DEF Prog!CreateCounted
  <2>4. ProgTypeOK' /\ ProgMutexInv'
    BY <1>6, <2>1, <2>3 DEF Prog!CreateCounted, Prog!file, Prog!shared, ProgTypeOK,
       ProgMutexInv,
       Prog!ThrPcs, Prog!LineNo
  <2>5. ProgReadInv'
    BY <1>6, <2>1, <2>3 DEF Prog!CreateCounted, Prog!file, Prog!shared, ProgTypeOK,
       ProgReadInv,
       Prog!Wanted, Prog!LineNo
  <2>6. ProgCountInv'
    BY <1>6, <2>2, <2>3, <1>c DEF Prog!CreateCounted, Prog!shared, ProgCountInv
  <2> QED
    BY <2>4, <2>5, <2>6
<1>7. CASE Prog!Drain
  <2>1. nThreadsRunning = 0 => Prog!Counted = {}
    BY <1>7, ProgFinite, FS_EmptySet DEF Prog!Drain, ProgCountInv
  <2> QED
    BY <1>7, <2>1, <1>s, <1>w DEF Prog!Drain, Prog!file, Prog!shared, ProgTypeOK,
       ProgMutexInv,
       ProgCountInv, ProgReadInv
<1>8. ASSUME NEW l \in Prog!LineNo, Prog!CommandThread(l) PROVE ProgIInv'
  <2>1. CASE Prog!SystemReturns(l)
    <3>1. Prog!Counted' = Prog!Counted /\ Prog!Created' = Prog!Created
      BY <2>1, ProgMoves DEF Prog!SystemReturns
    <3> QED
      BY <2>1, <3>1, <1>w DEF Prog!SystemReturns, Prog!file, Prog!shared, ProgTypeOK,
         ProgMutexInv,
         ProgCountInv, ProgReadInv, Prog!ThrPcs
  <2>2. CASE Prog!DecrLoad(l)
    <3>1. Prog!Counted' = Prog!Counted /\ Prog!Created' = Prog!Created
      BY <2>2, ProgMoves DEF Prog!DecrLoad
    <3> QED
      BY <2>2, <3>1, <1>w DEF Prog!DecrLoad, Prog!file, ProgTypeOK, ProgMutexInv,
         ProgCountInv,
         ProgReadInv, Prog!ThrPcs, Prog!LineNo, Prog!Main, Prog!Free
  <2>3. CASE Prog!DecrStore(l)
    <3>1. /\ Cardinality(Prog!Counted') = Cardinality(Prog!Counted) - 1
          /\ Prog!Created' = Prog!Created
      BY <2>3, ProgEnds DEF Prog!DecrStore
    <3>2. ProgTypeOK' /\ ProgMutexInv'
      BY <2>3 DEF Prog!DecrStore, Prog!file, ProgTypeOK, ProgMutexInv, Prog!ThrPcs,
         Prog!LineNo,
         Prog!Main, Prog!Free
    <3>3. pc # "return"
      BY <2>3 DEF Prog!DecrStore, ProgReadInv, Prog!Counted
    <3>4. ProgReadInv'
      BY <2>3, <3>1, <3>3, <1>w DEF Prog!DecrStore, Prog!file, ProgTypeOK, ProgReadInv
    <3>5. ProgCountInv'
      BY <2>3, <3>1, <1>c DEF Prog!DecrStore, ProgTypeOK, ProgMutexInv, ProgCountInv
    <3> QED
      BY <3>2, <3>4, <3>5
  <2>4. CASE Prog!SystemFails(l)
    <3>1. Prog!Counted' = Prog!Counted /\ Prog!Created' = Prog!Created
      BY <2>4, ProgMoves DEF Prog!SystemFails
    <3> QED
      BY <2>4, <3>1, <1>w DEF Prog!SystemFails, Prog!file, ProgTypeOK, ProgMutexInv,
         ProgCountInv,
         ProgReadInv, Prog!ThrPcs, Prog!LineNo, Prog!Main, Prog!Free
  <2>5. CASE Prog!Reported(l)
    <3>1. Prog!Counted' = Prog!Counted /\ Prog!Created' = Prog!Created
      BY <2>5, ProgMoves DEF Prog!Reported
    <3> QED
      BY <2>5, <3>1, <1>w DEF Prog!Reported, Prog!file, ProgTypeOK, ProgMutexInv,
         ProgCountInv,
         ProgReadInv, Prog!ThrPcs, Prog!LineNo, Prog!Main, Prog!Free
  <2> QED
    BY <1>8, <2>1, <2>2, <2>3, <2>4, <2>5 DEF Prog!CommandThread, Prog!ThreadStep
<1>9. CASE UNCHANGED Prog!vars
  BY <1>9, <1>s, <1>w DEF Prog!vars, ProgTypeOK, ProgMutexInv, ProgCountInv, ProgReadInv
<1> QED
  BY <1>1, <1>2, <1>3, <1>4, <1>5, <1>6, <1>7, <1>8, <1>9 DEF Prog!ProgramNext,
     Prog!MainLoop

\* Every step of a session that runs it is one of the program.
LEMMA ProgSteps ==
  ASSUME [Next]_vars
  PROVE  command' = command /\ (command = "starter" => [Prog!ProgramNext]_(Prog!vars))
<1>1. CASE Manager
  BY <1>1 DEF Manager, OfTuner, OfStoch, OfCnf, OfBmcs, OfCec, OfGla, OfProg,
     Prog!ProgramNext
<1>2. CASE PdrAnswers \/ Provers
  BY <1>2 DEF PdrAnswers, Provers, OfGla
<1>3. ASSUME NEW t \in Threads, Thread(t)
      PROVE  command' = command /\ (command = "starter" => Prog!ProgramNext)
  <2>1. command' = command
    BY <1>3 DEF Thread
  <2>2. ASSUME command = "starter" PROVE Prog!ProgramNext
    <3>1. t <= NLines /\ Prog!CommandThread(t)
      BY <1>3, <2>2 DEF Thread, OfTuner, OfStoch, OfCnf, OfBmcs, OfCec, OfProg
    <3>2. t \in Prog!LineNo
      BY <3>1 DEF Prog!LineNo, Threads
    <3> QED
      BY <3>1, <3>2 DEF Prog!ProgramNext
  <2> QED
    BY <2>1, <2>2
<1>4. ASSUME NEW t \in Threads, Reused(t)
      PROVE  command' = command /\ UNCHANGED Prog!vars
  BY <1>4 DEF Reused, prog, Prog!vars
<1>5. CASE UNCHANGED vars
  BY <1>5 DEF vars, shared, prog, Prog!vars
<1> QED
  BY <1>1, <1>2, <1>3, <1>4, <1>5 DEF Next

\* The invariant holds in every reachable state of the command.
LEMMA ProgInvariant == Spec => [](command = "starter" => ProgIInv)
<1>1. Init => (command = "starter" => ProgIInv)
  BY ProgInitInv DEF Init
<1>2. (command = "starter" => ProgIInv) /\ [Next]_vars => (command = "starter" => ProgIInv)'
  BY ProgSteps, ProgStep
<1> QED
  BY <1>1, <1>2, PTL DEF Spec

\* main() of starter.c: when it returns, every command it started is over, failed
\* ones too, and only the limit keeps it from having started the whole file.
THEOREM StarterReturns == Spec => []ReturnsWhenOver
<1>1. ASSUME ProgIInv PROVE Prog!ReturnsWhenOver
  <2> SUFFICES ASSUME pc = "return", nCores > 0
               PROVE  /\ \A l \in Prog!Created : thr[l] = "exit"
                      /\ \/ Prog!Wanted \subseteq Prog!Created
                         \/ Cardinality(Prog!Created) = MAX_COMM_NUM
    BY ProgCardinality DEF Prog!ReturnsWhenOver
  <2>1. \A l \in Prog!Created : thr[l] = "exit"
    BY <1>1 DEF ProgIInv, ProgReadInv, Prog!Created, Prog!Counted
  <2>2. CASE line = NLines + 1
    BY <1>1, <2>1, <2>2, StarterConstants DEF ProgIInv, ProgReadInv, Prog!Wanted,
       Prog!Created,
       Prog!LineNo
  <2>3. CASE Cardinality(Prog!Created) = MAX_COMM_NUM
    BY <2>1, <2>3
  <2> QED
    BY <1>1, <2>2, <2>3 DEF ProgIInv, ProgReadInv, ProgTypeOK
<1> QED
  BY <1>1, ProgInvariant, PTL DEF ReturnsWhenOver
-----------------------------------------------------------------------------
(* Multi-solver bounded model checking. *)

\* What the constants must be: a batch has a frame, the design an output, and
\* neither NULL nor what a lost record holds is a problem.
BmcsBounds ==
  /\ nFramesMax \in Nat /\ nFramesAdd \in Nat \ {0} /\ nPos \in Nat \ {0}
  /\ TimeOuts \subseteq BOOLEAN /\ ConfLimits \subseteq BOOLEAN
  /\ NoJob \notin Nat \X Nat /\ Garbage \notin Nat \X Nat

BmcsJobs == (Nat \X Nat) \union {NoJob, Garbage}
BmcsMPcs == {"create", "frame", "output", "raise", "poll", "others", "result", "stop",
             "stopraise", "returned"}

\* The types of the program's variables.
BmcsTypeOK ==
  /\ wpc \in [Bmcs!Worker -> Bmcs!WorkerPcs] /\ cur \in [Bmcs!Worker -> BmcsJobs]
  /\ fWorking \in [Bmcs!Worker -> {0, 1}] /\ job \in [Bmcs!Worker -> BmcsJobs]
  /\ mpc \in BmcsMPcs /\ scan \in Bmcs!Worker
  /\ fails \subseteq Bmcs!Problems /\ timed \in BOOLEAN /\ limited \in BOOLEAN
  /\ f \in Nat /\ k \in Nat /\ i \in 1..nPos
  /\ fStopNow \in BOOLEAN
  /\ status \in [Bmcs!Worker -> {Bmcs!UNDEF, Bmcs!FALSEST, Bmcs!TRUEST}]
  /\ model \in [Bmcs!Worker -> (Nat \X Nat) \union {Bmcs!NoProblem}]
  /\ answer \in {Bmcs!UNDEF, Bmcs!FALSEST, Bmcs!TRUEST} /\ Solver \in Bmcs!Worker

\* The constants of the session are such constants.
LEMMA SolverConstants == nSolvers \in Nat \ {0} /\ NoJob # Garbage
  BY CommandConstants, JobConstants

LEMMA BmcsBoundsHold == BmcsBounds
  BY BmcsConstants, JobConstants DEF BmcsBounds

-----------------------------------------------------------------------------
(* Multi-solver bounded model checking: the inductive invariant. *)

\* A worker with nothing to do, and one that has this problem.
BmcsIdle(w) == wpc[w] = "spin" /\ fWorking[w] = 0
BmcsBusy(w) == /\ fWorking[w] = 1 /\ job[w] = Bmcs!Problem
               /\ wpc[w] \in {"spin", "read", "run", "clear"}
               /\ wpc[w] \in {"run", "clear"} => cur[w] = Bmcs!Problem

\* Flags and positions of manager and workers.
BmcsLinkInv ==
  /\ mpc = "create" =>
       \A w \in Bmcs!Worker :
         fWorking[w] = 0 /\ wpc[w] = IF w < scan THEN "spin" ELSE "none"
  /\ mpc \in {"frame", "output", "result"} => \A w \in Bmcs!Worker : BmcsIdle(w)
  /\ mpc = "raise" =>
       \A w \in Bmcs!Worker : job[w] = Bmcs!Problem /\ (w >= scan => BmcsIdle(w))
  /\ mpc \in {"raise", "poll", "others"} => \A w \in Bmcs!Worker : BmcsIdle(w) \/ BmcsBusy(w)
  /\ mpc = "others" => BmcsIdle(Solver) /\ \A w \in Bmcs!Worker : w < scan => BmcsIdle(w)
  /\ mpc \in {"stop", "stopraise"} => \A w \in Bmcs!Worker : w >= scan => BmcsIdle(w)
  /\ fStopNow => mpc = "others"

\* An answer about this problem: right, or none because of a limit.
BmcsRight(answ, w) ==
  /\ answ = Bmcs!TRUEST => Bmcs!Problem \in fails /\ model[w] = Bmcs!Problem
  /\ answ = Bmcs!FALSEST => Bmcs!Problem \notin fails
  /\ answ = Bmcs!UNDEF => limited

\* A solver that is through before the stop request is right, and its answer stays.
BmcsAnswerInv ==
  /\ mpc \in {"raise", "poll"} =>
       \A w \in Bmcs!Worker :
         wpc[w] = "clear" \/ (BmcsIdle(w) /\ (mpc = "poll" \/ w < scan)) => BmcsRight(status[w], w)
  /\ mpc \in {"others", "result"} => BmcsRight(answer, Solver)

BmcsVerdict ==
  CASE RetValue = 0 -> cex \in fails /\ \A p \in fails : ~Bmcs!Before(p, cex)
    [] OTHER        -> timed \/ limited \/ fails = {}

\* Nothing that comes before the current problem can fail.
BmcsRoundInv ==
  /\ mpc \in {"output", "raise", "poll", "others", "result"} =>
       /\ f + k < nFramesMax /\ k < nFramesAdd
       /\ \A p \in fails : ~Bmcs!Before(p, Bmcs!Problem)
  /\ mpc = "create" => f = 0
  /\ mpc = "frame" => \A p \in fails : p[1] >= f
  /\ mpc \in {"stop", "stopraise", "returned"} => BmcsVerdict
  /\ mpc \notin {"stop", "stopraise", "returned"} => RetValue # 0

BmcsIInv == BmcsTypeOK /\ BmcsLinkInv /\ BmcsAnswerInv /\ BmcsRoundInv

-----------------------------------------------------------------------------
(* Multi-solver bounded model checking: lemmas about its data. *)

LEMMA BmcsJobsAre == NoJob \in BmcsJobs /\ Garbage \in BmcsJobs
  BY DEF BmcsJobs

LEMMA BmcsWorkersAre ==
  /\ \A w \in Bmcs!Worker : w \in Nat /\ 1 <= w /\ w <= nSolvers
  /\ 1 \in Bmcs!Worker /\ nSolvers \in Bmcs!Worker
  /\ \A w \in Bmcs!Worker : w < nSolvers => w + 1 \in Bmcs!Worker
  BY SolverConstants DEF Bmcs!Worker

\* The problem is no order to exit, and no garbage.
LEMMA BmcsProblemIs ==
  ASSUME BmcsBounds, BmcsTypeOK
  PROVE  /\ Bmcs!Problem \in Nat \X Nat /\ Bmcs!Problem \in BmcsJobs
         /\ Bmcs!Problem # NoJob /\ Bmcs!Problem # Garbage
<1>1. f + k \in Nat /\ i \in Nat
  BY DEF BmcsBounds, BmcsTypeOK
<1>2. <<f + k, i>> \in Nat \X Nat
  BY <1>1
<1> QED
  BY <1>2 DEF BmcsBounds, Bmcs!Problem, BmcsJobs

LEMMA BmcsFailsAre ==
  ASSUME BmcsBounds, BmcsTypeOK, NEW p \in fails
  PROVE  /\ p = <<p[1], p[2]>> /\ p[1] \in Nat /\ p[1] < nFramesMax
         /\ p[2] \in Nat /\ 1 <= p[2] /\ p[2] <= nPos
  BY DEF BmcsBounds, BmcsTypeOK, Bmcs!Problems, Bmcs!Frames

-----------------------------------------------------------------------------
(* Multi-solver bounded model checking: the steps. *)

\* Every step keeps the types.
LEMMA BmcsTypeStep ==
  ASSUME BmcsBounds, BmcsTypeOK, [Bmcs!Next]_(Bmcs!vars)
  PROVE  BmcsTypeOK'
<1> USE SolverConstants, BmcsJobsAre, BmcsProblemIs, BmcsWorkersAre DEF Bmcs!worker,
    Bmcs!record,
    Bmcs!loop, Bmcs!own,
  Bmcs!fixed, BmcsTypeOK, BmcsMPcs, Bmcs!WorkerPcs
<1>1. CASE Bmcs!StartThreads
  BY <1>1 DEF Bmcs!StartThreads, Bmcs!CreateWorker
<1>2. CASE Bmcs!LoadBatch
  BY <1>2 DEF Bmcs!LoadBatch, BmcsBounds
<1>3. CASE Bmcs!TrivialBatch
  BY <1>3 DEF Bmcs!TrivialBatch, BmcsBounds
<1>4. CASE Bmcs!AllFrames
  BY <1>4 DEF Bmcs!AllFrames
<1>5. CASE Bmcs!TimeOut
  BY <1>5 DEF Bmcs!TimeOut
<1>6. CASE Bmcs!SetProblem
  BY <1>6 DEF Bmcs!SetProblem
<1>7. CASE Bmcs!StartSolvers
  BY <1>7 DEF Bmcs!StartSolvers, Bmcs!RaiseFlag
<1>8. CASE Bmcs!PollBusy
  BY <1>8 DEF Bmcs!PollBusy
<1>9. CASE Bmcs!PollFinished
  BY <1>9 DEF Bmcs!PollFinished
<1>10. CASE Bmcs!AwaitOthers
  BY <1>10 DEF Bmcs!AwaitOthers
<1>11. CASE Bmcs!ResultUnsat
  <2>1. f' \in Nat /\ k' \in Nat /\ i' \in 1..nPos
    BY <1>11 DEF Bmcs!ResultUnsat, BmcsBounds
  <2> QED
    BY <1>11, <2>1 DEF Bmcs!ResultUnsat
<1>12. CASE Bmcs!ResultSat
  BY <1>12 DEF Bmcs!ResultSat
<1>13. CASE Bmcs!ResultUndef
  BY <1>13 DEF Bmcs!ResultUndef
<1>14. CASE Bmcs!StopThreads
  BY <1>14 DEF Bmcs!StopThreads, Bmcs!StopStore, Bmcs!StopRaise, Bmcs!RaiseFlag
<1>15. ASSUME NEW w \in Bmcs!Worker, Bmcs!WorkerThread(w) PROVE BmcsTypeOK'
  <2>1. CASE Bmcs!Wake(w) /\ UNCHANGED <<mpc, scan, Bmcs!fixed, Bmcs!own>>
    BY <2>1 DEF Bmcs!Wake
  <2>2. CASE Bmcs!ReadJob(w) /\ UNCHANGED <<mpc, scan, Bmcs!fixed, Bmcs!own>>
    BY <2>2 DEF Bmcs!ReadJob
  <2>3. CASE Bmcs!ClearFlag(w) /\ UNCHANGED <<mpc, scan, Bmcs!fixed, Bmcs!own>>
    BY <2>3 DEF Bmcs!ClearFlag
  <2>4. CASE Bmcs!Solved(w)
    <3>1. \A p \in fails : p \in Nat \X Nat
      BY DEF Bmcs!Problems, Bmcs!Frames, BmcsBounds
    <3>2. status' \in [Bmcs!Worker -> {Bmcs!UNDEF, Bmcs!FALSEST, Bmcs!TRUEST}]
      BY <1>15, <2>4 DEF Bmcs!WorkerThread, Bmcs!Solved, Bmcs!Wake, Bmcs!ReadJob,
         Bmcs!ClearFlag
    <3>3. model' \in [Bmcs!Worker -> (Nat \X Nat) \union {Bmcs!NoProblem}]
      BY <1>15, <2>4, <3>1 DEF Bmcs!WorkerThread, Bmcs!Solved, Bmcs!Wake, Bmcs!ReadJob,
         Bmcs!ClearFlag
    <3> QED
      BY <1>15, <2>4, <3>2, <3>3 DEF Bmcs!WorkerThread, Bmcs!Solved, Bmcs!Wake,
         Bmcs!ReadJob, Bmcs!ClearFlag
  <2> QED
    BY <1>15, <2>1, <2>2, <2>3, <2>4 DEF Bmcs!WorkerThread
<1>16. ASSUME NEW w \in Bmcs!Worker, Bmcs!Reused(w) PROVE BmcsTypeOK'
  BY <1>16 DEF Bmcs!Reused, Bmcs!FrameReused
<1>17. CASE UNCHANGED Bmcs!vars
  BY <1>17 DEF Bmcs!vars
<1> QED
  BY <1>1, <1>2, <1>3, <1>4, <1>5, <1>6, <1>7, <1>8, <1>9, <1>10, <1>11, <1>12, <1>13,
    <1>14, <1>15, <1>16, <1>17 DEF Bmcs!Next, Bmcs!Manager

\* A worker gets a new problem only when it is idle.
LEMMA BmcsLinkStep ==
  ASSUME BmcsBounds, BmcsIInv, [Bmcs!Next]_(Bmcs!vars)
  PROVE  BmcsLinkInv'
<1> USE SolverConstants, BmcsProblemIs, BmcsWorkersAre DEF Bmcs!worker, Bmcs!record,
    Bmcs!loop,
    Bmcs!own, Bmcs!fixed,
    BmcsIInv, BmcsTypeOK, BmcsLinkInv, BmcsIdle, BmcsBusy, Bmcs!Problem
<1>1. CASE Bmcs!StartThreads
  BY <1>1 DEF Bmcs!StartThreads, Bmcs!CreateWorker
<1>2. CASE Bmcs!LoadBatch
  BY <1>2 DEF Bmcs!LoadBatch
<1>3. CASE Bmcs!TrivialBatch
  BY <1>3 DEF Bmcs!TrivialBatch
<1>4. CASE Bmcs!AllFrames
  BY <1>4 DEF Bmcs!AllFrames
<1>5. CASE Bmcs!TimeOut
  BY <1>5 DEF Bmcs!TimeOut
<1>6. CASE Bmcs!SetProblem
  BY <1>6 DEF Bmcs!SetProblem
<1>7. CASE Bmcs!StartSolvers
  BY <1>7 DEF Bmcs!StartSolvers, Bmcs!RaiseFlag
<1>8. CASE Bmcs!PollBusy
  BY <1>8 DEF Bmcs!PollBusy
<1>9. CASE Bmcs!PollFinished
  BY <1>9 DEF Bmcs!PollFinished
<1>10. CASE Bmcs!AwaitOthers
  BY <1>10 DEF Bmcs!AwaitOthers
<1>11. CASE Bmcs!ResultUnsat
  BY <1>11 DEF Bmcs!ResultUnsat
<1>12. CASE Bmcs!ResultSat
  BY <1>12 DEF Bmcs!ResultSat
<1>13. CASE Bmcs!ResultUndef
  BY <1>13 DEF Bmcs!ResultUndef
<1>14. CASE Bmcs!StopThreads
  BY <1>14 DEF Bmcs!StopThreads, Bmcs!StopStore, Bmcs!StopRaise, Bmcs!RaiseFlag
<1>15. ASSUME NEW w \in Bmcs!Worker, Bmcs!WorkerThread(w) PROVE BmcsLinkInv'
  <2>1. CASE Bmcs!Wake(w) /\ UNCHANGED <<mpc, scan, Bmcs!fixed, Bmcs!own>>
    BY <2>1 DEF Bmcs!Wake
  <2>2. CASE Bmcs!ReadJob(w) /\ UNCHANGED <<mpc, scan, Bmcs!fixed, Bmcs!own>>
    BY <2>2 DEF Bmcs!ReadJob
  <2>3. CASE Bmcs!ClearFlag(w) /\ UNCHANGED <<mpc, scan, Bmcs!fixed, Bmcs!own>>
    BY <2>3 DEF Bmcs!ClearFlag
  <2>4. CASE Bmcs!Solved(w)
    BY <1>15, <2>4 DEF Bmcs!WorkerThread, Bmcs!Solved, Bmcs!Wake, Bmcs!ReadJob,
       Bmcs!ClearFlag
  <2> QED
    BY <1>15, <2>1, <2>2, <2>3, <2>4 DEF Bmcs!WorkerThread
<1>16. ASSUME NEW w \in Bmcs!Worker, Bmcs!Reused(w) PROVE BmcsLinkInv'
  BY <1>16 DEF Bmcs!Reused, Bmcs!FrameReused
<1>17. CASE UNCHANGED Bmcs!vars
  BY <1>17 DEF Bmcs!vars
<1> QED
  BY <1>1, <1>2, <1>3, <1>4, <1>5, <1>6, <1>7, <1>8, <1>9, <1>10, <1>11, <1>12, <1>13,
    <1>14, <1>15, <1>16, <1>17 DEF Bmcs!Next, Bmcs!Manager

\* The stop request comes after the answer that counts.
LEMMA BmcsAnswerStep ==
  ASSUME BmcsBounds, BmcsIInv, [Bmcs!Next]_(Bmcs!vars)
  PROVE  BmcsAnswerInv'
<1> USE SolverConstants, BmcsProblemIs, BmcsWorkersAre DEF Bmcs!worker, Bmcs!record,
    Bmcs!loop,
    Bmcs!own, Bmcs!fixed,
    BmcsIInv, BmcsTypeOK, BmcsLinkInv, BmcsAnswerInv, BmcsIdle, BmcsBusy, BmcsRight, Bmcs!Problem,
  Bmcs!TRUEST, Bmcs!FALSEST, Bmcs!UNDEF
<1>1. CASE Bmcs!StartThreads
  BY <1>1 DEF Bmcs!StartThreads, Bmcs!CreateWorker
<1>2. CASE Bmcs!LoadBatch
  BY <1>2 DEF Bmcs!LoadBatch
<1>3. CASE Bmcs!TrivialBatch
  BY <1>3 DEF Bmcs!TrivialBatch
<1>4. CASE Bmcs!AllFrames
  BY <1>4 DEF Bmcs!AllFrames
<1>5. CASE Bmcs!TimeOut
  BY <1>5 DEF Bmcs!TimeOut
<1>6. CASE Bmcs!SetProblem
  BY <1>6 DEF Bmcs!SetProblem
<1>7. CASE Bmcs!StartSolvers
  BY <1>7 DEF Bmcs!StartSolvers, Bmcs!RaiseFlag
<1>8. CASE Bmcs!PollBusy
  BY <1>8 DEF Bmcs!PollBusy
<1>9. CASE Bmcs!PollFinished
  BY <1>9 DEF Bmcs!PollFinished
<1>10. CASE Bmcs!AwaitOthers
  BY <1>10 DEF Bmcs!AwaitOthers
<1>11. CASE Bmcs!ResultUnsat
  BY <1>11 DEF Bmcs!ResultUnsat
<1>12. CASE Bmcs!ResultSat
  BY <1>12 DEF Bmcs!ResultSat
<1>13. CASE Bmcs!ResultUndef
  BY <1>13 DEF Bmcs!ResultUndef
<1>14. CASE Bmcs!StopThreads
  BY <1>14 DEF Bmcs!StopThreads, Bmcs!StopStore, Bmcs!StopRaise, Bmcs!RaiseFlag
<1>15. ASSUME NEW w \in Bmcs!Worker, Bmcs!WorkerThread(w) PROVE BmcsAnswerInv'
  <2>1. CASE Bmcs!Wake(w) /\ UNCHANGED <<mpc, scan, Bmcs!fixed, Bmcs!own>>
    BY <2>1 DEF Bmcs!Wake
  <2>2. CASE Bmcs!ReadJob(w) /\ UNCHANGED <<mpc, scan, Bmcs!fixed, Bmcs!own>>
    BY <2>2 DEF Bmcs!ReadJob
  <2>3. CASE Bmcs!ClearFlag(w) /\ UNCHANGED <<mpc, scan, Bmcs!fixed, Bmcs!own>>
    BY <2>3 DEF Bmcs!ClearFlag
  <2>4. CASE Bmcs!Solved(w)
    <3>1. /\ wpc[w] = "run" /\ ~BmcsIdle(w)
          /\ UNCHANGED <<Solver, fWorking, job, mpc, scan, answer>>
          /\ Bmcs!Problem' = Bmcs!Problem /\ fails' = fails /\ limited' = limited
      BY <1>15, <2>4 DEF Bmcs!WorkerThread, Bmcs!Solved, Bmcs!Wake, Bmcs!ReadJob,
         Bmcs!ClearFlag
    <3>2. \A v \in Bmcs!Worker : v # w =>
            wpc'[v] = wpc[v] /\ status'[v] = status[v] /\ model'[v] = model[v]
      BY <1>15, <2>4 DEF Bmcs!WorkerThread, Bmcs!Solved, Bmcs!Wake, Bmcs!ReadJob,
         Bmcs!ClearFlag
    <3>3. ASSUME mpc \in {"raise", "poll"} PROVE BmcsRight(status[w], w)'
      <4>1. cur[w] = Bmcs!Problem /\ ~fStopNow
        BY <3>1, <3>3
      <4> QED
        BY <1>15, <2>4, <3>1, <4>1 DEF Bmcs!WorkerThread, Bmcs!Solved, Bmcs!Wake,
           Bmcs!ReadJob, Bmcs!ClearFlag
    <3>4. ASSUME mpc \in {"others", "result"} PROVE BmcsRight(answer, Solver)'
      BY <3>1, <3>2, <3>4
    <3> QED
      BY <3>1, <3>2, <3>3, <3>4
  <2> QED
    BY <1>15, <2>1, <2>2, <2>3, <2>4 DEF Bmcs!WorkerThread
<1>16. ASSUME NEW w \in Bmcs!Worker, Bmcs!Reused(w) PROVE BmcsAnswerInv'
  BY <1>16 DEF Bmcs!Reused, Bmcs!FrameReused
<1>17. CASE UNCHANGED Bmcs!vars
  BY <1>17 DEF Bmcs!vars
<1> QED
  BY <1>1, <1>2, <1>3, <1>4, <1>5, <1>6, <1>7, <1>8, <1>9, <1>10, <1>11, <1>12, <1>13,
    <1>14, <1>15, <1>16, <1>17 DEF Bmcs!Next, Bmcs!Manager

\* The problems are gone through in their order.
LEMMA BmcsRoundStep ==
  ASSUME BmcsBounds, BmcsIInv, [Bmcs!Next]_(Bmcs!vars)
  PROVE  BmcsRoundInv'
<1> USE SolverConstants, BmcsFailsAre DEF Bmcs!worker, Bmcs!record, Bmcs!loop, Bmcs!own,
    Bmcs!fixed, BmcsIInv, BmcsTypeOK,
  BmcsAnswerInv, BmcsRoundInv, BmcsRight, BmcsVerdict, Bmcs!Before, Bmcs!Problem,
  Bmcs!TRUEST, Bmcs!FALSEST, Bmcs!UNDEF, BmcsBounds
<1>1. CASE Bmcs!StartThreads
  BY <1>1 DEF Bmcs!StartThreads, Bmcs!CreateWorker
<1>2. CASE Bmcs!LoadBatch
  BY <1>2 DEF Bmcs!LoadBatch
<1>3. CASE Bmcs!TrivialBatch
  BY <1>3 DEF Bmcs!TrivialBatch
<1>4. CASE Bmcs!AllFrames
  BY <1>4 DEF Bmcs!AllFrames
<1>5. CASE Bmcs!TimeOut
  BY <1>5 DEF Bmcs!TimeOut
<1>6. CASE Bmcs!SetProblem
  BY <1>6 DEF Bmcs!SetProblem
<1>7. CASE Bmcs!StartSolvers
  BY <1>7 DEF Bmcs!StartSolvers, Bmcs!RaiseFlag
<1>8. CASE Bmcs!PollBusy
  BY <1>8 DEF Bmcs!PollBusy
<1>9. CASE Bmcs!PollFinished
  BY <1>9 DEF Bmcs!PollFinished
<1>10. CASE Bmcs!AwaitOthers
  BY <1>10 DEF Bmcs!AwaitOthers
<1>11. CASE Bmcs!ResultUnsat
  <2> USE <1>11 DEF Bmcs!ResultUnsat
  <2>1. /\ Bmcs!Problem \notin fails /\ f \in Nat /\ k \in Nat /\ i \in 1..nPos
        /\ f + k < nFramesMax /\ k < nFramesAdd /\ RetValue # 0
        /\ nFramesMax \in Nat /\ nFramesAdd \in Nat
    OBVIOUS
  <2>2. ASSUME NEW p \in fails PROVE p[1] > f + k \/ (p[1] = f + k /\ p[2] > i)
    <3>1. ~Bmcs!Before(p, <<f + k, i>>)
      OBVIOUS
    <3>2. p # <<f + k, i>> /\ p = <<p[1], p[2]>>
      BY <2>1
    <3>3. ~(p[1] = f + k /\ p[2] = i)
      BY <3>2
    <3>4. p[1] \in Nat /\ p[2] \in Nat
      OBVIOUS
    <3>5. ~(p[1] < f + k) /\ ~(p[1] = f + k /\ p[2] < i)
      BY <3>1 DEF Bmcs!Before
    <3> HIDE DEF BmcsTypeOK, BmcsRoundInv, BmcsIInv, BmcsAnswerInv, Bmcs!ResultUnsat
    <3> QED
      BY <2>1, <3>3, <3>4, <3>5
  <2>3. CASE i < nPos
    BY <2>1, <2>2, <2>3
  <2>4. CASE ~(i < nPos)
    <3>1. \A p \in fails : p[1] > f + k
      BY <2>1, <2>2, <2>4
    <3>2. CASE f + k = nFramesMax - 1
      BY <2>1, <2>4, <3>1, <3>2
    <3>3. CASE f + k # nFramesMax - 1 /\ k < nFramesAdd - 1
      BY <2>1, <2>4, <3>1, <3>3
    <3>4. CASE f + k # nFramesMax - 1 /\ ~(k < nFramesAdd - 1)
      BY <2>1, <2>4, <3>1, <3>4
    <3> QED
      BY <3>2, <3>3, <3>4
  <2> QED
    BY <2>3, <2>4
<1>12. CASE Bmcs!ResultSat
  BY <1>12 DEF Bmcs!ResultSat
<1>13. CASE Bmcs!ResultUndef
  BY <1>13 DEF Bmcs!ResultUndef
<1>14. CASE Bmcs!StopThreads
  BY <1>14 DEF Bmcs!StopThreads, Bmcs!StopStore, Bmcs!StopRaise, Bmcs!RaiseFlag
<1>15. ASSUME NEW w \in Bmcs!Worker, Bmcs!WorkerThread(w) PROVE BmcsRoundInv'
  <2>1. CASE Bmcs!Wake(w) /\ UNCHANGED <<mpc, scan, Bmcs!fixed, Bmcs!own>>
    BY <2>1 DEF Bmcs!Wake
  <2>2. CASE Bmcs!ReadJob(w) /\ UNCHANGED <<mpc, scan, Bmcs!fixed, Bmcs!own>>
    BY <2>2 DEF Bmcs!ReadJob
  <2>3. CASE Bmcs!ClearFlag(w) /\ UNCHANGED <<mpc, scan, Bmcs!fixed, Bmcs!own>>
    BY <2>3 DEF Bmcs!ClearFlag
  <2>4. CASE Bmcs!Solved(w)
    BY <1>15, <2>4 DEF Bmcs!WorkerThread, Bmcs!Solved, Bmcs!Wake, Bmcs!ReadJob,
       Bmcs!ClearFlag
  <2> QED
    BY <1>15, <2>1, <2>2, <2>3, <2>4 DEF Bmcs!WorkerThread
<1>16. ASSUME NEW w \in Bmcs!Worker, Bmcs!Reused(w) PROVE BmcsRoundInv'
  BY <1>16 DEF Bmcs!Reused, Bmcs!FrameReused
<1>17. CASE UNCHANGED Bmcs!vars
  BY <1>17 DEF Bmcs!vars
<1> QED
  BY <1>1, <1>2, <1>3, <1>4, <1>5, <1>6, <1>7, <1>8, <1>9, <1>10, <1>11, <1>12, <1>13,
    <1>14, <1>15, <1>16, <1>17 DEF Bmcs!Next, Bmcs!Manager

-----------------------------------------------------------------------------
\* The initial states.
LEMMA BmcsInitInv == ASSUME BmcsBounds, Bmcs!Init PROVE BmcsIInv
<1> USE SolverConstants, BmcsWorkersAre DEF Bmcs!Init, Bmcs!PoolInit
<1>1. BmcsTypeOK
  <2>1. /\ wpc \in [Bmcs!Worker -> Bmcs!WorkerPcs] /\ cur \in [Bmcs!Worker -> BmcsJobs]
        /\ fWorking \in [Bmcs!Worker -> {0, 1}] /\ job \in [Bmcs!Worker -> BmcsJobs]
    BY BmcsJobsAre DEF Bmcs!WorkerPcs
  <2>2. /\ status \in [Bmcs!Worker -> {Bmcs!UNDEF, Bmcs!FALSEST, Bmcs!TRUEST}]
        /\ model \in [Bmcs!Worker -> (Nat \X Nat) \union {Bmcs!NoProblem}]
    OBVIOUS
  <2>3. mpc \in BmcsMPcs /\ scan \in Bmcs!Worker
    BY DEF BmcsMPcs
  <2>4. f \in Nat /\ k \in Nat /\ i \in 1..nPos /\ timed \in BOOLEAN /\ limited \in BOOLEAN
    BY DEF BmcsBounds
  <2> QED
    BY <2>1, <2>2, <2>3, <2>4 DEF BmcsTypeOK
<1>2. BmcsLinkInv
  BY DEF BmcsLinkInv
<1>3. BmcsAnswerInv
  BY DEF BmcsAnswerInv
<1>4. BmcsRoundInv
  BY DEF BmcsRoundInv, Bmcs!UNDEF
<1> QED
  BY <1>1, <1>2, <1>3, <1>4 DEF BmcsIInv

-----------------------------------------------------------------------------
(* Multi-solver bounded model checking: the session. *)

\* Every step is one of the command that runs, which stays the same.
LEMMA BmcsSteps ==
  ASSUME command = "bmcs" => BmcsTypeOK, [Next]_vars
  PROVE  command' = command /\ (command = "bmcs" => [Bmcs!Next]_(Bmcs!vars))
<1>1. CASE Manager
  BY <1>1 DEF Manager, OfTuner, OfStoch, OfCnf, OfBmcs, OfCec, OfGla, OfProg, Bmcs!Next
<1>2. CASE PdrAnswers \/ Provers
  BY <1>2 DEF PdrAnswers, Provers, OfGla
<1>3. ASSUME NEW t \in Threads, Thread(t)
      PROVE  command' = command /\ (command = "bmcs" => Bmcs!Next)
  <2>1. command' = command
    BY <1>3 DEF Thread
  <2>2. ASSUME command = "bmcs" PROVE Bmcs!Next
    <3>1. t <= nSolvers /\ Bmcs!WorkerThread(t)
      BY <1>3, <2>2 DEF Thread, OfTuner, OfStoch, OfCnf, OfBmcs, OfCec, OfProg
    <3>2. t \in Bmcs!Worker
      BY <3>1 DEF Bmcs!Worker, Threads
    <3> QED
      BY <3>1, <3>2 DEF Bmcs!Next
  <2> QED
    BY <2>1, <2>2
<1>4. ASSUME NEW t \in Threads, Reused(t)
      PROVE  command' = command /\ (command = "bmcs" => Bmcs!Next)
  <2>1. command' = command
    BY <1>4 DEF Reused
  <2>2. ASSUME command = "bmcs" PROVE Bmcs!Next
    <3>1. t \in Bmcs!Worker
      BY <1>4, <2>2 DEF Reused, BmcsTypeOK
    <3>2. Bmcs!FrameReused(t)
      BY <1>4 DEF Reused, Pool!FrameReused, Pool!worker, Bmcs!FrameReused, Bmcs!worker
    <3>3. UNCHANGED <<Bmcs!fixed, Bmcs!own>>
      BY <1>4 DEF Reused, bmcs, Bmcs!fixed, Bmcs!own, Bmcs!loop
    <3> QED
      BY <3>1, <3>2, <3>3 DEF Bmcs!Next, Bmcs!Reused
  <2> QED
    BY <2>1, <2>2
<1>5. CASE UNCHANGED vars
  BY <1>5 DEF vars, pool, shared, bmcs, Bmcs!vars, Bmcs!own, Bmcs!loop
<1> QED
  BY <1>1, <1>2, <1>3, <1>4, <1>5 DEF Next

\* The invariant holds in every reachable state of the command.
LEMMA BmcsInvariant == Spec => [](command = "bmcs" => BmcsIInv)
<1>1. Init => (command = "bmcs" => BmcsIInv)
  BY BmcsBoundsHold, BmcsInitInv DEF Init
<1>2. (command = "bmcs" => BmcsIInv) /\ [Next]_vars => (command = "bmcs" => BmcsIInv)'
  BY BmcsBoundsHold, BmcsSteps, BmcsTypeStep, BmcsLinkStep, BmcsAnswerStep,
     BmcsRoundStep DEF BmcsIInv
<1> QED
  BY <1>1, <1>2, PTL DEF Spec

\* Bmcs_ManPerformMulti touches the solvers, to load a batch or to read a
\* counter-example, only while all workers spin with their flags down.
THEOREM SolversAreQuiet == Spec => []SolversQuiet
<1>1. BmcsIInv => Bmcs!SolversQuiet
  BY DEF BmcsIInv, BmcsLinkInv, BmcsIdle, Bmcs!SolversQuiet
<1> QED
  BY <1>1, BmcsInvariant, PTL DEF SolversQuiet

\* fStopNow, raised when the first solver is through, is seen by no solver that
\* works on another problem.
THEOREM StopRequestsEnd == Spec => []StopRequestOver
<1>1. BmcsIInv => Bmcs!StopRequestOver
  BY DEF BmcsIInv, BmcsLinkInv, BmcsIdle, BmcsBusy, Bmcs!StopRequestOver
<1> QED
  BY <1>1, BmcsInvariant, PTL DEF StopRequestOver

\* What Bmcs_ManPerformMulti reports is the first failure there is, and "no
\* failure" is wrong only after a limit; the counter-example is read from a solver
\* that holds it.
THEOREM FirstIsReported == Spec => []FirstFailure
<1>1. BmcsIInv => Bmcs!FirstFailure
  BY DEF BmcsIInv, BmcsRoundInv, BmcsVerdict, Bmcs!FirstFailure
<1>2. BmcsIInv => Bmcs!CexFromSolver
  BY DEF BmcsIInv, BmcsLinkInv, BmcsIdle, BmcsAnswerInv, BmcsRight, BmcsTypeOK,
     Bmcs!CexFromSolver
<1> QED
  BY <1>1, <1>2, BmcsInvariant, PTL DEF FirstFailure

-----------------------------------------------------------------------------
(* Gate-level abstraction. *)

GlaMPcs == {"call", "frame", "sat", "check", "take", "stable", "prove", "launch", "next",
           "finish"}
GlaStates == {"none", "solving", "success", "proved", "over"}

\* The types of the program's variables.
GlaTypeOK ==
  /\ failsAt \in [Gla!Outputs -> 0..Gla!Never]
  /\ mpc \in GlaMPcs
  /\ o \in Nat \ {0} /\ f \in Nat
  /\ iFrameTryToProve \in Nat \union {-1} /\ iFrameProved \in Nat \union {-1}
  /\ RetValue \in {-1, 1} /\ pCexSeq \in BOOLEAN
  /\ status \in [Gla!Outputs -> {-1, 0, 1}] /\ frames \in [Gla!Outputs -> Int]
  /\ g_nRunIds \in Nat /\ g_fAbstractionProved \in {0, 1}
  /\ prover \in [Gla!RunIds -> GlaStates] /\ proves \in [Gla!RunIds -> Int]

\* A prover has a number that was given out, and the abstraction of an output
\* that was reached; PDR has no proof of what can fail.
GlaProverInv ==
  \A r \in Gla!RunIds :
    /\ prover[r] # "none" => r <= g_nRunIds /\ proves[r] <= o
    /\ prover[r] \in {"success", "proved"} => failsAt[proves[r]] = Gla!Never

\* Before a new prover is created the run number of the one before is gone.
GlaCancelInv ==
  mpc = "prove" /\ iFrameTryToProve >= 0 =>
    \A r \in Gla!RunIds : r >= g_nRunIds => prover[r] = "none"

\* Whatever is taken for a proof came from a prover.
GlaProofInv ==
  g_fAbstractionProved = 1 \/ mpc = "take" \/ RetValue = 1 =>
    \E r \in Gla!RunIds : prover[r] = "proved"

\* In the first output, and in every output without -s, the loop does not pass a
\* frame that fails; the count of proved frames holds of an output that was
\* reached.  A counter-example ends the loop in a frame not before the failure.
GlaFrameInv ==
  /\ o = 1 \/ ~fUseSkip =>
       /\ \E p \in Gla!Outputs : p <= o /\ iFrameProved < failsAt[p]
       /\ mpc # "call" => f <= failsAt[o]
       /\ mpc \in {"check", "take", "stable", "prove", "launch", "next"} => f < failsAt[o]
  /\ mpc # "call" /\ pCexSeq => mpc = "finish" /\ failsAt[o] <= f

\* How many frames have been left, in all calls and after all restarts: a frame
\* creates at most one prover, which uses two numbers: its own, and one more when
\* it is cancelled.
GlaPasses == nGlaFrames * (o - 1 + restarts)
Left   == IF mpc = "call" THEN 0 ELSE IF mpc = "next" THEN f + 1 ELSE f
Known  == IF iFrameTryToProve >= 0 /\ mpc \notin {"call", "prove", "launch"} THEN 1 ELSE 0

GlaNumberInv ==
  /\ restarts \in 0..NRestarts
  /\ o <= NOutputs + 1
  /\ mpc # "call" => o <= NOutputs /\ f <= nGlaFrames
  /\ mpc \notin {"call", "frame", "finish"} => f < nGlaFrames
  /\ g_nRunIds + Known <= 2 * (GlaPasses + Left)

\* No prover is left out: there is a number for each.
GlaNumbersSuffice == mpc = "launch" => g_nRunIds + 1 \in Gla!RunIds

\* The inductive invariant.
GlaIInv == /\ GlaTypeOK /\ GlaProverInv /\ GlaCancelInv /\ Gla!OneProver /\ Gla!NoProofLost
           /\ GlaProofInv /\ Gla!OnlyLateProofs /\ GlaFrameInv /\ Gla!FramesRight /\ GlaNumberInv

-----------------------------------------------------------------------------
\* The run numbers are integers, whatever their bound.
LEMMA GlaRunIdsInt == Gla!RunIds \subseteq Int
  BY DEF Gla!RunIds

\* A design has an output.
LEMMA GlaOutputsAre ==
  ASSUME NOutputs \in Nat \ {0}
  PROVE  1 \in Gla!Outputs /\ Gla!Outputs \subseteq Nat \ {0}
  BY DEF Gla!Outputs

\* A pass more is nFramesMax frames more.
LEMMA GlaProduct ==
  ASSUME NEW m \in Nat, NEW x \in Nat, NEW y \in Nat
  PROVE  /\ m * x \in Nat
         /\ y = x + 1 => m * y = m * x + m
         /\ x < y => m * x + m <= m * y
<1>1. m * x \in Nat /\ m * (x + 1) = m * x + m
  OBVIOUS
<1>2. ASSUME x < y PROVE m * x + m <= m * y
  <2>1. PICK d \in Nat : y = (x + 1) + d
    <3>1. y - (x + 1) \in Nat /\ y = (x + 1) + (y - (x + 1))
      BY <1>2
    <3> QED
      BY <3>1
  <2>2. m * y = m * (x + 1) + m * d /\ m * d \in Nat
    BY <2>1
  <2> QED
    BY <1>1, <2>2
<1> QED
  BY <1>1, <1>2

\* The initial states.
LEMMA GlaInitInv ==
  ASSUME NOutputs \in Nat \ {0}, nGlaFrames \in Nat, NRestarts \in Nat, Gla!Init
  PROVE  GlaIInv
<1> USE GlaRunIdsInt, GlaOutputsAre DEF Gla!Init
<1>1. GlaTypeOK
  <2>1. failsAt \in [Gla!Outputs -> 0..Gla!Never] /\ status \in [Gla!Outputs -> {-1, 0, 1}]
        /\ frames \in [Gla!Outputs -> Int]
    OBVIOUS
  <2>2. prover \in [Gla!RunIds -> GlaStates] /\ proves \in [Gla!RunIds -> Int]
    BY DEF GlaStates
  <2> QED
    BY <2>1, <2>2 DEF GlaTypeOK, GlaMPcs
<1>2. GlaProverInv /\ GlaCancelInv /\ Gla!OneProver /\ Gla!NoProofLost /\ GlaProofInv
  BY DEF GlaProverInv, GlaCancelInv, Gla!OneProver, Gla!NoProofLost, GlaProofInv
<1>3. Gla!OnlyLateProofs /\ Gla!FramesRight
  BY DEF Gla!OnlyLateProofs, Gla!FramesRight
<1>4. GlaFrameInv
  BY DEF GlaFrameInv, Gla!Never
<1>5. GlaNumberInv
  BY GlaProduct DEF GlaNumberInv, GlaPasses, Left, Known
<1> QED
  BY <1>1, <1>2, <1>3, <1>4, <1>5 DEF GlaIInv

\* Every step keeps the types.
LEMMA GlaTypeStep ==
  ASSUME NOutputs \in Nat \ {0}, nGlaFrames \in Nat, GlaTypeOK, [Gla!Next]_(Gla!vars)
  PROVE  GlaTypeOK'
<1> USE GlaRunIdsInt DEF Gla!input, Gla!params, Gla!results, Gla!threads, Gla!loop,
    GlaTypeOK,
    GlaMPcs, GlaStates,
  Gla!Never
<1>1. CASE Gla!Call
  BY <1>1 DEF Gla!Call
<1>2. CASE Gla!Trivial
  <2>1. status' \in [Gla!Outputs -> {-1, 0, 1}]
    BY <1>2 DEF Gla!Trivial
  <2>2. frames' = [frames EXCEPT ![o] = -1] /\ -1 \in Int
    BY <1>2 DEF Gla!Trivial
  <2>3. frames' \in [Gla!Outputs -> Int]
    BY <2>2, Zenon
  <2> QED
    BY <1>2, <2>1, <2>3 DEF Gla!Trivial
<1>3. CASE Gla!SkipFrame
  BY <1>3 DEF Gla!SkipFrame
<1>4. CASE Gla!StartFrame
  BY <1>4 DEF Gla!StartFrame
<1>5. CASE Gla!Satisfiable
  <2>1. g_nRunIds' \in Nat
    BY <1>5 DEF Gla!Satisfiable, Gla!ProveCancel
  <2> QED
    BY <1>5, <2>1 DEF Gla!Satisfiable
<1>6. CASE Gla!Undecided
  BY <1>6 DEF Gla!Undecided
<1>7. CASE Gla!Unsatisfiable
  BY <1>7 DEF Gla!Unsatisfiable
<1>8. CASE Gla!ProveCheck
  BY <1>8 DEF Gla!ProveCheck
<1>9. CASE Gla!TakeProof
  BY <1>9 DEF Gla!TakeProof
<1>10. CASE Gla!Stable
  BY <1>10 DEF Gla!Stable, Gla!ProveCancel
<1>11. CASE Gla!ResetProof
  BY <1>11 DEF Gla!ResetProof
<1>12. CASE Gla!CreateThread
  <2>1. prover' \in [Gla!RunIds -> GlaStates]
    BY <1>12 DEF Gla!CreateThread
  <2>2. o \in Int
    OBVIOUS
  <2>3. proves' \in [Gla!RunIds -> Int]
    BY <1>12, <2>2 DEF Gla!CreateThread
  <2> QED
    BY <1>12, <2>1, <2>3 DEF Gla!CreateThread
<1>13. CASE Gla!NextFrame
  BY <1>13 DEF Gla!NextFrame
<1>14. CASE Gla!Finish
  BY <1>14 DEF Gla!Finish, Gla!ProveCancel, Gla!Result, Gla!Report
<1>15. ASSUME NEW r \in Gla!RunIds, Gla!ProverThread(r) PROVE GlaTypeOK'
  BY <1>15 DEF Gla!ProverThread, Gla!PdrAnswers, Gla!PdrStops, Gla!TellProof
<1>16. CASE UNCHANGED Gla!vars
  BY <1>16 DEF Gla!vars
<1> QED
  BY <1>1, <1>2, <1>3, <1>4, <1>5, <1>6, <1>7, <1>8, <1>9, <1>10, <1>11, <1>12,
    <1>13, <1>14, <1>15, <1>16 DEF Gla!Next, Gla!PerformGla

\* A prover is created with the next number and the output of the call.
LEMMA GlaProverStep ==
  ASSUME NOutputs \in Nat \ {0}, nGlaFrames \in Nat, GlaTypeOK, GlaProverInv,
         [Gla!Next]_(Gla!vars)
  PROVE  GlaProverInv'
<1> USE GlaRunIdsInt DEF Gla!input, Gla!params, Gla!results, Gla!threads, Gla!loop,
    GlaTypeOK,
    GlaProverInv
<1>1. CASE Gla!CreateThread
  BY <1>1 DEF Gla!CreateThread
<1>2. CASE \/ Gla!Call \/ Gla!Trivial \/ Gla!SkipFrame \/ Gla!StartFrame
           \/ Gla!Satisfiable \/ Gla!Undecided \/ Gla!Unsatisfiable \/ Gla!ProveCheck
           \/ Gla!TakeProof \/ Gla!Stable \/ Gla!ResetProof \/ Gla!NextFrame
           \/ Gla!Finish
  BY <1>2 DEF Gla!Call, Gla!Trivial, Gla!SkipFrame, Gla!StartFrame, Gla!Satisfiable,
     Gla!ProveCancel,
    Gla!Undecided, Gla!Unsatisfiable, Gla!ProveCheck, Gla!TakeProof, Gla!Stable,
    Gla!ResetProof, Gla!NextFrame,
    Gla!Finish, Gla!Result, Gla!Report
<1>3. ASSUME NEW r \in Gla!RunIds, Gla!ProverThread(r) PROVE GlaProverInv'
  BY <1>3 DEF Gla!ProverThread, Gla!PdrAnswers, Gla!PdrStops, Gla!TellProof
<1>4. CASE UNCHANGED Gla!vars
  BY <1>4 DEF Gla!vars
<1> QED
  BY <1>1, <1>2, <1>3, <1>4 DEF Gla!Next, Gla!PerformGla

\* The run number passes the prover that was known, and no other is left.
LEMMA GlaCancelStep ==
  ASSUME NOutputs \in Nat \ {0}, nGlaFrames \in Nat, GlaIInv, [Gla!Next]_(Gla!vars)
  PROVE  GlaCancelInv'
<1> USE GlaRunIdsInt DEF Gla!input, Gla!params, Gla!results, Gla!threads, Gla!loop, GlaIInv,
    GlaTypeOK,
  GlaCancelInv, GlaProverInv, Gla!OneProver
<1>1. CASE Gla!Stable
  BY <1>1 DEF Gla!Stable, Gla!ProveCancel
<1>2. CASE Gla!ResetProof
  BY <1>2 DEF Gla!ResetProof
<1>3. CASE \/ Gla!Call \/ Gla!Trivial \/ Gla!SkipFrame \/ Gla!StartFrame
           \/ Gla!Satisfiable \/ Gla!Undecided \/ Gla!Unsatisfiable \/ Gla!ProveCheck
           \/ Gla!TakeProof \/ Gla!CreateThread \/ Gla!NextFrame \/ Gla!Finish
  BY <1>3 DEF Gla!Call, Gla!Trivial, Gla!SkipFrame, Gla!StartFrame, Gla!Satisfiable,
     Gla!ProveCancel,
    Gla!Undecided, Gla!Unsatisfiable, Gla!ProveCheck, Gla!TakeProof, Gla!CreateThread,
    Gla!NextFrame,
    Gla!Finish, Gla!Result, Gla!Report
<1>4. ASSUME NEW r \in Gla!RunIds, Gla!ProverThread(r) PROVE GlaCancelInv'
  BY <1>4 DEF Gla!ProverThread, Gla!PdrAnswers, Gla!PdrStops, Gla!TellProof
<1>5. CASE UNCHANGED Gla!vars
  BY <1>5 DEF Gla!vars
<1> QED
  BY <1>1, <1>2, <1>3, <1>4, <1>5 DEF Gla!Next, Gla!PerformGla

\* Who forgets a prover (Satisfiable, Finish, CreateThread) has cancelled it.
LEMMA GlaOneStep ==
  ASSUME NOutputs \in Nat \ {0}, nGlaFrames \in Nat, GlaIInv, [Gla!Next]_(Gla!vars)
  PROVE  Gla!OneProver'
<1> USE GlaRunIdsInt DEF Gla!input, Gla!params, Gla!results, Gla!threads, Gla!loop, GlaIInv,
    GlaTypeOK,
  Gla!OneProver, GlaProverInv
<1>1. CASE Gla!Call
  BY <1>1 DEF Gla!Call
<1>2. CASE Gla!Satisfiable
  BY <1>2 DEF Gla!Satisfiable, Gla!ProveCancel
<1>3. CASE Gla!Stable
  BY <1>3 DEF Gla!Stable, Gla!ProveCancel
<1>4. CASE Gla!CreateThread
  BY <1>4 DEF Gla!CreateThread
<1>5. CASE Gla!Finish
  BY <1>5 DEF Gla!Finish, Gla!ProveCancel, Gla!Result, Gla!Report
<1>6. CASE \/ Gla!Trivial \/ Gla!SkipFrame \/ Gla!StartFrame \/ Gla!Undecided
           \/ Gla!Unsatisfiable \/ Gla!ProveCheck \/ Gla!TakeProof \/ Gla!ResetProof
           \/ Gla!NextFrame
  BY <1>6 DEF Gla!Trivial, Gla!SkipFrame, Gla!StartFrame, Gla!Undecided, Gla!Unsatisfiable,
     Gla!ProveCheck,
    Gla!TakeProof, Gla!ResetProof, Gla!NextFrame
<1>7. ASSUME NEW r \in Gla!RunIds, Gla!ProverThread(r) PROVE Gla!OneProver'
  BY <1>7 DEF Gla!ProverThread, Gla!PdrAnswers, Gla!PdrStops, Gla!TellProof
<1>8. CASE UNCHANGED Gla!vars
  BY <1>8 DEF Gla!vars
<1> QED
  BY <1>1, <1>2, <1>3, <1>4, <1>5, <1>6, <1>7, <1>8 DEF Gla!Next, Gla!PerformGla

\* The flag is reset when the last prover is cancelled, or its proof is taken.
LEMMA GlaLostStep ==
  ASSUME NOutputs \in Nat \ {0}, nGlaFrames \in Nat, GlaIInv, [Gla!Next]_(Gla!vars)
  PROVE  Gla!NoProofLost'
<1> USE GlaRunIdsInt DEF Gla!input, Gla!params, Gla!results, Gla!threads, Gla!loop, GlaIInv,
    GlaTypeOK,
  Gla!NoProofLost, GlaProverInv, GlaCancelInv
<1>1. CASE Gla!Satisfiable
  BY <1>1 DEF Gla!Satisfiable, Gla!ProveCancel
<1>2. CASE Gla!TakeProof
  BY <1>2 DEF Gla!TakeProof
<1>3. CASE Gla!Stable
  BY <1>3 DEF Gla!Stable, Gla!ProveCancel
<1>4. CASE Gla!ResetProof
  BY <1>4 DEF Gla!ResetProof
<1>5. CASE Gla!CreateThread
  BY <1>5 DEF Gla!CreateThread
<1>6. CASE Gla!Finish
  BY <1>6 DEF Gla!Finish, Gla!ProveCancel, Gla!Result, Gla!Report
<1>7. CASE \/ Gla!Call \/ Gla!Trivial \/ Gla!SkipFrame \/ Gla!StartFrame
           \/ Gla!Undecided \/ Gla!Unsatisfiable
  \/ Gla!ProveCheck \/ Gla!NextFrame
  BY <1>7 DEF Gla!Call, Gla!Trivial, Gla!SkipFrame, Gla!StartFrame, Gla!Undecided,
     Gla!Unsatisfiable,
    Gla!ProveCheck, Gla!NextFrame
<1>8. ASSUME NEW r \in Gla!RunIds, Gla!ProverThread(r) PROVE Gla!NoProofLost'
  BY <1>8 DEF Gla!ProverThread, Gla!PdrAnswers, Gla!PdrStops, Gla!TellProof
<1>9. CASE UNCHANGED Gla!vars
  BY <1>9 DEF Gla!vars
<1> QED
  BY <1>1, <1>2, <1>3, <1>4, <1>5, <1>6, <1>7, <1>8, <1>9 DEF Gla!Next, Gla!PerformGla

\* A prover that has a proof keeps it.
LEMMA GlaProofStep ==
  ASSUME NOutputs \in Nat \ {0}, nGlaFrames \in Nat, GlaIInv, [Gla!Next]_(Gla!vars)
  PROVE  GlaProofInv'
<1> USE GlaRunIdsInt DEF Gla!input, Gla!params, Gla!results, Gla!threads, Gla!loop, GlaIInv,
    GlaTypeOK, GlaProofInv,
  GlaProverInv
<1>1. CASE Gla!ProveCheck
  BY <1>1 DEF Gla!ProveCheck
<1>2. CASE Gla!TakeProof
  BY <1>2 DEF Gla!TakeProof
<1>3. CASE Gla!CreateThread
  BY <1>3 DEF Gla!CreateThread
<1>4. CASE \/ Gla!Call \/ Gla!Trivial \/ Gla!SkipFrame \/ Gla!StartFrame
           \/ Gla!Satisfiable \/ Gla!Undecided \/ Gla!Unsatisfiable \/ Gla!Stable
           \/ Gla!ResetProof \/ Gla!NextFrame \/ Gla!Finish
  BY <1>4 DEF Gla!Call, Gla!Trivial, Gla!SkipFrame, Gla!StartFrame, Gla!Satisfiable,
     Gla!ProveCancel,
    Gla!Undecided, Gla!Unsatisfiable, Gla!Stable, Gla!ResetProof, Gla!NextFrame,
    Gla!Finish, Gla!Result, Gla!Report
<1>5. ASSUME NEW r \in Gla!RunIds, Gla!ProverThread(r) PROVE GlaProofInv'
  BY <1>5 DEF Gla!ProverThread, Gla!PdrAnswers, Gla!PdrStops, Gla!TellProof
<1>6. CASE UNCHANGED Gla!vars
  BY <1>6 DEF Gla!vars
<1> QED
  BY <1>1, <1>2, <1>3, <1>4, <1>5, <1>6 DEF Gla!Next, Gla!PerformGla

\* The proof that is taken is of an output that never fails: an earlier one, if
\* the output can fail.
LEMMA GlaLateStep ==
  ASSUME NOutputs \in Nat \ {0}, nGlaFrames \in Nat, GlaIInv, [Gla!Next]_(Gla!vars)
  PROVE  Gla!OnlyLateProofs'
<1> USE GlaRunIdsInt, GlaOutputsAre DEF Gla!input, Gla!params, Gla!results, Gla!threads,
    Gla!loop, GlaIInv,
  GlaTypeOK, Gla!OnlyLateProofs, GlaProofInv, GlaProverInv
<1>1. CASE Gla!Trivial
  BY <1>1 DEF Gla!Trivial
<1>2. CASE Gla!CreateThread
  BY <1>2 DEF Gla!CreateThread
<1>3. CASE Gla!Finish
  BY <1>3 DEF Gla!Finish, Gla!ProveCancel, Gla!Result, Gla!Report
<1>4. CASE \/ Gla!Call \/ Gla!SkipFrame \/ Gla!StartFrame \/ Gla!Satisfiable
           \/ Gla!Undecided \/ Gla!Unsatisfiable \/ Gla!ProveCheck \/ Gla!TakeProof
           \/ Gla!Stable \/ Gla!ResetProof \/ Gla!NextFrame
  BY <1>4 DEF Gla!Call, Gla!SkipFrame, Gla!StartFrame, Gla!Satisfiable, Gla!ProveCancel,
     Gla!Undecided,
    Gla!Unsatisfiable, Gla!ProveCheck, Gla!TakeProof, Gla!Stable, Gla!ResetProof,
    Gla!NextFrame
<1>5. ASSUME NEW r \in Gla!RunIds, Gla!ProverThread(r) PROVE Gla!OnlyLateProofs'
  BY <1>5 DEF Gla!ProverThread, Gla!PdrAnswers, Gla!PdrStops, Gla!TellProof
<1>6. CASE UNCHANGED Gla!vars
  BY <1>6 DEF Gla!vars
<1> QED
  BY <1>1, <1>2, <1>3, <1>4, <1>5, <1>6 DEF Gla!Next, Gla!PerformGla

\* A frame is left only when it holds.
LEMMA GlaFrameStep ==
  ASSUME NOutputs \in Nat \ {0}, nGlaFrames \in Nat, GlaTypeOK, GlaNumberInv, GlaFrameInv,
         [Gla!Next]_(Gla!vars)
  PROVE  GlaFrameInv'
<1> USE GlaOutputsAre DEF Gla!input, Gla!params, Gla!results, Gla!threads, Gla!loop,
    GlaTypeOK,
    GlaFrameInv,
  Gla!Never
<1>0. mpc # "call" => o \in Gla!Outputs
  BY DEF GlaNumberInv, Gla!Outputs
<1>1. CASE Gla!Call
  <2>1. o \in Gla!Outputs
    BY <1>1 DEF Gla!Call, Gla!Outputs
  <2> QED
    BY <1>1, <2>1 DEF Gla!Call
<1>2. CASE Gla!SkipFrame
  BY <1>0, <1>2 DEF Gla!SkipFrame
<1>3. CASE Gla!Satisfiable
  BY <1>0, <1>3 DEF Gla!Satisfiable, Gla!ProveCancel
<1>4. CASE Gla!Unsatisfiable
  BY <1>0, <1>4 DEF Gla!Unsatisfiable
<1>5. CASE Gla!NextFrame
  BY <1>0, <1>5 DEF Gla!NextFrame
<1>6. CASE Gla!Finish
  BY <1>0, <1>6 DEF Gla!Finish, Gla!ProveCancel, Gla!Result, Gla!Report
<1>7. CASE \/ Gla!Trivial \/ Gla!StartFrame \/ Gla!Undecided \/ Gla!ProveCheck
           \/ Gla!TakeProof \/ Gla!Stable
  \/ Gla!ResetProof \/ Gla!CreateThread
  BY <1>0, <1>7 DEF Gla!Trivial, Gla!StartFrame, Gla!Undecided, Gla!ProveCheck, Gla!TakeProof,
     Gla!Stable,
    Gla!ProveCancel, Gla!ResetProof, Gla!CreateThread
<1>8. ASSUME NEW r \in Gla!RunIds, Gla!ProverThread(r) PROVE GlaFrameInv'
  BY <1>8 DEF Gla!ProverThread, Gla!PdrAnswers, Gla!PdrStops, Gla!TellProof
<1>9. CASE UNCHANGED Gla!vars
  BY <1>9 DEF Gla!vars
<1> QED
  BY <1>1, <1>2, <1>3, <1>4, <1>5, <1>6, <1>7, <1>8, <1>9 DEF Gla!Next, Gla!PerformGla

\* What is reported is what GlaFrameInv says of the output when it is reported,
\* and stays.
LEMMA GlaRightStep ==
  ASSUME NOutputs \in Nat \ {0}, nGlaFrames \in Nat, GlaIInv, [Gla!Next]_(Gla!vars)
  PROVE  Gla!FramesRight'
<1> USE GlaOutputsAre DEF Gla!input, Gla!params, Gla!results, Gla!threads, Gla!loop
<1>0. /\ GlaTypeOK /\ Gla!FramesRight /\ GlaFrameInv /\ GlaNumberInv
  BY DEF GlaIInv
<1>1. ASSUME Gla!Trivial \/ Gla!Finish
      PROVE  /\ o \in Gla!Outputs /\ o' = o + 1 /\ UNCHANGED <<failsAt, fUseSkip>>
             /\ \A q \in 1..(o - 1) : status'[q] = status[q] /\ frames'[q] = frames[q]
             /\ status'[o] = 0 => failsAt[o] <= frames'[o] + 1
             /\ status'[o] = -1 /\ (o = 1 \/ ~fUseSkip)
                  => \E p \in 1..o : frames'[o] < failsAt[p]
  <2>1. o \in Gla!Outputs
    BY <1>0, <1>1 DEF Gla!Trivial, Gla!Finish, GlaNumberInv, GlaTypeOK, Gla!Outputs
  <2>2. \A q \in 1..(o - 1) : q \in Gla!Outputs /\ q # o
    BY <1>0, <2>1 DEF GlaTypeOK, Gla!Outputs
  <2>3. CASE Gla!Trivial
    BY <1>0, <2>1, <2>2, <2>3 DEF Gla!Trivial, GlaTypeOK
  <2>4. CASE Gla!Finish
    <3>1. (o = 1 \/ ~fUseSkip) => \E p \in 1..o : iFrameProved < failsAt[p]
      BY <1>0 DEF GlaFrameInv, Gla!Outputs
    <3> QED
      BY <1>0, <2>1, <2>2, <2>4, <3>1
      DEF Gla!Finish, Gla!ProveCancel, Gla!Result, Gla!Report, GlaTypeOK, GlaFrameInv
  <2> QED
    BY <1>1, <2>3, <2>4
<1>2. CASE Gla!Trivial \/ Gla!Finish
  <2> SUFFICES ASSUME NEW q \in 1..o
               PROVE  /\ status'[q] = 0 => failsAt[q] <= frames'[q] + 1
                      /\ status'[q] = -1 /\ (q = 1 \/ ~fUseSkip)
                           => \E p \in 1..q : frames'[q] < failsAt[p]
    BY <1>1, <1>2, <1>0 DEF Gla!FramesRight, GlaTypeOK
  <2>1. q = o \/ q \in 1..(o - 1)
    BY <1>0 DEF GlaTypeOK
  <2> QED
    BY <1>0, <1>1, <1>2, <2>1 DEF Gla!FramesRight
<1>3. CASE \/ Gla!Call \/ Gla!SkipFrame \/ Gla!StartFrame \/ Gla!Satisfiable
           \/ Gla!Undecided \/ Gla!Unsatisfiable \/ Gla!ProveCheck \/ Gla!TakeProof
           \/ Gla!Stable \/ Gla!ResetProof \/ Gla!CreateThread
  \/ Gla!NextFrame
  <2>1. UNCHANGED <<o, failsAt, fUseSkip, status, frames>>
    BY <1>3 DEF Gla!Call, Gla!SkipFrame, Gla!StartFrame, Gla!Satisfiable, Gla!ProveCancel,
       Gla!Undecided, Gla!Unsatisfiable, Gla!ProveCheck, Gla!TakeProof, Gla!Stable,
       Gla!ResetProof, Gla!CreateThread, Gla!NextFrame
  <2> QED
    BY <1>0, <2>1 DEF Gla!FramesRight
<1>4. ASSUME NEW r \in Gla!RunIds, Gla!ProverThread(r) PROVE Gla!FramesRight'
  BY <1>0, <1>4 DEF Gla!ProverThread, Gla!PdrAnswers, Gla!PdrStops, Gla!TellProof,
     Gla!FramesRight
<1>5. CASE UNCHANGED Gla!vars
  BY <1>0, <1>5 DEF Gla!vars, Gla!FramesRight
<1> QED
  BY <1>2, <1>3, <1>4, <1>5 DEF Gla!Next, Gla!PerformGla

\* How the frames of finished passes change.
LEMMA GlaPassesAre ==
  ASSUME nGlaFrames \in Nat, GlaTypeOK, GlaNumberInv
  PROVE  /\ o - 1 + restarts \in Nat /\ GlaPasses \in Nat
         /\ o' = o /\ restarts' = restarts => GlaPasses' = GlaPasses
         /\ (o' - 1) + restarts' = (o - 1 + restarts) + 1 => GlaPasses' = GlaPasses + nGlaFrames
<1>1. o - 1 + restarts \in Nat
  BY DEF GlaTypeOK, GlaNumberInv
<1> QED
  BY <1>1, GlaProduct DEF GlaPasses

\* Creating a prover, and cancelling it, is paid for by the frame it was created in.
LEMMA GlaNumberStep ==
  ASSUME NOutputs \in Nat \ {0}, nGlaFrames \in Nat, NRestarts \in Nat,
         GlaTypeOK, GlaNumberInv, [Gla!Next]_(Gla!vars)
  PROVE  GlaNumberInv'
<1> USE GlaPassesAre DEF Gla!input, Gla!params, Gla!results, Gla!threads, Gla!loop,
    GlaTypeOK,
    GlaNumberInv, Left, Known
<1>1. CASE Gla!Call
  BY <1>1 DEF Gla!Call
<1>2. CASE Gla!Trivial
  BY <1>2 DEF Gla!Trivial
<1>3. CASE Gla!SkipFrame
  BY <1>3 DEF Gla!SkipFrame
<1>4. CASE Gla!StartFrame
  BY <1>4 DEF Gla!StartFrame
<1>5. CASE Gla!Satisfiable
  BY <1>5 DEF Gla!Satisfiable, Gla!ProveCancel
<1>6. CASE Gla!Undecided
  BY <1>6 DEF Gla!Undecided
<1>7. CASE Gla!Unsatisfiable
  BY <1>7 DEF Gla!Unsatisfiable
<1>8. CASE Gla!ProveCheck
  BY <1>8 DEF Gla!ProveCheck
<1>9. CASE Gla!TakeProof
  BY <1>9 DEF Gla!TakeProof
<1>10. CASE Gla!Stable
  BY <1>10 DEF Gla!Stable, Gla!ProveCancel
<1>11. CASE Gla!ResetProof
  BY <1>11 DEF Gla!ResetProof
<1>12. CASE Gla!CreateThread
  BY <1>12 DEF Gla!CreateThread
<1>13. CASE Gla!NextFrame
  BY <1>13 DEF Gla!NextFrame
<1>14. CASE Gla!Finish
  BY <1>14 DEF Gla!Finish, Gla!ProveCancel
<1>15. ASSUME NEW r \in Gla!RunIds, Gla!ProverThread(r) PROVE GlaNumberInv'
  BY <1>15 DEF Gla!ProverThread, Gla!PdrAnswers, Gla!PdrStops, Gla!TellProof
<1>16. CASE UNCHANGED Gla!vars
  BY <1>16 DEF Gla!vars
<1> QED
  BY <1>1, <1>2, <1>3, <1>4, <1>5, <1>6, <1>7, <1>8, <1>9, <1>10, <1>11, <1>12, <1>13,
     <1>14, <1>15, <1>16 DEF Gla!Next, Gla!PerformGla

\* The last pass is the one of the last output after all restarts.
LEMMA GlaEnoughNumbers ==
  ASSUME NOutputs \in Nat \ {0}, nGlaFrames \in Nat, NRestarts \in Nat, GlaIInv
  PROVE  GlaNumbersSuffice
<1> SUFFICES ASSUME mpc = "launch" PROVE g_nRunIds + 1 \in Gla!RunIds
  BY DEF GlaNumbersSuffice
<1>1. /\ g_nRunIds \in Nat /\ f \in Nat /\ f < nGlaFrames
      /\ g_nRunIds <= 2 * (GlaPasses + f)
      /\ o - 1 + restarts \in Nat /\ o - 1 + restarts < NOutputs + NRestarts
      /\ GlaPasses \in Nat
  BY GlaPassesAre DEF GlaIInv, GlaTypeOK, GlaNumberInv, Left, Known
<1>2. /\ nGlaFrames * (NOutputs + NRestarts) \in Nat
      /\ GlaPasses + nGlaFrames <= nGlaFrames * (NOutputs + NRestarts)
  BY <1>1, GlaProduct DEF GlaPasses
<1>3. g_nRunIds + 1 <= 2 * (nGlaFrames * (NOutputs + NRestarts))
  BY <1>1, <1>2
<1>4. 2 * (nGlaFrames * (NOutputs + NRestarts)) = 2 * nGlaFrames * (NOutputs + NRestarts)
  OBVIOUS
<1> QED
  BY <1>1, <1>2, <1>3, <1>4 DEF Gla!RunIds

-----------------------------------------------------------------------------
\* Every step is one of the command that runs, which stays the same.
LEMMA GlaSteps ==
  ASSUME [Next]_vars
  PROVE  command' = command /\ (command = "gla" => [Gla!Next]_(Gla!vars))
<1>1. CASE Manager
  BY <1>1 DEF Manager, OfTuner, OfStoch, OfCnf, OfBmcs, OfCec, OfGla, OfProg, Gla!Next
<1>2. CASE PdrAnswers
  <2>1. ASSUME NEW r \in Gla!RunIds, Gla!PdrAnswers(r) PROVE Gla!Next
    BY <2>1 DEF Gla!Next, Gla!ProverThread
  <2> QED
    BY <1>2, <2>1 DEF PdrAnswers, OfGla
<1>3. CASE Provers
  <2>1. ASSUME NEW r \in Gla!RunIds, Gla!PdrStops(r) \/ Gla!TellProof(r) PROVE Gla!Next
    BY <2>1 DEF Gla!Next, Gla!ProverThread
  <2> QED
    BY <1>3, <2>1 DEF Provers, OfGla
<1>4. ASSUME NEW t \in Threads, Thread(t)
      PROVE  command' = command /\ command # "gla"
  BY <1>4 DEF Thread, OfTuner, OfStoch, OfCnf, OfBmcs, OfCec, OfProg
<1>5. ASSUME NEW t \in Threads, Reused(t)
      PROVE  command' = command /\ (command = "gla" => UNCHANGED Gla!vars)
  BY <1>5 DEF Reused, gla, Pool!FrameReused, Gla!vars, Gla!input, Gla!params,
     Gla!results, Gla!threads, Gla!loop
<1>6. CASE UNCHANGED vars
  BY <1>6 DEF vars, pool, shared, gla, Gla!vars, Gla!input, Gla!params, Gla!results,
     Gla!threads, Gla!loop
<1> QED
  BY <1>1, <1>2, <1>3, <1>4, <1>5, <1>6 DEF Next

\* The invariant holds in every reachable state of the command.
LEMMA GlaInvariant == Spec => [](command = "gla" => GlaIInv)
<1> USE GlaConstants
<1>1. Init => (command = "gla" => GlaIInv)
  BY GlaInitInv DEF Init
<1>2. (command = "gla" => GlaIInv) /\ [Next]_vars => (command = "gla" => GlaIInv)'
  BY GlaSteps, GlaTypeStep, GlaProverStep, GlaCancelStep, GlaOneStep, GlaLostStep,
     GlaProofStep, GlaLateStep,
     GlaFrameStep, GlaRightStep, GlaNumberStep DEF GlaIInv
<1> QED
  BY <1>1, <1>2, PTL DEF Spec

\* The run numbers of the model suffice: no prover is left out.
THEOREM NumbersAreEnough == Spec => [](command = "gla" => GlaNumbersSuffice)
<1>1. GlaIInv => GlaNumbersSuffice
  BY GlaEnoughNumbers, GlaConstants
<1> QED
  BY <1>1, GlaInvariant, PTL

\* Gia_GlaProveCancel and the run number leave at most one prover running, the
\* one the frame loop knows of, and a proof of the abstraction that was sent last
\* is not lost between Gia_GlaProveCheck, the reset for a new prover and the
\* thread that sets the flag.
THEOREM ProverIsKnown == Spec => []OneProver
<1>1. GlaIInv => Gla!OneProver /\ Gla!NoProofLost
  BY DEF GlaIInv
<1> QED
  BY <1>1, GlaInvariant, PTL DEF OneProver

\* "check if abstraction was proved": a wrong "proved" always comes from a prover
\* of an earlier output that set the flag late; nothing else can cause one.
THEOREM OnlyLateProofsMislead == Spec => []OnlyLateProofs
<1>1. GlaIInv => Gla!OnlyLateProofs
  BY DEF GlaIInv
<1> QED
  BY <1>1, GlaInvariant, PTL DEF OnlyLateProofs

\* pPars->iFrame of every output: a counter-example is reported no earlier than
\* the output fails, and without an answer the count holds of the output or of one
\* before it (with -s, of the first output).
THEOREM FramesAreRight == Spec => []FramesRight
<1>1. GlaIInv => Gla!FramesRight
  BY DEF GlaIInv
<1> QED
  BY <1>1, GlaInvariant, PTL DEF FramesRight
=============================================================================
