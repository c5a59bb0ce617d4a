--------------------------- MODULE ScorrPoolProofs ---------------------------
(***************************************************************************)
(* Proofs about ScorrPool, and so about the protocol of WorkerPool, for    *)
(* every number of workers and of AIGs.                                    *)
(***************************************************************************)
EXTENDS ScorrPool, TLAPS

\* A worker that waits for a job.
Idle(w) == wpc[w] = "spin" /\ fWorking[w] = 0

\* A worker that was given an AIG and has not lowered its flag yet.
Busy(w) == /\ fWorking[w] = 1
           /\ \/ wpc[w] \in {"spin", "read"} /\ job[w] \in Gias
              \/ wpc[w] = "run" /\ cur[w] \in Gias
              \/ wpc[w] = "clear"

\* A worker that was told to exit, and has perhaps not seen it yet.
Told(w) == /\ job[w] = NoJob
           /\ \/ wpc[w] \in {"spin", "read"} /\ fWorking[w] = 1
              \/ wpc[w] = "exit"

\* What the manager may rely on about the workers, wherever it is.
LinkInv ==
  /\ mpc = "create" =>
       \A w \in Worker : IF w < scan THEN Idle(w)
                                     ELSE wpc[w] = "none" /\ fWorking[w] = 0
  /\ mpc \in {"while", "scan", "raise", "wait"} =>
       \A w \in Worker : Idle(w) \/ Busy(w)
  /\ mpc = "scan" => top > 0
  /\ mpc = "raise" => Idle(scan) /\ job[scan] \in Gias
  /\ mpc = "wait" => \A w \in Worker : w < scan => Idle(w)
  /\ mpc \in {"stop", "stopraise"} =>
       \A w \in Worker : IF w < scan THEN Told(w) ELSE Idle(w)
  /\ mpc = "stopraise" => job[scan] = NoJob
  /\ mpc \in {"wait", "stop", "stopraise", "returned"} => top = 0
  /\ mpc = "returned" =>
       \A w \in Worker : /\ wpc[w] \in {"spin", "read", "exit", "lost"}
                         /\ job[w] \in {NoJob, Garbage}

\* Where every AIG is: on the stack, with one worker, or swept once.
AccountInv ==
  /\ \A g \in Gias : g <= top => swept[g] = 0
  /\ \A w \in Worker : \A g \in InHand[w] :
       g \in Gias /\ g > top /\ swept[g] = 0
  /\ \A v, w \in Worker : \A g \in InHand[v] : g \in InHand[w] => v = w
  /\ \A g \in Gias : g > top =>
       swept[g] = 1 \/ \E w \in Worker : g \in InHand[w]

IInv == TypeOK /\ LinkInv /\ AccountInv

-----------------------------------------------------------------------------
\* Before the first thread is created everything is as the invariant wants it.
LEMMA InitIInv == Init => IInv
<1> SUFFICES ASSUME Init PROVE IInv
  OBVIOUS
<1> USE PoolConstants, GiasOK, RecordOK
<1>1. TypeOK
  BY DEF Init, PoolInit, TypeOK, WorkerPcs, MgrPcs, Worker, Gias
<1>2. LinkInv
  BY DEF Init, PoolInit, LinkInv, Worker
<1>3. \A w \in Worker : InHand[w] = {}
  BY DEF Init, PoolInit, InHand
<1>4. AccountInv
  BY <1>3 DEF Init, PoolInit, AccountInv, Gias
<1> QED
  BY <1>1, <1>2, <1>4 DEF IInv

\* A step that moves no AIG keeps the account.
LEMMA AccountSame ==
  ASSUME AccountInv, InHand' = InHand, UNCHANGED <<top, swept>>
  PROVE  AccountInv'
  BY DEF AccountInv

\* A worker that runs the procedure has an AIG and its flag up.
LEMMA RunsAig ==
  ASSUME IInv, NEW w \in Worker, wpc[w] = "run"
  PROVE  /\ mpc \in {"while", "scan", "raise", "wait"}
         /\ fWorking[w] = 1 /\ cur[w] \in Gias
  BY DEF IInv, TypeOK, LinkInv, Idle, Busy, Told, MgrPcs

\* Types.
LEMMA NextTypeOK == IInv /\ [Next]_vars => TypeOK'
<1> SUFFICES ASSUME IInv, [Next]_vars PROVE TypeOK'
  OBVIOUS
<1> USE PoolConstants, GiasOK, RecordOK DEF IInv, TypeOK, WorkerPcs, MgrPcs, worker, record, Gias
<1>1. CASE StartThreads
  BY <1>1 DEF StartThreads, CreateWorker, Worker
<1>2. CASE WhileJobs
  BY <1>2 DEF WhileJobs, Worker
<1>3. CASE SkipBusy
  BY <1>3 DEF SkipBusy, Worker
<1>4. CASE PopJob
  <2>1. top \in 1..nGias
    BY <1>4 DEF PopJob, LinkInv
  <2> QED
    BY <1>4, <2>1 DEF PopJob
<1>5. CASE StartJob
  BY <1>5 DEF StartJob, RaiseFlag
<1>6. CASE WaitAll
  BY <1>6 DEF WaitAll, WaitScan, Worker
<1>7. CASE StopThreads
  BY <1>7 DEF StopThreads, StopStore, StopRaise, RaiseFlag, Worker
<1>8. ASSUME NEW w \in Worker, WorkerThread(w)
      PROVE  TypeOK'
  <2>1. CASE Wake(w) /\ UNCHANGED <<mpc, scan, top, swept>>
    BY <2>1 DEF Wake
  <2>2. CASE ReadJob(w) /\ UNCHANGED <<mpc, scan, top, swept>>
    <3>1. wpc' \in [Worker -> WorkerPcs]
      BY <2>2 DEF ReadJob
    <3>2. cur' \in [Worker -> Gias \union {NoJob, Garbage}]
      BY <2>2 DEF ReadJob
    <3> QED
      BY <2>2, <3>1, <3>2 DEF ReadJob
  <2>3. CASE ClearFlag(w) /\ UNCHANGED <<mpc, scan, top, swept>>
    BY <2>3 DEF ClearFlag
  <2>4. CASE Solved(w) /\ swept' = [swept EXCEPT ![cur[w]] = @ + 1]
                       /\ UNCHANGED <<mpc, scan, top>>
    <3>1. cur[w] \in Gias
      BY <2>4, RunsAig DEF Solved
    <3> QED
      BY <2>4, <3>1 DEF Solved
  <2> QED
    BY <1>8, <2>1, <2>2, <2>3, <2>4 DEF WorkerThread
<1>9. ASSUME NEW w \in Worker, Reused(w)
      PROVE  TypeOK'
  BY <1>9 DEF Reused, FrameReused
<1>10. CASE UNCHANGED vars
  BY <1>10 DEF vars
<1> QED
  BY <1>1, <1>2, <1>3, <1>4, <1>5, <1>6, <1>7, <1>8, <1>9, <1>10
     DEF Next, Manager

\* The links.
LEMMA NextLinkInv == IInv /\ [Next]_vars => LinkInv'
<1> SUFFICES ASSUME IInv, [Next]_vars PROVE LinkInv'
  OBVIOUS
<1> USE PoolConstants, GiasOK, RecordOK DEF IInv, LinkInv, Idle, Busy, Told, worker, record
<1>t. TypeOK
  OBVIOUS
<1>1. CASE StartThreads
  BY <1>1 DEF StartThreads, CreateWorker, Worker, TypeOK
<1>2. CASE WhileJobs
  BY <1>2 DEF WhileJobs, Worker, TypeOK
<1>3. CASE SkipBusy
  BY <1>3 DEF SkipBusy, Worker, TypeOK
<1>4. CASE PopJob
  BY <1>4 DEF PopJob, TypeOK, Gias
<1>5. CASE StartJob
  BY <1>5 DEF StartJob, RaiseFlag, TypeOK
<1>6. CASE WaitAll
  BY <1>6 DEF WaitAll, WaitScan, Worker, TypeOK
<1>7. CASE StopThreads
  <2>1. CASE StopStore /\ UNCHANGED <<top, swept>>
    BY <2>1 DEF StopStore, Worker, TypeOK
  <2>2. CASE StopRaise /\ UNCHANGED <<top, swept>>
    BY <2>2 DEF StopRaise, RaiseFlag, Worker, TypeOK
  <2> QED
    BY <1>7, <2>1, <2>2 DEF StopThreads
<1>8. ASSUME NEW w \in Worker, WorkerThread(w)
      PROVE  LinkInv'
  <2>1. CASE Wake(w) /\ UNCHANGED <<mpc, scan, top, swept>>
    BY <2>1 DEF Wake, TypeOK, MgrPcs
  <2>2. CASE ReadJob(w) /\ UNCHANGED <<mpc, scan, top, swept>>
    BY <2>2 DEF ReadJob, TypeOK, MgrPcs
  <2>3. CASE ClearFlag(w) /\ UNCHANGED <<mpc, scan, top, swept>>
    BY <2>3 DEF ClearFlag, TypeOK, MgrPcs
  <2>4. CASE Solved(w) /\ swept' = [swept EXCEPT ![cur[w]] = @ + 1]
                       /\ UNCHANGED <<mpc, scan, top>>
    BY <2>4 DEF Solved, TypeOK, MgrPcs
  <2> QED
    BY <1>8, <2>1, <2>2, <2>3, <2>4 DEF WorkerThread
<1>9. ASSUME NEW w \in Worker, Reused(w)
      PROVE  LinkInv'
  BY <1>9 DEF Reused, FrameReused, TypeOK
<1>10. CASE UNCHANGED vars
  BY <1>10 DEF vars
<1> QED
  BY <1>1, <1>2, <1>3, <1>4, <1>5, <1>6, <1>7, <1>8, <1>9, <1>10
     DEF Next, Manager

\* What each step does to the AIGs in hand: PopJob gives one to a worker that
\* had none, Solved takes it away, and nothing else moves one.
LEMMA PopInHand ==
  ASSUME IInv, PopJob
  PROVE  /\ InHand[scan] = {}
         /\ InHand' = [InHand EXCEPT ![scan] = {top}]
         /\ top \in Gias
<1> USE PoolConstants, GiasOK, RecordOK DEF IInv
<1>1. top \in Gias /\ scan \in Worker /\ mpc = "scan"
  BY DEF PopJob, TypeOK, LinkInv, Gias
<1>2. fWorking[scan] = 0 /\ wpc[scan] # "run"
  BY <1>1, RunsAig DEF PopJob
<1>3. InHand[scan] = {}
  BY <1>1, <1>2 DEF InHand
<1>4. ASSUME NEW w \in Worker
      PROVE  InHand'[w] = IF w = scan THEN {top} ELSE InHand[w]
  <2>1. CASE w = scan
    BY <1>1, <2>1 DEF InHand, PopJob, worker, TypeOK
  <2>2. CASE w # scan
    BY <1>1, <2>2 DEF InHand, PopJob, worker, TypeOK
  <2> QED
    BY <2>1, <2>2
<1> QED
  BY <1>1, <1>3, <1>4 DEF InHand

\* The worker whose procedure ends gives its AIG back.
LEMMA SolvedInHand ==
  ASSUME IInv, NEW w \in Worker, Solved(w), UNCHANGED <<mpc, scan, top>>
  PROVE  /\ InHand[w] = {cur[w]}
         /\ InHand' = [InHand EXCEPT ![w] = {}]
         /\ cur[w] \in Gias
<1>1. /\ fWorking[w] = 1 /\ wpc[w] = "run" /\ cur[w] \in Gias
      /\ mpc = "raise" => w # scan
  BY RunsAig DEF Solved, IInv, LinkInv, Idle
<1>2. InHand[w] = {cur[w]}
  BY <1>1 DEF InHand
<1>3. ASSUME NEW v \in Worker
      PROVE  InHand'[v] = IF v = w THEN {} ELSE InHand[v]
  <2>1. CASE v = w
    BY <1>1, <2>1 DEF InHand, Solved, record, IInv, TypeOK
  <2>2. CASE v # w
    BY <1>1, <2>2 DEF InHand, Solved, record, IInv, TypeOK
  <2> QED
    BY <2>1, <2>2
<1> QED
  BY <1>1, <1>2, <1>3 DEF InHand

\* The procedure ends on the AIG of one worker.
Sweeps(w) == /\ Solved(w)
             /\ swept' = [swept EXCEPT ![cur[w]] = @ + 1]
             /\ UNCHANGED <<mpc, scan, top>>

\* The steps that move an AIG.
Moves == PopJob \/ \E w \in Worker : Sweeps(w)

\* The AIGs in hand are those of each worker.
LEMMA SameInHand ==
  ASSUME \A w \in Worker : InHand'[w] = InHand[w]
  PROVE  InHand' = InHand
  BY DEF InHand

\* No other step moves one: the record changes hands, the AIG does not.
LEMMA OthersInHand ==
  ASSUME IInv, [Next]_vars, ~Moves
  PROVE  InHand' = InHand /\ UNCHANGED <<top, swept>>
<1> USE PoolConstants, GiasOK, RecordOK
    DEF IInv, LinkInv, Idle, Busy, Told, worker, record, InHand
<1>t. TypeOK
  OBVIOUS
<1>1. CASE StartThreads
  BY <1>1 DEF StartThreads, CreateWorker, Worker, TypeOK
<1>2. CASE WhileJobs
  BY <1>2 DEF WhileJobs
<1>3. CASE SkipBusy
  BY <1>3 DEF SkipBusy
<1>5. CASE StartJob
  <2>1. \A w \in Worker : InHand'[w] = InHand[w]
    BY <1>5 DEF StartJob, RaiseFlag, TypeOK
  <2> QED
    BY <1>5, <2>1 DEF StartJob
<1>6. CASE WaitAll
  BY <1>6 DEF WaitAll, WaitScan
<1>7. CASE StopThreads
  <2>1. \A w \in Worker : InHand'[w] = InHand[w]
    BY <1>7 DEF StopThreads, StopStore, StopRaise, RaiseFlag, TypeOK
  <2> QED
    BY <1>7, <2>1 DEF StopThreads
<1>8. ASSUME NEW w \in Worker, WorkerThread(w)
      PROVE  InHand' = InHand /\ UNCHANGED <<top, swept>>
  <2>1. CASE Wake(w) /\ UNCHANGED <<mpc, scan, top, swept>>
    <3>1. \A v \in Worker : InHand'[v] = InHand[v]
      BY <2>1 DEF Wake, TypeOK
    <3> QED
      BY <2>1, <3>1
  <2>2. CASE ReadJob(w) /\ UNCHANGED <<mpc, scan, top, swept>>
    <3>1. \A v \in Worker : v # w => InHand'[v] = InHand[v]
      BY <2>2 DEF ReadJob, TypeOK
    <3>2. wpc[w] = "read" /\ ~(mpc = "raise" /\ w = scan)
      BY <2>2 DEF ReadJob
    <3>3. CASE job[w] \in Gias
      <4>1. wpc'[w] = "run" /\ cur'[w] = job[w]
        BY <2>2, <3>3 DEF ReadJob, TypeOK
      <4>2. mpc # "returned" /\ fWorking[w] = 1
        BY <3>2, <3>3 DEF TypeOK, MgrPcs
      <4>3. InHand[w] = {job[w]} \ {NoJob} /\ job[w] # NoJob
        BY <3>2, <3>3, <4>2 DEF Gias
      <4>4. InHand'[w] = {cur'[w]}
        BY <2>2, <4>1 DEF ReadJob
      <4>5. InHand'[w] = InHand[w]
        BY ONLY <4>1, <4>3, <4>4
      <4>6. \A v \in Worker : InHand'[v] = InHand[v]
        <5> HIDE DEF InHand
        <5> QED
          BY <3>1, <4>5
      <4> QED
        BY <2>2, <4>6, SameInHand
    <3>4. CASE job[w] \notin Gias
      <4>1. wpc'[w] \in {"exit", "lost"}
        BY <2>2, <3>4 DEF ReadJob, TypeOK
      <4>2. mpc = "returned" \/ job[w] = NoJob
        BY <3>2, <3>4 DEF TypeOK, MgrPcs
      <4>3. InHand[w] = {}
        BY <3>2, <4>2
      <4>4. ~(mpc' = "raise" /\ w = scan')
        BY <2>2, <3>2
      <4>5. InHand'[w] = InHand[w]
        BY <4>1, <4>3, <4>4
      <4>6. \A v \in Worker : InHand'[v] = InHand[v]
        <5> HIDE DEF InHand
        <5> QED
          BY <3>1, <4>5
      <4> QED
        BY <2>2, <4>6, SameInHand
    <3> QED
      BY <3>3, <3>4
  <2>3. CASE ClearFlag(w) /\ UNCHANGED <<mpc, scan, top, swept>>
    <3>1. \A v \in Worker : InHand'[v] = InHand[v]
      BY <2>3 DEF ClearFlag, TypeOK
    <3> QED
      BY <2>3, <3>1
  <2> QED
    BY <1>8, <2>1, <2>2, <2>3 DEF WorkerThread, Moves, Sweeps
<1>9. ASSUME NEW w \in Worker, Reused(w)
      PROVE  InHand' = InHand /\ UNCHANGED <<top, swept>>
  <2>1. \A v \in Worker : InHand'[v] = InHand[v]
    BY <1>9 DEF Reused, FrameReused, TypeOK
  <2> QED
    BY <1>9, <2>1 DEF Reused
<1>10. CASE UNCHANGED vars
  BY <1>10 DEF vars
<1> QED
  BY <1>1, <1>2, <1>3, <1>5, <1>6, <1>7, <1>8, <1>9, <1>10
     DEF Next, Manager, Moves

\* The account of the AIGs.
LEMMA NextAccountInv == IInv /\ [Next]_vars => AccountInv'
<1> SUFFICES ASSUME IInv, [Next]_vars PROVE AccountInv'
  OBVIOUS
<1> USE PoolConstants, GiasOK, RecordOK
<1>1. CASE PopJob
  <2>1. /\ InHand' = [InHand EXCEPT ![scan] = {top}] /\ InHand[scan] = {}
        /\ top \in Gias /\ scan \in Worker
        /\ top' = top - 1 /\ swept' = swept
    BY <1>1, PopInHand DEF PopJob, IInv, TypeOK
  <2>2. InHand \in [Worker -> {InHand[w] : w \in Worker}]
    BY DEF InHand
  <2>3. InHand'[scan] = {top} /\ \A w \in Worker : w # scan => InHand'[w] = InHand[w]
    BY <2>1, <2>2
  <2>4. \A g \in Gias : g > top' /\ g # top => g > top
    BY <2>1 DEF IInv, TypeOK, Gias
  <2>5. \A g \in Gias : g <= top' => g <= top
    BY <2>1 DEF IInv, TypeOK, Gias
  <2>6. top > top' /\ swept[top] = 0
    BY <2>1 DEF AccountInv, IInv, TypeOK, Gias
  <2>7. AccountInv
    BY DEF IInv
  <2>8. \A g \in Gias : g <= top' => swept'[g] = 0
    BY <2>1, <2>5, <2>7 DEF AccountInv
  <2>9. \A w \in Worker : \A g \in InHand'[w] :
          g \in Gias /\ g > top' /\ swept'[g] = 0
    <3>1. \A g \in Gias : g > top => g > top'
      BY <2>1 DEF IInv, TypeOK, Gias
    <3> QED
      BY <2>1, <2>3, <2>6, <2>7, <3>1 DEF AccountInv
  <2>10. \A v, w \in Worker : \A g \in InHand'[v] : g \in InHand'[w] => v = w
    <3>1. \A w \in Worker : top \notin InHand[w]
      <4>1. ~(top > top)
        BY <2>1 DEF Gias
      <4> QED
        BY <2>7, <4>1 DEF AccountInv
    <3> QED
      BY <2>1, <2>3, <2>7, <3>1 DEF AccountInv
  <2>11. \A g \in Gias : g > top' =>
           swept'[g] = 1 \/ \E w \in Worker : g \in InHand'[w]
    BY <2>1, <2>3, <2>4, <2>7 DEF AccountInv
  <2> QED
    BY <2>8, <2>9, <2>10, <2>11 DEF AccountInv
<1>2. ASSUME NEW w \in Worker, Sweeps(w)
      PROVE  AccountInv'
  <2>1. /\ InHand' = [InHand EXCEPT ![w] = {}] /\ InHand[w] = {cur[w]}
        /\ cur[w] \in Gias
        /\ top' = top /\ swept' = [swept EXCEPT ![cur[w]] = @ + 1]
    BY <1>2, SolvedInHand DEF Sweeps
  <2>2. InHand \in [Worker -> {InHand[v] : v \in Worker}]
    BY DEF InHand
  <2>3. InHand'[w] = {} /\ \A v \in Worker : v # w => InHand'[v] = InHand[v]
    BY <2>1, <2>2
  <2>4. /\ swept'[cur[w]] = 1 /\ cur[w] > top
        /\ \A g \in Gias : g # cur[w] => swept'[g] = swept[g]
    BY <2>1 DEF AccountInv, IInv, TypeOK
  <2>5. \A v \in Worker : \A g \in InHand'[v] : g # cur[w] /\ g \in InHand[v]
    BY <2>1, <2>3 DEF AccountInv, IInv
  <2>6. \A g \in Gias : g <= top => swept'[g] = 0
    BY <2>4 DEF AccountInv, IInv, TypeOK, Gias
  <2>7. \A v \in Worker : \A g \in InHand'[v] : g \in Gias /\ g > top /\ swept'[g] = 0
    BY <2>4, <2>5 DEF AccountInv, IInv
  <2>8. \A g \in Gias : g > top => swept'[g] = 1 \/ \E v \in Worker : g \in InHand'[v]
    <3> SUFFICES ASSUME NEW g \in Gias, g > top, g # cur[w], swept[g] # 1
                 PROVE  \E v \in Worker : g \in InHand'[v]
      BY <2>4
    <3>1. PICK v \in Worker : g \in InHand[v]
      BY DEF AccountInv, IInv
    <3> QED
      BY <2>1, <2>3, <3>1
  <2> QED
    BY <2>1, <2>5, <2>6, <2>7, <2>8 DEF AccountInv, IInv
<1>3. CASE ~Moves
  BY <1>3, OthersInHand, AccountSame DEF IInv
<1> QED
  BY <1>1, <1>2, <1>3 DEF Moves

\* The invariant is inductive.
LEMMA Inductive == Spec => []IInv
<1>1. Init => IInv
  BY InitIInv
<1>2. IInv /\ [Next]_vars => IInv'
  BY NextTypeOK, NextLinkInv, NextAccountInv DEF IInv
<1> QED
  BY <1>1, <1>2, PTL DEF Spec

-----------------------------------------------------------------------------
\* The variables keep their types: the stack is never read beyond its end, for
\* one (Vec_PtrPop on an empty stack).
THEOREM TypeCorrect == Spec => []TypeOK
<1>1. IInv => TypeOK
  BY DEF IInv
<1> QED
  BY <1>1, Inductive, PTL

\* Until the manager returns no worker reads a record that was not filled in,
\* and the assertion of the worker holds.
THEOREM PoolIsSafe == Spec => []SafeWhileManaged
<1>1. IInv => SafeWhileManaged
  BY DEF IInv, SafeWhileManaged, LinkInv, TypeOK, MgrPcs, Idle, Busy, Told
<1> QED
  BY <1>1, Inductive, PTL

\* The manager's assertion in the loop that stops the threads holds.
THEOREM StopAssertHolds == Spec => []StopAssert
<1>1. IInv => StopAssert
  <2> SUFFICES ASSUME IInv, mpc \in {"stop", "stopraise"},
                      NEW w \in Worker, w >= scan
               PROVE  fWorking[w] = 0 /\ wpc[w] = "spin"
    BY DEF StopAssert
  <2>1. ~(w < scan)
    BY PoolConstants DEF IInv, TypeOK, Worker
  <2> QED
    BY <2>1 DEF IInv, LinkInv, Idle
<1> QED
  BY <1>1, Inductive, PTL

\* When the manager has returned, each AIG went through the procedure once.
THEOREM EveryAigSwept == Spec => []AllSwept
<1>1. IInv => AllSwept
  <2> SUFFICES ASSUME IInv, mpc = "returned", NEW g \in Gias
               PROVE  swept[g] = 1
    BY DEF AllSwept
  <2>1. g > top
    BY GiasOK DEF IInv, LinkInv, Gias
  <2>2. \A w \in Worker : InHand[w] = {}
    BY DEF IInv, LinkInv, InHand
  <2> QED
    BY <2>1, <2>2 DEF IInv, AccountInv
<1> QED
  BY <1>1, Inductive, PTL

-----------------------------------------------------------------------------
(* The pool implements JobPool. *)

\* The call returns from the last step of the loop that stops the threads,
\* and has nothing to do after it.
LEMMA HowItReturns ==
  ASSUME TypeOK, [Next]_vars
  PROVE  /\ mpc = "returned" => mpc' = "returned"
         /\ mpc' = "returned" => mpc \in {"returned", "stopraise"}
<1> USE DEF worker, record
<1>1. CASE Manager
  BY <1>1 DEF Manager, StartThreads, CreateWorker, WhileJobs, SkipBusy, PopJob,
     StartJob, RaiseFlag, WaitAll, WaitScan, StopThreads, StopStore, StopRaise
<1>2. ASSUME NEW w \in Worker, WorkerThread(w) \/ Reused(w)
      PROVE  mpc' = mpc
  BY <1>2 DEF WorkerThread, Reused, FrameReused
<1>3. CASE UNCHANGED vars
  BY <1>3 DEF vars
<1> QED
  BY <1>1, <1>2, <1>3 DEF Next

\* By then every AIG has been swept.
LEMMA SweptBeforeReturn ==
  ASSUME IInv, mpc = "stopraise"
  PROVE  {g \in Gias : swept[g] > 0} = Gias
<1>1. \A w \in Worker : InHand[w] = {}
  BY DEF IInv, LinkInv, Idle, Told, InHand
<1>2. \A g \in Gias : g > top
  BY DEF IInv, LinkInv, Gias
<1> QED
  BY <1>1, <1>2 DEF IInv, AccountInv

\* PopJob takes a job, the end of the procedure completes it, the last flag
\* that is raised is the return, and every other step is invisible.
LEMMA StepImplements ==
  ASSUME IInv, [Next]_vars
  PROVE  [Pool!JNext]_(Pool!jvars)
<1> USE PoolConstants, GiasOK, RecordOK
<1>1. CASE PopJob
  <2>1. /\ InHand' = [InHand EXCEPT ![scan] = {top}] /\ InHand[scan] = {}
        /\ top \in Gias /\ scan \in Worker
        /\ top' = top - 1 /\ swept' = swept
        /\ mpc = "scan" /\ mpc' = "raise"
    BY <1>1, PopInHand DEF PopJob, IInv, TypeOK
  <2>2. 1..top' = (1..top) \ {top} /\ top \in 1..top
    BY <2>1 DEF Gias
  <2>3. Pool!Take(scan, top)
    BY <2>1, <2>2 DEF Pool!Take
  <2> QED
    BY <2>1, <2>3 DEF Pool!JNext
<1>2. ASSUME NEW w \in Worker, Sweeps(w)
      PROVE  Pool!JNext
  <2>1. /\ InHand' = [InHand EXCEPT ![w] = {}] /\ InHand[w] = {cur[w]}
        /\ cur[w] \in Gias /\ top' = top /\ mpc' = mpc
        /\ swept' = [swept EXCEPT ![cur[w]] = @ + 1]
    BY <1>2, SolvedInHand DEF Sweeps
  <2>2. {g \in Gias : swept'[g] > 0}
          = {g \in Gias : swept[g] > 0} \union {cur[w]}
    BY <2>1 DEF IInv, TypeOK
  <2>3. PICK g \in Gias : g = cur[w]
    BY <2>1
  <2>4. Pool!Complete(w, g)
    BY <2>1, <2>2, <2>3 DEF Pool!Complete
  <2> QED
    BY <2>4 DEF Pool!JNext
<1>3. CASE ~Moves
  <2>1. InHand' = InHand /\ UNCHANGED <<top, swept>>
    BY <1>3, OthersInHand
  <2>2. CASE mpc' = "returned" /\ mpc # "returned"
    <3>1. {g \in Gias : swept[g] > 0} = Gias
      BY <2>2, HowItReturns, SweptBeforeReturn DEF IInv
    <3>2. Pool!Return
      BY <2>1, <2>2, <3>1 DEF Pool!Return
    <3> QED
      BY <3>2 DEF Pool!JNext
  <2>3. CASE ~(mpc' = "returned" /\ mpc # "returned")
    <3>1. (mpc' = "returned") = (mpc = "returned")
      BY <2>3, HowItReturns DEF IInv
    <3> QED
      BY <2>1, <3>1 DEF Pool!jvars
  <2> QED
    BY <2>2, <2>3
<1> QED
  BY <1>1, <1>2, <1>3 DEF Moves

\* The stack, the records and the flags together keep the promise of a pool:
\* each AIG goes to one worker, and the call returns when all are done.
THEOREM ScorrImplementsJobPool == Spec => IsJobPool
<1>1. Init => Pool!JInit
  <2> SUFFICES ASSUME Init PROVE Pool!JInit
    OBVIOUS
  <2>1. InHand = [w \in Worker |-> {}]
    BY DEF Init, PoolInit, InHand
  <2>2. {g \in Gias : swept[g] > 0} = {}
    BY DEF Init
  <2> QED
    BY <2>1, <2>2 DEF Init, PoolInit, Pool!JInit, Gias
<1>2. IInv /\ [Next]_vars => [Pool!JNext]_(Pool!jvars)
  BY StepImplements
<1> QED
  BY <1>1, <1>2, Inductive, PTL DEF Spec, IsJobPool, Pool!JSpec
=============================================================================
