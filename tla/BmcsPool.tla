------------------------------- MODULE BmcsPool -------------------------------
(***************************************************************************)
(* Bmcs_ManPerformMulti and Bmcs_ManPerform_Solve (sat/bmc/bmcBmcS.c):     *)
(* bounded model checking with several differently tuned SAT solvers.      *)
(* Every solver gets the same output of the same frame; the first that is  *)
(* through sets the stop flag all of them look at, and its answer counts.  *)
(***************************************************************************)
EXTENDS WorkerPool

CONSTANTS
  nFramesMax,    \* the bound on the frames (0 in the code is no bound)
  nFramesAdd,    \* how many frames are unfolded at a time
  nPos,          \* the outputs of the design
  TimeOuts,      \* subset of BOOLEAN: whether nTimeOut may pass
  ConfLimits     \* subset of BOOLEAN: whether nConfLimit may be reached

Frames   == 0..(nFramesMax - 1)
Problems == Frames \X (1..nPos)
TRUEST   == 1      \* l_True
FALSEST  == 0      \* l_False
UNDEF    == -1

VARIABLES
  fails,       \* the outputs that can be asserted, with their frames
  timed,       \* nTimeOut is set
  limited,     \* nConfLimit is set
  f, k, i,     \* the loop variables: batch of frames, frame in it, output
  fStopNow,
  status,      \* ThData[i].status
  model,       \* the problem each solver last found an assignment for
  loaded,      \* the number of batches in each solver's CNF
  answer,      \* what Bmcs_ManPerform_Solve returns
  Solver,
  RetValue,
  cex          \* the problem the counter-example was made for

loop == <<f, k, i>>
own  == <<loop, fStopNow, status, model, loaded, answer, Solver, RetValue, cex>>
vars == <<wpc, cur, fWorking, job, mpc, scan, fails, timed, limited, own>>
fixed == <<fails, timed, limited>>

NoProblem == <<>>

\* Mutant: the frame within the batch is forgotten.
ProblemOfBatch == <<f, i>>

Problem == <<f + k, i>>

Init ==
  /\ PoolInit(Garbage)       \* iLit = -1
  /\ fails \in SUBSET Problems
  /\ timed \in TimeOuts
  /\ limited \in ConfLimits
  /\ f = 0 /\ k = 0 /\ i = 1
  /\ fStopNow = FALSE
  /\ status = [w \in Worker |-> UNDEF]
  /\ model = [w \in Worker |-> NoProblem]
  /\ loaded = [w \in Worker |-> 0]
  /\ answer = UNDEF
  /\ Solver = 1
  /\ RetValue = UNDEF
  /\ cex = NoProblem

StartThreads == CreateWorker("frame") /\ UNCHANGED <<fixed, own>>

\* "for ( f = 0; f < nFramesMax; f += nFramesAdd )": the CNF of the batch is
\* added to every solver, from the manager's thread.
LoadBatch ==
  /\ mpc = "frame"
  /\ f < nFramesMax
  /\ loaded' = [w \in Worker |-> loaded[w] + 1]
  /\ k' = 0 /\ i' = 1
  /\ mpc' = "output"
  /\ UNCHANGED <<worker, record, scan, fixed, f, fStopNow, status, model, answer,
                 Solver, RetValue, cex>>

\* A batch whose outputs are all constant 0 has no CNF.
TrivialBatch ==
  /\ mpc = "frame"
  /\ f < nFramesMax
  /\ \A p \in fails : p[1] \notin f..(f + nFramesAdd - 1)
  /\ f' = f + nFramesAdd
  /\ UNCHANGED <<worker, record, mpc, scan, fixed, k, i, fStopNow, status, model,
                 loaded, answer, Solver, RetValue, cex>>

AllFrames ==
  /\ mpc = "frame"
  /\ f >= nFramesMax
  /\ mpc' = "stop"
  /\ scan' = 1
  /\ UNCHANGED <<worker, record, fixed, own>>

TimeOut ==
  /\ mpc = "output"
  /\ timed
  /\ mpc' = "stop"
  /\ scan' = 1
  /\ UNCHANGED <<worker, record, fixed, own>>

\* "set new problem"
SetProblem ==
  /\ mpc = "output"
  /\ job' = [w \in Worker |-> Problem]
  /\ mpc' = "raise"
  /\ scan' = 1
  /\ UNCHANGED <<worker, fWorking, fixed, own>>

StartSolvers ==
  /\ RaiseFlag("raise", IF scan < nProcs THEN "raise" ELSE "poll")
  /\ scan' = IF scan < nProcs THEN scan + 1 ELSE 1
  /\ UNCHANGED <<fixed, own>>

\* "check if any of the solvers finished"
PollBusy ==
  /\ mpc = "poll"
  /\ fWorking[scan] = 1
  /\ scan' = IF scan < nProcs THEN scan + 1 ELSE 1
  /\ UNCHANGED <<worker, record, mpc, fixed, own>>

PollFinished ==
  /\ mpc = "poll"
  /\ fWorking[scan] = 0
  /\ fStopNow' = TRUE
  /\ answer' = status[scan]
  /\ Solver' = scan
  /\ mpc' = "others"
  /\ scan' = 1
  /\ UNCHANGED <<worker, record, fixed, loop, status, model, loaded, RetValue, cex>>

\* Mutant: the other solvers are not waited for.
AwaitNobody ==
  /\ mpc = "others"
  /\ scan' = 1
  /\ job' = [w \in Worker |-> Garbage]
  /\ fStopNow' = FALSE
  /\ mpc' = "result"
  /\ UNCHANGED <<worker, fWorking, fixed, loop, status, model, loaded, answer,
                 Solver, RetValue, cex>>

\* Mutant: the stop request is not taken back.
AwaitAndForget ==
  /\ mpc = "others"
  /\ \A w \in Worker : fWorking[w] = 0
  /\ scan' = 1
  /\ job' = [w \in Worker |-> Garbage]
  /\ mpc' = "result"
  /\ UNCHANGED <<worker, fWorking, fixed, loop, fStopNow, status, model, loaded,
                 answer, Solver, RetValue, cex>>

\* "wait till threads finish", then the stop request is taken back.
AwaitOthers ==
  /\ mpc = "others"
  /\ \/ /\ fWorking[scan] = 1
        /\ scan' = 1
        /\ UNCHANGED <<mpc, fStopNow, job>>
     \/ /\ fWorking[scan] = 0
        /\ IF scan < nProcs
             THEN scan' = scan + 1 /\ UNCHANGED <<mpc, fStopNow, job>>
             ELSE /\ scan' = 1
                  /\ job' = [w \in Worker |-> Garbage]
                  /\ fStopNow' = FALSE
                  /\ mpc' = "result"
  /\ UNCHANGED <<worker, fWorking, fixed, loop, status, model, loaded, answer,
                 Solver, RetValue, cex>>

\* Unsatisfiable: the next output, the next frame of the batch, or the next
\* batch.
ResultUnsat ==
  /\ mpc = "result"
  /\ answer = FALSEST
  /\ IF i < nPos
       THEN i' = i + 1 /\ mpc' = "output" /\ UNCHANGED <<f, k>>
       ELSE IF f + k = nFramesMax - 1
              THEN mpc' = "stop" /\ UNCHANGED loop
              ELSE IF k < nFramesAdd - 1
                     THEN k' = k + 1 /\ i' = 1 /\ mpc' = "output" /\ UNCHANGED f
                     ELSE f' = f + nFramesAdd /\ k' = nFramesAdd /\ mpc' = "frame" /\ UNCHANGED i
  /\ scan' = 1
  /\ UNCHANGED <<worker, record, fixed, fStopNow, status, model, loaded, answer,
                 Solver, RetValue, cex>>

\* Satisfiable: the counter-example is read from the solver that was first.
ResultSat ==
  /\ mpc = "result"
  /\ answer = TRUEST
  /\ RetValue' = 0
  /\ cex' = Problem
  /\ mpc' = "stop"
  /\ scan' = 1
  /\ UNCHANGED <<worker, record, fixed, loop, fStopNow, status, model, loaded,
                 answer, Solver>>

ResultUndef ==
  /\ mpc = "result"
  /\ answer = UNDEF
  /\ mpc' = "stop"
  /\ scan' = 1
  /\ UNCHANGED <<worker, record, fixed, own>>

StopThreads == (StopStore \/ StopRaise) /\ UNCHANGED <<fixed, own>>

Manager ==
  \/ StartThreads \/ LoadBatch \/ TrivialBatch \/ AllFrames \/ TimeOut
  \/ SetProblem \/ StartSolvers \/ PollBusy \/ PollFinished \/ AwaitOthers
  \/ ResultUnsat \/ ResultSat \/ ResultUndef \/ StopThreads

\* Bmcs_ManWorkerThread: the solver answers, reaches its limit, or sees the stop
\* flag.
WorkerThread(w) ==
  \/ /\ Wake(w) \/ ReadJob(w) \/ ClearFlag(w)
     /\ UNCHANGED <<mpc, scan, fixed, own>>
  \/ /\ Solved(w)
     /\ \/ /\ status' = [status EXCEPT ![w] = IF cur[w] \in fails THEN TRUEST ELSE FALSEST]
           /\ model' = [model EXCEPT ![w] = IF cur[w] \in fails THEN cur[w] ELSE @]
        \/ /\ fStopNow \/ limited
           /\ status' = [status EXCEPT ![w] = UNDEF]
           /\ UNCHANGED model
     /\ UNCHANGED <<mpc, scan, fixed, loop, fStopNow, loaded, answer, Solver,
                    RetValue, cex>>

Reused(w) == FrameReused(w) /\ UNCHANGED <<fixed, own>>

Next == Manager \/ \E w \in Worker : WorkerThread(w) \/ Reused(w)

-----------------------------------------------------------------------------
Before(p, q) == p[1] < q[1] \/ (p[1] = q[1] /\ p[2] < q[2])

\* The failure that is reported is the first one there is, and without limits
\* no failure is ever missed: a cancelled solver's answer is never the one that
\* counts.
FirstFailure ==
  mpc = "returned" =>
    CASE RetValue = 0 -> /\ cex \in fails
                         /\ \A p \in fails : ~Before(p, cex)
      [] OTHER        -> timed \/ limited \/ fails = {}

\* The counter-example is read while the solver it comes from still holds the
\* assignment for this very problem.
CexFromSolver ==
  mpc = "result" /\ answer = TRUEST => model[Solver] = Problem /\ wpc[Solver] = "spin"

\* The manager touches the solvers only while no worker is inside one.
SolversQuiet ==
  mpc \in {"frame", "output", "result"} =>
    \A w \in Worker : fWorking[w] = 0 /\ wpc[w] = "spin"

\* A stop request never reaches the next problem.
StopRequestOver ==
  \A w \in Worker : wpc[w] = "run" /\ fStopNow => mpc = "others" /\ cur[w] = Problem
=============================================================================
