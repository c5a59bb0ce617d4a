-------------------------- MODULE ParallelCommands ---------------------------
(***************************************************************************)
(* The commands of ABC that put the results of threads together: those     *)
(* whose manager gives jobs to a WorkerPool (the autotuner, stochastic     *)
(* synthesis, the solver portfolio, multi-solver bounded model checking    *)
(* and miter splitting), gate-level abstraction with its prover threads,   *)
(* and the stand-alone starter.  A session runs one of them; the variables *)
(* of the others stay as they are.                                         *)
(***************************************************************************)
EXTENDS Integers, FiniteSetsExt

CONSTANTS
  nProcs, NoJob, Garbage,                             \* of WorkerPool
  nAigs, Cost,                                        \* of TunerPool
  nGias, Rands,                                       \* of StochPool
  nSolvers,                                           \* nProcs of the two below
  nFramesMax, nFramesAdd, nPos, TimeOuts, ConfLimits, \* of BmcsPool
  Vars, IterLimits,                                   \* of CecSplitTest
  NOutputs, nGlaFrames, NRestarts,                    \* of Gla (nFramesMax)
  nFramesNoChangeLim, Skips,
  NLines, CoreRequests, MinCores, MAX_COMM_NUM        \* of StarterProgram

ASSUME CommandConstants ==
  /\ nProcs \in Nat \ {0} /\ nSolvers \in 1..nProcs
  /\ nAigs \in Nat /\ nGias \in Nat
  /\ Cost \in [1..nAigs -> Nat]
  /\ Cardinality(Rands) >= nProcs
  /\ IterLimits \subseteq Nat

\* Neither what ends a worker nor what a lost record holds is a job: the number
\* of an AIG or a problem, a frame with an output, or a cofactor.
ASSUME JobConstants ==
  LET Partial == UNION {[D -> {0, 1}] : D \in SUBSET Vars}
  IN  /\ NoJob # Garbage
      /\ \A x \in {NoJob, Garbage} :
           /\ x \notin Nat /\ x \notin Nat \X Nat
           /\ x \notin [values : Partial, vCofVars : Partial]

ASSUME BmcsConstants ==
  /\ nFramesMax \in Nat \ {0} /\ nFramesAdd \in Nat \ {0} /\ nPos \in Nat \ {0}
  /\ TimeOuts \subseteq BOOLEAN /\ ConfLimits \subseteq BOOLEAN

ASSUME GlaConstants ==
  /\ NOutputs \in Nat \ {0} /\ nGlaFrames \in Nat \ {0} /\ NRestarts \in Nat
  /\ nFramesNoChangeLim \in Nat \ {0}
  /\ Skips \subseteq BOOLEAN

ASSUME StarterConstants ==
  /\ NLines \in Nat /\ MAX_COMM_NUM \in Nat \ {0}
  /\ CoreRequests \subseteq Int /\ MinCores \in Int

VARIABLES
  command,                                    \* the command that runs
  wpc, cur, fWorking, job, mpc, scan,         \* of WorkerPool; mpc of Gla too
  Result, fWorkToDo,                          \* of TunerPool and CecSplitTest
  k,                                          \* of StochPool, CnfPool and BmcsPool
  RetValue,                                   \* of BmcsPool, CecSplitTest and Gla
  f, status,                                  \* of BmcsPool and Gla
  pc,                                         \* of CecSplitTest and StarterProgram
  top, TotalCost,                             \* of TunerPool
  Rand, file, sub, vGias,                     \* of StochPool
  vRes, vResOut, solved, freed, runs,         \* of CnfPool
  fails, timed, limited, i, fStopNow,         \* of BmcsPool
  model, loaded, answer, Solver, cex,
  engine, Sat, nIterMax, vStack, pPart,       \* of CecSplitTest
  pCnf, nIter, pCex, pCexComb,
  failsAt, fUseSkip, o, refined, restarts,    \* of Gla
  iFrameTryToProve, iFrameProved, nFramesNoChange, pCexSeq, frames,
  g_nRunIds, g_fAbstractionProved, prover, proves,
  kind, named, nCores, line, Counter, mutex,  \* of StarterProgram
  nThreadsRunning, tmp, thr

Pool  == INSTANCE WorkerPool
Tuner == INSTANCE TunerPool
Stoch == INSTANCE StochPool
Cnf   == INSTANCE CnfPool
Bmcs  == INSTANCE BmcsPool     WITH nProcs <- nSolvers
Cec   == INSTANCE CecSplitTest WITH nProcs <- nSolvers
Gla   == INSTANCE Gla          WITH nFramesMax <- nGlaFrames
Prog  == INSTANCE StarterProgram

pool   == <<wpc, cur, fWorking, job, scan>>
work   == <<Result, fWorkToDo>>
shared == <<mpc, k, RetValue, f, status, pc>>
tuner  == <<top, TotalCost>>
stoch  == <<Rand, file, sub, vGias>>
cnf    == <<vRes, vResOut, solved, freed, runs>>
bmcs   == <<fails, timed, limited, i, fStopNow, model, loaded, answer, Solver, cex>>
cec    == <<engine, Sat, nIterMax, vStack, pPart, pCnf, nIter, pCex, pCexComb>>
gla    == <<failsAt, fUseSkip, o, refined, restarts, iFrameTryToProve, iFrameProved,
            nFramesNoChange, pCexSeq, frames, g_nRunIds, g_fAbstractionProved, prover,
            proves>>
prog   == <<kind, named, nCores, line, Counter, mutex, nThreadsRunning, tmp, thr>>
vars   == <<command, pool, work, shared, tuner, stoch, cnf, bmcs, cec, gla, prog>>

\* The variables of the commands that do not run
None     == <<>>
NoPool   == wpc = None /\ cur = None /\ fWorking = None /\ job = None /\ scan = None
NoWork   == Result = None /\ fWorkToDo = None
NoFrames == f = None /\ status = None
NoTuner  == top = None /\ TotalCost = None
NoStoch  == Rand = None /\ file = None /\ sub = None /\ vGias = None
NoCnf ==
  /\ vRes = None /\ vResOut = None /\ solved = None /\ freed = None
  /\ runs = None
NoBmcs ==
  /\ fails = None /\ timed = None /\ limited = None /\ i = None
  /\ fStopNow = None /\ model = None /\ loaded = None
  /\ answer = None /\ Solver = None /\ cex = None
NoCec ==
  /\ engine = None /\ Sat = None /\ nIterMax = None /\ vStack = None
  /\ pPart = None /\ pCnf = None /\ nIter = None /\ pCex = None /\ pCexComb = None
NoGla ==
  /\ failsAt = None /\ fUseSkip = None /\ o = None /\ refined = None
  /\ restarts = None /\ iFrameTryToProve = None /\ iFrameProved = None
  /\ nFramesNoChange = None /\ pCexSeq = None /\ frames = None
  /\ g_nRunIds = None /\ g_fAbstractionProved = None /\ prover = None
  /\ proves = None
NoProg ==
  /\ kind = None /\ named = None /\ nCores = None /\ line = None
  /\ Counter = None /\ mutex = None /\ nThreadsRunning = None /\ tmp = None
  /\ thr = None

Init ==
  \/ /\ command = "tuner" /\ Tuner!Init /\ k = None /\ RetValue = None /\ NoFrames
     /\ pc = None /\ NoStoch /\ NoCnf /\ NoBmcs /\ NoCec /\ NoGla /\ NoProg
  \/ /\ command = "stoch" /\ Stoch!Init /\ NoWork /\ RetValue = None /\ NoFrames
     /\ pc = None /\ NoTuner /\ NoCnf /\ NoBmcs /\ NoCec /\ NoGla /\ NoProg
  \/ /\ command = "cnf" /\ Cnf!Init /\ NoWork /\ RetValue = None /\ NoFrames
     /\ pc = None /\ NoTuner /\ NoStoch /\ NoBmcs /\ NoCec /\ NoGla /\ NoProg
  \/ /\ command = "bmcs" /\ Bmcs!Init /\ NoWork
     /\ pc = None /\ NoTuner /\ NoStoch /\ NoCnf /\ NoCec /\ NoGla /\ NoProg
  \/ /\ command = "cec" /\ Cec!TestInit /\ k = None /\ NoFrames
     /\ NoTuner /\ NoStoch /\ NoCnf /\ NoBmcs /\ NoGla /\ NoProg
  \/ /\ command = "gla" /\ Gla!Init /\ NoPool /\ NoWork /\ k = None /\ pc = None
     /\ NoTuner /\ NoStoch /\ NoCnf /\ NoBmcs /\ NoCec /\ NoProg
  \/ /\ command = "starter" /\ Prog!ProgramInit /\ NoPool /\ NoWork /\ NoFrames
     /\ mpc = None /\ k = None /\ RetValue = None
     /\ NoTuner /\ NoStoch /\ NoCnf /\ NoBmcs /\ NoCec /\ NoGla

\* Each command with what it leaves alone
OfTuner(A) ==
  /\ command = "tuner" /\ A
  /\ UNCHANGED <<k, RetValue, f, status, pc, stoch, cnf, bmcs, cec, gla, prog>>
OfStoch(A) ==
  /\ command = "stoch" /\ A
  /\ UNCHANGED <<work, RetValue, f, status, pc, tuner, cnf, bmcs, cec, gla, prog>>
OfCnf(A) ==
  /\ command = "cnf" /\ A
  /\ UNCHANGED <<work, RetValue, f, status, pc, tuner, stoch, bmcs, cec, gla, prog>>
OfBmcs(A) ==
  /\ command = "bmcs" /\ A
  /\ UNCHANGED <<work, pc, tuner, stoch, cnf, cec, gla, prog>>
OfCec(A) ==
  /\ command = "cec" /\ A
  /\ UNCHANGED <<k, f, status, tuner, stoch, cnf, bmcs, gla, prog>>
OfGla(A) ==
  /\ command = "gla" /\ A
  /\ UNCHANGED <<pool, work, k, pc, tuner, stoch, cnf, bmcs, cec, prog>>
OfProg(A) ==
  /\ command = "starter" /\ A
  /\ UNCHANGED <<pool, work, mpc, k, RetValue, f, status, tuner, stoch, cnf, bmcs,
                 cec, gla>>

Manager ==
  /\ \/ OfTuner(Tuner!Manager) \/ OfStoch(Stoch!Manager) \/ OfCnf(Cnf!Manager)
     \/ OfBmcs(Bmcs!Manager) \/ OfCec(Cec!TestManager) \/ OfGla(Gla!PerformGla)
     \/ OfProg(Prog!MainLoop)
  /\ UNCHANGED command

\* Any thread but the manager's and the provers
Threads == 1..Max({nProcs, NLines})

\* The steps that a thread takes if it is scheduled.
Thread(t) ==
  /\ \/ /\ t <= nProcs
        /\ \/ OfTuner(Tuner!WorkerThread(t)) \/ OfStoch(Stoch!WorkerThread(t))
           \/ OfCnf(Cnf!WorkerThread(t))
     \/ t <= nSolvers /\ (OfBmcs(Bmcs!WorkerThread(t)) \/ OfCec(Cec!ThreadedWorker(t)))
     \/ t <= NLines /\ OfProg(Prog!CommandThread(t))
  /\ UNCHANGED command

\* PDR need not answer.
PdrAnswers ==
  /\ OfGla(\E r \in Gla!RunIds : Gla!PdrAnswers(r))
  /\ UNCHANGED command

\* ... but each prover takes two of these steps at most.
Provers ==
  /\ OfGla(\E r \in Gla!RunIds : Gla!PdrStops(r) \/ Gla!TellProof(r))
  /\ UNCHANGED command

Reused(w) ==
  /\ w \in DOMAIN wpc
  /\ Pool!FrameReused(w)
  /\ UNCHANGED <<command, work, k, RetValue, f, status, pc, tuner, stoch, cnf, bmcs,
                 cec, gla, prog>>

Next == \/ Manager \/ PdrAnswers \/ Provers
        \/ \E t \in Threads : Thread(t) \/ Reused(t)

Spec == Init /\ [][Next]_vars

\* Every thread is scheduled; solvers and other processes end.  A prover that is
\* told to stop does.
FairSpec == /\ Spec
            /\ WF_vars(Manager) /\ WF_vars(Provers)
            /\ \A t \in Threads : WF_vars(Thread(t))

-----------------------------------------------------------------------------
\* The autotuner adds up every AIG's cost once, in whatever order the workers
\* finish: what is counted, in a record or still on the stack is always the sum,
\* "assert( ThData[i].Result >= 0 )" holds and the total is right.
TotalIsRight ==
  command = "tuner" => Tuner!CostsAddUp /\ Tuner!ResultAssert /\ Tuner!TotalIsRight

\* A worker of stochastic synthesis only reads back its own file, and a version
\* of every AIG is left in its own place.
InPlace == command = "stoch" => Stoch!OwnFile /\ Stoch!InPlace

\* The portfolio neither overwrites a solution nor frees the one it returns; it
\* tries every problem once, unless it has a solution, and returns one if there
\* is one.
PortfolioResult == command = "cnf" => Cnf!NoSolutionLost /\ Cnf!PortfolioResult

\* Bounded model checking reports the first failure there is, and without limits
\* no failure is ever missed: a cancelled solver's answer never counts.  The
\* counter-example is read while the solver it comes from still holds the
\* assignment for this very problem.
FirstFailure == command = "bmcs" => Bmcs!FirstFailure /\ Bmcs!CexFromSolver

\* The manager of the solvers touches them only while no worker is inside one.
SolversQuiet == command = "bmcs" => Bmcs!SolversQuiet

\* A stop request never reaches the next problem.
StopRequestOver == command = "bmcs" => Bmcs!StopRequestOver

\* Neither way of splitting loses an assignment, or looks at one twice: what can
\* make the miter 1 is on the stack or in the cofactors at hand.
NoCofactorLost == command = "cec" => Cec!NoCofactorLost

\* The verdict of the threads is right, however the answers come in; that of the
\* serial procedure comes with an assignment that makes the miter 1.
SplitVerdict == command = "cec" => Cec!ThreadsVerdict /\ Cec!SerialVerdict

\* A prover that was not told to stop is the last one, works on the output of
\* this call and is known to the frame loop; and a proof of the abstraction in use
\* is not forgotten, neither by the reset for a new prover nor by taking an older
\* proof.
OneProver == command = "gla" => Gla!OneProver /\ Gla!NoProofLost

\* An output that can fail is only taken for proved because a proof of an earlier
\* output came late.
OnlyLateProofs == command = "gla" => Gla!OnlyLateProofs

\* What is reported of the first output is true of the frames it names.
FramesRight == command = "gla" => Gla!FramesRight

\* The stand-alone starter ends only when all it started is over.
ReturnsWhenOver == command = "starter" => Prog!ReturnsWhenOver

\* Each command returns and stays so; "&gla" leaves no prover at work, and the
\* stand-alone starter needs enough CPUs for one command and itself.
Returns ==
  <>[](CASE command = "gla"     -> \A r \in Gla!RunIds : prover[r] # "solving"
         [] command = "starter" -> nCores >= 2 => pc = "return"
         [] OTHER               -> mpc = "returned" \/ (command = "cec" /\ Cec!Returned))
=============================================================================
