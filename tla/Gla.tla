--------------------------------- MODULE Gla ---------------------------------
(***************************************************************************)
(* Gate-level abstraction with a concurrent prover: the frame loop of      *)
(* Gia_ManPerformGla (proof/abs/absGla.c), the prover threads of           *)
(* proof/abs/absPth.c, and the loop of "&gla" over the outputs of a design *)
(* (base/abci/abc.c).                                                      *)
(*                                                                         *)
(* The loop unrolls the design frame by frame and refines the abstraction  *)
(* until no frame fails.  Once the abstraction is stable it is given to a  *)
(* thread that runs PDR on it, and unrolling goes on.  A proof holds for   *)
(* the design, because the abstraction has all its behaviours.  The two    *)
(* sides share a counter (a prover whose number is below it must stop) and *)
(* a flag (a prover has succeeded), each written under a mutex.            *)
(***************************************************************************)
EXTENDS Integers

CONSTANTS
  NOutputs,          \* the outputs of the design, treated one after another
  nFramesMax,        \* the bound on the frames
  NRestarts,         \* bound of the model on the restarts of all outputs
  nFramesNoChangeLim,
  Skips              \* subset of BOOLEAN: pPars->fUseSkip ("&gla -s")

Outputs == 1..NOutputs
Never   == nFramesMax            \* the failing frame of an output that holds
RunIds  == 1..(2 * nFramesMax * (NOutputs + NRestarts))

VARIABLES
  failsAt,      \* the first frame in which each output fails
  fUseSkip,
  mpc,          \* where Gia_ManPerformGla is
  o,            \* the output it works on
  f,            \* the frame
  refined,      \* c > 0: the abstraction was refined in this frame
  restarts,
  iFrameTryToProve,
  iFrameProved, nFramesNoChange,        \* in pPars, shared by the outputs
  RetValue,
  pCexSeq,      \* whether there is a counter-example
  status,       \* what each output's call returned
  frames,       \* pPars->iFrame when it returned
  g_nRunIds, g_fAbstractionProved,
  prover,       \* the prover threads, by RunId
  proves        \* the output whose abstraction each has

input   == <<failsAt, fUseSkip>>
params  == <<iFrameProved, nFramesNoChange>>
results == <<status, frames>>
threads == <<prover, proves>>
loop    == <<o, f, refined, restarts, iFrameTryToProve, RetValue, pCexSeq>>
vars    == <<input, mpc, loop, params, results, g_nRunIds, g_fAbstractionProved,
             threads>>

Init ==
  /\ failsAt \in [Outputs -> 0..Never]
  /\ fUseSkip \in Skips
  /\ mpc = "call"
  /\ o = 1 /\ f = 0 /\ refined = FALSE /\ restarts = 0
  /\ iFrameTryToProve = -1
  /\ iFrameProved = -1 /\ nFramesNoChange = 0
  /\ RetValue = -1 /\ pCexSeq = FALSE
  /\ status = [q \in Outputs |-> -1]
  /\ frames = [q \in Outputs |-> -1]
  /\ g_nRunIds = 0 /\ g_fAbstractionProved = 0
  /\ prover = [r \in RunIds |-> "none"]
  /\ proves = [r \in RunIds |-> 0]

-----------------------------------------------------------------------------
(* The frame loop. *)

Call ==
  /\ mpc = "call"
  /\ o <= NOutputs
  /\ f' = 0 /\ refined' = FALSE
  /\ iFrameTryToProve' = -1
  /\ RetValue' = -1 /\ pCexSeq' = FALSE
  /\ mpc' = "frame"
  /\ UNCHANGED <<input, o, restarts, params, results, g_nRunIds, g_fAbstractionProved, threads>>

\* An output driven by a constant.
Trivial ==
  /\ mpc = "call"
  /\ o <= NOutputs
  /\ \/ failsAt[o] = Never /\ status' = [status EXCEPT ![o] = 1]
     \/ failsAt[o] = 0     /\ status' = [status EXCEPT ![o] = 0]
  /\ frames' = [frames EXCEPT ![o] = -1]
  /\ o' = o + 1
  /\ UNCHANGED <<input, mpc, f, refined, restarts, iFrameTryToProve, RetValue, pCexSeq,
                 params, g_nRunIds, g_fAbstractionProved, threads>>

\* "continue": the frame is not looked at, because it was (-s), or because the
\* output is constant 0 in it.
SkipFrame ==
  /\ mpc = "frame"
  /\ f < nFramesMax
  /\ (fUseSkip /\ f <= iFrameProved) \/ failsAt[o] # f
  /\ f' = f + 1
  /\ UNCHANGED <<input, mpc, o, refined, restarts, iFrameTryToProve, RetValue, pCexSeq,
                 params, results, g_nRunIds, g_fAbstractionProved, threads>>

StartFrame ==
  /\ mpc = "frame"
  /\ IF f < nFramesMax
       THEN /\ ~(fUseSkip /\ f <= iFrameProved)
            /\ mpc' = "sat"
       ELSE mpc' = "finish"
  /\ refined' = FALSE
  /\ UNCHANGED <<input, o, f, restarts, iFrameTryToProve, RetValue, pCexSeq, params,
                 results, g_nRunIds, g_fAbstractionProved, threads>>

\* Mutant: a prover that was started in frame 0 is not cancelled.
CancelPositive == g_nRunIds' = IF iFrameTryToProve > 0 THEN g_nRunIds + 1 ELSE g_nRunIds

\* Gia_GlaProveCancel, if there is a prover to cancel
ProveCancel == g_nRunIds' = IF iFrameTryToProve >= 0 THEN g_nRunIds + 1 ELSE g_nRunIds

\* The frame fails in the abstraction: its prover is cancelled.  Ga2_ManRefine
\* adds gates, or finds that the counter-example is real; or the abstraction
\* becomes too large.
Satisfiable ==
  /\ mpc = "sat"
  /\ ProveCancel
  /\ iFrameTryToProve' = -1
  /\ \/ mpc' = "sat" /\ refined' = TRUE /\ UNCHANGED pCexSeq
     \/ mpc' = "finish" /\ refined' = TRUE /\ UNCHANGED pCexSeq
     \/ failsAt[o] <= f /\ pCexSeq' = TRUE /\ mpc' = "finish" /\ UNCHANGED refined
  /\ UNCHANGED <<input, o, f, restarts, RetValue, params, results, g_fAbstractionProved,
                 threads>>

\* The SAT solver reaches a limit: in the first check, or when the core of a
\* refined frame that holds is purified.
Undecided ==
  /\ mpc = "sat"
  /\ \/ UNCHANGED nFramesNoChange
     \/ refined /\ failsAt[o] # f /\ f > iFrameProved /\ nFramesNoChange' = 0
  /\ mpc' = "finish"
  /\ UNCHANGED <<input, loop, iFrameProved, results, g_nRunIds, g_fAbstractionProved,
                 threads>>

\* The frame holds.  How long the abstraction has been stable is counted over
\* new frames only, and not when the output was implied false.
Unsatisfiable ==
  /\ mpc = "sat"
  /\ failsAt[o] # f
  /\ \/ UNCHANGED nFramesNoChange
     \/ /\ f > iFrameProved
        /\ nFramesNoChange' = IF refined THEN 0 ELSE nFramesNoChange + 1
  /\ iFrameProved' = IF iFrameProved < f THEN f ELSE iFrameProved
  /\ mpc' = "check"
  /\ UNCHANGED <<input, loop, results, g_nRunIds, g_fAbstractionProved, threads>>

\* Gia_GlaProveCheck reads the flag without the mutex
ProveCheck ==
  /\ mpc = "check"
  /\ mpc' = IF g_fAbstractionProved = 0 THEN "stable" ELSE "take"
  /\ UNCHANGED <<input, loop, params, results, g_nRunIds, g_fAbstractionProved, threads>>

\* ... and takes it with the mutex.
TakeProof ==
  /\ mpc = "take"
  /\ g_fAbstractionProved' = 0
  /\ RetValue' = 1
  /\ mpc' = "finish"
  /\ UNCHANGED <<input, o, f, refined, restarts, iFrameTryToProve, pCexSeq, params,
                 results, g_nRunIds, threads>>

\* The abstraction is too large, or stable for long enough to be given to a new
\* prover, or neither.
Stable ==
  /\ mpc = "stable"
  /\ \/ refined /\ mpc' = "finish" /\ UNCHANGED g_nRunIds
     \/ nFramesNoChange = nFramesNoChangeLim /\ mpc' = "prove" /\ ProveCancel
     \/ nFramesNoChange # nFramesNoChangeLim /\ mpc' = "next" /\ UNCHANGED g_nRunIds
  /\ UNCHANGED <<input, loop, params, results, g_fAbstractionProved, threads>>

\* Gia_GlaProveAbsracted: "reset the proof"
ResetProof ==
  /\ mpc = "prove"
  /\ g_fAbstractionProved' = 0
  /\ mpc' = "launch"
  /\ UNCHANGED <<input, loop, params, results, g_nRunIds, threads>>

\* ... and create the thread.
CreateThread ==
  /\ mpc = "launch"
  /\ g_nRunIds' = g_nRunIds + 1
  /\ prover' = [prover EXCEPT ![g_nRunIds + 1] = "solving"]
  /\ proves' = [proves EXCEPT ![g_nRunIds + 1] = o]
  /\ iFrameTryToProve' = f
  /\ mpc' = "next"
  /\ UNCHANGED <<input, o, f, refined, restarts, RetValue, pCexSeq, params, results,
                 g_fAbstractionProved>>

\* The next frame, or the first one again if the abstraction has grown much.
NextFrame ==
  /\ mpc = "next"
  /\ \/ f' = f + 1 /\ UNCHANGED restarts
     \/ refined /\ restarts < NRestarts /\ restarts' = restarts + 1 /\ f' = 0
  /\ mpc' = "frame"
  /\ UNCHANGED <<input, o, refined, iFrameTryToProve, RetValue, pCexSeq, params, results,
                 g_nRunIds, g_fAbstractionProved, threads>>

Report(answer, frame) == /\ status' = [status EXCEPT ![o] = answer]
                         /\ frames' = [frames EXCEPT ![o] = frame]

\* Mutant: the frame that was reached is reported, not the one that was proved.
ResultReached == IF RetValue = 1 THEN Report(1, f)
                 ELSE IF pCexSeq THEN Report(0, f - 1) ELSE Report(-1, f)

\* What is said of the output, and pPars->iFrame.
Result == IF RetValue = 1 THEN Report(1, f)
          ELSE IF pCexSeq THEN Report(0, f - 1) ELSE Report(-1, iFrameProved)

Finish ==
  /\ mpc = "finish"
  /\ ProveCancel
  /\ Result
  /\ o' = o + 1
  /\ mpc' = "call"
  /\ UNCHANGED <<input, f, refined, restarts, iFrameTryToProve, RetValue, pCexSeq,
                 params, g_fAbstractionProved, threads>>

PerformGla == \/ Call \/ Trivial \/ SkipFrame \/ StartFrame \/ Satisfiable
              \/ Undecided \/ Unsatisfiable \/ ProveCheck \/ TakeProof \/ Stable
              \/ ResetProof \/ CreateThread \/ NextFrame \/ Finish

-----------------------------------------------------------------------------
(* Abs_ProverThread. *)

\* Mutant: any answer of PDR is taken for a proof.
PdrAnswersYes(r) ==
  /\ prover[r] = "solving"
  /\ prover' = [prover EXCEPT ![r] = "success"]
  /\ UNCHANGED <<input, mpc, loop, params, results, g_nRunIds, g_fAbstractionProved, proves>>

\* PDR ends with an answer about the abstraction.
PdrAnswers(r) ==
  /\ prover[r] = "solving"
  /\ \/ prover' = [prover EXCEPT ![r] = "over"]
     \/ failsAt[proves[r]] = Never /\ prover' = [prover EXCEPT ![r] = "success"]
  /\ UNCHANGED <<input, mpc, loop, params, results, g_nRunIds, g_fAbstractionProved, proves>>

\* Abs_CallBackToStop
PdrStops(r) ==
  /\ prover[r] = "solving"
  /\ r < g_nRunIds
  /\ prover' = [prover EXCEPT ![r] = "over"]
  /\ UNCHANGED <<input, mpc, loop, params, results, g_nRunIds, g_fAbstractionProved, proves>>

\* "update the result"
TellProof(r) ==
  /\ prover[r] = "success"
  /\ g_fAbstractionProved' = 1
  /\ prover' = [prover EXCEPT ![r] = "proved"]
  /\ UNCHANGED <<input, mpc, loop, params, results, g_nRunIds, proves>>

ProverThread(r) == PdrAnswers(r) \/ PdrStops(r) \/ TellProof(r)

Next == PerformGla \/ \E r \in RunIds : ProverThread(r)

Spec == Init /\ [][Next]_vars

-----------------------------------------------------------------------------
\* A prover that was not told to stop is the last one, works on the output of
\* this call, and is known to the frame loop, which will tell it.
OneProver ==
  \A r \in RunIds :
    prover[r] = "solving" /\ r >= g_nRunIds =>
      /\ r = g_nRunIds
      /\ proves[r] = o /\ mpc # "call" /\ iFrameTryToProve >= 0

\* A proof of the abstraction that was sent last is not forgotten while the
\* abstraction is in use: neither the reset for a new prover nor the reset of
\* the flag that takes an older proof can erase it.
NoProofLost ==
  mpc # "call" /\ iFrameTryToProve >= 0 =>
    \A r \in RunIds :
      r = g_nRunIds /\ prover[r] = "proved" =>
        g_fAbstractionProved = 1 \/ RetValue = 1

\* An output that can fail is only ever taken for proved because a proof of an
\* earlier output came late; the first output's answer is always right.
OnlyLateProofs ==
  \A q \in Outputs :
    status[q] = 1 /\ failsAt[q] # Never =>
      \E r \in RunIds : prover[r] = "proved" /\ proves[r] < q

\* "the number of frames proved", of every output that was reported: a
\* counter-example (pPars->iFrame is then the frame before it) is reported only if
\* the output has failed by then, also when -s passed frames unseen.  Without an
\* answer the count is iFrameProved, which a later output inherits: it then holds
\* of the output or of one before it.  With -s nothing is known of an inherited
\* count, since the frames below it are not looked at again.
FramesRight ==
  \A q \in 1..(o - 1) :
    /\ status[q] = 0 => failsAt[q] <= frames[q] + 1
    /\ status[q] = -1 /\ (q = 1 \/ ~fUseSkip) => \E p \in 1..q : frames[q] < failsAt[p]

\* "check if abstraction was proved": an output that is reported proved never
\* fails.
ProvedRight == \A q \in Outputs : status[q] = 1 => failsAt[q] = Never
=============================================================================
