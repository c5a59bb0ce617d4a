# Verification of ABC's concurrent engines, PDR, AIG rewriting and mapper

ABC is a program for logic synthesis and formal verification: a command
interpreter over a *frame* that holds the current network, a set of graph
packages (AIGs, BDDs, SOPs), and some hundred engines that transform, map or
check a network. Most engines are sequential graph algorithms, and the tests
that matter for them are benchmark runs. What benchmark runs hardly reach is
the part where the program is concurrent: commands that start other processes
from threads, nine hand-written thread pools that synchronise with a flag, and
a prover thread that runs beside the abstraction loop which started it. This
project models that part, and three sequential algorithms whose invariants are
non-local: the reference counting of the standard-cell mapper, property directed
reachability, and the replacement of nodes in a hashed And-Inverter Graph.

All paths below are relative to `src/` of the source tree (so `base/cmd` is
`src/src/base/cmd` from the repository root that holds `src/`).

- [1. Inventory](#1-inventory)
- [2. Modules and the code](#2-modules-and-the-code)
- [3. Runs](#3-runs)
- [4. Fairness, memory and other assumptions](#4-fairness-memory-and-other-assumptions)
- [5. Proofs](#5-proofs)
- [6. What disagrees with the code's own claims](#6-what-disagrees-with-the-codes-own-claims)
- [7. What is not modelled](#7-what-is-not-modelled)
- [8. Plan](#8-plan)

## 1. Inventory

### Concurrent parts

| Part | Source | State it keeps | Operations | Interaction |
|---|---|---|---|---|
| command `starter` | `base/cmd/cmdStarter.c` | a static counter of running commands, a mutex; per call: file position, last sample | read the file, start a thread per line, wait | one thread per command, never joined, which calls `system()`; the counter is shared and survives the call |
| program `starter` | `src/starter.c` | the same, in a process of its own | as above, with a limit on the number of commands | as above; a failing command is reported under the mutex |
| signal correspondence for parts | `proof/ssw/sswPart.c` | a stack of AIGs, one record per worker | create, hand out, wait, stop | flag `fWorking` in each record |
| autotuner | `base/cmd/cmdAuto.c` | stack of AIGs, total cost | as above, plus collect a cost | flag; `Result` in the record |
| stochastic synthesis | `aig/gia/giaStoch.c` | vector of AIGs, index, one random number per worker | as above; a job writes a file, runs a process, reads the file | flag; file names from the random number |
| solver portfolio | `sat/cnf/cnfUtil.c` | index of the next problem, a solution per worker | as above; stop handing out at the first solution | flag; `vRes` in the record |
| miter splitting | `proof/cec/cecSplit.c` | stack of cofactors, iteration count, verdict | first check; serial loop or threads; split, collect, conclude | flag; `Result` and the AIG in the record |
| multi-solver BMC | `sat/bmc/bmcBmcS.c` | batch of frames, frame, output; solvers; a stop flag | unfold, load, set a problem, race the solvers, read a model | flag; `fStopNow` polled by all solvers |
| gate-level abstraction | `proof/abs/absGla.c`, `absPth.c`, the loop of `&gla` in `base/abci/abc.c` | frame loop, counts of stable and proved frames (in the parameters), run number, proof flag | unroll, refine, start / cancel / ask the prover | a PDR thread that polls the run number and sets the flag |
| LUT mapper threads | `aig/gia/giaKf.c` | dependency-ordered objects | hand out when fanins are ready | flag protocol |
| DSD tuning threads | `map/if/ifDsd.c` | list of DSD objects | hand out, collect | flag protocol |
| transduction threads | `aig/gia/giaTranStoch.c` | queue of parts | hand out, collect | flag protocol in C++ |
| word-level concurrent BMC | `base/wlc/wlcPth.c`, `wlcAbs.c` | run number, counter-example | start / stop the BMC thread | run number and mutex |

What makes these parts hard:

* **Interleaving and atomicity.** The starter samples its counter in one
  critical section, decides outside it, and increments in another. The pools
  have no lock at all: every correctness argument is about the order in which a
  record and its flag are stored and loaded.
* **Stale reads.** The pools decide from a flag, a stack size or a result that
  was read before the scan went on; the abstraction loop reads the proof flag
  without the mutex that protects it.
* **Lifetime.** The records are arrays in the manager's stack frame and the
  threads are never joined. The prover's flag and run number are
  static and outlive the call that started the prover.
* **Termination.** Every wait is a busy wait on a variable another thread must
  change.
* **Partial failure.** A command, a rewriting script or a solver may fail or
  run out of its limits while the others go on.

What correctness means for each: the starter never exceeds its number of cores,
runs each command of the file once and returns when they are over; a pool gives
each job to one worker and returns with all results accounted for; splitting
loses no part of the input space and concludes what the parts imply; BMC
reports the first failing output with a model of that problem; abstraction
believes a proof only of the output it works on, and leaves no prover behind.

### The mapper

`map/mapper` covers an AIG with library gates. State: for every node and phase
the chosen match, and a counter of the pins that use it; the total area.
Operations: matching a node by delay, area flow or exact area, dropping one
phase in favour of an inverter, recounting after each pass, and starting over
after a trial run. The exact passes evaluate a candidate by *changing* the
counters of its whole cone and changing them back, so a counter that is wrong in
one place misleads decisions elsewhere, much later, and no assertion sees it.

### Property directed reachability

`proof/pdr` looks for an inductive invariant or a counter-example of each output.
State: for every level the cubes whose clauses hold up to it, a SAT solver per
frame, the queue of proof obligations, the verdict on each output. Operations:
checking an output in the top frame, blocking an obligation or adding its
predecessor, generalising the cube, opening a frame, pushing clauses up, giving
up when the queue is full or the time is over. What is hard: nothing in the code
ties clauses and solvers together but the order of the calls. A solver is thrown
away and rebuilt in the middle of a search, a clause can change while it is
pushed, obligations outlive the frame and the output they were made for, and a
wrong answer looks like a right one. Correct means: what is proved is never
asserted, and a counter-example is a trace that asserts its output.

### And-Inverter Graphs

`base/abc/abcAig.c` keeps a network of two-input ANDs in which no two nodes have
the same fanins. State: fanins and fanouts, levels, the hash table, a stack of
replacements to be done, nodes waiting for a new level. Operations: looking up or
creating a node, replacing a node by a literal, deleting nodes that are not used,
updating levels. A replacement changes the fanins of each fanout; a fanout whose
new form exists already is to be replaced in its turn, and a node without fanouts
is deleted with all that only it used. The pairs on the stack are plain pointers
to nodes that the replacements before them may delete, rehash or leave without
fanouts. Correct means: at each point where the code relies on the table it is
exact, the outputs never change their functions, nothing is put in that is gone,
and a call ends with nothing left to do.

### Everything else

The command interpreter, the frame and its backups, other kinds of networks,
readers and writers, AIG/BDD/SOP packages, the SAT solvers, the other provers, the logic optimisation engines, timing and sizing, placement, and
the utilities are sequential. They are listed with the reason why they are left
out in `PROJECT.json` and in section 7.

## 2. Modules and the code

| Module | Models | Built on |
|---|---|---|
| `Launcher` | what a caller of the starter is promised (abstract) | |
| `Starter` | `Cmd_RunStarter` and `Abc_RunThread` (`cmdStarter.c`) | implements `Launcher` |
| `StarterProofs` | proofs about `Starter` | `Starter` |
| `StarterProgram` | `main` and `Abc_RunThread` (`starter.c`) | `Starter` |
| `JobPool` | what a caller of a pool is promised (abstract) | |
| `WorkerPool` | the record, the worker thread and the manager's loops that all pools share | |
| `ScorrPool` | `Ssw_SignalCorrespondenceArray` | `WorkerPool`, implements `JobPool` |
| `ScorrPoolProofs` | proofs about `ScorrPool` | `ScorrPool` |
| `TunerPool` | `Cmd_RunAutoTunerEval` | `WorkerPool` |
| `StochPool` | `Gia_StochProcess`, `Gia_StochProcessOne` | `WorkerPool` |
| `CnfPool` | `Cnf_RunSolver` | `WorkerPool` |
| `CecSplit` | miters, cofactors, solver answers and models | |
| `CecSplitSerial` | `Cec_GiaSplitTest2` | `CecSplit` |
| `CecSplitPool` | the threads of `Cec_GiaSplitTestInt` | `WorkerPool`, `CecSplit` |
| `CecSplitTest` | `Cec_GiaSplitTestInt` as a whole | the last two |
| `BmcsPool` | `Bmcs_ManPerformMulti`, `Bmcs_ManPerform_Solve` | `WorkerPool` |
| `Gla` | `Gia_ManPerformGla`, `absPth.c`, the outputs loop of `&gla` | |
| `ParallelCommands` | a session that runs one of the commands above that put results of threads together | `TunerPool`, `StochPool`, `CnfPool`, `BmcsPool`, `CecSplitTest`, `Gla`, `StarterProgram` |
| `CommandProofs` | proofs about the sessions of `CnfPool`, `StochPool`, `TunerPool`, `BmcsPool`, `StarterProgram` and `Gla` | `ParallelCommands`, `FoldTheorems` |
| `FoldTheorems` | induction over finite sets, and what the folds of the community modules compute | |
| `CecSplitProofs` | proofs about the session of `CecSplitTest` | `ParallelCommands` |
| `Pdr` | `Pdr_ManSolve`: the loop, `Pdr_ManBlockCube`, `Pdr_ManPushClauses`, the solvers and the queue | |
| `PdrProofs` | proofs about `Pdr` | `Pdr`, `FoldTheorems` |
| `Aig` | `Abc_AigReplace`, `Abc_AigAnd`, `Abc_AigDeleteNode`, `Abc_AigCleanup`, the update of levels | |
| `AigProofs` | proofs about `Aig` | `Aig`, `FoldTheorems` |
| `Mapper` | `Map_MappingMatches`, `mapperRefs.c`, the passes of `Map_MappingSTA` | |
| `MapperProofs` | proofs about `Mapper` | `Mapper`, `FoldTheorems` |
| `MC...` | values for constants that a `.cfg` cannot write | |

### Starter

`pc` is the main thread's program counter; a line of the file is `skip` (empty
or a comment), `command`, or `missing` (a name that cannot be opened). A
critical section that only reads is one step, and can be taken when the mutex
is free. One that changes the counter is two (`IncrLoad`/`IncrStore`,
`DecrLoad`/`DecrStore`: lock and load, store and unlock), because a lost update
is what the mutex is there to prevent. `CallAgain` types the command once more
with another file: `nThreadsRunning` is static, and is the only thing that is
not reset. `Launcher` knows neither threads nor a counter: commands start in
the order of the file, never more than `cores - 1` at a time, and the call is
back only when nothing was started or everything wanted is over. A command is
"running" between the creation of its thread and the return of `system()`.

`StarterProgram` reuses the actions of `Starter` whose code is the same line for
line and replaces the check of the arguments, the creation of a thread (which
counts up to `MAX_COMM_NUM`) and the thread's reaction to a failing command,
which locks the mutex for its report.

### The pools

`WorkerPool` has, for each worker, the flag and the job of its record (`fWorking`,
`job`), where its thread is (`wpc`) and the job it has read (`cur`); for the
manager, where it is (`mpc`) and its loop variable (`scan`). A step is one load
or store of the record:

    manager                          worker
      PopJob     job[i] := top         Wake      sees fWorking = 1
      StartJob   fWorking[i] := 1      ReadJob   assert(fWorking); reads job
      WaitScan   reads fWorking[i]     Solved    stores the result
      StopStore  job[i] := NULL        ClearFlag fWorking := 0
      StopRaise  fWorking[i] := 1

When the manager has returned, `FrameReused` lets the memory of a record whose
worker may still look at it change to anything. The pools differ in how they
choose the next job, when they collect, and how they leave the loop; each
manager module writes these out. `TunerPool` and `CecSplitPool` collect during
the scan, and leave the loop when a whole scan has found no work (`fWorkToDo`);
`StochPool` and `CnfPool` walk an index, and step it back (in effect) when every
worker is busy. In `StochPool` a job is four steps, because the worker shares
the file system with the others: write, run, read back or fail. In `CnfPool` the
solution is moved out of the records by the loop that stops the threads.

`ParallelCommands` instantiates the managers and chooses one command in its
initial state. A session runs one command at a time, so the composition is a sum
and not a product: the variables of the commands that do not run keep a value of
their own. It is there so that all users of the pool are checked on the same
workers; miter splitting, BMC, gate-level abstraction and the stand-alone starter,
described below and above, are in it as well.

### Miter splitting

A miter is the set `Sat` of assignments that make it 1, and every subset of all
assignments is an initial state. A cofactor records which inputs were really set
(`values`) and which literals were written down (`vCofVars`); a model of a
cofactor takes the recorded literals for the inputs that were cofactored, as
`Cec_SplitDeriveModel` does. A solver answers rightly or gives up; it cannot give
up on a constant. Which input is split on is left open: `Gia_SplitCofVar` picks
one by a cost, and the properties hold for every choice.

### Multi-solver BMC

The design is the set `fails` of pairs (frame, output) that can be asserted; all
sets are initial states. A solver that looks for a failing pair finds it, or
reports undecided when it sees the stop flag or has a conflict limit. Loops over
batches, frames and outputs are the loop variables `f`, `k`, `i` with the
boundaries of the code, including the batch that ends beyond `nFramesMax`.

### Gate-level abstraction

The design is, for each output, the first frame in which it fails (or never).
The SAT instance is abstracted to its answers: a frame may be found failing in
the abstraction and be refined, any number of times, end in a real
counter-example if the output fails by then, hold, or be undecided. Restarts are
bounded by `NRestarts` (the code restarts when the abstraction has grown by a
percentage). The global flag and run number are modelled exactly, with the read
of the flag outside the mutex as a step of its own. `iFrameProved` and
`nFramesNoChange` live in the parameters and are inherited by the next output;
`RetValue`, `pCexSeq` and `iFrameTryToProve` start afresh in every call.

A prover thread solves, may succeed, and tells it in a step of its own. It
succeeds only for an output that never fails, since a proof of the abstraction
is a proof of the design.

### Mapper

A node of the circuit has matches for each phase: sets of pins with an area.
`CutRefDeref` is written over the nodes in reverse topological order instead of
by recursion: a node's gate is referenced when its counter leaves 0, so visiting
users before used gives the counters the recursion gives. `MatchByFlow` chooses
any match (delay and area flow only rank them), `MatchByArea` any match whose
exact area is not larger than the old one's, `TryDroppingOnePhase` may drop a
phase where the code may, with the dereferencing it does. `CountRefs` is
`Map_MappingSetRefs` and `Map_MappingGetArea`, with the code's own way of
visiting a node once per used phase. `CleanMatches` is what a trial run of
`Map_MappingSTA` leaves behind; after the first pass of the final run the area
is *not* taken, as in the code.

Required and arrival times only decide which matches are admitted, so any subset
of choices is explored. Assumed: the inverter's area, the areas of gates and
counters are small integers; there are no choice nodes, no buffers, and mode 4
(switching activity) is not used.

### PDR

A design is a next-state function and, for each output, the pairs of state and
input that assert it. A cube is a set of literals over the registers. A solver is
what its clauses leave: `F[j]` the states, `P[j]` the outputs that are set to 0 in
it; a question to it is a set of assignments, and it is answered by any of them.
`vClauses[j]` are the cubes of `p->vClauses` at a level, which hold up to that
level. The code's shortcuts are kept where they change the state: the check of
containment before anything else, the rebuilding of the top solver when an output
is left (`FetchSolver`), a restart that throws the queue away and lets its limit
grow, obligations that move to a later frame (`fShiftStart`, `fReuseProofOblig`),
the clause that gets shorter while it is pushed, and is then added to the next
solver only. `TernarySim`, `ReduceClause` and `Generalize` return *any* cube that
the code's loop of removals could reach, whatever the order and the priorities.
Among obligations of one frame any can be first.

An action is one turn of the loop in `Pdr_ManBlockCube`, one cube in
`Pdr_ManPushClauses`, or one output in `Pdr_ManSolveInt`; `pc` says which.

### AIG

A literal is an object with a complement mark; `vFanins` gives every live object
its fanins, and fanout lists are derived from it (they are kept in step by
`abcFanio.c`; their order is left open). `table` holds what a node was *hashed
by*, which need not be its fanins if the code forgets an update. An action is one
fanout in `Abc_AigReplace_int`, one call of `Abc_AigDeleteNode`, one fanout in the
update of the levels. `doomed` is the call stack of the recursion. `Unscheduled`
takes a deleted node's pairs off the stack exactly as the loop at 987-998 does,
which does not look at the entry that moves into the place of a removed one.
`MayReplace` is what the callers (`decAbc.c`, `abcRr.c`) do: a node is replaced by
a literal with its function that does not depend on it.

## 3. Runs

The passing runs but `starter` set `CHECK_DEADLOCK FALSE`, because a call
returns and the model ends there; that it does not stop anywhere else is what
the liveness properties say. In `starter` a new call always follows, and TLC
also checks for deadlock.

| Run | Question | Properties | Bounds |
|---|---|---|---|
| `starter` | is the command's accounting right over any sequence of calls? | `TypeOK` `CoreBound` `CounterExact` `AllOrNothing` `KeepsPromise` `CallReturns` | 4 lines, core counts 1 to 4, any number of calls |
| `scorr_pool` | is each AIG swept once, and is the record protocol safe? | `TypeOK` `AllSwept` `SafeWhileManaged` `StopAssert` `IsJobPool` `Returns` | 3 workers, 4 AIGs |
| `parallel_commands` | are the results of threads put together rightly? | `TotalIsRight` `InPlace` `PortfolioResult` `FirstFailure` `SolversQuiet` `StopRequestOver` `NoCofactorLost` `SplitVerdict` `OneProver` `OnlyLateProofs` `FramesRight` `ReturnsWhenOver` `Returns` | 3 workers; 4 AIGs to tune, 3 to synthesise, 3 problems; 2 solvers, 3 frames in batches of 2, 2 outputs; all miters over 2 inputs, no limit or 1 iteration; for GLA 2 outputs, 2 frames, 1 restart, with and without `-s`; for the program 3 lines, limit of 2 commands, CPU counts 0, 2, 3 |
| `mapper` | are counters and area right under every choice of matches? | `RefsCover` `MeasureLeavesNoTrace` `ExactStays` `AreaNeverGrows` | 3 circuits of up to 3 gates, 1 trial |
| `pdr` | are the frames, the verdicts and the traces right? | `TypeOK` `FramesHold` `ProvedIsTrue` `CexIsTrace` `NoInitObligation` `Terminates` | 5 designs with 2 registers, 2 inputs and 2 outputs, all combinations of 6 parameters |
| `aig` | is the graph a hashed AIG of the same functions at every step of a replacement? | `AigTypeOK` `AigCheck` `NoCycle` `FunctionsKept` `Settles` | 4 networks of up to 6 nodes over 2 inputs, 2 replacements, 1 new node, with and without levels |

The six runs that expect a violation are in section 6.

What the properties say, beyond their names:

* `CoreBound`: the sample is stale when the counter is incremented, and still
  the bound holds, since only the main thread increments. `CounterExact` is what
  makes the next call start from zero. `AllOrNothing`: one missing name and no
  command at all is started.
* `KeepsPromise`, `IsJobPool`: refinement of `Launcher` and `JobPool`.
* `SafeWhileManaged`: until the manager returns, a worker that has seen its flag
  finds it still raised and never reads a record that was not filled in.
  `StopAssert` is the manager's own `assert( !ThData[i].fWorking )`.
* `TotalIsRight`: at every step of the autotuner's loop the total is the cost of
  exactly the AIGs that are neither on the stack nor in a record, and its
  assertion on a result holds. `InPlace`: a worker never reads back another
  worker's file, and every AIG is replaced by a version of itself.
  `PortfolioResult`: a solution is in exactly one of three places, and the one
  returned was not freed.
* `NoCofactorLost`: every assignment that can make the miter 1 is covered by the
  stack or by a record, and no assignment twice. `SplitVerdict`: SAT and UNSAT
  of the threads are right, undecided only at the limit; the serial SAT comes
  with a model.
* `FirstFailure`: the reported problem fails and none before it does, or a limit
  is the reason why nothing is reported; its model is read from a solver that
  still holds it. `StopRequestOver`: no solver runs on the next problem while the
  stop flag is still up.
* `OneProver`: a prover that was not told to stop is the last one, works on this
  call's output, and is known to the loop; the proof that counts is not erased by
  the reset of the flag. `OnlyLateProofs`: a failing output is reported proved
  only after a proof of an earlier output. `FramesRight`: a counter-example is
  reported no earlier than its output fails, and a frame count without an answer
  holds of that output or of one before it, from which it was inherited (with `-s`
  only the first output's count means anything).
* `RefsCover`: no pin is counted less often than the covering uses it (counting
  once per visited phase may exceed the truth, and never falls short).
  `MeasureLeavesNoTrace`: dereferencing undoes referencing for every candidate.
  `ExactStays`: exact counters stay exact. `AreaNeverGrows`: an exact pass never
  makes the true area exceed the area it started from, and the area reported is
  that of the gates that are used, each once.
* `FramesHold`: the clauses of a level hold initially and after every step from
  the level below, each solver allows what its clauses do, and no open output can
  be asserted below the top frame. `ProvedIsTrue`: an output that is reported
  proved is asserted in no reachable state. `CexIsTrace`: a counter-example's
  inputs lead from the initial state to a state that asserts its output, and to
  no such state before if the shortest one was asked for. `NoInitObligation`: the
  code's assertion that no obligation above frame 0 holds the initial state.
* `AigCheck`: `Abc_AigCheck`, which the code calls after a command, at *every*
  step of a replacement: the table holds the nodes exactly, none twice, none
  trivial; each fanout that is still to be looked at has the old node for a fanin;
  and levels right at the end. `AigTypeOK` has the code's promise not
  to delete what is to replace another node: whatever is to be put in is there.
  `NoCycle`: no object comes to depend on itself, and no fanout is given itself; the
  run shows it for its four networks, with chains of replacements among them, and
  `aig_cycle` (section 6) that it is not so of every network.
  `FunctionsKept`: the outputs' functions never change. `Settles`: cascades end.
* `CallReturns`, `Returns`, `Terminates`, `Settles`: everything that was started
  ends. `Returns` includes that `&gla` leaves no prover at work.

**Why the bounds are enough.** *Starter*: with 4 lines each core count has a file
that fills it, one that waits and one with room to spare; the mutex has at most
five contenders. *Pools*: more jobs than workers, so that a worker is reused, a
worker that has nothing to do while others work, and a scan that starts over;
with three workers a flag can change on either side of the scan. *Splitting*: two
inputs give a stack deeper than one, a second split of a split part, two workers
on siblings, and the constants at the bottom; with one iteration the limit is
met while work is left. *BMC*: the second batch is cut by the frame bound, a
batch has two frames and two outputs, and each of the two solvers may win.
*GLA*: two outputs are needed for what one call leaves to the next, two frames
for a prover that is started, left running while a frame is refined, and
replaced; one restart revisits proved frames. *Mapper*: the circuits have
reconvergence, a node used in both phases, a node with gates in one phase only,
outputs in both phases, and a node nothing matches. *PDR*: two registers give
cubes that can be shortened, a counter of four states needs four frames, and two
outputs are needed for what one leaves to the other (solver, queue, verdict);
there are designs where both, one or none of the outputs fail, with
counter-examples of different lengths and an invariant that is not trivial. A
queue limit of 2 is reached. *AIG*: the networks have a
replacement that its own cascade undoes, nodes that become constants, literals or
copies of others several levels up, and a node that is kept for a pair; a second
replacement starts from what the first has left, and a new node has no fanouts.

The lengths of the runs with two workers of TLC: `parallel_commands` has
980,283 states and takes some two minutes, `aig` 320,517 and one and a half,
`pdr` 134,440, the others less.

Each property has a mutant of the code in `PROJECT.json` (a dropped guard, a
reset or a wait left out, an off-by-one, a wrong literal) that violates it in
its own run, so no property holds by the shape of its model. The mutants are
operators in the modules, marked `Mutant:` and used by no specification.

## 4. Fairness, memory and other assumptions

* **Threads.** Weak fairness for the main thread or manager as a whole and for
  every worker: the operating system runs every thread that can run. A worker's
  loop is a sequence, so fairness of the disjunction of its steps suffices.
* **The mutex.** Weak fairness is enough in `Starter`: a command's thread enters
  one critical section (two in the program), so the mutex changes hands finitely
  often apart from the main thread's polling sections, and the model takes these
  as one step. Real mutexes that let a polling thread starve the others for ever
  are excluded by this.
* **Solvers and processes** return: `system()`, a SAT call with a time-out, the
  sweeping of an AIG. `CallReturns` and `Returns` depend on it.
* **PDR** as the prover of GLA need *not* return; it must only stop after it has
  been told to. So the part of `Returns` about `&gla` is a property of the
  cancelling, and not of PDR. The fairness is stated for all provers together:
  each takes two of these steps at most, so it comes to the same as for each.
* **Sequential code** goes on: weak fairness of the next step in `Pdr` (with
  time-outs as a choice) and of a call that was made in `Aig`. No fairness makes
  anyone call `Abc_AigReplace`.
* **The frame loop** of GLA ends its refinement of a frame, as each refinement
  adds gates; the model's repeated refinement is a stutter.
* **Memory order.** Loads and stores take effect in program order. Only the
  spinning read of a pool is `volatile`, and the stores are plain: on a weakly
  ordered machine, or with an optimising compiler, more behaviours exist. The
  models neither include nor exclude them.
* **Threads can be created**, allocations succeed, and files can be opened
  unless a line says otherwise.

## 5. Proofs

### The starter

`StarterProofs` proves about `Starter`, for every number of lines, every set of
core counts and every least core count (`ConstantsOK` asks only that they are
a natural number, a set of integers and an integer):

| Theorem | Statement |
|---|---|
| `TypeCorrect` | `Spec => []TypeOK` |
| `CounterIsExact` | `Spec => []CounterExact` |
| `CommandsBounded` | `Spec => []CoreBound` |
| `AllOrNothingRun` | `Spec => []AllOrNothing` |
| `StarterKeepsPromise` | `Spec => KeepsPromise`, i.e. `Starter` implements `Launcher` |

The inductive invariant is

    IInv == TypeOK /\ MutexInv /\ CounterExact /\ RoomInv /\ ProgressInv /\ ReturnInv

* `MutexInv` says that the mutex belongs to whoever is between a load and a
  store, and that what it loaded is still the counter's value. Without it the
  store of a stale value could not be excluded, and `CounterExact` is not
  inductive.
* `CounterExact` ties the counter to the number of threads that are counted. Its
  preservation needs the cardinality of a set that gains, loses or keeps one
  element (`CountedGrows`, `CountedShrinks`, `CountedSame`, `CountedZero`).
* `RoomInv` is the argument for the stale sample: between the sample and the
  increment the counter is still below `nCores - 1`, as only the main thread
  increments it.
* `ProgressInv` says which lines have a thread: exactly the commands before the
  current one. It gives the order of `Launcher` and, at the end of the file, that
  every command was started.
* `ReturnInv` keeps what was true when the call returned.

`Inductive` is `Spec => []IInv` from `InitIInv` and `NextIInv`, the latter with
one step per action. `CoreBound` follows from `CounterExact`, `RoomInv` and the
inclusion of the running commands in the counted ones. For the refinement,
`NextRefines` maps `CreateThread` to `Start` (with `RoomToStart` for its guard),
`SystemReturns` to `Finish`, the step that returns to `Return`, `CallAgain` to
`NewCall`, and every other step to a stutter.

### The pool

`ScorrPoolProofs` proves about `ScorrPool`, for every number of workers and of
AIGs (`PoolConstants`, `GiasOK` and `RecordOK`: at least one worker, and the two
other contents of a record are not AIGs and differ):

| Theorem | Statement |
|---|---|
| `TypeCorrect` | `Spec => []TypeOK` |
| `PoolIsSafe` | `Spec => []SafeWhileManaged` |
| `StopAssertHolds` | `Spec => []StopAssert` |
| `EveryAigSwept` | `Spec => []AllSwept` |
| `ScorrImplementsJobPool` | `Spec => IsJobPool`, i.e. `ScorrPool` implements `JobPool` |

The inductive invariant is

    IInv == TypeOK /\ LinkInv /\ AccountInv

* `LinkInv` is what lets the manager and the workers do without a lock. A worker
  is `Idle` (spinning with its flag down), `Busy` (its flag up, and an AIG in
  its record, in its hands or just finished) or `Told` to exit. While jobs are
  given out each worker is idle or busy; in the final scan the workers behind
  the loop variable are idle, and stay so, as nothing else gives a worker a job;
  in the loop that stops them those behind it are told and the others idle.
* `AccountInv` says where each AIG is: on the stack and not swept, with exactly
  one worker and not swept, or swept once. `PopInHand`, `SolvedInHand` and
  `OthersInHand` say which steps move an AIG from one place to another.

`StopAssert` and `SafeWhileManaged` follow from `LinkInv`; `AllSwept` needs both:
the manager that has returned left an empty stack and no worker with an AIG. In
the refinement `PopJob` maps to `Take`, the end of the procedure to `Complete`
and the step that raises the last flag to `Return`, where `SweptBeforeReturn`
gives its guard. The proofs stop at the manager's return where the code does: a
worker that still spins then reads a frame that is gone, and `WorkerAssert` fails
(`scorr_pool_frame`).

### The sessions

The other theorems about concurrent commands are about a *session*
(`ParallelCommands`), which is what the run `parallel_commands` checks; each states
one of its properties word for word. They hold for any number of workers, jobs,
frames and outputs. What they assume about the constants is

* `CommandConstants`: the counts and the costs of the AIGs are natural numbers,
  there is a worker, and there are at least as many random numbers as workers (a
  file name is 32 bits wide);
* `JobConstants`: what ends a worker (`NoJob`, a null pointer or -1) and what a lost
  record holds (`Garbage`) differ from each other and from every job, which is a
  number, a pair of numbers or a cofactor;
* `BmcsConstants` and `GlaConstants`: types, and that there is an output and a frame;
* `StarterConstants`: types, and that the program may start one command at least
  (`MAX_COMM_NUM` is 1000).

| Theorem | Statement |
|---|---|
| `CommandProofs!PortfolioIsRight` | `Spec => []PortfolioResult` |
| `CommandProofs!FilesAndPlaces` | `Spec => []InPlace` |
| `CommandProofs!TotalIsSum` | `Spec => []TotalIsRight` |
| `CommandProofs!StarterReturns` | `Spec => []ReturnsWhenOver` |
| `CommandProofs!FirstIsReported` | `Spec => []FirstFailure` |
| `CommandProofs!SolversAreQuiet` | `Spec => []SolversQuiet` |
| `CommandProofs!StopRequestsEnd` | `Spec => []StopRequestOver` |
| `CecSplitProofs!NothingIsLost` | `Spec => []NoCofactorLost` |
| `CecSplitProofs!VerdictIsRight` | `Spec => []SplitVerdict` |
| `CommandProofs!ProverIsKnown` | `Spec => []OneProver` |
| `CommandProofs!OnlyLateProofsMislead` | `Spec => []OnlyLateProofs` |
| `CommandProofs!FramesAreRight` | `Spec => []FramesRight` |
| `CommandProofs!NumbersAreEnough` | `NumbersSuffice` in every state of GLA: the bound `RunIds` leaves no prover out |

All follow the same plan. A command has an inductive invariant; `TypeStep`,
`LinkStep` and so on show, for the actions of the command alone, how each of its
conjuncts is kept; `Steps` lifts them to the session, whose other commands cannot
move while this one runs; `Invariant` is `Spec => [](command = "..." => IInv)`.

Every invariant of a pool has a `LinkInv` like that of the pool above, and beside it
what the manager's bookkeeping is worth:

* *BMC*: `AnswerInv` says that a solver that is through before the stop request has
  answered this problem, and that the answer taken over stays that of the solver
  it came from; `RoundInv` that nothing before the current frame and output fails.
  `fStopNow` is up only while the manager waits for the others, who all work on
  the same problem: that is `StopRequestOver`.
* *Portfolio*: `CnfHandInv` says that no two workers have the same problem, be it in
  the record, in hand or as a solution, and that a worker with a solution gets no
  other job; without it a solution might be found twice, and `NoSolutionLost` is
  not inductive. `CnfRunsInv` and `CnfTakeInv` follow the two loops of the manager.
* *Stochastic synthesis*: `StochFileInv` says that the names of the workers differ
  and that a worker's file holds its AIG (`StochPutBack`: what is put back is a
  version of it); `StochPlaceInv` that what was given out is with a worker or back
  in its place.
* *Autotuner*: `TunerSumInv` says that the total is the sum over the AIGs that are
  neither on the stack nor in a record, and that no two records hold the same
  one. So collecting a record adds the cost of an AIG that was not counted
  (`TunerSumStep`, with `SumAdds` of `FoldTheorems`), and giving one out changes
  nothing (`TunerSumKept`). `TunerWorkInv` says what the scan knows: as long as it has
  found no work, the stack is empty and the workers behind it have no job. At the
  end of such a scan nothing is pending, and the total is the sum over all AIGs.
* *Splitting with threads*: `CoverInv` says that what makes the miter 1 is in a
  record or on the stack (`Split`: two cofactors lose nothing of the one they come
  from), `ApartInv` that the cofactors that are out are pairwise disjoint, and that
  none is in two places (`SplitApart`, `ApartPushed`, `ApartPopped`). `WorkInv` says
  that `fWorkToDo` is down only if a whole scan found neither a job nor a cofactor.
  Then `Conclude` is right to say UNSAT.
* *Splitting serially*: `SerialInv` says the same of the stack and the cofactor at
  hand, and that the recorded literals of a cofactor are the inputs that were set
  (`ExactModels`), which the threads get wrong (section 6): so its model makes the
  miter 1. `TestInv` joins the two with the first check.

The stand-alone starter has the invariants of `Starter`'s proof, in its own words:
its threads print what they ran before they give the mutex back (`report`), so
`ProgMutexInv` has one more place inside a section. `ProgCountInv` ties the counter
to the commands that are not over; `ProgReadInv` says which lines have a thread, and
that the program only waits for its threads to end at the end of the file or at
`MAX_COMM_NUM` commands. The counter it reads outside the mutex is 0 only if no
command is left, which is `ReturnsWhenOver`.

GLA has the inductive invariant

    IInv == TypeOK /\ ProverInv /\ CancelInv /\ OneProver /\ NoProofLost
            /\ ProofInv /\ OnlyLateProofs /\ FrameInv /\ FramesRight /\ NumberInv

* `ProverInv` says that a prover has a number that was given out and an output
  that was reached, and that PDR only proves what holds. With it `OneProver` is
  inductive: whoever forgets a prover has told it to stop before.
* `CancelInv` covers the two steps of `Gia_GlaProveAbsracted`. Between the cancel
  and the new thread no prover has the current number, so the reset of the flag
  erases no proof that is wanted (`NoProofLost`).
* `ProofInv` traces a "proved" back to a prover. With `ProverInv` its output never
  fails and is not after the current one: if the current output can fail it is
  an earlier one, which is `OnlyLateProofs`. `ProvedRight`, which the run
  `gla_stale_proof` refutes, fails in no other way.
* `FrameInv` says that the loop does not pass a failing frame of its output, with `-s`
  of the first output: there the count has been inherited, and frames below it are
  passed unseen. The count of proved frames holds of some output that was reached.
* `NumberInv` pays for run numbers with frames: a frame creates one prover at most,
  and a prover takes two numbers at most.

### PDR

`PdrProofs` proves about `Pdr`, for every design (whatever its registers, inputs
and outputs), all parameters and whatever the solvers answer; `PdrConstants` asks
for one register and one output at least:

| Theorem | Statement |
|---|---|
| `Typing` | `Spec => []TypeOK` |
| `Frames` | `Spec => []FramesHold` |
| `Soundness` | `Spec => []ProvedIsTrue` |
| `NoInitial` | `Spec => []NoInitObligation` |
| `Traces` | `Spec => []CexIsTrace`, if obligations are kept only where one output can fail |

The inductive invariant of the first four is

    IInv == TypeOK /\ FramesHold /\ PushInv /\ TopInv /\ QueueInv /\ ProvedIsTrue

* The frames of the argument are those of the *clauses*: `Frame(j)` is what the
  clauses of level `j` and above leave, so each contains the one before it by
  definition. The solvers are no such chain. A clause that is shortened while it
  is pushed gets into the next solver only, so a solver may allow more than its
  successor; `FramesHold` says that a solver allows at least its frame, and that a
  step from the frame below stays in the frame, which is what is used of them.
* `QueueInv` says that what has to be blocked in a frame is not in the frame
  below. It passes from an obligation to its predecessor, because a state of the
  frame below that steps into the obligation would show the obligation in a
  frame it is said not to be in (`RootObligation`, `PredecessorObligation`), and
  to the next frame once the obligation is blocked (`QueueKept`). It gives
  `NoInitial`: an obligation in a frame above 0 does not contain the initial
  state. That a clause may be added to all levels below comes from the solver's
  answer: no step from the frame below enters the cube (`Unreached`).
* `TopInv` is what lets a frame be opened: the outputs that were looked at cannot
  be asserted in it, and the solver of the top frame has no output set to 0.
* `PushInv` ties the loop over the levels to the empty level it has found. An
  empty level makes two frames equal (`EmptyLevel`), hence closed under steps:
  every reachable state is in them, and `Soundness` follows.

`Traces` is proved from `IInv` and a second invariant, `TraceInv == ObligationInv /\
CexInv`, about the inputs that an obligation collects:

* `Hits(s, ins, o)` says that the inputs lead from state `s` to an assertion of output
  `o`, as a sequence of states that exists (`IsRun`). `AfterIsRun` shows that the fold
  by which `CexIsTrace` runs a counter-example is such a sequence, and `AssertsIsHits`
  that the two notions agree.
* `ObligationInv` says that every state of an obligation leads to the output with the
  obligation's inputs. The first obligation does so at once (`HitsAtOnce`), and
  a predecessor through one step more (`HitsLater`), because ternary simulation keeps
  only such states. An obligation in frame 0 starts in the initial state.
* With `fShortest` the frame of an obligation and the number of its inputs add up
  to the top frame plus one. A shorter run would stay in the frames (`RunInFrames`,
  by `FramesHold`), and so assert an open output below the top frame, which
  `FramesHold` excludes (`NoneShorter`).

Its hypothesis `ReuseAlone` is about `-p` (`fReuseProofOblig`), which keeps obligations
from one output to the next: it asks that then no two outputs can be asserted.
Without it the theorem is false, as `pdr_reuse` shows (section 6). All cases of the
run `pdr` satisfy it, those with `-p` and those without.

### The mapper

`MapperProofs` proves about `Mapper`, for every set of circuits and matches, every
number of trial runs and whatever matches are admitted. `MapperConstants` asks that a
circuit has something to map, that areas are natural numbers and that a match of a
node is connected to lower nodes:

| Theorem | Statement |
|---|---|
| `RefsAlwaysCover` | `Spec => []RefsCover` |
| `NoTrace` | `Spec => []MeasureLeavesNoTrace` |
| `ExactRemains` | `Spec => []ExactStays` |
| `AreaKept` | `Spec => []AreaNeverGrows`, if no gate is smaller than the inverter |

All of them are about counters that are computed by visiting the nodes from top to
bottom. The first part of the module says what such a visit computes without the
order of it: `VisitIs` shows that a counter ends at its first value plus, or minus, the
number of the gates that were counted and have the pin among their leaves, and
`SetRefsAre`, `TrueRefsAre` and `RefsAre` say so of `Map_MappingSetRefs`, of the true
counters and of `Map_CutRefDeref`. They use that a match is connected to lower
nodes only: what a node's own counters are is settled before its gates are counted.
`TopDown` is the induction behind the rest: what holds at a node as soon as it holds
at all nodes above it holds everywhere.

* The *slack* of a pin is its counter minus the outputs it drives minus the gates in
  use that take it (`Slack`). `RefSlack` and `DerefSlack` show that referencing and
  dereferencing a match change the slack of the match's own leaves by one and no
  other: what a gate that comes into use adds to a counter is what it uses. So
  replacing a gate changes no slack at all (`ReplaceSlack`), and neither does
  dropping a phase, where the gate of the other phase takes over (`DropSlack`).
* The invariant is `MapInv == MapperTypeOK /\ TrialInv /\ CoverInv /\ ExactInv`.
  `CoverInv` says that no slack is negative from the second pass on, `ExactInv` that all are
  0 in a pass that starts so. `TrialInv` says that the trial runs are over by then.
  `Map_MappingSetRefs` counts a node with one gate once for each phase in use, so
  slacks start positive (`SetRefsCover`), and since nothing changes them they stay
  what they are. A slack that is not negative is what dereferencing needs: without
  it a counter could reach 0 while a gate that is in use still takes the pin.
* `CoverTrue` and `ExactTrue` compare the counters with the true ones from the top
  node down, as a counter that is 0 leaves its gate, and with it all below, out.
* `RefDerefBack` is `NoTrace` for any counters, even negative ones: on the way
  back a node turns exactly if it has turned on the way there (`TurnsBack`).

`AreaKept` adds a second invariant, `AreaKeptInv`. `AreaOf` is the area of the gates in
use by the *counters*. Dereferencing a match takes off it what `Map_CutGetAreaDerefed`
measures (`AreaDerefedIs`), so a match that is accepted for its smaller exact area
does not make it larger (`ReplaceArea`, `GrowthInv`); where counters exceed the pins a
gate that nobody takes is kept in it, before and after alike. At the end of a pass the
counters are set anew from the mapping; `CountedArea` shows that the area found then
is not larger than `AreaOf` was. The hypothesis `InverterIsSmallest` is about `Map_NodeTryDroppingOnePhase`
(`mapperMatch.c:516`), which compares no areas: it puts an inverter where a gate was.
All circuits of the run `mapper` satisfy it.

### Replacement in AIGs

`AigProofs` proves about `Aig`, for every number of inputs, every set of networks and any
number of replacements and new nodes. `AigConstants` asks of the networks what
`Abc_NtkDoCheck` and `Abc_AigCheck` ask of every network: fanins that exist, in
order, no two nodes with the same, and no cycle.

| Theorem | Statement |
|---|---|
| `TypesAreRight` | `Spec => []AigTypeOK` |
| `TableAndLevels` | `Spec => []AigCheck` |
| `FunctionsStay` | `Spec /\ []NoCycle => []FunctionsKept` |

* `HeapInv` is what the first two rest on: the network is well formed and hashed, the
  table is computed from it (`TableOf`), the new literals of the pairs that wait and
  of the one under way are literals of it, and the fanouts still to be looked at are
  fanouts of the old node. `DeleteNode` keeps the third because a node that is
  awaited is not deleted, though `Unscheduled` may leave a pair whose old node is
  gone (`UnscheduledIs`). `Rehash` keeps the second because lookup finds a node
  with the same fanins if there is one (`LookupNull`) and handles the trivial cases
  before.
* `LevelInv` says that a level that is not right has a fanin that is marked, or is
  about to be looked at, and that a node is marked at the level it has. It is
  this that makes the levels right when nothing is marked any more (`LevelledAt`
  for a node whose level changes). A call that ends early leaves levels that are not
  right; `AigCheck` says nothing of them.
* The function of a literal is a recursion over the network. It is well defined if there
  are no cycles: then there is one assignment of values that solves its equations
  (`SolvedOnce`: a lowest object at which two differ; `SolvedAll`: the solutions
  for parts of the network agree where they overlap, and a lowest object that none of them
  reaches could be added to one). `FunctionIs` and `LevelsAre` apply this to
  `Function` and to `LevelsOf`, and `ConeIs` shows that `Cone` holds what it should.
* `MeaningInv` says that the outputs have their functions and that the two sides of a pair
  have the same one until the call is over. What lookup finds for a fanout computes
  what the fanout does (`LookupIs`), so a pair that is scheduled keeps it; and
  replacing a fanin by a literal of the same function changes the function of no
  object (`MeaningPatched`, `SameMeaning`). Both need that the network has no cycles
  before and after the step, the hypothesis of `FunctionsStay`. That
  hypothesis cannot be dropped: `aig_cycle` is a network in which a cycle arises, and
  then the output below it has no function at all.

### Folds

An induction over data needs a theorem whose parameter is a predicate, and the
provers cannot instantiate it. `FoldTheorems` states induction with a *set* in its
place, which they can: a family of subsets of a finite set that holds the
empty one, and each of its members with an element more, holds all of them
(`SubsetInduction`; `NumberInduction` is the same for an interval). With it
`FoldExists` shows that the recursive function behind a fold exists, `SumIs` that the
fold satisfies its own equation, and `SumAdds` that a sum over a set grows by the
value of an element that is added, in whatever order the fold takes them. The other
lemmas on sums (`SumPlus`, `SumLess`, `SumChanges`) are what the area of a mapping needs,
and `TopOfIs` and `FoldLeftExists` those about the visits of its nodes.

### What is left to TLC

All invariants were checked with TLC, on the instances of `starter`,
`scorr_pool`, `pdr`, `mapper` and `aig` and on small instances of `Gla` and of the four pools,
before they were proved.

**Only model-checked:** all liveness (fairness and `ENABLED` are out of the proof
system's reach); and `NoCycle` of `Aig`, which is true of the networks of the run `aig`
and not of all.

## 6. What disagrees with the code's own claims

Each of these is a run that expects a violation of one property, which states
what the code, an assertion or a message says.

| Run | Property | Behaviour |
|---|---|---|
| `scorr_pool_frame` | `WorkerAssert` | The workers are not joined. One that has been told to stop but has not read its record yet finds the memory of a frame that is gone; its assertion need not hold, nor need the record say "stop". All pools whose records are in the frame share this. |
| `cec_split_unsat` | `UnsatIsRight` | In the serial procedure, a satisfiable cofactor that was the last one leaves the stack empty. The test after the loop (`cecSplit.c:509`) then stores UNSAT over SAT, and "Problem is UNSAT" is printed. |
| `cec_split_cex` | `CexIsRight` | The threads record the second cofactor with the literal of the first (`cecSplit.c:677`; compare 485), so a model found below it has that input flipped and need not make the miter 1. The verdict SAT is right. |
| `gla_stale_proof` | `ProvedRight` | A prover that succeeds just as its call ends sets the flag after the cancellation. The flag is not cleared when the next output's call starts, so its first held frame takes the proof as its own. `OnlyLateProofs` shows that there is no other way to a wrong answer. |
| `pdr_reuse` | `CexIsValid` | With `-p` obligations that were blocked stay in the queue for the next frame (`pdrCore.c:995`), and the queue does not say which output they belong to. With several outputs the first one looked at in the next frame is reported as failing with a trace that asserts another. The program then prints "CEX for output %d is not valid." (`pdrMan.c:433`). With one output, or when only one can fail, `CexIsTrace` shows that nothing goes wrong. |
| `aig_cycle` | `NoCycle` | Two calls of `Abc_AigReplace`, each with a node of the same function, make an output depend on a cycle, against the assertion after the rehashing (`abcAig.c:937`). A node that waits to be replaced is patched meanwhile (936); lookup finds it for another fanout (913), which is replaced by it; when its own pair comes it is replaced by a node that was right for its old fanins, and depends on what it has got into. |

In `aig_cycle` the order of the fanouts is the one the program's lists have: the first
call puts a constant node in the place of another, so that its new fanouts come
last, and the second replaces it by the constant. The same calls through
`Abc_AigAnd` and `Abc_AigReplace`, compiled, stop at that assertion; without assertions
they return 1, and `Abc_NtkIsAcyclic` reports the loop. `Abc_AigNodeIsAcyclic` looks two
levels down, so that a longer cycle would pass it.

Read off the code while modelling, with no run of their own:

* `abcAig.c:862`: the call can return 0 with replacements left on its stack, so that
  the next call's first assertion (852) fails, or those of `Abc_AigFree`. A node without
  fanouts is kept because it is to replace another one (1000), but it is itself to
  be replaced, and its own pair comes first. In the model the next call waits
  for an empty stack.
* `abcAig.c:987`: the loop that takes a deleted node off the stack skips the
  second of two pairs of that node that lie side by side (a node scheduled twice,
  because both its fanins were replaced). The deleted object stays scheduled, is
  looked at when its turn comes, has no fanouts, and the call returns 0.
* `abcAig.c:1000`: a node that is kept for a pair stays without fanouts if that
  pair is taken off the stack later (network `A4`): nobody deletes it until the
  next `Abc_AigCleanup`.
* `decAbc.c:253`: the assertion on the gain is commented out. A cascade can give
  the old node new fanouts before the call ends (network `A1`), so that it is not
  deleted.
* `pdrCore.c:917`: the limit of the queue grows by a half rounded down: with
  `-Q 1` it never grows, and the same search can be repeated for ever.

* `starter.c:141`: with one CPU the program waits for a count below zero and
  never starts a command (`Returns` asks for two CPUs); the command
  `starter` refuses fewer than two cores.
* `cecSplit.c:715`: a worker that never received a job is not told to stop, and
  spins for ever (modelled by `StopSkipped`).
* `cecSplit.c:757`: the counter-example of an output is taken from an AIG that
  was freed just before (the loop over outputs is not modelled).
* `absGla.c:1864`: without an answer the frame count that is reported is
  `iFrameProved`, which the next outputs inherit: it need not hold of the output it
  is reported for (`FramesRight` says what it does hold of), and with `-s` frames of a
  later output below it are never looked at.
* `mapperRefs.c:427`: a node with one gate that is used in both phases is visited
  twice, so the counters below it exceed the pins there are. `RefsCover` and
  `AreaNeverGrows` show that this stays harmless.
* `bmcBmcS.c:904`: the number of frames printed counts the frame in which the
  time ran out.

## 7. What is not modelled

* Of the modelled parts: reading lines longer than the buffer, and a last line
  without a newline (`cmdStarter.c`, `starter.c`); the enumeration of parameter
  settings (`cmdAuto.c`); partitioning and the rounds around `Gia_StochProcess`;
  the loop over outputs of `Cec_GiaSplitTest`; the single-solver BMC, unfolding
  and CNF; an unbounded number of frames; the SAT instance, bridge mode, dumping
  and `-S` of GLA; cuts, truth tables, supergates, timing, choices, buffers and
  switching activity of the mapper.
* PDR: abstraction (`fUseAbs`), generalisation with `down` and CTGs, the extra
  clauses of `fSimpleGeneral`, outputs that are constants, bridge mode, the
  invariant that is derived and dumped in the end, priorities of registers
  (any order is allowed). Incremental PDR (`pdrIncr.c`) and the other provers.
* AIG: reverse levels, EXOR and phase marks, the lists of new and updated nodes,
  the resizing of the table, choice nodes, and the builders of OR, XOR and MUX.
* SAT solvers, BDDs: third-party or sequential algorithms whose states are
  beyond a model checker; where an engine calls them they are answers.
* Other networks, readers, writers, optimisation, placement: sequential graph
  code; the frame's backups are in the plan.
* Static timing, sizing, Bayesian tuning of delay parameters: floating point.

`PROJECT.json` lists every part with its status.

## 8. Plan

The order of work was: the starter (model, refinement, proof), the pool protocol
(model, refinement, proof) and its users (splitting and BMC among them),
abstraction, PDR (model, proof), replacement in AIGs and the mapper (model, proof). Still to do:

1. **Proofs.** What keeps `NoCycle` of `Aig`: the cycle of `aig_cycle` needs a lookup that
   finds a node patched while it waits; it is open whether anything else leads to one.
2. **More pools**, composed into the existing runs: `giaKf.c` (jobs with
   dependencies), `ifDsd.c`, `giaTranStoch.c`.
3. **Word-level concurrent BMC** (`wlcPth.c`, `wlcAbs.c`): run numbers, the
   counter-example under the mutex, and what a late thread can still change.
4. **Loops around the engines**: `Cec_GiaSplitTest` over outputs, the rounds of
   stochastic synthesis.
5. **Mapper**: required times as a constraint on the choice of matches, and the
   loop that tunes delay parameters.
6. **PDR**: abstraction and incremental PDR. **AIG**: reverse levels, choices.
   **Frame**: the backups.
