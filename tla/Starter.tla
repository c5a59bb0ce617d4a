------------------------------ MODULE Starter ------------------------------
(***************************************************************************)
(* The command "starter": Cmd_RunStarter and its thread body Abc_RunThread *)
(* (base/cmd/cmdStarter.c).  The main thread reads a file of commands and  *)
(* gives each to a new thread, which calls system().  A counter under a    *)
(* mutex bounds how many run: the main thread samples it in one critical   *)
(* section and increments it in another, and each thread decrements it     *)
(* when its command is over.  The counter is static, so it also carries    *)
(* over from one call to the next.                                         *)
(*                                                                         *)
(* A critical section that changes the counter is two steps, lock + load   *)
(* and store + unlock, so that what the mutex is for can go wrong.         *)
(***************************************************************************)
EXTENDS Integers, FiniteSets

CONSTANTS
  NLines,         \* the number of lines of a command file
  CoreRequests,   \* the values of nCores a caller passes
  MinCores        \* the least nCores that is accepted

ASSUME ConstantsOK ==
  /\ NLines \in Nat
  /\ CoreRequests \subseteq Int
  /\ MinCores \in Int

VARIABLES
  kind,             \* what each line of the file is
  named,            \* pCommand != NULL: the lines are names of input files
  nCores,
  pc,               \* where the main thread is
  line,             \* the line it reads next
  Counter,          \* its last sample of nThreadsRunning
  mutex,            \* the holder of the mutex
  nThreadsRunning,
  tmp,              \* the value each thread loaded inside its section
  thr               \* where the thread of each line is

vars == <<kind, named, nCores, pc, line, Counter, mutex, nThreadsRunning,
          tmp, thr>>

LineNo  == 1..NLines
Main    == 0
Free    == -1
Kinds   == {"skip", "command", "missing"}  \* a "missing" line names no file
MainPcs == {"check", "scan", "fgets", "sample", "incr", "store", "create",
            "drain", "return"}
ThrPcs  == {"none", "system", "decr", "store", "exit"}

Init ==
  /\ kind \in [LineNo -> Kinds]
  /\ named \in BOOLEAN
  /\ named \/ \A l \in LineNo : kind[l] # "missing"
  /\ nCores \in CoreRequests
  /\ pc = "check"
  /\ line = 1
  /\ Counter = 0
  /\ mutex = Free
  /\ nThreadsRunning = 0
  /\ tmp = [t \in LineNo \union {Main} |-> 0]
  /\ thr = [l \in LineNo |-> "none"]

file == <<kind, named, nCores>>
shared == <<mutex, nThreadsRunning, tmp>>

-----------------------------------------------------------------------------
(* The main thread. *)

CheckCores ==
  /\ pc = "check"
  /\ pc' = IF nCores < MinCores THEN "return"
           ELSE IF named THEN "scan" ELSE "fgets"
  /\ UNCHANGED <<file, line, Counter, shared, thr>>

\* With pCommand the whole file is read first: one name that cannot be opened
\* and the call returns, before the first thread.
ScanNames ==
  /\ pc = "scan"
  /\ pc' = IF \E l \in LineNo : kind[l] = "missing" THEN "return" ELSE "fgets"
  /\ UNCHANGED <<file, line, Counter, shared, thr>>

\* One fgets(): the end of the file, a comment or an empty line, a command.
ReadLine ==
  /\ pc = "fgets"
  /\ \/ /\ line > NLines
        /\ pc' = "drain"
        /\ UNCHANGED line
     \/ /\ line <= NLines
        /\ kind[line] = "skip"
        /\ line' = line + 1
        /\ UNCHANGED pc
     \/ /\ line <= NLines
        /\ kind[line] # "skip"
        /\ pc' = "sample"
        /\ UNCHANGED line
  /\ UNCHANGED <<file, Counter, shared, thr>>

\* Mutant: the thread that is about to start is not counted.
SampleOffByOne ==
  /\ pc = "sample"
  /\ mutex = Free
  /\ Counter' = nThreadsRunning
  /\ pc' = IF nThreadsRunning <= nCores - 1 THEN "incr" ELSE "sample"
  /\ UNCHANGED <<file, line, shared, thr>>

\* One turn of "wait till there is an empty thread".
SampleCounter ==
  /\ pc = "sample"
  /\ mutex = Free
  /\ Counter' = nThreadsRunning
  /\ pc' = IF nThreadsRunning < nCores - 1 THEN "incr" ELSE "sample"
  /\ UNCHANGED <<file, line, shared, thr>>

IncrLoad ==
  /\ pc = "incr"
  /\ mutex = Free
  /\ mutex' = Main
  /\ tmp' = [tmp EXCEPT ![Main] = nThreadsRunning]
  /\ pc' = "store"
  /\ UNCHANGED <<file, line, Counter, nThreadsRunning, thr>>

IncrStore ==
  /\ pc = "store"
  /\ nThreadsRunning' = tmp[Main] + 1
  /\ mutex' = Free
  /\ tmp' = [tmp EXCEPT ![Main] = 0]
  /\ pc' = "create"
  /\ UNCHANGED <<file, line, Counter, thr>>

\* Mutant: a line is read and thrown away after each command.
CreateAndSkip ==
  /\ pc = "create"
  /\ thr' = [thr EXCEPT ![line] = "system"]
  /\ line' = line + 2
  /\ pc' = "fgets"
  /\ UNCHANGED <<file, Counter, shared>>

CreateThread ==
  /\ pc = "create"
  /\ thr' = [thr EXCEPT ![line] = "system"]
  /\ line' = line + 1
  /\ pc' = "fgets"
  /\ UNCHANGED <<file, Counter, shared>>

\* Mutant: the last thread is not waited for.
DrainToOne ==
  /\ pc = "drain"
  /\ mutex = Free
  /\ Counter' = nThreadsRunning
  /\ pc' = IF nThreadsRunning <= 1 THEN "return" ELSE "drain"
  /\ UNCHANGED <<file, line, shared, thr>>

\* One turn of "wait for all the threads to finish".
Drain ==
  /\ pc = "drain"
  /\ mutex = Free
  /\ Counter' = nThreadsRunning
  /\ pc' = IF nThreadsRunning = 0 THEN "return" ELSE "drain"
  /\ UNCHANGED <<file, line, shared, thr>>

MainStep == \/ CheckCores \/ ScanNames \/ ReadLine \/ SampleCounter
            \/ IncrLoad \/ IncrStore \/ CreateThread \/ Drain

-----------------------------------------------------------------------------
(* The thread of line l. *)

SystemReturns(l) ==
  /\ thr[l] = "system"
  /\ thr' = [thr EXCEPT ![l] = "decr"]
  /\ UNCHANGED <<file, pc, line, Counter, shared>>

\* Mutant: the counter is decremented outside the mutex.
DecrUnlocked(l) ==
  /\ thr[l] = "decr"
  /\ tmp' = [tmp EXCEPT ![l] = nThreadsRunning]
  /\ thr' = [thr EXCEPT ![l] = "store"]
  /\ UNCHANGED <<file, pc, line, Counter, mutex, nThreadsRunning>>

DecrLoad(l) ==
  /\ thr[l] = "decr"
  /\ mutex = Free
  /\ mutex' = l
  /\ tmp' = [tmp EXCEPT ![l] = nThreadsRunning]
  /\ thr' = [thr EXCEPT ![l] = "store"]
  /\ UNCHANGED <<file, pc, line, Counter, nThreadsRunning>>

\* Mutant: the decrement is forgotten.
DecrForgotten(l) ==
  /\ thr[l] = "store"
  /\ mutex' = Free
  /\ tmp' = [tmp EXCEPT ![l] = 0]
  /\ thr' = [thr EXCEPT ![l] = "exit"]
  /\ UNCHANGED <<file, pc, line, Counter, nThreadsRunning>>

DecrStore(l) ==
  /\ thr[l] = "store"
  /\ nThreadsRunning' = tmp[l] - 1
  /\ mutex' = Free
  /\ tmp' = [tmp EXCEPT ![l] = 0]
  /\ thr' = [thr EXCEPT ![l] = "exit"]
  /\ UNCHANGED <<file, pc, line, Counter>>

ThreadStep(l) == SystemReturns(l) \/ DecrLoad(l) \/ DecrStore(l)

-----------------------------------------------------------------------------
\* The command is typed again: a new file, new locals, the same counter.
CallAgain ==
  /\ pc = "return"
  /\ kind' \in [LineNo -> Kinds]
  /\ named' \in BOOLEAN
  /\ named' \/ \A l \in LineNo : kind'[l] # "missing"
  /\ nCores' \in CoreRequests
  /\ pc' = "check"
  /\ line' = 1
  /\ Counter' = 0
  /\ thr' = [l \in LineNo |-> "none"]
  /\ UNCHANGED shared

Next == MainStep \/ (\E l \in LineNo : ThreadStep(l)) \/ CallAgain

Spec == Init /\ [][Next]_vars

\* The operating system runs every thread that can run, and a command ends.
\* Weak fairness is enough: a section is entered once per thread, so the mutex
\* is free for good whenever the main thread only polls.
Fairness ==
  /\ WF_vars(MainStep)
  /\ \A l \in LineNo : WF_vars(ThreadStep(l))

FairSpec == Spec /\ Fairness

-----------------------------------------------------------------------------
(* Properties. *)

TypeOK ==
  /\ kind \in [LineNo -> Kinds]
  /\ named \in BOOLEAN
  /\ nCores \in CoreRequests
  /\ pc \in MainPcs
  /\ line \in 1..(NLines + 1)
  /\ Counter \in Int
  /\ mutex \in LineNo \union {Main, Free}
  /\ nThreadsRunning \in Int
  /\ tmp \in [LineNo \union {Main} -> Int]
  /\ thr \in [LineNo -> ThrPcs]

Wanted    == {l \in LineNo : kind[l] # "skip"}
InSystem  == {l \in LineNo : thr[l] = "system"}
Counted   == {l \in LineNo : thr[l] \notin {"none", "exit"}}

\* However the sections interleave, no more than nCores - 1 commands run at a
\* time ("execute at most <num> of them at a time", the sample being stale by
\* the time the counter is incremented).
CoreBound == InSystem = {} \/ Cardinality(InSystem) <= nCores - 1

\* The counter is the number of commands that are not over, plus the one that
\* is about to start: no update is lost, so a later call starts from 0.
CounterExact ==
  nThreadsRunning = Cardinality(Counted) + (IF pc = "create" THEN 1 ELSE 0)

\* When the call is back every command of the file is over, or none was ever
\* started (too few cores, or a name that cannot be opened).
AllOrNothing ==
  pc = "return" =>
    \/ \A l \in Wanted : thr[l] = "exit"
    \/ /\ \A l \in LineNo : thr[l] = "none"
       /\ nCores < MinCores \/ (named /\ \E l \in LineNo : kind[l] = "missing")

\* Every call comes back.
CallReturns == (pc = "check") ~> (pc = "return")

\* The starter keeps the caller's promise.
StatusBar == [l \in LineNo |-> IF thr[l] = "none" THEN "wait"
                               ELSE IF thr[l] = "system" THEN "run" ELSE "over"]
CallBar   == IF pc = "return" THEN "back" ELSE "open"
L == INSTANCE Launcher WITH
       wanted <- Wanted, cores <- nCores, status <- StatusBar, call <- CallBar
KeepsPromise == L!LSpec
=============================================================================
