--------------------------- MODULE StarterProgram ---------------------------
(***************************************************************************)
(* The stand-alone starter (src/starter.c), the program the command        *)
(* "starter" grew from.  It shares the main loop and the thread body with  *)
(* Starter; what differs is stated here: any positive CPU count is         *)
(* accepted, no file names are checked, at most MAX_COMM_NUM commands are  *)
(* started, and a thread whose command failed first reports it under the   *)
(* mutex.  It runs once.                                                   *)
(***************************************************************************)
EXTENDS Starter

CONSTANT MAX_COMM_NUM

\* main() refuses a CPU count that is not positive.
CheckCPUs ==
  /\ pc = "check"
  /\ pc' = IF nCores <= 0 THEN "return" ELSE "fgets"
  /\ UNCHANGED <<file, line, Counter, shared, thr>>

Created == {l \in LineNo : thr[l] # "none"}

\* Mutant: at the limit the program ends without waiting for its threads.
CreateAndLeave ==
  /\ pc = "create"
  /\ thr' = [thr EXCEPT ![line] = "system"]
  /\ line' = line + 1
  /\ pc' = IF Cardinality(Created) + 1 = MAX_COMM_NUM THEN "return" ELSE "fgets"
  /\ UNCHANGED <<file, Counter, shared>>

\* pthread_create() and "++nLines == MAX_COMM_NUM".
CreateCounted ==
  /\ pc = "create"
  /\ thr' = [thr EXCEPT ![line] = "system"]
  /\ line' = line + 1
  /\ pc' = IF Cardinality(Created) + 1 = MAX_COMM_NUM THEN "drain" ELSE "fgets"
  /\ UNCHANGED <<file, Counter, shared>>

\* A non-zero exit status: the report is printed with the mutex held.
SystemFails(l) ==
  /\ thr[l] = "system"
  /\ mutex = Free
  /\ mutex' = l
  /\ thr' = [thr EXCEPT ![l] = "report"]
  /\ UNCHANGED <<file, pc, line, Counter, nThreadsRunning, tmp>>

Reported(l) ==
  /\ thr[l] = "report"
  /\ mutex' = Free
  /\ thr' = [thr EXCEPT ![l] = "decr"]
  /\ UNCHANGED <<file, pc, line, Counter, nThreadsRunning, tmp>>

ProgramInit == Init /\ ~named

MainLoop == \/ CheckCPUs \/ ReadLine \/ SampleCounter \/ IncrLoad \/ IncrStore
            \/ CreateCounted \/ Drain

CommandThread(l) == ThreadStep(l) \/ SystemFails(l) \/ Reported(l)

ProgramNext == MainLoop \/ \E l \in LineNo : CommandThread(l)

-----------------------------------------------------------------------------
\* main() returns only when no command it started is running, and it never
\* started more than MAX_COMM_NUM of them: all of the file, or that many.
ReturnsWhenOver ==
  pc = "return" /\ nCores > 0 =>
    /\ \A l \in Created : thr[l] = "exit"
    /\ \/ Wanted \subseteq Created
       \/ Cardinality(Created) = MAX_COMM_NUM
=============================================================================
