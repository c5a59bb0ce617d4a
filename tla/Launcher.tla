------------------------------ MODULE Launcher ------------------------------
(***************************************************************************)
(* What a caller of the command starter is promised, with no threads and   *)
(* no counter: the commands of a file are started in the order of the      *)
(* file, each at most once, never more than Cap(nCores) of them at a time, *)
(* and the call comes back only when every command it started is over.     *)
(* A call may also be refused, before anything is started.                 *)
(***************************************************************************)
EXTENDS Integers, FiniteSets

CONSTANTS
  NLines,        \* the number of lines of a command file
  CoreRequests   \* the core counts a caller asks for

VARIABLES
  wanted,   \* the lines of the current file that hold a command
  cores,    \* the core count of the current call
  status,   \* line -> "wait", "run" or "over"
  call      \* "open" while the call runs, "back" when it has returned

lvars == <<wanted, cores, status, call>>

LineNo == 1..NLines
Running == {l \in LineNo : status[l] = "run"}

LInit ==
  /\ wanted \in SUBSET LineNo
  /\ cores \in CoreRequests
  /\ status = [l \in LineNo |-> "wait"]
  /\ call = "open"

\* The next command of the file is started, if a core is left for it: one
\* core is kept for the starter itself.
Start(l) ==
  /\ call = "open"
  /\ l \in wanted
  /\ status[l] = "wait"
  /\ \A k \in wanted : k < l => status[k] # "wait"
  /\ Cardinality(Running) < cores - 1
  /\ status' = [status EXCEPT ![l] = "run"]
  /\ UNCHANGED <<wanted, cores, call>>

Finish(l) ==
  /\ status[l] = "run"
  /\ status' = [status EXCEPT ![l] = "over"]
  /\ UNCHANGED <<wanted, cores, call>>

\* The call returns: nothing was started, or all of the file is over.
Return ==
  /\ call = "open"
  /\ \/ \A l \in LineNo : status[l] = "wait"
     \/ \A l \in wanted : status[l] = "over"
  /\ call' = "back"
  /\ UNCHANGED <<wanted, cores, status>>

\* The next file.
NewCall ==
  /\ call = "back"
  /\ wanted' \in SUBSET LineNo
  /\ cores' \in CoreRequests
  /\ status' = [l \in LineNo |-> "wait"]
  /\ call' = "open"

LNext ==
  \/ \E l \in LineNo : Start(l) \/ Finish(l)
  \/ Return
  \/ NewCall

LSpec == LInit /\ [][LNext]_lvars
=============================================================================
