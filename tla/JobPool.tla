------------------------------- MODULE JobPool -------------------------------
(***************************************************************************)
(* What the caller of a worker pool is promised: every job is handed out   *)
(* once, at most Cardinality(Worker) of them are in hand at a time, and    *)
(* the call returns only when all of them are done.                        *)
(***************************************************************************)
CONSTANTS Worker, Jobs

VARIABLES
  todo,     \* the jobs nobody has
  inHand,   \* worker -> the set of jobs it has: none or one
  done,     \* the jobs that are done
  back      \* the call has returned

jvars == <<todo, inHand, done, back>>

JInit ==
  /\ todo = Jobs
  /\ inHand = [w \in Worker |-> {}]
  /\ done = {}
  /\ back = FALSE

Take(w, j) ==
  /\ j \in todo
  /\ inHand[w] = {}
  /\ todo' = todo \ {j}
  /\ inHand' = [inHand EXCEPT ![w] = {j}]
  /\ UNCHANGED <<done, back>>

Complete(w, j) ==
  /\ inHand[w] = {j}
  /\ inHand' = [inHand EXCEPT ![w] = {}]
  /\ done' = done \union {j}
  /\ UNCHANGED <<todo, back>>

Return ==
  /\ ~back
  /\ done = Jobs
  /\ back' = TRUE
  /\ UNCHANGED <<todo, inHand, done>>

JNext == (\E w \in Worker, j \in Jobs : Take(w, j) \/ Complete(w, j)) \/ Return

JSpec == JInit /\ [][JNext]_jvars
=============================================================================
