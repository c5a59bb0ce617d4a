------------------------- MODULE MCParallelCommands --------------------------
(***************************************************************************)
(* Four AIGs with costs whose sums are all different; two solvers, three   *)
(* frames in batches of two and two outputs; every miter over two inputs.  *)
(***************************************************************************)
EXTENDS ParallelCommands

MCCost == [g \in 1..4 |-> 2^g]
=============================================================================
