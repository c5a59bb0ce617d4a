--------------------------------- MODULE MCPdr ---------------------------------
(***************************************************************************)
(* Designs with two registers and two input values.  A design is given by  *)
(* the numbers of the next states, state by state and input by input, and  *)
(* the pairs of state and input that assert each of the two outputs.       *)
(***************************************************************************)
EXTENDS Pdr

MCFlops == {"a", "b"}

Num(s) == (IF s["a"] THEN 1 ELSE 0) + (IF s["b"] THEN 2 ELSE 0)

Make(next, bad) ==
  [next |-> [x \in State \X Inputs |-> CHOOSE t \in State : Num(t) = next[Num(x[1]) + 1][x[2]]],
   bad  |-> [o \in Outs |-> {x \in State \X Inputs : <<Num(x[1]), x[2]>> \in bad[o]}]]

\* A counter whose two outputs fail after three and two steps
Counter == Make(<< <<0, 1>>, <<1, 2>>, <<2, 3>>, <<3, 0>> >>, << {<<3, 1>>}, {<<2, 2>>} >>)

\* One output fails; the other only in the states 2 and 3 that are not reached
HalfSafe == Make(<< <<0, 1>>, <<0, 0>>, <<3, 1>>, <<2, 0>> >>, << {<<3, 1>>}, {<<1, 2>>} >>)

\* Both outputs hold
Safe == Make(<< <<0, 1>>, <<0, 0>>, <<3, 2>>, <<1, 1>> >>, << {<<3, 1>>}, {<<2, 2>>} >>)

\* Only the first output can be asserted by any state: it holds, or it fails
\* after two steps and again, on a longer way, after three
OneSafe  == Make(<< <<0, 1>>, <<2, 0>>, <<2, 0>>, <<3, 0>> >>, << {<<3, 1>>}, {} >>)
OneFails == Make(<< <<0, 1>>, <<3, 2>>, <<3, 3>>, <<3, 0>> >>, << {<<3, 1>>}, {} >>)

MCParams(reuse) ==
  {p \in [fSolveAll : BOOLEAN, fReuseProofOblig : reuse, fShortest : BOOLEAN,
          fShiftStart : BOOLEAN, nRestLimit : {0, 2}, timed : BOOLEAN] :
     p.timed => p.fSolveAll}

MCCases == ({Counter, HalfSafe, Safe} \X MCParams({FALSE}))
             \union ({OneSafe, OneFails} \X MCParams(BOOLEAN))

\* Proof obligations are kept while more than one output can fail.
MCReuse == {Counter} \X MCParams({TRUE})
================================================================================
