------------------------------ MODULE MCMapper -------------------------------
(* Small circuits for Mapper, with the matches a NAND/NOR/AND library has.  *)
EXTENDS Mapper

G(leaves, area) == [leaves |-> leaves, area |-> area]

\* node 3 = a b, node 4 = 3 a, node 5 = 3 4; 4 and 5 are outputs, 4 in both
\* phases.
Shared ==
  [ins |-> 2, last |-> 5,
   outs |-> << <<5, 1>>, <<4, 0>>, <<4, 1>> >>,
   matches |-> <<{}, {},
     \* 3
     [p \in Phases |-> IF p = 0 THEN {G({<<1, 1>>, <<2, 1>>}, 2)}
                                ELSE {G({<<1, 1>>, <<2, 1>>}, 3)}],
     \* 4
     [p \in Phases |-> IF p = 0 THEN {G({<<3, 1>>, <<1, 1>>}, 2), G({<<1, 1>>, <<2, 1>>}, 4)}
                                ELSE {}],
     \* 5
     [p \in Phases |-> IF p = 0 THEN {G({<<3, 1>>, <<4, 1>>}, 2)}
                                ELSE {G({<<3, 0>>, <<4, 0>>}, 2), G({<<3, 1>>, <<4, 1>>}, 3),
                                      G({<<1, 1>>, <<2, 1>>}, 6)}]>>]

\* Every node can be made in both phases.
TwoPhases ==
  [ins |-> 2, last |-> 5,
   outs |-> << <<5, 1>>, <<4, 0>>, <<3, 1>> >>,
   matches |-> <<{}, {},
     [p \in Phases |-> {G({<<1, 1>>, <<2, 1>>}, 2 + p), G({<<1, 0>>, <<2, 0>>}, 2)}],
     [p \in Phases |-> {G({<<3, 1>>, <<2, 1>>}, 2 + p), G({<<3, 0>>, <<1, 1>>}, 2)}],
     [p \in Phases |-> {G({<<3, p>>, <<4, 1>>}, 2), G({<<4, 0>>, <<2, 1>>}, 3)}]>>]

\* A library without a gate for node 3.
NoGate ==
  [ins |-> 2, last |-> 3, outs |-> << <<3, 1>> >>,
   matches |-> <<{}, {}, [p \in Phases |-> {}]>>]

MCCircuits == {Shared, TwoPhases, NoGate}
=============================================================================
