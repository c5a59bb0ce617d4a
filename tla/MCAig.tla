--------------------------------- MODULE MCAig ---------------------------------
(***************************************************************************)
(* Small networks over two inputs in which replacements set off others.    *)
(***************************************************************************)
EXTENDS Aig

\* 3 = 1 & 2, ...: the fanins of the nodes 3, 4, ..., negative if complemented,
\* and then the outputs
Make(ands, cos) ==
  LET lit(i) == IF i < 0 THEN <<-i, TRUE>> ELSE <<i, FALSE>>
      first  == nPis + 1
      last   == nPis + Len(ands)
  IN  [n \in 0..(last + Len(cos)) |->
         IF n < first THEN <<>>
         ELSE IF n <= last THEN <<lit(ands[n - nPis][1]), lit(ands[n - nPis][2])>>
         ELSE <<lit(cos[n - last])>>]

\* A chain: a replacement that its own cascade undoes leaves the old node in use.
A1 == Make(<< <<1, 2>>, <<1, 3>>, <<1, 4>> >>, <<5>>)

\* Nodes that become trivial, or the same as others, several levels up
A2 == Make(<< <<-1, 2>>, <<-1, 3>>, <<3, -4>>, <<4, 5>>, <<-5, 6>> >>, <<-7>>)
A3 == Make(<< <<1, 2>>, <<-2, 3>>, <<-1, 4>>, <<4, 5>> >>, <<-6>>)

\* A node that replaces another one loses its last fanout before its turn.
A4 == Make(<< <<1, -2>>, <<2, -3>>, <<-2, -4>>, <<-4, -5>>, <<5, 6>>, <<-2, 6>> >>, <<4, -5, 7, 8>>)

MCNetworks == {A1, A2, A3, A4}

\* The nodes 4 and 6 are constant 0.  When 4 has replaced 6, its fanouts are 8, 11,
\* 7 and 9, in this order.  Then it is replaced by the constant: 11 is patched
\* while it waits to be replaced by 10, lookup finds it for 8 and it gets into 9,
\* and with 10 in its place 9 depends on itself.
A5 == Make(<< <<1, -2>>, <<-1, 3>>, <<1, 2>>, <<-2, 5>>, <<-2, -6>>, <<-4, -7>>, <<6, 8>>,
              <<-2, -9>>, <<-4, -10>> >>, <<11>>)

MCCycle == {A5}
================================================================================
