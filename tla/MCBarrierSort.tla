--------------------------- MODULE MCBarrierSort ----------------------------
(* Two threads that sort four numbers each: a heap with two inner nodes. *)
EXTENDS BarrierSort

\* Every first part; the second part ascending, descending, or all equal.
SecondParts == {<<0, 1, 2, 3>>, <<3, 2, 1, 0>>, <<1, 1, 1, 1>>}
MCInputs ==
  {[p \in Position |-> IF p < 4 THEN f[p] ELSE g[p - 3]] :
     f \in [0..3 -> Numbers], g \in SecondParts}
=============================================================================
