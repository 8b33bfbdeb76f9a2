--------------------------- MODULE MCTwoChildren ----------------------------
(***************************************************************************)
(* Two arrays, one with a product of more than a byte, and PIDs of either  *)
(* parity.                                                                 *)
(***************************************************************************)
EXTENDS TwoChildren

TwoArrays == {<<2, 5>>, <<9, 9, 4>>}
AllParities == [Children -> {0, 1}]
=============================================================================
