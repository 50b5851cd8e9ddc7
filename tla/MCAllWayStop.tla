---------------------------- MODULE MCAllWayStop ----------------------------
(* Three cars and the ego: one on each arm, or two of the cars in a queue on *)
(* the arm to the right of the ego.  See README.                             *)
EXTENDS AllWayStop

MCLayouts == {<<1, 2, 3, 0>>, <<1, 1, 2, 0>>}
=============================================================================
