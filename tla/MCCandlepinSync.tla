--------------------------- MODULE MCCandlepinSync ----------------------------
(***************************************************************************)
(* Two pools of one product and a product without a pool.                  *)
(***************************************************************************)
EXTENDS CandlepinSync

CONSTANTS p1, p2, a, b

MCProductOf == [p \in {p1, p2} |-> a]

=============================================================================
