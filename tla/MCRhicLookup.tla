----------------------------- MODULE MCRhicLookup -----------------------------
(* Small instances of RhicLookup for TLC. *)
EXTENDS RhicLookup, TLC

\* Threads are only compared; jobs are picked by CHOOSE, so they are not permuted.
WebSymmetry == Permutations(Web)
=============================================================================
