--------------------------- MODULE MCProcessPool ---------------------------
(***************************************************************************)
(* ProcessPool for TLC: process identifiers are model values.              *)
(***************************************************************************)
EXTENDS ProcessPool, TLC

Symmetry == Permutations(Pids)

=============================================================================
