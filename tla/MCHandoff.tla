----------------------------- MODULE MCHandoff -----------------------------
(***************************************************************************)
(* Handoff for TLC: the workers are model values.                          *)
(***************************************************************************)
EXTENDS Handoff, TLC

Symmetry == Permutations(Workers)

=============================================================================
