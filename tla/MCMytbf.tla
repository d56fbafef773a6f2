------------------------------ MODULE MCMytbf ------------------------------
(***************************************************************************)
(* Mytbf for TLC: clients and buckets are model values.                    *)
(***************************************************************************)
EXTENDS Mytbf, TLC

Symmetry == Permutations(Clients)

=============================================================================
