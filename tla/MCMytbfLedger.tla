--------------------------- MODULE MCMytbfLedger ---------------------------
(***************************************************************************)
(* MytbfLedger for TLC: clients and buckets are model values.              *)
(***************************************************************************)
EXTENDS MytbfLedger

=============================================================================
