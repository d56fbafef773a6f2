---------------------------- MODULE MCPrimeJobs ----------------------------
(***************************************************************************)
(* PrimeJobs for TLC.                                                      *)
(***************************************************************************)
EXTENDS PrimeJobs

=============================================================================
