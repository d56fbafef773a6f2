------------------------------- MODULE Program ------------------------------
(***************************************************************************)
(* The small programs of the repository are modelled in a module for each  *)
(* task that several of them do.  The variable program says which of them  *)
(* is running; it never changes.                                           *)
(***************************************************************************)

VARIABLE program

=============================================================================
