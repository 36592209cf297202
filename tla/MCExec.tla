------------------------------- MODULE MCExec -------------------------------
(***************************************************************************)
(* Instances of Exec for TLC; the configurations give the constants.       *)
(***************************************************************************)
EXTENDS Exec

=============================================================================
