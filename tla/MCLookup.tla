------------------------------ MODULE MCLookup ------------------------------
(***************************************************************************)
(* One job and one executor: LookupCoordinator with the constants of the   *)
(* configurations, without bounds of its own.                              *)
(***************************************************************************)
EXTENDS LookupCoordinator
=============================================================================
