-------------------------- MODULE MCVaultsService --------------------------
(***************************************************************************)
(* The instance of VaultsService for TLC: the constants of its .cfg.       *)
(***************************************************************************)
EXTENDS VaultsService
=============================================================================
