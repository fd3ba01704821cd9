------------------------------- MODULE MCCli -------------------------------
(***************************************************************************)
(* Instances of Cli for TLC: one init leaves its delegate without fees.    *)
(***************************************************************************)
EXTENDS Cli, TLC

CONSTANTS v1, v2

MCFees == v1 :> 0 @@ v2 :> 1

CliSymmetry == Permutations(Shells)
=============================================================================
