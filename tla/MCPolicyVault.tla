--------------------------- MODULE MCPolicyVault ---------------------------
(***************************************************************************)
(* Instances of PolicyVault and PolicyMirror for TLC.  A SOL vault for the *)
(* budget, the clock and the off-chain mirror, and vaults of any asset, a  *)
(* foreign mint included, for custody.                                     *)
(***************************************************************************)
EXTENDS PolicyMirror, VaultEscrow

MCSolEndowment ==
  [h \in Holders |-> [a \in Assets |-> IF h = "owner" THEN 5 ELSE 0]]

MCSplEndowment ==
  [h \in Holders |-> [a \in Assets |-> IF h = "others" THEN 1 ELSE 2]]
=============================================================================
