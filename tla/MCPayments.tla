---------------------------- MODULE MCPayments ----------------------------
(***************************************************************************)
(* Instances of Payments for TLC: one funded vault whose delegate is the   *)
(* backend's key.  Payments of 2 need the owner, payments of 1 do not, and *)
(* the daily limit leaves room for two of those.                           *)
(***************************************************************************)
EXTENDS Payments, TLC

MCVault ==
  [mint |-> VaultMint, delegate |-> AgentKey, delegate_active |-> TRUE,
   per_tx_limit |-> 2, daily_limit |-> 4, cosign_threshold |-> 2,
   window_start |-> 0, spent_in_window |-> 0, allowlist |-> {}, blocklist |-> {},
   total_paid |-> 0, payment_count |-> 0]

MCVaults == {MCVault}

MCHeld == [a \in Assets |-> IF a = VaultMint THEN (IF a = Native THEN Rent + 4 ELSE 4)
                            ELSE IF a = Native THEN Rent ELSE 0]

MCEndowment == [h \in Holders |-> [a \in Assets |-> IF h = "owner" THEN 2 ELSE 0]]

(* Requests differ in nothing but their name.                              *)
RequestSymmetry == Permutations(Requests)
=============================================================================
