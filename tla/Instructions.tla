---------------------------- MODULE Instructions ----------------------------
(***************************************************************************)
(* The program's interface: what each instruction says of the accounts it  *)
(* is given (src/backend/src/solana/idl), which is what the `Accounts`     *)
(* structs of lib.rs demand of a transaction.  A related account must be   *)
(* the one the vault names in the field of the same name.  Program         *)
(* accounts have fixed addresses and no flags; they are left out, with     *)
(* the discriminators, seed bytes and argument types.                      *)
(***************************************************************************)
Account(role, writable, signer, related) ==
  [role |-> role, writable |-> writable, signer |-> signer, related |-> related]

R(role) == Account(role, FALSE, FALSE, FALSE)
W(role) == Account(role, TRUE, FALSE, FALSE)
S(role) == Account(role, FALSE, TRUE, FALSE)
WS(role) == Account(role, TRUE, TRUE, FALSE)
Owner == Account("owner", FALSE, TRUE, TRUE)
OwnerPaying == Account("owner", TRUE, TRUE, TRUE)

(* Token accounts are at an address derived from their holder's.           *)
HolderOf ==
  [vaultAta |-> "vault", vaultTokenAccount |-> "vault", ownerAta |-> "owner",
   recipientAta |-> "recipient", depositorAta |-> "depositor"]

initializeVault == <<W("vault"), WS("owner")>>
setPolicy == <<W("vault"), Owner>>
setDelegateActive == <<W("vault"), Owner>>
manageList == <<W("vault"), Owner>>
resetWindow == <<W("vault"), Owner>>

setDelegate == <<W("vault"), Owner>>

depositSol == <<W("vault"), WS("depositor")>>

depositSpl ==
  <<W("vault"), R("mint"), W("vaultAta"), WS("depositor"), W("depositorAta")>>

(* Mutant: the owner of a payment is writable.                             *)
Mut_paySol == <<W("vault"), S("delegate"), W("recipient"), W("owner")>>

paySol == <<W("vault"), S("delegate"), W("recipient"), R("owner")>>

paySpl ==
  <<W("vault"), R("mint"), W("vaultAta"), WS("delegate"), R("recipient"),
    W("recipientAta"), R("owner")>>

(* Mutant: the owner need not sign.                                        *)
Mut_withdrawSol == <<W("vault"), Account("owner", TRUE, FALSE, TRUE)>>

withdrawSol == <<W("vault"), OwnerPaying>>

withdrawSpl ==
  <<W("vault"), R("mint"), W("vaultAta"), W("ownerAta"), OwnerPaying>>

closeVaultSol == <<W("vault"), OwnerPaying>>

closeVaultSpl ==
  <<W("vault"), R("mint"), W("vaultAta"), W("ownerAta"), OwnerPaying>>

sweepToken ==
  <<W("vault"), R("mint"), W("vaultTokenAccount"), W("ownerAta"), OwnerPaying>>

Instructions ==
  [initializeVault |-> initializeVault, setPolicy |-> setPolicy, setDelegate |-> setDelegate,
   setDelegateActive |-> setDelegateActive, manageList |-> manageList,
   resetWindow |-> resetWindow, depositSol |-> depositSol, depositSpl |-> depositSpl,
   paySol |-> paySol, paySpl |-> paySpl, withdrawSol |-> withdrawSol,
   withdrawSpl |-> withdrawSpl, closeVaultSol |-> closeVaultSol,
   closeVaultSpl |-> closeVaultSpl, sweepToken |-> sweepToken]
=============================================================================
