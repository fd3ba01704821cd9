---------------------------- MODULE Transactions ----------------------------
(***************************************************************************)
(* How requests become signed transactions (solana.service.ts and the      *)
(* payment command of cli/budgent.mjs) and what a transaction's signatures *)
(* let it do when it lands, in any order and after any delay.  A vault's   *)
(* limits, lists and window are PolicyVault's; here `rules` only flips     *)
(* when one of them is written.                                            *)
(***************************************************************************)
EXTENDS Units, Sequences, FiniteSets

CONSTANTS
  OwnerKey,       \* the key that creates the vault
  Stranger,       \* another wallet's key
  Agents,         \* delegate keys
  Shop,           \* a recipient that signs nothing
  TheVault,       \* the vault's own address
  Typed,          \* amounts as callers write them, literals of Units
  CosignAt,       \* the threshold, in base units
  MaxFunds,       \* bound on what the vault holds
  MaxFlight       \* bound on transactions built and not landed

(* Nothing validates what a request's body or the command line says.       *)
ASSUME TypedAssumption == Typed \subseteq Literals

ASSUME BoundAssumption == MaxFunds \in Nat

(* The owner may be a delegate of its own vault; the stranger is neither,  *)
(* and nobody holds a key to the vault's address.                          *)
ASSUME AddressesAssumption ==
  /\ Stranger \notin Agents \cup {OwnerKey}
  /\ TheVault \notin {OwnerKey, Stranger} \cup Agents

IDL == INSTANCE Instructions

Wallets == {OwnerKey, Stranger} \cup Agents

(* Who is paid: a shop, the agent itself, the owner, the vault itself.     *)
Recipients(agent) == {Shop, agent, OwnerKey, TheVault}

VARIABLES
  vault,     \* the vault account
  flight     \* transactions built: signed ones may land at any later time

vars == <<vault, flight>>

Unborn(native) ==
  [status |-> "none", native |-> native, owner |-> Stranger, delegate |-> Stranger,
   active |-> FALSE, rules |-> FALSE, funds |-> 0]

Init ==
  /\ \E native \in BOOLEAN : vault = Unborn(native)
  /\ flight = {}

-----------------------------------------------------------------------------
(* A transaction: one instruction of the program and its accounts.         *)

At(owner, delegate, recipient) ==
  [vault |-> TheVault, mint |-> Shop, owner |-> owner, delegate |-> delegate,
   recipient |-> recipient, depositor |-> owner]

AddressOf(at, role) ==
  IF role \in DOMAIN IDL!HolderOf THEN <<at[IDL!HolderOf[role]], "token account">>
                                  ELSE <<at[role], "wallet">>

Metas(name, at) ==
  [i \in DOMAIN IDL!Instructions[name] |->
     LET a == IDL!Instructions[name][i]
     IN  [key |-> AddressOf(at, a.role), writable |-> a.writable, signer |-> a.signer]]

(* Mutant: the account metas are left as Anchor built them.                *)
Mut_markSigner(metas, key) == metas

(* The first account with that key becomes a signer.                       *)
markSigner(metas, key) ==
  LET hits == {i \in DOMAIN metas : metas[i].key = <<key, "wallet">>}
  IN  [i \in DOMAIN metas |->
         IF i \in hits /\ \A j \in hits : i <= j THEN [metas[i] EXCEPT !.signer = TRUE]
                                                 ELSE metas[i]]

(* Flags belong to the key, however often a message names it.              *)
Signers(metas, payer) ==
  {payer} \cup {metas[i].key[1] : i \in {j \in DOMAIN metas : metas[j].signer}}
Writables(metas, payer) ==
  {<<payer, "wallet">>} \cup {metas[i].key : i \in {j \in DOMAIN metas : metas[j].writable}}

(* sign() refuses a key the message does not want, serialize() a message   *)
(* that lacks a signature.                                                 *)
send(name, at, typed, amount, metas, keys, payer, from) ==
  /\ flight' = flight \cup
       {[name |-> name, at |-> at, typed |-> typed, amount |-> amount, from |-> from,
         signed |-> keys, writable |-> Writables(metas, payer),
         thrown |-> Signers(metas, payer) # keys]}
  /\ UNCHANGED vault

-----------------------------------------------------------------------------
(* The backend.  `owner` is the configured owner key: the one that signs   *)
(* and the one the instruction names.                                      *)

OwnerSends(name, owner, delegate, n) ==
  LET at == At(owner, delegate, owner)
  IN  send(name, at, n, U64(toBaseUnits(n)), Metas(name, at), {owner}, owner, "backend")

(* The literal of a flag or of an instruction without an amount.           *)
Whole(m) == [n |-> 1000 * m, text |-> TRUE]

(* A vault's address is derived from its owner's key.                      *)
initializeVault(owner, delegate) ==
  owner = OwnerKey /\ OwnerSends("initializeVault", owner, delegate, Whole(0))
setPolicy(owner) == OwnerSends("setPolicy", owner, Shop, Whole(0))
setDelegate(owner, delegate) == OwnerSends("setDelegate", owner, delegate, Whole(0))
setDelegateActive(owner, active) ==
  OwnerSends("setDelegateActive", owner, Shop, Whole(IF active THEN 1 ELSE 0))
manageList(owner) == OwnerSends("manageList", owner, Shop, Whole(0))
resetWindow(owner) == OwnerSends("resetWindow", owner, Shop, Whole(0))
depositSol(owner, n) == vault.native /\ OwnerSends("depositSol", owner, Shop, n)
depositSpl(owner, n) == ~vault.native /\ OwnerSends("depositSpl", owner, Shop, n)

(* A withdrawal of nothing, or of less, is refused; a deposit is not.      *)
withdrawSol(owner, n) ==
  vault.native /\ toBaseUnits(n) > 0 /\ OwnerSends("withdrawSol", owner, Shop, n)
withdrawSpl(owner, n) ==
  ~vault.native /\ toBaseUnits(n) > 0 /\ OwnerSends("withdrawSpl", owner, Shop, n)

closeVaultSol(owner) == vault.native /\ OwnerSends("closeVaultSol", owner, Shop, Whole(0))
closeVaultSpl(owner) == ~vault.native /\ OwnerSends("closeVaultSpl", owner, Shop, Whole(0))

(* A payment names the row's owner, or when it is co-signed the configured *)
(* one; the delegate pays the fee.                                         *)
Pay(name, delegate, recipient, owner, cosign, n) ==
  LET at == At(owner, delegate, recipient)
      metas == Metas(name, at)
  IN  send(name, at, n, U64(toBaseUnits(n)),
           IF cosign THEN markSigner(metas, owner) ELSE metas,
           {delegate} \cup (IF cosign THEN {owner} ELSE {}), delegate, "backend")

paySol(delegate, recipient, owner, cosign, n) ==
  vault.native /\ Pay("paySol", delegate, recipient, owner, cosign, n)
paySpl(delegate, recipient, owner, cosign, n) ==
  ~vault.native /\ Pay("paySpl", delegate, recipient, owner, cosign, n)

(* The command line names the owner saved at init and asks whichever       *)
(* keypair it is given to co-sign.                                         *)
cliPay(delegate, recipient, keypair, cosign, n) ==
  LET at == At(OwnerKey, delegate, recipient)
      metas == Metas("paySol", at)
  IN  /\ vault.native /\ lam(n) # 0
      /\ send("paySol", at, n, U64(lam(n)),
              IF cosign THEN markSigner(metas, keypair) ELSE metas,
              {delegate} \cup (IF cosign THEN {keypair} ELSE {}), delegate, "cli")

(* Nothing stops the holder of a key from building instructions itself.    *)
byHand(name, key, owner, recipient) ==
  LET at == [At(owner, key, recipient) EXCEPT !.depositor = key]
      metas == Metas(name, at)
  IN  /\ name # "initializeVault"
      /\ Signers(metas, key) = {key}
      /\ send(name, at, Whole(1), 1, metas, {key}, key, "hand")

-----------------------------------------------------------------------------
(* The chain.                                                              *)

Native == {"depositSol", "paySol", "withdrawSol", "closeVaultSol"}
Token == {"depositSpl", "paySpl", "withdrawSpl", "closeVaultSpl"}
Payments == {"paySol", "paySpl"}

Accepted(tx) ==
  /\ vault.status = IF tx.name = "initializeVault" THEN "none" ELSE "open"
  /\ tx.name \in Native => vault.native
  /\ tx.name \in Token => ~vault.native
  /\ \A i \in DOMAIN IDL!Instructions[tx.name] :
       LET a == IDL!Instructions[tx.name][i]
       IN  /\ a.signer => tx.at[a.role] \in tx.signed
           /\ a.related => tx.at[a.role] = vault[a.role]

(* Mutant: naming the owner is enough.                                     *)
Mut_Authorized(tx) ==
  /\ tx.at.owner = vault.owner
  /\ vault.active /\ tx.at.delegate = vault.delegate
  /\ 0 < tx.amount /\ tx.amount <= vault.funds

Authorized(tx) ==
  /\ tx.at.owner = vault.owner
  /\ vault.active /\ tx.at.delegate = vault.delegate
  /\ 0 < tx.amount /\ tx.amount <= vault.funds
  /\ tx.amount >= CosignAt => tx.at.owner \in tx.signed

Withdrawable(tx) == 0 < tx.amount /\ tx.amount <= vault.funds

Effect(tx) ==
  CASE tx.name = "initializeVault"
         -> [vault EXCEPT !.status = "open", !.owner = tx.at.owner, !.active = TRUE,
                          !.delegate = tx.at.delegate]
    [] tx.name \in {"setPolicy", "manageList", "resetWindow"}
         -> [vault EXCEPT !.rules = ~@]
    [] tx.name = "setDelegate"
         -> [vault EXCEPT !.delegate = tx.at.delegate, !.active = TRUE]
    [] tx.name = "setDelegateActive" -> [vault EXCEPT !.active = (tx.amount = 1)]
    [] tx.name \in {"depositSol", "depositSpl"} /\ vault.funds + tx.amount <= MaxFunds
         -> [vault EXCEPT !.funds = @ + tx.amount]
    [] tx.name \in {"withdrawSol", "withdrawSpl"} /\ Withdrawable(tx)
         -> [vault EXCEPT !.funds = @ - tx.amount]
    [] tx.name \in Payments /\ Authorized(tx) /\ tx.at.recipient # TheVault
         -> [vault EXCEPT !.funds = @ - tx.amount]
    [] tx.name \in {"closeVaultSol", "closeVaultSpl"}
         -> [vault EXCEPT !.status = "closed", !.funds = 0]
    [] tx.name = "sweepToken" -> [vault EXCEPT !.funds = IF vault.native THEN @ ELSE 0]
    [] OTHER -> vault

land(tx) ==
  /\ flight' = flight \ {tx}
  /\ vault' = IF ~tx.thrown /\ Accepted(tx) THEN Effect(tx) ELSE vault

Send ==
  \/ \E owner \in {OwnerKey, Stranger} :
       \/ \E agent \in Agents : initializeVault(owner, agent) \/ setDelegate(owner, agent)
       \/ setPolicy(owner) \/ manageList(owner) \/ resetWindow(owner)
       \/ \E active \in BOOLEAN : setDelegateActive(owner, active)
       \/ \E n \in Typed : \/ depositSol(owner, n) \/ depositSpl(owner, n)
                           \/ withdrawSol(owner, n) \/ withdrawSpl(owner, n)
       \/ closeVaultSol(owner) \/ closeVaultSpl(owner)
       \/ \E agent \in Agents : \E to \in Recipients(agent) :
            \E cosign \in BOOLEAN, n \in Typed :
              \/ paySol(agent, to, owner, cosign, n)
              \/ paySpl(agent, to, owner, cosign, n)
              \/ cliPay(agent, to, owner, cosign, n)
  \/ \E name \in DOMAIN IDL!Instructions, key \in Agents \cup {Stranger} :
       \E owner \in {OwnerKey, key} : byHand(name, key, owner, key)

Next ==
  \/ Cardinality(flight) < MaxFlight /\ Send
  \/ \E tx \in flight : land(tx)

Spec == Init /\ [][Next]_vars

-----------------------------------------------------------------------------
(* Every transaction the backend builds carries exactly the signatures its *)
(* instruction asks for, whatever keys coincide; the command line fails    *)
(* only when it asks a wallet to co-sign that is not the vault's owner.    *)
OnlyForeignCosignerThrows ==
  \A tx \in flight :
    tx.thrown => tx.from = "cli" /\ tx.signed \ {OwnerKey, tx.at.delegate} # {}

(* Money leaves the vault in a payment only by the key that is the         *)
(* delegate when it lands, and at the threshold only with the owner's own  *)
(* signature: a transaction signed before the delegate was replaced or     *)
(* revoked is worth nothing.                                               *)
PaymentsAuthorized ==
  [][\A tx \in flight \ flight' :
       tx.name \in Payments /\ vault'.funds < vault.funds =>
         /\ vault.active /\ vault.delegate \in tx.signed
         /\ tx.amount >= CosignAt => vault.owner \in tx.signed]_vars

(* Whatever a holder of other keys than the owner's signs, it changes      *)
(* nothing of the vault but its balance, by a payment or a deposit.        *)
OnlyOwnerChangesVault ==
  [][\A tx \in flight \ flight' :
       vault.owner \notin tx.signed /\ vault.status = "open" =>
         /\ vault' = [vault EXCEPT !.funds = vault'.funds]
         /\ vault'.funds < vault.funds => tx.name \in Payments]_vars

(* A co-signature lends the owner's authority and none of its money: the   *)
(* transaction cannot write the owner's accounts, unless the owner is      *)
(* itself paid or is its own delegate.                                     *)
CosignSpendsNothingElse ==
  \A tx \in flight :
    tx.name \in Payments /\ tx.at.owner \notin {tx.at.delegate, tx.at.recipient} =>
      \A account \in tx.writable : account[1] # tx.at.owner

(* What is asked of the chain is what was written: an amount of whole base *)
(* units, a number's binary error included, arrives as exactly that many,  *)
(* through the backend and the command line.  Only its sign is lost: an    *)
(* amount below zero arrives as its magnitude.                             *)
AmountAsTyped ==
  \A tx \in flight : \A m \in 0 .. MaxFunds :
    StandsFor(tx.typed, m) => tx.amount = m
=============================================================================
