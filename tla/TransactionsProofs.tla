-------------------------- MODULE TransactionsProofs --------------------------
(***************************************************************************)
(* What signatures are worth, for any keys, amounts and threshold, any     *)
(* number of transactions in flight and any order they land in.            *)
(***************************************************************************)
EXTENDS Transactions, TLAPS, WellFoundedInduction

-----------------------------------------------------------------------------
(* The program's interface, instruction by instruction.                    *)
Named == DOMAIN IDL!Instructions
Listing(name) == IDL!Instructions[name]

OwnerNames ==
  {"setPolicy", "setDelegate", "setDelegateActive", "manageList", "resetWindow",
   "withdrawSol", "withdrawSpl", "closeVaultSol", "closeVaultSpl", "sweepToken"}

OwnerSent == OwnerNames \cup {"initializeVault", "depositSol", "depositSpl"}

LEMMA AllNames == Named = OwnerSent \cup Payments
BY DEF Named, IDL!Instructions, OwnerSent, OwnerNames, Payments

(* An owner's instruction demands the signature of the vault's owner.      *)
LEMMA OwnerSigns ==
  ASSUME NEW name \in OwnerNames
  PROVE  \E i \in DOMAIN Listing(name) :
           /\ Listing(name)[i].role = "owner"
           /\ Listing(name)[i].signer /\ Listing(name)[i].related
<1> USE DEF Listing, IDL!Instructions, IDL!W, IDL!R, IDL!WS, IDL!S, IDL!Owner,
            IDL!OwnerPaying, IDL!Account
<1>1. CASE name = "setPolicy"
  BY <1>1 DEF IDL!setPolicy
<1>2. CASE name = "setDelegate"
  BY <1>2 DEF IDL!setDelegate
<1>3. CASE name = "setDelegateActive"
  BY <1>3 DEF IDL!setDelegateActive
<1>4. CASE name = "manageList"
  BY <1>4 DEF IDL!manageList
<1>5. CASE name = "resetWindow"
  BY <1>5 DEF IDL!resetWindow
<1>6. CASE name = "withdrawSol"
  BY <1>6 DEF IDL!withdrawSol
<1>7. CASE name = "withdrawSpl"
  BY <1>7 DEF IDL!withdrawSpl
<1>8. CASE name = "closeVaultSol"
  BY <1>8 DEF IDL!closeVaultSol
<1>9. CASE name = "closeVaultSpl"
  BY <1>9 DEF IDL!closeVaultSpl
<1>10. CASE name = "sweepToken"
  BY <1>10 DEF IDL!sweepToken
<1> QED
  BY <1>1, <1>2, <1>3, <1>4, <1>5, <1>6, <1>7, <1>8, <1>9, <1>10 DEF OwnerNames

(* What the backend sends for its owner is signed by nobody else.          *)
LEMMA OnlyOwnerSigns ==
  ASSUME NEW name \in OwnerSent
  PROVE  \A i \in DOMAIN Listing(name) :
           Listing(name)[i].signer => Listing(name)[i].role \in {"owner", "depositor"}
<1> USE DEF Listing, IDL!Instructions, IDL!W, IDL!R, IDL!WS, IDL!S, IDL!Owner,
            IDL!OwnerPaying, IDL!Account
<1>1. CASE name = "setPolicy"
  BY <1>1 DEF IDL!setPolicy
<1>2. CASE name = "setDelegate"
  BY <1>2 DEF IDL!setDelegate
<1>3. CASE name = "setDelegateActive"
  BY <1>3 DEF IDL!setDelegateActive
<1>4. CASE name = "manageList"
  BY <1>4 DEF IDL!manageList
<1>5. CASE name = "resetWindow"
  BY <1>5 DEF IDL!resetWindow
<1>6. CASE name = "withdrawSol"
  BY <1>6 DEF IDL!withdrawSol
<1>7. CASE name = "withdrawSpl"
  BY <1>7 DEF IDL!withdrawSpl
<1>8. CASE name = "closeVaultSol"
  BY <1>8 DEF IDL!closeVaultSol
<1>9. CASE name = "closeVaultSpl"
  BY <1>9 DEF IDL!closeVaultSpl
<1>10. CASE name = "sweepToken"
  BY <1>10 DEF IDL!sweepToken
<1>11. CASE name = "initializeVault"
  BY <1>11 DEF IDL!initializeVault
<1>12. CASE name = "depositSol"
  BY <1>12 DEF IDL!depositSol
<1>13. CASE name = "depositSpl"
  BY <1>13 DEF IDL!depositSpl
<1> QED
  BY <1>1, <1>2, <1>3, <1>4, <1>5, <1>6, <1>7, <1>8, <1>9, <1>10, <1>11, <1>12, <1>13
     DEF OwnerSent, OwnerNames

(* A payment is signed by the delegate, lists the owner, and writes only   *)
(* accounts of the vault, the delegate and the recipient.                  *)
LEMMA PaymentListing ==
  ASSUME NEW name \in Payments
  PROVE  /\ \E i \in DOMAIN Listing(name) :
              Listing(name)[i].role = "delegate" /\ Listing(name)[i].signer
         /\ \E i \in DOMAIN Listing(name) : Listing(name)[i].role = "owner"
         /\ \A i \in DOMAIN Listing(name) :
              /\ Listing(name)[i].signer => Listing(name)[i].role = "delegate"
              /\ Listing(name)[i].writable =>
                   Listing(name)[i].role \in {"vault", "vaultAta", "delegate", "recipient",
                                             "recipientAta"}
         /\ DOMAIN Listing(name) \subseteq Nat
<1> USE DEF Listing, IDL!Instructions, IDL!W, IDL!R, IDL!WS, IDL!S, IDL!Account
<1>1. CASE name = "paySol"
  <2> DEFINE l == Listing(name)
  <2>1. DOMAIN l = 1 .. 4
    BY <1>1 DEF IDL!paySol
  <2>2. 2 \in DOMAIN l /\ l[2].role = "delegate" /\ l[2].signer
    BY <1>1 DEF IDL!paySol
  <2>3. 4 \in DOMAIN l /\ l[4].role = "owner"
    BY <1>1 DEF IDL!paySol
  <2>4. ASSUME NEW i \in DOMAIN l
        PROVE  /\ l[i].signer => l[i].role = "delegate"
               /\ l[i].writable =>
                    l[i].role \in {"vault", "vaultAta", "delegate", "recipient", "recipientAta"}
    BY <1>1, <2>1, <2>4 DEF IDL!paySol
  <2> HIDE DEF Listing, l
  <2>5. \E i \in DOMAIN l : l[i].role = "delegate" /\ l[i].signer
    BY <2>2
  <2>6. \E i \in DOMAIN l : l[i].role = "owner"
    BY <2>3
  <2>7. DOMAIN l \subseteq Nat
    BY <2>1
  <2> QED
    BY <2>4, <2>5, <2>6, <2>7, Zenon DEF l
<1>2. CASE name = "paySpl"
  <2> DEFINE l == Listing(name)
  <2>1. DOMAIN l = 1 .. 7
    BY <1>2 DEF IDL!paySpl
  <2>2. 4 \in DOMAIN l /\ l[4].role = "delegate" /\ l[4].signer
    BY <1>2 DEF IDL!paySpl
  <2>3. 7 \in DOMAIN l /\ l[7].role = "owner"
    BY <1>2 DEF IDL!paySpl
  <2>4. ASSUME NEW i \in DOMAIN l
        PROVE  /\ l[i].signer => l[i].role = "delegate"
               /\ l[i].writable =>
                    l[i].role \in {"vault", "vaultAta", "delegate", "recipient", "recipientAta"}
    BY <1>2, <2>1, <2>4 DEF IDL!paySpl
  <2> HIDE DEF Listing, l
  <2>5. \E i \in DOMAIN l : l[i].role = "delegate" /\ l[i].signer
    BY <2>2
  <2>6. \E i \in DOMAIN l : l[i].role = "owner"
    BY <2>3
  <2>7. DOMAIN l \subseteq Nat
    BY <2>1
  <2> QED
    BY <2>4, <2>5, <2>6, <2>7, Zenon DEF l
<1> QED
  BY <1>1, <1>2 DEF Payments

LEMMA HoldersNamed ==
  /\ DOMAIN IDL!HolderOf = {"vaultAta", "vaultTokenAccount", "ownerAta", "recipientAta",
                            "depositorAta"}
  /\ IDL!HolderOf["vaultAta"] = "vault" /\ IDL!HolderOf["recipientAta"] = "recipient"
BY DEF IDL!HolderOf

-----------------------------------------------------------------------------
(* Where a role's account is, and who it belongs to.                       *)
LEMMA AddressOwners ==
  ASSUME NEW at
  PROVE  /\ \A role \in {"vault", "owner", "delegate", "recipient", "depositor"} :
              AddressOf(at, role) = <<at[role], "wallet">>
         /\ AddressOf(at, "vaultAta")[1] = at["vault"]
         /\ AddressOf(at, "recipientAta")[1] = at["recipient"]
BY HoldersNamed DEF AddressOf

LEMMA MetasListed ==
  ASSUME NEW name, NEW at
  PROVE  /\ DOMAIN Metas(name, at) = DOMAIN Listing(name)
         /\ \A i \in DOMAIN Listing(name) :
              /\ Metas(name, at)[i].key = AddressOf(at, Listing(name)[i].role)
              /\ Metas(name, at)[i].writable = Listing(name)[i].writable
              /\ Metas(name, at)[i].signer = Listing(name)[i].signer
BY DEF Metas, Listing

LEMMA LeastHit ==
  ASSUME NEW T \in SUBSET Nat, T # {}
  PROVE  \E i \in T : \A j \in T : i <= j
<1>1. PICK x \in T : \A y \in T : ~(<<y, x>> \in OpToRel(<, Nat))
  BY NatLessThanWellFounded, WFMin
<1>2. ASSUME NEW y \in T PROVE ~(y < x)
  <2> SUFFICES ASSUME y < x PROVE FALSE
    OBVIOUS
  <2>1. <<y, x>> \in OpToRel(<, Nat)
    BY DEF OpToRel
  <2> QED
    BY <2>1, <1>1
<1> QED
  BY <1>2

(* markSigner adds one signature, the key's, when the message names it.    *)
LEMMA MarkedSigners ==
  ASSUME NEW metas, DOMAIN metas \subseteq Nat, NEW key, NEW payer,
         \A i \in DOMAIN metas : metas[i] = [key |-> metas[i].key, writable |-> metas[i].writable,
                                             signer |-> metas[i].signer],
         \E i \in DOMAIN metas : metas[i].key = <<key, "wallet">>
  PROVE  Signers(markSigner(metas, key), payer) = Signers(metas, payer) \cup {key}
<1> DEFINE hits == {i \in DOMAIN metas : metas[i].key = <<key, "wallet">>}
           marked == markSigner(metas, key)
           first(i) == i \in hits /\ \A j \in hits : i <= j
<1>1. PICK i0 \in DOMAIN metas : first(i0)
  BY LeastHit
<1>2. /\ DOMAIN marked = DOMAIN metas
      /\ \A i \in DOMAIN metas :
           marked[i] = IF first(i) THEN [metas[i] EXCEPT !.signer = TRUE] ELSE metas[i]
  BY DEF markSigner
<1>3. \A i \in DOMAIN metas : first(i) => metas[i].key = <<key, "wallet">> /\ <<key, "wallet">>[1] = key
  OBVIOUS
<1> HIDE DEF marked, first, hits
<1>4. \A i \in DOMAIN metas : /\ marked[i].key = metas[i].key
                              /\ marked[i].signer <=> (first(i) \/ metas[i].signer)
  BY <1>2
<1> QED
  BY <1>1, <1>2, <1>3, <1>4 DEF Signers, marked

(* Each meta is a record of three fields.                                  *)
LEMMA MetaFields ==
  ASSUME NEW name, NEW at
  PROVE  \A i \in DOMAIN Metas(name, at) :
           Metas(name, at)[i] = [key |-> Metas(name, at)[i].key,
                                 writable |-> Metas(name, at)[i].writable,
                                 signer |-> Metas(name, at)[i].signer]
BY DEF Metas

(* Marking a signer makes nothing writable.                                *)
LEMMA MarkedWritables ==
  ASSUME NEW metas, NEW key, NEW payer,
         \A i \in DOMAIN metas : metas[i] = [key |-> metas[i].key, writable |-> metas[i].writable,
                                             signer |-> metas[i].signer]
  PROVE  Writables(markSigner(metas, key), payer) = Writables(metas, payer)
<1> DEFINE marked == markSigner(metas, key)
<1>1. /\ DOMAIN marked = DOMAIN metas
      /\ \A i \in DOMAIN metas :
           marked[i] \in {metas[i], [metas[i] EXCEPT !.signer = TRUE]}
  BY DEF markSigner
<1> HIDE DEF marked
<1>2. \A i \in DOMAIN metas : /\ marked[i].key = metas[i].key
                              /\ marked[i].writable = metas[i].writable
  BY <1>1
<1> QED
  BY <1>1, <1>2 DEF Writables, marked

(* The owner alone signs what is sent for it.                              *)
LEMMA SignersOfOwner ==
  ASSUME NEW name \in OwnerSent, NEW owner, NEW delegate, NEW recipient
  PROVE  Signers(Metas(name, At(owner, delegate, recipient)), owner) = {owner}
<1> DEFINE at == At(owner, delegate, recipient)
           metas == Metas(name, at)
<1>1. at["owner"] = owner /\ at["depositor"] = owner
  BY DEF At
<1> HIDE DEF at
<1>2. DOMAIN metas = DOMAIN Listing(name)
  BY MetasListed
<1>3. ASSUME NEW i \in DOMAIN metas, metas[i].signer PROVE metas[i].key[1] = owner
  <2>1. Listing(name)[i].role \in {"owner", "depositor"}
    BY <1>2, <1>3, MetasListed, OnlyOwnerSigns
  <2>2. metas[i].key = AddressOf(at, Listing(name)[i].role)
    BY <1>2, MetasListed
  <2>3. AddressOf(at, Listing(name)[i].role) = <<owner, "wallet">>
    BY <2>1, <1>1, AddressOwners
  <2>4. <<owner, "wallet">>[1] = owner
    OBVIOUS
  <2> QED
    BY <2>2, <2>3, <2>4
<1> HIDE DEF metas
<1>4. Signers(metas, owner) = {owner}
  BY <1>3 DEF Signers
<1> QED
  BY <1>4 DEF metas, at

(* The delegate alone signs a payment that nobody co-signs.                *)
LEMMA SignersOfPayment ==
  ASSUME NEW name \in Payments, NEW owner, NEW delegate, NEW recipient
  PROVE  Signers(Metas(name, At(owner, delegate, recipient)), delegate) = {delegate}
<1> DEFINE at == At(owner, delegate, recipient)
           metas == Metas(name, at)
<1>1. at["delegate"] = delegate
  BY DEF At
<1> HIDE DEF at
<1>2. DOMAIN metas = DOMAIN Listing(name)
  BY MetasListed
<1>3. ASSUME NEW i \in DOMAIN metas, metas[i].signer PROVE metas[i].key[1] = delegate
  <2>1. Listing(name)[i].role = "delegate"
    BY <1>2, <1>3, MetasListed, PaymentListing
  <2>2. metas[i].key = AddressOf(at, Listing(name)[i].role)
    BY <1>2, MetasListed
  <2>3. AddressOf(at, Listing(name)[i].role) = <<delegate, "wallet">>
    BY <2>1, <1>1, AddressOwners
  <2>4. <<delegate, "wallet">>[1] = delegate
    OBVIOUS
  <2> QED
    BY <2>2, <2>3, <2>4
<1> HIDE DEF metas
<1>4. Signers(metas, delegate) = {delegate}
  BY <1>3 DEF Signers
<1> QED
  BY <1>4 DEF metas, at

(* A co-signed payment is signed by the delegate and by the owner it       *)
(* names, and by nobody else.                                              *)
LEMMA SignersOfCosigned ==
  ASSUME NEW name \in Payments, NEW owner, NEW delegate, NEW recipient
  PROVE  Signers(markSigner(Metas(name, At(owner, delegate, recipient)), owner), delegate)
           = {delegate} \cup {owner}
<1> DEFINE at == At(owner, delegate, recipient)
           metas == Metas(name, at)
<1>1. at["owner"] = owner
  BY DEF At
<1>0. Signers(metas, delegate) = {delegate}
  BY SignersOfPayment
<1> HIDE DEF at
<1>2. DOMAIN metas = DOMAIN Listing(name) /\ DOMAIN Listing(name) \subseteq Nat
  BY MetasListed, PaymentListing
<1>3. PICK i \in DOMAIN Listing(name) : Listing(name)[i].role = "owner"
  BY PaymentListing
<1>4. metas[i].key = AddressOf(at, Listing(name)[i].role)
  BY MetasListed
<1>5. AddressOf(at, "owner") = <<owner, "wallet">>
  BY <1>1, AddressOwners
<1>6. \E j \in DOMAIN metas : metas[j].key = <<owner, "wallet">>
  BY <1>2, <1>3, <1>4, <1>5
<1>7. \A j \in DOMAIN metas : metas[j] = [key |-> metas[j].key, writable |-> metas[j].writable,
                                          signer |-> metas[j].signer]
  BY MetaFields
<1> HIDE DEF metas
<1>8. Signers(markSigner(metas, owner), delegate) = Signers(metas, delegate) \cup {owner}
  BY <1>2, <1>6, <1>7, MarkedSigners
<1> QED
  BY <1>0, <1>8, Zenon DEF metas, at

(* What a payment can write belongs to the vault, the delegate or whoever  *)
(* is paid.                                                                *)
LEMMA WrittenByPayment ==
  ASSUME NEW name \in Payments, NEW at
  PROVE  \A account \in Writables(Metas(name, at), at["delegate"]) :
           account[1] \in {at["vault"], at["delegate"], at["recipient"]}
<1> DEFINE metas == Metas(name, at)
<1>2. DOMAIN metas = DOMAIN Listing(name)
  BY MetasListed
<1>3. ASSUME NEW i \in DOMAIN metas, metas[i].writable
      PROVE  metas[i].key[1] \in {at["vault"], at["delegate"], at["recipient"]}
  <2> DEFINE role == Listing(name)[i].role
  <2>1. role \in {"vault", "vaultAta", "delegate", "recipient", "recipientAta"}
    BY <1>2, <1>3, MetasListed, PaymentListing
  <2>2. metas[i].key = AddressOf(at, role)
    BY <1>2, MetasListed
  <2> HIDE DEF role
  <2>3. ASSUME NEW r \in {"vault", "delegate", "recipient"} PROVE AddressOf(at, r)[1] = at[r]
    <3>1. AddressOf(at, r) = <<at[r], "wallet">>
      BY AddressOwners
    <3> QED
      BY <3>1
  <2>4. AddressOf(at, role)[1] \in {at["vault"], at["delegate"], at["recipient"]}
    BY <2>1, <2>3, AddressOwners
  <2> QED
    BY <2>2, <2>4
<1> HIDE DEF metas
<1>4. <<at["delegate"], "wallet">>[1] = at["delegate"]
  OBVIOUS
<1>5. \A account \in Writables(metas, at["delegate"]) :
        account[1] \in {at["vault"], at["delegate"], at["recipient"]}
  BY <1>3, <1>4 DEF Writables
<1> QED
  BY <1>5 DEF metas

-----------------------------------------------------------------------------
(* The amounts.                                                            *)
LEMMA AmountsTyped ==
  ASSUME NEW ui \in Literals
  PROVE  /\ toBaseUnits(ui) \in Int /\ U64(toBaseUnits(ui)) \in Nat
         /\ lam(ui) \in Int /\ U64(lam(ui)) \in Nat
<1>1. ui.n \in Int
  BY DEF Literals
<1>2. Magnitude(ui.n) \in Nat
  BY <1>1 DEF Magnitude
<1>3. \A k \in Nat : k \div 1000 \in Nat /\ ((k + 5) \div 10) \div 100 \in Nat
  <2>1. \A k \in Nat : k \div 1000 \in Nat /\ (k + 5) \div 10 \in Nat /\ k \div 100 \in Nat
    OBVIOUS
  <2> QED
    BY <2>1
<1>4. toBaseUnits(ui) \in Int
  BY <1>2, <1>3 DEF toBaseUnits
<1>5. lam(ui) \in Int
  BY <1>1 DEF lam
<1>6. \A u \in Int : U64(u) \in Nat
  BY DEF U64, Magnitude
<1> QED
  BY <1>4, <1>5, <1>6

(* A literal that stands for m base units comes out as m.                  *)
LEMMA LiteralsExact ==
  ASSUME NEW ui \in Literals, NEW m \in Nat, StandsFor(ui, m)
  PROVE  U64(toBaseUnits(ui)) = m /\ U64(lam(ui)) = m
<1> DEFINE k == Magnitude(ui.n)
           units == IF ui.text THEN k \div 1000 ELSE ((k + 5) \div 10) \div 100
<1>1. ui.n \in Int /\ k \in Nat /\ (ui.n = k \/ ui.n = -k)
  BY DEF Literals, Magnitude
<1>2. 1000 * m - 5 <= k /\ k <= 1000 * m + 4
  BY <1>1 DEF StandsFor, Near
<1>3. ui.text => k = 1000 * m
  BY <1>1 DEF StandsFor
<1>4. toBaseUnits(ui) = units \/ toBaseUnits(ui) = -units
  BY DEF toBaseUnits
<1> HIDE DEF k
<1>5. (k + 5) \div 10 = 100 * m
  BY <1>1, <1>2
<1>6. (100 * m) \div 100 = m /\ (1000 * m) \div 1000 = m
  OBVIOUS
<1>7. units = m
  BY <1>3, <1>5, <1>6
<1>8. lam(ui) = m \/ lam(ui) = -m
  <2>1. (k + 500) \div 1000 = m
    BY <1>1, <1>2
  <2>2. (-k + 500) \div 1000 = -m
    BY <1>1, <1>2
  <2> QED
    BY <1>1, <2>1, <2>2 DEF lam
<1>9. \A u \in {m, -m} : U64(u) = m
  BY DEF U64, Magnitude
<1> QED
  BY <1>4, <1>7, <1>8, <1>9

-----------------------------------------------------------------------------
(* What holds of a transaction from the moment it is built.                *)
Sound(tx) ==
  /\ tx.name \in Named
  /\ tx.typed \in Literals
  /\ tx.amount \in {U64(toBaseUnits(tx.typed)), U64(lam(tx.typed))}
  /\ tx.thrown => tx.from = "cli" /\ tx.signed \ {OwnerKey, tx.at.delegate} # {}
  /\ tx.name \in Payments /\ tx.at.owner \notin {tx.at.delegate, tx.at.recipient} =>
       \A account \in tx.writable : account[1] # tx.at.owner

Built(name, at, typed, amount, metas, keys, payer, from) ==
  [name |-> name, at |-> at, typed |-> typed, amount |-> amount, from |-> from,
   signed |-> keys, writable |-> Writables(metas, payer),
   thrown |-> Signers(metas, payer) # keys]

(* A transaction is built, it is sound, and the chain has not moved.       *)
Builds == UNCHANGED vault /\ \E tx : Sound(tx) /\ flight' = flight \cup {tx}

LEMMA SendsSound ==
  ASSUME NEW name \in Named, NEW at, NEW typed \in Literals,
         NEW amount \in {U64(toBaseUnits(typed)), U64(lam(typed))}, NEW metas, NEW keys,
         NEW payer, NEW from,
         Signers(metas, payer) # keys => from = "cli" /\ keys \ {OwnerKey, at.delegate} # {},
         name \in Payments /\ at.owner \notin {at.delegate, at.recipient} =>
           \A account \in Writables(metas, payer) : account[1] # at.owner,
         send(name, at, typed, amount, metas, keys, payer, from)
  PROVE  Builds
<1> DEFINE tx == Built(name, at, typed, amount, metas, keys, payer, from)
<1>1. flight' = flight \cup {tx} /\ UNCHANGED vault
  BY DEF send, Built
<1>2. /\ tx.name = name /\ tx.at = at /\ tx.typed = typed /\ tx.amount = amount
      /\ tx.from = from /\ tx.signed = keys /\ tx.writable = Writables(metas, payer)
      /\ tx.thrown <=> Signers(metas, payer) # keys
  BY DEF Built
<1> HIDE DEF tx
<1>3. Sound(tx)
  BY <1>2 DEF Sound
<1> QED
  BY <1>1, <1>3 DEF Builds

LEMMA WholeLiterals ==
  /\ \A m \in {0, 1} : Whole(m) \in Literals
  /\ U64(lam(Whole(1))) = 1
<1>1. \A m \in {0, 1} : Whole(m) = [n |-> 1000 * m, text |-> TRUE] /\ 1000 * m \in Int
  BY DEF Whole
<1>2. lam(Whole(1)) = 1
  BY <1>1 DEF lam
<1>3. \A i \in Int : [n |-> i, text |-> TRUE] \in Literals
  BY DEF Literals
<1>4. U64(1) = 1
  BY DEF U64, Magnitude
<1> QED
  BY <1>1, <1>2, <1>3, <1>4

LEMMA OwnerSendsSound ==
  ASSUME NEW name \in OwnerSent, NEW owner, NEW delegate, NEW n \in Literals,
         OwnerSends(name, owner, delegate, n)
  PROVE  Builds
<1> DEFINE at == At(owner, delegate, owner)
<1>1. Signers(Metas(name, at), owner) = {owner}
  BY SignersOfOwner
<1>2. name \in Named /\ name \notin Payments
  BY AllNames DEF OwnerSent, OwnerNames, Payments
<1>3. send(name, at, n, U64(toBaseUnits(n)), Metas(name, at), {owner}, owner, "backend")
  BY DEF OwnerSends
<1> HIDE DEF at
<1> QED
  BY <1>1, <1>2, <1>3, SendsSound

(* The owner that a payment names is no account a payment writes, unless   *)
(* it is itself the delegate or the payee.                                 *)
LEMMA OwnerUnwritten ==
  ASSUME NEW name \in Payments, NEW owner, owner # TheVault, NEW at,
         at.vault = TheVault, at.owner = owner, NEW key,
         owner \notin {at.delegate, at.recipient}
  PROVE  /\ \A account \in Writables(Metas(name, at), at.delegate) : account[1] # owner
         /\ \A account \in Writables(markSigner(Metas(name, at), key), at.delegate) :
              account[1] # owner
<1>1. \A account \in Writables(Metas(name, at), at.delegate) : account[1] # owner
  BY WrittenByPayment
<1>2. Writables(markSigner(Metas(name, at), key), at.delegate)
        = Writables(Metas(name, at), at.delegate)
  BY MetaFields, MarkedWritables
<1> QED
  BY <1>1, <1>2

LEMMA PaySound ==
  ASSUME NEW name \in Payments, NEW delegate, NEW recipient, NEW owner, owner # TheVault,
         NEW cosign \in BOOLEAN, NEW n \in Literals,
         Pay(name, delegate, recipient, owner, cosign, n)
  PROVE  Builds
<1> DEFINE at == At(owner, delegate, recipient)
           metas == IF cosign THEN markSigner(Metas(name, at), owner) ELSE Metas(name, at)
           keys == {delegate} \cup (IF cosign THEN {owner} ELSE {})
<1>1. send(name, at, n, U64(toBaseUnits(n)), metas, keys, delegate, "backend")
  BY DEF Pay
<1>2. Signers(metas, delegate) = keys
  <2>1. CASE cosign
    BY <2>1, SignersOfCosigned
  <2>2. CASE ~cosign
    BY <2>2, SignersOfPayment
  <2> QED
    BY <2>1, <2>2
<1>3. at.vault = TheVault /\ at.owner = owner /\ at.delegate = delegate
  BY DEF At
<1>4. name \in Named
  BY AllNames
<1> HIDE DEF at
<1>5. owner \notin {at.delegate, at.recipient} =>
        \A account \in Writables(metas, delegate) : account[1] # owner
  BY <1>3, OwnerUnwritten
<1> HIDE DEF metas, keys
<1> QED
  BY <1>1, <1>2, <1>3, <1>4, <1>5, SendsSound

(* A command line that has another wallet than the saved owner co-sign is  *)
(* the one thing that throws.                                              *)
LEMMA CliPaySound ==
  ASSUME NEW delegate \in Agents, NEW recipient, NEW keypair \in {OwnerKey, Stranger},
         NEW cosign \in BOOLEAN, NEW n \in Literals,
         cliPay(delegate, recipient, keypair, cosign, n)
  PROVE  Builds
<1> DEFINE at == At(OwnerKey, delegate, recipient)
           metas == IF cosign THEN markSigner(Metas("paySol", at), keypair)
                              ELSE Metas("paySol", at)
           keys == {delegate} \cup (IF cosign THEN {keypair} ELSE {})
<1>0. "paySol" \in Payments
  BY DEF Payments
<1>1. send("paySol", at, n, U64(lam(n)), metas, keys, delegate, "cli")
  BY DEF cliPay
<1>2. Signers(metas, delegate) # keys => keys \ {OwnerKey, delegate} # {}
  <2>1. CASE cosign /\ keypair = OwnerKey
    BY <1>0, <2>1, SignersOfCosigned
  <2>2. CASE ~cosign
    BY <1>0, <2>2, SignersOfPayment
  <2>3. CASE cosign /\ keypair = Stranger
    BY <2>3, AddressesAssumption
  <2> QED
    BY <2>1, <2>2, <2>3
<1>3. at.vault = TheVault /\ at.owner = OwnerKey /\ at.delegate = delegate
  BY DEF At
<1>4. "paySol" \in Named
  BY <1>0, AllNames
<1> HIDE DEF at
<1>5. OwnerKey \notin {at.delegate, at.recipient} =>
        \A account \in Writables(metas, delegate) : account[1] # OwnerKey
  BY <1>0, <1>3, AddressesAssumption, OwnerUnwritten
<1> HIDE DEF metas, keys
<1> QED
  BY <1>1, <1>2, <1>3, <1>4, <1>5, SendsSound

LEMMA ByHandSound ==
  ASSUME NEW name \in Named, NEW key, NEW owner \in {OwnerKey, key},
         byHand(name, key, owner, key)
  PROVE  Builds
<1> DEFINE at == [At(owner, key, key) EXCEPT !.depositor = key]
           metas == Metas(name, at)
<1>1. send(name, at, Whole(1), 1, metas, {key}, key, "hand") /\ Signers(metas, key) = {key}
  BY DEF byHand
<1>2. /\ at.vault = TheVault /\ at.owner = owner /\ at.delegate = key
      /\ at["delegate"] = key
  BY DEF At
<1>3. Whole(1) \in Literals /\ U64(lam(Whole(1))) = 1
  BY WholeLiterals
<1> HIDE DEF at
<1>4. name \in Payments /\ owner \notin {at.delegate, at.recipient} =>
        \A account \in Writables(metas, key) : account[1] # owner
  BY <1>2, AddressesAssumption, OwnerUnwritten
<1> HIDE DEF metas
<1> QED
  BY <1>1, <1>2, <1>3, <1>4, SendsSound

(* Every way to send.                                                      *)
LEMMA EverySendSound ==
  ASSUME Send
  PROVE  Builds
<1> USE TypedAssumption, WholeLiterals
<1>1. ASSUME NEW owner \in {OwnerKey, Stranger}, NEW agent \in Agents,
             initializeVault(owner, agent) \/ setDelegate(owner, agent)
      PROVE  Builds
  BY <1>1, OwnerSendsSound DEF initializeVault, setDelegate, OwnerSent, OwnerNames
<1>2. ASSUME NEW owner \in {OwnerKey, Stranger},
             setPolicy(owner) \/ manageList(owner) \/ resetWindow(owner)
      PROVE  Builds
  BY <1>2, OwnerSendsSound DEF setPolicy, manageList, resetWindow, OwnerSent, OwnerNames
<1>3. ASSUME NEW owner \in {OwnerKey, Stranger}, NEW active \in BOOLEAN,
             setDelegateActive(owner, active)
      PROVE  Builds
  BY <1>3, OwnerSendsSound DEF setDelegateActive, OwnerSent, OwnerNames
<1>4. ASSUME NEW owner \in {OwnerKey, Stranger}, NEW n \in Typed,
             \/ depositSol(owner, n) \/ depositSpl(owner, n)
             \/ withdrawSol(owner, n) \/ withdrawSpl(owner, n)
      PROVE  Builds
  BY <1>4, OwnerSendsSound
     DEF depositSol, depositSpl, withdrawSol, withdrawSpl, OwnerSent, OwnerNames
<1>5. ASSUME NEW owner \in {OwnerKey, Stranger}, closeVaultSol(owner) \/ closeVaultSpl(owner)
      PROVE  Builds
  BY <1>5, OwnerSendsSound DEF closeVaultSol, closeVaultSpl, OwnerSent, OwnerNames
<1>6. ASSUME NEW owner \in {OwnerKey, Stranger}, NEW agent \in Agents,
             NEW to \in Recipients(agent), NEW cosign \in BOOLEAN, NEW n \in Typed,
             \/ paySol(agent, to, owner, cosign, n) \/ paySpl(agent, to, owner, cosign, n)
             \/ cliPay(agent, to, owner, cosign, n)
      PROVE  Builds
  BY <1>6, PaySound, CliPaySound, AddressesAssumption DEF paySol, paySpl, Payments
<1>7. ASSUME NEW name \in Named, NEW key \in Agents \cup {Stranger},
             NEW owner \in {OwnerKey, key}, byHand(name, key, owner, key)
      PROVE  Builds
  BY <1>7, ByHandSound
<1> QED
  BY <1>1, <1>2, <1>3, <1>4, <1>5, <1>6, <1>7, Zenon DEF Send, Named

-----------------------------------------------------------------------------
(* What a transaction does when it lands.                                  *)
IsVault(v) ==
  v = [f \in DOMAIN v |-> v[f]] /\ "funds" \in DOMAIN v /\ v.funds \in Nat

LEMMA FundsSet ==
  ASSUME NEW v, IsVault(v), NEW x \in Nat
  PROVE  /\ IsVault([v EXCEPT !.funds = x])
         /\ [v EXCEPT !.funds = x].funds = x
         /\ [v EXCEPT !.funds = v.funds] = v
BY DEF IsVault

LEMMA FieldSet ==
  ASSUME NEW v, IsVault(v), NEW field, field # "funds", NEW x
  PROVE  /\ IsVault([v EXCEPT ![field] = x])
         /\ [v EXCEPT ![field] = x].funds = v.funds
BY DEF IsVault

(* A payment does nothing, or what it is authorized to.                    *)
LEMMA PaymentEffect ==
  ASSUME NEW tx, tx.name \in Payments
  PROVE  \/ Effect(tx) = vault
         \/ Authorized(tx) /\ Effect(tx) = [vault EXCEPT !.funds = vault.funds - tx.amount]
<1>1. CASE Authorized(tx) /\ tx.at.recipient # TheVault
  BY <1>1 DEF Payments, Effect
<1>2. CASE ~(Authorized(tx) /\ tx.at.recipient # TheVault)
  BY <1>2 DEF Payments, Effect
<1> QED
  BY <1>1, <1>2

LEMMA DepositEffect ==
  ASSUME NEW tx, tx.name \in {"depositSol", "depositSpl"}
  PROVE  \/ Effect(tx) = vault
         \/ Effect(tx) = [vault EXCEPT !.funds = vault.funds + tx.amount]
<1>1. CASE vault.funds + tx.amount <= MaxFunds
  BY <1>1 DEF Effect, Payments
<1>2. CASE ~(vault.funds + tx.amount <= MaxFunds)
  BY <1>2 DEF Effect, Payments
<1> QED
  BY <1>1, <1>2

LEMMA WithdrawalEffect ==
  ASSUME NEW tx, tx.name \in {"withdrawSol", "withdrawSpl"}
  PROVE  \/ Effect(tx) = vault
         \/ Withdrawable(tx) /\ Effect(tx) = [vault EXCEPT !.funds = vault.funds - tx.amount]
<1>1. CASE Withdrawable(tx)
  BY <1>1 DEF Effect, Payments
<1>2. CASE ~Withdrawable(tx)
  BY <1>2 DEF Effect, Payments
<1> QED
  BY <1>1, <1>2

(* The account stays an account with a balance that is not negative.       *)
LEMMA EffectIsVault ==
  ASSUME IsVault(vault), NEW tx, tx.name \in Named, tx.amount \in Nat
  PROVE  IsVault(Effect(tx))
<1>1. CASE tx.name = "initializeVault"
  <2> DEFINE a == [vault EXCEPT !.status = "open"]
             b == [a EXCEPT !.owner = tx.at.owner]
             c == [b EXCEPT !.active = TRUE]
             d == [c EXCEPT !.delegate = tx.at.delegate]
  <2>1. Effect(tx) = d
    BY <1>1 DEF Effect, Payments
  <2>2. IsVault(a)
    BY FieldSet
  <2> HIDE DEF a
  <2>3. IsVault(b)
    BY <2>2, FieldSet
  <2> HIDE DEF b
  <2>4. IsVault(c)
    BY <2>3, FieldSet
  <2> HIDE DEF c
  <2>5. IsVault(d)
    BY <2>4, FieldSet
  <2> QED
    BY <2>1, <2>5
<1>2. CASE tx.name \in {"setPolicy", "manageList", "resetWindow"}
  <2>1. Effect(tx) = [vault EXCEPT !.rules = ~vault.rules]
    BY <1>2 DEF Effect, Payments
  <2> QED
    BY <2>1, FieldSet
<1>3. CASE tx.name = "setDelegate"
  <2> DEFINE a == [vault EXCEPT !.delegate = tx.at.delegate]
  <2>1. Effect(tx) = [a EXCEPT !.active = TRUE]
    BY <1>3 DEF Effect, Payments
  <2>2. IsVault(a)
    BY FieldSet
  <2> HIDE DEF a
  <2> QED
    BY <2>1, <2>2, FieldSet
<1>4. CASE tx.name = "setDelegateActive"
  <2>1. Effect(tx) = [vault EXCEPT !.active = (tx.amount = 1)]
    BY <1>4 DEF Effect, Payments
  <2> QED
    BY <2>1, FieldSet
<1>5. CASE tx.name \in {"depositSol", "depositSpl"}
  <2>1. vault.funds + tx.amount \in Nat
    BY DEF IsVault
  <2> QED
    BY <1>5, <2>1, DepositEffect, FundsSet
<1>6. CASE tx.name \in {"withdrawSol", "withdrawSpl"}
  <2>1. Withdrawable(tx) => vault.funds - tx.amount \in Nat
    BY DEF IsVault, Withdrawable
  <2> QED
    BY <1>6, <2>1, WithdrawalEffect, FundsSet
<1>7. CASE tx.name \in Payments
  <2>1. Authorized(tx) => vault.funds - tx.amount \in Nat
    BY DEF IsVault, Authorized
  <2> QED
    BY <1>7, <2>1, PaymentEffect, FundsSet
<1>8. CASE tx.name \in {"closeVaultSol", "closeVaultSpl"}
  <2> DEFINE a == [vault EXCEPT !.status = "closed"]
  <2>1. Effect(tx) = [a EXCEPT !.funds = 0]
    BY <1>8 DEF Effect, Payments
  <2>2. IsVault(a)
    BY FieldSet
  <2> HIDE DEF a
  <2> QED
    BY <2>1, <2>2, FundsSet
<1>9. CASE tx.name = "sweepToken"
  <2> DEFINE left == IF vault.native THEN vault.funds ELSE 0
  <2>1. Effect(tx) = [vault EXCEPT !.funds = left]
    BY <1>9 DEF Effect, Payments
  <2>2. left \in Nat
    BY DEF IsVault
  <2> HIDE DEF left
  <2> QED
    BY <2>1, <2>2, FundsSet
<1> QED
  BY <1>1, <1>2, <1>3, <1>4, <1>5, <1>6, <1>7, <1>8, <1>9, AllNames
     DEF OwnerSent, OwnerNames

-----------------------------------------------------------------------------
(* The invariant.                                                          *)
FlightInv == IsVault(vault) /\ \A tx \in flight : Sound(tx)

LEMMA InitFlight == Init => FlightInv
BY DEF Init, Unborn, FlightInv, IsVault

LEMMA LandKept ==
  ASSUME FlightInv, NEW tx \in flight, land(tx)
  PROVE  FlightInv'
<1>1. Sound(tx) /\ IsVault(vault)
  BY DEF FlightInv
<1>2. tx.amount \in Nat /\ tx.name \in Named
  BY <1>1, AmountsTyped DEF Sound
<1>3. IsVault(Effect(tx))
  BY <1>1, <1>2, EffectIsVault
<1>4. vault' = Effect(tx) \/ vault' = vault
  BY DEF land
<1>5. IsVault(vault')
  BY <1>1, <1>3, <1>4
<1>6. \A t \in flight' : Sound(t)
  BY DEF FlightInv, land
<1> QED
  BY <1>5, <1>6 DEF FlightInv

LEMMA StepFlight == FlightInv /\ [Next]_vars => FlightInv'
<1> SUFFICES ASSUME FlightInv, [Next]_vars PROVE FlightInv'
  OBVIOUS
<1>1. CASE Send
  <2>1. Builds
    BY <1>1, EverySendSound
  <2> QED
    BY <2>1 DEF Builds, FlightInv
<1>2. ASSUME NEW tx \in flight, land(tx) PROVE FlightInv'
  BY <1>2, LandKept
<1>3. CASE UNCHANGED vars
  BY <1>3 DEF vars, FlightInv
<1> QED
  BY <1>1, <1>2, <1>3 DEF Next

(* Whatever is built and lands, in whatever order: an invariant.           *)
THEOREM FlightCorrect == Spec => []FlightInv
BY InitFlight, StepFlight, PTL DEF Spec

(* The backend never builds a transaction whose signatures are not those   *)
(* its instruction asks for.                                               *)
THEOREM OnlyForeignThrows == Spec => []OnlyForeignCosignerThrows
<1>1. FlightInv => OnlyForeignCosignerThrows
  BY DEF FlightInv, Sound, OnlyForeignCosignerThrows
<1> QED
  BY <1>1, FlightCorrect, PTL

(* No co-signed payment can write an account of the owner's.               *)
THEOREM CosignIsHarmless == Spec => []CosignSpendsNothingElse
<1>1. FlightInv => CosignSpendsNothingElse
  BY DEF FlightInv, Sound, CosignSpendsNothingElse
<1> QED
  BY <1>1, FlightCorrect, PTL

(* What stands for whole base units is sent as that many.                  *)
THEOREM AmountsArrive == Spec => []AmountAsTyped
<1>1. FlightInv => AmountAsTyped
  <2> SUFFICES ASSUME FlightInv, NEW tx \in flight, NEW m \in 0 .. MaxFunds,
                      StandsFor(tx.typed, m)
               PROVE  tx.amount = m
    BY DEF AmountAsTyped
  <2>1. /\ tx.typed \in Literals
        /\ tx.amount \in {U64(toBaseUnits(tx.typed)), U64(lam(tx.typed))}
    BY DEF FlightInv, Sound
  <2>2. m \in Nat
    BY BoundAssumption
  <2> QED
    BY <2>1, <2>2, LiteralsExact
<1> QED
  BY <1>1, FlightCorrect, PTL

-----------------------------------------------------------------------------
(* What lands is what left the flight.                                     *)
LEMMA Landed ==
  ASSUME FlightInv, [Next]_vars, NEW tx \in flight \ flight'
  PROVE  land(tx) /\ Sound(tx) /\ tx.amount \in Nat /\ IsVault(vault)
<1>1. Sound(tx) /\ IsVault(vault)
  BY DEF FlightInv
<1>2. tx.amount \in Nat
  BY <1>1, AmountsTyped DEF Sound
<1>3. ~Send
  <2> SUFFICES ASSUME Send PROVE FALSE
    OBVIOUS
  <2> QED
    BY EverySendSound DEF Builds
<1>4. PICK t \in flight : land(t)
  BY <1>3 DEF Next, vars
<1>5. t = tx
  BY <1>4 DEF land
<1> QED
  BY <1>1, <1>2, <1>4, <1>5

(* A payment's delegate signed it.                                         *)
LEMMA DelegateSigned ==
  ASSUME NEW tx, tx.name \in Payments, Accepted(tx)
  PROVE  tx.at.delegate \in tx.signed
<1>1. PICK i \in DOMAIN Listing(tx.name) :
        Listing(tx.name)[i].role = "delegate" /\ Listing(tx.name)[i].signer
  BY PaymentListing
<1>2. tx.at[Listing(tx.name)[i].role] \in tx.signed
  BY <1>1 DEF Accepted, Listing
<1> QED
  BY <1>1, <1>2

(* An instruction of the owner's was signed by the vault's owner.          *)
LEMMA OwnerSigned ==
  ASSUME NEW tx, tx.name \in OwnerNames, Accepted(tx)
  PROVE  vault.owner \in tx.signed
<1>1. PICK i \in DOMAIN Listing(tx.name) :
        /\ Listing(tx.name)[i].role = "owner"
        /\ Listing(tx.name)[i].signer /\ Listing(tx.name)[i].related
  BY OwnerSigns
<1>2. /\ tx.at[Listing(tx.name)[i].role] \in tx.signed
      /\ tx.at[Listing(tx.name)[i].role] = vault[Listing(tx.name)[i].role]
  BY <1>1 DEF Accepted, Listing
<1> QED
  BY <1>1, <1>2

(* Only the delegate of the moment pays, at the threshold only with the    *)
(* owner's signature, however old the transaction.                         *)
THEOREM PaymentsAreAuthorized == Spec => PaymentsAuthorized
<1>1. FlightInv /\ [Next]_vars =>
        \A tx \in flight \ flight' :
          tx.name \in Payments /\ vault'.funds < vault.funds =>
            /\ vault.active /\ vault.delegate \in tx.signed
            /\ tx.amount >= CosignAt => vault.owner \in tx.signed
  <2> SUFFICES ASSUME FlightInv, [Next]_vars, NEW tx \in flight \ flight',
                      tx.name \in Payments, vault'.funds < vault.funds
               PROVE  /\ vault.active /\ vault.delegate \in tx.signed
                      /\ tx.amount >= CosignAt => vault.owner \in tx.signed
    OBVIOUS
  <2>1. land(tx) /\ IsVault(vault)
    BY Landed
  <2>2. vault' # vault
    BY <2>1 DEF IsVault
  <2>3. Accepted(tx) /\ vault' = Effect(tx)
    BY <2>1, <2>2 DEF land
  <2>4. Authorized(tx)
    BY <2>2, <2>3, PaymentEffect
  <2>5. tx.at.delegate \in tx.signed
    BY <2>3, DelegateSigned
  <2> QED
    BY <2>4, <2>5 DEF Authorized
<1> QED
  BY <1>1, FlightCorrect, PTL DEF Spec, PaymentsAuthorized

(* Without the owner's signature a transaction moves the balance and       *)
(* nothing else, and down only as a payment.                               *)
THEOREM OnlyTheOwnerChanges == Spec => OnlyOwnerChangesVault
<1>1. FlightInv /\ [Next]_vars =>
        \A tx \in flight \ flight' :
          vault.owner \notin tx.signed /\ vault.status = "open" =>
            /\ vault' = [vault EXCEPT !.funds = vault'.funds]
            /\ vault'.funds < vault.funds => tx.name \in Payments
  <2> SUFFICES ASSUME FlightInv, [Next]_vars, NEW tx \in flight \ flight',
                      vault.owner \notin tx.signed, vault.status = "open"
               PROVE  /\ vault' = [vault EXCEPT !.funds = vault'.funds]
                      /\ vault'.funds < vault.funds => tx.name \in Payments
    OBVIOUS
  <2>1. /\ land(tx) /\ IsVault(vault) /\ tx.amount \in Nat /\ tx.name \in Named
        /\ vault.funds \in Nat
    BY Landed DEF Sound, IsVault
  <2>2. CASE vault' = vault
    <3>1. [vault EXCEPT !.funds = vault.funds] = vault
      BY <2>1, FundsSet
    <3>2. ~(vault.funds < vault.funds)
      BY <2>1
    <3> QED
      BY <2>2, <3>1, <3>2
  <2>3. CASE vault' # vault
    <3>1. Accepted(tx) /\ vault' = Effect(tx)
      BY <2>1, <2>3 DEF land
    <3>2. tx.name # "initializeVault"
      BY <3>1 DEF Accepted
    <3>3. tx.name \notin OwnerNames
      BY <3>1, OwnerSigned
    <3>4. CASE tx.name \in Payments
      <4> DEFINE x == vault.funds - tx.amount
      <4>1. Authorized(tx) /\ vault' = [vault EXCEPT !.funds = x]
        BY <2>3, <3>1, <3>4, PaymentEffect
      <4>2. x \in Nat
        BY <2>1, <4>1 DEF Authorized
      <4> HIDE DEF x
      <4>3. vault'.funds = x
        BY <2>1, <4>1, <4>2, FundsSet
      <4> QED
        BY <3>4, <4>1, <4>3
    <3>5. CASE tx.name \in {"depositSol", "depositSpl"}
      <4> DEFINE x == vault.funds + tx.amount
      <4>1. vault' = [vault EXCEPT !.funds = x]
        BY <2>3, <3>1, <3>5, DepositEffect
      <4>2. x \in Nat /\ ~(x < vault.funds)
        BY <2>1
      <4> HIDE DEF x
      <4>3. vault'.funds = x
        BY <2>1, <4>1, <4>2, FundsSet
      <4> QED
        BY <4>1, <4>2, <4>3
    <3> QED
      BY <2>1, <3>2, <3>3, <3>4, <3>5, AllNames DEF OwnerSent
  <2> QED
    BY <2>2, <2>3
<1> QED
  BY <1>1, FlightCorrect, PTL DEF Spec, OnlyOwnerChangesVault
=============================================================================
