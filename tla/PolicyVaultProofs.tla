-------------------------- MODULE PolicyVaultProofs --------------------------
(***************************************************************************)
(* Proofs about the on-chain vault, for every set of keys, mints and       *)
(* recipients, every rent, window length and word size: custody and who    *)
(* can take what out, the agreement of the off-chain mirror, and that the  *)
(* program implements the escrow.                                          *)
(***************************************************************************)
EXTENDS VaultEscrow, PolicyMirror, TLAPS

(* What the program knows of a payment it accepts: the rules the later     *)
(* lemmas need, of those authorize checks.                                 *)
LEMMA SumsChecked ==
  ASSUME NEW v \in Vaults, NEW delegate, NEW recipient, NEW amount \in U64,
         NEW available, NEW signed \in BOOLEAN, NEW t \in Nat,
         authorize(v, delegate, recipient, amount, available, signed, t) = "Ok"
  PROVE  /\ amount > 0
         /\ SpentNow(v, t) + amount <= U64Max
         /\ SpentNow(v, t) + amount <= v.daily_limit
         /\ v.total_paid + amount <= U64Max
         /\ v.payment_count + 1 <= U64Max
         /\ ~(amount > available)
<1>1. SpentNow(v, t) \in Nat /\ v.daily_limit \in Nat /\ v.total_paid \in Nat
        /\ v.payment_count \in Nat /\ amount \in Nat /\ U64Max \in Nat
  BY NumbersAssumption DEF Vaults, U64, SpentNow
<1>2. /\ amount # 0 /\ ~(SpentNow(v, t) + amount > U64Max)
      /\ ~(SpentNow(v, t) + amount > v.daily_limit) /\ ~(amount > available)
      /\ ~(v.total_paid + amount > U64Max) /\ ~(v.payment_count + 1 > U64Max)
  BY DEF authorize
<1> QED
  BY <1>1, <1>2

LEMMA Authorized ==
  ASSUME NEW v \in Vaults, NEW delegate, NEW recipient, NEW amount \in U64,
         NEW available \in Nat, NEW signed \in BOOLEAN, NEW t \in Nat,
         authorize(v, delegate, recipient, amount, available, signed, t) = "Ok"
  PROVE  /\ amount > 0
         /\ amount <= available
         /\ SpentNow(v, t) + amount <= U64Max
         /\ SpentNow(v, t) + amount <= v.daily_limit
         /\ v.total_paid + amount <= U64Max
         /\ v.payment_count + 1 <= U64Max
<1>1. amount \in Nat
  BY NumbersAssumption DEF U64
<1> QED
  BY <1>1, SumsChecked

(* The commit writes a well-formed vault account, and keeps its mint.      *)
LEMMA CommitTyped ==
  ASSUME NEW v \in Vaults, NEW delegate, NEW recipient, NEW amount \in U64,
         NEW available, NEW signed \in BOOLEAN, NEW t \in Nat,
         authorize(v, delegate, recipient, amount, available, signed, t) = "Ok"
  PROVE  /\ commit(v, amount, t) \in Vaults
         /\ commit(v, amount, t).mint = v.mint
         /\ commit(v, amount, t).total_paid = v.total_paid + amount
<1>1. /\ SpentNow(v, t) + amount <= U64Max /\ v.total_paid + amount <= U64Max
      /\ v.payment_count + 1 <= U64Max
  BY SumsChecked
<1>2. /\ SpentNow(v, t) + amount \in U64 /\ v.total_paid + amount \in U64
      /\ v.payment_count + 1 \in U64
  <2>1. SpentNow(v, t) \in Nat /\ v.total_paid \in Nat /\ v.payment_count \in Nat /\ amount \in Nat
    BY NumbersAssumption DEF Vaults, U64, SpentNow
  <2> QED
    BY <1>1, <2>1, NumbersAssumption DEF U64
<1>3. (IF WindowElapsed(v, t) THEN t ELSE v.window_start) \in Nat
  BY DEF Vaults
<1> QED
  BY <1>2, <1>3 DEF commit, Vaults

-----------------------------------------------------------------------------
(* Custody, as an inductive invariant: the sums and the rent hold together *)
(* with the types.                                                         *)
CustodyInv == TypeOK /\ Conservation /\ RentExempt

(* What a payment may take is there.                                       *)
LEMMA AvailableBound ==
  ASSUME TypeOK, NEW a \in Assets
  PROVE  /\ Available(a) \in Nat
         /\ Available(a) <= held[a]
         /\ held[Native] >= Rent => Available(Native) = held[Native] - Rent
<1>1. held[a] \in Nat /\ held[Native] \in Nat /\ Rent \in Nat
  BY InputsAssumption DEF TypeOK, Assets
<1> QED
  BY <1>1 DEF Available

(* A fresh address is well-formed: nothing held, nothing owed, no log.     *)
THEOREM InitCustody == Init => CustodyInv
<1> SUFFICES ASSUME Init PROVE CustodyInv
  OBVIOUS
<1>1. TypeOK
  BY InputsAssumption DEF Init, TypeOK
<1>2. Conservation
  <2> SUFFICES ASSUME NEW a \in Assets
               PROVE  held[a] + wallet["owner"][a] + wallet["others"][a]
                        = Endowment["owner"][a] + Endowment["others"][a]
    BY DEF Conservation
  <2> QED
    BY InputsAssumption DEF Init, Holders
<1>3. RentExempt
  BY DEF Init, RentExempt, Open
<1> QED
  BY <1>1, <1>2, <1>3 DEF CustodyInv

(* What every transfer between the address and a holder does to the        *)
(* balances: they stay numbers and keep their sum.                         *)
Total(a) == held[a] + wallet["owner"][a] + wallet["others"][a]

LEMMA PayOutKeeps ==
  ASSUME TypeOK, NEW a \in Assets, NEW n \in Nat, NEW h \in Holders,
         n <= held[a], PayOut(a, n, h)
  PROVE  /\ held' \in [Assets -> Nat] /\ wallet' \in [Holders -> [Assets -> Nat]]
         /\ \A b \in Assets : Total(b)' = Total(b)
         /\ held'[a] = held[a] - n
         /\ wallet'[h][a] - wallet[h][a] = n
         /\ \A b \in Assets \ {a} : held'[b] = held[b]
<1>1. /\ held \in [Assets -> Nat] /\ wallet \in [Holders -> [Assets -> Nat]]
      /\ held' = [held EXCEPT ![a] = held[a] - n]
      /\ wallet' = [wallet EXCEPT ![h][a] = wallet[h][a] + n]
  BY DEF TypeOK, PayOut
<1>2. held' \in [Assets -> Nat] /\ wallet' \in [Holders -> [Assets -> Nat]]
  BY <1>1
<1>3. ASSUME NEW b \in Assets PROVE Total(b)' = Total(b)
  BY <1>1 DEF Total, Holders
<1> QED
  BY <1>1, <1>2, <1>3

LEMMA PayInKeeps ==
  ASSUME TypeOK, NEW a \in Assets, NEW n \in Nat, NEW h \in Holders, PayIn(a, n, h)
  PROVE  /\ held' \in [Assets -> Nat] /\ wallet' \in [Holders -> [Assets -> Nat]]
         /\ \A b \in Assets : Total(b)' = Total(b)
         /\ held'[a] = held[a] + n
         /\ \A b \in Assets \ {a} : held'[b] = held[b]
<1>1. /\ held \in [Assets -> Nat] /\ wallet \in [Holders -> [Assets -> Nat]]
      /\ held' = [held EXCEPT ![a] = held[a] + n]
      /\ wallet' = [wallet EXCEPT ![h][a] = wallet[h][a] - n]
      /\ n <= wallet[h][a]
  BY DEF TypeOK, PayIn
<1>2. held' \in [Assets -> Nat] /\ wallet' \in [Holders -> [Assets -> Nat]]
  BY <1>1
<1>3. ASSUME NEW b \in Assets PROVE Total(b)' = Total(b)
  BY <1>1 DEF Total, Holders
<1> QED
  BY <1>1, <1>2, <1>3

LEMMA DrainKeeps ==
  ASSUME TypeOK, NEW S \in SUBSET Assets, DrainToOwner(S)
  PROVE  /\ held' \in [Assets -> Nat] /\ wallet' \in [Holders -> [Assets -> Nat]]
         /\ \A b \in Assets : Total(b)' = Total(b)
         /\ \A b \in S : held'[b] = 0
         /\ \A b \in Assets \ S : held'[b] = held[b]
         /\ \A b \in S : wallet'["owner"][b] - wallet["owner"][b] = held[b]
<1>1. /\ held \in [Assets -> Nat] /\ wallet \in [Holders -> [Assets -> Nat]]
      /\ held' = [a \in Assets |-> IF a \in S THEN 0 ELSE held[a]]
      /\ wallet' = [wallet EXCEPT !["owner"] =
                      [a \in Assets |-> IF a \in S THEN wallet["owner"][a] + held[a]
                                        ELSE wallet["owner"][a]]]
  BY DEF TypeOK, DrainToOwner
<1>2. held' \in [Assets -> Nat] /\ wallet' \in [Holders -> [Assets -> Nat]]
  BY <1>1 DEF Holders
<1>3. ASSUME NEW b \in Assets PROVE Total(b)' = Total(b)
  BY <1>1 DEF Total, Holders
<1>4. ASSUME NEW b \in S PROVE wallet'["owner"][b] - wallet["owner"][b] = held[b]
  BY <1>1 DEF Holders
<1> QED
  BY <1>1, <1>2, <1>3, <1>4

(* A step that keeps the balances' sums is left with the types and the     *)
(* rent to show.                                                           *)
LEMMA CustodyStep ==
  ASSUME CustodyInv,
         \A b \in Assets : Total(b)' = Total(b),
         TypeOK', RentExempt'
  PROVE  CustodyInv'
<1>1. \A b \in Assets : Total(b) = Endowment["owner"][b] + Endowment["others"][b]
  BY DEF CustodyInv, Conservation, Total
<1>2. Conservation'
  BY <1>1 DEF Conservation, Total
<1> QED
  BY <1>2 DEF CustodyInv

(* Steps that move nothing.                                                *)
LEMMA StillKeeps ==
  ASSUME CustodyInv, UNCHANGED <<held, atas, wallet>>, TypeOK', Open' => Open
  PROVE  CustodyInv'
<1>1. \A b \in Assets : Total(b)' = Total(b)
  BY DEF Total
<1>2. RentExempt'
  BY DEF CustodyInv, RentExempt
<1> QED
  BY <1>1, <1>2, CustodyStep

LEMMA InitializeKeeps ==
  ASSUME CustodyInv, NEW mint \in Assets, NEW p \in PerTxLimits, NEW d \in DailyLimits,
         NEW c \in Thresholds, NEW k \in Keys \cup {NoKey}, initialize_vault(mint, p, d, c, k)
  PROVE  CustodyInv'
<1> DEFINE top == IF held[Native] >= Rent THEN 0 ELSE Rent - held[Native]
<1>1. TypeOK /\ Native \in Assets /\ held[Native] \in Nat /\ Rent \in Nat /\ "owner" \in Holders
  BY InputsAssumption DEF CustodyInv, TypeOK, Assets, Holders
<1>2. top \in Nat /\ PayIn(Native, top, "owner")
  BY <1>1 DEF initialize_vault
<1>3. /\ held' \in [Assets -> Nat] /\ wallet' \in [Holders -> [Assets -> Nat]]
      /\ \A b \in Assets : Total(b)' = Total(b)
      /\ held'[Native] = held[Native] + top
      /\ \A b \in Assets \ {Native} : held'[b] = held[b]
  BY <1>1, <1>2, PayInKeeps
<1>4. vault' \in Vaults
  <2>1. /\ vault' = [mint |-> mint, delegate |-> k, delegate_active |-> k # NoKey,
                     per_tx_limit |-> p, daily_limit |-> d, cosign_threshold |-> c,
                     window_start |-> now, spent_in_window |-> 0,
                     allowlist |-> {}, blocklist |-> {}, total_paid |-> 0, payment_count |-> 0]
    BY DEF initialize_vault
  <2>2. p \in U64 /\ d \in U64 /\ c \in U64 /\ 0 \in U64 /\ now \in Nat
    BY InputsAssumption, NumbersAssumption, <1>1 DEF U64, TypeOK
  <2> QED
    BY <2>1, <2>2 DEF Vaults
<1>5. TypeOK'
  <2>1. arms' \in Seq(Nat) /\ UNCHANGED <<atas, now, events>>
    BY <1>1 DEF initialize_vault, TypeOK
  <2> QED
    BY <1>1, <1>3, <1>4, <2>1 DEF TypeOK
<1>6. RentExempt'
  BY <1>1, <1>3 DEF RentExempt
<1> QED
  BY <1>3, <1>5, <1>6, CustodyStep

LEMMA RewriteKeeps ==
  ASSUME CustodyInv, NEW v, Open => v \in Vaults, Rewrite(v)
  PROVE  CustodyInv'
<1>1. TypeOK'
  BY DEF CustodyInv, TypeOK, Rewrite
<1>2. Open
  BY DEF Rewrite
<1> QED
  BY <1>1, <1>2, StillKeeps DEF Rewrite

(* The vault account alone, whatever the address holds.                    *)
AccountTyped == vault \in Vaults \cup {NoVault} /\ now \in Nat

(* Every edit of the budget writes a well-formed account.                  *)
LEMMA EditsTyped ==
  ASSUME AccountTyped, Open
  PROVE  /\ \A p \in PerTxLimits, d \in DailyLimits, c \in Thresholds :
              [vault EXCEPT !.per_tx_limit = p, !.daily_limit = d, !.cosign_threshold = c] \in Vaults
         /\ \A k \in Keys \cup {NoKey} :
              [vault EXCEPT !.delegate = k, !.delegate_active = k # NoKey] \in Vaults
         /\ \A active \in BOOLEAN : [vault EXCEPT !.delegate_active = active] \in Vaults
         /\ \A r \in Recipients, add \in BOOLEAN :
              /\ [vault EXCEPT !.allowlist = Edited(vault.allowlist, r, add)] \in Vaults
              /\ [vault EXCEPT !.blocklist = Edited(vault.blocklist, r, add)] \in Vaults
         /\ [vault EXCEPT !.window_start = now, !.spent_in_window = 0] \in Vaults
<1>1. vault \in Vaults /\ now \in Nat /\ 0 \in U64
  BY NumbersAssumption DEF AccountTyped, Open, U64
<1>2. PerTxLimits \subseteq U64 /\ DailyLimits \subseteq U64 /\ Thresholds \subseteq U64
  BY InputsAssumption
<1>3. \A r \in Recipients, add \in BOOLEAN :
        Edited(vault.allowlist, r, add) \in SUBSET Recipients
        /\ Edited(vault.blocklist, r, add) \in SUBSET Recipients
  BY <1>1 DEF Edited, Vaults
<1>4. \A k \in Keys \cup {NoKey} : (k # NoKey) \in BOOLEAN
  OBVIOUS
<1>5. ASSUME NEW k \in Keys \cup {NoKey}, NEW b \in BOOLEAN
      PROVE  [vault EXCEPT !.delegate = k, !.delegate_active = b] \in Vaults
  BY <1>1 DEF Vaults
<1>6. \A k \in Keys \cup {NoKey} :
        [vault EXCEPT !.delegate = k, !.delegate_active = k # NoKey] \in Vaults
  BY <1>4, <1>5
<1>7. \A p \in PerTxLimits, d \in DailyLimits, c \in Thresholds :
        [vault EXCEPT !.per_tx_limit = p, !.daily_limit = d, !.cosign_threshold = c] \in Vaults
  BY <1>1, <1>2 DEF Vaults
<1>8. \A r \in Recipients, add \in BOOLEAN :
        /\ [vault EXCEPT !.allowlist = Edited(vault.allowlist, r, add)] \in Vaults
        /\ [vault EXCEPT !.blocklist = Edited(vault.blocklist, r, add)] \in Vaults
  BY <1>1, <1>3 DEF Vaults
<1>9. \A active \in BOOLEAN : [vault EXCEPT !.delegate_active = active] \in Vaults
  BY <1>1 DEF Vaults
<1>10. [vault EXCEPT !.window_start = now, !.spent_in_window = 0] \in Vaults
  BY <1>1 DEF Vaults
<1> QED
  BY <1>6, <1>7, <1>8, <1>9, <1>10

LEMMA ResetKeeps ==
  ASSUME CustodyInv, reset_window
  PROVE  CustodyInv'
<1>1. TypeOK /\ Open
  BY DEF CustodyInv, reset_window
<1>2. vault' \in Vaults
  BY <1>1, EditsTyped DEF reset_window, TypeOK, AccountTyped
<1>3. TypeOK'
  BY <1>1, <1>2 DEF TypeOK, reset_window
<1> QED
  BY <1>1, <1>3, StillKeeps DEF reset_window

(* Transfers into the address, by the program or past it.                  *)
LEMMA IntakeKeeps ==
  ASSUME CustodyInv, NEW a \in Assets, NEW n \in Nat, NEW h \in Holders, PayIn(a, n, h),
         atas' \in SUBSET Mints,
         UNCHANGED <<vault, now, events, arms>>
  PROVE  CustodyInv'
<1>1. TypeOK
  BY DEF CustodyInv
<1>2. /\ held' \in [Assets -> Nat] /\ wallet' \in [Holders -> [Assets -> Nat]]
      /\ \A b \in Assets : Total(b)' = Total(b)
      /\ held'[a] = held[a] + n
      /\ \A b \in Assets \ {a} : held'[b] = held[b]
  BY <1>1, PayInKeeps
<1>3. TypeOK'
  BY <1>1, <1>2 DEF TypeOK
<1>4. RentExempt'
  <2>1. held[Native] \in Nat /\ Rent \in Nat /\ held'[Native] >= held[Native]
    BY <1>1, <1>2, InputsAssumption DEF TypeOK, Assets
  <2> QED
    BY <1>2, <2>1 DEF CustodyInv, RentExempt, Open, Assets
<1> QED
  BY <1>2, <1>3, <1>4, CustodyStep

(* Transfers out of the address that leave an open vault its rent.         *)
LEMMA OutflowKeeps ==
  ASSUME CustodyInv, NEW a \in Assets, NEW n \in Nat, NEW h \in Holders, PayOut(a, n, h),
         n <= Available(a), Open, vault' \in Vaults,
         events' \in Seq(PaymentEvents),
         UNCHANGED <<atas, now, arms>>
  PROVE  CustodyInv'
<1>1. TypeOK /\ RentExempt
  BY DEF CustodyInv
<1>2. /\ n <= held[a] /\ held[a] \in Nat /\ held[Native] \in Nat /\ Rent \in Nat
      /\ a = Native => n <= held[Native] - Rent
  <2>1. Available(a) \in Nat /\ Available(a) <= held[a]
    BY <1>1, AvailableBound
  <2>2. held[Native] >= Rent => Available(Native) = held[Native] - Rent
    BY <1>1, AvailableBound
  <2>3. held[a] \in Nat /\ held[Native] \in Nat /\ Rent \in Nat /\ held[Native] >= Rent
    BY <1>1, InputsAssumption DEF TypeOK, Assets, RentExempt
  <2> QED
    BY <2>1, <2>2, <2>3
<1>3. /\ held' \in [Assets -> Nat] /\ wallet' \in [Holders -> [Assets -> Nat]]
      /\ \A b \in Assets : Total(b)' = Total(b)
      /\ held'[a] = held[a] - n
      /\ \A b \in Assets \ {a} : held'[b] = held[b]
  BY <1>1, <1>2, PayOutKeeps
<1>4. TypeOK'
  BY <1>1, <1>3 DEF TypeOK
<1>5. RentExempt'
  BY <1>1, <1>2, <1>3 DEF RentExempt, Assets
<1> QED
  BY <1>3, <1>4, <1>5, CustodyStep

(* A payment, in either asset, moves what the rules allowed.               *)
LEMMA SettleKeeps ==
  ASSUME CustodyInv, NEW a \in Assets, NEW k \in Keys, NEW r \in Recipients,
         NEW n \in U64, NEW s \in BOOLEAN, NEW c \in Contexts, Settle(a, k, r, n, s, c)
  PROVE  CustodyInv'
<1>1. /\ TypeOK /\ Open /\ vault \in Vaults /\ vault.mint = a /\ now \in Nat /\ n \in Nat
      /\ authorize(vault, k, r, n, Available(a), s, now) = "Ok"
      /\ vault' = commit(vault, n, now) /\ PayOut(a, n, "others")
      /\ UNCHANGED <<atas, now, arms>>
  BY DEF Settle, Accepts, OpenFor, Open, CustodyInv, TypeOK, U64
<1>2. Available(a) \in Nat
  BY <1>1, AvailableBound
<1>3. n <= Available(a) /\ vault.payment_count + 1 <= U64Max
  BY <1>1, <1>2, Authorized
<1>4. vault' \in Vaults
  BY <1>1, <1>2, CommitTyped
<1>5. events' \in Seq(PaymentEvents)
  <2>1. vault.payment_count + 1 \in U64
    BY <1>1, <1>3, NumbersAssumption DEF Vaults, U64
  <2> DEFINE e == [mint |-> a, recipient |-> r, amount |-> n, context_hash |-> c,
                   payment_count |-> vault.payment_count + 1, ts |-> now]
  <2>2. e \in PaymentEvents
    BY <1>1, <2>1 DEF PaymentEvents
  <2>3. events' = Append(events, e) /\ events \in Seq(PaymentEvents)
    BY <1>1 DEF Settle, TypeOK
  <2> QED
    BY <2>2, <2>3
<1>6. "others" \in Holders
  BY DEF Holders
<1> QED
  BY <1>1, <1>3, <1>4, <1>5, <1>6, OutflowKeeps

(* Draining assets, and closing the token accounts of those drained.       *)
LEMMA DrainInv ==
  ASSUME CustodyInv, NEW S \in SUBSET Assets, DrainToOwner(S),
         atas' \in SUBSET Mints,
         vault' \in Vaults \cup {NoVault}, RentExempt',
         UNCHANGED <<now, events, arms>>
  PROVE  CustodyInv'
<1>1. TypeOK
  BY DEF CustodyInv
<1>2. /\ held' \in [Assets -> Nat] /\ wallet' \in [Holders -> [Assets -> Nat]]
      /\ \A b \in Assets : Total(b)' = Total(b)
      /\ \A b \in S : held'[b] = 0
      /\ \A b \in Assets \ S : held'[b] = held[b]
  BY <1>1, DrainKeeps
<1>3. TypeOK'
  BY <1>1, <1>2 DEF TypeOK
<1> QED
  BY <1>2, <1>3, CustodyStep

(* A close drains and leaves no vault, a sweep leaves the lamports.        *)
LEMMA ClosedDrain ==
  ASSUME CustodyInv, NEW S \in SUBSET Assets, DrainToOwner(S),
         atas' \in SUBSET Mints, vault' = NoVault,
         UNCHANGED <<now, events, arms>>
  PROVE  CustodyInv'
<1>1. RentExempt'
  BY DEF RentExempt, Open
<1> QED
  BY <1>1, DrainInv

LEMMA OpenDrain ==
  ASSUME CustodyInv, NEW S \in SUBSET Assets, DrainToOwner(S), Native \notin S, Open,
         atas' \in SUBSET Mints,
         UNCHANGED <<vault, now, events, arms>>
  PROVE  CustodyInv'
<1>1. TypeOK /\ RentExempt /\ Native \in Assets
  BY DEF CustodyInv, Assets
<1>2. held'[Native] = held[Native]
  BY <1>1, DrainKeeps
<1>3. RentExempt' /\ vault' \in Vaults \cup {NoVault}
  BY <1>1, <1>2 DEF RentExempt, Open, TypeOK
<1> QED
  BY <1>3, DrainInv

-----------------------------------------------------------------------------
(* The inductive step, one instruction at a time.                          *)
LEMMA OwnerKeeps == CustodyInv /\ OwnerStep => CustodyInv'
<1> SUFFICES ASSUME CustodyInv, OwnerStep PROVE CustodyInv'
  OBVIOUS
<1>t. TypeOK /\ "owner" \in Holders
  BY DEF CustodyInv, Holders
<1>a. AccountTyped
  BY <1>t DEF TypeOK, AccountTyped
<1>v. Open => vault \in Vaults
  BY <1>t DEF TypeOK, Open
<1>1. ASSUME NEW mint \in Assets, NEW p \in PerTxLimits, NEW d \in DailyLimits,
             NEW c \in Thresholds, NEW k \in Keys \cup {NoKey},
             initialize_vault(mint, p, d, c, k)
      PROVE  CustodyInv'
  BY <1>1, InitializeKeeps
<1>2. ASSUME NEW p \in PerTxLimits, NEW d \in DailyLimits, NEW c \in Thresholds,
             set_policy(p, d, c)
      PROVE  CustodyInv'
  <2> DEFINE v == [vault EXCEPT !.per_tx_limit = p, !.daily_limit = d, !.cosign_threshold = c]
  <2>1. Rewrite(v)
    BY <1>2 DEF set_policy
  <2>2. Open => v \in Vaults
    BY <1>a, EditsTyped
  <2> QED
    BY <2>1, <2>2, RewriteKeeps
<1>3. ASSUME NEW k \in Keys \cup {NoKey}, set_delegate(k) PROVE CustodyInv'
  <2> DEFINE v == [vault EXCEPT !.delegate = k, !.delegate_active = k # NoKey]
  <2>1. Rewrite(v)
    BY <1>3 DEF set_delegate
  <2>2. Open => v \in Vaults
    BY <1>a, EditsTyped
  <2> QED
    BY <2>1, <2>2, RewriteKeeps
<1>4. ASSUME NEW active \in BOOLEAN, set_delegate_active(active) PROVE CustodyInv'
  <2> DEFINE v == [vault EXCEPT !.delegate_active = active]
  <2>1. Rewrite(v)
    BY <1>4 DEF set_delegate_active
  <2>2. Open => v \in Vaults
    BY <1>a, EditsTyped
  <2> QED
    BY <2>1, <2>2, RewriteKeeps
<1>5. ASSUME NEW r \in Recipients, NEW add \in BOOLEAN, manage_allowlist(r, add)
      PROVE  CustodyInv'
  <2> DEFINE v == [vault EXCEPT !.allowlist = Edited(vault.allowlist, r, add)]
  <2>1. Rewrite(v)
    BY <1>5 DEF manage_allowlist
  <2>2. Open => v \in Vaults
    BY <1>a, EditsTyped
  <2> QED
    BY <2>1, <2>2, RewriteKeeps
<1>6. ASSUME NEW r \in Recipients, NEW add \in BOOLEAN, manage_blocklist(r, add)
      PROVE  CustodyInv'
  <2> DEFINE v == [vault EXCEPT !.blocklist = Edited(vault.blocklist, r, add)]
  <2>1. Rewrite(v)
    BY <1>6 DEF manage_blocklist
  <2>2. Open => v \in Vaults
    BY <1>a, EditsTyped
  <2> QED
    BY <2>1, <2>2, RewriteKeeps
<1>7. ASSUME NEW n \in Amounts, withdraw_sol(n) PROVE CustodyInv'
  <2>1. n \in Nat /\ Native \in Assets
    BY InputsAssumption, NumbersAssumption DEF U64, Assets
  <2>2. /\ PayOut(Native, n, "owner") /\ n <= Available(Native)
        /\ UNCHANGED <<vault, atas, now, events, arms>>
    BY <1>7 DEF withdraw_sol
  <2>3. Open
    BY <1>7 DEF withdraw_sol, OpenFor
  <2>4. vault' \in Vaults /\ events' \in Seq(PaymentEvents)
    BY <1>t, <1>v, <2>2, <2>3 DEF TypeOK
  <2> QED
    BY <1>t, <2>1, <2>2, <2>3, <2>4, OutflowKeeps
<1>8. ASSUME NEW m \in Mints, NEW n \in Amounts, withdraw_spl(m, n) PROVE CustodyInv'
  <2>1. n \in Nat /\ m \in Assets
    BY InputsAssumption, NumbersAssumption DEF U64, Assets
  <2>2. /\ PayOut(m, n, "owner") /\ n <= held[m]
        /\ UNCHANGED <<vault, atas, now, events, arms>>
    BY <1>8 DEF withdraw_spl
  <2>3. Open /\ Available(m) = held[m]
    BY <1>8, AssetsAssumption DEF withdraw_spl, OpenFor, Available
  <2>4. vault' \in Vaults /\ events' \in Seq(PaymentEvents)
    BY <1>t, <1>v, <2>2, <2>3 DEF TypeOK
  <2> QED
    BY <1>t, <2>1, <2>2, <2>3, <2>4, OutflowKeeps
<1>9. ASSUME close_vault_sol PROVE CustodyInv'
  <2>1. /\ DrainToOwner({Native}) /\ vault' = NoVault
        /\ UNCHANGED <<atas, now, events, arms>>
    BY <1>9 DEF close_vault_sol
  <2>2. {Native} \in SUBSET Assets /\ atas' \in SUBSET Mints
    BY <1>t, <2>1 DEF Assets, TypeOK
  <2> QED
    BY <2>1, <2>2, ClosedDrain
<1>10. ASSUME NEW m \in Mints, close_vault_spl(m) PROVE CustodyInv'
  <2>1. /\ DrainToOwner({m, Native}) /\ vault' = NoVault /\ atas' = atas \ {m}
        /\ UNCHANGED <<now, events, arms>>
    BY <1>10 DEF close_vault_spl
  <2>2. /\ {m, Native} \in SUBSET Assets /\ atas' \in SUBSET Mints
    BY <1>t, <2>1 DEF Assets, TypeOK
  <2> QED
    BY <2>1, <2>2, ClosedDrain
<1>11. ASSUME NEW m \in Mints, sweep_token(m) PROVE CustodyInv'
  <2>1. /\ DrainToOwner({m}) /\ Open /\ atas' = atas \ {m}
        /\ UNCHANGED <<vault, now, events, arms>>
    BY <1>11 DEF sweep_token
  <2>2. /\ {m} \in SUBSET Assets /\ atas' \in SUBSET Mints
        /\ Native \notin {m}
    BY <1>t, <2>1, AssetsAssumption DEF Assets, TypeOK
  <2> QED
    BY <2>1, <2>2, OpenDrain
<1>12. ASSUME reset_window PROVE CustodyInv'
  BY <1>12, ResetKeeps
<1> QED
  BY <1>1, <1>2, <1>3, <1>4, <1>5, <1>6, <1>7, <1>8, <1>9, <1>10, <1>11, <1>12 DEF OwnerStep

LEMMA AgentKeeps == CustodyInv /\ AgentStep => CustodyInv'
<1> SUFFICES ASSUME CustodyInv, NEW k \in Keys, NEW r \in Recipients, NEW n \in Amounts,
                    NEW s \in BOOLEAN, NEW c \in Contexts,
                    \/ pay_sol(k, r, n, s, c)
                    \/ \E m \in Mints : pay_spl(m, k, r, n, s, c)
             PROVE  CustodyInv'
  BY DEF AgentStep
<1>1. n \in U64 /\ Native \in Assets /\ Mints \subseteq Assets
  BY InputsAssumption DEF Assets
<1>2. \E a \in Assets : Settle(a, k, r, n, s, c)
  BY <1>1 DEF pay_sol, pay_spl
<1> QED
  BY <1>1, <1>2, SettleKeeps

LEMMA WorldKeeps == CustodyInv /\ WorldStep => CustodyInv'
<1> SUFFICES ASSUME CustodyInv, WorldStep PROVE CustodyInv'
  OBVIOUS
<1>t. TypeOK /\ "others" \in Holders /\ Native \in Assets /\ Mints \subseteq Assets
        /\ atas \in SUBSET Mints
  BY DEF CustodyInv, TypeOK, Holders, Assets
<1>n. Amounts \subseteq Nat
  BY InputsAssumption, NumbersAssumption DEF U64
<1>1. ASSUME NEW h \in Holders, NEW n \in Amounts, deposit_sol(h, n) PROVE CustodyInv'
  <2>1. PayIn(Native, n, h) /\ UNCHANGED <<vault, atas, now, events, arms>>
    BY <1>1 DEF deposit_sol
  <2> QED
    BY <1>t, <1>n, <2>1, IntakeKeeps, AssetsAssumption
<1>2. ASSUME NEW h \in Holders, NEW m \in Mints, NEW n \in Amounts, deposit_spl(m, h, n)
      PROVE  CustodyInv'
  <2>1. PayIn(m, n, h) /\ atas' = atas \cup {m} /\ UNCHANGED <<vault, now, events, arms>>
    BY <1>2 DEF deposit_spl
  <2> QED
    BY <1>t, <1>n, <2>1, IntakeKeeps
<1>3. ASSUME NEW m \in Mints, NEW n \in Amounts, send_tokens(m, n) PROVE CustodyInv'
  <2>1. PayIn(m, n, "others") /\ atas' = atas \cup {m} /\ UNCHANGED <<vault, now, events, arms>>
    BY <1>3 DEF send_tokens
  <2> QED
    BY <1>t, <1>n, <2>1, IntakeKeeps
<1>4. ASSUME NEW n \in Amounts, send_lamports(n) PROVE CustodyInv'
  <2>1. PayIn(Native, n, "others") /\ UNCHANGED <<vault, atas, now, events, arms>>
    BY <1>4 DEF send_lamports
  <2> QED
    BY <1>t, <1>n, <2>1, IntakeKeeps, AssetsAssumption
<1>5. ASSUME tick PROVE CustodyInv'
  <2>1. TypeOK'
    BY <1>t, <1>5 DEF tick, TypeOK
  <2> QED
    BY <1>5, <2>1, StillKeeps DEF tick, Open
<1> QED
  BY <1>1, <1>2, <1>3, <1>4, <1>5 DEF WorldStep

LEMMA CustodyInductive == CustodyInv /\ [Next]_vars => CustodyInv'
<1> SUFFICES ASSUME CustodyInv, [Next]_vars PROVE CustodyInv'
  OBVIOUS
<1>1. CASE UNCHANGED vars
  BY <1>1 DEF vars, CustodyInv, TypeOK, Conservation, RentExempt, Open
<1> QED
  BY <1>1, OwnerKeeps, AgentKeeps, WorldKeeps DEF Next

(* In every reachable state of the program and for every instance of it,   *)
(* the state is well-formed, assets are conserved, an open vault has its   *)
(* rent and tokens sit in accounts the owner can sweep.                    *)
THEOREM Custody == Spec => []CustodyInv
<1> QED
  BY InitCustody, CustodyInductive, PTL DEF Spec

(* The type invariant of the program.                                      *)
THEOREM TypeCorrect == Spec => []TypeOK
<1>1. CustodyInv => TypeOK
  BY DEF CustodyInv
<1> QED
  BY <1>1, Custody, PTL

(* No instruction creates or destroys an asset.                            *)
THEOREM AssetsConserved == Spec => []Conservation
<1>1. CustodyInv => Conservation
  BY DEF CustodyInv
<1> QED
  BY <1>1, Custody, PTL

(* An open vault always holds its rent.                                    *)
THEOREM AlwaysRentExempt == Spec => []RentExempt
<1>1. CustodyInv => RentExempt
  BY DEF CustodyInv
<1> QED
  BY <1>1, Custody, PTL

-----------------------------------------------------------------------------
(* How assets leave the address.                                           *)
Leaving == \A a \in Assets : held'[a] < held[a] => LeavesProperly(a)

LEMMA NothingLeaves ==
  ASSUME TypeOK, UNCHANGED held PROVE Leaving
<1> QED
  BY DEF TypeOK, Leaving

LEMMA IntakeLeaves ==
  ASSUME TypeOK, NEW a \in Assets, NEW n \in Nat, NEW h \in Holders, PayIn(a, n, h)
  PROVE  Leaving
<1> SUFFICES ASSUME NEW b \in Assets PROVE ~(held'[b] < held[b])
  BY DEF Leaving
<1>1. held[b] \in Nat
  BY DEF TypeOK
<1>2. CASE b = a
  BY <1>1, <1>2, PayInKeeps
<1>3. CASE b # a
  <2>1. held'[b] = held[b]
    BY <1>3, PayInKeeps
  <2> QED
    BY <1>1, <2>1
<1> QED
  BY <1>2, <1>3

LEMMA ToOwnerLeaves ==
  ASSUME TypeOK, NEW a \in Assets, NEW n \in Nat, n <= held[a], PayOut(a, n, "owner")
  PROVE  Leaving
<1>0. "owner" \in Holders
  BY DEF Holders
<1>1. /\ held'[a] = held[a] - n
      /\ wallet'["owner"][a] - wallet["owner"][a] = n
      /\ \A b \in Assets \ {a} : held'[b] = held[b]
  BY <1>0, PayOutKeeps
<1> SUFFICES ASSUME NEW b \in Assets, held'[b] < held[b] PROVE LeavesProperly(b)
  BY DEF Leaving
<1>2. held[a] \in Nat /\ held[b] \in Nat
  BY DEF TypeOK
<1>3. b = a
  BY <1>1, <1>2
<1> QED
  BY <1>1, <1>2, <1>3 DEF LeavesProperly

LEMMA DrainLeaves ==
  ASSUME TypeOK, NEW S \in SUBSET Assets, DrainToOwner(S) PROVE Leaving
<1> SUFFICES ASSUME NEW b \in Assets, held'[b] < held[b] PROVE LeavesProperly(b)
  BY DEF Leaving
<1>1. held[b] \in Nat
  BY DEF TypeOK
<1>2. CASE b \in S
  <2>1. held'[b] = 0 /\ wallet'["owner"][b] - wallet["owner"][b] = held[b]
    BY <1>2, DrainKeeps
  <2> QED
    BY <1>1, <2>1 DEF LeavesProperly
<1>3. CASE b \notin S
  <2>1. held'[b] = held[b]
    BY <1>3, DrainKeeps
  <2> QED
    BY <1>1, <2>1
<1> QED
  BY <1>2, <1>3

LEMMA SettleLeaves ==
  ASSUME CustodyInv,
         NEW a \in Assets, NEW k \in Keys, NEW r \in Recipients,
         NEW n \in U64, NEW s \in BOOLEAN, NEW c \in Contexts, Settle(a, k, r, n, s, c)
  PROVE  Leaving
<1>1. /\ TypeOK /\ Open /\ vault \in Vaults /\ now \in Nat /\ n \in Nat
      /\ authorize(vault, k, r, n, Available(a), s, now) = "Ok"
      /\ vault' = commit(vault, n, now) /\ PayOut(a, n, "others")
      /\ events \in Seq(PaymentEvents)
  BY DEF Settle, Accepts, OpenFor, Open, CustodyInv, TypeOK, U64
<1>2. Available(a) \in Nat /\ Available(a) <= held[a] /\ held[a] \in Nat /\ "others" \in Holders
  BY <1>1, AvailableBound DEF TypeOK, Holders
<1>3. n <= held[a]
  <2>1. n <= Available(a)
    BY <1>1, <1>2, Authorized
  <2> QED
    BY <1>1, <1>2, <2>1
<1>4. /\ vault' \in Vaults
      /\ vault'.total_paid = vault.total_paid + n
  BY <1>1, <1>2, CommitTyped
<1>5. /\ held'[a] = held[a] - n
      /\ \A b \in Assets \ {a} : held'[b] = held[b]
  BY <1>1, <1>2, <1>3, PayOutKeeps
<1>6. /\ Len(events') = Len(events) + 1
      /\ events'[Len(events')].mint = a
      /\ events'[Len(events')].amount = n
  <2> DEFINE e == [mint |-> a, recipient |-> r, amount |-> n, context_hash |-> c,
                   payment_count |-> vault.payment_count + 1, ts |-> now]
  <2>1. events' = Append(events, e)
    BY DEF Settle
  <2>2. Len(events') = Len(events) + 1 /\ events'[Len(events) + 1] = e
    BY <1>1, <2>1
  <2> QED
    BY <2>2
<1>7. Open /\ Open'
  BY <1>1, <1>4, NoVaultAssumption DEF Open
<1>8. vault.total_paid \in Nat
  BY <1>1, NumbersAssumption DEF Vaults, U64
<1> SUFFICES ASSUME NEW b \in Assets, held'[b] < held[b] PROVE LeavesProperly(b)
  BY DEF Leaving
<1>9. b = a /\ held[a] - held'[a] = n
  <2>1. held[b] \in Nat
    BY <1>1 DEF TypeOK
  <2> QED
    BY <1>1, <1>2, <1>5, <2>1
<1> QED
  BY <1>4, <1>6, <1>7, <1>8, <1>1, <1>9 DEF LeavesProperly

LEMMA StepLeaves ==
  ASSUME CustodyInv, [Next]_vars PROVE [Leaving]_vars
<1>t. /\ TypeOK /\ Native \in Assets /\ Mints \subseteq Assets
      /\ "owner" \in Holders /\ "others" \in Holders
      /\ Amounts \subseteq Nat /\ Amounts \subseteq U64 /\ Rent \in Nat
      /\ \A a \in Assets : held[a] \in Nat
  BY InputsAssumption, NumbersAssumption DEF CustodyInv, TypeOK, Assets, Holders, U64
<1>1. CASE UNCHANGED vars
  BY <1>1
<1>2. ASSUME OwnerStep PROVE Leaving
  <2>1. ASSUME NEW mint \in Assets, NEW p, NEW d, NEW c, NEW k,
               initialize_vault(mint, p, d, c, k)
        PROVE  Leaving
    <3> DEFINE top == IF held[Native] >= Rent THEN 0 ELSE Rent - held[Native]
    <3>1. top \in Nat /\ PayIn(Native, top, "owner")
      BY <1>t, <2>1 DEF initialize_vault
    <3> QED
      BY <1>t, <3>1, IntakeLeaves
  <2>2. ASSUME NEW v, Rewrite(v) PROVE Leaving
    BY <1>t, <2>2, NothingLeaves DEF Rewrite
  <2>3. ASSUME reset_window PROVE Leaving
    BY <1>t, <2>3, NothingLeaves DEF reset_window
  <2>4. ASSUME NEW n \in Amounts, withdraw_sol(n) PROVE Leaving
    <3>1. n \in Nat /\ PayOut(Native, n, "owner") /\ n <= Available(Native)
      BY <1>t, <2>4 DEF withdraw_sol
    <3>2. n <= held[Native]
      BY <1>t, <3>1, AvailableBound
    <3> QED
      BY <1>t, <3>1, <3>2, ToOwnerLeaves
  <2>5. ASSUME NEW m \in Mints, NEW n \in Amounts, withdraw_spl(m, n) PROVE Leaving
    BY <1>t, <2>5, ToOwnerLeaves DEF withdraw_spl
  <2>6. ASSUME close_vault_sol PROVE Leaving
    <3>1. DrainToOwner({Native}) /\ {Native} \in SUBSET Assets
      BY <1>t, <2>6 DEF close_vault_sol
    <3> QED
      BY <1>t, <3>1, DrainLeaves
  <2>7. ASSUME NEW m \in Mints, close_vault_spl(m) PROVE Leaving
    <3>1. DrainToOwner({m, Native}) /\ {m, Native} \in SUBSET Assets
      BY <1>t, <2>7 DEF close_vault_spl
    <3> QED
      BY <1>t, <3>1, DrainLeaves
  <2>8. ASSUME NEW m \in Mints, sweep_token(m) PROVE Leaving
    <3>1. DrainToOwner({m}) /\ {m} \in SUBSET Assets
      BY <1>t, <2>8 DEF sweep_token
    <3> QED
      BY <1>t, <3>1, DrainLeaves
  <2> QED
    BY <1>2, <2>1, <2>2, <2>3, <2>4, <2>5, <2>6, <2>7, <2>8
       DEF OwnerStep, set_policy, set_delegate, set_delegate_active,
           manage_allowlist, manage_blocklist
<1>3. ASSUME AgentStep PROVE Leaving
  <2>1. \E a \in Assets, k \in Keys, r \in Recipients, n \in U64, s \in BOOLEAN, c \in Contexts :
          Settle(a, k, r, n, s, c)
    BY <1>t, <1>3 DEF AgentStep, pay_sol, pay_spl
  <2> QED
    BY <2>1, SettleLeaves
<1>4. ASSUME WorldStep PROVE Leaving
  <2>1. ASSUME tick PROVE Leaving
    BY <1>t, <2>1, NothingLeaves DEF tick
  <2>2. ASSUME ~tick PROVE \E a \in Assets, n \in Nat, h \in Holders : PayIn(a, n, h)
    BY <1>t, <1>4, <2>2 DEF WorldStep, deposit_sol, deposit_spl, send_tokens, send_lamports
  <2> QED
    BY <1>t, <2>1, <2>2, IntakeLeaves
<1> QED
  BY <1>1, <1>2, <1>3, <1>4 DEF Next

(* Whatever leaves the address goes to the owner in full or is a logged    *)
(* and counted payment.                                                    *)
THEOREM OnlyOwnerOrBudgetHolds == Spec => OnlyOwnerOrBudget
<1>1. CustodyInv /\ [Next]_vars => [\A a \in Assets : held'[a] < held[a] => LeavesProperly(a)]_vars
  BY StepLeaves DEF Leaving
<1> QED
  BY <1>1, Custody, PTL DEF Spec, OnlyOwnerOrBudget

-----------------------------------------------------------------------------
(* The vault account stays well-formed whatever the address holds: what a  *)
(* component that starts from some open vault can count on.                *)
LEMMA InitializeTyped ==
  ASSUME AccountTyped, NEW mint \in Assets, NEW p \in PerTxLimits, NEW d \in DailyLimits,
         NEW c \in Thresholds, NEW k \in Keys \cup {NoKey}, initialize_vault(mint, p, d, c, k)
  PROVE  AccountTyped'
<1>1. /\ vault' = [mint |-> mint, delegate |-> k, delegate_active |-> k # NoKey,
                   per_tx_limit |-> p, daily_limit |-> d, cosign_threshold |-> c,
                   window_start |-> now, spent_in_window |-> 0,
                   allowlist |-> {}, blocklist |-> {}, total_paid |-> 0, payment_count |-> 0]
      /\ now' = now
  BY DEF initialize_vault
<1>2. p \in U64 /\ d \in U64 /\ c \in U64 /\ 0 \in U64 /\ now \in Nat
  BY InputsAssumption, NumbersAssumption DEF U64, AccountTyped
<1>3. vault' \in Vaults
  BY <1>1, <1>2 DEF Vaults
<1> QED
  BY <1>1, <1>2, <1>3 DEF AccountTyped

LEMMA OwnerTyped ==
  ASSUME AccountTyped, OwnerStep
  PROVE  AccountTyped'
<1>1. ASSUME NEW v, Open => v \in Vaults, Rewrite(v) PROVE AccountTyped'
  BY <1>1 DEF AccountTyped, Rewrite
<1>2. ASSUME NEW mint \in Assets, NEW p \in PerTxLimits, NEW d \in DailyLimits,
             NEW c \in Thresholds, NEW k \in Keys \cup {NoKey},
             initialize_vault(mint, p, d, c, k)
      PROVE  AccountTyped'
  BY <1>2, InitializeTyped
<1>3. ASSUME NEW p \in PerTxLimits, NEW d \in DailyLimits, NEW c \in Thresholds,
             set_policy(p, d, c)
      PROVE  AccountTyped'
  <2> DEFINE v == [vault EXCEPT !.per_tx_limit = p, !.daily_limit = d, !.cosign_threshold = c]
  <2>1. Rewrite(v)
    BY <1>3 DEF set_policy
  <2>2. Open => v \in Vaults
    BY EditsTyped
  <2> QED
    BY <2>1, <2>2, <1>1
<1>4. ASSUME NEW k \in Keys \cup {NoKey}, set_delegate(k) PROVE AccountTyped'
  <2> DEFINE v == [vault EXCEPT !.delegate = k, !.delegate_active = k # NoKey]
  <2>1. Rewrite(v)
    BY <1>4 DEF set_delegate
  <2>2. Open => v \in Vaults
    BY EditsTyped
  <2> QED
    BY <2>1, <2>2, <1>1
<1>5. ASSUME NEW active \in BOOLEAN, set_delegate_active(active) PROVE AccountTyped'
  <2> DEFINE v == [vault EXCEPT !.delegate_active = active]
  <2>1. Rewrite(v)
    BY <1>5 DEF set_delegate_active
  <2>2. Open => v \in Vaults
    BY EditsTyped
  <2> QED
    BY <2>1, <2>2, <1>1
<1>6. ASSUME NEW r \in Recipients, NEW add \in BOOLEAN, manage_allowlist(r, add)
      PROVE  AccountTyped'
  <2> DEFINE v == [vault EXCEPT !.allowlist = Edited(vault.allowlist, r, add)]
  <2>1. Rewrite(v)
    BY <1>6 DEF manage_allowlist
  <2>2. Open => v \in Vaults
    BY EditsTyped
  <2> QED
    BY <2>1, <2>2, <1>1
<1>7. ASSUME NEW r \in Recipients, NEW add \in BOOLEAN, manage_blocklist(r, add)
      PROVE  AccountTyped'
  <2> DEFINE v == [vault EXCEPT !.blocklist = Edited(vault.blocklist, r, add)]
  <2>1. Rewrite(v)
    BY <1>7 DEF manage_blocklist
  <2>2. Open => v \in Vaults
    BY EditsTyped
  <2> QED
    BY <2>1, <2>2, <1>1
<1>8. ASSUME reset_window PROVE AccountTyped'
  <2>1. vault' \in Vaults /\ now' = now
    BY <1>8, EditsTyped DEF reset_window
  <2> QED
    BY <2>1 DEF AccountTyped
<1>9. ASSUME vault' \in {vault, NoVault}, now' = now PROVE AccountTyped'
  BY <1>9 DEF AccountTyped
<1>10. ASSUME \/ \E n \in Amounts : withdraw_sol(n)
              \/ \E m \in Mints, n \in Amounts : withdraw_spl(m, n)
              \/ close_vault_sol
              \/ \E m \in Mints : close_vault_spl(m) \/ sweep_token(m)
       PROVE  AccountTyped'
  BY <1>9, <1>10 DEF withdraw_sol, withdraw_spl, close_vault_sol, close_vault_spl, sweep_token
<1> QED
  BY <1>2, <1>3, <1>4, <1>5, <1>6, <1>7, <1>8, <1>10 DEF OwnerStep

LEMMA WorldTyped ==
  ASSUME AccountTyped, WorldStep
  PROVE  AccountTyped'
<1>1. vault' = vault /\ now' \in {now, now + 1}
  BY DEF WorldStep, deposit_sol, deposit_spl, send_tokens, send_lamports, tick
<1> QED
  BY <1>1 DEF AccountTyped

LEMMA SettleTyped ==
  ASSUME AccountTyped, NEW a, NEW k, NEW r, NEW n \in U64, NEW s \in BOOLEAN, NEW c,
         Settle(a, k, r, n, s, c)
  PROVE  AccountTyped'
<1>1. /\ vault' = commit(vault, n, now) /\ now' = now /\ vault \in Vaults /\ now \in Nat
      /\ authorize(vault, k, r, n, Available(a), s, now) = "Ok"
  BY DEF Settle, Accepts, OpenFor, Open, AccountTyped
<1>2. commit(vault, n, now) \in Vaults
  BY <1>1, CommitTyped
<1> QED
  BY <1>1, <1>2 DEF AccountTyped

-----------------------------------------------------------------------------
(* The off-chain mirror, for every vault account, balance, recipient,      *)
(* amount and clock, not only for those that TLC enumerates.               *)

(* The numbers that the two rule chains compare.                           *)
LEMMA RuleNumbers ==
  ASSUME NEW v \in Vaults, NEW t \in Nat
  PROVE  /\ SpentNow(v, t) \in Nat /\ v.daily_limit \in Nat /\ v.daily_limit <= U64Max
         /\ v.per_tx_limit \in Nat /\ v.cosign_threshold \in Nat
         /\ v.total_paid \in Nat /\ v.payment_count \in Nat /\ U64Max \in Nat
<1> QED
  BY NumbersAssumption DEF Vaults, U64, SpentNow

(* The comparison the mirror leaves out, u64 overflow of the window total, *)
(* decides nothing: what overflows is over the daily limit as well.        *)
LEMMA OverflowIsOverDaily ==
  ASSUME NEW v \in Vaults, NEW t \in Nat, NEW amount \in U64,
         SpentNow(v, t) + amount > U64Max
  PROVE  SpentNow(v, t) + amount > v.daily_limit
<1>1. amount \in Nat
  BY NumbersAssumption DEF U64
<1> QED
  BY <1>1, RuleNumbers

(* Mirror and program, shown the same vault, stop at the same rule.        *)
THEOREM SameRule ==
  ASSUME NEW v \in Vaults, NEW available \in Nat, NEW recipient, NEW amount \in U64,
         NEW t \in Nat, CountersFit(v, amount)
  PROVE  Agree(v, available, recipient, amount, t)
<1> DEFINE spent == SpentNow(v, t)
           mirror == evaluate(v, available, recipient, amount, t)
           program(signed) == authorize(v, v.delegate, recipient, amount, available, signed, t)
<1>1. /\ ~(v.total_paid + amount > U64Max) /\ ~(v.payment_count + 1 > U64Max)
  <2>1. amount \in Nat
    BY NumbersAssumption DEF U64
  <2> QED
    BY <2>1, RuleNumbers DEF CountersFit
<1>2. spent + amount > U64Max => spent + amount > v.daily_limit
  BY OverflowIsOverDaily
<1>3. ASSUME NEW signed \in BOOLEAN
      PROVE  /\ mirror.verdict = "REVERT" => /\ program(signed) \notin {"Ok", "CosignRequired"}
                                             /\ mirror.rule = RuleOf(program(signed))
             /\ mirror.verdict = "HELD" => /\ mirror.rule = "cosign_threshold"
                                           /\ program(signed) = IF signed THEN "Ok"
                                                                ELSE "CosignRequired"
             /\ mirror.verdict = "ALLOW" => mirror.rule = "none" /\ program(signed) = "Ok"
             /\ mirror.verdict \in {"REVERT", "HELD", "ALLOW"}
  <2>1. CASE ~DelegateLive(v)
    BY <2>1 DEF evaluate, authorize, Revert, RuleOf
  <2>2. CASE DelegateLive(v) /\ (recipient \in v.blocklist \/ ~Listed(v, recipient))
    BY <2>2 DEF evaluate, authorize, Revert, RuleOf
  <2> DEFINE reached == /\ DelegateLive(v) /\ recipient \notin v.blocklist
                        /\ Listed(v, recipient)
  <2>3. CASE reached /\ (amount = 0 \/ amount > v.per_tx_limit)
    BY <2>3 DEF evaluate, authorize, Revert, RuleOf
  <2>4. CASE /\ reached /\ ~(amount = 0 \/ amount > v.per_tx_limit)
             /\ spent + amount > v.daily_limit
    BY <2>4 DEF evaluate, authorize, Revert, RuleOf
  <2>5. CASE /\ reached /\ ~(amount = 0 \/ amount > v.per_tx_limit)
             /\ ~(spent + amount > v.daily_limit)
    BY <2>5, <1>1, <1>2 DEF evaluate, authorize, Revert, RuleOf
  <2> QED
    BY <2>1, <2>2, <2>3, <2>4, <2>5
<1>4. RuleOf("Ok") = "none" /\ RuleOf("CosignRequired") = "cosign_threshold"
  BY DEF RuleOf
<1> HIDE DEF mirror, program
<1>5. /\ mirror.rule = RuleOf(program(FALSE))
      /\ mirror.verdict = "ALLOW" <=> program(FALSE) = "Ok"
      /\ mirror.verdict = "HELD" <=> program(FALSE) = "CosignRequired"
      /\ mirror.verdict \in {"ALLOW", "HELD"} <=> program(TRUE) = "Ok"
  BY <1>3, <1>4
<1> QED
  BY <1>5 DEF Agree, mirror, program

(* The mirror's verdict on the state the backend would read is right in    *)
(* every reachable state of the program.                                   *)
THEOREM MirrorAlwaysAgrees == Spec => []MirrorAgrees
<1>1. TypeOK => MirrorAgrees
  <2> SUFFICES ASSUME TypeOK, Open, NEW r \in Recipients, NEW amount \in U64,
                      CountersFit(vault, amount)
               PROVE  Agree(vault, Available(vault.mint), r, amount, now)
    BY DEF MirrorAgrees
  <2>1. vault \in Vaults /\ vault.mint \in Assets /\ now \in Nat
    BY DEF TypeOK, Open, Vaults
  <2>2. Available(vault.mint) \in Nat
    BY <2>1, AvailableBound
  <2> QED
    BY <2>1, <2>2, SameRule
<1> QED
  BY <1>1, TypeCorrect, PTL

-----------------------------------------------------------------------------
(* The program read as the escrow it implements.                           *)
Moved(g, spent, left) ==
  [asset |-> g.asset, key |-> g.key, most |-> g.most, limit |-> g.limit,
   spent |-> spent, left |-> left]

(* The grant of an account is well-formed, hence not the absence of one.   *)
LEMMA GrantTyped ==
  ASSUME NEW v \in Vaults, NEW t \in Nat
  PROVE  /\ GrantOf(v, t) \in Grants
         /\ GrantOf(v, t) # NoVault
         /\ GrantOf(v, t) = [asset |-> v.mint,
                             key   |-> IF DelegateLive(v) THEN v.delegate ELSE NoKey,
                             most  |-> v.per_tx_limit,
                             limit |-> v.daily_limit,
                             spent |-> SpentNow(v, t),
                             left  |-> LeftNow(v, t)]
<1>1. v # NoVault
  BY NoVaultAssumption
<1>2. /\ v.mint \in Assets /\ v.delegate \in Keys \cup {NoKey}
      /\ v.per_tx_limit \in U64 /\ v.daily_limit \in U64 /\ v.window_start \in Nat
      /\ v.spent_in_window \in U64
  BY DEF Vaults
<1>3. SpentNow(v, t) \in U64 /\ LeftNow(v, t) \in Nat
  BY <1>2, NumbersAssumption DEF SpentNow, LeftNow, WindowElapsed, U64
<1>4. GrantOf(v, t) \in Grants
  BY <1>1, <1>2, <1>3 DEF GrantOf, Grants
<1> QED
  BY <1>1, <1>4, NoGrantAssumption DEF GrantOf

(* The window of a committed payment: rolled if it had elapsed, and never  *)
(* elapsed afterwards.                                                     *)
LEMMA CommitGrant ==
  ASSUME NEW v \in Vaults, NEW n \in Nat, NEW t \in Nat, commit(v, n, t) \in Vaults
  PROVE  GrantOf(commit(v, n, t), t) =
           Moved(GrantOf(v, t), GrantOf(v, t).spent + n,
                 IF GrantOf(v, t).left = 0 THEN WINDOW_SECONDS ELSE GrantOf(v, t).left)
<1> DEFINE w == commit(v, n, t)
<1>1. /\ w.mint = v.mint /\ w.delegate = v.delegate /\ w.delegate_active = v.delegate_active
      /\ w.per_tx_limit = v.per_tx_limit /\ w.daily_limit = v.daily_limit
      /\ w.window_start = IF WindowElapsed(v, t) THEN t ELSE v.window_start
      /\ w.spent_in_window = SpentNow(v, t) + n
  BY DEF commit, Vaults
<1>2. v.window_start \in Nat /\ WINDOW_SECONDS \in Nat /\ WINDOW_SECONDS > 0
  BY NumbersAssumption DEF Vaults
<1>3. SpentNow(w, t) = SpentNow(v, t) + n
  BY <1>1, <1>2 DEF SpentNow, WindowElapsed
<1>4. LeftNow(w, t) = IF LeftNow(v, t) = 0 THEN WINDOW_SECONDS ELSE LeftNow(v, t)
  BY <1>1, <1>2 DEF LeftNow, WindowElapsed
<1>5. DelegateLive(w) = DelegateLive(v)
  BY <1>1 DEF DelegateLive
<1> HIDE DEF w
<1>6. GrantOf(w, t) = [asset |-> v.mint,
                       key   |-> IF DelegateLive(v) THEN v.delegate ELSE NoKey,
                       most  |-> v.per_tx_limit,
                       limit |-> v.daily_limit,
                       spent |-> SpentNow(v, t) + n,
                       left  |-> IF LeftNow(v, t) = 0 THEN WINDOW_SECONDS ELSE LeftNow(v, t)]
  <2>1. w \in Vaults
    BY DEF w
  <2> QED
    BY <1>1, <1>3, <1>4, <1>5, <2>1, GrantTyped
<1>7. GrantOf(w, t) = Moved(GrantOf(v, t), GrantOf(v, t).spent + n,
                          IF GrantOf(v, t).left = 0 THEN WINDOW_SECONDS
                          ELSE GrantOf(v, t).left)
  BY <1>6, GrantTyped DEF Moved
<1> QED
  BY <1>7 DEF w

(* As time passes the countdown of the escrow runs down, and at its end    *)
(* what was spent is forgotten.                                            *)
LEMMA LaterGrant ==
  ASSUME NEW v \in Vaults, NEW t \in Nat
  PROVE  GrantOf(v, t + 1) =
           Moved(GrantOf(v, t),
                 IF E!Later(GrantOf(v, t).left) = 0 THEN 0 ELSE GrantOf(v, t).spent,
                 E!Later(GrantOf(v, t).left))
<1>1. v.window_start \in Nat /\ WINDOW_SECONDS \in Nat /\ WINDOW_SECONDS > 0
  BY NumbersAssumption DEF Vaults
<1>2. LeftNow(v, t + 1) = E!Later(LeftNow(v, t))
  BY <1>1 DEF LeftNow, WindowElapsed, E!Later
<1>3. SpentNow(v, t + 1) = IF LeftNow(v, t + 1) = 0 THEN 0 ELSE SpentNow(v, t)
  BY <1>1 DEF LeftNow, WindowElapsed, SpentNow
<1>4. t + 1 \in Nat
  OBVIOUS
<1> QED
  BY <1>2, <1>3, <1>4, GrantTyped DEF Moved
-----------------------------------------------------------------------------
(* Kinds of steps of the program, as steps of the escrow.                  *)
LEMMA FillStep ==
  ASSUME TypeOK, NEW a \in Assets, NEW n \in Nat, NEW h \in Holders, PayIn(a, n, h),
         UNCHANGED <<vault, now>>
  PROVE  E!Fill
<1>1. n \in 0 .. wallet[h][a] /\ h \in {"owner", "others"}
  BY DEF PayIn, TypeOK, Holders
<1>2. E!Give(h, a, n)
  BY DEF E!Give, PayIn
<1>3. UNCHANGED GrantOf(vault, now)
  OBVIOUS
<1> QED
  BY <1>1, <1>2, <1>3 DEF E!Fill

LEMMA TakeStep ==
  ASSUME TypeOK, Open, NEW a \in Assets, NEW n \in Nat, n <= held[a],
         PayOut(a, n, "owner"), UNCHANGED <<vault, now>>
  PROVE  E!Take
<1>1. n \in 0 .. held[a]
  BY DEF TypeOK
<1>2. E!Hand("owner", a, n)
  BY DEF E!Hand, PayOut
<1>3. UNCHANGED GrantOf(vault, now) /\ GrantOf(vault, now) # NoVault
  BY GrantTyped DEF TypeOK, Open
<1> QED
  BY <1>1, <1>2, <1>3 DEF E!Take

(* Emptying one token account is taking all it holds.                      *)
LEMMA SweepStep ==
  ASSUME TypeOK, Open, NEW a \in Assets, DrainToOwner({a}), UNCHANGED <<vault, now>>
  PROVE  E!Take
<1>1. /\ held \in [Assets -> Nat] /\ wallet \in [Holders -> [Assets -> Nat]]
      /\ "owner" \in Holders
  BY DEF TypeOK, Holders
<1>2. held' = [held EXCEPT ![a] = held[a] - held[a]]
  <2>1. held[a] - held[a] = 0
    BY <1>1
  <2>2. held' = [b \in Assets |-> IF b = a THEN 0 ELSE held[b]]
    BY <1>1 DEF DrainToOwner
  <2>3. held' = [held EXCEPT ![a] = 0]
    BY <1>1, <2>2
  <2> QED
    BY <2>1, <2>3
<1>3. wallet' = [wallet EXCEPT !["owner"][a] = wallet["owner"][a] + held[a]]
  BY <1>1 DEF DrainToOwner
<1>4. PayOut(a, held[a], "owner")
  BY <1>2, <1>3 DEF PayOut
<1> QED
  BY <1>1, <1>4, TakeStep

LEMMA EndStep ==
  ASSUME TypeOK, Open, DrainToOwner({vault.mint, Native}), vault' = NoVault
  PROVE  E!End
<1>1. GrantOf(vault, now) # NoVault /\ GrantOf(vault, now).asset = vault.mint
  BY GrantTyped DEF TypeOK, Open
<1>2. GrantOf(vault', now') = NoVault
  BY DEF GrantOf
<1> QED
  BY <1>1, <1>2 DEF E!End, DrainToOwner

(* Edits of the account that leave the window as it is.                    *)
LEMMA AmendStep ==
  ASSUME TypeOK, NEW v \in Vaults, Rewrite(v), v.mint = vault.mint,
         v.window_start = vault.window_start, v.spent_in_window = vault.spent_in_window
  PROVE  E!Amend
<1>1. vault \in Vaults /\ now \in Nat /\ vault' = v /\ UNCHANGED <<held, wallet, now>>
  BY DEF Rewrite, TypeOK, Open
<1> DEFINE key == IF DelegateLive(v) THEN v.delegate ELSE NoKey
<1>2. SpentNow(v, now) = SpentNow(vault, now) /\ LeftNow(v, now) = LeftNow(vault, now)
  BY DEF SpentNow, LeftNow, WindowElapsed
<1>3. key \in Keys \cup {NoKey} /\ v.per_tx_limit \in U64 /\ v.daily_limit \in U64
  BY DEF Vaults
<1>4. GrantOf(v, now) = E!Terms(GrantOf(vault, now).asset, key, v.per_tx_limit, v.daily_limit,
                                GrantOf(vault, now).spent, GrantOf(vault, now).left)
  BY <1>1, <1>2, GrantTyped DEF E!Terms
<1>5. GrantOf(vault, now) # NoVault /\ GrantOf(vault', now') = GrantOf(v, now)
  BY <1>1, GrantTyped
<1> QED
  BY <1>1, <1>3, <1>4, <1>5 DEF E!Amend, E!money

LEMMA RenewStep ==
  ASSUME TypeOK, TypeOK', reset_window
  PROVE  E!Renew
<1>1. /\ vault \in Vaults /\ now \in Nat
      /\ vault' = [vault EXCEPT !.window_start = now, !.spent_in_window = 0]
      /\ UNCHANGED <<held, wallet, now>>
  BY DEF reset_window, TypeOK, Open
<1> DEFINE v == [vault EXCEPT !.window_start = now, !.spent_in_window = 0]
<1>2. /\ v.mint = vault.mint /\ v.delegate = vault.delegate
      /\ v.delegate_active = vault.delegate_active
      /\ v.per_tx_limit = vault.per_tx_limit /\ v.daily_limit = vault.daily_limit
      /\ v.window_start = now /\ v.spent_in_window = 0
  BY <1>1 DEF Vaults
<1>3. v \in Vaults /\ vault' = v
  <2>1. Open
    BY DEF reset_window
  <2> QED
    BY <2>1, <1>1, EditsTyped DEF TypeOK, AccountTyped
<1> HIDE DEF v
<1>4. SpentNow(v, now) = 0 /\ LeftNow(v, now) = WINDOW_SECONDS
  BY <1>1, <1>2, NumbersAssumption DEF SpentNow, LeftNow, WindowElapsed
<1>5. GrantOf(v, now) = E!Metered(0, WINDOW_SECONDS)
  BY <1>1, <1>2, <1>3, <1>4, GrantTyped DEF E!Metered, E!Terms, DelegateLive
<1>6. GrantOf(vault, now) # NoVault /\ GrantOf(vault', now') = GrantOf(v, now)
  BY <1>1, <1>3, GrantTyped
<1> QED
  BY <1>1, <1>5, <1>6 DEF E!Renew, E!money

LEMMA PassStep ==
  ASSUME TypeOK, Open, tick
  PROVE  E!Pass
<1>1. vault \in Vaults /\ now \in Nat /\ now' = now + 1 /\ UNCHANGED <<vault, held, wallet>>
  BY DEF tick, TypeOK, Open
<1>2. GrantOf(vault', now') = GrantOf(vault, now + 1) /\ GrantOf(vault, now) # NoVault
  BY <1>1, GrantTyped
<1>3. GrantOf(vault, now + 1) =
        E!Metered(IF E!Later(GrantOf(vault, now).left) = 0 THEN 0 ELSE GrantOf(vault, now).spent,
                  E!Later(GrantOf(vault, now).left))
  BY <1>1, LaterGrant DEF Moved, E!Metered, E!Terms
<1> QED
  BY <1>1, <1>2, <1>3 DEF E!Pass, E!money
-----------------------------------------------------------------------------
(* A payment: the rules it passed are the limits of the escrow.            *)
LEMMA SpendStep ==
  ASSUME TypeOK,
         NEW a \in Assets, NEW k \in Keys, NEW r \in Recipients,
         NEW n \in U64, NEW s \in BOOLEAN, NEW c \in Contexts, Settle(a, k, r, n, s, c)
  PROVE  E!Spend
<1> DEFINE g == GrantOf(vault, now)
<1>1. /\ Open /\ vault.mint = a /\ vault \in Vaults /\ now \in Nat /\ n \in Nat
      /\ authorize(vault, k, r, n, Available(a), s, now) = "Ok"
      /\ vault' = commit(vault, n, now) /\ PayOut(a, n, "others") /\ UNCHANGED now
  BY DEF Settle, Accepts, OpenFor, Open, TypeOK, U64
<1>2. Available(a) \in Nat /\ Available(a) <= held[a] /\ held[a] \in Nat
  BY <1>1, AvailableBound DEF TypeOK
<1>3. /\ n > 0 /\ n <= Available(a) /\ SpentNow(vault, now) + n <= vault.daily_limit
  BY <1>1, <1>2, Authorized
<1>4. DelegateLive(vault) /\ vault.delegate # NoKey /\ n <= vault.per_tx_limit
  <2>1. DelegateLive(vault) /\ ~(n > vault.per_tx_limit)
    BY <1>1 DEF authorize
  <2>2. vault.per_tx_limit \in Nat
    BY <1>1, NumbersAssumption DEF Vaults, U64
  <2> QED
    BY <1>1, <2>1, <2>2 DEF DelegateLive
<1>5. commit(vault, n, now) \in Vaults
  BY <1>1, <1>2, CommitTyped
<1>6. /\ g # NoVault /\ g.asset = a /\ g.key = vault.delegate /\ g.most = vault.per_tx_limit
      /\ g.limit = vault.daily_limit /\ g.spent = SpentNow(vault, now)
  BY <1>1, <1>4, GrantTyped
<1>7. GrantOf(vault', now') =
        E!Metered(g.spent + n, IF g.left = 0 THEN WINDOW_SECONDS ELSE g.left)
  BY <1>1, <1>5, CommitGrant DEF Moved, E!Metered, E!Terms
<1>8. E!Hand("others", g.asset, n)
  BY <1>1, <1>6 DEF E!Hand, PayOut
<1>9. n \in 1 .. held[g.asset] /\ n <= g.most /\ g.spent + n <= g.limit /\ g.key # NoKey
  BY <1>1, <1>2, <1>3, <1>4, <1>6
<1> QED
  BY <1>6, <1>7, <1>8, <1>9 DEF E!Spend

LEMMA BeginStep ==
  ASSUME TypeOK, NEW mint \in Assets, NEW p \in PerTxLimits, NEW d \in DailyLimits,
         NEW c \in Thresholds, NEW k \in Keys \cup {NoKey}, initialize_vault(mint, p, d, c, k)
  PROVE  E!Begin
<1> DEFINE top == IF held[Native] >= Rent THEN 0 ELSE Rent - held[Native]
<1>1. /\ Native \in Assets /\ held[Native] \in Nat /\ wallet["owner"][Native] \in Nat
      /\ Rent \in Nat /\ now \in Nat
  BY InputsAssumption DEF TypeOK, Assets, Holders
<1>2. top \in Nat /\ PayIn(Native, top, "owner")
  BY <1>1 DEF initialize_vault
<1>3. top \in 0 .. wallet["owner"][Native]
  BY <1>1, <1>2 DEF PayIn
<1>4. E!Give("owner", Native, top)
  BY <1>2 DEF E!Give, PayIn
<1>5. GrantOf(vault, now) = NoVault
  BY DEF initialize_vault, Open, GrantOf
<1>6. /\ vault'.mint = mint /\ vault'.delegate = k /\ vault'.delegate_active = (k # NoKey)
      /\ vault'.per_tx_limit = p /\ vault'.daily_limit = d
      /\ vault'.window_start = now /\ vault'.spent_in_window = 0 /\ now' = now
  BY DEF initialize_vault
<1>7. vault' \in Vaults /\ p \in U64 /\ d \in U64
  <2>1. p \in U64 /\ d \in U64 /\ c \in U64 /\ 0 \in U64
    BY InputsAssumption, NumbersAssumption DEF U64
  <2> QED
    BY <1>1, <2>1 DEF initialize_vault, Vaults
<1>8. SpentNow(vault', now) = 0 /\ LeftNow(vault', now) = WINDOW_SECONDS
  BY <1>1, <1>6, NumbersAssumption DEF SpentNow, LeftNow, WindowElapsed
<1>9. GrantOf(vault', now') = E!Terms(mint, k, p, d, 0, WINDOW_SECONDS)
  <2>1. (IF DelegateLive(vault') THEN vault'.delegate ELSE NoKey) = k
    BY <1>6 DEF DelegateLive
  <2>2. GrantOf(vault', now) = E!Terms(mint, k, p, d, 0, WINDOW_SECONDS)
    BY <1>1, <1>6, <1>7, <1>8, <2>1, GrantTyped DEF E!Terms
  <2> QED
    BY <1>6, <2>2
<1> QED
  BY <1>3, <1>4, <1>5, <1>7, <1>9 DEF E!Begin
-----------------------------------------------------------------------------
LEMMA OwnerEscrow ==
  ASSUME CustodyInv, TypeOK', OwnerStep
  PROVE  E!Next
<1>t. /\ TypeOK /\ Native \in Assets /\ Mints \subseteq Assets
      /\ Amounts \subseteq Nat /\ \A a \in Assets : held[a] \in Nat
  BY InputsAssumption DEF CustodyInv, TypeOK, Assets, U64
<1>1. ASSUME NEW mint \in Assets, NEW p \in PerTxLimits, NEW d \in DailyLimits,
             NEW c \in Thresholds, NEW k \in Keys \cup {NoKey},
             initialize_vault(mint, p, d, c, k)
      PROVE  E!Begin
  BY <1>t, <1>1, BeginStep
<1>2. ASSUME NEW p \in PerTxLimits, NEW d \in DailyLimits, NEW c \in Thresholds,
             set_policy(p, d, c)
      PROVE  E!Amend
  <2> DEFINE v == [vault EXCEPT !.per_tx_limit = p, !.daily_limit = d, !.cosign_threshold = c]
  <2>1. Open /\ Rewrite(v)
    BY <1>2 DEF set_policy, Rewrite
  <2>2. v \in Vaults
    BY <1>t, <2>1, EditsTyped DEF TypeOK, AccountTyped
  <2>3. v.mint = vault.mint /\ v.window_start = vault.window_start
          /\ v.spent_in_window = vault.spent_in_window
    BY <1>t, <2>1 DEF TypeOK, Open, Vaults
  <2> HIDE DEF v
  <2> QED
    BY <1>t, <2>1, <2>2, <2>3, AmendStep
<1>3. ASSUME NEW k \in Keys \cup {NoKey}, set_delegate(k)
      PROVE  E!Amend
  <2> DEFINE v == [vault EXCEPT !.delegate = k, !.delegate_active = k # NoKey]
  <2>1. Open /\ Rewrite(v)
    BY <1>3 DEF set_delegate, Rewrite
  <2>2. v \in Vaults
    BY <1>t, <2>1, EditsTyped DEF TypeOK, AccountTyped
  <2>3. v.mint = vault.mint /\ v.window_start = vault.window_start
          /\ v.spent_in_window = vault.spent_in_window
    BY <1>t, <2>1 DEF TypeOK, Open, Vaults
  <2> HIDE DEF v
  <2> QED
    BY <1>t, <2>1, <2>2, <2>3, AmendStep
<1>4. ASSUME NEW active \in BOOLEAN, set_delegate_active(active)
      PROVE  E!Amend
  <2> DEFINE v == [vault EXCEPT !.delegate_active = active]
  <2>1. Open /\ Rewrite(v)
    BY <1>4 DEF set_delegate_active, Rewrite
  <2>2. v \in Vaults
    BY <1>t, <2>1, EditsTyped DEF TypeOK, AccountTyped
  <2>3. v.mint = vault.mint /\ v.window_start = vault.window_start
          /\ v.spent_in_window = vault.spent_in_window
    BY <1>t, <2>1 DEF TypeOK, Open, Vaults
  <2> HIDE DEF v
  <2> QED
    BY <1>t, <2>1, <2>2, <2>3, AmendStep
<1>5. ASSUME NEW r \in Recipients, NEW add \in BOOLEAN, manage_allowlist(r, add)
      PROVE  E!Amend
  <2> DEFINE v == [vault EXCEPT !.allowlist = Edited(vault.allowlist, r, add)]
  <2>1. Open /\ Rewrite(v)
    BY <1>5 DEF manage_allowlist, Rewrite
  <2>2. v \in Vaults
    BY <1>t, <2>1, EditsTyped DEF TypeOK, AccountTyped
  <2>3. v.mint = vault.mint /\ v.window_start = vault.window_start
          /\ v.spent_in_window = vault.spent_in_window
    BY <1>t, <2>1 DEF TypeOK, Open, Vaults
  <2> HIDE DEF v
  <2> QED
    BY <1>t, <2>1, <2>2, <2>3, AmendStep
<1>6. ASSUME NEW r \in Recipients, NEW add \in BOOLEAN, manage_blocklist(r, add)
      PROVE  E!Amend
  <2> DEFINE v == [vault EXCEPT !.blocklist = Edited(vault.blocklist, r, add)]
  <2>1. Open /\ Rewrite(v)
    BY <1>6 DEF manage_blocklist, Rewrite
  <2>2. v \in Vaults
    BY <1>t, <2>1, EditsTyped DEF TypeOK, AccountTyped
  <2>3. v.mint = vault.mint /\ v.window_start = vault.window_start
          /\ v.spent_in_window = vault.spent_in_window
    BY <1>t, <2>1 DEF TypeOK, Open, Vaults
  <2> HIDE DEF v
  <2> QED
    BY <1>t, <2>1, <2>2, <2>3, AmendStep
<1>7. ASSUME reset_window PROVE E!Renew
  BY <1>t, <1>7, RenewStep
<1>8. ASSUME NEW n \in Amounts, withdraw_sol(n) PROVE E!Take
  <2>1. n \in Nat /\ Open /\ PayOut(Native, n, "owner") /\ n <= Available(Native)
          /\ UNCHANGED <<vault, now>>
    BY <1>t, <1>8 DEF withdraw_sol, OpenFor
  <2>2. n <= held[Native]
    BY <1>t, <2>1, AvailableBound
  <2> QED
    BY <1>t, <2>1, <2>2, TakeStep
<1>9. ASSUME NEW m \in Mints, NEW n \in Amounts, withdraw_spl(m, n) PROVE E!Take
  BY <1>t, <1>9, TakeStep DEF withdraw_spl, OpenFor
<1>10. ASSUME close_vault_sol PROVE E!End
  <2>1. Open /\ vault' = NoVault /\ DrainToOwner({Native}) /\ {vault.mint, Native} = {Native}
    BY <1>10 DEF close_vault_sol, OpenFor
  <2> QED
    BY <1>t, <2>1, EndStep
<1>11. ASSUME NEW m \in Mints, close_vault_spl(m) PROVE E!End
  BY <1>t, <1>11, EndStep DEF close_vault_spl, OpenFor
<1>12. ASSUME NEW m \in Mints, sweep_token(m) PROVE E!Take
  BY <1>t, <1>12, SweepStep DEF sweep_token
<1>13. E!Begin \/ E!Amend \/ E!Renew \/ E!Take \/ E!End
  BY <1>1, <1>2, <1>3, <1>4, <1>5, <1>6, <1>7, <1>8, <1>9, <1>10, <1>11, <1>12 DEF OwnerStep
<1> QED
  BY <1>13 DEF E!Next

LEMMA AgentEscrow ==
  ASSUME CustodyInv, AgentStep
  PROVE  E!Next
<1>1. TypeOK /\ Native \in Assets /\ Mints \subseteq Assets /\ Amounts \subseteq U64
  BY InputsAssumption DEF CustodyInv, Assets
<1>2. \E a \in Assets, k \in Keys, r \in Recipients, n \in U64, s \in BOOLEAN, c \in Contexts :
        Settle(a, k, r, n, s, c)
  BY <1>1 DEF AgentStep, pay_sol, pay_spl
<1>3. E!Spend
  BY <1>1, <1>2, SpendStep
<1> QED
  BY <1>3 DEF E!Next

LEMMA WorldEscrow ==
  ASSUME CustodyInv, WorldStep
  PROVE  E!Next \/ UNCHANGED <<held, wallet, GrantOf(vault, now)>>
<1>1. TypeOK /\ Native \in Assets /\ Mints \subseteq Assets /\ Amounts \subseteq Nat
        /\ "others" \in Holders
  BY InputsAssumption DEF CustodyInv, Assets, U64, Holders
<1>2. CASE tick /\ Open
  BY <1>1, <1>2, PassStep DEF E!Next
<1>3. CASE tick /\ ~Open
  BY <1>3 DEF tick, Open, GrantOf
<1>4. CASE ~tick
  <2>1. \E a \in Assets, n \in Nat, h \in Holders : PayIn(a, n, h) /\ UNCHANGED <<vault, now>>
    BY <1>1, <1>4 DEF WorldStep, deposit_sol, deposit_spl, send_tokens, send_lamports
  <2>2. E!Fill
    BY <1>1, <2>1, FillStep
  <2> QED
    BY <2>2 DEF E!Next
<1> QED
  BY <1>2, <1>3, <1>4

(* The program starts as an empty chest without a grant.                   *)
LEMMA InitEscrow == Init => E!Init
  BY DEF Init, E!Init, GrantOf

LEMMA StepEscrow ==
  CustodyInv /\ CustodyInv' /\ [Next]_vars => [E!Next]_<<held, wallet, GrantOf(vault, now)>>
<1> SUFFICES ASSUME CustodyInv, CustodyInv', [Next]_vars
             PROVE  E!Next \/ UNCHANGED <<held, wallet, GrantOf(vault, now)>>
  OBVIOUS
<1>1. CASE UNCHANGED vars
  BY <1>1 DEF vars
<1>2. CASE OwnerStep
  BY <1>2, OwnerEscrow DEF CustodyInv
<1>3. CASE AgentStep
  BY <1>3, AgentEscrow
<1>4. CASE WorldStep
  BY <1>4, WorldEscrow
<1> QED
  BY <1>1, <1>2, <1>3, <1>4 DEF Next

(* The on-chain program implements the escrow: however owner, delegates    *)
(* and the rest of the world interleave, every step of it is a step the    *)
(* escrow allows, or none.                                                 *)
THEOREM VaultIsEscrow == Spec => ImplementsEscrow
<1>1. Init => E!Init
  BY InitEscrow
<1>2. CustodyInv /\ CustodyInv' /\ [Next]_vars
        => [E!Next]_<<held, wallet, GrantOf(vault, now)>>
  BY StepEscrow
<1> QED
  BY <1>1, <1>2, Custody, PTL DEF Spec, ImplementsEscrow, E!Spec
=============================================================================
