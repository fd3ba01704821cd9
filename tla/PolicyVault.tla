---------------------------- MODULE PolicyVault ----------------------------
(***************************************************************************)
(* The on-chain program budgent_vault and everything one vault address     *)
(* (the PDA of one owner and vault_id) holds.  Every instruction is one    *)
(* atomic action; an instruction that fails changes nothing and is no step *)
(* here.  Three parties act: the owner, the holders of delegate keys       *)
(* (payments) and the rest of the world, which can send assets to the      *)
(* address at any time without asking the program.                         *)
(*                                                                         *)
(* Fees and the rent of token accounts are not counted; a mint has at most *)
(* one token account under the vault's authority.                          *)
(***************************************************************************)
EXTENDS BudgetRules, Sequences, FiniteSetsExt

CONSTANTS
  Rent,           \* lamports that keep the vault account rent-exempt
  Endowment,      \* what the owner and the others hold at the start
  Contexts,       \* context hashes a payment can carry
  Amounts,        \* amounts an instruction is tried with
  PerTxLimits, DailyLimits, Thresholds,   \* policies the owner writes
  MaxNow,         \* bound on the clock
  MaxPayments,    \* bound on the payments of a behaviour
  MaxArms,        \* bound on initialize_vault plus reset_window
  NoVault         \* the vault account does not exist

Holders == {"owner", "others"}

ASSUME InputsAssumption ==
  /\ Rent \in Nat
  /\ Endowment \in [Holders -> [Assets -> Nat]]
  /\ Amounts \subseteq U64
  /\ PerTxLimits \subseteq U64 /\ DailyLimits \subseteq U64 /\ Thresholds \subseteq U64

ASSUME NoVaultAssumption == NoVault \notin Vaults

ASSUME BoundsAssumption ==
  MaxNow \in Nat /\ MaxPayments \in Nat /\ MaxArms \in Nat

VARIABLES
  vault,    \* the vault account, or NoVault
  held,     \* held[a]: what the vault address holds of asset a, rent included
  atas,     \* mints that have a token account under the vault's authority
  wallet,   \* wallet[h][a]: what the owner, or everybody else, holds of a
  now,      \* the cluster's unix_timestamp
  events,   \* the PaymentSettled events emitted so far
  arms      \* when the owner opened a window: initialize_vault, reset_window

vars == <<vault, held, atas, wallet, now, events, arms>>

PaymentEvents ==
  [mint : Assets, recipient : Recipients, amount : U64, context_hash : Contexts,
   payment_count : U64, ts : Nat]

TypeOK ==
  /\ vault \in Vaults \cup {NoVault}
  /\ held \in [Assets -> Nat]
  /\ atas \in SUBSET Mints
  /\ wallet \in [Holders -> [Assets -> Nat]]
  /\ now \in Nat
  /\ events \in Seq(PaymentEvents)
  /\ arms \in Seq(Nat)

Init ==
  /\ vault = NoVault
  /\ held = [a \in Assets |-> 0]
  /\ atas = {}
  /\ wallet = Endowment
  /\ now = 0
  /\ events = <<>>
  /\ arms = <<>>

Open == vault # NoVault

OpenFor(asset) == Open /\ vault.mint = asset

(* What a payment or a native withdrawal may take: an SPL vault offers its *)
(* token account, a SOL vault its lamports above the rent.                 *)
Available(asset) ==
  IF asset = Native THEN (IF held[Native] >= Rent THEN held[Native] - Rent ELSE 0)
  ELSE held[asset]

(* n of an asset moves from the address to a holder, or the other way.     *)
PayOut(asset, n, to) ==
  /\ held' = [held EXCEPT ![asset] = @ - n]
  /\ wallet' = [wallet EXCEPT ![to][asset] = @ + n]

PayIn(asset, n, from) ==
  /\ n <= wallet[from][asset]
  /\ held' = [held EXCEPT ![asset] = @ + n]
  /\ wallet' = [wallet EXCEPT ![from][asset] = @ - n]

-----------------------------------------------------------------------------
(* The owner's instructions that write the budget.                         *)

(* `init` tops the account up to the rent whatever lamports it holds.      *)
initialize_vault(mint, per_tx_limit, daily_limit, cosign_threshold, delegate) ==
  /\ ~Open
  /\ Len(arms) < MaxArms
  /\ PayIn(Native, IF held[Native] >= Rent THEN 0 ELSE Rent - held[Native], "owner")
  /\ vault' = [mint |-> mint, delegate |-> delegate, delegate_active |-> delegate # NoKey,
               per_tx_limit |-> per_tx_limit, daily_limit |-> daily_limit,
               cosign_threshold |-> cosign_threshold,
               window_start |-> now, spent_in_window |-> 0,
               allowlist |-> {}, blocklist |-> {}, total_paid |-> 0, payment_count |-> 0]
  /\ arms' = Append(arms, now)
  /\ UNCHANGED <<atas, now, events>>

(* Only the vault account changes.                                         *)
Rewrite(v) ==
  /\ Open
  /\ vault' = v
  /\ UNCHANGED <<held, atas, wallet, now, events, arms>>

(* The daily window is left alone: what was spent stays counted.           *)
set_policy(per_tx_limit, daily_limit, cosign_threshold) ==
  Rewrite([vault EXCEPT !.per_tx_limit = per_tx_limit,
                        !.daily_limit = daily_limit,
                        !.cosign_threshold = cosign_threshold])

set_delegate(delegate) ==
  Rewrite([vault EXCEPT !.delegate = delegate, !.delegate_active = delegate # NoKey])

set_delegate_active(active) == Rewrite([vault EXCEPT !.delegate_active = active])

(* An entry is added only while the list has room, and added twice or      *)
(* removed when absent it changes nothing.                                 *)
Edited(list, addr, add) == IF add THEN list \cup {addr} ELSE list \ {addr}

HasRoom(list, addr, add) == add /\ addr \notin list => Cardinality(list) < MAX_LIST_LEN

manage_allowlist(addr, add) ==
  /\ Open /\ HasRoom(vault.allowlist, addr, add)
  /\ Rewrite([vault EXCEPT !.allowlist = Edited(@, addr, add)])

manage_blocklist(addr, add) ==
  /\ Open /\ HasRoom(vault.blocklist, addr, add)
  /\ Rewrite([vault EXCEPT !.blocklist = Edited(@, addr, add)])

reset_window ==
  /\ Open
  /\ Len(arms) < MaxArms
  /\ vault' = [vault EXCEPT !.window_start = now, !.spent_in_window = 0]
  /\ arms' = Append(arms, now)
  /\ UNCHANGED <<held, atas, wallet, now, events>>

-----------------------------------------------------------------------------
(* Deposits, and transfers to the address that bypass the program.         *)

deposit_sol(from, amount) ==
  /\ amount > 0
  /\ OpenFor(Native)
  /\ PayIn(Native, amount, from)
  /\ UNCHANGED <<vault, atas, now, events, arms>>

(* The vault's token account is created when missing.                      *)
deposit_spl(mint, from, amount) ==
  /\ amount > 0
  /\ OpenFor(mint)
  /\ PayIn(mint, amount, from)
  /\ atas' = atas \cup {mint}
  /\ UNCHANGED <<vault, now, events, arms>>

(* Anyone may create a token account for the address and transfer to it,   *)
(* or send it lamports, whether or not the vault exists.                   *)
send_tokens(mint, amount) ==
  /\ PayIn(mint, amount, "others")
  /\ atas' = atas \cup {mint}
  /\ UNCHANGED <<vault, now, events, arms>>

send_lamports(amount) ==
  /\ amount > 0
  /\ PayIn(Native, amount, "others")
  /\ UNCHANGED <<vault, atas, now, events, arms>>

-----------------------------------------------------------------------------
(* The delegate's instructions.                                            *)

(* The program accepts a transfer when the vault holds that asset, its     *)
(* token account exists (SPL) and every rule passes.                       *)
Accepts(asset, delegate, recipient, amount, owner_is_signer) ==
  /\ OpenFor(asset)
  /\ asset \in atas \cup {Native}
  /\ authorize(vault, delegate, recipient, amount, Available(asset),
               owner_is_signer, now) = "Ok"

(* It is then committed, moved and logged in one step.                     *)
Settle(asset, delegate, recipient, amount, owner_is_signer, context) ==
  /\ Accepts(asset, delegate, recipient, amount, owner_is_signer)
  /\ Len(events) < MaxPayments
  /\ vault' = commit(vault, amount, now)
  /\ PayOut(asset, amount, "others")
  /\ events' = Append(events,
       [mint |-> asset, recipient |-> recipient, amount |-> amount, context_hash |-> context,
        payment_count |-> vault.payment_count + 1, ts |-> now])
  /\ UNCHANGED <<atas, now, arms>>

pay_sol(delegate, recipient, amount, owner_is_signer, context) ==
  Settle(Native, delegate, recipient, amount, owner_is_signer, context)

pay_spl(mint, delegate, recipient, amount, owner_is_signer, context) ==
  Settle(mint, delegate, recipient, amount, owner_is_signer, context)

-----------------------------------------------------------------------------
(* The owner's instructions that take assets out: no rule of the budget    *)
(* is consulted.                                                           *)

(* Mutant: the rent is offered too.                                        *)
Mut_withdraw_sol(amount) ==
  /\ amount > 0
  /\ OpenFor(Native)
  /\ amount <= held[Native]
  /\ PayOut(Native, amount, "owner")
  /\ UNCHANGED <<vault, atas, now, events, arms>>

withdraw_sol(amount) ==
  /\ amount > 0
  /\ OpenFor(Native)
  /\ amount <= Available(Native)
  /\ PayOut(Native, amount, "owner")
  /\ UNCHANGED <<vault, atas, now, events, arms>>

withdraw_spl(mint, amount) ==
  /\ amount > 0
  /\ OpenFor(mint) /\ mint \in atas
  /\ amount <= held[mint]
  /\ PayOut(mint, amount, "owner")
  /\ UNCHANGED <<vault, atas, now, events, arms>>

(* Mutant: the balance is read after it was zeroed.                        *)
Mut_DrainToOwner(S) ==
  /\ held' = [a \in Assets |-> IF a \in S THEN 0 ELSE held[a]]
  /\ UNCHANGED wallet

(* Everything the address holds of the assets in S goes to the owner.      *)
DrainToOwner(S) ==
  /\ held' = [a \in Assets |-> IF a \in S THEN 0 ELSE held[a]]
  /\ wallet' = [wallet EXCEPT !["owner"] =
                  [a \in Assets |-> IF a \in S THEN @[a] + held[a] ELSE @[a]]]

(* Mutant: the lamports go to whoever pays for the transaction.            *)
Mut_close_vault_sol ==
  /\ OpenFor(Native)
  /\ PayOut(Native, held[Native], "others")
  /\ vault' = NoVault
  /\ UNCHANGED <<atas, now, events, arms>>

close_vault_sol ==
  /\ OpenFor(Native)
  /\ DrainToOwner({Native})
  /\ vault' = NoVault
  /\ UNCHANGED <<atas, now, events, arms>>

(* Mutant: the token account is closed without draining it first.          *)
Mut_close_vault_spl(mint) ==
  /\ OpenFor(mint) /\ mint \in atas
  /\ DrainToOwner({Native})
  /\ atas' = atas \ {mint}
  /\ vault' = NoVault
  /\ UNCHANGED <<now, events, arms>>

(* The vault's token account must exist: it is drained and closed, then    *)
(* the vault account is.                                                   *)
close_vault_spl(mint) ==
  /\ OpenFor(mint) /\ mint \in atas
  /\ DrainToOwner({mint, Native})
  /\ atas' = atas \ {mint}
  /\ vault' = NoVault
  /\ UNCHANGED <<now, events, arms>>

(* Any mint, the vault's own or not: drained and its account closed.       *)
sweep_token(mint) ==
  /\ Open /\ mint \in atas
  /\ DrainToOwner({mint})
  /\ atas' = atas \ {mint}
  /\ UNCHANGED <<vault, now, events, arms>>

-----------------------------------------------------------------------------
tick ==
  /\ now < MaxNow
  /\ now' = now + 1
  /\ UNCHANGED <<vault, held, atas, wallet, events, arms>>

OwnerStep ==
  \/ \E mint \in Assets, p \in PerTxLimits, d \in DailyLimits, c \in Thresholds,
        k \in Keys \cup {NoKey} : initialize_vault(mint, p, d, c, k)
  \/ \E p \in PerTxLimits, d \in DailyLimits, c \in Thresholds : set_policy(p, d, c)
  \/ \E k \in Keys \cup {NoKey} : set_delegate(k)
  \/ \E active \in BOOLEAN : set_delegate_active(active)
  \/ \E r \in Recipients, add \in BOOLEAN : manage_allowlist(r, add)
  \/ \E r \in Recipients, add \in BOOLEAN : manage_blocklist(r, add)
  \/ reset_window
  \/ \E amount \in Amounts : withdraw_sol(amount)
  \/ \E mint \in Mints, amount \in Amounts : withdraw_spl(mint, amount)
  \/ close_vault_sol
  \/ \E mint \in Mints : close_vault_spl(mint)
  \/ \E mint \in Mints : sweep_token(mint)

AgentStep ==
  \E k \in Keys, r \in Recipients, amount \in Amounts, signed \in BOOLEAN, c \in Contexts :
    \/ pay_sol(k, r, amount, signed, c)
    \/ \E mint \in Mints : pay_spl(mint, k, r, amount, signed, c)

WorldStep ==
  \/ \E h \in Holders, amount \in Amounts : deposit_sol(h, amount)
  \/ \E h \in Holders, mint \in Mints, amount \in Amounts : deposit_spl(mint, h, amount)
  \/ \E mint \in Mints, amount \in Amounts : send_tokens(mint, amount)
  \/ \E amount \in Amounts : send_lamports(amount)
  \/ tick

Next == OwnerStep \/ AgentStep \/ WorldStep

Spec == Init /\ [][Next]_vars

-----------------------------------------------------------------------------
(* Custody.                                                                *)

(* No instruction creates or destroys an asset: what the address, the      *)
(* owner and the others hold always adds up to the initial endowment.      *)
Conservation ==
  \A a \in Assets :
    held[a] + wallet["owner"][a] + wallet["others"][a]
      = Endowment["owner"][a] + Endowment["others"][a]

(* An open vault is never drained below its rent, whichever of payments,   *)
(* withdrawals and closes come in whatever order (pay_sol and withdraw_sol *)
(* compute their limit separately), so the account cannot be garbage       *)
(* collected with the budget in it.                                        *)
RentExempt == Open => held[Native] >= Rent

(* Assets leave the address in two ways only: into the owner's wallet, in  *)
(* full, or as a payment that is logged with that amount and that asset    *)
(* and counted in the vault's totals.                                      *)
LeavesProperly(a) ==
  \/ wallet'["owner"][a] - wallet["owner"][a] = held[a] - held'[a]
  \/ /\ Open /\ Open'
     /\ Len(events') = Len(events) + 1
     /\ events'[Len(events')].mint = a
     /\ events'[Len(events')].amount = held[a] - held'[a]
     /\ vault'.total_paid - vault.total_paid = held[a] - held'[a]

OnlyOwnerOrBudget ==
  [][\A a \in Assets : held'[a] < held[a] => LeavesProperly(a)]_vars

-----------------------------------------------------------------------------
(* The budget.                                                             *)

Paid(S) == MapThenSumSet(LAMBDA i : events[i].amount, S)

(* spent_in_window is what the log says was paid since the window opened;  *)
(* payments of the very second of a reset may fall on either side of it.   *)
SpentIsWindowTotal ==
  Open => /\ Paid({i \in DOMAIN events : events[i].ts > vault.window_start})
               <= vault.spent_in_window
          /\ vault.spent_in_window
               <= Paid({i \in DOMAIN events : events[i].ts >= vault.window_start})

(* total_paid and payment_count describe the latest payments of the log,   *)
(* those of the vault's present life, numbered from 1 without a gap.       *)
TotalMatchesHistory ==
  Open =>
    LET life == {i \in DOMAIN events : i > Len(events) - vault.payment_count}
    IN  /\ vault.payment_count <= Len(events)
        /\ vault.total_paid = Paid(life)
        /\ \A i \in life : /\ events[i].payment_count = i - (Len(events) - vault.payment_count)
                           /\ events[i].mint = vault.mint

(* The boundary claim of the module docs: in no stretch of WINDOW_SECONDS  *)
(* is more paid than twice the largest daily limit, and one limit more for *)
(* each time the owner re-armed the window in that stretch.                *)
RollingBudget ==
  \A t \in 0 .. now :
    Paid({i \in DOMAIN events : events[i].ts \in t .. (t + WINDOW_SECONDS - 1)})
      <= (2 + Cardinality({i \in DOMAIN arms : arms[i] \in t .. (t + WINDOW_SECONDS - 1)}))
           * Max(DailyLimits)
=============================================================================
