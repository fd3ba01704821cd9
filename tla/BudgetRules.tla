---------------------------- MODULE BudgetRules ----------------------------
(***************************************************************************)
(* The budget an owner puts on a vault, and the ordered rules that decide  *)
(* whether the vault's delegate may pay: the pure part of the on-chain     *)
(* program budgent_vault (src/onchain/programs/budgent_vault/src/lib.rs).  *)
(*                                                                         *)
(* Public keys are members of Keys, Recipients and Mints.  A u64 is a      *)
(* number in U64, and `checked_add` is an explicit comparison with U64Max. *)
(* A recipient list is the set of its entries: the program only tests      *)
(* membership and length, and never inserts an entry twice.                *)
(***************************************************************************)
EXTENDS Naturals, FiniteSets

CONSTANTS
  Keys,            \* public keys a delegate can have
  NoKey,           \* Pubkey::default(): no delegate is set
  Recipients,      \* addresses a payment can go to
  Mints,           \* SPL mints
  Native,          \* NATIVE_MINT_SENTINEL: the vault holds SOL
  U64Max,          \* u64::MAX
  WINDOW_SECONDS,  \* length of the daily window
  MAX_LIST_LEN     \* capacity of a recipient list

ASSUME KeysAssumption == NoKey \notin Keys
ASSUME AssetsAssumption == Native \notin Mints
ASSUME NumbersAssumption ==
  /\ U64Max \in Nat
  /\ WINDOW_SECONDS \in Nat \ {0}
  /\ MAX_LIST_LEN \in Nat

U64 == 0 .. U64Max
Assets == Mints \cup {Native}

Vaults ==
  [mint             : Assets,
   delegate         : Keys \cup {NoKey},
   delegate_active  : BOOLEAN,
   per_tx_limit     : U64,
   daily_limit      : U64,
   cosign_threshold : U64,
   window_start     : Nat,
   spent_in_window  : U64,
   allowlist        : SUBSET Recipients,
   blocklist        : SUBSET Recipients,
   total_paid       : U64,
   payment_count    : U64]

-----------------------------------------------------------------------------
(* The fixed window: it is rolled lazily, by the first payment that finds  *)
(* WINDOW_SECONDS or more elapsed since it was opened.                     *)

WindowElapsed(v, now) == now >= v.window_start + WINDOW_SECONDS

(* Mutant: the window is never reset.                                      *)
Mut_SpentNow(v, now) == v.spent_in_window

(* What counts against the daily limit now.                                *)
SpentNow(v, now) == IF WindowElapsed(v, now) THEN 0 ELSE v.spent_in_window

DelegateLive(v) == v.delegate_active /\ v.delegate # NoKey

Listed(v, recipient) == v.allowlist = {} \/ recipient \in v.allowlist

(* Mutant: the sum of all payments is added unchecked.                     *)
Mut_authorize(v, delegate, recipient, amount, available, owner_is_signer, now) ==
  IF ~DelegateLive(v)                               THEN "DelegateRevoked"
  ELSE IF delegate # v.delegate                     THEN "BadDelegate"
  ELSE IF recipient \in v.blocklist                 THEN "RecipientBlocked"
  ELSE IF ~Listed(v, recipient)                     THEN "NotOnAllowlist"
  ELSE IF amount = 0                                THEN "ZeroAmount"
  ELSE IF amount > v.per_tx_limit                   THEN "OverPerTx"
  ELSE IF SpentNow(v, now) + amount > U64Max        THEN "MathOverflow"
  ELSE IF SpentNow(v, now) + amount > v.daily_limit THEN "OverDaily"
  ELSE IF amount > available                        THEN "InsufficientFunds"
  ELSE IF amount >= v.cosign_threshold /\ ~owner_is_signer
                                                    THEN "CosignRequired"
  ELSE IF v.payment_count + 1 > U64Max              THEN "MathOverflow"
  ELSE "Ok"

(* authorize_and_commit up to the commit: the first rule that fails, in    *)
(* the program's order, or "Ok".  The two additions after the last rule    *)
(* are checked too; payment_count can overflow only at u64::MAX payments.  *)
authorize(v, delegate, recipient, amount, available, owner_is_signer, now) ==
  IF ~DelegateLive(v)                               THEN "DelegateRevoked"
  ELSE IF delegate # v.delegate                     THEN "BadDelegate"
  ELSE IF recipient \in v.blocklist                 THEN "RecipientBlocked"
  ELSE IF ~Listed(v, recipient)                     THEN "NotOnAllowlist"
  ELSE IF amount = 0                                THEN "ZeroAmount"
  ELSE IF amount > v.per_tx_limit                   THEN "OverPerTx"
  ELSE IF SpentNow(v, now) + amount > U64Max        THEN "MathOverflow"
  ELSE IF SpentNow(v, now) + amount > v.daily_limit THEN "OverDaily"
  ELSE IF amount > available                        THEN "InsufficientFunds"
  ELSE IF amount >= v.cosign_threshold /\ ~owner_is_signer
                                                    THEN "CosignRequired"
  ELSE IF v.total_paid + amount > U64Max            THEN "MathOverflow"
  ELSE IF v.payment_count + 1 > U64Max              THEN "MathOverflow"
  ELSE "Ok"

(* Mutant: a window rolled without being re-opened is rolled every time.   *)
Mut_commit(v, amount, now) ==
  [v EXCEPT !.spent_in_window = SpentNow(v, now) + amount,
            !.total_paid      = @ + amount,
            !.payment_count   = @ + 1]

(* Mutant: the window's total is written where the vault's belongs.        *)
Mut_commit_total(v, amount, now) ==
  [v EXCEPT !.window_start    = IF WindowElapsed(v, now) THEN now ELSE @,
            !.spent_in_window = SpentNow(v, now) + amount,
            !.total_paid      = SpentNow(v, now) + amount,
            !.payment_count   = @ + 1]

(* What authorize_and_commit writes when every rule passed.                *)
commit(v, amount, now) ==
  [v EXCEPT !.window_start    = IF WindowElapsed(v, now) THEN now ELSE @,
            !.spent_in_window = SpentNow(v, now) + amount,
            !.total_paid      = @ + amount,
            !.payment_count   = @ + 1]
=============================================================================
