---------------------------- MODULE PolicyMirror ----------------------------
(***************************************************************************)
(* PolicyService.evaluate, the backend's off-chain mirror of the program's *)
(* rules (src/backend/src/policy/policy.service.ts), and what its verdict  *)
(* says about the program's.                                               *)
(*                                                                         *)
(* The rule-by-rule breakdown is determined by the verdict and the rule    *)
(* that decided it (those before pass, those after are skipped), so only   *)
(* these two are kept.                                                     *)
(***************************************************************************)
EXTENDS PolicyVault

Revert(rule) == [verdict |-> "REVERT", rule |-> rule]

(* Mutant: the fixed window is not rolled off-chain.                       *)
Mut_evaluate(v, available, recipient, amount, nowSec) ==
  IF ~DelegateLive(v)                   THEN Revert("delegate_active")
  ELSE IF recipient \in v.blocklist \/ ~Listed(v, recipient)
                                        THEN Revert("recipient_check")
  ELSE IF amount = 0 \/ amount > v.per_tx_limit
                                        THEN Revert("per_tx_limit")
  ELSE IF v.spent_in_window + amount > v.daily_limit
                                        THEN Revert("daily_window")
  ELSE IF amount > available            THEN Revert("balance")
  ELSE IF amount >= v.cosign_threshold  THEN [verdict |-> "HELD", rule |-> "cosign_threshold"]
  ELSE [verdict |-> "ALLOW", rule |-> "none"]

(* The verdict on a payment, from the vault account and the balance the    *)
(* backend read and its own clock.                                         *)
evaluate(v, available, recipient, amount, nowSec) ==
  IF ~DelegateLive(v)                   THEN Revert("delegate_active")
  ELSE IF recipient \in v.blocklist \/ ~Listed(v, recipient)
                                        THEN Revert("recipient_check")
  ELSE IF amount = 0 \/ amount > v.per_tx_limit
                                        THEN Revert("per_tx_limit")
  ELSE IF SpentNow(v, nowSec) + amount > v.daily_limit
                                        THEN Revert("daily_window")
  ELSE IF amount > available            THEN Revert("balance")
  ELSE IF amount >= v.cosign_threshold  THEN [verdict |-> "HELD", rule |-> "cosign_threshold"]
  ELSE [verdict |-> "ALLOW", rule |-> "none"]

(* The mirror's rule for each error of the program.                        *)
RuleOf(error) ==
  CASE error \in {"DelegateRevoked", "BadDelegate"}        -> "delegate_active"
    [] error \in {"RecipientBlocked", "NotOnAllowlist"}    -> "recipient_check"
    [] error \in {"ZeroAmount", "OverPerTx"}               -> "per_tx_limit"
    [] error \in {"OverDaily", "MathOverflow"}             -> "daily_window"
    [] error = "InsufficientFunds"                         -> "balance"
    [] error = "CosignRequired"                            -> "cosign_threshold"
    [] error = "Ok"                                        -> "none"

CountersFit(v, amount) ==
  v.total_paid + amount <= U64Max /\ v.payment_count + 1 <= U64Max

-----------------------------------------------------------------------------
(* Where the two agree: shown the same vault, balance and clock, for a     *)
(* payment signed by the vault's delegate alone and counters that do not   *)
(* overflow, both stop at the same rule, and what the mirror holds for the *)
(* owner is what the owner's signature makes the program accept.           *)
Agree(v, available, recipient, amount, t) ==
  LET mirror  == evaluate(v, available, recipient, amount, t)
      program == authorize(v, v.delegate, recipient, amount, available, FALSE, t)
      cosigned == authorize(v, v.delegate, recipient, amount, available, TRUE, t)
  IN  /\ mirror.rule = RuleOf(program)
      /\ mirror.verdict = "ALLOW" <=> program = "Ok"
      /\ mirror.verdict = "HELD" <=> program = "CosignRequired"
      /\ mirror.verdict \in {"ALLOW", "HELD"} <=> cosigned = "Ok"

(* In every reachable state of the vault, for every amount and recipient.  *)
MirrorAgrees ==
  Open => \A r \in Recipients, amount \in U64 :
            CountersFit(vault, amount) =>
              Agree(vault, Available(vault.mint), r, amount, now)
=============================================================================
