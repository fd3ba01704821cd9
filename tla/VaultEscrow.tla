---------------------------- MODULE VaultEscrow ----------------------------
(***************************************************************************)
(* The on-chain program read as the escrow it implements.  The program has *)
(* no countdown: a window is rolled by the payment that finds it elapsed,  *)
(* and what was spent is only overwritten then.                            *)
(***************************************************************************)
EXTENDS PolicyVault

(* The time left of the window, and the grant an account stands for.       *)
LeftNow(v, t) == IF WindowElapsed(v, t) THEN 0 ELSE (v.window_start + WINDOW_SECONDS) - t

GrantOf(v, t) ==
  IF v = NoVault THEN NoVault
  ELSE [asset |-> v.mint,
        key   |-> IF DelegateLive(v) THEN v.delegate ELSE NoKey,
        most  |-> v.per_tx_limit,
        limit |-> v.daily_limit,
        spent |-> SpentNow(v, t),
        left  |-> LeftNow(v, t)]

Grants == [asset : Assets, key : Keys \cup {NoKey}, most : U64, limit : U64,
           spent : U64, left : Nat]

ASSUME NoGrantAssumption == NoVault \notin Grants

E == INSTANCE Escrow WITH
  Figures <- U64, Window <- WINDOW_SECONDS, NoGrant <- NoVault,
  chest <- held, purse <- wallet, grant <- GrantOf(vault, now)

(* The program implements the escrow: with its window rolled lazily, its   *)
(* two ways to compute a balance and its five ways out, it moves money     *)
(* only as Escrow allows, and forgets what was spent exactly then.         *)
ImplementsEscrow == E!Spec
=============================================================================
