------------------------------- MODULE Escrow -------------------------------
(***************************************************************************)
(* What the on-chain program promises, in terms of money alone: a chest    *)
(* anyone may fill, that only its owner may empty, and of which the        *)
(* delegate may hand out one asset at a metered pace.  There are no        *)
(* accounts, rules or clocks here: the time left in a window runs down,    *)
(* and with it what was spent is forgotten at once.                        *)
(***************************************************************************)
EXTENDS Naturals

CONSTANTS
  Assets, Native,    \* assets, and the one a grant needs a deposit of
  Keys, NoKey,       \* keys a delegate can have, and none
  Figures,           \* amounts that can be written in a grant
  Endowment,         \* what the owner and the others hold at the start
  Window,            \* length of a spending window
  NoGrant            \* the delegate has no grant

VARIABLES
  chest,   \* chest[a]: what it holds of asset a
  purse,   \* purse[h][a]: what the owner, or everybody else, holds of it
  grant    \* what the delegate may spend, or NoGrant

money == <<chest, purse>>

(* Who may spend what, and how far the current window is.                  *)
Terms(asset, key, most, limit, spent, left) ==
  [asset |-> asset, key |-> key, most |-> most, limit |-> limit,
   spent |-> spent, left |-> left]

Init ==
  /\ chest = [a \in Assets |-> 0]
  /\ purse = Endowment
  /\ grant = NoGrant

Give(h, a, n) ==
  /\ chest' = [chest EXCEPT ![a] = @ + n]
  /\ purse' = [purse EXCEPT ![h][a] = @ - n]

Hand(h, a, n) ==
  /\ chest' = [chest EXCEPT ![a] = @ - n]
  /\ purse' = [purse EXCEPT ![h][a] = @ + n]

(* Anybody adds to the chest, at any time.                                 *)
Fill == \E h \in {"owner", "others"}, a \in Assets :
          \E n \in 0 .. purse[h][a] : Give(h, a, n) /\ UNCHANGED grant

(* The owner starts a grant with a full window.                            *)
Begin ==
  /\ grant = NoGrant
  /\ \E n \in 0 .. purse["owner"][Native] : Give("owner", Native, n)
  /\ \E a \in Assets, k \in Keys \cup {NoKey}, most \in Figures, limit \in Figures :
       grant' = Terms(a, k, most, limit, 0, Window)

(* The window moves on: another amount is spent, another time is left.     *)
Metered(spent, left) ==
  Terms(grant.asset, grant.key, grant.most, grant.limit, spent, left)

(* The owner rewrites who may spend and how much, not what was spent.      *)
Amend ==
  /\ grant # NoGrant
  /\ \E k \in Keys \cup {NoKey}, most \in Figures, limit \in Figures :
       grant' = Terms(grant.asset, k, most, limit, grant.spent, grant.left)
  /\ UNCHANGED money

(* The owner opens a new window.                                           *)
Renew ==
  /\ grant # NoGrant
  /\ grant' = Metered(0, Window)
  /\ UNCHANGED money

(* The delegate, while there is one, hands out the asset of the grant,     *)
(* within the limits; the first payment after a window opens the next.     *)
Spend ==
  /\ grant # NoGrant /\ grant.key # NoKey
  /\ \E n \in 1 .. chest[grant.asset] :
       /\ n <= grant.most /\ grant.spent + n <= grant.limit
       /\ Hand("others", grant.asset, n)
       /\ grant' = Metered(grant.spent + n, IF grant.left = 0 THEN Window ELSE grant.left)

(* The owner takes any asset out, without any limit.                       *)
Take ==
  /\ grant # NoGrant
  /\ \E a \in Assets : \E n \in 0 .. chest[a] : Hand("owner", a, n)
  /\ UNCHANGED grant

(* The owner ends the grant and gets all that it was about.                *)
End ==
  LET returned == {Native, grant.asset}
  IN  /\ grant # NoGrant /\ grant' = NoGrant
      /\ chest' = [a \in Assets |-> IF a \in returned THEN 0 ELSE chest[a]]
      /\ purse' = [purse EXCEPT !["owner"] =
                     [a \in Assets |-> IF a \in returned THEN @[a] + chest[a] ELSE @[a]]]

(* Time passes.                                                            *)
Later(left) == IF left = 0 THEN 0 ELSE left - 1

Pass ==
  /\ grant # NoGrant
  /\ grant' = Metered(IF Later(grant.left) = 0 THEN 0 ELSE grant.spent, Later(grant.left))
  /\ UNCHANGED money

Next == Fill \/ Begin \/ Amend \/ Renew \/ Spend \/ Take \/ End \/ Pass

Spec == Init /\ [][Next]_<<chest, purse, grant>>
=============================================================================
