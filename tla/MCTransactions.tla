-------------------------- MODULE MCTransactions --------------------------
(***************************************************************************)
(* Instances of Transactions for TLC.                                      *)
(***************************************************************************)
EXTENDS Transactions, TLC

CONSTANTS a1, a2

(* One and two base units on either side of zero: as numbers, each the     *)
(* worst binary fraction, and as a text.                                   *)
Literal(n, text) == [n |-> n, text |-> text]
TypedNearGrid == {Literal(995, FALSE), Literal(-2004, FALSE), Literal(2000, TRUE)}

AgentSymmetry == Permutations({a1, a2})
=============================================================================
