----------------------------- MODULE MCClients -----------------------------
(***************************************************************************)
(* Instances of Clients for TLC.                                           *)
(***************************************************************************)
EXTENDS Clients

Item(domain, price) == [domain |-> domain, price |-> price]

(* Two purchases of one domain, at two prices or at one.                   *)
SomePlans == {<<Item("gpu", 1), Item("gpu", 2)>>, <<Item("gpu", 1), Item("gpu", 1)>>}

OneItem == {Item("gpu", 1)}
=============================================================================
