----------------------------- MODULE MCIndexer -----------------------------
(***************************************************************************)
(* An instance of Indexer for TLC: a purchase through the backend, and a   *)
(* payment the backend did not submit, with the same context hash (the     *)
(* owner repeats the purchase from the command line) or another one.       *)
(***************************************************************************)
EXTENDS Indexer

MCContexts == {[t \in Txs |-> "repeated"], [t \in Txs |-> IF t \in Rows THEN "a" ELSE "x"]}
=============================================================================
