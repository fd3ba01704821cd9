------------------------------ MODULE Intents ------------------------------
(***************************************************************************)
(* What the payment lifecycle promises the owner: every intent comes to    *)
(* one of five endings, money moves for it once at most and never after it *)
(* was denied or has failed, and the log tells the ending it came to.      *)
(* There are no requests, transactions or signatures here.                 *)
(***************************************************************************)
EXTENDS Naturals

CONSTANT Ids    \* names of intents

VARIABLES
  said,    \* said[id]: what the owner is told of the intent
  moved,   \* moved[id]: how often money moved for it
  told     \* endings in the log: pairs of an intent and an ending

Open == {"CREATED", "HELD"}
Logged == {"SETTLED", "APPROVED", "REVERTED", "DENIED"}

Init ==
  /\ said = [id \in Ids |-> "NONE"]
  /\ moved = [id \in Ids |-> 0]
  /\ told = {}

Say(id, before, after) ==
  /\ said[id] \in before
  /\ said' = [said EXCEPT ![id] = after]
  /\ UNCHANGED <<moved, told>>

Ask(id) == Say(id, {"NONE"}, "CREATED")

Hold(id) == Say(id, {"CREATED"}, "HELD")

(* Money moves.  The network's answer may have been lost meanwhile: then   *)
(* the owner was told of a rejection.                                      *)
Pay(id) ==
  /\ said[id] \in Open \cup {"REVERTED"}
  /\ moved[id] = 0
  /\ moved' = [moved EXCEPT ![id] = 1]
  /\ UNCHANGED <<said, told>>

(* The intent was carried out, on its own or by the owner's leave ...      *)
Confirm(id) ==
  /\ moved[id] = 1
  /\ Say(id, {"CREATED"}, "SETTLED") \/ Say(id, {"HELD"}, "APPROVED")

(* ... was rejected, as far as anyone knows ...                            *)
Revert(id) == Say(id, Open, "REVERTED")

(* ... was denied, or failed: nothing moved.                               *)
Deny(id) == moved[id] = 0 /\ Say(id, {"HELD"}, "DENIED")

Fail(id) == moved[id] = 0 /\ Say(id, Open, "FAILED")

(* The ending the owner was told of is logged.                             *)
Tell(id) ==
  /\ said[id] \in Logged
  /\ told' = told \cup {<<id, said[id]>>}
  /\ UNCHANGED <<said, moved>>

Next == \E id \in Ids :
  Ask(id) \/ Hold(id) \/ Pay(id) \/ Confirm(id) \/ Revert(id) \/ Deny(id) \/ Fail(id) \/ Tell(id)

Spec == Init /\ [][Next]_<<said, moved, told>>
=============================================================================
