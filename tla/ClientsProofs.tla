--------------------------- MODULE ClientsProofs ---------------------------
(***************************************************************************)
(* What the idempotency key does for the programs that pay, for any number *)
(* of callers, calls, plans and restarts.                                  *)
(***************************************************************************)
EXTENDS Clients, TLAPS, FiniteSetTheorems

Wanted == Offers \cup {Planless}
Labels == {"own", "fresh"} \cup {o.domain : o \in Wanted}
Numbers == Nat \cup {o.price : o \in Wanted}
Keys == Callers \X Labels \X Numbers

CallRecords ==
  [by : Callers, left : Nat, item : Wanted, key : Keys, at : Places, open : BOOLEAN,
   late : BOOLEAN, status : Statuses \cup {"none"}]

RowRecords == [id : Nat, key : Keys, status : Statuses, paid : BOOLEAN]

DecisionRecords == [row : Nat, op : {"none", "approve", "deny"}]

Shapes ==
  /\ plan \in [Callers -> Seq(Wanted)]
  /\ calls \in Seq(CallRecords)
  /\ rows \subseteq RowRecords
  /\ decisions \in [Decisions -> DecisionRecords]
  /\ live \in BOOLEAN

(* A caller that names its purchases gives the same name to the same one:  *)
(* what it still wants tells which it is.                                  *)
Planned(c) == \A i \in DOMAIN plan[c] : plan[c][i] # Planless

Naming ==
  /\ \A c \in Callers : plan[c] = Unplanned \/ Planned(c)
  /\ \A n \in DOMAIN calls : /\ plan[calls[n].by] # Unplanned
                             /\ calls[n].left >= Len(plan[calls[n].by])
                             /\ calls[n].left > 0
  /\ \A n \in DOMAIN calls :
       calls[n].by \in Agents /\ calls[n].left = Len(plan[calls[n].by])
         => calls[n].key = agentKey(calls[n].by, Head(plan[calls[n].by]))
  /\ \A m, n \in DOMAIN calls :
       calls[m].by \in Agents /\ calls[m].by = calls[n].by /\ calls[m].left = calls[n].left
         => calls[m].key = calls[n].key
  /\ \A n \in DOMAIN calls :
       calls[n].by \in Shoppers => calls[n].key = <<calls[n].by, "own", calls[n].left>>

(* One row per key, decided by the call that inserted it; a call made with *)
(* a revoked key does not get past the guard.                              *)
Keyed ==
  /\ \A r \in rows : /\ r.id \in DOMAIN calls /\ r.key = calls[r.id].key
                     /\ calls[r.id].at \notin {"sent", "checked"} /\ ~calls[r.id].late
  /\ \A q, r \in rows : q.key = r.key => q = r
  /\ \A r \in rows : calls[r.id].at = "deciding" => r.status = "CREATED"
  /\ \A n \in DOMAIN calls :
       calls[n].late => ~live /\ calls[n].at \in {"sent", "stopped"}
  /\ \A n \in DOMAIN calls : calls[n].status # "none" => \E r \in rows : r.key = calls[n].key

(* A decision under way has found its payment held: the creation has said  *)
(* all it has to say of it, and it was not that the payment is settled.    *)
HeldOnce(id) == \E r \in rows : r.id = id /\ r.status \notin {"CREATED", "SETTLED"}

Begun == \A d \in Decisions : decisions[d] # NoDecision => HeldOnce(decisions[d].row)

ClientsInv == Shapes /\ Naming /\ Keyed /\ Begun

LEMMA InitClients == Init => ClientsInv
<1> SUFFICES ASSUME Init PROVE ClientsInv
  OBVIOUS
<1>1. Unplanned \in Seq(Wanted) /\ <<>> \in Seq(Wanted)
  <2>1. Planless \in Wanted
    BY DEF Wanted
  <2> QED
    BY <2>1 DEF Unplanned
<1>2. PICK active : plan = [c \in Callers |-> IF c \in active THEN Unplanned ELSE <<>>]
  BY DEF Init
<1>3. /\ calls = <<>> /\ rows = {} /\ live = TRUE /\ DOMAIN calls = {}
      /\ decisions = [d \in Decisions |-> NoDecision] /\ NoDecision \in DecisionRecords
  BY DEF Init, NoDecision, DecisionRecords
<1>4. Shapes
  BY <1>1, <1>2, <1>3 DEF Shapes
<1>5. Naming
  BY <1>2, <1>3 DEF Naming, Planned
<1>6. Keyed
  BY <1>3 DEF Keyed
<1>7. Begun
  BY <1>3 DEF Begun
<1> QED
  BY <1>4, <1>5, <1>6, <1>7 DEF ClientsInv

-----------------------------------------------------------------------------
(* A call keeps who made it, for what, under which key and when.           *)
SameCall(m, k) == /\ k.by = m.by /\ k.left = m.left /\ k.item = m.item
                  /\ k.key = m.key /\ k.late = m.late
SameCalls ==
  /\ DOMAIN calls' = DOMAIN calls
  /\ \A n \in DOMAIN calls : SameCall(calls[n], calls'[n])

LEMMA CallChanges ==
  ASSUME Shapes, NEW n \in DOMAIN calls, NEW k \in CallRecords, SameCall(calls[n], k),
         calls' = [calls EXCEPT ![n] = k]
  PROVE  /\ calls' \in Seq(CallRecords) /\ SameCalls
         /\ calls'[n] = k /\ \A m \in DOMAIN calls : m # n => calls'[m] = calls[m]
<1>1. calls \in Seq(CallRecords)
  BY DEF Shapes
<1> QED
  BY <1>1 DEF SameCalls, SameCall

LEMMA CallTyped ==
  ASSUME Shapes, NEW n \in DOMAIN calls
  PROVE  calls[n] \in CallRecords
  BY DEF Shapes

LEMMA NamingKept ==
  ASSUME Naming, SameCalls, UNCHANGED plan
  PROVE  Naming'
  BY DEF Naming, SameCalls, SameCall, Planned, agentKey

(* The purchase a call was for is done with, unless it already was.        *)
LEMMA AdvanceKeeps ==
  ASSUME Shapes, Naming, SameCalls, NEW n \in DOMAIN calls, Advance(calls[n].by, n)
  PROVE  plan' \in [Callers -> Seq(Wanted)] /\ Naming'
<1> DEFINE c == calls[n].by
<1>1. /\ calls[n] \in CallRecords /\ c \in Callers
      /\ plan \in [Callers -> Seq(Wanted)] /\ plan[c] \in Seq(Wanted)
  BY CallTyped DEF Shapes, CallRecords
<1>2. CASE Len(plan[c]) # calls[n].left
  <2>1. plan' = plan
    BY <1>1, <1>2 DEF Advance
  <2> QED
    BY <1>1, <2>1, NamingKept
<1>3. CASE Len(plan[c]) = calls[n].left
  <2>1. plan' = [plan EXCEPT ![c] = Tail(plan[c])]
    BY <1>3 DEF Advance
  <2>2. /\ plan[c] # <<>> /\ Len(plan[c]) > 0 /\ plan[c] # Unplanned
    BY <1>1, <1>3 DEF Naming
  <2>3. /\ Tail(plan[c]) \in Seq(Wanted) /\ Len(Tail(plan[c])) = Len(plan[c]) - 1
        /\ \A i \in DOMAIN Tail(plan[c]) :
             i + 1 \in DOMAIN plan[c] /\ Tail(plan[c])[i] = plan[c][i + 1]
    BY <1>1, <2>2
  <2>4. \A i \in DOMAIN Tail(plan[c]) : Tail(plan[c])[i] # Planless
    BY <1>1, <2>2, <2>3 DEF Naming, Planned
  <2>5. Tail(plan[c]) # Unplanned
    <3>1. 1 \in DOMAIN Unplanned /\ Unplanned[1] = Planless
      BY DEF Unplanned
    <3> QED
      BY <2>4, <3>1
  <2>6. plan' \in [Callers -> Seq(Wanted)]
    BY <1>1, <2>1, <2>3
  <2>7. /\ plan'[c] = Tail(plan[c])
        /\ \A d \in Callers : d # c => plan'[d] = plan[d]
    BY <1>1, <2>1
  <2>8. \A d \in Callers : plan'[d] = Unplanned \/ Planned(d)'
    <3> SUFFICES ASSUME NEW d \in Callers PROVE plan'[d] = Unplanned \/ Planned(d)'
      OBVIOUS
    <3>1. CASE d = c
      BY <2>4, <2>7, <3>1 DEF Planned
    <3>2. CASE d # c
      BY <2>7, <3>2 DEF Naming, Planned
    <3> QED
      BY <3>1, <3>2
  <2>9. ASSUME NEW m \in DOMAIN calls
        PROVE  /\ plan'[calls[m].by] # Unplanned
               /\ calls[m].left >= Len(plan'[calls[m].by])
               /\ calls[m].left > 0
               /\ calls[m].left = Len(plan'[calls[m].by])
                    => plan'[calls[m].by] = plan[calls[m].by]
    <3>1. calls[m] \in CallRecords
      BY CallTyped
    <3>2. CASE calls[m].by = c
      <4>1. calls[m].left >= Len(plan[c]) /\ calls[m].left > 0 /\ calls[m].left \in Nat
        BY <3>1, <3>2 DEF Naming, CallRecords
      <4>2. Len(plan'[c]) = Len(plan[c]) - 1 /\ Len(plan[c]) \in Nat
        BY <1>1, <2>3, <2>7
      <4>3. calls[m].left >= Len(plan'[c]) /\ calls[m].left # Len(plan'[c])
        BY <4>1, <4>2
      <4> QED
        BY <2>5, <2>7, <3>2, <4>1, <4>3
    <3>3. CASE calls[m].by # c
      BY <2>7, <3>1, <3>3 DEF Naming, CallRecords
    <3> QED
      BY <3>2, <3>3
  <2>10. \A m \in DOMAIN calls : calls'[m].by = calls[m].by /\ calls'[m].left = calls[m].left
                                  /\ calls'[m].key = calls[m].key
    BY DEF SameCalls, SameCall
  <2>11. \A m \in DOMAIN calls' :
           calls'[m].by \in Agents /\ calls'[m].left = Len(plan'[calls'[m].by])
             => calls'[m].key = agentKey(calls'[m].by, Head(plan'[calls'[m].by]))
    BY <2>9, <2>10 DEF Naming, SameCalls, agentKey
  <2>12. \A m \in DOMAIN calls' : /\ plan'[calls'[m].by] # Unplanned
                                  /\ calls'[m].left >= Len(plan'[calls'[m].by])
                                  /\ calls'[m].left > 0
    BY <2>9, <2>10 DEF SameCalls
  <2>13. /\ \A m, k \in DOMAIN calls' :
              calls'[m].by \in Agents /\ calls'[m].by = calls'[k].by
                /\ calls'[m].left = calls'[k].left => calls'[m].key = calls'[k].key
         /\ \A m \in DOMAIN calls' :
              calls'[m].by \in Shoppers => calls'[m].key = <<calls'[m].by, "own", calls'[m].left>>
    BY <2>10 DEF Naming, SameCalls
  <2> QED
    BY <2>6, <2>8, <2>11, <2>12, <2>13 DEF Naming, agentKey
<1> QED
  BY <1>2, <1>3

(* Steps that leave the rows alone, and of the calls what rows depend on.  *)
SameWork ==
  /\ SameCalls
  /\ \A n \in DOMAIN calls : calls'[n].at = calls[n].at /\ calls'[n].status = calls[n].status

LEMMA KeyedKept ==
  ASSUME Keyed, SameWork, UNCHANGED <<rows, live>>
  PROVE  Keyed'
  BY DEF Keyed, SameWork, SameCalls, SameCall, Named

LEMMA BegunKept ==
  ASSUME Begun, UNCHANGED <<rows, decisions>>
  PROVE  Begun'
  BY DEF Begun, HeldOnce

-----------------------------------------------------------------------------
(* The callers' steps.                                                     *)
LEMMA PlansKeep ==
  ASSUME ClientsInv, NEW c \in Callers, plan[c] = Unplanned,
         NEW p \in Seq(Offers), plan' = [plan EXCEPT ![c] = p],
         UNCHANGED <<calls, rows, decisions, live>>
  PROVE  ClientsInv'
<1>1. /\ Shapes /\ Naming /\ Keyed /\ plan \in [Callers -> Seq(Wanted)]
      /\ p \in Seq(Wanted) /\ \A i \in DOMAIN p : p[i] # Planless
  BY ClientsAssumption DEF ClientsInv, Shapes, Wanted
<1>2. plan'[c] = p /\ \A d \in Callers : d # c => plan'[d] = plan[d]
  BY <1>1
<1>3. \A n \in DOMAIN calls : calls[n].by \in Callers /\ calls[n].by # c
  BY <1>1, CallTyped DEF Naming, CallRecords
<1>4. Shapes'
  BY <1>1 DEF Shapes
<1>5. \A d \in Callers : plan'[d] = Unplanned \/ Planned(d)'
  BY <1>1, <1>2 DEF Naming, Planned
<1>6. Naming'
  BY <1>1, <1>2, <1>3, <1>5 DEF Naming, agentKey
<1>7. Keyed'
  BY <1>1 DEF Keyed, Named
<1> QED
  BY <1>4, <1>6, <1>7, BegunKept DEF ClientsInv

LEMMA PostKeeps ==
  ASSUME ClientsInv, NEW c \in Callers, NEW key \in Keys, Post(c, key),
         c \in Agents => key = agentKey(c, Head(plan[c])),
         c \in Shoppers => key = <<c, "own", Len(plan[c])>>
  PROVE  ClientsInv'
<1> DEFINE e == [by |-> c, left |-> Len(plan[c]), item |-> Head(plan[c]), key |-> key,
                 at |-> "sent", open |-> TRUE, late |-> ~live, status |-> "none"]
           N == Len(calls) + 1
<1>1. /\ Shapes /\ Naming /\ Keyed /\ plan[c] \in Seq(Wanted) /\ Len(plan[c]) \in Nat
      /\ calls \in Seq(CallRecords)
  BY DEF ClientsInv, Shapes
<1>2. /\ calls' = Append(calls, e) /\ plan[c] # Unplanned /\ plan[c] # <<>>
      /\ UNCHANGED <<plan, rows, decisions, live>>
  BY DEF Post
<1>3. Len(plan[c]) > 0 /\ Head(plan[c]) \in Wanted
  BY <1>1, <1>2
<1>4. /\ e \in CallRecords /\ e.by = c /\ e.left = Len(plan[c]) /\ e.key = key
      /\ e.at = "sent" /\ e.status = "none" /\ (e.late => ~live)
  BY <1>1, <1>3 DEF CallRecords, Places, Shapes
<1> HIDE DEF e
<1>5. /\ calls' \in Seq(CallRecords) /\ DOMAIN calls' = DOMAIN calls \cup {N}
      /\ N \notin DOMAIN calls /\ calls'[N] = e
      /\ \A n \in DOMAIN calls : calls'[n] = calls[n]
  BY <1>1, <1>2, <1>4
<1> HIDE DEF N
<1>6. Shapes'
  BY <1>1, <1>2, <1>5 DEF Shapes
<1>7. Naming'
  <2>1. \A d \in Callers : plan'[d] = Unplanned \/ Planned(d)'
    BY <1>1, <1>2 DEF Naming, Planned
  <2>2. ASSUME NEW n \in DOMAIN calls'
        PROVE  /\ plan'[calls'[n].by] # Unplanned
               /\ calls'[n].left >= Len(plan'[calls'[n].by])
               /\ calls'[n].left > 0
               /\ calls'[n].by \in Agents /\ calls'[n].left = Len(plan'[calls'[n].by])
                    => calls'[n].key = agentKey(calls'[n].by, Head(plan'[calls'[n].by]))
               /\ calls'[n].by \in Shoppers
                    => calls'[n].key = <<calls'[n].by, "own", calls'[n].left>>
    <3>1. CASE n = N
      BY <1>1, <1>2, <1>3, <1>4, <1>5, <3>1
    <3>2. CASE n \in DOMAIN calls
      BY <1>1, <1>2, <1>5, <3>2 DEF Naming
    <3> QED
      BY <1>5, <3>1, <3>2
  <2>3. ASSUME NEW m \in DOMAIN calls', NEW n \in DOMAIN calls', calls'[m].by \in Agents,
               calls'[m].by = calls'[n].by, calls'[m].left = calls'[n].left
        PROVE  calls'[m].key = calls'[n].key
    <3>1. CASE m \in DOMAIN calls /\ n \in DOMAIN calls
      BY <1>1, <1>5, <2>3, <3>1 DEF Naming
    <3>2. CASE m = N \/ n = N
      <4>1. calls'[m].by = c /\ calls'[m].left = Len(plan'[c]) /\ calls'[n].left = Len(plan'[c])
        BY <1>2, <1>4, <1>5, <2>3, <3>2
      <4> QED
        BY <2>2, <2>3, <4>1
    <3> QED
      BY <1>5, <3>1, <3>2
  <2> QED
    BY <2>1, <2>2, <2>3 DEF Naming, agentKey
<1>8. Keyed'
  <2>1. \A r \in rows : r.id \in DOMAIN calls
    BY <1>1 DEF Keyed
  <2>2. \A n \in DOMAIN calls' : n = N \/ n \in DOMAIN calls
    BY <1>5
  <2> QED
    BY <1>1, <1>2, <1>4, <1>5, <2>1, <2>2 DEF Keyed, Named
<1> QED
  BY <1>2, <1>6, <1>7, <1>8, BegunKept DEF ClientsInv

(* An answer or an error ends a call.                                      *)
LEMMA EndKeeps ==
  ASSUME ClientsInv, NEW n \in DOMAIN calls, receive(n) \/ agentError(n) \/ otherError(n)
  PROVE  ClientsInv'
<1> DEFINE k == [calls[n] EXCEPT !.open = FALSE]
<1>1. Shapes /\ Naming /\ Keyed /\ calls[n] \in CallRecords
  BY CallTyped DEF ClientsInv
<1>2. k \in CallRecords /\ SameCall(calls[n], k) /\ k.at = calls[n].at /\ k.status = calls[n].status
  BY <1>1 DEF CallRecords, SameCall
<1>3. /\ calls' = [calls EXCEPT ![n] = k] /\ UNCHANGED <<rows, decisions, live>>
      /\ Advance(calls[n].by, n) \/ UNCHANGED plan
  BY DEF receive, agentError, otherError, Close
<1> HIDE DEF k
<1>4. calls' \in Seq(CallRecords) /\ SameCalls /\ SameWork
  BY <1>1, <1>2, <1>3, CallChanges DEF SameWork
<1>5. plan' \in [Callers -> Seq(Wanted)] /\ Naming'
  BY <1>1, <1>3, <1>4, AdvanceKeeps, NamingKept DEF Shapes
<1> QED
  BY <1>1, <1>3, <1>4, <1>5, KeyedKept, BegunKept DEF ClientsInv, Shapes

-----------------------------------------------------------------------------
(* The backend's steps: a call goes to another place.                      *)
LEMMA GotoChanges ==
  ASSUME ClientsInv, NEW n \in DOMAIN calls, NEW p \in Places, Goto(n, p), UNCHANGED plan
  PROVE  /\ calls' \in Seq(CallRecords) /\ SameCalls /\ Naming'
         /\ calls'[n].at = p /\ calls'[n].status = calls[n].status
         /\ \A m \in DOMAIN calls : m # n => calls'[m] = calls[m]
<1> DEFINE k == [calls[n] EXCEPT !.at = p]
<1>1. Shapes /\ Naming /\ calls[n] \in CallRecords
  BY CallTyped DEF ClientsInv
<1>2. k \in CallRecords /\ SameCall(calls[n], k) /\ k.at = p /\ k.status = calls[n].status
  BY <1>1 DEF CallRecords, SameCall
<1>3. calls' = [calls EXCEPT ![n] = k]
  BY DEF Goto
<1> HIDE DEF k
<1> QED
  BY <1>1, <1>2, <1>3, CallChanges, NamingKept

LEMMA AuthenticateKeeps ==
  ASSUME ClientsInv, NEW n \in DOMAIN calls, authenticate(n)
  PROVE  ClientsInv'
<1> DEFINE p == IF live THEN "checked" ELSE "stopped"
<1>1. Shapes /\ Keyed /\ p \in Places
  BY DEF ClientsInv, Places
<1>2. Goto(n, p) /\ UNCHANGED <<plan, rows, decisions, live>> /\ calls[n].at = "sent"
  BY DEF authenticate, At
<1>3. /\ calls' \in Seq(CallRecords) /\ SameCalls /\ Naming'
      /\ calls'[n].at = p /\ calls'[n].status = calls[n].status
      /\ \A m \in DOMAIN calls : m # n => calls'[m] = calls[m]
  BY <1>1, <1>2, GotoChanges
<1>4. \A r \in rows : r.id # n
  BY <1>1, <1>2 DEF Keyed
<1>5. Keyed'
  BY <1>1, <1>2, <1>3, <1>4 DEF Keyed, SameCalls, SameCall, Named
<1> QED
  BY <1>1, <1>2, <1>3, <1>5, BegunKept DEF ClientsInv, Shapes

LEMMA InsertKeeps ==
  ASSUME ClientsInv, NEW n \in DOMAIN calls, insert(n)
  PROVE  ClientsInv'
<1>1. /\ Shapes /\ Keyed /\ calls[n].at = "checked" /\ UNCHANGED <<plan, decisions, live>>
      /\ "deciding" \in Places /\ "answer" \in Places /\ calls[n] \in CallRecords
      /\ calls \in Seq(CallRecords)
  BY CallTyped DEF ClientsInv, insert, At, Places, Shapes
<1>2. (\A r \in rows : r.id # n) /\ ~calls[n].late
  BY <1>1 DEF Keyed
<1>3. CASE Named(calls[n].key) = {}
  <2> DEFINE r == NewRow(n)
  <2>1. rows' = rows \cup {r} /\ Goto(n, "deciding")
    BY <1>3 DEF insert
  <2>2. r \in RowRecords /\ r.id = n /\ r.key = calls[n].key /\ r.status = "CREATED"
    BY <1>1 DEF NewRow, RowRecords, CallRecords, Statuses
  <2> HIDE DEF r
  <2>3. /\ calls' \in Seq(CallRecords) /\ SameCalls /\ Naming'
        /\ calls'[n].at = "deciding" /\ calls'[n].status = calls[n].status
        /\ \A m \in DOMAIN calls : m # n => calls'[m] = calls[m]
    BY <1>1, <2>1, GotoChanges
  <2>4. \A q \in rows : q.key # calls[n].key
    BY <1>3 DEF Named
  <2>5. \A m \in DOMAIN calls : calls[m].key = calls[n].key => calls[m].status = "none"
    BY <1>1, <2>4 DEF Keyed
  <2>6. \A m \in DOMAIN calls : calls'[m].key = calls[m].key /\ calls'[m].status = calls[m].status
                                  /\ calls'[m].late = calls[m].late
    BY <2>3 DEF SameCalls, SameCall
  <2>7. /\ \A q \in rows' : /\ q.id \in DOMAIN calls' /\ q.key = calls'[q.id].key
                            /\ calls'[q.id].at \notin {"sent", "checked"} /\ ~calls'[q.id].late
        /\ \A q, s \in rows' : q.key = s.key => q = s
        /\ \A q \in rows' : calls'[q.id].at = "deciding" => q.status = "CREATED"
    BY <1>1, <1>2, <2>1, <2>2, <2>3, <2>4, <2>6 DEF Keyed, SameCalls
  <2>8. \A m \in DOMAIN calls' :
          calls'[m].late => ~live' /\ calls'[m].at \in {"sent", "stopped"}
    BY <1>1, <1>2, <2>3, <2>6 DEF Keyed, SameCalls
  <2>9. \A m \in DOMAIN calls' : calls'[m].status # "none" => \E q \in rows' : q.key = calls'[m].key
    BY <1>1, <2>1, <2>3, <2>6 DEF Keyed, SameCalls, Named
  <2>10. Begun'
    BY <1>1, <2>1 DEF ClientsInv, Begun, HeldOnce
  <2>11. Keyed'
    BY <2>7, <2>8, <2>9 DEF Keyed, Named
  <2> QED
    BY <1>1, <2>1, <2>2, <2>3, <2>10, <2>11 DEF ClientsInv, Shapes
<1>4. CASE Named(calls[n].key) # {}
  <2>1. rows' = rows /\ Goto(n, "answer")
    BY <1>4 DEF insert
  <2>2. /\ calls' \in Seq(CallRecords) /\ SameCalls /\ Naming'
        /\ calls'[n].at = "answer" /\ calls'[n].status = calls[n].status
        /\ \A m \in DOMAIN calls : m # n => calls'[m] = calls[m]
    BY <1>1, <2>1, GotoChanges
  <2>3. Keyed'
    BY <1>1, <1>2, <2>1, <2>2, SMTT(40) DEF Keyed, SameCalls, SameCall, Named
  <2> QED
    BY <1>1, <2>1, <2>2, <2>3, BegunKept DEF ClientsInv, Shapes
<1> QED
  BY <1>3, <1>4

(* A row gets another status.                                              *)
LEMMA StatusChanges ==
  ASSUME Shapes, NEW r \in rows, NEW v \in Statuses, SetStatus(r, v)
  PROVE  \E s \in RowRecords :
           /\ s.id = r.id /\ s.key = r.key /\ s.status = v
           /\ s.paid = (r.paid \/ v \in Settled)
           /\ rows' = (rows \ {r}) \cup {s}
<1> DEFINE s == [r EXCEPT !.status = v, !.paid = r.paid \/ v \in Settled]
<1>1. r \in RowRecords
  BY DEF Shapes
<1>2. /\ s \in RowRecords /\ s.id = r.id /\ s.key = r.key /\ s.status = v
      /\ s.paid = (r.paid \/ v \in Settled)
  BY <1>1 DEF RowRecords
<1>3. rows' = (rows \ {r}) \cup {s}
  BY DEF SetStatus
<1> QED
  BY <1>2, <1>3

LEMMA StatusKeeps ==
  ASSUME ClientsInv, NEW r \in rows, NEW v \in Statuses, SetStatus(r, v),
         v \notin {"CREATED", "SETTLED"} \/ ~UnderWay(r.id), UNCHANGED <<plan, live>>,
         calls' \in Seq(CallRecords), SameCalls, Naming',
         \A n \in DOMAIN calls : calls'[n].status = calls[n].status,
         \A n \in DOMAIN calls : calls'[n].at = calls[n].at
                                  \/ (calls[n].at = "deciding" /\ calls'[n].at = "answer"),
         calls'[r.id].at # "deciding",
         decisions' \in [Decisions -> DecisionRecords],
         \A d \in Decisions : decisions'[d] = decisions[d] \/ decisions'[d] = NoDecision
  PROVE  ClientsInv'
<1>1. Shapes /\ Keyed /\ Begun
  BY DEF ClientsInv
<1>2. PICK s \in RowRecords : /\ s.id = r.id /\ s.key = r.key /\ s.status = v
                              /\ rows' = (rows \ {r}) \cup {s}
  BY <1>1, StatusChanges
<1>3. \A n \in DOMAIN calls : /\ calls'[n].key = calls[n].key /\ calls'[n].late = calls[n].late
                              /\ calls'[n].status = calls[n].status
  BY DEF SameCalls, SameCall
<1>4. /\ \A q \in rows' : /\ q.id \in DOMAIN calls' /\ q.key = calls'[q.id].key
                          /\ calls'[q.id].at \notin {"sent", "checked"} /\ ~calls'[q.id].late
      /\ \A q, t \in rows' : q.key = t.key => q = t
  BY <1>1, <1>2, <1>3, SMTT(40) DEF Keyed, SameCalls
<1>5. \A q \in rows' : calls'[q.id].at = "deciding" => q.status = "CREATED"
  BY <1>1, <1>2 DEF Keyed
<1>6. \A m \in DOMAIN calls' :
        calls'[m].late => ~live' /\ calls'[m].at \in {"sent", "stopped"}
  BY <1>1, <1>3 DEF Keyed, SameCalls
<1>7. \A m \in DOMAIN calls' : calls'[m].status # "none" => \E q \in rows' : q.key = calls'[m].key
  BY <1>1, <1>2, <1>3 DEF Keyed, SameCalls, Named
<1>8. Keyed'
  BY <1>4, <1>5, <1>6, <1>7 DEF Keyed, Named
<1>9. Begun'
  <2> SUFFICES ASSUME NEW d \in Decisions, decisions'[d] # NoDecision
               PROVE  \E q \in rows' : /\ q.id = decisions'[d].row
                                       /\ q.status \notin {"CREATED", "SETTLED"}
    BY DEF Begun, HeldOnce
  <2>1. decisions'[d] = decisions[d] /\ decisions[d] # NoDecision
    OBVIOUS
  <2>2. PICK q \in rows : q.id = decisions[d].row /\ q.status \notin {"CREATED", "SETTLED"}
    BY <1>1, <2>1 DEF Begun, HeldOnce
  <2>3. CASE q # r
    BY <1>2, <2>1, <2>2, <2>3
  <2>4. CASE q = r
    <3>1. UnderWay(r.id)
      BY <2>1, <2>2, <2>4 DEF UnderWay
    <3> QED
      BY <1>2, <2>1, <2>2, <2>4, <3>1
  <2> QED
    BY <2>3, <2>4
<1> QED
  BY <1>1, <1>2, <1>8, <1>9 DEF ClientsInv, Shapes

(* No decision is under way on a payment that is still being created.      *)
LEMMA CreatedAlone ==
  ASSUME ClientsInv, NEW r \in rows, r.status \in {"CREATED", "SETTLED"}
  PROVE  ~UnderWay(r.id)
<1> SUFFICES ASSUME NEW d \in Decisions, decisions[d] # NoDecision, decisions[d].row = r.id
             PROVE  FALSE
  BY DEF UnderWay
<1>1. PICK q \in rows : q.id = r.id /\ q.status \notin {"CREATED", "SETTLED"}
  BY DEF ClientsInv, Begun, HeldOnce
<1>2. q = r
  BY <1>1 DEF ClientsInv, Keyed
<1> QED
  BY <1>1, <1>2

LEMMA ExecuteKeeps ==
  ASSUME ClientsInv, NEW n \in DOMAIN calls, execute(n)
  PROVE  ClientsInv'
<1>1. /\ calls[n].at = "deciding" /\ Goto(n, "answer") /\ "answer" \in Places
      /\ UNCHANGED <<plan, decisions, live>>
  BY DEF execute, At, Places
<1>2. PICK r \in rows, v \in Verdicts : r.id = n /\ SetStatus(r, v)
  BY DEF execute
<1>3. r.status = "CREATED" /\ v \in Statuses
  BY <1>1, <1>2 DEF ClientsInv, Keyed, Statuses
<1>4. /\ calls' \in Seq(CallRecords) /\ SameCalls /\ Naming'
      /\ calls'[n].at = "answer" /\ calls'[n].status = calls[n].status
      /\ \A m \in DOMAIN calls : m # n => calls'[m] = calls[m]
  BY <1>1, GotoChanges
<1>5. ~UnderWay(r.id)
  BY <1>3, CreatedAlone
<1>6. decisions' \in [Decisions -> DecisionRecords]
  BY <1>1 DEF ClientsInv, Shapes
<1> QED
  BY <1>1, <1>2, <1>3, <1>4, <1>5, <1>6, StatusKeeps

LEMMA OwnerBeginsKeeps ==
  ASSUME ClientsInv, NEW d \in Decisions, ownerBegins(d)
  PROVE  ClientsInv'
<1>1. PICK r \in rows, op \in {"approve", "deny"} :
        r.status = "HELD" /\ decisions' = [decisions EXCEPT ![d] = [row |-> r.id, op |-> op]]
  BY DEF ownerBegins
<1>2. Shapes /\ Naming /\ Keyed /\ Begun /\ r \in RowRecords /\ UNCHANGED <<plan, calls, rows, live>>
  BY DEF ownerBegins, ClientsInv, Shapes
<1>3. [row |-> r.id, op |-> op] \in DecisionRecords
  BY <1>2 DEF RowRecords, DecisionRecords
<1>4. /\ decisions' \in [Decisions -> DecisionRecords] /\ decisions'[d].row = r.id
      /\ \A e \in Decisions : e # d => decisions'[e] = decisions[e]
  BY <1>1, <1>2, <1>3 DEF Shapes
<1>5. Begun'
  BY <1>1, <1>2, <1>4 DEF Begun, HeldOnce
<1>6. SameWork
  BY <1>2 DEF SameWork, SameCalls, SameCall
<1>7. Naming' /\ Keyed'
  BY <1>2, <1>6, NamingKept, KeyedKept DEF SameWork
<1> QED
  BY <1>2, <1>4, <1>5, <1>7 DEF ClientsInv, Shapes

LEMMA OwnerEndsKeeps ==
  ASSUME ClientsInv, NEW d \in Decisions, ownerEnds(d)
  PROVE  ClientsInv'
<1>1. /\ Shapes /\ Naming /\ Keyed /\ Begun /\ UNCHANGED <<plan, calls, live>>
      /\ decisions[d] # NoDecision /\ decisions' = [decisions EXCEPT ![d] = NoDecision]
  BY DEF ClientsInv, ownerEnds
<1>2. /\ decisions' \in [Decisions -> DecisionRecords]
      /\ \A e \in Decisions : decisions'[e] = decisions[e] \/ decisions'[e] = NoDecision
  BY <1>1 DEF Shapes, NoDecision, DecisionRecords
<1>3. SameWork /\ SameCalls /\ Naming' /\ calls \in Seq(CallRecords)
  BY <1>1, NamingKept DEF SameWork, SameCalls, SameCall, Shapes
<1>4. CASE UNCHANGED rows
  <2>1. Begun'
    BY <1>1, <1>2, <1>4 DEF Begun, HeldOnce
  <2>2. Keyed'
    BY <1>1, <1>3, <1>4, KeyedKept
  <2> QED
    BY <1>1, <1>2, <1>3, <1>4, <2>1, <2>2 DEF ClientsInv, Shapes
<1>5. CASE ~UNCHANGED rows
  <2>1. PICK r \in rows, v \in OutcomesOf(decisions[d].op) :
          r.id = decisions[d].row /\ SetStatus(r, v)
    BY <1>5 DEF ownerEnds
  <2>2. v \in Statuses /\ v \notin {"CREATED", "SETTLED"}
    BY DEF OutcomesOf, Outcomes, Statuses, Verdicts
  <2>3. r.status # "CREATED"
    <3>1. UnderWay(r.id)
      BY <1>1, <2>1 DEF UnderWay
    <3> QED
      BY <3>1, CreatedAlone
  <2>4. calls[r.id].at # "deciding"
    BY <1>1, <2>3 DEF Keyed
  <2> QED
    BY <1>1, <1>2, <1>3, <2>1, <2>2, <2>4, StatusKeeps
<1> QED
  BY <1>4, <1>5

(* What a call is told is what its row says.                               *)
LEMMA AnswerKeeps ==
  ASSUME ClientsInv, NEW n \in DOMAIN calls, answer(n)
  PROVE  ClientsInv'
<1>1. /\ Shapes /\ Naming /\ Keyed /\ calls[n] \in CallRecords /\ calls[n].at = "answer"
      /\ UNCHANGED <<plan, rows, decisions, live>>
  BY CallTyped DEF ClientsInv, answer, At
<1>2. PICK r \in Named(calls[n].key) :
        calls' = [calls EXCEPT ![n].at = "answered", ![n].status = r.status]
  BY DEF answer
<1>3. r \in rows /\ r.key = calls[n].key /\ r.status \in Statuses
  BY <1>1 DEF Named, Shapes, RowRecords
<1> DEFINE k == [calls[n] EXCEPT !.at = "answered", !.status = r.status]
<1>4. /\ k \in CallRecords /\ SameCall(calls[n], k) /\ k.at = "answered"
      /\ k.status = r.status
  BY <1>1, <1>3 DEF CallRecords, SameCall, Places
<1>5. calls' = [calls EXCEPT ![n] = k]
  BY <1>2
<1> HIDE DEF k
<1>6. /\ calls' \in Seq(CallRecords) /\ SameCalls
      /\ calls'[n] = k /\ \A m \in DOMAIN calls : m # n => calls'[m] = calls[m]
  BY <1>1, <1>4, <1>5, CallChanges
<1>8. \A m \in DOMAIN calls : calls'[m].key = calls[m].key /\ calls'[m].late = calls[m].late
  BY <1>6 DEF SameCalls, SameCall
<1>10. \A m \in DOMAIN calls' : calls'[m].status # "none" => \E q \in rows' : q.key = calls'[m].key
  BY <1>1, <1>3, <1>6, <1>8 DEF Keyed, Named, SameCalls
<1>11. Keyed'
  <2>1. \A q \in rows' : /\ q.id \in DOMAIN calls' /\ q.key = calls'[q.id].key
                         /\ calls'[q.id].at \notin {"sent", "checked"} /\ ~calls'[q.id].late
                         /\ calls'[q.id].at = "deciding" => q.status = "CREATED"
    BY <1>1, <1>4, <1>6, <1>8 DEF Keyed, SameCalls
  <2>2. \A m \in DOMAIN calls' :
          calls'[m].late => ~live' /\ calls'[m].at \in {"sent", "stopped"}
    BY <1>1, <1>6, <1>8 DEF Keyed, SameCalls
  <2>3. \A q, t \in rows' : q.key = t.key => q = t
    BY <1>1 DEF Keyed
  <2> QED
    BY <1>10, <2>1, <2>2, <2>3 DEF Keyed
<1>12. Naming'
  BY <1>1, <1>6, NamingKept
<1> QED
  BY <1>1, <1>6, <1>11, <1>12, BegunKept DEF ClientsInv, Shapes

LEMMA RestartKeeps ==
  ASSUME ClientsInv, restart
  PROVE  ClientsInv'
<1>1. Shapes /\ Naming /\ Keyed /\ UNCHANGED <<plan, rows, live>> /\ calls \in Seq(CallRecords)
  BY DEF ClientsInv, Shapes, restart
<1>2. ASSUME NEW n \in DOMAIN calls
      PROVE  /\ calls'[n] \in CallRecords /\ SameCall(calls[n], calls'[n])
             /\ calls'[n].status = calls[n].status
             /\ calls'[n].at = calls[n].at
                  \/ (calls'[n].at = "stopped" /\ calls[n].at \notin {"sent", "checked"})
                  \/ (calls'[n].at = "stopped" /\ calls[n].at = "checked")
  <2>1. calls[n] \in CallRecords
    BY <1>1
  <2>2. CASE calls[n].at \in {"checked", "deciding", "answer"}
    <3> DEFINE k == [calls[n] EXCEPT !.at = "stopped"]
    <3>1. calls'[n] = k
      BY <2>2 DEF restart
    <3>2. /\ k \in CallRecords /\ SameCall(calls[n], k) /\ k.at = "stopped"
          /\ k.status = calls[n].status
      BY <2>1 DEF CallRecords, SameCall, Places
    <3> HIDE DEF k
    <3> QED
      BY <2>2, <3>1, <3>2
  <2>3. CASE calls[n].at \notin {"checked", "deciding", "answer"}
    <3>1. calls'[n] = calls[n]
      BY <2>3 DEF restart
    <3> QED
      BY <2>1, <3>1 DEF SameCall
  <2> QED
    BY <2>2, <2>3
<1>3. calls' \in Seq(CallRecords) /\ DOMAIN calls' = DOMAIN calls
  <2>1. DOMAIN calls' = DOMAIN calls /\ DOMAIN calls = 1 .. Len(calls) /\ Len(calls) \in Nat
    BY <1>1 DEF restart
  <2>2. calls' \in [1 .. Len(calls) -> CallRecords]
    BY <1>2, <2>1 DEF restart
  <2> QED
    BY <2>1, <2>2
<1>4. SameCalls
  BY <1>2, <1>3 DEF SameCalls
<1>5. Naming'
  BY <1>1, <1>4, NamingKept
<1>6. Keyed'
  <2>1. \A n \in DOMAIN calls : /\ calls'[n].key = calls[n].key /\ calls'[n].late = calls[n].late
                                /\ calls'[n].status = calls[n].status
    BY <1>2 DEF SameCall
  <2>2. \A r \in rows : /\ r.id \in DOMAIN calls' /\ r.key = calls'[r.id].key
                        /\ calls'[r.id].at \notin {"sent", "checked"} /\ ~calls'[r.id].late
                        /\ calls'[r.id].at = "deciding" => r.status = "CREATED"
    BY <1>1, <1>2, <1>3, <2>1 DEF Keyed
  <2>3. ASSUME NEW n \in DOMAIN calls', calls'[n].late
        PROVE  ~live' /\ calls'[n].at \in {"sent", "stopped"}
    BY <1>1, <1>2, <1>3, <2>1, <2>3 DEF Keyed
  <2>4. \A n \in DOMAIN calls' : calls'[n].status # "none" => \E r \in rows : r.key = calls'[n].key
    BY <1>1, <1>3, <2>1 DEF Keyed
  <2>6. \A q, r \in rows : q.key = r.key => q = r
    BY <1>1 DEF Keyed
  <2> QED
    BY <1>1, <2>2, <2>3, <2>4, <2>6 DEF Keyed
<1>7. decisions' \in [Decisions -> DecisionRecords] /\ Begun'
  BY DEF restart, NoDecision, DecisionRecords, Begun
<1> QED
  BY <1>1, <1>3, <1>5, <1>6, <1>7 DEF ClientsInv, Shapes

LEMMA RevokeKeeps ==
  ASSUME ClientsInv, revoke
  PROVE  ClientsInv'
<1>1. Shapes /\ Naming /\ Keyed /\ UNCHANGED <<plan, calls, rows, decisions>> /\ live' = FALSE
  BY DEF ClientsInv, revoke
<1>2. Naming'
  BY <1>1 DEF Naming, Planned, agentKey
<1>3. Keyed'
  BY <1>1 DEF Keyed, Named
<1> QED
  BY <1>1, <1>2, <1>3, BegunKept DEF ClientsInv, Shapes

LEMMA FreshIsKey ==
  ASSUME Shapes, NEW c \in Callers
  PROVE  Fresh(c) \in Keys
<1>1. calls \in Seq(CallRecords) /\ IsFiniteSet(DOMAIN calls)
  BY FS_Interval DEF Shapes
<1>2. CallsOf(c) \subseteq DOMAIN calls
  BY DEF CallsOf
<1>3. Cardinality(CallsOf(c)) \in Nat
  BY <1>1, <1>2, FS_Subset, FS_CardinalityType
<1> QED
  BY <1>3 DEF Fresh, Keys, Labels, Numbers

LEMMA ClientsInductive == ClientsInv /\ [Next]_vars => ClientsInv'
<1> SUFFICES ASSUME ClientsInv, [Next]_vars PROVE ClientsInv'
  OBVIOUS
<1>0. plan \in [Callers -> Seq(Wanted)]
  BY DEF ClientsInv, Shapes
<1>1. ASSUME UNCHANGED vars PROVE ClientsInv'
  <2>1. SameWork /\ UNCHANGED <<plan, calls, rows, decisions, live>>
    BY <1>1 DEF vars, SameWork, SameCalls, SameCall
  <2> QED
    BY <2>1, NamingKept, KeyedKept, BegunKept DEF ClientsInv, Shapes, SameWork
<1>2. ASSUME NEW c \in Agents, agentPlan(c) PROVE ClientsInv'
  <2>1. c \in Callers
    BY DEF Callers
  <2>2. PICK p \in Plans : plan' = [plan EXCEPT ![c] = p]
    BY <1>2 DEF agentPlan
  <2>3. p \in Seq(Offers)
    BY ClientsAssumption
  <2> QED
    BY <1>2, <2>1, <2>2, <2>3, PlansKeep DEF agentPlan
<1>9. ASSUME NEW c \in Agents, agentQuit(c) PROVE ClientsInv'
  <2>1. c \in Callers /\ <<>> \in Seq(Offers)
    BY DEF Callers
  <2> QED
    BY <1>9, <2>1, PlansKeep DEF agentQuit
<1>3. ASSUME NEW c \in Callers, want(c) PROVE ClientsInv'
  <2>1. PICK item \in Items : plan' = [plan EXCEPT ![c] = <<item>>]
    BY <1>3 DEF want
  <2>2. item \in Offers
    BY DEF Offers
  <2>3. <<item>> \in Seq(Offers)
    BY <2>2
  <2> QED
    BY <1>3, <2>1, <2>3, PlansKeep DEF want
<1>4. ASSUME NEW c \in Agents, agentPay(c) PROVE ClientsInv'
  <2> DEFINE key == agentKey(c, Head(plan[c]))
  <2>1. c \in Callers /\ c \notin Shoppers
    BY ClientsAssumption DEF Callers
  <2>2. plan[c] \in Seq(Wanted) /\ plan[c] # <<>> /\ Post(c, key)
    BY <1>0, <1>4, <2>1 DEF agentPay, Post
  <2>3. Head(plan[c]) \in Wanted
    BY <2>2
  <2>4. key \in Keys
    BY <2>1, <2>3 DEF agentKey, Keys, Labels, Numbers
  <2> HIDE DEF key
  <2>5. key = agentKey(c, Head(plan[c]))
    BY DEF key
  <2> QED
    BY <2>1, <2>2, <2>4, <2>5, PostKeeps
<1>5. ASSUME NEW c \in Shoppers, sdkPay(c) PROVE ClientsInv'
  <2> DEFINE key == <<c, "own", Len(plan[c])>>
  <2>1. c \in Callers /\ c \notin Agents
    BY ClientsAssumption DEF Callers
  <2>2. key \in Keys
    <3>1. Len(plan[c]) \in Numbers /\ "own" \in Labels
      BY <1>0, <2>1 DEF Numbers, Labels
    <3> QED
      BY <2>1, <3>1 DEF Keys
  <2>3. Post(c, key)
    BY <1>5 DEF sdkPay
  <2> QED
    BY <2>1, <2>2, <2>3, PostKeeps
<1>6. ASSUME NEW c \in Tools \cup Terminals \cup Desktops, Post(c, Fresh(c)) PROVE ClientsInv'
  <2>1. c \in Callers /\ c \notin Agents /\ c \notin Shoppers
    BY ClientsAssumption DEF Callers
  <2>2. Fresh(c) \in Keys
    BY <2>1, FreshIsKey DEF ClientsInv
  <2> QED
    BY <1>6, <2>1, <2>2, PostKeeps
<1>7. ASSUME NEW n \in DOMAIN calls, receive(n) \/ agentError(n) \/ otherError(n) \/ Serve(n)
      PROVE  ClientsInv'
  BY <1>7, EndKeeps, AuthenticateKeeps, InsertKeeps, ExecuteKeeps, AnswerKeeps DEF Serve
<1>8. \A c : CallsOf(c) \subseteq DOMAIN calls
  BY DEF CallsOf
<1> QED
  BY <1>1, <1>2, <1>3, <1>4, <1>5, <1>6, <1>7, <1>8, <1>9,
     OwnerBeginsKeeps, OwnerEndsKeeps, RevokeKeeps, RestartKeeps
  DEF Next, AgentStep, toolPay, terminalPay, desktopPay

LEMMA ClientsAlways == Spec => []ClientsInv
  BY InitClients, ClientsInductive, PTL DEF Spec

-----------------------------------------------------------------------------
(* A purchase that its caller names is paid at most once, for any plans,   *)
(* repeated calls and restarts.                                            *)
THEOREM NamedOnce == Spec => []NamedPurchasePaidOnce
<1>1. ClientsInv => NamedPurchasePaidOnce
  <2> SUFFICES ASSUME ClientsInv, NEW c \in Agents \cup Shoppers, NEW q \in Paid(c),
                      NEW r \in Paid(c), calls[q.id].left = calls[r.id].left
               PROVE  q = r
    BY DEF NamedPurchasePaidOnce
  <2>1. /\ q \in rows /\ r \in rows /\ calls[q.id].by = c /\ calls[r.id].by = c
        /\ q.id \in DOMAIN calls /\ r.id \in DOMAIN calls
        /\ q.key = calls[q.id].key /\ r.key = calls[r.id].key
    BY DEF Paid, RowsOf, ClientsInv, Keyed
  <2>2. q.key = r.key
    BY <2>1 DEF ClientsInv, Naming
  <2> QED
    BY <2>1, <2>2 DEF ClientsInv, Keyed
<1> QED
  BY <1>1, ClientsAlways, PTL

(* Once the API key is revoked, no new call creates a payment, whatever    *)
(* was in flight.                                                          *)
THEOREM RevocationHolds == Spec => []RevokedCreatesNothing
<1>1. ClientsInv => RevokedCreatesNothing
  BY DEF ClientsInv, Keyed, RevokedCreatesNothing
<1> QED
  BY <1>1, ClientsAlways, PTL

(* A final verdict that a caller was told, when no decision is under way   *)
(* on the payment, is what the row says for good: a later decision does    *)
(* not find it held.                                                       *)
SameDecisions ==
  \A d \in Decisions : decisions'[d] = decisions[d] \/ decisions'[d] = NoDecision

LEMMA StandingKept ==
  ASSUME ClientsInv, NEW n \in DOMAIN calls, Standing(n), SameDecisions,
         calls'[n].status = calls[n].status, calls'[n].key = calls[n].key,
         \A r \in rows : r.status = calls[n].status => r \in rows'
  PROVE  Standing(n)'
<1>1. PICK r \in Named(calls[n].key) :
        r.status = calls[n].status /\ (r.status = "SETTLED" \/ ~UnderWay(r.id))
  BY DEF Standing
<1>2. r \in Named(calls[n].key)'
  BY <1>1 DEF Named
<1>3. ~UnderWay(r.id) => ~UnderWay(r.id)'
  BY DEF UnderWay, SameDecisions
<1> QED
  BY <1>1, <1>2, <1>3 DEF Standing

LEMMA StandingStep ==
  ASSUME ClientsInv, [Next]_vars, NEW n \in DOMAIN calls, Standing(n)
  PROVE  Standing(n)'
<1>1. calls \in Seq(CallRecords) /\ calls[n] \in CallRecords /\ decisions \in [Decisions -> DecisionRecords]
  BY CallTyped DEF ClientsInv, Shapes
<1>2. ASSUME UNCHANGED <<rows, decisions>>, calls'[n].status = calls[n].status,
             calls'[n].key = calls[n].key
      PROVE  Standing(n)'
  BY <1>2, StandingKept DEF SameDecisions
<1>3. ASSUME NEW c \in Callers, NEW key, Post(c, key) PROVE Standing(n)'
  <2>1. calls'[n] = calls[n] /\ UNCHANGED <<rows, decisions>>
    BY <1>1, <1>3 DEF Post
  <2> QED
    BY <1>2, <2>1
<1>4. ASSUME NEW m \in DOMAIN calls, receive(m) \/ agentError(m) \/ otherError(m)
      PROVE  Standing(n)'
  <2>1. calls' = Close(m) /\ UNCHANGED <<rows, decisions>>
    BY <1>4 DEF receive, agentError, otherError
  <2>2. calls'[n].status = calls[n].status /\ calls'[n].key = calls[n].key
    BY <1>1, <2>1, CallTyped DEF Close, CallRecords
  <2> QED
    BY <1>2, <2>1, <2>2
<1>5. ASSUME NEW m \in DOMAIN calls, NEW p, Goto(m, p)
      PROVE  calls'[n].status = calls[n].status /\ calls'[n].key = calls[n].key
  BY <1>1, <1>5 DEF Goto, CallRecords
<1>6. ASSUME NEW m \in DOMAIN calls, authenticate(m) PROVE Standing(n)'
  <2>1. calls'[n].status = calls[n].status /\ calls'[n].key = calls[n].key
    BY <1>5, <1>6 DEF authenticate
  <2> QED
    BY <1>2, <1>6, <2>1 DEF authenticate
<1>7. ASSUME NEW m \in DOMAIN calls, insert(m) PROVE Standing(n)'
  <2>1. calls'[n].status = calls[n].status /\ calls'[n].key = calls[n].key
    BY <1>5, <1>7 DEF insert
  <2>2. SameDecisions /\ \A r \in rows : r \in rows'
    BY <1>7 DEF insert, SameDecisions
  <2> QED
    BY <2>1, <2>2, StandingKept
<1>8. ASSUME NEW m \in DOMAIN calls, execute(m) PROVE Standing(n)'
  <2>1. calls'[n].status = calls[n].status /\ calls'[n].key = calls[n].key
    BY <1>5, <1>8 DEF execute
  <2>2. PICK q \in rows, v \in Verdicts : q.id = m /\ SetStatus(q, v)
    BY <1>8 DEF execute
  <2>3. q.status = "CREATED"
    BY <1>8, <2>2 DEF execute, At, ClientsInv, Keyed
  <2>4. calls[n].status # "CREATED"
    BY DEF Standing, Final, Settled, Outcomes
  <2>5. SameDecisions /\ \A r \in rows : r.status = calls[n].status => r \in rows'
    BY <1>8, <2>2, <2>3, <2>4 DEF execute, SameDecisions, SetStatus
  <2> QED
    BY <2>1, <2>5, StandingKept
<1>9. ASSUME NEW m \in DOMAIN calls, answer(m) PROVE Standing(n)'
  <2>1. PICK q \in Named(calls[m].key) :
          calls' = [calls EXCEPT ![m].at = "answered", ![m].status = q.status]
    BY <1>9 DEF answer
  <2>2. UNCHANGED <<rows, decisions>>
    BY <1>9 DEF answer
  <2>3. CASE n # m
    <3>1. calls'[n] = calls[n]
      BY <1>1, <2>1, <2>3
    <3> QED
      BY <1>2, <2>2, <3>1
  <2>4. CASE n = m
    <3>1. PICK r \in Named(calls[n].key) : r.status = calls[n].status
      BY DEF Standing
    <3>2. q = r
      BY <2>1, <2>4, <3>1 DEF Named, ClientsInv, Keyed
    <3>3. calls'[n].status = q.status /\ calls'[n].key = calls[n].key
      BY <1>1, <2>1, <2>4 DEF CallRecords
    <3> QED
      BY <1>2, <2>2, <3>1, <3>2, <3>3
  <2> QED
    BY <2>3, <2>4
<1>10. ASSUME NEW d \in Decisions, ownerBegins(d) PROVE Standing(n)'
  <2>1. PICK q \in rows, op \in {"approve", "deny"} :
          q.status = "HELD" /\ decisions' = [decisions EXCEPT ![d] = [row |-> q.id, op |-> op]]
    BY <1>10 DEF ownerBegins
  <2>2. UNCHANGED <<calls, rows>>
    BY <1>10 DEF ownerBegins
  <2>3. PICK r \in Named(calls[n].key) :
          r.status = calls[n].status /\ (r.status = "SETTLED" \/ ~UnderWay(r.id))
    BY DEF Standing
  <2>4. r.status # "HELD" /\ r \in rows
    BY <2>3 DEF Standing, Final, Settled, Outcomes, Named
  <2>5. q.id # r.id
    BY <2>1, <2>4 DEF ClientsInv, Keyed
  <2>6. ~UnderWay(r.id) => ~UnderWay(r.id)'
    <3>1. \A e \in Decisions : e # d => decisions'[e] = decisions[e]
      BY <1>1, <2>1
    <3>2. decisions'[d].row = q.id
      BY <1>1, <2>1
    <3> QED
      BY <2>5, <3>1, <3>2 DEF UnderWay
  <2> QED
    BY <2>2, <2>3, <2>6 DEF Standing, Named
<1>11. ASSUME NEW d \in Decisions, ownerEnds(d) PROVE Standing(n)'
  <2>1. /\ UNCHANGED calls /\ decisions[d] # NoDecision
        /\ decisions' = [decisions EXCEPT ![d] = NoDecision]
    BY <1>11 DEF ownerEnds
  <2>2. SameDecisions
    BY <1>1, <2>1 DEF SameDecisions
  <2>3. PICK r \in Named(calls[n].key) :
          r.status = calls[n].status /\ (r.status = "SETTLED" \/ ~UnderWay(r.id))
    BY DEF Standing
  <2>4. r \in rows /\ r.id # decisions[d].row
    <3>1. r \in rows
      BY DEF Named
    <3>2. ~UnderWay(r.id)
      BY <2>3, <3>1, CreatedAlone
    <3> QED
      BY <2>1, <3>1, <3>2 DEF UnderWay
  <2>5. r \in rows'
    BY <1>11, <2>4 DEF ownerEnds, SetStatus
  <2>6. ~UnderWay(r.id) => ~UnderWay(r.id)'
    BY <2>2 DEF UnderWay, SameDecisions
  <2> QED
    BY <2>1, <2>3, <2>5, <2>6 DEF Standing, Named
<1>12. ASSUME restart PROVE Standing(n)'
  <2>1. SameDecisions /\ UNCHANGED rows
    BY <1>12 DEF restart, SameDecisions
  <2>2. calls'[n] = calls[n] \/ calls'[n] = [calls[n] EXCEPT !.at = "stopped"]
    BY <1>12 DEF restart
  <2>3. calls'[n].status = calls[n].status /\ calls'[n].key = calls[n].key
    BY <1>1, <2>2 DEF CallRecords
  <2> QED
    BY <2>1, <2>3, StandingKept
<1>13. ASSUME revoke \/ UNCHANGED vars
              \/ \E c \in Callers : agentPlan(c) \/ agentQuit(c) \/ want(c)
       PROVE  Standing(n)'
  <2>1. UNCHANGED <<calls, rows, decisions>>
    BY <1>13 DEF revoke, vars, agentPlan, agentQuit, want
  <2> QED
    BY <1>2, <2>1
<1>14. \A c : CallsOf(c) \subseteq DOMAIN calls
  BY DEF CallsOf
<1> QED
  BY <1>3, <1>4, <1>6, <1>7, <1>8, <1>9, <1>10, <1>11, <1>12, <1>13, <1>14
  DEF Next, AgentStep, Serve, Callers, agentPay, sdkPay, toolPay, terminalPay, desktopPay

THEOREM VerdictsStand == Spec => ToldVerdictStands
<1>1. ClientsInv /\ [Next]_vars => [\A n \in DOMAIN calls : Standing(n) => Standing(n)']_vars
  BY StandingStep
<1> QED
  BY <1>1, ClientsAlways, PTL DEF Spec, ToldVerdictStands

-----------------------------------------------------------------------------
(* What an agent reports.  What it is told of is the row of its purchase,  *)
(* so that answers it counts are about as many rows as it asked for        *)
(* different purchases.                                                    *)
Faithful ==
  /\ \A n \in DOMAIN calls : calls[n].key[1] = calls[n].by
  /\ \A n \in DOMAIN calls :
       calls[n].by \in Agents => calls[n].key = agentKey(calls[n].by, calls[n].item)
  /\ \A r \in rows : r.status \in Settled => r.paid
  /\ \A n \in DOMAIN calls : \A r \in rows :
       r.key = calls[n].key /\ calls[n].status \in Settled => r.paid

IsTold(k) == ~k.open /\ k.at = "answered" /\ k.status \in Settled
Told(c) == {n \in CallsOf(c) : IsTold(calls[n])}

Reports == [settled : Nat, held : Nat, reverted : Nat]
Counts ==
  /\ report \in [Callers -> Reports]
  /\ \A c \in Agents : report[c].settled <= Cardinality(Told(c))

ReportInv == Faithful /\ Counts

LEMMA FaithfulKept ==
  ASSUME Faithful, SameCalls, \A n \in DOMAIN calls : calls'[n].status = calls[n].status,
         \A s \in rows' :
           /\ s.status \in Settled => s.paid
           /\ \/ \E r \in rows : r.key = s.key /\ (r.paid => s.paid)
              \/ \A n \in DOMAIN calls : calls[n].key = s.key => calls[n].status = "none"
  PROVE  Faithful'
<1>1. \A n \in DOMAIN calls' :
        /\ n \in DOMAIN calls /\ calls'[n].by = calls[n].by /\ calls'[n].item = calls[n].item
        /\ calls'[n].key = calls[n].key /\ calls'[n].status = calls[n].status
  BY DEF SameCalls, SameCall
<1>2. "none" \notin Settled
  BY DEF Settled
<1>3. ASSUME NEW n \in DOMAIN calls', NEW s \in rows', s.key = calls'[n].key,
             calls'[n].status \in Settled
      PROVE  s.paid
  <2>1. PICK r \in rows : r.key = s.key /\ (r.paid => s.paid)
    BY <1>1, <1>2, <1>3
  <2> QED
    BY <1>1, <1>3, <2>1 DEF Faithful
<1>4. /\ \A n \in DOMAIN calls' : calls'[n].key[1] = calls'[n].by
      /\ \A n \in DOMAIN calls' :
           calls'[n].by \in Agents => calls'[n].key = agentKey(calls'[n].by, calls'[n].item)
  BY <1>1 DEF Faithful, agentKey
<1> QED
  BY <1>3, <1>4 DEF Faithful, agentKey

LEMMA SameRowsFaithful ==
  ASSUME Faithful, SameCalls, \A n \in DOMAIN calls : calls'[n].status = calls[n].status,
         UNCHANGED rows
  PROVE  Faithful'
  BY FaithfulKept DEF Faithful

LEMMA StatusFaithful ==
  ASSUME ClientsInv, Faithful, SameCalls,
         \A n \in DOMAIN calls : calls'[n].status = calls[n].status,
         NEW r \in rows, NEW v \in Statuses, SetStatus(r, v)
  PROVE  Faithful'
<1>1. PICK s \in RowRecords : /\ s.key = r.key /\ s.status = v
                              /\ s.paid = (r.paid \/ v \in Settled)
                              /\ rows' = (rows \ {r}) \cup {s}
  BY StatusChanges DEF ClientsInv
<1>2. (r.paid => s.paid) /\ (s.status \in Settled => s.paid)
  <2>1. (r.paid \/ v \in Settled) => s.paid
    BY <1>1
  <2> QED
    BY <1>1, <2>1
<1>3. ASSUME NEW t \in rows'
      PROVE  /\ t.status \in Settled => t.paid
             /\ \E q \in rows : q.key = t.key /\ (q.paid => t.paid)
  <2>1. CASE t = s
    BY <1>1, <1>2, <2>1
  <2>2. CASE t \in rows
    BY <2>2 DEF Faithful
  <2> QED
    BY <1>1, <2>1, <2>2
<1> QED
  BY <1>3, FaithfulKept

LEMMA PostFaithful ==
  ASSUME ClientsInv, Faithful, NEW c \in Callers, NEW key \in Keys, Post(c, key), key[1] = c,
         c \in Agents => key = agentKey(c, Head(plan[c]))
  PROVE  Faithful'
<1> DEFINE e == [by |-> c, left |-> Len(plan[c]), item |-> Head(plan[c]), key |-> key,
                 at |-> "sent", open |-> TRUE, late |-> ~live, status |-> "none"]
           N == Len(calls) + 1
<1>1. calls \in Seq(CallRecords) /\ calls' = Append(calls, e) /\ UNCHANGED rows
  BY DEF ClientsInv, Shapes, Post
<1>2. e.by = c /\ e.item = Head(plan[c]) /\ e.key = key /\ e.status \notin Settled
  BY DEF Settled
<1> HIDE DEF e
<1>3. /\ DOMAIN calls' = DOMAIN calls \cup {N} /\ calls'[N] = e
      /\ \A n \in DOMAIN calls : calls'[n] = calls[n]
  BY <1>1
<1> HIDE DEF N
<1> QED
  BY <1>1, <1>2, <1>3 DEF Faithful, agentKey

LEMMA AnswerFaithful ==
  ASSUME ClientsInv, Faithful, NEW n \in DOMAIN calls, answer(n)
  PROVE  Faithful'
<1>1. PICK r \in Named(calls[n].key) :
        calls' = [calls EXCEPT ![n].at = "answered", ![n].status = r.status]
  BY DEF answer
<1>2. /\ calls \in Seq(CallRecords) /\ calls[n] \in CallRecords /\ UNCHANGED rows
      /\ r \in rows /\ r.key = calls[n].key /\ \A q \in rows : q.key = r.key => q = r
  BY <1>1, CallTyped DEF ClientsInv, Shapes, answer, Named, Keyed
<1>3. /\ DOMAIN calls' = DOMAIN calls /\ calls'[n].status = r.status
      /\ \A m \in DOMAIN calls : m # n => calls'[m] = calls[m]
      /\ calls'[n].by = calls[n].by /\ calls'[n].item = calls[n].item
      /\ calls'[n].key = calls[n].key
  BY <1>1, <1>2 DEF CallRecords
<1>4. /\ \A m \in DOMAIN calls' : calls'[m].key[1] = calls'[m].by
      /\ \A m \in DOMAIN calls' :
           calls'[m].by \in Agents => calls'[m].key = agentKey(calls'[m].by, calls'[m].item)
  BY <1>3 DEF Faithful, agentKey
<1>5. \A m \in DOMAIN calls' : \A q \in rows' :
        q.key = calls'[m].key /\ calls'[m].status \in Settled => q.paid
  BY <1>2, <1>3 DEF Faithful
<1> QED
  BY <1>2, <1>4, <1>5 DEF Faithful, agentKey

-----------------------------------------------------------------------------
(* The count never runs ahead of the answers that were received.           *)
LEMMA ToldFinite ==
  ASSUME Shapes, NEW c
  PROVE  IsFiniteSet(Told(c)) /\ Cardinality(Told(c)) \in Nat
<1>1. calls \in Seq(CallRecords) /\ IsFiniteSet(DOMAIN calls)
  BY FS_Interval DEF Shapes
<1>2. Told(c) \subseteq DOMAIN calls
  BY DEF Told, CallsOf
<1> QED
  BY <1>1, <1>2, FS_Subset, FS_CardinalityType

LEMMA ToldGrows ==
  ASSUME Shapes, Shapes', NEW c, DOMAIN calls \subseteq DOMAIN calls',
         \A n \in DOMAIN calls : calls'[n].by = calls[n].by
                                  /\ (IsTold(calls[n]) => IsTold(calls'[n]))
  PROVE  /\ Told(c) \subseteq Told(c)' /\ Cardinality(Told(c)) <= Cardinality(Told(c)')
         /\ IsFiniteSet(Told(c)) /\ Cardinality(Told(c)) \in Nat
         /\ IsFiniteSet(Told(c)') /\ Cardinality(Told(c)') \in Nat
<1>1. Told(c) \subseteq Told(c)'
  BY DEF Told, CallsOf
<1>2. IsFiniteSet(Told(c))'
  BY ToldFinite, PTL
<1> QED
  BY <1>1, <1>2, ToldFinite, FS_Subset, FS_CardinalityType

LEMMA CountsKept ==
  ASSUME Shapes, Shapes', Counts, UNCHANGED report, DOMAIN calls \subseteq DOMAIN calls',
         \A n \in DOMAIN calls : calls'[n].by = calls[n].by
                                  /\ (IsTold(calls[n]) => IsTold(calls'[n]))
  PROVE  Counts'
<1>1. ASSUME NEW c \in Agents PROVE report'[c].settled <= Cardinality(Told(c)')
  <2>1. /\ Cardinality(Told(c)) <= Cardinality(Told(c)') /\ Cardinality(Told(c)) \in Nat
        /\ Cardinality(Told(c)') \in Nat
    BY ToldGrows
  <2>2. report'[c].settled <= Cardinality(Told(c)) /\ report'[c].settled \in Nat
    BY DEF Counts, Reports, Callers
  <2> QED
    BY <2>1, <2>2
<1> QED
  BY <1>1 DEF Counts

(* An answer that is counted as settled is one more that was told.         *)
LEMMA ReceiveCounts ==
  ASSUME ClientsInv, ClientsInv', Counts, NEW n \in DOMAIN calls, receive(n)
  PROVE  Counts'
<1>0. PICK c \in Callers : c = calls[n].by
  BY CallTyped DEF ClientsInv, CallRecords
<1> DEFINE k == [calls[n] EXCEPT !.open = FALSE]
           r == Counted(report[c], calls[n].status)
<1>1. /\ Shapes /\ Shapes' /\ calls[n] \in CallRecords /\ calls[n].by = c
      /\ report \in [Callers -> Reports] /\ report[c] \in Reports
  BY <1>0, CallTyped DEF ClientsInv, CallRecords, Counts
<1>2. /\ calls[n].open /\ calls[n].at = "answered"
      /\ calls' = [calls EXCEPT ![n] = k] /\ report' = [report EXCEPT ![c] = r]
  BY <1>0 DEF receive, Close
<1>3. /\ r \in Reports
      /\ calls[n].status \in Settled => r.settled = report[c].settled + 1
      /\ calls[n].status \notin Settled => r.settled = report[c].settled
  <2>1. CASE calls[n].status \in Settled
    <3>1. r = [report[c] EXCEPT !.settled = @ + 1]
      BY <2>1 DEF Counted, Settled
    <3> QED
      BY <1>1, <2>1, <3>1 DEF Reports
  <2>2. CASE calls[n].status \notin Settled /\ calls[n].status = "HELD"
    <3>1. r = [report[c] EXCEPT !.held = @ + 1]
      BY <2>2 DEF Counted
    <3> QED
      BY <1>1, <2>2, <3>1 DEF Reports
  <2>3. CASE calls[n].status \notin Settled /\ calls[n].status # "HELD"
    <3>1. r = [report[c] EXCEPT !.reverted = @ + 1]
      BY <2>3 DEF Counted
    <3> QED
      BY <1>1, <2>3, <3>1 DEF Reports
  <2> QED
    BY <2>1, <2>2, <2>3
<1>4. /\ k \in CallRecords /\ SameCall(calls[n], k) /\ ~k.open /\ k.at = "answered"
      /\ k.status = calls[n].status /\ k.by = c
  BY <1>0, <1>1, <1>2 DEF CallRecords, SameCall
<1> HIDE DEF k, r
<1>5. /\ SameCalls /\ calls'[n] = k /\ DOMAIN calls' = DOMAIN calls
      /\ \A m \in DOMAIN calls : m # n => calls'[m] = calls[m]
  BY <1>1, <1>2, <1>4, CallChanges DEF SameCalls
<1>6. \A m \in DOMAIN calls : calls'[m].by = calls[m].by
                               /\ (IsTold(calls[m]) => IsTold(calls'[m]))
  BY <1>1, <1>2, <1>4, <1>5 DEF IsTold
<1>7. /\ report' \in [Callers -> Reports] /\ report'[c] = r
      /\ \A d \in Callers : d # c => report'[d] = report[d]
  BY <1>1, <1>2, <1>3
<1>8. calls[n].status \in Settled => n \notin Told(c) /\ n \in Told(c)'
  BY <1>2, <1>4, <1>5 DEF Told, CallsOf, IsTold
<1>9. ASSUME NEW d \in Agents PROVE report'[d].settled <= Cardinality(Told(d)')
  <2>1. /\ Told(d) \subseteq Told(d)' /\ Cardinality(Told(d)) <= Cardinality(Told(d)')
        /\ IsFiniteSet(Told(d)) /\ Cardinality(Told(d)) \in Nat
        /\ IsFiniteSet(Told(d)') /\ Cardinality(Told(d)') \in Nat
    BY <1>1, <1>5, <1>6, ToldGrows
  <2>2. /\ d \in Callers /\ report[d] \in Reports /\ report[d].settled \in Nat
        /\ report[d].settled <= Cardinality(Told(d))
    BY <1>1 DEF Counts, Callers, Reports
  <2>3. CASE d # c \/ calls[n].status \notin Settled
    <3>1. report'[d].settled = report[d].settled
      BY <1>3, <1>7, <2>2, <2>3
    <3> QED
      BY <2>1, <2>2, <3>1
  <2>4. CASE d = c /\ calls[n].status \in Settled
    <3>1. report'[d].settled = report[d].settled + 1
      BY <1>3, <1>7, <2>2, <2>4
    <3>2. n \notin Told(d) /\ n \in Told(d)'
      BY <1>8, <2>4
    <3>3. Cardinality(Told(d) \cup {n}) = Cardinality(Told(d)) + 1
      BY <2>1, <3>2, FS_AddElement
    <3>4. Told(d) \cup {n} \subseteq Told(d)'
      BY <2>1, <3>2
    <3>5. Cardinality(Told(d) \cup {n}) <= Cardinality(Told(d)')
      BY <2>1, <3>4, FS_Subset
    <3> QED
      BY <2>1, <2>2, <3>1, <3>3, <3>5
  <2> QED
    BY <2>3, <2>4
<1> QED
  BY <1>7, <1>9 DEF Counts

(* Every other step leaves the reports alone, and what was told as it was. *)
LEMMA ServeReported ==
  ASSUME ClientsInv, ClientsInv', ReportInv, NEW n \in DOMAIN calls, Serve(n)
  PROVE  ReportInv'
<1>1. calls[n] \in CallRecords /\ Shapes
  BY CallTyped DEF ClientsInv
<1>2. CASE answer(n)
  <2>1. PICK r \in Named(calls[n].key) :
          calls' = [calls EXCEPT ![n].at = "answered", ![n].status = r.status]
    BY <1>2 DEF answer
  <2>2. UNCHANGED report /\ calls[n].at = "answer" /\ calls \in Seq(CallRecords)
    BY <1>1, <1>2 DEF answer, At, Shapes
  <2>3. /\ DOMAIN calls' = DOMAIN calls /\ calls'[n].by = calls[n].by
        /\ \A m \in DOMAIN calls : m # n => calls'[m] = calls[m]
    BY <1>1, <2>1, <2>2 DEF CallRecords
  <2>4. Counts'
    BY <2>2, <2>3, CountsKept DEF ReportInv, ClientsInv, IsTold
  <2> QED
    BY <1>2, <2>4, AnswerFaithful DEF ReportInv
<1>3. CASE authenticate(n) \/ insert(n) \/ execute(n)
  <2>1. PICK p \in Places : Goto(n, p)
    BY <1>3 DEF authenticate, insert, execute, Places
  <2>2. UNCHANGED <<plan, report>> /\ calls[n].at # "answered"
    BY <1>3 DEF authenticate, insert, execute, At
  <2>3. /\ SameCalls /\ calls'[n].status = calls[n].status
        /\ \A m \in DOMAIN calls : m # n => calls'[m] = calls[m]
    BY <2>1, <2>2, GotoChanges
  <2>4. \A m \in DOMAIN calls : calls'[m].status = calls[m].status
    BY <2>3
  <2>5. \A m \in DOMAIN calls : calls'[m].by = calls[m].by
                                 /\ (IsTold(calls[m]) => IsTold(calls'[m]))
    BY <2>2, <2>3 DEF IsTold, SameCalls, SameCall
  <2>6. Counts'
    BY <2>2, <2>3, <2>5, CountsKept DEF ReportInv, ClientsInv, SameCalls
  <2>7. Faithful'
    <3>1. CASE UNCHANGED rows
      BY <2>3, <2>4, <3>1, SameRowsFaithful DEF ReportInv
    <3>2. CASE insert(n) /\ Named(calls[n].key) = {}
      <4>1. rows' = rows \cup {NewRow(n)}
        BY <3>2 DEF insert
      <4>2. NewRow(n).key = calls[n].key /\ NewRow(n).status \notin Settled
        BY DEF NewRow, Settled
      <4>3. \A m \in DOMAIN calls : calls[m].key = calls[n].key => calls[m].status = "none"
        BY <3>2 DEF ClientsInv, Keyed, Named
      <4> QED
        BY <2>3, <2>4, <4>1, <4>2, <4>3, FaithfulKept DEF ReportInv, Faithful
    <3>3. CASE execute(n)
      <4>1. PICK r \in rows, v \in Verdicts : SetStatus(r, v)
        BY <3>3 DEF execute
      <4>2. v \in Statuses
        BY DEF Statuses
      <4> QED
        BY <2>3, <2>4, <4>1, <4>2, StatusFaithful DEF ReportInv
    <3> QED
      BY <1>3, <3>1, <3>2, <3>3 DEF authenticate, insert
  <2> QED
    BY <2>6, <2>7 DEF ReportInv
<1> QED
  BY <1>2, <1>3 DEF Serve

LEMMA EndReported ==
  ASSUME ClientsInv, ClientsInv', ReportInv, NEW n \in DOMAIN calls,
         receive(n) \/ agentError(n) \/ otherError(n)
  PROVE  ReportInv'
<1> DEFINE k == [calls[n] EXCEPT !.open = FALSE]
<1>1. calls[n] \in CallRecords /\ Shapes
  BY CallTyped DEF ClientsInv
<1>2. calls[n].open /\ calls' = [calls EXCEPT ![n] = k] /\ UNCHANGED rows
  BY DEF receive, agentError, otherError, Close
<1>3. k \in CallRecords /\ SameCall(calls[n], k) /\ k.status = calls[n].status
  BY <1>1 DEF CallRecords, SameCall
<1> HIDE DEF k
<1>4. /\ SameCalls /\ calls'[n] = k /\ DOMAIN calls' = DOMAIN calls
      /\ \A m \in DOMAIN calls : m # n => calls'[m] = calls[m]
  BY <1>1, <1>2, <1>3, CallChanges DEF SameCalls
<1>5. Counts'
  <2>1. CASE receive(n)
    BY <2>1, ReceiveCounts DEF ReportInv
  <2>2. CASE agentError(n) \/ otherError(n)
    <3>1. UNCHANGED report
      BY <2>2 DEF agentError, otherError
    <3>2. \A m \in DOMAIN calls : calls'[m].by = calls[m].by
                                   /\ (IsTold(calls[m]) => IsTold(calls'[m]))
      BY <1>2, <1>3, <1>4 DEF IsTold, SameCall
    <3> QED
      BY <1>4, <3>1, <3>2, CountsKept DEF ReportInv, ClientsInv
  <2> QED
    BY <2>1, <2>2
<1>6. \A m \in DOMAIN calls : calls'[m].status = calls[m].status
  BY <1>3, <1>4
<1>7. Faithful'
  BY <1>2, <1>4, <1>6, SameRowsFaithful DEF ReportInv
<1> QED
  BY <1>5, <1>7 DEF ReportInv

LEMMA PostReported ==
  ASSUME ClientsInv, ClientsInv', ReportInv, NEW c \in Callers, NEW key \in Keys,
         Post(c, key), key[1] = c, c \in Agents => key = agentKey(c, Head(plan[c]))
  PROVE  ReportInv'
<1>1. Faithful'
  BY PostFaithful DEF ReportInv
<1>2. /\ UNCHANGED report /\ DOMAIN calls \subseteq DOMAIN calls'
      /\ \A n \in DOMAIN calls : calls'[n] = calls[n]
  BY DEF Post, ClientsInv, Shapes
<1>3. Counts'
  BY <1>2, CountsKept DEF ReportInv, ClientsInv
<1> QED
  BY <1>1, <1>3 DEF ReportInv

LEMMA InitReported == Init => ReportInv
<1> SUFFICES ASSUME Init PROVE ReportInv
  OBVIOUS
<1>1. calls = <<>> /\ DOMAIN calls = {} /\ rows = {} /\ report = [c \in Callers |-> NoReport]
  BY DEF Init
<1>2. Faithful
  BY <1>1 DEF Faithful
<1>3. ASSUME NEW c PROVE Cardinality(Told(c)) = 0
  <2>1. Told(c) = {}
    BY <1>1 DEF Told, CallsOf
  <2> QED
    BY <2>1, FS_EmptySet
<1>4. NoReport \in Reports /\ NoReport.settled = 0
  BY DEF NoReport, Reports
<1>5. Counts
  BY <1>1, <1>3, <1>4 DEF Counts, Callers
<1> QED
  BY <1>2, <1>5 DEF ReportInv

(* The steps of nobody's call.                                             *)
LEMMA RestReported ==
  ASSUME ClientsInv, ClientsInv', ReportInv, UNCHANGED report, SameCalls,
         \A n \in DOMAIN calls : /\ calls'[n].status = calls[n].status
                                 /\ IsTold(calls[n]) => IsTold(calls'[n]),
         \/ UNCHANGED rows
         \/ \E r \in rows, v \in Statuses : SetStatus(r, v)
  PROVE  ReportInv'
<1>1. Counts'
  BY CountsKept DEF ReportInv, ClientsInv, SameCalls, SameCall
<1>2. Faithful'
  BY SameRowsFaithful, StatusFaithful DEF ReportInv
<1> QED
  BY <1>1, <1>2 DEF ReportInv

LEMMA ReportInductive == ClientsInv /\ ClientsInv' /\ ReportInv /\ [Next]_vars => ReportInv'
<1> SUFFICES ASSUME ClientsInv, ClientsInv', ReportInv, [Next]_vars PROVE ReportInv'
  OBVIOUS
<1>0. plan \in [Callers -> Seq(Wanted)]
  BY DEF ClientsInv, Shapes
<1>1. ASSUME UNCHANGED <<calls, report>>,
             UNCHANGED rows \/ \E r \in rows, v \in Statuses : SetStatus(r, v)
      PROVE  ReportInv'
  <2>1. SameCalls
    BY <1>1 DEF SameCalls, SameCall
  <2> QED
    BY <1>1, <2>1, RestReported
<1>2. ASSUME \/ UNCHANGED vars \/ revoke
             \/ \E c \in Callers : agentPlan(c) \/ agentQuit(c) \/ want(c)
             \/ \E d \in Decisions : ownerBegins(d)
      PROVE  ReportInv'
  <2>1. UNCHANGED <<calls, report, rows>>
    BY <1>2 DEF vars, revoke, agentPlan, agentQuit, want, ownerBegins
  <2> QED
    BY <1>1, <2>1
<1>3. ASSUME NEW d \in Decisions, ownerEnds(d) PROVE ReportInv'
  <2>1. UNCHANGED <<calls, report>>
    BY <1>3 DEF ownerEnds
  <2>2. UNCHANGED rows \/ \E r \in rows, v \in OutcomesOf(decisions[d].op) : SetStatus(r, v)
    BY <1>3 DEF ownerEnds
  <2>3. OutcomesOf(decisions[d].op) \subseteq Statuses
    BY DEF OutcomesOf, Outcomes, Statuses, Verdicts
  <2> QED
    BY <1>1, <2>1, <2>2, <2>3
<1>4. ASSUME NEW c \in Agents, agentPay(c) PROVE ReportInv'
  <2> DEFINE key == agentKey(c, Head(plan[c]))
  <2>1. c \in Callers /\ Post(c, key)
    BY <1>4 DEF Callers, agentPay
  <2>2. Head(plan[c]) \in Wanted
    BY <1>0, <2>1 DEF Post
  <2>3. key \in Keys /\ key[1] = c
    BY <2>1, <2>2 DEF agentKey, Keys, Labels, Numbers
  <2> HIDE DEF key
  <2>4. key = agentKey(c, Head(plan[c]))
    BY DEF key
  <2> QED
    BY <2>1, <2>3, <2>4, PostReported
<1>5. ASSUME NEW c \in Shoppers, sdkPay(c) PROVE ReportInv'
  <2> DEFINE key == <<c, "own", Len(plan[c])>>
  <2>1. c \in Callers /\ c \notin Agents
    BY ClientsAssumption DEF Callers
  <2>2. key \in Keys /\ key[1] = c
    <3>1. Len(plan[c]) \in Numbers /\ "own" \in Labels
      BY <1>0, <2>1 DEF Numbers, Labels
    <3> QED
      BY <2>1, <3>1 DEF Keys
  <2>3. Post(c, key)
    BY <1>5 DEF sdkPay
  <2> QED
    BY <2>1, <2>2, <2>3, PostReported
<1>6. ASSUME NEW c \in Tools \cup Terminals \cup Desktops, Post(c, Fresh(c)) PROVE ReportInv'
  <2>1. c \in Callers /\ c \notin Agents
    BY ClientsAssumption DEF Callers
  <2>2. Fresh(c) \in Keys /\ Fresh(c)[1] = c
    BY <2>1, FreshIsKey DEF Fresh, ClientsInv
  <2> QED
    BY <1>6, <2>1, <2>2, PostReported
<1>7. ASSUME NEW n \in DOMAIN calls, receive(n) \/ agentError(n) \/ otherError(n) \/ Serve(n)
      PROVE  ReportInv'
  BY <1>7, EndReported, ServeReported
<1>8. ASSUME restart PROVE ReportInv'
  <2>1. UNCHANGED <<rows, report>> /\ DOMAIN calls' = DOMAIN calls
    BY <1>8 DEF restart
  <2>2. ASSUME NEW n \in DOMAIN calls
        PROVE  /\ SameCall(calls[n], calls'[n]) /\ calls'[n].status = calls[n].status
               /\ IsTold(calls[n]) => IsTold(calls'[n])
    <3>1. calls[n] \in CallRecords
      BY CallTyped DEF ClientsInv
    <3>2. CASE calls[n].at \in {"checked", "deciding", "answer"}
      <4>1. calls'[n] = [calls[n] EXCEPT !.at = "stopped"]
        BY <1>8, <3>2 DEF restart
      <4> QED
        BY <3>1, <3>2, <4>1 DEF CallRecords, SameCall, IsTold
    <3>3. CASE calls[n].at \notin {"checked", "deciding", "answer"}
      <4>1. calls'[n] = calls[n]
        BY <1>8, <3>3 DEF restart
      <4> QED
        BY <4>1 DEF SameCall
    <3> QED
      BY <3>2, <3>3
  <2>3. SameCalls
    BY <2>1, <2>2 DEF SameCalls
  <2> QED
    BY <2>1, <2>2, <2>3, RestReported
<1>9. (\A c : CallsOf(c) \subseteq DOMAIN calls) /\ Agents \subseteq Callers
  BY DEF CallsOf, Callers
<1> QED
  BY <1>2, <1>3, <1>4, <1>5, <1>6, <1>7, <1>8, <1>9
  DEF Next, AgentStep, toolPay, terminalPay, desktopPay

(* What an agent reports as settled was paid, each for a row of its own,   *)
(* for any plans, repeated purchases included, whatever decisions overlap: *)
(* an agent gives two items of one domain and price the same idempotency   *)
(* key and is told twice of the one payment there is, and only these are   *)
(* counted beyond what was paid.                                           *)
THEOREM ReportsArePaid == Spec => []ReportIsPaid
<1>1. Init => ReportInv
  BY InitReported
<1>2. ClientsInv /\ ClientsInv' /\ ReportInv /\ [Next]_vars => ReportInv'
  BY ReportInductive
<1>3. ASSUME ClientsInv, ReportInv PROVE ReportIsPaid
  <2> SUFFICES ASSUME NEW c \in Agents
               PROVE  report[c].settled <= Cardinality(Paid(c)) + Cardinality(Repeats(c))
    BY DEF ReportIsPaid
  <2> DEFINE first == Told(c) \ Repeats(c)
             f == [n \in first |-> CHOOSE r \in Paid(c) : r.key = calls[n].key]
  <2>1. ASSUME NEW n \in Told(c) PROVE \E r \in Paid(c) : r.key = calls[n].key
    <3>1. n \in DOMAIN calls /\ calls[n].by = c /\ calls[n].status \in Settled
      BY DEF Told, CallsOf, IsTold
    <3>2. calls[n].status # "none"
      BY <3>1 DEF Settled
    <3>3. PICK r \in rows : r.key = calls[n].key
      BY <1>3, <3>1, <3>2 DEF ClientsInv, Keyed
    <3>4. r.paid
      BY <1>3, <3>1, <3>3 DEF ReportInv, Faithful
    <3>5. calls[r.id].by = c
      BY <1>3, <3>1, <3>3 DEF ClientsInv, Keyed, ReportInv, Faithful
    <3> QED
      BY <3>3, <3>4, <3>5 DEF Paid, RowsOf
  <2>2. \A n \in first : f[n] \in Paid(c) /\ f[n].key = calls[n].key
    BY <2>1
  <2>3. f \in [first -> Paid(c)]
    BY <2>2
  <2>4. \A m, n \in first : f[m] = f[n] => m = n
    <3> SUFFICES ASSUME NEW m \in first, NEW n \in first, f[m] = f[n], m # n PROVE FALSE
      OBVIOUS
    <3>1. /\ m \in CallsOf(c) /\ n \in CallsOf(c) /\ calls[m].by = c /\ calls[n].by = c
          /\ m \in Nat /\ n \in Nat
      BY <1>3 DEF Told, CallsOf, ClientsInv, Shapes
    <3>2. calls[m].key = calls[n].key
      BY <2>2
    <3>3. agentKey(c, calls[m].item) = agentKey(c, calls[n].item)
      BY <1>3, <3>1, <3>2 DEF ReportInv, Faithful, CallsOf
    <3>4. calls[m].item.domain = calls[n].item.domain /\ calls[m].item.price = calls[n].item.price
      BY <3>3 DEF agentKey
    <3>5. m \in Repeats(c) \/ n \in Repeats(c)
      BY <3>1, <3>4 DEF Repeats
    <3> QED
      BY <3>5
  <2>5. f \in Injection(first, Paid(c))
    BY <2>3, <2>4 DEF Injection, IsInjective
  <2>6. /\ IsFiniteSet(DOMAIN calls)
        /\ first \subseteq DOMAIN calls /\ Repeats(c) \subseteq DOMAIN calls
    BY <1>3, FS_Interval DEF ClientsInv, Shapes, Told, CallsOf, Repeats
  <2>7. /\ IsFiniteSet(first) /\ IsFiniteSet(Repeats(c))
        /\ Cardinality(first) \in Nat /\ Cardinality(Repeats(c)) \in Nat
    BY <2>6, FS_Subset, FS_CardinalityType
  <2> HIDE DEF f
  <2>8. IsFiniteSet(Paid(c)) /\ Cardinality(Paid(c)) \in Nat
    <3> DEFINE id == [r \in Paid(c) |-> r.id]
    <3>1. \A r \in Paid(c) : r \in rows /\ r.id \in DOMAIN calls /\ r.key = calls[r.id].key
      BY <1>3 DEF Paid, RowsOf, ClientsInv, Keyed
    <3>2. \A q, r \in Paid(c) : id[q] = id[r] => q = r
      BY <1>3, <3>1 DEF ClientsInv, Keyed
    <3>3. id \in [Paid(c) -> DOMAIN calls]
      BY <3>1
    <3> HIDE DEF id
    <3>4. id \in Injection(Paid(c), DOMAIN calls)
      BY <3>2, <3>3 DEF Injection, IsInjective
    <3> QED
      BY <2>6, <3>4, FS_Injection, FS_CardinalityType
  <2>9. Cardinality(first) <= Cardinality(Paid(c))
    BY <2>5, <2>8, FS_Injection
  <2>10. /\ Told(c) \subseteq first \cup Repeats(c)
         /\ IsFiniteSet(first \cup Repeats(c)) /\ Cardinality(first \cup Repeats(c)) \in Nat
         /\ Cardinality(first \cup Repeats(c)) <= Cardinality(first) + Cardinality(Repeats(c))
    <3> HIDE DEF first
    <3>1. IsFiniteSet(first \cup Repeats(c))
      BY <2>7, FS_Union
    <3>2. /\ Cardinality(first \cup Repeats(c))
               = Cardinality(first) + Cardinality(Repeats(c)) - Cardinality(first \cap Repeats(c))
          /\ Cardinality(first \cap Repeats(c)) \in Nat
      BY <2>7, FS_Union, FS_Intersection, FS_CardinalityType
    <3>3. Cardinality(first \cup Repeats(c)) <= Cardinality(first) + Cardinality(Repeats(c))
      BY <2>7, <3>2
    <3>4. Told(c) \subseteq first \cup Repeats(c)
      BY DEF first
    <3> QED
      BY <3>1, <3>3, <3>4, FS_CardinalityType
  <2>11. Cardinality(Told(c)) <= Cardinality(first \cup Repeats(c)) /\ Cardinality(Told(c)) \in Nat
    BY <1>3, <2>10, FS_Subset, ToldFinite DEF ClientsInv
  <2>12. report[c].settled <= Cardinality(Told(c)) /\ report[c].settled \in Nat
    BY <1>3 DEF ReportInv, Counts, Reports, Callers
  <2> HIDE DEF first
  <2> QED
    BY <2>7, <2>8, <2>9, <2>10, <2>11, <2>12
<1> QED
  BY <1>1, <1>2, <1>3, ClientsAlways, PTL DEF Spec
=============================================================================
