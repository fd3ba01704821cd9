--------------------------- MODULE PaymentsProofs ---------------------------
(***************************************************************************)
(* The payment lifecycle, for every number of requests, keys and restarts, *)
(* with and without RPC faults, and whatever vault the payments meet on    *)
(* the chain: its types, the idempotency lock, the ledger, and what an     *)
(* owner who decides on a payment once at a time can rely on.              *)
(***************************************************************************)
EXTENDS Payments, PolicyVaultProofs, FiniteSetTheorems

RowRecords ==
  [status : Statuses, amount : Amounts, recipient : Recipients, context : Contexts,
   signature : Nat]

TxRecords ==
  [id : Ids, op : {"create", "approve", "deny"}, signed : BOOLEAN,
   status : {"sent", "ok", "failed", "expired"}]

Fields == {"pc", "op", "id", "seen", "verdict", "tx", "ok", "log"}

(* Where a request has not submitted anything yet, and may still write.    *)
Unsubmitted == {"fetch", "balance", "fail", "hold", "record_offline", "submit", "deny"}

Finished == {"idle", "done"}
Working(h) == handlers[h].pc \notin Finished

Formed(j) ==
  /\ DOMAIN j = Fields
  /\ j.pc \in Places /\ j.tx \in Nat /\ j.ok \in BOOLEAN
  /\ j.pc \notin Finished => j.id \in Ids /\ j.op \in {"create", "approve", "deny"}

Shapes ==
  /\ rows \in [Ids -> RowRecords \cup {NoRow}]
  /\ txs \in Seq(TxRecords)
  /\ DOMAIN handlers = Requests
  /\ \A h \in Requests : Formed(handlers[h])
  /\ \A h \in Requests : Working(h) => RowOf(h) # NoRow
  /\ \A i \in DOMAIN txs : rows[txs[i].id] # NoRow

(* A creation that may still submit is the only request that can, and      *)
(* nothing was submitted for its key.                                      *)
MaySubmit(h) == handlers[h].op = "create" /\ handlers[h].pc \in {"fetch", "balance", "submit"}
CreateTx(i, id) == txs[i].id = id /\ txs[i].op = "create"

Lock ==
  /\ \A h \in Requests : MaySubmit(h) =>
       \A i \in DOMAIN txs : ~CreateTx(i, handlers[h].id)
  /\ \A g, h \in Requests :
       MaySubmit(g) /\ MaySubmit(h) /\ handlers[g].id = handlers[h].id => g = h
  /\ \A i, k \in DOMAIN txs :
       txs[i].op = "create" /\ txs[k].op = "create" /\ txs[i].id = txs[k].id => i = k

(* What a request learnt about its transaction is so, and so is what the   *)
(* row says of it and what the program logged.                             *)
Paid_(id) == \E i \in DOMAIN txs : txs[i].id = id /\ txs[i].status = "ok"
LoggedAs(row) ==
  \E i \in DOMAIN events : events[i].amount = row.amount /\ events[i].recipient = row.recipient

Ledger ==
  /\ \A h \in Requests :
       At(h, "confirm") => /\ handlers[h].tx \in DOMAIN txs
                           /\ txs[handlers[h].tx].id = handlers[h].id
  /\ \A h \in Requests : At(h, "record") /\ handlers[h].ok => Paid_(handlers[h].id)
  /\ \A id \in Ids : rows[id].status \in {"SETTLED", "APPROVED"} => Paid_(id)
  /\ \A i \in DOMAIN txs : txs[i].status = "ok" => LoggedAs(rows[txs[i].id])
  /\ \E S : events \in Seq(S)

BackendInv == Shapes /\ Lock /\ Ledger

-----------------------------------------------------------------------------
(* The steps of a request, by what they do.                                *)
Keeps(h) ==
  /\ DOMAIN handlers' = Requests
  /\ \A g \in Requests \ {h} : handlers'[g] = handlers[g]
  /\ handlers'[h].op = handlers[h].op /\ handlers'[h].id = handlers[h].id
  /\ Formed(handlers'[h])
  /\ Working(h)

(* It goes on or ends, and its row and the network do not hear of it ...   *)
Moves(h) ==
  /\ Keeps(h)
  /\ UNCHANGED <<rows, txs>>
  /\ handlers'[h].pc \notin {"idle", "confirm", "audit"}
  /\ handlers[h].pc = "record" => DbFaults
  /\ handlers'[h].pc \in Unsubmitted => handlers[h].pc \in Unsubmitted
  /\ handlers'[h].pc \in {"fetch", "balance", "submit"} =>
       handlers[h].pc \in {"fetch", "balance", "submit"}
  /\ handlers[h].pc = "confirm" => handlers'[h].pc = "record"
  /\ handlers'[h].pc = "record" => handlers[h].pc \in {"submit", "confirm"}
  /\ handlers'[h].pc = "record" /\ handlers'[h].ok =>
       handlers[h].pc = "confirm" /\ txs[handlers[h].tx].status = "ok"
  /\ \/ UNCHANGED audit
     \/ /\ handlers[h].pc = "audit" /\ handlers'[h].pc = "done"
        /\ audit' = audit \cup {[id |-> handlers[h].id, action |-> handlers[h].log]}

(* ... or writes its row ...                                               *)
Writes(h) ==
  LET id == handlers[h].id
  IN  /\ Keeps(h)
      /\ UNCHANGED <<txs, audit>>
      /\ rows' \in [Ids -> RowRecords \cup {NoRow}]
      /\ \A k \in Ids \ {id} : rows'[k] = rows[k]
      /\ rows'[id] # NoRow
      /\ rows'[id].amount = rows[id].amount /\ rows'[id].recipient = rows[id].recipient
      /\ handlers[h].pc \in {"fail", "hold", "record_offline", "record", "deny"}
      /\ handlers'[h].pc \in {"done", "audit"}
      /\ rows'[id].status # "CREATED"
      /\ rows'[id].status = "HELD" <=> handlers[h].pc = "hold"
      /\ rows'[id].status = "DENIED" <=> handlers[h].pc = "deny"
      /\ rows'[id].status \in {"SETTLED", "APPROVED"} =>
           handlers[h].pc = "record" /\ handlers[h].ok
      /\ handlers'[h].pc = "audit" =>
           /\ handlers'[h].log = "payment.held" <=> handlers[h].pc = "hold"
           /\ handlers'[h].log \in {"payment.settled", "payment.approved"} =>
                handlers[h].pc = "record" /\ handlers[h].ok

(* ... or submits a transaction.                                           *)
Submits(h) ==
  /\ Keeps(h)
  /\ UNCHANGED <<rows, audit>>
  /\ handlers[h].pc = "submit"
  /\ \E tx \in TxRecords : /\ tx.id = handlers[h].id /\ tx.op = handlers[h].op
                           /\ tx.status = "sent"
                           /\ txs' = Append(txs, tx)
  /\ handlers'[h].pc \in {"confirm", "record"}
  /\ handlers'[h].pc = "confirm" => handlers'[h].tx = Len(txs) + 1
  /\ handlers'[h].pc = "record" => ~handlers'[h].ok

(* A request sets its place and one more field.                            *)
Puts(h, p, field, v) == handlers' = [handlers EXCEPT ![h].pc = p, ![h][field] = v]

(* Setting fields of a request's record changes those and no others.       *)
LEMMA Set1 ==
  ASSUME DOMAIN handlers = Requests, NEW h \in Requests, DOMAIN handlers[h] = Fields, NEW p,
         handlers' = [handlers EXCEPT ![h].pc = p]
  PROVE  /\ DOMAIN handlers' = Requests
         /\ \A g \in Requests \ {h} : handlers'[g] = handlers[g]
         /\ DOMAIN handlers'[h] = Fields /\ handlers'[h].pc = p
         /\ \A f \in Fields \ {"pc"} : handlers'[h][f] = handlers[h][f]
<1>1. handlers'[h] = [handlers[h] EXCEPT !.pc = p] /\ "pc" \in Fields
  BY DEF Fields
<1> QED
  BY <1>1

LEMMA Set2 ==
  ASSUME DOMAIN handlers = Requests, NEW h \in Requests, DOMAIN handlers[h] = Fields, NEW p,
         NEW f2 \in Fields \ {"pc"}, NEW v, Puts(h, p, f2, v)
  PROVE  /\ DOMAIN handlers' = Requests
         /\ \A g \in Requests \ {h} : handlers'[g] = handlers[g]
         /\ DOMAIN handlers'[h] = Fields /\ handlers'[h].pc = p /\ handlers'[h][f2] = v
         /\ \A f \in Fields \ {"pc", f2} : handlers'[h][f] = handlers[h][f]
<1>1. handlers'[h] = [[handlers[h] EXCEPT !.pc = p] EXCEPT ![f2] = v] /\ "pc" \in Fields
  BY DEF Puts, Fields
<1>2. DOMAIN handlers' = Requests /\ \A g \in Requests \ {h} : handlers'[g] = handlers[g]
  BY DEF Puts
<1> QED
  BY <1>1, <1>2

(* Writing a status and a signature keeps the rest of a row.               *)
LEMMA RowWritten ==
  ASSUME Shapes, NEW h \in Requests, Working(h), NEW status \in Statuses, NEW n \in Nat,
         SetRow(h, status, n)
  PROVE  /\ rows' \in [Ids -> RowRecords \cup {NoRow}]
         /\ \A k \in Ids \ {handlers[h].id} : rows'[k] = rows[k]
         /\ rows'[handlers[h].id] # NoRow
         /\ rows'[handlers[h].id].status = status
         /\ rows'[handlers[h].id].amount = RowOf(h).amount
         /\ rows'[handlers[h].id].recipient = RowOf(h).recipient
<1> DEFINE id == handlers[h].id
<1>1. id \in Ids /\ rows[id] \in RowRecords /\ rows \in [Ids -> RowRecords \cup {NoRow}]
  BY DEF Shapes, Formed, Working, RowOf
<1> DEFINE new == [status |-> status, amount |-> rows[id].amount,
                   recipient |-> rows[id].recipient, context |-> rows[id].context,
                   signature |-> n]
<1>2. rows'[id] = new /\ \A k \in Ids \ {id} : rows'[k] = rows[k]
  BY <1>1 DEF SetRow, RowRecords
<1>3. new \in RowRecords
  BY <1>1 DEF RowRecords
<1>4. new # NoRow
  BY DEF Statuses, NoRow
<1>5. DOMAIN rows' = Ids /\ rows' = [k \in Ids |-> rows'[k]]
  BY <1>1 DEF SetRow
<1>6. rows' \in [Ids -> RowRecords \cup {NoRow}]
  BY <1>1, <1>2, <1>3, <1>5
<1> QED
  BY <1>2, <1>4, <1>6 DEF RowOf

(* A request that sets its place, and perhaps another field, keeps the      *)
(* rest of what it remembers.                                              *)
LEMMA KeepsPc ==
  ASSUME Shapes, NEW h \in Requests, Working(h), NEW p \in Places,
         handlers' = [handlers EXCEPT ![h].pc = p]
  PROVE  /\ Keeps(h) /\ handlers'[h].pc = p /\ handlers'[h].log = handlers[h].log
         /\ handlers'[h].ok = handlers[h].ok /\ handlers'[h].tx = handlers[h].tx
<1>1. DOMAIN handlers = Requests /\ Formed(handlers[h]) /\ DOMAIN handlers[h] = Fields
  BY DEF Shapes, Formed
<1>2. /\ DOMAIN handlers' = Requests
      /\ \A g \in Requests \ {h} : handlers'[g] = handlers[g]
      /\ DOMAIN handlers'[h] = Fields /\ handlers'[h].pc = p
      /\ \A f \in Fields \ {"pc"} : handlers'[h][f] = handlers[h][f]
  BY <1>1, Set1
<1>3. /\ handlers'[h].op = handlers[h].op /\ handlers'[h].id = handlers[h].id
      /\ handlers'[h].tx = handlers[h].tx /\ handlers'[h].ok = handlers[h].ok
      /\ handlers'[h].log = handlers[h].log
  BY <1>2 DEF Fields
<1>4. Formed(handlers'[h])
  BY <1>1, <1>2, <1>3 DEF Formed, Working
<1> QED
  BY <1>2, <1>3, <1>4 DEF Keeps

LEMMA KeepsPcAnd ==
  ASSUME Shapes, NEW h \in Requests, Working(h), NEW p \in Places,
         NEW f2 \in {"seen", "verdict", "log", "tx", "ok"}, NEW v,
         f2 = "tx" => v \in Nat, f2 = "ok" => v \in BOOLEAN, Puts(h, p, f2, v)
  PROVE  /\ Keeps(h) /\ handlers'[h].pc = p /\ handlers'[h][f2] = v
         /\ f2 # "ok" => handlers'[h].ok = handlers[h].ok
<1>1. DOMAIN handlers = Requests /\ Formed(handlers[h]) /\ DOMAIN handlers[h] = Fields
  BY DEF Shapes, Formed
<1>2. DOMAIN handlers = Requests /\ DOMAIN handlers[h] = Fields /\ f2 \in Fields \ {"pc"}
  BY <1>1 DEF Fields
<1>3. /\ DOMAIN handlers' = Requests
      /\ \A g \in Requests \ {h} : handlers'[g] = handlers[g]
      /\ DOMAIN handlers'[h] = Fields /\ handlers'[h].pc = p /\ handlers'[h][f2] = v
      /\ \A f \in Fields \ {"pc", f2} : handlers'[h][f] = handlers[h][f]
  BY ONLY <1>2, h \in Requests, Puts(h, p, f2, v), Set2
<1>4. /\ handlers'[h].op = handlers[h].op /\ handlers'[h].id = handlers[h].id
      /\ f2 # "tx" => handlers'[h].tx = handlers[h].tx
      /\ f2 # "ok" => handlers'[h].ok = handlers[h].ok
  BY <1>3 DEF Fields
<1>5. handlers'[h].tx \in Nat /\ handlers'[h].ok \in BOOLEAN
  <2>1. f2 = "tx" => handlers'[h].tx = v
    BY <1>3
  <2>2. f2 = "ok" => handlers'[h].ok = v
    BY <1>3
  <2> QED
    BY <1>1, <1>4, <2>1, <2>2 DEF Formed
<1>6. Formed(handlers'[h])
  BY <1>1, <1>3, <1>4, <1>5 DEF Formed, Working
<1> QED
  BY <1>3, <1>4, <1>6 DEF Keeps

-----------------------------------------------------------------------------
(* Every step of a request is of one of the three kinds.                   *)
LEMMA ReadsMove ==
  ASSUME Shapes, NEW h \in Requests,
         fetchVault(h) \/ preflightFails(h) \/ confirm(h) \/ confirmLost(h) \/ abort(h)
           \/ writeAudit(h)
  PROVE  Moves(h)
<1>1. ASSUME fetchVault(h) PROVE Moves(h)
  <2> DEFINE p == IF Open THEN "balance" ELSE "fail"
  <2>1. /\ handlers[h].pc = "fetch" /\ Working(h)
        /\ Puts(h, p, "seen", vault)
        /\ UNCHANGED <<rows, txs, audit>>
    BY <1>1 DEF Puts, fetchVault, At, Working, Finished
  <2>2. p \in {"balance", "fail"} /\ p \in Places
    BY DEF Places
  <2> HIDE DEF p
  <2>3. Keeps(h) /\ handlers'[h].pc = p
    BY <2>1, <2>2, KeepsPcAnd
  <2> QED
    BY <2>1, <2>2, <2>3 DEF Moves, Unsubmitted
<1>2. ASSUME preflightFails(h) PROVE Moves(h)
  <2> DEFINE ok == FALSE
  <2>1. /\ handlers[h].pc = "submit" /\ Working(h)
        /\ Puts(h, "record", "ok", ok)
        /\ UNCHANGED <<rows, txs, audit>>
    BY <1>2 DEF Puts, preflightFails, At, Working, Finished
  <2>4. ok \in BOOLEAN /\ ~ok
    OBVIOUS
  <2> HIDE DEF ok
  <2>2. "record" \in Places
    BY DEF Places
  <2>3. Keeps(h) /\ handlers'[h].pc = "record" /\ handlers'[h].ok = ok
    BY <2>1, <2>2, <2>4, KeepsPcAnd
  <2> QED
    BY <2>1, <2>3, <2>4 DEF Moves, Unsubmitted
<1>3. ASSUME confirm(h) \/ confirmLost(h) PROVE Moves(h)
  <2>1. PICK ok \in BOOLEAN :
          /\ Puts(h, "record", "ok", ok)
          /\ ok => txs[handlers[h].tx].status = "ok"
    <3>1. CASE confirm(h)
      BY <3>1 DEF Puts, confirm
    <3>2. CASE confirmLost(h)
      BY <3>2 DEF Puts, confirmLost
    <3> QED
      BY <1>3, <3>1, <3>2
  <2>2. handlers[h].pc = "confirm" /\ Working(h) /\ UNCHANGED <<rows, txs, audit>>
    BY <1>3 DEF confirm, confirmLost, At, Working, Finished
  <2>3. "record" \in Places
    BY DEF Places
  <2>4. Keeps(h) /\ handlers'[h].pc = "record" /\ handlers'[h].ok = ok
    BY <2>1, <2>2, <2>3, KeepsPcAnd
  <2> QED
    BY <2>1, <2>2, <2>4 DEF Moves, Unsubmitted
<1>4. ASSUME abort(h) PROVE Moves(h)
  <2>1. /\ Working(h) /\ handlers[h].pc # "confirm"
        /\ handlers[h].pc = "record" => DbFaults
        /\ handlers' = [handlers EXCEPT ![h].pc = "done"]
        /\ UNCHANGED <<rows, txs, audit>>
    BY <1>4 DEF abort, At, Working, Finished, Goto
  <2>2. "done" \in Places
    BY DEF Places
  <2>3. Keeps(h) /\ handlers'[h].pc = "done"
    BY <2>1, <2>2, KeepsPc
  <2> QED
    BY <2>1, <2>3 DEF Moves, Unsubmitted
<1>5. ASSUME writeAudit(h) PROVE Moves(h)
  <2>1. /\ handlers[h].pc = "audit" /\ Working(h)
        /\ handlers' = [handlers EXCEPT ![h].pc = "done"]
        /\ audit' = audit \cup {[id |-> handlers[h].id, action |-> handlers[h].log]}
        /\ UNCHANGED <<rows, txs>>
    BY <1>5 DEF writeAudit, At, Working, Finished, Goto
  <2>2. "done" \in Places
    BY DEF Places
  <2>3. Keeps(h) /\ handlers'[h].pc = "done"
    BY <2>1, <2>2, KeepsPc
  <2> QED
    BY <2>1, <2>3 DEF Moves, Unsubmitted
<1> QED
  BY <1>1, <1>2, <1>3, <1>4, <1>5

LEMMA JudgeMoves ==
  ASSUME Shapes, NEW h \in Requests, judge(h)
  PROVE  Moves(h)
<1>1. /\ handlers[h].pc = "balance" /\ Working(h) /\ UNCHANGED <<rows, txs, audit>>
      /\ DOMAIN handlers = Requests /\ Formed(handlers[h])
  BY DEF judge, At, Working, Finished, Shapes
<1>2. PICK v : handlers' = [handlers EXCEPT ![h].pc = NextPlace(handlers[h].op, v),
                                            ![h].verdict = v, ![h].seen = NoVault]
  BY DEF judge
<1> DEFINE p == NextPlace(handlers[h].op, v)
<1>3. p \in {"hold", "record_offline", "submit"} /\ p \in Places
  BY DEF NextPlace, Places
<1>4. handlers'[h] = [[[handlers[h] EXCEPT !.pc = p] EXCEPT !.verdict = v] EXCEPT !.seen = NoVault]
  BY <1>1, <1>2
<1>5. DOMAIN handlers' = Requests /\ \A g \in Requests \ {h} : handlers'[g] = handlers[g]
  BY <1>1, <1>2
<1> HIDE DEF p
<1>6. DOMAIN handlers[h] = {"pc", "op", "id", "seen", "verdict", "tx", "ok", "log"}
  BY <1>1 DEF Formed, Fields
<1>7. /\ DOMAIN handlers'[h] = Fields /\ handlers'[h].pc = p
      /\ handlers'[h].op = handlers[h].op /\ handlers'[h].id = handlers[h].id
      /\ handlers'[h].tx = handlers[h].tx /\ handlers'[h].ok = handlers[h].ok
  BY <1>4, <1>6 DEF Fields
<1>8. Keeps(h)
  BY <1>1, <1>3, <1>5, <1>7 DEF Keeps, Formed, Finished
<1> QED
  BY <1>1, <1>3, <1>7, <1>8 DEF Moves, Unsubmitted

LEMMA EndsWrite ==
  ASSUME Shapes, NEW h \in Requests, fail(h) \/ recordOffline(h)
  PROVE  Writes(h)
<1>1. PICK status \in {"FAILED", "REVERTED"} : SetRow(h, status, RowOf(h).signature)
  BY DEF fail, recordOffline
<1>2. /\ handlers[h].pc \in {"fail", "record_offline"} /\ Working(h)
      /\ handlers' = [handlers EXCEPT ![h].pc = "done"] /\ UNCHANGED <<txs, audit>>
  BY DEF fail, recordOffline, At, Working, Finished, Goto
<1>3. RowOf(h).signature \in Nat
  BY <1>2 DEF Shapes, Formed, Working, RowOf, RowRecords
<1>4. "done" \in Places /\ status \in Statuses
  BY DEF Places, Statuses
<1>5. Keeps(h) /\ handlers'[h].pc = "done"
  BY <1>2, <1>4, KeepsPc
<1> QED
  BY <1>1, <1>2, <1>3, <1>4, <1>5, RowWritten DEF Writes, RowOf

LEMMA HoldWrites ==
  ASSUME Shapes, NEW h \in Requests, hold(h) \/ deny(h)
  PROVE  Writes(h)
<1>1. PICK status \in {"HELD", "DENIED"}, log \in {"payment.held", "payment.denied"} :
        /\ SetRow(h, status, RowOf(h).signature)
        /\ Puts(h, "audit", "log", log)
        /\ handlers[h].pc \in {"hold", "deny"}
        /\ status = "HELD" <=> handlers[h].pc = "hold"
        /\ log = "payment.held" <=> handlers[h].pc = "hold"
  BY DEF Puts, hold, deny, At
<1>2. Working(h) /\ UNCHANGED <<txs, audit>>
  BY DEF hold, deny, At, Working, Finished
<1>3. RowOf(h).signature \in Nat
  BY <1>2 DEF Shapes, Formed, Working, RowOf, RowRecords
<1>4. "audit" \in Places /\ status \in Statuses
  BY DEF Places, Statuses
<1>5. Keeps(h) /\ handlers'[h].pc = "audit" /\ handlers'[h].log = log
  BY <1>1, <1>2, <1>4, KeepsPcAnd
<1> QED
  BY <1>1, <1>2, <1>3, <1>4, <1>5, RowWritten DEF Writes, RowOf

LEMMA RecordWrites ==
  ASSUME Shapes, NEW h \in Requests, record(h)
  PROVE  Writes(h)
<1> DEFINE p == IF Logged(h) THEN "audit" ELSE "done"
<1>1. /\ SetRow(h, Outcome(h), handlers[h].tx) /\ handlers[h].pc = "record"
      /\ Puts(h, p, "log", OutcomeLog(h))
      /\ Working(h) /\ UNCHANGED <<txs, audit>>
  BY DEF Puts, record, At, Working, Finished
<1>2. handlers[h].tx \in Nat /\ p \in {"audit", "done"} /\ p \in Places
  BY DEF Shapes, Formed, Places
<1>3. /\ Outcome(h) \in {"REVERTED", "SETTLED", "APPROVED"} /\ Outcome(h) \in Statuses
      /\ Outcome(h) # "REVERTED" => handlers[h].ok
  BY <1>1 DEF Outcome, Statuses, Shapes, Formed, Working
<1>4. /\ OutcomeLog(h) # "payment.held"
      /\ OutcomeLog(h) \in {"payment.settled", "payment.approved"} => Outcome(h) # "REVERTED"
  BY <1>3 DEF OutcomeLog
<1> HIDE DEF p
<1>5. Keeps(h) /\ handlers'[h].pc = p /\ handlers'[h].log = OutcomeLog(h)
  BY <1>1, <1>2, KeepsPcAnd
<1> QED
  BY <1>1, <1>2, <1>3, <1>4, <1>5, RowWritten DEF Writes, RowOf

LEMMA SendsSubmit ==
  ASSUME Shapes, NEW h \in Requests, submit(h) \/ sendLost(h)
  PROVE  Moves(h) \/ Submits(h)
<1>1. /\ handlers[h].pc = "submit" /\ Working(h) /\ UNCHANGED <<rows, audit>>
      /\ handlers[h].id \in Ids /\ handlers[h].op \in {"create", "approve", "deny"}
  BY DEF submit, sendLost, At, Working, Finished, Shapes, Formed
<1>2. ASSUME Sent(h)
      PROVE  \E tx \in TxRecords : /\ tx.id = handlers[h].id /\ tx.op = handlers[h].op
                                   /\ tx.status = "sent"
                                   /\ txs' = Append(txs, tx)
  <2> DEFINE tx == [id |-> handlers[h].id, op |-> handlers[h].op,
                    signed |-> Cosigned(h), status |-> "sent"]
  <2>1. Cosigned(h) \in BOOLEAN
    BY DEF Cosigned
  <2>2. tx \in TxRecords
    BY <1>1, <2>1 DEF TxRecords
  <2> QED
    BY <1>2, <2>2 DEF Sent
<1>3. "record" \in Places /\ "confirm" \in Places
  BY DEF Places
<1>4. CASE submit(h)
  <2>1. Sent(h) /\ Puts(h, "confirm", "tx", Len(txs) + 1)
    BY <1>4 DEF Puts, submit
  <2>3. Len(txs) + 1 \in Nat
    BY DEF Shapes
  <2>2. Keeps(h) /\ handlers'[h].pc = "confirm" /\ handlers'[h].tx = Len(txs) + 1
    BY <1>1, <1>3, <2>1, <2>3, KeepsPcAnd
  <2> QED
    BY <1>1, <1>2, <2>1, <2>2 DEF Submits
<1>5. CASE sendLost(h)
  <2> DEFINE ok == FALSE
  <2>1. /\ Puts(h, "record", "ok", ok)
        /\ UNCHANGED txs \/ Sent(h)
    BY <1>5 DEF Puts, sendLost
  <2>5. ok \in BOOLEAN /\ ~ok
    OBVIOUS
  <2> HIDE DEF ok
  <2>2. Keeps(h) /\ handlers'[h].pc = "record" /\ handlers'[h].ok = ok
    BY <1>1, <1>3, <2>1, <2>5, KeepsPcAnd
  <2>3. CASE UNCHANGED txs
    BY <1>1, <2>2, <2>3, <2>5 DEF Moves, Unsubmitted
  <2>4. CASE Sent(h)
    BY <1>1, <1>2, <2>2, <2>4, <2>5 DEF Submits
  <2> QED
    BY <2>1, <2>3, <2>4
<1> QED
  BY <1>4, <1>5

LEMMA StepKinds ==
  ASSUME Shapes, NEW h \in Requests, HandlerStep(h)
  PROVE  Moves(h) \/ Writes(h) \/ Submits(h)
<1> QED
  BY ReadsMove, JudgeMoves, EndsWrite, HoldWrites, RecordWrites, SendsSubmit DEF HandlerStep

-----------------------------------------------------------------------------
(* The other steps.                                                        *)

(* A request arrives: it remembers its kind and its key, nothing else.     *)
LEMMA Begins ==
  ASSUME Shapes, NEW h \in Requests, NEW op \in {"create", "approve", "deny"}, NEW id \in Ids,
         NEW place \in Places, Begin(h, op, id, place)
  PROVE  /\ DOMAIN handlers' = Requests
         /\ \A g \in Requests \ {h} : handlers'[g] = handlers[g]
         /\ Formed(handlers'[h])
         /\ handlers'[h].pc = place /\ handlers'[h].op = op /\ handlers'[h].id = id
<1> DEFINE j == Handler(place, op, id)
<1>1. DOMAIN handlers = Requests
  BY DEF Shapes
<1>2. handlers' = [handlers EXCEPT ![h] = j]
  BY DEF Begin
<1>3. Formed(j)
  BY DEF Formed, Fields, Handler
<1>4. j.pc = place /\ j.op = op /\ j.id = id
  BY DEF Handler
<1> HIDE DEF j
<1> QED
  BY <1>1, <1>2, <1>3, <1>4

(* A submitted transaction meets its end: its status changes, no other's.  *)
Resolves(i, status) ==
  /\ i \in DOMAIN txs /\ txs[i].status = "sent"
  /\ txs' \in Seq(TxRecords) /\ DOMAIN txs' = DOMAIN txs
  /\ \A k \in DOMAIN txs : txs'[k].id = txs[k].id /\ txs'[k].op = txs[k].op
  /\ \A k \in DOMAIN txs \ {i} : txs'[k].status = txs[k].status
  /\ txs'[i].status = status

LEMMA TxResolves ==
  ASSUME Shapes, NEW i \in DOMAIN txs, txs[i].status = "sent",
         NEW status \in {"ok", "failed", "expired"}, SetTx(i, status)
  PROVE  Resolves(i, status)
<1> DEFINE new == [id |-> txs[i].id, op |-> txs[i].op, signed |-> txs[i].signed,
                   status |-> status]
<1>1. txs \in Seq(TxRecords) /\ txs[i] \in TxRecords
  BY DEF Shapes
<1>2. [txs[i] EXCEPT !.status = status] = new /\ new \in TxRecords
  BY <1>1 DEF TxRecords
<1>3. txs' = [txs EXCEPT ![i] = new]
  BY <1>2 DEF SetTx
<1>4. new.id = txs[i].id /\ new.op = txs[i].op /\ new.status = status
  OBVIOUS
<1> HIDE DEF new
<1>5. txs' \in Seq(TxRecords)
  BY <1>1, <1>2, <1>3
<1> QED
  BY <1>1, <1>3, <1>4, <1>5 DEF Resolves

LEMMA ChainQuiet ==
  ASSUME OwnerStep \/ WorldStep
  PROVE  events' = events
<1>1. ASSUME OwnerStep PROVE events' = events
  BY <1>1 DEF OwnerStep, initialize_vault, set_policy, set_delegate, set_delegate_active,
              manage_allowlist, manage_blocklist, reset_window, withdraw_sol, withdraw_spl,
              close_vault_sol, close_vault_spl, sweep_token, Rewrite
<1>2. ASSUME WorldStep PROVE events' = events
  BY <1>2 DEF WorldStep, deposit_sol, deposit_spl, send_tokens, send_lamports, tick
<1> QED
  BY <1>1, <1>2

(* What a payment adds to the log of the program.                          *)
LEMMA SettleLogs ==
  ASSUME NEW S, events \in Seq(S), NEW asset, NEW recipient, NEW amount, NEW signed, NEW c,
         Settle(asset, AgentKey, recipient, amount, signed, c)
  PROVE  /\ \E T : events' \in Seq(T)
         /\ DOMAIN events \subseteq DOMAIN events'
         /\ \A i \in DOMAIN events : events'[i] = events[i]
         /\ \E i \in DOMAIN events' : /\ events'[i].amount = amount
                                     /\ events'[i].recipient = recipient
<1> DEFINE e == [mint |-> asset, recipient |-> recipient, amount |-> amount,
                 context_hash |-> c, payment_count |-> vault.payment_count + 1, ts |-> now]
<1>1. events' = Append(events, e)
  BY DEF Settle
<1>2. e.amount = amount /\ e.recipient = recipient
  OBVIOUS
<1> HIDE DEF e
<1>3. events \in Seq(S \cup {e}) /\ e \in S \cup {e}
  OBVIOUS
<1>4. events' \in Seq(S \cup {e})
  BY <1>1, <1>3
<1>5. /\ DOMAIN events = 1 .. Len(events) /\ DOMAIN events' = 1 .. (Len(events) + 1)
      /\ Len(events) \in Nat
      /\ \A i \in 1 .. Len(events) : events'[i] = events[i]
      /\ events'[Len(events) + 1] = e
  BY <1>1, <1>3
<1>6. Len(events) + 1 \in DOMAIN events' /\ DOMAIN events \subseteq DOMAIN events'
  BY <1>5
<1> QED
  BY <1>2, <1>4, <1>5, <1>6

LEMMA LandKinds ==
  ASSUME Shapes, Ledger, NEW i \in DOMAIN txs, land(i)
  PROVE  /\ UNCHANGED <<rows, handlers, audit>>
         /\ \E S : events' \in Seq(S)
         /\ DOMAIN events \subseteq DOMAIN events'
         /\ \A k \in DOMAIN events : events'[k] = events[k]
         /\ \/ Resolves(i, "ok") /\ LoggedAs(rows[txs[i].id])'
            \/ Resolves(i, "failed")
<1> DEFINE row == rows[txs[i].id]
           accepted == Accepts(VaultMint, AgentKey, row.recipient, row.amount, txs[i].signed)
<1>1. UNCHANGED <<rows, handlers, audit>> /\ txs[i].status = "sent"
  BY DEF land
<1>2. PICK S : events \in Seq(S)
  BY DEF Ledger
<1>3. txs[i] \in TxRecords
  BY DEF Shapes
<1>4. CASE accepted
  <2>1. /\ Settle(VaultMint, AgentKey, row.recipient, row.amount, txs[i].signed, row.context)
        /\ SetTx(i, "ok")
    BY <1>4 DEF land
  <2>2. Resolves(i, "ok")
    BY <1>1, <2>1, TxResolves
  <2>3. rows'[txs'[i].id] = row /\ row' = row
    BY <1>1, <2>2 DEF Resolves
  <2>4. /\ \E T : events' \in Seq(T)
        /\ DOMAIN events \subseteq DOMAIN events'
        /\ \A k \in DOMAIN events : events'[k] = events[k]
        /\ \E k \in DOMAIN events' : /\ events'[k].amount = row.amount
                                    /\ events'[k].recipient = row.recipient
    BY <1>2, <2>1, SettleLogs
  <2> QED
    BY <1>1, <2>2, <2>3, <2>4 DEF LoggedAs
<1>5. CASE ~accepted
  <2>1. UNCHANGED chain /\ SetTx(i, "failed")
    BY <1>5 DEF land
  <2>2. Resolves(i, "failed") /\ events' = events
    BY <1>1, <2>1, TxResolves DEF chain
  <2> QED
    BY <1>1, <1>2, <2>2
<1> QED
  BY <1>4, <1>5

-----------------------------------------------------------------------------
(* The invariant holds at the start and is kept by each kind of step.      *)
THEOREM InitBackend == PaymentsInit => BackendInv
<1> SUFFICES ASSUME PaymentsInit PROVE BackendInv
  OBVIOUS
<1>1. /\ rows = [id \in Ids |-> NoRow] /\ handlers = [h \in Requests |-> Idle]
      /\ txs = <<>> /\ events = <<>>
  BY DEF PaymentsInit
<1>2. Formed(Idle) /\ Idle.pc = "idle"
  BY DEF Formed, Idle, Handler, Fields, Places, Finished
<1>3. Shapes
  BY <1>1, <1>2 DEF Shapes, Working, Finished
<1>4. Lock
  BY <1>1, <1>2 DEF Lock, MaySubmit, CreateTx
<1>5. Ledger
  <2>1. events \in Seq({})
    BY <1>1
  <2>2. \A id \in Ids : rows[id].status = "NONE"
    BY <1>1 DEF NoRow
  <2> QED
    BY <1>1, <1>2, <2>1, <2>2 DEF Ledger, At
<1> QED
  BY <1>3, <1>4, <1>5 DEF BackendInv

LEMMA MovesBackend ==
  ASSUME BackendInv, NEW h \in Requests, Moves(h), UNCHANGED events
  PROVE  BackendInv'
<1>1. Shapes /\ Lock /\ Ledger /\ Keeps(h) /\ rows' = rows /\ txs' = txs /\ events' = events
  BY DEF BackendInv, Moves
<1>2. Shapes'
  BY <1>1 DEF Shapes, Keeps, RowOf, Working
<1>3. ASSUME NEW g \in Requests, MaySubmit(g)'
      PROVE  MaySubmit(g) /\ handlers'[g].id = handlers[g].id
  BY <1>1, <1>3 DEF MaySubmit, Keeps, Moves
<1>4. Lock'
  BY <1>1, <1>3 DEF Lock, CreateTx
<1>5. Ledger'
  <2>1. ASSUME NEW g \in Requests, At(g, "confirm")'
        PROVE  handlers'[g] = handlers[g]
    BY <1>1, <2>1 DEF At, Keeps, Moves
  <2>2. ASSUME NEW g \in Requests, At(g, "record")', handlers'[g].ok
        PROVE  Paid_(handlers[g].id) /\ handlers'[g].id = handlers[g].id
    <3>1. CASE g = h
      BY <1>1, <2>2, <3>1 DEF At, Keeps, Moves, Ledger, Paid_
    <3>2. CASE g # h
      BY <1>1, <2>2, <3>2 DEF At, Keeps, Ledger, Paid_
    <3> QED
      BY <3>1, <3>2
  <2> QED
    BY <1>1, <2>1, <2>2 DEF Ledger, At, Paid_, LoggedAs
<1> QED
  BY <1>2, <1>4, <1>5 DEF BackendInv

LEMMA WritesBackend ==
  ASSUME BackendInv, NEW h \in Requests, Writes(h), UNCHANGED events
  PROVE  BackendInv'
<1> DEFINE id == handlers[h].id
<1>1. /\ Shapes /\ Lock /\ Ledger /\ Keeps(h) /\ txs' = txs /\ events' = events
      /\ rows' \in [Ids -> RowRecords \cup {NoRow}]
      /\ \A k \in Ids \ {id} : rows'[k] = rows[k]
      /\ rows'[id] # NoRow
      /\ rows'[id].amount = rows[id].amount /\ rows'[id].recipient = rows[id].recipient
      /\ handlers'[h].pc \in {"done", "audit"}
      /\ rows'[id].status \in {"SETTLED", "APPROVED"} => At(h, "record") /\ handlers[h].ok
  BY DEF BackendInv, Writes, At
<1>2. id \in Ids /\ \A i \in DOMAIN txs : txs[i].id \in Ids
  <2>1. id \in Ids
    BY <1>1 DEF Shapes, Keeps, Formed, Working
  <2>2. \A i \in DOMAIN txs : txs[i].id \in Ids
    <3>1. \A i \in DOMAIN txs : txs[i] \in TxRecords
      BY <1>1 DEF Shapes
    <3> QED
      BY <3>1 DEF TxRecords
  <2> QED
    BY <2>1, <2>2
<1> HIDE DEF id
<1>3. \A k \in Ids : rows[k] # NoRow => rows'[k] # NoRow
  BY <1>1
<1>4. Shapes'
  <2>1. ASSUME NEW g \in Requests, Working(g)'
        PROVE  RowOf(g)' # NoRow
    <3>1. Working(g) /\ handlers'[g].id = handlers[g].id /\ handlers[g].id \in Ids
      BY <1>1, <2>1 DEF Keeps, Working, Shapes, Formed
    <3> QED
      BY <1>1, <1>3, <3>1 DEF Shapes, RowOf
  <2>2. \A i \in DOMAIN txs : rows'[txs[i].id] # NoRow
    BY <1>1, <1>2, <1>3 DEF Shapes
  <2> QED
    BY <1>1, <2>1, <2>2 DEF Shapes, Keeps
<1>5. ASSUME NEW g \in Requests, MaySubmit(g)'
      PROVE  MaySubmit(g) /\ handlers'[g].id = handlers[g].id
  BY <1>1, <1>5 DEF MaySubmit, Keeps
<1>6. Lock'
  BY <1>1, <1>5 DEF Lock, CreateTx
<1>7. Ledger'
  <2>1. ASSUME NEW g \in Requests, At(g, "confirm")' \/ At(g, "record")'
        PROVE  handlers'[g] = handlers[g]
    BY <1>1, <2>1 DEF At, Keeps
  <2>2. ASSUME NEW k \in Ids, rows'[k].status \in {"SETTLED", "APPROVED"} PROVE Paid_(k)
    <3>1. CASE k = id
      BY <1>1, <2>2, <3>1 DEF Ledger, id
    <3>2. CASE k # id
      BY <1>1, <2>2, <3>2 DEF Ledger
    <3> QED
      BY <3>1, <3>2
  <2>3. ASSUME NEW i \in DOMAIN txs, txs[i].status = "ok" PROVE LoggedAs(rows'[txs[i].id])
    <3>1. LoggedAs(rows[txs[i].id])
      BY <1>1, <2>3 DEF Ledger
    <3>2. /\ rows'[txs[i].id].amount = rows[txs[i].id].amount
          /\ rows'[txs[i].id].recipient = rows[txs[i].id].recipient
      BY <1>1, <1>2
    <3> QED
      BY <3>1, <3>2 DEF LoggedAs
  <2> QED
    BY <1>1, <2>1, <2>2, <2>3 DEF Ledger, At, Paid_, LoggedAs
<1> QED
  BY <1>4, <1>6, <1>7 DEF BackendInv

(* What appending a transaction does to the list of them.                  *)
LEMMA TxAppended ==
  ASSUME Shapes, NEW tx \in TxRecords, txs' = Append(txs, tx)
  PROVE  /\ txs' \in Seq(TxRecords)
         /\ Len(txs) \in Nat
         /\ DOMAIN txs = 1 .. Len(txs) /\ DOMAIN txs' = 1 .. (Len(txs) + 1)
         /\ DOMAIN txs' = DOMAIN txs \cup {Len(txs) + 1} /\ Len(txs) + 1 \notin DOMAIN txs
         /\ \A i \in DOMAIN txs : txs'[i] = txs[i]
         /\ txs'[Len(txs) + 1] = tx
<1>1. txs \in Seq(TxRecords)
  BY DEF Shapes
<1> QED
  BY <1>1

LEMMA SubmitsBackend ==
  ASSUME BackendInv, NEW h \in Requests, Submits(h), UNCHANGED events
  PROVE  BackendInv'
<1>1. /\ Shapes /\ Lock /\ Ledger /\ Keeps(h) /\ rows' = rows /\ events' = events
      /\ handlers[h].pc = "submit"
      /\ handlers'[h].pc \in {"confirm", "record"}
      /\ handlers'[h].pc = "confirm" => handlers'[h].tx = Len(txs) + 1
      /\ handlers'[h].pc = "record" => ~handlers'[h].ok
  BY DEF BackendInv, Submits
<1>2. PICK tx \in TxRecords : /\ tx.id = handlers[h].id /\ tx.op = handlers[h].op
                             /\ tx.status = "sent"
                             /\ txs' = Append(txs, tx)
  BY DEF Submits
<1> DEFINE n == Len(txs) + 1
<1>3. /\ txs' \in Seq(TxRecords)
      /\ DOMAIN txs' = DOMAIN txs \cup {n} /\ n \notin DOMAIN txs
      /\ \A i \in DOMAIN txs : txs'[i] = txs[i]
      /\ txs'[n] = tx
  BY <1>1, <1>2, TxAppended
<1> HIDE DEF n
<1>4. Shapes'
  <2>1. \A i \in DOMAIN txs' : rows'[txs'[i].id] # NoRow
    BY <1>1, <1>2, <1>3 DEF Shapes, RowOf, Working, Keeps
  <2> QED
    BY <1>1, <1>3, <2>1 DEF Shapes, Keeps, RowOf, Working
<1>5. ASSUME NEW g \in Requests, MaySubmit(g)'
      PROVE  MaySubmit(g) /\ handlers'[g].id = handlers[g].id /\ g # h
  BY <1>1, <1>5 DEF MaySubmit, Keeps
<1>6. tx.op = "create" => MaySubmit(h)
  BY <1>1, <1>2 DEF MaySubmit
<1>7. Lock'
  <2>1. ASSUME NEW g \in Requests, MaySubmit(g)', NEW i \in DOMAIN txs'
        PROVE  ~CreateTx(i, handlers[g].id)'
    <3>1. CASE i \in DOMAIN txs
      BY <1>1, <1>3, <1>5, <2>1, <3>1 DEF Lock, CreateTx
    <3>2. CASE i = n
      BY <1>1, <1>2, <1>3, <1>5, <1>6, <2>1, <3>2 DEF Lock, CreateTx
    <3> QED
      BY <1>3, <3>1, <3>2
  <2>2. ASSUME NEW i \in DOMAIN txs, tx.op = "create", txs[i].op = "create"
        PROVE  txs[i].id # tx.id
    BY <1>1, <1>2, <1>6, <2>2 DEF Lock, CreateTx
  <2>3. \A i, k \in DOMAIN txs' :
          txs'[i].op = "create" /\ txs'[k].op = "create" /\ txs'[i].id = txs'[k].id => i = k
    BY <1>1, <1>3, <2>2 DEF Lock
  <2> QED
    BY <1>1, <1>5, <2>1, <2>3 DEF Lock
<1>8. Ledger'
  <2>1. \A k : Paid_(k) => Paid_(k)'
    BY <1>3 DEF Paid_
  <2>2. ASSUME NEW g \in Requests, At(g, "confirm")'
        PROVE  handlers'[g].tx \in DOMAIN txs' /\ txs'[handlers'[g].tx].id = handlers'[g].id
    <3>1. CASE g = h
      BY <1>1, <1>2, <1>3, <2>2, <3>1 DEF At, Keeps, n
    <3>2. CASE g # h
      BY <1>1, <1>3, <2>2, <3>2 DEF At, Keeps, Ledger
    <3> QED
      BY <3>1, <3>2
  <2>3. ASSUME NEW g \in Requests, At(g, "record")', handlers'[g].ok
        PROVE  g # h
    BY <1>1, <2>3 DEF At
  <2>4. ASSUME NEW g \in Requests, At(g, "record")', handlers'[g].ok
        PROVE  Paid_(handlers[g].id)'
    <3>1. handlers'[g] = handlers[g]
      BY <1>1, <2>3, <2>4 DEF Keeps
    <3>2. Paid_(handlers[g].id)
      BY <1>1, <2>4, <3>1 DEF Ledger, At
    <3> QED
      BY <1>3, <3>1, <3>2 DEF Paid_
  <2>5. \A k \in Ids : rows'[k].status \in {"SETTLED", "APPROVED"} => Paid_(k)'
    BY <1>1, <2>1 DEF Ledger
  <2>6. ASSUME NEW i \in DOMAIN txs', txs'[i].status = "ok"
        PROVE  LoggedAs(rows[txs[i].id])'
    BY <1>1, <1>2, <1>3, <2>6, SMTT(40) DEF Ledger, LoggedAs
  <2> QED
    BY <1>1, <2>2, <2>4, <2>5, <2>6 DEF Ledger, At
<1> QED
  BY <1>4, <1>7, <1>8 DEF BackendInv

LEMMA CreateBackend ==
  ASSUME BackendInv, NEW h \in Requests, NEW id \in Ids, NEW amount \in Amounts,
         NEW r \in Recipients, NEW c \in Contexts, create(h, id, amount, r, c), UNCHANGED events
  PROVE  BackendInv'
<1>1. /\ Shapes /\ Lock /\ Ledger /\ UNCHANGED <<txs, audit, events>> /\ At(h, "idle")
  BY DEF BackendInv, create
<1>2. "fetch" \in Places /\ "done" \in Places
  BY DEF Places
<1>3. CASE rows[id] # NoRow
  <2>1. Begin(h, "create", id, "done") /\ rows' = rows
    BY <1>3 DEF create
  <2>2. /\ DOMAIN handlers' = Requests
        /\ \A g \in Requests \ {h} : handlers'[g] = handlers[g]
        /\ Formed(handlers'[h]) /\ handlers'[h].pc = "done"
    BY <1>1, <1>2, <2>1, Begins
  <2>3. Shapes'
    BY <1>1, <2>1, <2>2 DEF Shapes, RowOf, Working, Finished
  <2>4. Lock'
    BY <1>1, <2>2 DEF Lock, MaySubmit, CreateTx
  <2>5. Ledger'
    BY <1>1, <2>1, <2>2 DEF Ledger, At, Paid_, LoggedAs
  <2> QED
    BY <2>3, <2>4, <2>5 DEF BackendInv
<1>4. CASE rows[id] = NoRow
  <2> DEFINE new == [status |-> "CREATED", amount |-> amount, signature |-> 0,
                     recipient |-> r, context |-> c]
  <2>1. Begin(h, "create", id, "fetch") /\ rows' = [rows EXCEPT ![id] = new]
    BY <1>4 DEF create
  <2>2. new \in RowRecords /\ new # NoRow /\ new.status = "CREATED"
    BY DEF RowRecords, Statuses, NoRow
  <2> HIDE DEF new
  <2>3. /\ DOMAIN handlers' = Requests
        /\ \A g \in Requests \ {h} : handlers'[g] = handlers[g]
        /\ Formed(handlers'[h]) /\ handlers'[h].pc = "fetch"
        /\ handlers'[h].op = "create" /\ handlers'[h].id = id
    BY <1>1, <1>2, <2>1, Begins
  <2>4. /\ rows' \in [Ids -> RowRecords \cup {NoRow}] /\ rows'[id] = new
        /\ \A k \in Ids \ {id} : rows'[k] = rows[k]
    BY <1>1, <2>1, <2>2 DEF Shapes
  <2>5. \A i \in DOMAIN txs : txs[i].id \in Ids /\ txs[i].id # id
    <3>1. \A i \in DOMAIN txs : txs[i] \in TxRecords
      BY <1>1 DEF Shapes
    <3> QED
      BY <1>1, <1>4, <3>1 DEF Shapes, TxRecords
  <2>6. \A g \in Requests : Working(g) => handlers[g].id # id
    BY <1>1, <1>4 DEF Shapes, RowOf
  <2>7. Shapes'
    <3>1. ASSUME NEW g \in Requests, Working(g)' PROVE RowOf(g)' # NoRow
      <4>1. CASE g = h
        BY <2>2, <2>3, <2>4, <4>1 DEF RowOf
      <4>2. CASE g # h
        <5>1. Working(g) /\ handlers'[g] = handlers[g] /\ handlers[g].id \in Ids
          BY <1>1, <2>3, <3>1, <4>2 DEF Working, Shapes, Formed
        <5> QED
          BY <1>1, <2>4, <2>6, <5>1 DEF Shapes, RowOf
      <4> QED
        BY <4>1, <4>2
    <3>2. \A i \in DOMAIN txs : rows'[txs[i].id] # NoRow
      BY <1>1, <2>4, <2>5 DEF Shapes
    <3> QED
      BY <1>1, <2>3, <2>4, <3>1, <3>2 DEF Shapes
  <2>8. Lock'
    <3>1. ASSUME NEW g \in Requests, MaySubmit(g)', g # h
          PROVE  MaySubmit(g) /\ handlers'[g] = handlers[g] /\ handlers[g].id # id
      BY <2>3, <2>6, <3>1 DEF MaySubmit, Working, Finished
    <3> QED
      BY <1>1, <2>3, <2>5, <3>1 DEF Lock, CreateTx
  <2>9. Ledger'
    <3>1. ASSUME NEW g \in Requests, At(g, "confirm")' \/ At(g, "record")'
          PROVE  handlers'[g] = handlers[g]
      BY <2>3, <3>1 DEF At
    <3>2. \A k \in Ids : rows'[k].status \in {"SETTLED", "APPROVED"} => Paid_(k)
      BY <1>1, <2>2, <2>4 DEF Ledger
    <3>3. ASSUME NEW i \in DOMAIN txs, txs[i].status = "ok" PROVE LoggedAs(rows[txs[i].id])'
      BY <1>1, <2>4, <2>5, <3>3 DEF Ledger, LoggedAs
    <3> QED
      BY <1>1, <3>1, <3>2, <3>3 DEF Ledger, At, Paid_
  <2> QED
    BY <2>7, <2>8, <2>9 DEF BackendInv
<1> QED
  BY <1>3, <1>4

LEMMA DecideBackend ==
  ASSUME BackendInv, NEW h \in Requests, NEW id \in Ids, NEW op \in {"approve", "deny"},
         decide(h, op, id), UNCHANGED events
  PROVE  BackendInv'
<1>1. /\ Shapes /\ Lock /\ Ledger /\ UNCHANGED <<rows, txs, audit, events>> /\ rows[id] # NoRow
  BY DEF BackendInv, decide
<1> DEFINE place == IF rows[id].status # "HELD" THEN "done"
                    ELSE IF op = "deny" THEN "deny" ELSE "fetch"
<1>2. Begin(h, op, id, place) /\ place \in {"done", "deny", "fetch"} /\ place \in Places
  BY DEF decide, Places
<1> HIDE DEF place
<1>3. /\ DOMAIN handlers' = Requests
      /\ \A g \in Requests \ {h} : handlers'[g] = handlers[g]
      /\ Formed(handlers'[h]) /\ handlers'[h].pc = place
      /\ handlers'[h].op = op /\ handlers'[h].id = id
  BY <1>1, <1>2, Begins
<1>4. Shapes'
  BY <1>1, <1>3 DEF Shapes, RowOf, Working
<1>5. Lock'
  BY <1>1, <1>3 DEF Lock, MaySubmit, CreateTx
<1>6. Ledger'
  BY <1>1, <1>2, <1>3 DEF Ledger, At, Paid_, LoggedAs
<1> QED
  BY <1>4, <1>5, <1>6 DEF BackendInv

LEMMA TxBackend ==
  ASSUME BackendInv, NEW i \in DOMAIN txs, TxStep(i)
  PROVE  BackendInv'
<1>1. Shapes /\ Lock /\ Ledger
  BY DEF BackendInv
<1>2. /\ UNCHANGED <<rows, handlers>>
      /\ \E S : events' \in Seq(S)
      /\ DOMAIN events \subseteq DOMAIN events'
      /\ \A k \in DOMAIN events : events'[k] = events[k]
      /\ \/ Resolves(i, "ok") /\ LoggedAs(rows[txs[i].id])'
         \/ Resolves(i, "failed")
         \/ Resolves(i, "expired")
  <2>1. CASE land(i)
    BY <1>1, <2>1, LandKinds
  <2>2. CASE expire(i)
    <3>1. UNCHANGED <<rows, handlers, events>> /\ Resolves(i, "expired")
      BY <1>1, <2>2, TxResolves DEF expire, chain
    <3> QED
      BY <1>1, <3>1 DEF Ledger
  <2> QED
    BY <2>1, <2>2 DEF TxStep
<1>3. PICK status : Resolves(i, status) /\ (status = "ok" => LoggedAs(rows[txs[i].id])')
  BY <1>2
<1>4. Shapes'
  BY <1>1, <1>2, <1>3 DEF Shapes, Resolves, Working, RowOf
<1>5. Lock'
  BY <1>1, <1>2, <1>3, SMTT(40) DEF Lock, MaySubmit, CreateTx, Resolves
<1>6. Ledger'
  <2>1. \A k : Paid_(k) => Paid_(k)'
    BY <1>3 DEF Paid_, Resolves
  <2>2. \A row : LoggedAs(row) => \E k \in DOMAIN events' : /\ events'[k].amount = row.amount
                                                          /\ events'[k].recipient = row.recipient
    BY <1>2 DEF LoggedAs
  <2>3. ASSUME NEW k \in DOMAIN txs', txs'[k].status = "ok" PROVE LoggedAs(rows[txs[k].id])'
    <3>1. CASE k = i
      BY <1>3, <2>3, <3>1 DEF Resolves
    <3>2. CASE k # i
      <4>1. LoggedAs(rows[txs[k].id]) /\ txs'[k].id = txs[k].id
        BY <1>1, <1>3, <2>3, <3>2 DEF Resolves, Ledger
      <4> QED
        BY <1>2, <2>2, <4>1 DEF LoggedAs
    <3> QED
      BY <3>1, <3>2
  <2> QED
    BY <1>1, <1>2, <1>3, <2>1, <2>3 DEF Ledger, At, Resolves
<1> QED
  BY <1>4, <1>5, <1>6 DEF BackendInv

(* A restart leaves requests that have not come, and finished ones.        *)
LEMMA CrashClears ==
  ASSUME Shapes, crash
  PROVE  /\ UNCHANGED <<rows, txs, audit, events>>
         /\ DOMAIN handlers' = Requests
         /\ \A h \in Requests : /\ Formed(handlers'[h])
                               /\ ~Working(h)'
<1>1. /\ handlers' = [h \in Requests |-> IF At(h, "idle") THEN Idle
                                        ELSE [handlers[h] EXCEPT !.pc = "done"]]
      /\ UNCHANGED <<rows, txs, audit, events>>
  BY DEF crash, chain
<1>2. Formed(Idle) /\ Idle.pc = "idle"
  BY DEF Formed, Idle, Handler, Fields, Places, Finished
<1>3. ASSUME NEW h \in Requests
      PROVE  Formed(handlers'[h]) /\ handlers'[h].pc \in {"idle", "done"}
  <2>1. CASE At(h, "idle")
    BY <1>1, <1>2, <2>1
  <2>2. CASE ~At(h, "idle")
    <3> DEFINE j == [handlers[h] EXCEPT !.pc = "done"]
    <3>1. Formed(handlers[h])
      BY DEF Shapes
    <3>2. DOMAIN handlers[h] = {"pc", "op", "id", "seen", "verdict", "tx", "ok", "log"}
      BY <3>1 DEF Formed, Fields
    <3>3. /\ DOMAIN j = Fields /\ j.pc = "done" /\ j.tx = handlers[h].tx
          /\ j.ok = handlers[h].ok
      BY <3>2 DEF Fields
    <3>4. Formed(j)
      BY <3>1, <3>3 DEF Formed, Finished, Places
    <3> HIDE DEF j
    <3>5. handlers'[h] = j
      BY <1>1, <2>2 DEF j
    <3> QED
      BY <3>3, <3>4, <3>5
  <2> QED
    BY <2>1, <2>2
<1> QED
  BY <1>1, <1>3 DEF Working, Finished

LEMMA CrashBackend ==
  ASSUME BackendInv, crash
  PROVE  BackendInv'
<1>1. Shapes /\ Lock /\ Ledger
  BY DEF BackendInv
<1>2. /\ UNCHANGED <<rows, txs, audit, events>>
      /\ DOMAIN handlers' = Requests
      /\ \A h \in Requests : Formed(handlers'[h]) /\ ~Working(h)'
  BY <1>1, CrashClears
<1>3. Shapes'
  BY <1>1, <1>2 DEF Shapes
<1>4. Lock'
  BY <1>1, <1>2 DEF Lock, MaySubmit, CreateTx, Working, Finished
<1>5. Ledger'
  BY <1>1, <1>2 DEF Ledger, At, Paid_, LoggedAs, Working, Finished
<1> QED
  BY <1>3, <1>4, <1>5 DEF BackendInv

LEMMA QuietBackend ==
  ASSUME BackendInv, UNCHANGED <<rows, handlers, txs, events>>
  PROVE  BackendInv'
<1>1. Shapes /\ Lock /\ Ledger
  BY DEF BackendInv
<1> QED
  BY <1>1 DEF BackendInv, Shapes, Lock, Ledger, Working, RowOf, MaySubmit, CreateTx, At, Paid_,
              LoggedAs

(* Every step of a request, of a transaction, of the chain and every       *)
(* restart keeps the backend's invariant.                                  *)
THEOREM StepBackend == BackendInv /\ [PaymentsNext]_allVars => BackendInv'
<1> SUFFICES ASSUME BackendInv, [PaymentsNext]_allVars PROVE BackendInv'
  OBVIOUS
<1>1. ASSUME NEW h \in Requests, RequestArrives(h), UNCHANGED <<chain, chainSteps>>
      PROVE  BackendInv'
  BY <1>1, CreateBackend, DecideBackend DEF RequestArrives, chain
<1>2. ASSUME NEW h \in Requests, BackendStep(h)
      PROVE  BackendInv'
  <2>1. HandlerStep(h) /\ UNCHANGED events
    BY <1>2 DEF BackendStep, chain
  <2>2. Moves(h) \/ Writes(h) \/ Submits(h)
    BY <2>1, StepKinds DEF BackendInv
  <2> QED
    BY <2>1, <2>2, MovesBackend, WritesBackend, SubmitsBackend
<1>3. ASSUME NEW i \in DOMAIN txs, TxStep(i)
      PROVE  BackendInv'
  BY <1>3, TxBackend
<1>4. CASE chainStep
  BY <1>4, ChainQuiet, QuietBackend DEF chainStep, backend
<1>5. CASE crash
  BY <1>5, CrashBackend
<1>6. CASE UNCHANGED allVars
  BY <1>6, QuietBackend DEF allVars, backend, chain
<1> QED
  BY <1>1, <1>2, <1>3, <1>4, <1>5, <1>6 DEF PaymentsNext

(* Whatever overlaps, fails or restarts: types, the insert that locks a    *)
(* key, and a ledger that says paid only of what was paid.                 *)
THEOREM BackendAlways == PaymentsSpec => []BackendInv
<1> QED
  BY InitBackend, StepBackend, PTL DEF PaymentsSpec

-----------------------------------------------------------------------------
(* The types.  What a request remembers and what a row says point at       *)
(* transactions that were submitted, and a balance is judged against a     *)
(* vault account that was read.                                            *)
Remembers(j, n) ==
  /\ j.pc # "idle" => j.id \in Ids
  /\ j.pc = "balance" => j.seen \in Vaults
  /\ j.tx <= n

Pointers ==
  /\ \A h \in Requests : Remembers(handlers[h], Len(txs))
  /\ \A id \in Ids : rows[id] # NoRow => rows[id].signature <= Len(txs)

MemoryInv == AccountTyped /\ Pointers

LEMMA PutsField ==
  ASSUME Shapes, NEW h \in Requests, NEW p, NEW f2 \in {"seen", "log", "ok", "tx"}, NEW v,
         Puts(h, p, f2, v)
  PROVE  /\ handlers'[h].pc = p /\ handlers'[h][f2] = v
         /\ f2 # "tx" => handlers'[h].tx = handlers[h].tx
<1>1. DOMAIN handlers = Requests /\ DOMAIN handlers[h] = Fields /\ f2 \in Fields \ {"pc"}
        /\ "tx" \in Fields
  BY DEF Shapes, Formed, Fields
<1>2. /\ handlers'[h].pc = p /\ handlers'[h][f2] = v
      /\ \A f \in Fields \ {"pc", f2} : handlers'[h][f] = handlers[h][f]
  BY ONLY <1>1, h \in Requests, Puts(h, p, f2, v), Set2
<1> QED
  BY <1>1, <1>2

LEMMA GotoField ==
  ASSUME Shapes, NEW h \in Requests, NEW p, Goto(h, p)
  PROVE  handlers'[h].pc = p /\ handlers'[h].tx = handlers[h].tx
<1>1. DOMAIN handlers = Requests /\ DOMAIN handlers[h] = Fields /\ "tx" \in Fields
  BY DEF Shapes, Formed, Fields
<1> QED
  BY <1>1, Set1 DEF Goto

(* A request changes the transaction it remembers only by submitting one,  *)
(* goes on to read a balance only with an open vault in hand, and to hold   *)
(* a payment or to deny it only as the request that may.                   *)
LEMMA StepRemembers ==
  ASSUME Shapes, NEW h \in Requests, HandlerStep(h)
  PROVE  /\ \/ handlers'[h].tx = handlers[h].tx
            \/ Sent(h) /\ handlers'[h].tx = Len(txs) + 1
         /\ handlers'[h].pc = "balance" => Open /\ handlers'[h].seen = vault
         /\ handlers'[h].pc = "hold" => handlers[h].op = "create"
         /\ handlers'[h].pc # "deny"
<1> DEFINE Goal == /\ \/ handlers'[h].tx = handlers[h].tx
                      \/ Sent(h) /\ handlers'[h].tx = Len(txs) + 1
                   /\ handlers'[h].pc = "balance" => Open /\ handlers'[h].seen = vault
                   /\ handlers'[h].pc = "hold" => handlers[h].op = "create"
                   /\ handlers'[h].pc # "deny"
<1>1. ASSUME fetchVault(h) PROVE Goal
  <2> DEFINE p == IF Open THEN "balance" ELSE "fail"
  <2>1. Puts(h, p, "seen", vault)
    BY <1>1 DEF fetchVault, Puts
  <2>2. p \in {"balance", "fail"} /\ (p = "balance" => Open)
    OBVIOUS
  <2> HIDE DEF p
  <2>3. handlers'[h].pc = p /\ handlers'[h].seen = vault /\ handlers'[h].tx = handlers[h].tx
    <3>1. PICK f \in {"seen", "log", "ok", "tx"} : f = "seen"
      OBVIOUS
    <3>2. Puts(h, p, f, vault) /\ f # "tx"
      BY <2>1, <3>1
    <3>3. /\ handlers'[h].pc = p /\ handlers'[h][f] = vault
          /\ handlers'[h].tx = handlers[h].tx
      BY ONLY Shapes, h \in Requests, <3>2, PutsField
    <3> QED
      BY <3>1, <3>3
  <2> QED
    BY <2>2, <2>3
<1>2. ASSUME NEW p, p \notin {"balance", "hold", "deny"}, Goto(h, p) PROVE Goal
  BY <1>2, GotoField
<1>3. ASSUME fail(h) \/ recordOffline(h) \/ abort(h) \/ writeAudit(h) PROVE Goal
  BY <1>2, <1>3 DEF fail, recordOffline, abort, writeAudit
<1>4. ASSUME NEW p, p \notin {"balance", "hold", "deny"}, NEW f2 \in {"log", "ok"}, NEW v,
             Puts(h, p, f2, v)
      PROVE  Goal
  <2>1. f2 \in {"seen", "log", "ok", "tx"} /\ f2 # "tx"
    OBVIOUS
  <2>2. handlers'[h].pc = p /\ handlers'[h].tx = handlers[h].tx
    BY ONLY Shapes, h \in Requests, <1>4, <2>1, PutsField
  <2> QED
    BY <1>4, <2>2
<1>5. ASSUME preflightFails(h) \/ sendLost(h) \/ confirm(h) \/ confirmLost(h) PROVE Goal
  <2>1. \E v : Puts(h, "record", "ok", v)
    BY <1>5 DEF preflightFails, sendLost, confirm, confirmLost, Puts
  <2> QED
    BY <2>1, <1>4
<1>6. ASSUME hold(h) \/ deny(h) \/ record(h) PROVE Goal
  <2>1. \E p \in {"audit", "done"} : \E v : Puts(h, p, "log", v)
    BY <1>6 DEF hold, deny, record, Puts
  <2> QED
    BY <2>1, <1>4
<1>7. ASSUME submit(h) PROVE Goal
  <2>1. PICK n : n = Len(txs) + 1 /\ Sent(h) /\ Puts(h, "confirm", "tx", n)
    BY <1>7 DEF submit, Puts
  <2>2. handlers'[h].pc = "confirm" /\ handlers'[h].tx = n
    <3>1. PICK f \in {"seen", "log", "ok", "tx"} : f = "tx"
      OBVIOUS
    <3>2. PICK p : p = "confirm"
      OBVIOUS
    <3>3. Puts(h, p, f, n)
      BY <2>1, <3>1, <3>2
    <3>4. handlers'[h].pc = p /\ handlers'[h][f] = n
      BY ONLY Shapes, h \in Requests, <3>1, <3>3, PutsField
    <3> QED
      BY <3>1, <3>2, <3>4
  <2> QED
    BY <2>1, <2>2
<1>8. ASSUME judge(h) PROVE Goal
  <2>1. PICK v : handlers' = [handlers EXCEPT ![h].pc = NextPlace(handlers[h].op, v),
                                              ![h].verdict = v, ![h].seen = NoVault]
    BY <1>8 DEF judge
  <2> DEFINE p == NextPlace(handlers[h].op, v)
  <2>2. p \notin {"balance", "deny"} /\ (p = "hold" => handlers[h].op = "create")
    BY DEF NextPlace
  <2>3. handlers'[h] = [[[handlers[h] EXCEPT !.pc = p] EXCEPT !.verdict = v] EXCEPT !.seen = NoVault]
    BY <2>1 DEF Shapes
  <2> HIDE DEF p
  <2>4. DOMAIN handlers[h] = {"pc", "op", "id", "seen", "verdict", "tx", "ok", "log"}
    BY DEF Shapes, Formed, Fields
  <2>5. handlers'[h].pc = p /\ handlers'[h].tx = handlers[h].tx
    BY <2>3, <2>4
  <2> QED
    BY <2>2, <2>5
<1> QED
  BY <1>1, <1>3, <1>5, <1>6, <1>7, <1>8 DEF HandlerStep

(* What a step of a request may do to the rows and the transactions.       *)
LEMMA HandlerFrame ==
  ASSUME NEW h \in Requests, HandlerStep(h)
  PROVE  /\ crashes' = crashes
         /\ txs' = txs \/ Sent(h)
         /\ \/ rows' = rows
            \/ /\ handlers[h].pc \in {"fail", "hold", "record_offline", "record", "deny"}
               /\ \E n \in {RowOf(h).signature, handlers[h].tx} :
                    \E status : SetRow(h, status, n)
<1>1. CASE fetchVault(h) \/ preflightFails(h) \/ confirm(h) \/ confirmLost(h) \/ abort(h)
             \/ writeAudit(h)
  BY <1>1, Zenon DEF fetchVault, preflightFails, confirm, confirmLost, abort, writeAudit
<1>2. CASE judge(h)
  BY <1>2, Zenon DEF judge
<1>3. CASE submit(h) \/ sendLost(h)
  BY <1>3, Zenon DEF submit, sendLost
<1>4. CASE fail(h) \/ recordOffline(h) \/ hold(h) \/ deny(h)
  <2>1. PICK status \in {"FAILED", "REVERTED", "HELD", "DENIED"} :
          SetRow(h, status, RowOf(h).signature)
    BY <1>4, Zenon DEF fail, recordOffline, hold, deny
  <2>2. /\ handlers[h].pc \in {"fail", "hold", "record_offline", "deny"}
        /\ UNCHANGED <<txs, crashes>>
    BY <1>4, Zenon DEF fail, recordOffline, hold, deny, At
  <2> QED
    BY <2>1, <2>2
<1>5. CASE record(h)
  BY <1>5, Zenon DEF record, At
<1> QED
  BY <1>1, <1>2, <1>3, <1>4, <1>5 DEF HandlerStep

(* A row's signature is its old one, or the transaction that the request   *)
(* writing it remembers.                                                   *)
LEMMA StepSigns ==
  ASSUME Shapes, NEW h \in Requests, HandlerStep(h), NEW id \in Ids, rows'[id] # NoRow
  PROVE  /\ rows[id] # NoRow
         /\ rows'[id].signature \in {rows[id].signature, handlers[h].tx}
<1>1. CASE rows' = rows
  BY <1>1
<1>2. CASE rows' # rows
  <2>1. PICK n \in {RowOf(h).signature, handlers[h].tx} : \E status : SetRow(h, status, n)
    BY <1>2, HandlerFrame
  <2>2. handlers[h].pc \in {"fail", "hold", "record_offline", "record", "deny"}
    BY <1>2, HandlerFrame
  <2>3. rows[handlers[h].id] \in RowRecords /\ rows[handlers[h].id] # NoRow
          /\ handlers[h].id \in Ids /\ DOMAIN rows = Ids
    BY <2>2 DEF Shapes, Formed, Working, Finished, RowOf
  <2>s. PICK status : SetRow(h, status, n)
    BY <2>1
  <2>4. CASE id # handlers[h].id
    BY <2>s, <2>3, <2>4 DEF SetRow
  <2>5. CASE id = handlers[h].id
    <3> DEFINE r == [rows[id] EXCEPT !.status = status]
    <3>1. rows'[id] = [r EXCEPT !.signature = n]
      BY <2>s, <2>3, <2>5 DEF SetRow
    <3>2. "signature" \in DOMAIN r
      BY <2>3, <2>5 DEF RowRecords
    <3> HIDE DEF r
    <3>3. rows'[id].signature = n
      BY <3>1, <3>2
    <3> QED
      BY <2>1, <2>3, <2>5, <3>3 DEF RowOf
  <2> QED
    BY <2>4, <2>5
<1> QED
  BY <1>1, <1>2

(* Transactions are never forgotten.                                       *)
LEMMA TxsGrow ==
  ASSUME Shapes, NEW h \in Requests, HandlerStep(h)
  PROVE  /\ Len(txs) \in Nat /\ Len(txs') \in Nat /\ Len(txs) <= Len(txs')
         /\ Sent(h) => Len(txs') = Len(txs) + 1
<1>1. txs \in Seq(TxRecords) /\ Len(txs) \in Nat
  BY DEF Shapes
<1>2. \A e : Len(Append(txs, e)) = Len(txs) + 1
  BY <1>1
<1>3. Sent(h) => Len(txs') = Len(txs) + 1
  BY <1>2 DEF Sent
<1>4. txs' = txs \/ Sent(h)
  BY HandlerFrame
<1> QED
  BY <1>1, <1>3, <1>4

LEMMA HandlerMemory ==
  ASSUME BackendInv, MemoryInv, NEW h \in Requests, BackendStep(h)
  PROVE  MemoryInv'
<1>1. /\ HandlerStep(h) /\ UNCHANGED <<vault, now>> /\ Shapes /\ AccountTyped /\ Pointers
  BY DEF BackendStep, chain, BackendInv, MemoryInv
<1>2. /\ DOMAIN handlers' = Requests
      /\ \A g \in Requests \ {h} : handlers'[g] = handlers[g]
      /\ handlers'[h].id = handlers[h].id /\ Working(h)
  BY <1>1, StepKinds DEF Moves, Writes, Submits, Keeps
<1>3. /\ Len(txs) \in Nat /\ Len(txs') \in Nat /\ Len(txs) <= Len(txs')
      /\ Sent(h) => Len(txs') = Len(txs) + 1
  BY <1>1, TxsGrow
<1>4. \A g \in Requests : handlers[g].tx \in Nat /\ handlers[g].tx <= Len(txs)
  BY <1>1 DEF Shapes, Formed, Pointers, Remembers
<1>5. \A g \in Requests : handlers[g].tx <= Len(txs')
  BY <1>3, <1>4
<1>6. Remembers(handlers'[h], Len(txs'))
  <2>1. handlers[h].id \in Ids
    BY <1>1, <1>2 DEF Working, Finished, Pointers, Remembers
  <2>2. /\ \/ handlers'[h].tx = handlers[h].tx
           \/ Sent(h) /\ handlers'[h].tx = Len(txs) + 1
        /\ handlers'[h].pc = "balance" => handlers'[h].seen \in Vaults
    BY <1>1, StepRemembers DEF Open, AccountTyped
  <2>3. handlers'[h].tx <= Len(txs')
    BY <1>3, <1>5, <2>2
  <2> QED
    BY <1>2, <2>1, <2>2, <2>3 DEF Remembers
<1>7. ASSUME NEW g \in Requests \ {h} PROVE Remembers(handlers'[g], Len(txs'))
  BY <1>1, <1>2, <1>5 DEF Pointers, Remembers
<1>8. ASSUME NEW id \in Ids, rows'[id] # NoRow PROVE rows'[id].signature <= Len(txs')
  <2>1. rows[id] # NoRow /\ rows'[id].signature \in {rows[id].signature, handlers[h].tx}
    BY <1>1, <1>8, StepSigns
  <2>2. rows[id].signature \in Nat /\ rows[id].signature <= Len(txs)
    BY <1>1, <2>1 DEF Shapes, RowRecords, Pointers
  <2> QED
    BY <1>3, <1>5, <2>1, <2>2
<1>9. AccountTyped'
  BY <1>1 DEF AccountTyped
<1> QED
  BY <1>6, <1>7, <1>8, <1>9 DEF MemoryInv, Pointers

LEMMA ArrivalMemory ==
  ASSUME BackendInv, MemoryInv, NEW h \in Requests, RequestArrives(h),
         UNCHANGED <<chain, chainSteps>>
  PROVE  MemoryInv'
<1>1. Shapes /\ AccountTyped /\ Pointers /\ UNCHANGED <<vault, now, txs>>
  BY DEF BackendInv, MemoryInv, chain, RequestArrives, create, decide
<1>2. PICK id \in Ids : \E op, place :
        /\ Begin(h, op, id, place) /\ place # "balance"
        /\ \/ rows' = rows
           \/ \E new : new.signature = 0 /\ rows' = [rows EXCEPT ![id] = new]
  <2>1. ASSUME NEW id \in Ids, NEW amount \in Amounts, NEW r \in Recipients, NEW c \in Contexts,
               create(h, id, amount, r, c)
        PROVE  \E place : /\ Begin(h, "create", id, place) /\ place # "balance"
                          /\ \/ rows' = rows
                             \/ \E new : new.signature = 0 /\ rows' = [rows EXCEPT ![id] = new]
    <3> DEFINE new == [status |-> "CREATED", amount |-> amount, signature |-> 0,
                       recipient |-> r, context |-> c]
    <3>1. new.signature = 0
      OBVIOUS
    <3>2. \/ rows' = [rows EXCEPT ![id] = new] /\ Begin(h, "create", id, "fetch")
          \/ rows' = rows /\ Begin(h, "create", id, "done")
      BY <2>1 DEF create
    <3> HIDE DEF new
    <3> QED
      BY <3>1, <3>2
  <2>2. ASSUME NEW id \in Ids, NEW op, decide(h, op, id)
        PROVE  rows' = rows /\ \E place : Begin(h, op, id, place) /\ place # "balance"
    BY <2>2 DEF decide
  <2> QED
    BY <2>1, <2>2 DEF RequestArrives
<1>3. Len(txs) \in Nat
  BY <1>1 DEF Shapes
<1>p. PICK op, place : Begin(h, op, id, place) /\ place # "balance"
  BY <1>2
<1> DEFINE j == Handler(place, op, id)
<1>4. handlers' = [handlers EXCEPT ![h] = j] /\ DOMAIN handlers = Requests
  BY <1>1, <1>p DEF Begin, Shapes
<1>5. Remembers(j, Len(txs))
  BY <1>p, <1>3 DEF Handler, Remembers
<1> HIDE DEF j
<1>6. \A g \in Requests : Remembers(handlers'[g], Len(txs))
  BY <1>1, <1>4, <1>5 DEF Pointers
<1>7. ASSUME NEW k \in Ids, rows'[k] # NoRow PROVE rows'[k].signature <= Len(txs)
  <2>1. DOMAIN rows = Ids
    BY <1>1 DEF Shapes
  <2> QED
    BY <1>1, <1>2, <1>3, <1>7, <2>1 DEF Pointers
<1> QED
  BY <1>1, <1>6, <1>7 DEF MemoryInv, Pointers, AccountTyped

LEMMA TxMemory ==
  ASSUME BackendInv, MemoryInv, NEW i \in DOMAIN txs, TxStep(i)
  PROVE  MemoryInv'
<1>1. Shapes /\ AccountTyped /\ Pointers
  BY DEF BackendInv, MemoryInv
<1>2. UNCHANGED <<rows, handlers>> /\ \E status : SetTx(i, status)
  BY DEF TxStep, land, expire
<1>3. Len(txs') = Len(txs)
  BY <1>1, <1>2 DEF SetTx, Shapes
<1>4. Pointers'
  BY <1>1, <1>2, <1>3 DEF Pointers
<1>5. AccountTyped'
  <2> DEFINE row == rows[txs[i].id]
  <2>1. txs[i] \in TxRecords /\ row # NoRow
    BY <1>1 DEF Shapes
  <2>2. row \in RowRecords /\ txs[i].signed \in BOOLEAN
    BY <1>1, <2>1 DEF Shapes, TxRecords
  <2>3. row.amount \in U64
    BY <2>2, InputsAssumption DEF RowRecords
  <2> HIDE DEF row
  <2>4. CASE Settle(VaultMint, AgentKey, row.recipient, row.amount, txs[i].signed, row.context)
    BY <1>1, <2>2, <2>3, <2>4, SettleTyped
  <2>5. CASE UNCHANGED chain
    BY <1>1, <2>5 DEF chain, AccountTyped
  <2> QED
    BY <2>4, <2>5 DEF TxStep, land, expire, row
<1> QED
  BY <1>4, <1>5 DEF MemoryInv

LEMMA CrashMemory ==
  ASSUME BackendInv, MemoryInv, crash
  PROVE  MemoryInv'
<1>1. /\ Shapes /\ AccountTyped /\ Pointers /\ UNCHANGED <<vault, now, rows, txs>>
      /\ handlers' = [h \in Requests |-> IF At(h, "idle") THEN Idle
                                        ELSE [handlers[h] EXCEPT !.pc = "done"]]
  BY DEF BackendInv, MemoryInv, crash, chain
<1>2. ASSUME NEW h \in Requests PROVE Remembers(handlers'[h], Len(txs))
  <2>1. CASE At(h, "idle")
    <3>1. Len(txs) \in Nat
      BY <1>1 DEF Shapes
    <3> QED
      BY <1>1, <2>1, <3>1 DEF Idle, Handler, Remembers
  <2>2. CASE ~At(h, "idle")
    <3> DEFINE j == [handlers[h] EXCEPT !.pc = "done"]
    <3>1. DOMAIN handlers[h] = {"pc", "op", "id", "seen", "verdict", "tx", "ok", "log"}
      BY <1>1 DEF Shapes, Formed, Fields
    <3>2. j.pc = "done" /\ j.id = handlers[h].id /\ j.tx = handlers[h].tx
      BY <3>1
    <3>3. handlers'[h] = j
      BY <1>1, <2>2
    <3> HIDE DEF j
    <3>4. handlers[h].id \in Ids /\ handlers[h].tx <= Len(txs)
      BY <1>1, <2>2 DEF At, Pointers, Remembers
    <3> QED
      BY <3>2, <3>3, <3>4 DEF Remembers
  <2> QED
    BY <2>1, <2>2
<1> QED
  BY <1>1, <1>2 DEF MemoryInv, Pointers, AccountTyped

LEMMA InitMemory == PaymentsInit => MemoryInv
<1> SUFFICES ASSUME PaymentsInit PROVE MemoryInv
  OBVIOUS
<1>1. AccountTyped
  BY PaymentsAssumption DEF PaymentsInit, AccountTyped
<1>2. Remembers(Idle, 0)
  BY DEF Idle, Handler, Remembers
<1>3. Pointers
  BY <1>2 DEF PaymentsInit, Pointers
<1> QED
  BY <1>1, <1>3 DEF MemoryInv

LEMMA StepMemory == BackendInv /\ MemoryInv /\ [PaymentsNext]_allVars => MemoryInv'
<1> SUFFICES ASSUME BackendInv, MemoryInv, [PaymentsNext]_allVars PROVE MemoryInv'
  OBVIOUS
<1>1. AccountTyped /\ Pointers
  BY DEF MemoryInv
<1>2. CASE chainStep
  <2>1. AccountTyped'
    BY <1>1, <1>2, OwnerTyped, WorldTyped DEF chainStep
  <2> QED
    BY <1>1, <1>2, <2>1 DEF chainStep, backend, MemoryInv, Pointers
<1>3. CASE UNCHANGED allVars
  BY <1>1, <1>3 DEF allVars, backend, chain, MemoryInv, Pointers, AccountTyped
<1> QED
  BY <1>2, <1>3, HandlerMemory, ArrivalMemory, TxMemory, CrashMemory DEF PaymentsNext

(* The lifecycle's types, through every interleaving, restart and change   *)
(* of the vault under it: no row and no request names a transaction that   *)
(* was not submitted, and no balance is judged without a vault.            *)
THEOREM PaymentsTyped == PaymentsSpec => []PaymentsTypeOK
<1>1. BackendInv /\ MemoryInv => PaymentsTypeOK
  <2> SUFFICES ASSUME BackendInv, MemoryInv PROVE PaymentsTypeOK
    OBVIOUS
  <2>1. Shapes /\ Pointers /\ Len(txs) \in Nat
    BY DEF BackendInv, MemoryInv, Shapes
  <2>2. ASSUME NEW id \in Ids, rows[id] # NoRow PROVE rows[id] \in Rows
    <3>1. rows[id] \in RowRecords /\ rows[id].signature <= Len(txs)
      BY <2>1, <2>2 DEF Shapes, Pointers
    <3>2. rows[id].amount \in U64 /\ rows[id].signature \in 0 .. Len(txs)
      BY <2>1, <3>1, InputsAssumption DEF RowRecords
    <3> QED
      BY <3>1, <3>2 DEF RowRecords, Rows
  <2>3. ASSUME NEW h \in Requests
        PROVE  /\ handlers[h].pc \in Places
               /\ handlers[h].pc # "idle" => handlers[h].id \in Ids
               /\ handlers[h].pc = "balance" => handlers[h].seen \in Vaults
               /\ handlers[h].tx \in 0 .. Len(txs)
    BY <2>1 DEF Shapes, Formed, Pointers, Remembers
  <2>4. ASSUME NEW i \in DOMAIN txs
        PROVE  txs[i].id \in Ids /\ txs[i].status \in {"sent", "ok", "failed", "expired"}
    <3>1. txs[i] \in TxRecords
      BY <2>1 DEF Shapes
    <3> QED
      BY <3>1 DEF TxRecords
  <2> QED
    BY <2>2, <2>3, <2>4 DEF PaymentsTypeOK
<1>2. PaymentsSpec => []MemoryInv
  BY InitMemory, StepMemory, BackendAlways, PTL DEF PaymentsSpec
<1> QED
  BY <1>1, <1>2, BackendAlways, PTL

-----------------------------------------------------------------------------
LEMMA AtMostOne ==
  ASSUME NEW S, \A x, y \in S : x = y
  PROVE  Cardinality(S) <= 1
<1>1. CASE S = {}
  BY <1>1, FS_EmptySet
<1>2. CASE S # {}
  <2>1. PICK x \in S : S = {x}
    BY <1>2
  <2> QED
    BY <2>1, FS_Singleton
<1> QED
  BY <1>1, <1>2

(* However many requests carry one key, and however they overlap, fail or  *)
(* are cut off by a restart: one transaction at most is submitted to carry *)
(* the intent out (createAndExecute's unique key).                         *)
THEOREM OneSubmissionPerKey == PaymentsSpec => []AtMostOneCreateSubmission
<1>1. BackendInv => AtMostOneCreateSubmission
  <2> SUFFICES ASSUME BackendInv, NEW id \in Ids
               PROVE  Cardinality(Submissions(id, "create")) <= 1
    BY DEF AtMostOneCreateSubmission
  <2>1. \A x, y \in Submissions(id, "create") : x = y
    BY DEF BackendInv, Lock, Submissions
  <2> QED
    BY <2>1, AtMostOne
<1> QED
  BY <1>1, BackendAlways, PTL

(* A row is SETTLED or APPROVED only when a transaction of it landed and   *)
(* the program's log holds a payment of its amount to its recipient.       *)
THEOREM LedgerIsRight == PaymentsSpec => []LedgerNeverOverstates
<1>1. BackendInv => LedgerNeverOverstates
  <2> SUFFICES ASSUME BackendInv, NEW id \in Ids, rows[id].status \in {"SETTLED", "APPROVED"}
               PROVE  /\ Landed(id) # {}
                      /\ \E i \in DOMAIN events : /\ events[i].amount = rows[id].amount
                                                 /\ events[i].recipient = rows[id].recipient
    BY DEF LedgerNeverOverstates
  <2>1. PICK i \in DOMAIN txs : txs[i].id = id /\ txs[i].status = "ok"
    BY DEF BackendInv, Ledger, Paid_
  <2>2. LoggedAs(rows[id])
    BY <2>1 DEF BackendInv, Ledger
  <2> QED
    BY <2>1, <2>2 DEF Landed, LoggedAs
<1> QED
  BY <1>1, BackendAlways, PTL

-----------------------------------------------------------------------------
(* Decisions that collide.  No hypothesis is made here: the owner decides  *)
(* as often and as concurrently as he likes, calls and writes fail and the *)
(* backend restarts.  A creation that has yet to write its row is the only *)
(* one and finds it as it left it; a decision that has yet to write finds  *)
(* it held, or was overtaken by another decision; and what was ever held   *)
(* was not submitted by its creation.                                      *)
PendingWrite(h) == handlers[h].pc \in Unsubmitted \cup {"confirm", "record"}
Creating(h) == PendingWrite(h) /\ handlers[h].op = "create"
Choosing(h) == PendingWrite(h) /\ handlers[h].op # "create"
Overtaken(h) == \E g \in Requests \ {h} : Decides(g, handlers[h].id)
NotSubmitted(id) == \A i \in DOMAIN txs : txs[i].id = id => txs[i].op # "create"

Contest ==
  /\ \A h \in Requests : Creating(h) => RowOf(h).status = "CREATED"
  /\ \A g, h \in Requests :
       Creating(g) /\ Creating(h) /\ handlers[g].id = handlers[h].id => g = h
  /\ \A h \in Requests : Creating(h) /\ handlers[h].pc \in Unsubmitted =>
       NotSubmitted(handlers[h].id)
  /\ \A h \in Requests : Choosing(h) =>
       /\ RowOf(h).status # "CREATED"
       /\ RowOf(h).status = "HELD" \/ Overtaken(h)
       /\ NotSubmitted(handlers[h].id)
  /\ \A id \in Ids : rows[id].status \in {"HELD", "DENIED"} => NotSubmitted(id)

(* A request that has not arrived decides nothing; a denial never submits, *)
(* so a transaction is a creation's or an approval's.                      *)
Denials ==
  /\ \A h \in Requests : At(h, "idle") => handlers[h].op = "none"
  /\ \A h \in Requests : handlers[h].op = "deny" =>
       handlers[h].pc \notin {"fetch", "balance", "submit"}
  /\ \A h \in Requests : At(h, "deny") => handlers[h].op = "deny"
  /\ \A h \in Requests : At(h, "hold") => handlers[h].op = "create"
  /\ \A i \in DOMAIN txs : txs[i].op # "deny"

ContestInv == BackendInv /\ Contest /\ Denials

LEMMA TxIds ==
  ASSUME Shapes
  PROVE  \A i \in DOMAIN txs : txs[i].id \in Ids /\ rows[txs[i].id] # NoRow
<1>1. \A i \in DOMAIN txs : txs[i] \in TxRecords
  BY DEF Shapes
<1> QED
  BY <1>1 DEF Shapes, TxRecords

LEMMA InitContest == PaymentsInit => ContestInv
<1> SUFFICES ASSUME PaymentsInit PROVE ContestInv
  OBVIOUS
<1>1. BackendInv
  BY InitBackend
<1>2. /\ handlers = [h \in Requests |-> Idle] /\ txs = <<>> /\ Idle.pc = "idle"
      /\ Idle.op = "none"
  BY DEF PaymentsInit, Idle, Handler
<1>3. Contest
  BY <1>2 DEF Contest, Creating, Choosing, PendingWrite, Unsubmitted, NotSubmitted
<1>4. Denials
  BY <1>2 DEF Denials, At
<1> QED
  BY <1>1, <1>3, <1>4 DEF ContestInv

(* What any step of a request keeps of the others, and of its own kind and *)
(* key; a pending write was pending before.                                *)
LEMMA StepFrame ==
  ASSUME Shapes, NEW h \in Requests, HandlerStep(h)
  PROVE  /\ DOMAIN handlers' = Requests /\ Working(h) /\ handlers[h].id \in Ids
         /\ \A g \in Requests \ {h} : handlers'[g] = handlers[g]
         /\ \A g \in Requests : /\ handlers'[g].op = handlers[g].op
                                /\ handlers'[g].id = handlers[g].id
         /\ handlers'[h].pc # "idle"
         /\ \A g \in Requests : PendingWrite(g)' => PendingWrite(g)
         /\ \A g \in Requests : handlers'[g].pc \in Unsubmitted => handlers[g].pc \in Unsubmitted
         /\ handlers'[h].pc \in {"fetch", "balance", "submit"} =>
              handlers[h].pc \in {"fetch", "balance", "submit"}
<1>1. Moves(h) \/ Writes(h) \/ Submits(h)
  BY StepKinds
<1>2. Keeps(h)
  BY <1>1 DEF Moves, Writes, Submits
<1>3. /\ PendingWrite(h)' => PendingWrite(h)
      /\ handlers'[h].pc # "idle"
      /\ handlers'[h].pc \in Unsubmitted => handlers[h].pc \in Unsubmitted
      /\ handlers'[h].pc \in {"fetch", "balance", "submit"} =>
           handlers[h].pc \in {"fetch", "balance", "submit"}
  <2>1. CASE Moves(h)
    BY <2>1 DEF Moves, PendingWrite, Unsubmitted
  <2>2. CASE Writes(h)
    BY <2>2 DEF Writes, PendingWrite, Unsubmitted
  <2>3. CASE Submits(h)
    BY <2>3 DEF Submits, PendingWrite, Unsubmitted
  <2> QED
    BY <1>1, <2>1, <2>2, <2>3
<1>4. handlers[h].id \in Ids
  BY <1>2 DEF Keeps, Working, Shapes, Formed
<1> QED
  BY <1>2, <1>3, <1>4 DEF Keeps, PendingWrite

LEMMA HandlerDenials ==
  ASSUME Shapes, Denials, NEW h \in Requests, HandlerStep(h)
  PROVE  Denials'
<1>1. /\ \A g \in Requests \ {h} : handlers'[g] = handlers[g]
      /\ handlers'[h].op = handlers[h].op
      /\ handlers'[h].pc \in {"fetch", "balance", "submit"} =>
           handlers[h].pc \in {"fetch", "balance", "submit"}
      /\ handlers'[h].pc = "hold" => handlers[h].op = "create"
      /\ handlers'[h].pc \notin {"deny", "idle"}
  BY StepFrame, StepRemembers
<1>2. \A i \in DOMAIN txs' : txs'[i].op # "deny"
  <2>1. CASE txs' = txs
    BY <2>1 DEF Denials
  <2>2. CASE Submits(h)
    <3>1. PICK tx \in TxRecords : tx.op = handlers[h].op /\ txs' = Append(txs, tx)
      BY <2>2 DEF Submits
    <3>2. tx.op # "deny"
      BY <2>2, <3>1 DEF Submits, Denials
    <3>3. \A i \in DOMAIN txs' : (i \in DOMAIN txs /\ txs'[i] = txs[i]) \/ txs'[i] = tx
      BY <3>1, TxAppended
    <3> QED
      BY <3>2, <3>3 DEF Denials
  <2> QED
    BY <2>1, <2>2, StepKinds DEF Moves, Writes
<1> QED
  BY <1>1, <1>2 DEF Denials, At

LEMMA MovesContest ==
  ASSUME ContestInv, NEW h \in Requests, HandlerStep(h), UNCHANGED <<rows, txs>>
  PROVE  Contest'
<1>1. Shapes /\ Contest
  BY DEF ContestInv, BackendInv
<1>2. ASSUME NEW g \in Requests
      PROVE  /\ Creating(g)' => Creating(g)
             /\ Choosing(g)' => Choosing(g)
             /\ handlers'[g].pc \in Unsubmitted => handlers[g].pc \in Unsubmitted
             /\ handlers'[g].id = handlers[g].id /\ RowOf(g)' = RowOf(g)
             /\ Overtaken(g) => Overtaken(g)'
  BY <1>1, <1>2, StepFrame DEF Creating, Choosing, RowOf, Overtaken, Decides
<1> QED
  BY <1>1, <1>2 DEF Contest, NotSubmitted

LEMMA WritesContest ==
  ASSUME ContestInv, NEW h \in Requests, HandlerStep(h), Writes(h)
  PROVE  Contest'
<1>1. /\ Shapes /\ Contest /\ Denials /\ txs' = txs
      /\ handlers[h].pc \in {"fail", "hold", "record_offline", "record", "deny"}
      /\ handlers'[h].pc \in {"done", "audit"}
  BY DEF ContestInv, BackendInv, Writes
<1>2. PICK id \in Ids : id = handlers[h].id
  BY <1>1, StepFrame
<1>3. /\ \A k \in Ids \ {id} : rows'[k] = rows[k]
      /\ rows'[id].status # "CREATED"
      /\ rows'[id].status = "HELD" => handlers[h].pc = "hold"
      /\ rows'[id].status = "DENIED" => handlers[h].pc = "deny"
  BY <1>2 DEF Writes
<1>4. PendingWrite(h) /\ ~PendingWrite(h)'
  BY <1>1 DEF PendingWrite, Unsubmitted
<1>5. handlers[h].op \in {"create", "approve", "deny"}
  BY <1>1, StepFrame DEF Shapes, Formed, Working
<1>6. ASSUME NEW g \in Requests, PendingWrite(g)'
      PROVE  /\ g # h /\ PendingWrite(g) /\ handlers'[g] = handlers[g]
             /\ handlers[g].id \in Ids
             /\ Overtaken(g) => Overtaken(g)'
  <2>1. g # h /\ PendingWrite(g) /\ handlers'[g] = handlers[g]
    BY <1>1, <1>4, <1>6, StepFrame
  <2>2. handlers[g].id \in Ids
    BY <1>1, <2>1 DEF PendingWrite, Unsubmitted, Shapes, Formed, Finished
  <2>3. Overtaken(g) => Overtaken(g)'
    BY <1>1, <2>1, StepFrame DEF Overtaken, Decides
  <2> QED
    BY <2>1, <2>2, <2>3
<1>7. ASSUME NEW g \in Requests, Creating(g)'
      PROVE  Creating(g) /\ RowOf(g)'.status = "CREATED"
  <2>1. g # h /\ Creating(g) /\ handlers'[g] = handlers[g] /\ handlers[g].id \in Ids
    BY <1>6, <1>7 DEF Creating
  <2>2. handlers[g].id # id
    BY <1>1, <1>2, <1>4, <1>5, <2>1 DEF Contest, Creating, Choosing, RowOf
  <2> QED
    BY <1>1, <1>3, <2>1, <2>2 DEF Contest, RowOf
<1>8. ASSUME NEW g \in Requests, Choosing(g)'
      PROVE  /\ Choosing(g)
             /\ RowOf(g)'.status # "CREATED"
             /\ RowOf(g)'.status = "HELD" \/ Overtaken(g)'
  <2>1. g # h /\ Choosing(g) /\ handlers'[g] = handlers[g] /\ handlers[g].id \in Ids
    BY <1>6, <1>8 DEF Choosing
  <2>2. RowOf(g).status # "CREATED" /\ (RowOf(g).status = "HELD" \/ Overtaken(g)')
    BY <1>1, <1>6, <1>8, <2>1 DEF Contest, Choosing
  <2>3. CASE handlers[g].id # id
    BY <1>3, <2>1, <2>2, <2>3 DEF RowOf
  <2>4. CASE handlers[g].id = id
    <3>1. ~Creating(h)
      BY <1>1, <1>2, <2>2, <2>4 DEF Contest, RowOf
    <3>2. handlers'[h].op \in {"approve", "deny"} /\ handlers'[h].id = id
      BY <1>1, <1>2, <1>4, <1>5, <3>1, StepFrame DEF Creating
    <3>3. Overtaken(g)'
      BY <2>1, <2>4, <3>2 DEF Overtaken, Decides
    <3> QED
      BY <1>3, <2>1, <2>4, <3>3 DEF RowOf
  <2> QED
    BY <2>1, <2>3, <2>4
<1>9. ASSUME NEW k \in Ids, rows'[k].status \in {"HELD", "DENIED"}
      PROVE  NotSubmitted(k)
  <2>1. CASE k # id
    BY <1>1, <1>3, <1>9, <2>1 DEF Contest
  <2>2. CASE k = id
    <3>1. handlers[h].pc \in {"hold", "deny"} /\ handlers[h].pc \in Unsubmitted
      BY <1>3, <1>9, <2>2 DEF Unsubmitted
    <3> QED
      BY <1>1, <1>2, <1>4, <2>2, <3>1 DEF Contest, Creating, Choosing
  <2> QED
    BY <2>1, <2>2
<1> QED
  BY <1>1, <1>6, <1>7, <1>8, <1>9 DEF Contest, NotSubmitted, Creating, Choosing

LEMMA SubmitsContest ==
  ASSUME ContestInv, NEW h \in Requests, HandlerStep(h), Submits(h)
  PROVE  Contest'
<1>1. /\ Shapes /\ Contest /\ rows' = rows /\ handlers[h].pc = "submit"
      /\ handlers'[h].pc \in {"confirm", "record"}
  BY DEF ContestInv, BackendInv, Submits
<1>2. PICK id \in Ids : id = handlers[h].id
  BY <1>1, StepFrame
<1>3. PICK tx \in TxRecords : tx.id = id /\ tx.op = handlers[h].op /\ txs' = Append(txs, tx)
  BY <1>2 DEF Submits
<1>4. \A i \in DOMAIN txs' : (i \in DOMAIN txs /\ txs'[i] = txs[i]) \/ txs'[i] = tx
  BY <1>1, <1>3, TxAppended
<1>5. ASSUME NEW k, NotSubmitted(k), k # id \/ handlers[h].op # "create"
      PROVE  NotSubmitted(k)'
  BY <1>3, <1>4, <1>5 DEF NotSubmitted
<1>6. PendingWrite(h) /\ handlers[h].pc \in Unsubmitted /\ handlers'[h].pc \notin Unsubmitted
  BY <1>1 DEF PendingWrite, Unsubmitted
<1>7. ASSUME NEW g \in Requests
      PROVE  /\ Creating(g)' => Creating(g)
             /\ Choosing(g)' => Choosing(g)
             /\ handlers'[g].pc \in Unsubmitted => g # h /\ handlers[g].pc \in Unsubmitted
             /\ handlers'[g].id = handlers[g].id /\ RowOf(g)' = RowOf(g)
             /\ Overtaken(g) => Overtaken(g)'
  BY <1>1, <1>6, <1>7, StepFrame DEF Creating, Choosing, RowOf, Overtaken, Decides
<1>8. ASSUME handlers[h].op = "create"
      PROVE  /\ rows[id].status = "CREATED"
             /\ \A g \in Requests : Creating(g) /\ g # h => handlers[g].id # id
             /\ \A g \in Requests : Choosing(g) => handlers[g].id # id
  BY <1>1, <1>2, <1>6, <1>8 DEF Contest, Creating, RowOf
<1>9. ASSUME NEW g \in Requests, Creating(g)', handlers'[g].pc \in Unsubmitted
      PROVE  NotSubmitted(handlers[g].id)'
  BY <1>1, <1>5, <1>7, <1>8, <1>9 DEF Contest
<1>10. ASSUME NEW g \in Requests, Choosing(g)'
       PROVE  NotSubmitted(handlers[g].id)'
  BY <1>1, <1>5, <1>7, <1>8, <1>10 DEF Contest
<1>11. ASSUME NEW k \in Ids, rows[k].status \in {"HELD", "DENIED"}
       PROVE  NotSubmitted(k)'
  BY <1>1, <1>5, <1>8, <1>11 DEF Contest
<1> QED
  BY <1>1, <1>7, <1>9, <1>10, <1>11 DEF Contest, NotSubmitted

(* A request that arrives: a creation finds the key new, a decision the    *)
(* row held, or it ends at once.                                           *)
LEMMA ArrivalContest ==
  ASSUME ContestInv, NEW h \in Requests, RequestArrives(h)
  PROVE  (Contest /\ Denials)'
<1>1. Shapes /\ Contest /\ Denials /\ UNCHANGED txs /\ At(h, "idle")
  BY DEF ContestInv, BackendInv, RequestArrives, create, decide
<1>2. PICK op \in {"create", "approve", "deny"}, id \in Ids, place \in {"fetch", "deny", "done"} :
        /\ Begin(h, op, id, place)
        /\ place = "deny" => op = "deny"
        /\ place = "fetch" => op # "deny"
        /\ \/ /\ op = "create" /\ place = "fetch" /\ rows[id] = NoRow
              /\ rows'[id].status = "CREATED" /\ \A k \in Ids \ {id} : rows'[k] = rows[k]
           \/ /\ rows' = rows
              /\ place # "done" => op # "create" /\ rows[id].status = "HELD"
  <2>1. ASSUME NEW id \in Ids, NEW op \in {"approve", "deny"}, decide(h, op, id)
        PROVE  \E place \in {"fetch", "deny", "done"} :
                 /\ Begin(h, op, id, place) /\ rows' = rows
                 /\ place = "deny" => op = "deny"
                 /\ place = "fetch" => op # "deny"
                 /\ place # "done" => rows[id].status = "HELD"
    BY <2>1 DEF decide
  <2>2. ASSUME NEW id \in Ids, NEW amount, NEW r, NEW c, create(h, id, amount, r, c)
        PROVE  \/ /\ Begin(h, "create", id, "fetch") /\ rows[id] = NoRow
                  /\ rows'[id].status = "CREATED" /\ \A k \in Ids \ {id} : rows'[k] = rows[k]
               \/ Begin(h, "create", id, "done") /\ rows' = rows
    BY <1>1, <2>2 DEF create, Shapes
  <2> QED
    BY <2>1, <2>2 DEF RequestArrives
<1>3. /\ \A g \in Requests \ {h} : handlers'[g] = handlers[g]
      /\ handlers'[h].pc = place /\ handlers'[h].op = op /\ handlers'[h].id = id
  <2>1. place \in Places
    BY DEF Places
  <2> QED
    BY <1>1, <1>2, <2>1, Begins
<1>4. Denials'
  BY <1>1, <1>2, <1>3 DEF Denials, At
<1>5. ~PendingWrite(h)
  BY <1>1 DEF PendingWrite, Unsubmitted, At
<1>6. ASSUME NEW g \in Requests, g # h
      PROVE  /\ Creating(g)' = Creating(g) /\ Choosing(g)' = Choosing(g)
             /\ handlers'[g] = handlers[g]
  BY <1>3, <1>6 DEF Creating, Choosing, PendingWrite
<1>7. ASSUME NEW g \in Requests, g # h, Overtaken(g) PROVE Overtaken(g)'
  <2>1. PICK f \in Requests \ {g} : Decides(f, handlers[g].id)
    BY <1>7 DEF Overtaken
  <2>2. f # h
    BY <1>1, <2>1 DEF Denials, Decides
  <2> QED
    BY <1>3, <1>7, <2>1, <2>2 DEF Overtaken, Decides
<1>8. CASE /\ op = "create" /\ place = "fetch" /\ rows[id] = NoRow
           /\ rows'[id].status = "CREATED" /\ \A k \in Ids \ {id} : rows'[k] = rows[k]
  <2>1. ASSUME NEW g \in Requests, PendingWrite(g)
        PROVE  g # h /\ handlers[g].id \in Ids \ {id}
    BY <1>1, <1>5, <1>8, <2>1 DEF Shapes, Formed, Working, Finished, PendingWrite, Unsubmitted,
                                  RowOf
  <2>2. \A i \in DOMAIN txs : txs[i].id # id
    BY <1>1, <1>8, TxIds
  <2>3. ASSUME NEW g \in Requests, g # h, PendingWrite(g)'
        PROVE  PendingWrite(g) /\ RowOf(g)' = RowOf(g)
    BY <1>3, <1>8, <2>1, <2>3 DEF PendingWrite, RowOf
  <2>4. Creating(h)' /\ ~Choosing(h)' /\ RowOf(h)'.status = "CREATED" /\ NotSubmitted(id)
    BY <1>3, <1>8, <2>2 DEF Creating, Choosing, PendingWrite, Unsubmitted, RowOf, NotSubmitted
  <2>5. ASSUME NEW k \in Ids, rows'[k].status \in {"HELD", "DENIED"} PROVE NotSubmitted(k)
    BY <1>1, <1>8, <2>5 DEF Contest
  <2>6. ASSUME NEW g \in Requests, g # h, Creating(g)' \/ Choosing(g)'
        PROVE  RowOf(g)' = RowOf(g) /\ handlers[g].id # id
    BY <2>1, <2>3, <2>6 DEF Creating, Choosing
  <2>7. \A g \in Requests : Creating(g)' => RowOf(g)'.status = "CREATED"
    BY <1>1, <1>6, <2>4, <2>6 DEF Contest
  <2>8. \A f, g \in Requests :
          Creating(f)' /\ Creating(g)' /\ handlers'[f].id = handlers'[g].id => f = g
    BY <1>1, <1>3, <1>6, <2>6 DEF Contest
  <2>9. \A g \in Requests : Creating(g)' /\ handlers'[g].pc \in Unsubmitted =>
          NotSubmitted(handlers'[g].id)
    BY <1>1, <1>3, <1>6, <2>4 DEF Contest
  <2>10. ASSUME NEW g \in Requests, Choosing(g)'
         PROVE  /\ RowOf(g)'.status # "CREATED"
                /\ RowOf(g)'.status = "HELD" \/ Overtaken(g)'
                /\ NotSubmitted(handlers'[g].id)
    BY <1>1, <1>6, <1>7, <2>4, <2>6, <2>10 DEF Contest
  <2>11. Contest'
    BY <1>1, <2>5, <2>7, <2>8, <2>9, <2>10 DEF Contest, NotSubmitted
  <2> QED
    BY <1>4, <2>11
<1>9. CASE /\ rows' = rows
           /\ place # "done" => op # "create" /\ rows[id].status = "HELD"
  <2>1. ~Creating(h)'
    BY <1>2, <1>3, <1>9 DEF Creating, PendingWrite, Unsubmitted
  <2>2. Choosing(h)' => rows[id].status = "HELD" /\ NotSubmitted(id)
    BY <1>1, <1>3, <1>9 DEF Choosing, PendingWrite, Unsubmitted, Contest
  <2>3. ASSUME NEW g \in Requests, Choosing(g)'
        PROVE  /\ RowOf(g)'.status # "CREATED"
               /\ RowOf(g)'.status = "HELD" \/ Overtaken(g)'
               /\ NotSubmitted(handlers'[g].id)
    <3>1. CASE g = h
      BY <1>3, <1>9, <2>2, <2>3, <3>1 DEF RowOf
    <3>2. CASE g # h
      BY <1>1, <1>6, <1>7, <1>9, <2>3, <3>2 DEF Contest, RowOf
    <3> QED
      BY <3>1, <3>2
  <2>4. Contest'
    BY <1>1, <1>6, <1>9, <2>1, <2>3 DEF Contest, NotSubmitted, RowOf
  <2> QED
    BY <1>4, <2>4
<1> QED
  BY <1>2, <1>8, <1>9

LEMMA TxContest ==
  ASSUME ContestInv, NEW i \in DOMAIN txs, TxStep(i)
  PROVE  (Contest /\ Denials)'
<1>1. UNCHANGED <<rows, handlers>> /\ \E status : Resolves(i, status)
  <2>1. CASE land(i)
    BY <2>1, LandKinds DEF ContestInv, BackendInv
  <2>2. CASE expire(i)
    BY <2>2, TxResolves DEF expire, ContestInv, BackendInv
  <2> QED
    BY <2>1, <2>2 DEF TxStep
<1>2. /\ DOMAIN txs' = DOMAIN txs
      /\ \A k \in DOMAIN txs : txs'[k].id = txs[k].id /\ txs'[k].op = txs[k].op
  BY <1>1 DEF Resolves
<1> QED
  BY <1>1, <1>2 DEF ContestInv, Contest, Denials, Creating, Choosing, PendingWrite, RowOf,
                    Overtaken, Decides, NotSubmitted, At

LEMMA CrashContest ==
  ASSUME ContestInv, crash
  PROVE  (Contest /\ Denials)'
<1>1. /\ UNCHANGED <<rows, txs>> /\ Shapes /\ Contest /\ Denials
      /\ \A h \in Requests : ~Working(h)'
  BY CrashClears DEF ContestInv, BackendInv
<1>2. \A h \in Requests : ~PendingWrite(h)'
  BY <1>1 DEF Working, Finished, PendingWrite, Unsubmitted
<1>3. Contest'
  BY <1>1, <1>2 DEF Contest, Creating, Choosing, NotSubmitted
<1>4. \A h \in Requests : At(h, "idle")' => handlers'[h].op = "none"
  <2>1. ASSUME NEW h \in Requests, ~At(h, "idle") PROVE handlers'[h].pc = "done"
    <3>1. handlers'[h] = [handlers[h] EXCEPT !.pc = "done"] /\ "pc" \in DOMAIN handlers[h]
      BY <1>1, <2>1 DEF crash, Shapes, Formed, Fields
    <3> QED
      BY <3>1
  <2>2. ASSUME NEW h \in Requests, At(h, "idle") PROVE handlers'[h].op = "none"
    BY <2>2 DEF crash, Idle, Handler
  <2> QED
    BY <2>1, <2>2 DEF At
<1>5. Denials'
  BY <1>1, <1>4 DEF Denials, At, Working, Finished
<1> QED
  BY <1>3, <1>5

LEMMA StepContest == ContestInv /\ [PaymentsNext]_allVars => ContestInv'
<1> SUFFICES ASSUME ContestInv, [PaymentsNext]_allVars PROVE (Contest /\ Denials)'
  BY StepBackend DEF ContestInv
<1>1. Shapes /\ Denials
  BY DEF ContestInv, BackendInv
<1>2. ASSUME NEW h \in Requests, BackendStep(h) PROVE (Contest /\ Denials)'
  <2>1. HandlerStep(h)
    BY <1>2 DEF BackendStep
  <2>2. Denials'
    BY <1>1, <2>1, HandlerDenials
  <2>3. Moves(h) \/ Writes(h) \/ Submits(h)
    BY <1>1, <2>1, StepKinds
  <2>4. Contest'
    BY <2>1, <2>3, MovesContest, WritesContest, SubmitsContest DEF Moves
  <2> QED
    BY <2>2, <2>4
<1>3. CASE chainStep \/ UNCHANGED allVars
  <2>1. UNCHANGED <<rows, handlers, txs>>
    BY <1>3 DEF chainStep, backend, allVars
  <2> QED
    BY <2>1 DEF ContestInv, Contest, Denials, Creating, Choosing, PendingWrite, RowOf,
                Overtaken, Decides, NotSubmitted, At
<1> QED
  BY <1>2, <1>3, ArrivalContest, TxContest, CrashContest DEF PaymentsNext

(* A held row was not submitted by its creation, a pending decision finds  *)
(* its row held or was overtaken by another: whatever collides or fails.   *)
THEOREM ContestAlways == PaymentsSpec => []ContestInv
<1> QED
  BY InitContest, StepContest, PTL DEF PaymentsSpec

(* What the owner denied was submitted by no creation: only an approval    *)
(* that overtook the denial can have paid it.                              *)
THEOREM DeniedUnlessApproved == PaymentsSpec => []DeniedPaidOnlyByApproval
<1>1. ContestInv => DeniedPaidOnlyByApproval
  <2> SUFFICES ASSUME ContestInv, NEW id \in Ids, rows[id].status = "DENIED",
                      NEW i \in DOMAIN txs, txs[i].id = id
               PROVE  txs[i].op = "approve"
    BY DEF DeniedPaidOnlyByApproval
  <2>1. txs[i] \in TxRecords
    BY DEF ContestInv, BackendInv, Shapes
  <2>2. txs[i].op # "create"
    BY DEF ContestInv, Contest, NotSubmitted
  <2>3. txs[i].op # "deny"
    BY DEF ContestInv, Denials
  <2> QED
    BY <2>1, <2>2, <2>3 DEF TxRecords
<1> QED
  BY <1>1, ContestAlways, PTL

(* A final status is overwritten only by a decision under way, and only    *)
(* when another decision was made on the same row.                         *)
THEOREM FinalUnlessOvertaken == PaymentsSpec => FinalUnlessContested
<1>1. ASSUME ContestInv, [PaymentsNext]_allVars, NEW id \in Ids,
             rows[id].status \notin {"NONE", "CREATED", "HELD", rows'[id].status}
      PROVE  Contested(id)
  <2>1. Shapes /\ Ledger /\ Contest /\ rows[id] # NoRow /\ rows'[id] # rows[id]
    BY <1>1 DEF ContestInv, BackendInv, NoRow
  <2>2. ASSUME NEW h \in Requests, RequestArrives(h) PROVE rows'[id] = rows[id]
    BY <2>1, <2>2 DEF RequestArrives, create, decide, Shapes
  <2>3. ASSUME NEW i \in DOMAIN txs, TxStep(i) PROVE rows'[id] = rows[id]
    BY <2>1, <2>3, LandKinds DEF TxStep, expire
  <2>4. CASE chainStep \/ crash \/ UNCHANGED allVars
    BY <2>1, <2>4 DEF chainStep, crash, allVars, backend
  <2>5. ASSUME NEW h \in Requests, BackendStep(h)
        PROVE  \E g \in Requests \ {h} : /\ Decides(g, id) /\ Decides(h, id)
                                         /\ handlers[h].pc \notin {"idle", "done"}
    <3>1. HandlerStep(h)
      BY <2>5 DEF BackendStep
    <3>2. Writes(h)
      BY <2>1, <3>1, StepKinds DEF Moves, Submits
    <3>3. handlers[h].id = id /\ PendingWrite(h)
      BY <2>1, <3>2 DEF Writes, PendingWrite, Unsubmitted
    <3>4. handlers[h].op \in {"create", "approve", "deny"} /\ Working(h)
      BY <2>1, <3>1, StepFrame DEF Shapes, Formed, Working
    <3>5. ~Creating(h)
      BY <1>1, <2>1, <3>3 DEF Contest, RowOf
    <3>6. Choosing(h)
      BY <3>3, <3>5 DEF Choosing, Creating
    <3>7. Overtaken(h)
      BY <1>1, <2>1, <3>3, <3>6 DEF Contest, RowOf
    <3> QED
      BY <3>3, <3>4, <3>6, <3>7 DEF Overtaken, Decides, Choosing, Working, Finished
  <2> QED
    BY <1>1, <2>1, <2>2, <2>3, <2>4, <2>5 DEF PaymentsNext, Contested
<1>2. ContestInv /\ [PaymentsNext]_allVars =>
        [\A id \in Ids :
           rows[id].status \notin {"NONE", "CREATED", "HELD", rows'[id].status}
             => Contested(id)]_allVars
  BY <1>1
<1> QED
  BY <1>2, ContestAlways, PTL DEF PaymentsSpec, FinalUnlessContested

-----------------------------------------------------------------------------
(* The owner's decisions.  With one decision on a payment at a time it is  *)
(* paid at most once and the audit log tells its ending once.  All three   *)
(* hypotheses are needed: two approvals that overlap pay twice, and so     *)
(* does one that is repeated after a restart or a write that failed.       *)

(* A request that has yet to write its row.                                *)
Writing(h) == handlers[h].pc \in Unsubmitted \cup {"confirm", "record"}
Submitted(h) == handlers[h].pc \in {"confirm", "record"}
Undecided(id) == rows[id].status \in {"CREATED", "HELD"}

(* At most one request is about to write a row, and the row waits for it   *)
(* in the status that let it in; a submitted transaction is that request's *)
(* or the row is decided.                                                  *)
OneWriter ==
  /\ \A h \in Requests :
       Writing(h) => RowOf(h).status = IF handlers[h].op = "create" THEN "CREATED" ELSE "HELD"
  /\ \A g, h \in Requests :
       Writing(g) /\ Writing(h) /\ handlers[g].id = handlers[h].id => g = h
  /\ \A h \in Requests : handlers[h].pc \in Unsubmitted =>
       \A i \in DOMAIN txs : txs[i].id # handlers[h].id
  /\ \A i \in DOMAIN txs : Undecided(txs[i].id) =>
       \E h \in Requests : Submitted(h) /\ handlers[h].id = txs[i].id
  /\ \A i, k \in DOMAIN txs : txs[i].id = txs[k].id => i = k
  /\ \A i \in DOMAIN txs : rows[txs[i].id].status # "DENIED"

(* The ending of a payment is told by the request that decided it, or in   *)
(* the log, and nowhere else.                                              *)
Tells(h) == At(h, "audit") /\ handlers[h].log # "payment.held"
Ends(e) == e.action # "payment.held"
SaysPaid(action) == action \in {"payment.settled", "payment.approved"}

OneEnding ==
  /\ \A h \in Requests : Tells(h) =>
       /\ ~Undecided(handlers[h].id)
       /\ \A e \in audit : e.id = handlers[h].id => ~Ends(e)
       /\ SaysPaid(handlers[h].log) => Paid_(handlers[h].id)
  /\ \A g, h \in Requests : Tells(g) /\ Tells(h) /\ handlers[g].id = handlers[h].id => g = h
  /\ \A e \in audit :
       /\ e.id \in Ids /\ rows[e.id] # NoRow
       /\ Ends(e) => ~Undecided(e.id)
       /\ SaysPaid(e.action) => Paid_(e.id)
  /\ \A e, f \in audit : Ends(e) /\ Ends(f) /\ e.id = f.id => e = f

DecisionInv == BackendInv /\ OneWriter /\ OneEnding

(* Before any request arrives nobody is about to write a row, and no       *)
(* ending was told.                                                        *)
THEOREM InitDecision == PaymentsInit => DecisionInv
<1> SUFFICES ASSUME PaymentsInit PROVE DecisionInv
  OBVIOUS
<1>1. BackendInv
  BY InitBackend
<1>2. handlers = [h \in Requests |-> Idle] /\ txs = <<>> /\ audit = {} /\ Idle.pc = "idle"
  BY DEF PaymentsInit, Idle, Handler
<1>3. OneWriter
  BY <1>2 DEF OneWriter, Writing, Unsubmitted
<1>4. OneEnding
  BY <1>2 DEF OneEnding, Tells, At
<1> QED
  BY <1>1, <1>3, <1>4 DEF DecisionInv

(* What the invariants say of the keys and places of a request.            *)
LEMMA WriterFacts ==
  ASSUME Shapes, NEW h \in Requests, Writing(h)
  PROVE  /\ Working(h) /\ handlers[h].id \in Ids /\ RowOf(h) # NoRow
         /\ handlers[h].op \in {"create", "approve", "deny"}
<1>1. Working(h)
  BY DEF Writing, Working, Unsubmitted, Finished
<1> QED
  BY <1>1 DEF Shapes, Formed, Working

LEMMA MovesDecision ==
  ASSUME ~DbFaults, DecisionInv, NEW h \in Requests, Moves(h)
  PROVE  (OneWriter /\ OneEnding)'
<1>1. Shapes /\ OneWriter /\ OneEnding /\ Keeps(h) /\ rows' = rows /\ txs' = txs
  BY DEF DecisionInv, BackendInv, Moves
<1>2. ASSUME NEW g \in Requests
      PROVE  /\ Writing(g)' => /\ Writing(g)
                               /\ handlers'[g].id = handlers[g].id /\ handlers'[g].op = handlers[g].op
             /\ handlers'[g].pc \in Unsubmitted => handlers[g].pc \in Unsubmitted
             /\ Submitted(g) => Submitted(g)' /\ handlers'[g].id = handlers[g].id
             /\ Tells(g)' => Tells(g) /\ g # h /\ handlers'[g] = handlers[g]
  <2>1. CASE g = h
    BY <1>1, <2>1 DEF Moves, Keeps, Writing, Unsubmitted, Submitted, Tells, At
  <2>2. CASE g # h
    BY <1>1, <2>2 DEF Keeps, Writing, Submitted, Tells, At
  <2> QED
    BY <2>1, <2>2
<1>3. OneWriter'
  <2>1. \A g \in Requests : handlers'[g].pc \in Unsubmitted => Writing(g)'
    BY DEF Writing
  <2>2. \A g \in Requests : handlers'[g].pc \in Unsubmitted =>
          \A i \in DOMAIN txs : txs[i].id # handlers'[g].id
    BY <1>1, <1>2, <2>1 DEF OneWriter
  <2>3. \A g \in Requests : Writing(g)' => RowOf(g)' = RowOf(g)
    BY <1>1, <1>2 DEF RowOf
  <2> QED
    BY <1>1, <1>2, <2>2, <2>3 DEF OneWriter, Undecided
<1>4. CASE UNCHANGED audit
  BY <1>1, <1>2, <1>3, <1>4 DEF OneEnding, Undecided, Paid_
<1>5. CASE /\ handlers[h].pc = "audit"
           /\ audit' = audit \cup {[id |-> handlers[h].id, action |-> handlers[h].log]}
  <2> DEFINE new == [id |-> handlers[h].id, action |-> handlers[h].log]
  <2>1. new.id = handlers[h].id /\ new.action = handlers[h].log /\ audit' = audit \cup {new}
    BY <1>5
  <2> HIDE DEF new
  <2>2. handlers[h].id \in Ids /\ rows[handlers[h].id] # NoRow
    BY <1>1, <1>5 DEF Shapes, Formed, Working, Finished, RowOf
  <2>3. Ends(new) => Tells(h)
    BY <1>5, <2>1 DEF Ends, Tells, At
  <2>4. SaysPaid(new.action) => Ends(new)
    BY DEF SaysPaid, Ends
  <2>5. ASSUME NEW g \in Requests, Tells(g)', NEW e \in audit', e.id = handlers[g].id
        PROVE  ~Ends(e)
    BY <1>1, <1>2, <2>1, <2>3, <2>5 DEF OneEnding
  <2>6. ASSUME NEW e \in audit'
        PROVE  /\ e.id \in Ids /\ rows[e.id] # NoRow
               /\ Ends(e) => ~Undecided(e.id)
               /\ SaysPaid(e.action) => Paid_(e.id)
    <3>1. CASE e \in audit
      BY <1>1, <3>1 DEF OneEnding
    <3>2. CASE e = new
      BY <1>1, <2>1, <2>2, <2>3, <2>4, <3>2 DEF OneEnding
    <3> QED
      BY <2>1, <3>1, <3>2
  <2>7. \A e, f \in audit' : Ends(e) /\ Ends(f) /\ e.id = f.id => e = f
    BY <1>1, <2>1, <2>3 DEF OneEnding
  <2>8. \A g \in Requests : Tells(g)' =>
          /\ ~Undecided(handlers[g].id)
          /\ SaysPaid(handlers[g].log) => Paid_(handlers[g].id)
          /\ handlers'[g] = handlers[g]
    BY <1>1, <1>2 DEF OneEnding
  <2>9. \A f, g \in Requests :
          Tells(f)' /\ Tells(g)' /\ handlers'[f].id = handlers'[g].id => f = g
    BY <1>1, <1>2 DEF OneEnding
  <2>10. OneEnding'
    BY <1>1, <2>5, <2>6, <2>7, <2>8, <2>9 DEF OneEnding, Undecided, Paid_, Ends
  <2> QED
    BY <1>3, <2>10
<1> QED
  BY <1>4, <1>5, <1>3 DEF Moves

LEMMA WritesDecision ==
  ASSUME DecisionInv, NEW h \in Requests, Writes(h)
  PROVE  (OneWriter /\ OneEnding)'
<1>0. PICK id \in Ids : id = handlers[h].id
  BY WriterFacts DEF DecisionInv, BackendInv, Writes, Writing, Unsubmitted
<1>1. /\ Shapes /\ Ledger /\ OneWriter /\ OneEnding /\ Keeps(h) /\ txs' = txs /\ audit' = audit
      /\ \A k \in Ids \ {id} : rows'[k] = rows[k]
      /\ rows'[id] # NoRow
      /\ handlers[h].pc \in {"fail", "hold", "record_offline", "record", "deny"}
      /\ handlers'[h].pc \in {"done", "audit"}
      /\ rows'[id].status # "CREATED"
      /\ rows'[id].status = "HELD" <=> handlers[h].pc = "hold"
      /\ rows'[id].status = "DENIED" <=> handlers[h].pc = "deny"
      /\ handlers'[h].pc = "audit" =>
           /\ handlers'[h].log = "payment.held" <=> handlers[h].pc = "hold"
           /\ SaysPaid(handlers'[h].log) => handlers[h].pc = "record" /\ handlers[h].ok
  BY <1>0 DEF DecisionInv, BackendInv, Writes, SaysPaid
<1>2. Writing(h) /\ id \in Ids /\ rows[id].status \in {"CREATED", "HELD"}
  <2>1. Writing(h)
    BY <1>1 DEF Writing, Unsubmitted
  <2>2. RowOf(h).status \in {"CREATED", "HELD"}
    BY <1>1, <2>1 DEF OneWriter
  <2> QED
    BY <1>0, <2>1, <2>2 DEF RowOf
<1>3. \A i \in DOMAIN txs : txs[i].id \in Ids
  BY <1>1, TxIds
<1>4. id = handlers[h].id /\ handlers'[h].id = id
  BY <1>0, <1>1 DEF Keeps
<1>5. ASSUME NEW g \in Requests, Writing(g)'
      PROVE  /\ g # h /\ Writing(g) /\ handlers'[g] = handlers[g]
             /\ handlers[g].id \in Ids \ {id}
  <2>1. g # h
    BY <1>1, <1>5 DEF Writing, Unsubmitted
  <2>2. Writing(g) /\ handlers'[g] = handlers[g]
    BY <1>1, <1>5, <2>1 DEF Writing, Keeps
  <2> QED
    BY <1>1, <1>2, <1>4, <2>1, <2>2, WriterFacts DEF OneWriter
<1>6. OneWriter'
  <2>1. ASSUME NEW g \in Requests, Writing(g)'
        PROVE  /\ RowOf(g)' = RowOf(g)
    BY <1>1, <1>5, <2>1 DEF RowOf
  <2>2. ASSUME NEW g \in Requests, handlers'[g].pc \in Unsubmitted
        PROVE  \A i \in DOMAIN txs : txs[i].id # handlers'[g].id
    <3>1. Writing(g)'
      BY <2>2 DEF Writing
    <3> QED
      BY <1>1, <1>5, <2>2, <3>1 DEF OneWriter
  <2>3. ASSUME NEW i \in DOMAIN txs, Undecided(txs[i].id)'
        PROVE  \E g \in Requests : Submitted(g)' /\ handlers'[g].id = txs[i].id
    <3>1. CASE txs[i].id = id
      <4>1. handlers[h].pc = "hold"
        BY <1>1, <2>3, <3>1 DEF Undecided
      <4> QED
        BY <1>1, <1>4, <3>1, <4>1 DEF OneWriter, Unsubmitted
    <3>2. CASE txs[i].id # id
      <4>1. Undecided(txs[i].id)
        BY <1>1, <1>3, <2>3, <3>2 DEF Undecided
      <4>2. PICK g \in Requests : Submitted(g) /\ handlers[g].id = txs[i].id
        BY <1>1, <4>1 DEF OneWriter
      <4>3. g # h /\ handlers'[g] = handlers[g]
        BY <1>1, <1>4, <3>2, <4>2 DEF Keeps
      <4> QED
        BY <4>2, <4>3 DEF Submitted
    <3> QED
      BY <3>1, <3>2
  <2>4. ASSUME NEW i \in DOMAIN txs PROVE rows'[txs[i].id].status # "DENIED"
    <3>1. CASE txs[i].id = id
      BY <1>1, <1>4, <3>1 DEF OneWriter, Unsubmitted
    <3>2. CASE txs[i].id # id
      BY <1>1, <1>3, <3>2 DEF OneWriter
    <3> QED
      BY <3>1, <3>2
  <2> QED
    BY <1>1, <1>5, <2>1, <2>2, <2>3, <2>4 DEF OneWriter
<1>7. OneEnding'
  <2>1. \A k \in Ids : rows[k] # NoRow => rows'[k] # NoRow
    BY <1>1
  <2>2. ASSUME NEW k \in Ids, ~Undecided(k) PROVE k # id /\ ~Undecided(k)'
    BY <1>1, <1>2, <2>2 DEF Undecided
  <2>3. \A e \in audit : e.id = id => ~Ends(e)
    BY <1>1, <1>2 DEF OneEnding, Undecided
  <2>4. \A g \in Requests : Tells(g) => handlers[g].id \in Ids \ {id}
    <3>1. \A g \in Requests : Tells(g) => handlers[g].id \in Ids
      BY <1>1 DEF Tells, At, Shapes, Formed, Finished
    <3>2. \A g \in Requests : Tells(g) => ~Undecided(handlers[g].id)
      BY <1>1 DEF OneEnding
    <3> QED
      BY <1>2, <3>1, <3>2 DEF Undecided
  <2>5. ASSUME NEW g \in Requests, Tells(g)', g # h
        PROVE  Tells(g) /\ handlers'[g] = handlers[g]
    BY <1>1, <2>5 DEF Keeps, Tells, At
  <2>6. ASSUME Tells(h)'
        PROVE  ~Undecided(id)' /\ (SaysPaid(handlers'[h].log) => Paid_(id))
    <3>1. handlers[h].pc # "hold"
      BY <1>1, <2>6 DEF Tells, At
    <3>2. ~Undecided(id)'
      BY <1>1, <3>1 DEF Undecided
    <3>3. SaysPaid(handlers'[h].log) => Paid_(id)
      BY <1>1, <1>4, <2>6 DEF Tells, At, Ledger
    <3> QED
      BY <3>2, <3>3
  <2>7. ASSUME NEW g \in Requests, Tells(g)'
        PROVE  (/\ ~Undecided(handlers[g].id)
                /\ \A e \in audit : e.id = handlers[g].id => ~Ends(e)
                /\ SaysPaid(handlers[g].log) => Paid_(handlers[g].id))'
    <3>1. CASE g = h
      BY <1>1, <1>4, <2>3, <2>6, <2>7, <3>1 DEF Undecided, Paid_, SaysPaid, Ends
    <3>2. CASE g # h
      <4>1. Tells(g) /\ handlers'[g] = handlers[g] /\ handlers[g].id \in Ids
        BY <2>4, <2>5, <2>7, <3>2
      <4>2. /\ ~Undecided(handlers[g].id)
            /\ \A e \in audit : e.id = handlers[g].id => ~Ends(e)
            /\ SaysPaid(handlers[g].log) => Paid_(handlers[g].id)
        BY <1>1, <4>1 DEF OneEnding
      <4>3. rows'[handlers[g].id] = rows[handlers[g].id]
        BY <1>1, <2>4, <4>1
      <4> QED
        BY <1>1, <4>1, <4>2, <4>3 DEF Undecided, Paid_, SaysPaid, Ends
    <3> QED
      BY <3>1, <3>2
  <2>8. \A f, g \in Requests :
          Tells(f)' /\ Tells(g)' /\ handlers'[f].id = handlers'[g].id => f = g
    BY <1>1, <1>4, <2>4, <2>5 DEF OneEnding
  <2>9. ASSUME NEW e \in audit
        PROVE  (/\ e.id \in Ids /\ rows[e.id] # NoRow
                /\ Ends(e) => ~Undecided(e.id)
                /\ SaysPaid(e.action) => Paid_(e.id))'
    BY <1>1, <2>1, <2>2 DEF OneEnding, Paid_, SaysPaid, Ends
  <2> QED
    BY <1>1, <2>7, <2>8, <2>9 DEF OneEnding, Ends
<1> QED
  BY <1>6, <1>7

LEMMA SubmitsDecision ==
  ASSUME DecisionInv, NEW h \in Requests, Submits(h)
  PROVE  (OneWriter /\ OneEnding)'
<1>1. /\ Shapes /\ OneWriter /\ OneEnding /\ Keeps(h) /\ rows' = rows /\ audit' = audit
      /\ handlers[h].pc = "submit" /\ handlers'[h].pc \in {"confirm", "record"}
  BY DEF DecisionInv, BackendInv, Submits
<1>2. PICK id \in Ids : id = handlers[h].id /\ id = handlers'[h].id
  BY <1>1, WriterFacts DEF Writing, Unsubmitted, Keeps
<1>3. PICK tx \in TxRecords : tx.id = id /\ tx.status = "sent" /\ txs' = Append(txs, tx)
  BY <1>2 DEF Submits
<1>4. PICK n : /\ DOMAIN txs' = DOMAIN txs \cup {n} /\ n \notin DOMAIN txs
               /\ \A i \in DOMAIN txs : txs'[i] = txs[i]
               /\ txs'[n] = tx
  BY <1>1, <1>3, TxAppended
<1>5. /\ Writing(h) /\ Submitted(h)'
      /\ rows[id].status \in {"CREATED", "HELD"}
      /\ \A i \in DOMAIN txs : txs[i].id # id
  <2>1. Writing(h) /\ Submitted(h)' /\ handlers[h].pc \in Unsubmitted
    BY <1>1 DEF Writing, Submitted, Unsubmitted
  <2>2. RowOf(h).status \in {"CREATED", "HELD"}
    BY <1>1, <2>1 DEF OneWriter
  <2> QED
    BY <1>1, <1>2, <2>1, <2>2 DEF OneWriter, RowOf
<1>6. ASSUME NEW g \in Requests
      PROVE  /\ Writing(g)' => /\ Writing(g)
                               /\ handlers'[g].id = handlers[g].id /\ handlers'[g].op = handlers[g].op
             /\ handlers'[g].pc \in Unsubmitted =>
                  g # h /\ handlers'[g] = handlers[g] /\ Writing(g)
             /\ Submitted(g) => Submitted(g)' /\ handlers'[g].id = handlers[g].id
             /\ Tells(g)' => Tells(g) /\ handlers'[g] = handlers[g]
  <2>1. CASE g = h
    BY <1>1, <1>5, <2>1 DEF Keeps, Submitted, Unsubmitted, Tells, At
  <2>2. CASE g # h
    BY <1>1, <2>2 DEF Keeps, Writing, Submitted, Tells, At
  <2> QED
    BY <2>1, <2>2
<1>7. OneWriter'
  <2>1. ASSUME NEW g \in Requests, handlers'[g].pc \in Unsubmitted, NEW i \in DOMAIN txs'
        PROVE  txs'[i].id # handlers'[g].id
    <3>1. /\ g # h /\ Writing(g) /\ handlers'[g] = handlers[g]
          /\ handlers[g].id # id
      BY <1>1, <1>2, <1>5, <1>6, <2>1 DEF OneWriter
    <3>2. CASE i = n
      BY <1>3, <1>4, <3>1, <3>2
    <3>3. CASE i \in DOMAIN txs
      BY <1>1, <1>4, <2>1, <3>1, <3>3 DEF OneWriter
    <3> QED
      BY <1>4, <3>2, <3>3
  <2>2. ASSUME NEW i \in DOMAIN txs', Undecided(txs[i].id)'
        PROVE  \E g \in Requests : Submitted(g)' /\ handlers'[g].id = txs'[i].id
    <3>1. CASE i = n
      BY <1>2, <1>3, <1>4, <1>5, <3>1
    <3>2. CASE i \in DOMAIN txs
      <4>1. Undecided(txs[i].id)
        BY <1>1, <1>4, <2>2, <3>2 DEF Undecided
      <4> QED
        BY <1>1, <1>4, <1>6, <3>2, <4>1 DEF OneWriter
    <3> QED
      BY <1>4, <3>1, <3>2
  <2>3. \A i, k \in DOMAIN txs' : txs'[i].id = txs'[k].id => i = k
    BY <1>1, <1>3, <1>4, <1>5 DEF OneWriter
  <2>4. \A i \in DOMAIN txs' : rows'[txs'[i].id].status # "DENIED"
    BY <1>1, <1>3, <1>4, <1>5 DEF OneWriter
  <2>5. \A g \in Requests : Writing(g)' => RowOf(g)' = RowOf(g)
    BY <1>1, <1>6 DEF RowOf
  <2> QED
    BY <1>1, <1>6, <2>1, <2>2, <2>3, <2>4, <2>5 DEF OneWriter, Undecided
<1>8. OneEnding'
  <2>1. \A k : Paid_(k) => Paid_(k)'
    BY <1>4 DEF Paid_
  <2>2. ASSUME NEW g \in Requests, Tells(g)'
        PROVE  (/\ ~Undecided(handlers[g].id)
                /\ \A e \in audit : e.id = handlers[g].id => ~Ends(e)
                /\ SaysPaid(handlers[g].log) => Paid_(handlers[g].id))'
    <3>1. Tells(g) /\ handlers'[g] = handlers[g]
      BY <1>6, <2>2
    <3>2. PICK k : k = handlers[g].id /\ k = handlers'[g].id
      BY <3>1
    <3>3. Paid_(k) => Paid_(k)'
      BY <2>1
    <3>4. SaysPaid(handlers[g].log) => Paid_(k)
      BY <1>1, <3>1, <3>2 DEF OneEnding
    <3>5. (SaysPaid(handlers[g].log) => Paid_(handlers[g].id))'
      BY <3>1, <3>2, <3>3, <3>4 DEF Paid_, SaysPaid
    <3> QED
      BY <1>1, <3>1, <3>5 DEF OneEnding, Undecided, Ends
  <2>3. ASSUME NEW e \in audit
        PROVE  (/\ e.id \in Ids /\ rows[e.id] # NoRow
                /\ Ends(e) => ~Undecided(e.id)
                /\ SaysPaid(e.action) => Paid_(e.id))'
    BY <1>1, <2>1 DEF OneEnding, Undecided, Ends, SaysPaid
  <2>4. \A f, g \in Requests :
          Tells(f)' /\ Tells(g)' /\ handlers'[f].id = handlers'[g].id => f = g
    BY <1>1, <1>6 DEF OneEnding
  <2> QED
    BY <1>1, <2>2, <2>3, <2>4 DEF OneEnding, Ends
<1> QED
  BY <1>7, <1>8

-----------------------------------------------------------------------------
(* A request that arrives.                                                 *)
LEMMA CreateDecision ==
  ASSUME DecisionInv, NEW h \in Requests, NEW id \in Ids, NEW amount \in Amounts,
         NEW r \in Recipients, NEW c \in Contexts, create(h, id, amount, r, c)
  PROVE  (OneWriter /\ OneEnding)'
<1>1. Shapes /\ OneWriter /\ OneEnding /\ UNCHANGED <<txs, audit>> /\ At(h, "idle")
  BY DEF DecisionInv, BackendInv, create
<1>2. /\ "fetch" \in Places /\ "done" \in Places /\ "create" \in {"create", "approve", "deny"}
      /\ \A i \in DOMAIN txs : txs[i].id \in Ids
  BY <1>1, TxIds DEF Places
<1>3. CASE rows[id] # NoRow
  <2>1. Begin(h, "create", id, "done") /\ rows' = rows
    BY <1>3 DEF create
  <2>2. /\ \A g \in Requests \ {h} : handlers'[g] = handlers[g]
        /\ handlers'[h].pc = "done"
    BY <1>1, <1>2, <2>1, Begins
  <2>3. \A g \in Requests : g = h => ~Writing(g)' /\ ~Tells(g)' /\ ~Submitted(g)
    BY <1>1, <2>2 DEF Writing, Tells, Submitted, Unsubmitted, At
  <2>4. \A g \in Requests : (Writing(g)' \/ Tells(g)' \/ Submitted(g)) => handlers'[g] = handlers[g]
    BY <2>2, <2>3
  <2>5. OneWriter'
    <3>1. ASSUME NEW g \in Requests, handlers'[g].pc \in Unsubmitted
          PROVE  handlers'[g] = handlers[g]
      BY <2>4, <3>1 DEF Writing
    <3>2. ASSUME NEW i \in DOMAIN txs, Undecided(txs[i].id)
          PROVE  \E g \in Requests : Submitted(g)' /\ handlers'[g].id = txs[i].id
      BY <1>1, <2>4, <3>2 DEF OneWriter, Submitted
    <3>3. \A g \in Requests : Writing(g)' => Writing(g) /\ RowOf(g)' = RowOf(g)
      BY <2>1, <2>4 DEF Writing, RowOf
    <3> QED
      BY <1>1, <2>1, <2>4, <3>1, <3>2, <3>3 DEF OneWriter, Undecided
  <2>6. \A g \in Requests : Tells(g)' => Tells(g)
    BY <2>4 DEF Tells, At
  <2>7. OneEnding'
    BY <1>1, <2>1, <2>4, <2>6 DEF OneEnding, Undecided, Ends, SaysPaid, Paid_
  <2> QED
    BY <2>5, <2>7
<1>4. CASE rows[id] = NoRow
  <2> DEFINE new == [status |-> "CREATED", amount |-> amount, signature |-> 0,
                     recipient |-> r, context |-> c]
  <2>1. Begin(h, "create", id, "fetch") /\ rows' = [rows EXCEPT ![id] = new]
    BY <1>4 DEF create
  <2>2. new.status = "CREATED" /\ new # NoRow
    BY DEF NoRow
  <2> HIDE DEF new
  <2>3. /\ \A g \in Requests \ {h} : handlers'[g] = handlers[g]
        /\ handlers'[h].pc = "fetch" /\ handlers'[h].op = "create" /\ handlers'[h].id = id
    BY <1>1, <1>2, <2>1, Begins
  <2>4. rows'[id] = new /\ \A k \in Ids \ {id} : rows'[k] = rows[k]
    BY <1>1, <2>1 DEF Shapes
  <2>5. /\ \A i \in DOMAIN txs : txs[i].id \in Ids \ {id}
        /\ \A g \in Requests : Writing(g) => handlers[g].id \in Ids \ {id}
        /\ \A g \in Requests : Tells(g) => handlers[g].id \in Ids \ {id}
        /\ \A e \in audit : e.id \in Ids \ {id}
    <3>1. \A i \in DOMAIN txs : txs[i].id \in Ids \ {id}
      BY <1>1, <1>4, TxIds
    <3>2. \A g \in Requests : Writing(g) => handlers[g].id \in Ids \ {id}
      BY <1>1, <1>4, WriterFacts DEF RowOf
    <3>3. \A g \in Requests : Tells(g) => handlers[g].id \in Ids \ {id}
      BY <1>1, <1>4 DEF Tells, At, Shapes, Formed, Working, Finished, RowOf
    <3>4. \A e \in audit : e.id \in Ids \ {id}
      BY <1>1, <1>4 DEF OneEnding
    <3> QED
      BY <3>1, <3>2, <3>3, <3>4
  <2>6. ASSUME NEW g \in Requests, g # h
        PROVE  /\ handlers'[g] = handlers[g] /\ Writing(g)' = Writing(g)
               /\ Tells(g)' = Tells(g) /\ Submitted(g)' = Submitted(g)
    BY <2>3, <2>6 DEF Writing, Tells, Submitted, At
  <2>7. ~Writing(h) /\ ~Submitted(h) /\ ~Tells(h)'
    BY <1>1, <2>3 DEF Writing, Submitted, Unsubmitted, Tells, At
  <2>8. OneWriter'
    <3>1. ASSUME NEW g \in Requests, Writing(g)', g # h PROVE RowOf(g)' = RowOf(g)
      BY <2>4, <2>5, <2>6, <3>1 DEF RowOf
    <3>2. ASSUME NEW g \in Requests, Writing(g)'
          PROVE  RowOf(g)'.status = IF handlers'[g].op = "create" THEN "CREATED" ELSE "HELD"
      <4>1. CASE g = h
        BY <2>2, <2>3, <2>4, <4>1 DEF RowOf
      <4>2. CASE g # h
        BY <1>1, <2>6, <3>1, <3>2, <4>2 DEF OneWriter
      <4> QED
        BY <4>1, <4>2
    <3>3. \A f, g \in Requests :
            Writing(f)' /\ Writing(g)' /\ handlers'[f].id = handlers'[g].id => f = g
      BY <1>1, <2>3, <2>5, <2>6 DEF OneWriter
    <3>4. ASSUME NEW g \in Requests, handlers'[g].pc \in Unsubmitted
          PROVE  \A i \in DOMAIN txs : txs[i].id # handlers'[g].id
      BY <1>1, <2>3, <2>5, <2>6, <3>4 DEF OneWriter
    <3>5. ASSUME NEW i \in DOMAIN txs, Undecided(txs[i].id)'
          PROVE  \E g \in Requests : Submitted(g)' /\ handlers'[g].id = txs[i].id
      <4>1. Undecided(txs[i].id)
        BY <1>1, <2>4, <2>5, <3>5 DEF Undecided
      <4> QED
        BY <1>1, <2>6, <2>7, <4>1 DEF OneWriter
    <3>6. \A i \in DOMAIN txs : rows'[txs[i].id].status # "DENIED"
      BY <1>1, <2>4, <2>5 DEF OneWriter
    <3> QED
      BY <1>1, <3>2, <3>3, <3>4, <3>5, <3>6 DEF OneWriter
  <2>9. OneEnding'
    <3>1. ASSUME NEW g \in Requests, Tells(g)'
          PROVE  /\ Tells(g) /\ handlers'[g] = handlers[g]
                 /\ rows'[handlers[g].id] = rows[handlers[g].id]
      BY <2>4, <2>5, <2>6, <2>7, <3>1
    <3>2. \A e \in audit : rows'[e.id] = rows[e.id]
      BY <2>4, <2>5
    <3> QED
      BY <1>1, <3>1, <3>2 DEF OneEnding, Undecided, Ends, SaysPaid, Paid_
  <2> QED
    BY <2>8, <2>9
<1> QED
  BY <1>3, <1>4

(* The hypothesis is used here: no other decision on the row is under way. *)
LEMMA DecideDecision ==
  ASSUME Serial, DecisionInv, NEW h \in Requests, NEW id \in Ids,
         NEW op \in {"approve", "deny"}, decide(h, op, id)
  PROVE  (OneWriter /\ OneEnding)'
<1>1. /\ Shapes /\ OneWriter /\ OneEnding /\ UNCHANGED <<rows, txs, audit>>
      /\ At(h, "idle") /\ ~Deciding(id)
  BY DEF DecisionInv, BackendInv, decide
<1> DEFINE place == IF rows[id].status # "HELD" THEN "done"
                    ELSE IF op = "deny" THEN "deny" ELSE "fetch"
<1>2. /\ Begin(h, op, id, place) /\ place \in {"done", "deny", "fetch"} /\ place \in Places
      /\ place # "done" => rows[id].status = "HELD"
  BY DEF decide, Places
<1> HIDE DEF place
<1>3. /\ \A g \in Requests \ {h} : handlers'[g] = handlers[g]
      /\ handlers'[h].pc = place /\ handlers'[h].op = op /\ handlers'[h].id = id
  BY <1>1, <1>2, Begins
<1>4. ASSUME NEW g \in Requests, g # h
      PROVE  /\ handlers'[g] = handlers[g] /\ Writing(g)' = Writing(g)
             /\ Tells(g)' = Tells(g) /\ Submitted(g)' = Submitted(g)
  BY <1>3, <1>4 DEF Writing, Tells, Submitted, At
<1>5. ~Writing(h) /\ ~Submitted(h) /\ ~Tells(h)'
  BY <1>1, <1>2, <1>3 DEF Writing, Submitted, Unsubmitted, Tells, At
<1>6. ASSUME rows[id].status = "HELD", NEW g \in Requests, Writing(g)
      PROVE  handlers[g].id # id
  <2> SUFFICES ASSUME handlers[g].id = id PROVE FALSE
    OBVIOUS
  <2>1. handlers[g].op \in {"create", "approve", "deny"} /\ handlers[g].op # "create"
    BY <1>1, <1>6, WriterFacts DEF OneWriter, RowOf
  <2>2. ~At(g, "done")
    BY <1>6 DEF Writing, Unsubmitted, At
  <2> QED
    BY <1>1, <2>1, <2>2 DEF Deciding
<1>7. ASSUME Writing(h)'
      PROVE  /\ rows[id].status = "HELD"
             /\ \A i \in DOMAIN txs : txs[i].id # id
  <2>1. rows[id].status = "HELD"
    BY <1>2, <1>3, <1>7 DEF Writing, Unsubmitted
  <2>2. ASSUME NEW i \in DOMAIN txs PROVE txs[i].id # id
    <3> SUFFICES ASSUME txs[i].id = id PROVE FALSE
      OBVIOUS
    <3>1. PICK g \in Requests : Submitted(g) /\ handlers[g].id = id
      BY <1>1, <2>1 DEF OneWriter, Undecided
    <3> QED
      BY <1>6, <2>1, <3>1 DEF Submitted, Writing
  <2> QED
    BY <2>1, <2>2
<1>8. OneWriter'
  <2>1. ASSUME NEW g \in Requests, Writing(g)'
        PROVE  RowOf(g)'.status = IF handlers'[g].op = "create" THEN "CREATED" ELSE "HELD"
    <3>1. CASE g = h
      BY <1>1, <1>3, <1>7, <2>1, <3>1 DEF RowOf
    <3>2. CASE g # h
      BY <1>1, <1>4, <2>1, <3>2 DEF OneWriter, RowOf
    <3> QED
      BY <3>1, <3>2
  <2>2. ASSUME NEW f \in Requests, NEW g \in Requests, Writing(f)', Writing(g)',
               handlers'[f].id = handlers'[g].id
        PROVE  f = g
    BY <1>1, <1>3, <1>4, <1>6, <1>7, <2>2 DEF OneWriter
  <2>3. ASSUME NEW g \in Requests, handlers'[g].pc \in Unsubmitted
        PROVE  \A i \in DOMAIN txs : txs[i].id # handlers'[g].id
    <3>1. Writing(g)'
      BY <2>3 DEF Writing
    <3> QED
      BY <1>1, <1>3, <1>4, <1>7, <2>3, <3>1 DEF OneWriter
  <2>4. ASSUME NEW i \in DOMAIN txs, Undecided(txs[i].id)
        PROVE  \E g \in Requests : Submitted(g)' /\ handlers'[g].id = txs[i].id
    BY <1>1, <1>4, <1>5, <2>4 DEF OneWriter
  <2> QED
    BY <1>1, <2>1, <2>2, <2>3, <2>4 DEF OneWriter, Undecided
<1>9. OneEnding'
  <2>1. \A g \in Requests : Tells(g)' => Tells(g) /\ handlers'[g] = handlers[g]
    BY <1>4, <1>5
  <2> QED
    BY <1>1, <2>1 DEF OneEnding, Undecided, Ends, SaysPaid, Paid_
<1> QED
  BY <1>8, <1>9

-----------------------------------------------------------------------------
(* The network and the chain.                                              *)
LEMMA TxDecision ==
  ASSUME DecisionInv, NEW i \in DOMAIN txs, TxStep(i)
  PROVE  (OneWriter /\ OneEnding)'
<1>1. Shapes /\ Ledger /\ OneWriter /\ OneEnding
  BY DEF DecisionInv, BackendInv
<1>2. UNCHANGED <<rows, handlers, audit>> /\ \E status : Resolves(i, status)
  <2>1. CASE land(i)
    BY <1>1, <2>1, LandKinds
  <2>2. CASE expire(i)
    BY <1>1, <2>2, TxResolves DEF expire
  <2> QED
    BY <2>1, <2>2 DEF TxStep
<1>3. /\ DOMAIN txs' = DOMAIN txs /\ \A k \in DOMAIN txs : txs'[k].id = txs[k].id
      /\ \A k : Paid_(k) => Paid_(k)'
  BY <1>2 DEF Resolves, Paid_
<1>4. OneWriter'
  BY <1>1, <1>2, <1>3 DEF OneWriter, Writing, Submitted, RowOf, Undecided
<1>5. OneEnding'
  <2>1. ASSUME NEW h \in Requests, Tells(h), SaysPaid(handlers[h].log)
        PROVE  Paid_(handlers[h].id)'
    <3>1. PICK k : k = handlers[h].id /\ k = handlers'[h].id
      BY <1>2
    <3>2. Paid_(k)
      BY <1>1, <2>1, <3>1 DEF OneEnding
    <3> QED
      BY <1>3, <3>1, <3>2 DEF Paid_
  <2> QED
    BY <1>1, <1>2, <1>3, <2>1 DEF OneEnding, Tells, At, Undecided, Ends, SaysPaid
<1> QED
  BY <1>4, <1>5

LEMMA QuietDecision ==
  ASSUME OneWriter, OneEnding, UNCHANGED <<rows, handlers, txs, audit>>
  PROVE  (OneWriter /\ OneEnding)'
<1> QED
  BY DEF OneWriter, OneEnding, Writing, Submitted, RowOf, Undecided, Tells, At, Ends, SaysPaid,
         Paid_

(* Only a restart counts as one.                                           *)
LEMMA OnlyCrashCounts ==
  ASSUME PaymentsNext, ~crash
  PROVE  crashes' = crashes
<1>1. ASSUME NEW h \in Requests, RequestArrives(h) PROVE crashes' = crashes
  BY <1>1 DEF RequestArrives, create, decide
<1>2. ASSUME NEW h \in Requests, BackendStep(h) PROVE crashes' = crashes
  BY <1>2, HandlerFrame DEF BackendStep
<1>3. ASSUME NEW i \in DOMAIN txs, TxStep(i) PROVE crashes' = crashes
  BY <1>3 DEF TxStep, land, expire
<1>4. CASE chainStep
  BY <1>4 DEF chainStep, backend
<1> QED
  BY <1>1, <1>2, <1>3, <1>4 DEF PaymentsNext

SerialInv == DecisionInv /\ crashes = 0 /\ ~DbFaults

LEMMA StepSerial ==
  ASSUME Serial, MaxCrashes = 0, SerialInv, [PaymentsNext]_allVars
  PROVE  SerialInv'
<1>1. /\ DecisionInv /\ BackendInv /\ Shapes /\ OneWriter /\ OneEnding /\ ~crash
      /\ ~DbFaults
  BY DEF SerialInv, DecisionInv, BackendInv, crash
<1>2. BackendInv'
  BY <1>1, StepBackend
<1>3. crashes' = 0
  BY <1>1, OnlyCrashCounts DEF SerialInv, allVars, backend
<1>4. (OneWriter /\ OneEnding)'
  <2>1. ASSUME NEW h \in Requests, RequestArrives(h)
        PROVE  (OneWriter /\ OneEnding)'
    BY <1>1, <2>1, CreateDecision, DecideDecision DEF RequestArrives
  <2>2. ASSUME NEW h \in Requests, BackendStep(h)
        PROVE  (OneWriter /\ OneEnding)'
    <3>1. Moves(h) \/ Writes(h) \/ Submits(h)
      BY <1>1, <2>2, StepKinds DEF BackendStep
    <3> QED
      BY <1>1, <3>1, MovesDecision, WritesDecision, SubmitsDecision
  <2>3. ASSUME NEW i \in DOMAIN txs, TxStep(i)
        PROVE  (OneWriter /\ OneEnding)'
    BY <1>1, <2>3, TxDecision
  <2>4. CASE chainStep
    BY <1>1, <2>4, QuietDecision DEF chainStep, backend
  <2>5. CASE UNCHANGED allVars
    BY <1>1, <2>5, QuietDecision DEF allVars, backend
  <2> QED
    BY <1>1, <2>1, <2>2, <2>3, <2>4, <2>5 DEF PaymentsNext
<1> QED
  BY <1>2, <1>3, <1>4 DEF SerialInv, DecisionInv

(* With decisions one at a time and no restart, a row has one writer and   *)
(* its story one ending.                                                   *)
THEOREM SerialAlways ==
  ASSUME Serial, MaxCrashes = 0, ~DbFaults
  PROVE  PaymentsSpec => []SerialInv
<1>1. PaymentsInit => SerialInv
  BY InitDecision DEF SerialInv, PaymentsInit
<1>2. SerialInv /\ [PaymentsNext]_allVars => SerialInv'
  BY StepSerial
<1> QED
  BY <1>1, <1>2, PTL DEF PaymentsSpec

-----------------------------------------------------------------------------
(* One intent is paid at most once, through its creation or a decision,    *)
(* whatever calls fail and whatever answers are lost.                      *)
THEOREM PaidOnce ==
  ASSUME Serial, MaxCrashes = 0, ~DbFaults
  PROVE  PaymentsSpec => []AtMostOncePaid
<1>1. SerialInv => AtMostOncePaid
  <2> SUFFICES ASSUME SerialInv, NEW id \in Ids PROVE Cardinality(Landed(id)) <= 1
    BY DEF AtMostOncePaid
  <2>1. \A x, y \in Landed(id) : x = y
    BY DEF SerialInv, DecisionInv, OneWriter, Landed
  <2> QED
    BY <2>1, AtMostOne
<1> QED
  BY <1>1, SerialAlways, PTL

(* The audit log tells at most one ending of a payment, and says that      *)
(* money moved only when it did.                                           *)
THEOREM OneStory ==
  ASSUME Serial, MaxCrashes = 0, ~DbFaults
  PROVE  PaymentsSpec => []AuditTellsOneStory
<1>1. SerialInv => AuditTellsOneStory
  <2> SUFFICES ASSUME SerialInv, NEW id \in Ids
               PROVE  /\ Cardinality(Endings(id)) <= 1
                      /\ \A e \in Endings(id) :
                           e.action \in {"payment.settled", "payment.approved"}
                             => Landed(id) # {}
    BY DEF AuditTellsOneStory
  <2>1. \A x, y \in Endings(id) : x = y
    BY DEF SerialInv, DecisionInv, OneEnding, Endings, Ends
  <2>2. ASSUME NEW e \in Endings(id), SaysPaid(e.action) PROVE Landed(id) # {}
    <3>1. e \in audit /\ e.id = id
      BY DEF Endings
    <3>2. Paid_(e.id)
      BY <2>2, <3>1 DEF SerialInv, DecisionInv, OneEnding
    <3> QED
      BY <3>1, <3>2 DEF Paid_, Landed
  <2> QED
    BY <2>1, <2>2, AtMostOne DEF SaysPaid
<1> QED
  BY <1>1, SerialAlways, PTL

-----------------------------------------------------------------------------
(* The refinement.  A request that is about to log an ending names the one *)
(* its row has, no transaction was made for a row that failed, and only a  *)
(* creation holds a payment, only the owner denies one.                    *)
Rightful(h) ==
  /\ At(h, "hold") => handlers[h].op = "create"
  /\ At(h, "deny") => handlers[h].op = "deny"

Named ==
  /\ \A h \in Requests : Rightful(h)
  /\ \A h \in Requests : Tells(h) => EndingOf(handlers[h].log) = RowOf(h).status
  /\ \A i \in DOMAIN txs : rows[txs[i].id].status # "FAILED"

(* How the writes differ: the status each gives the row, and the log.      *)
Gives(h, status) == rows'[handlers[h].id].status = status

LEMMA WritesName ==
  ASSUME ~DbFaults, Shapes, NEW h \in Requests, HandlerStep(h), Writes(h)
  PROVE  /\ handlers[h].pc = "hold" => Gives(h, "HELD")
         /\ handlers[h].pc = "deny" => Gives(h, "DENIED")
         /\ handlers[h].pc = "fail" => Gives(h, "FAILED")
         /\ handlers[h].pc = "record_offline" => Gives(h, "REVERTED")
         /\ handlers[h].pc = "record" =>
              \/ Gives(h, "REVERTED")
              \/ handlers[h].ok /\ Gives(h, IF handlers[h].op = "create" THEN "SETTLED"
                                            ELSE "APPROVED")
         /\ Tells(h)' => Gives(h, EndingOf(handlers'[h].log))
<1>1. /\ handlers[h].pc \in {"fail", "hold", "record_offline", "record", "deny"} /\ Working(h)
      /\ handlers[h].tx \in Nat /\ RowOf(h).signature \in Nat /\ handlers[h].ok \in BOOLEAN
      /\ "audit" \in Places /\ "done" \in Places
  <2>1. handlers[h].pc \in {"fail", "hold", "record_offline", "record", "deny"} /\ Working(h)
    BY DEF Writes, Keeps
  <2>2. handlers[h].tx \in Nat /\ handlers[h].ok \in BOOLEAN
    BY DEF Shapes, Formed
  <2>3. RowOf(h).signature \in Nat
    BY <2>1 DEF Shapes, Formed, Working, RowOf, RowRecords
  <2> QED
    BY <2>1, <2>2, <2>3 DEF Places
<1>2. ASSUME NEW status \in Statuses, NEW n \in Nat, SetRow(h, status, n)
      PROVE  Gives(h, status)
    BY <1>1, <1>2, RowWritten DEF Gives
<1>3. ASSUME NEW p \in {"audit", "done"}, NEW log, Puts(h, p, "log", log)
      PROVE  handlers'[h].pc = p /\ handlers'[h].log = log
    BY <1>1, <1>3, KeepsPcAnd
<1>4. CASE fail(h)
  <2>1. /\ handlers[h].pc = "fail" /\ SetRow(h, "FAILED", RowOf(h).signature)
        /\ handlers' = [handlers EXCEPT ![h].pc = "done"]
    BY <1>4 DEF fail, At, Goto
  <2>2. handlers'[h].pc = "done" /\ "FAILED" \in Statuses
    BY <1>1, <2>1, KeepsPc DEF Statuses
  <2> QED
    BY <1>1, <1>2, <2>1, <2>2 DEF Tells, At
<1>5. CASE recordOffline(h)
  <2>1. /\ handlers[h].pc = "record_offline" /\ SetRow(h, "REVERTED", RowOf(h).signature)
        /\ handlers' = [handlers EXCEPT ![h].pc = "done"]
    BY <1>5 DEF recordOffline, At, Goto
  <2>2. handlers'[h].pc = "done" /\ "REVERTED" \in Statuses
    BY <1>1, <2>1, KeepsPc DEF Statuses
  <2> QED
    BY <1>1, <1>2, <2>1, <2>2 DEF Tells, At
<1>6. CASE hold(h)
  <2>1. /\ handlers[h].pc = "hold" /\ SetRow(h, "HELD", RowOf(h).signature)
        /\ Puts(h, "audit", "log", "payment.held")
    BY <1>6 DEF hold, At, Puts
  <2>2. handlers'[h].log = "payment.held" /\ "HELD" \in Statuses
    BY <1>3, <2>1 DEF Statuses
  <2> QED
    BY <1>1, <1>2, <2>1, <2>2 DEF Tells
<1>7. CASE deny(h)
  <2>1. /\ handlers[h].pc = "deny" /\ SetRow(h, "DENIED", RowOf(h).signature)
        /\ Puts(h, "audit", "log", "payment.denied")
    BY <1>7 DEF deny, At, Puts
  <2>2. handlers'[h].log = "payment.denied" /\ "DENIED" \in Statuses
    BY <1>3, <2>1 DEF Statuses
  <2>3. EndingOf("payment.denied") = "DENIED"
    BY DEF EndingOf
  <2> QED
    BY <1>1, <1>2, <2>1, <2>2, <2>3
<1>8. CASE record(h)
  <2>1. PICK p \in {"audit", "done"} :
          /\ handlers[h].pc = "record" /\ SetRow(h, Outcome(h), handlers[h].tx)
          /\ Puts(h, p, "log", OutcomeLog(h))
    BY <1>8 DEF record, At, Puts
  <2>2. /\ Outcome(h) \in Statuses
        /\ \/ Outcome(h) = "REVERTED"
           \/ /\ handlers[h].ok
              /\ Outcome(h) = IF handlers[h].op = "create" THEN "SETTLED" ELSE "APPROVED"
    BY <1>1 DEF Outcome, Statuses
  <2>3. Outcome(h) \in {"REVERTED", "SETTLED", "APPROVED"}
    BY <2>2
  <2>4. EndingOf(OutcomeLog(h)) = Outcome(h)
    <3>1. CASE Outcome(h) = "SETTLED"
      BY <3>1 DEF OutcomeLog, EndingOf
    <3>2. CASE Outcome(h) = "APPROVED"
      BY <3>2 DEF OutcomeLog, EndingOf
    <3>3. CASE Outcome(h) = "REVERTED"
      BY <3>3 DEF OutcomeLog, EndingOf
    <3> QED
      BY <2>3, <3>1, <3>2, <3>3
  <2>5. Gives(h, Outcome(h)) /\ handlers'[h].log = OutcomeLog(h)
    BY <1>1, <1>2, <1>3, <2>1, <2>2
  <2> QED
    BY <2>1, <2>2, <2>4, <2>5
<1>9. ~At(h, "fetch") /\ ~At(h, "balance") /\ ~At(h, "submit") /\ ~At(h, "confirm") /\ ~At(h, "audit")
  BY <1>1 DEF At
<1>10. /\ ~fetchVault(h) /\ ~judge(h) /\ ~submit(h) /\ ~preflightFails(h) /\ ~sendLost(h)
       /\ ~confirm(h) /\ ~confirmLost(h) /\ ~abort(h) /\ ~writeAudit(h)
  <2>1. ~fetchVault(h)
    BY <1>9 DEF fetchVault
  <2>2. ~judge(h)
    BY ONLY <1>9, Zenon DEF judge
  <2>3. ~submit(h) /\ ~preflightFails(h) /\ ~sendLost(h)
    BY <1>9 DEF submit, preflightFails, sendLost
  <2>4. ~confirm(h) /\ ~confirmLost(h)
    BY <1>9 DEF confirm, confirmLost
  <2>5. ~abort(h) /\ ~writeAudit(h)
    BY <1>9 DEF abort, writeAudit
  <2> QED
    BY <2>1, <2>2, <2>3, <2>4, <2>5
<1> QED
  BY <1>4, <1>5, <1>6, <1>7, <1>8, <1>10 DEF HandlerStep

(* A step that leaves the rows, and begins to tell nothing.                *)
LEMMA NamedKept ==
  ASSUME Named, UNCHANGED rows,
         \A i \in DOMAIN txs' : rows[txs'[i].id].status # "FAILED",
         \A h \in Requests : Rightful(h)',
         \A h \in Requests : Tells(h)' => Tells(h) /\ handlers'[h] = handlers[h]
  PROVE  Named'
<1>1. ASSUME NEW h \in Requests, Tells(h)'
      PROVE  EndingOf(handlers'[h].log) = RowOf(h)'.status
  BY <1>1 DEF Named, RowOf
<1> QED
  BY <1>1 DEF Named

LEMMA ArrivalNamed ==
  ASSUME SerialInv, Named, NEW h \in Requests, RequestArrives(h)
  PROVE  Named'
<1>1. Shapes /\ UNCHANGED txs /\ At(h, "idle") /\ \A i \in DOMAIN txs : rows[txs[i].id] # NoRow
  BY TxIds DEF SerialInv, DecisionInv, BackendInv, RequestArrives, create, decide
<1>2. PICK op \in {"create", "approve", "deny"}, id \in Ids, place \in {"fetch", "deny", "done"} :
        /\ Begin(h, op, id, place)
        /\ place = "deny" => op = "deny"
  <2>1. ASSUME NEW id \in Ids, NEW op \in {"approve", "deny"}, decide(h, op, id)
        PROVE  \E place \in {"fetch", "deny", "done"} :
                 Begin(h, op, id, place) /\ (place = "deny" => op = "deny")
    BY <2>1 DEF decide
  <2>2. ASSUME NEW id \in Ids, NEW amount, NEW r, NEW c, create(h, id, amount, r, c)
        PROVE  \E place \in {"fetch", "done"} : Begin(h, "create", id, place)
    BY <2>2 DEF create
  <2> QED
    BY <2>1, <2>2 DEF RequestArrives
<1>3. /\ \A g \in Requests \ {h} : handlers'[g] = handlers[g]
      /\ handlers'[h].pc = place /\ handlers'[h].op = op /\ handlers'[h].id = id
  <2>1. place \in Places
    BY DEF Places
  <2> QED
    BY <1>1, <1>2, <2>1, Begins
<1>4. \A g \in Requests : Rightful(g)'
  BY <1>2, <1>3 DEF Named, Rightful, At
<1>5. \A g \in Requests : Tells(g)' => Tells(g) /\ handlers'[g] = handlers[g]
  BY <1>3 DEF Tells, At
<1>6. CASE UNCHANGED rows
  <2>1. \A i \in DOMAIN txs' : rows[txs'[i].id].status # "FAILED"
    BY <1>1 DEF Named
  <2> QED
    BY <1>4, <1>5, <1>6, <2>1, NamedKept
<1>7. ASSUME NEW k \in Ids, NEW amount \in Amounts, NEW r \in Recipients, NEW c \in Contexts,
             create(h, k, amount, r, c), rows[k] = NoRow
      PROVE  Named'
  <2>1. \A n \in Ids : rows[n] # NoRow => rows'[n] = rows[n]
    BY <1>1, <1>7 DEF create, Shapes
  <2>2. ASSUME NEW g \in Requests, Tells(g) PROVE rows'[handlers[g].id] = rows[handlers[g].id]
    BY <1>1, <2>1, <2>2 DEF Tells, At, Shapes, Formed, Working, Finished, RowOf
  <2>3. \A i \in DOMAIN txs : rows'[txs[i].id] = rows[txs[i].id]
    BY <1>1, <2>1, TxIds
  <2> QED
    BY <1>1, <1>4, <1>5, <2>2, <2>3 DEF Named, RowOf
<1>8. CASE \E k \in Ids, o \in {"approve", "deny"} : decide(h, o, k)
  BY <1>6, <1>8 DEF decide
<1> QED
  BY <1>6, <1>7, <1>8 DEF RequestArrives, create

LEMMA HandlerNamed ==
  ASSUME SerialInv, Named, NEW h \in Requests, HandlerStep(h)
  PROVE  Named'
<1>1. /\ Shapes /\ OneWriter /\ OneEnding /\ ~DbFaults
      /\ \A i \in DOMAIN txs : txs[i].id \in Ids /\ rows[txs[i].id] # NoRow
      /\ \A i \in DOMAIN txs : rows[txs[i].id].status # "FAILED"
  BY TxIds DEF SerialInv, DecisionInv, BackendInv, Named
<1>2. Moves(h) \/ Writes(h) \/ Submits(h)
  BY <1>1, StepKinds
<1>3. /\ \A g \in Requests \ {h} : handlers'[g] = handlers[g]
      /\ handlers'[h].id = handlers[h].id /\ handlers'[h].op = handlers[h].op
  BY <1>2 DEF Moves, Writes, Submits, Keeps
<1>4. \A g \in Requests : Rightful(g)'
  BY <1>1, <1>3, StepRemembers DEF Named, Rightful, At
<1>5. CASE Moves(h)
  <2>1. \A g \in Requests : Tells(g)' => Tells(g) /\ handlers'[g] = handlers[g]
    BY <1>5 DEF Moves, Keeps, Tells, At
  <2> QED
    BY <1>1, <1>4, <1>5, <2>1, NamedKept DEF Moves
<1>6. CASE Submits(h)
  <2>1. \A g \in Requests : Tells(g)' => Tells(g) /\ handlers'[g] = handlers[g]
    BY <1>6 DEF Submits, Keeps, Tells, At
  <2>2. PICK tx \in TxRecords : tx.id = handlers[h].id /\ txs' = Append(txs, tx)
    BY <1>6 DEF Submits
  <2>3. Writing(h) /\ rows' = rows
    BY <1>6 DEF Submits, Writing, Unsubmitted
  <2>4. rows[handlers[h].id].status # "FAILED"
    BY <1>1, <2>3 DEF OneWriter, RowOf
  <2>5. \A i \in DOMAIN txs' : (i \in DOMAIN txs /\ txs'[i] = txs[i]) \/ txs'[i] = tx
    BY <1>1, <2>2 DEF Shapes
  <2>6. \A i \in DOMAIN txs' : rows[txs'[i].id].status # "FAILED"
    BY <1>1, <2>2, <2>4, <2>5
  <2> QED
    BY <1>4, <2>1, <2>3, <2>6, NamedKept
<1>7. CASE Writes(h)
  <2>1. /\ \A k \in Ids \ {handlers[h].id} : rows'[k] = rows[k]
        /\ UNCHANGED txs
        /\ handlers[h].pc \in {"fail", "hold", "record_offline", "record", "deny"}
    BY <1>7 DEF Writes
  <2>2. Writing(h) /\ Undecided(handlers[h].id)
    BY <1>1, <2>1 DEF Writing, Unsubmitted, OneWriter, Undecided, RowOf
  <2>3. ASSUME NEW g \in Requests, Tells(g)'
        PROVE  EndingOf(handlers'[g].log) = RowOf(g)'.status
    <3>1. CASE g = h
      BY <1>1, <1>3, <1>7, <2>3, <3>1, WritesName DEF Gives, RowOf
    <3>2. CASE g # h
      <4>1. Tells(g) /\ handlers'[g] = handlers[g]
        BY <1>3, <2>3, <3>2 DEF Tells, At
      <4>2. handlers[g].id \in Ids
        BY <1>1, <4>1 DEF Tells, At, Shapes, Formed, Finished
      <4>3. handlers[g].id # handlers[h].id
        BY <1>1, <2>2, <4>1 DEF OneEnding
      <4> QED
        BY <2>1, <4>1, <4>2, <4>3 DEF Named, RowOf
    <3> QED
      BY <3>1, <3>2
  <2>4. ASSUME NEW i \in DOMAIN txs PROVE rows'[txs[i].id].status # "FAILED"
    <3>1. CASE txs[i].id # handlers[h].id
      BY <1>1, <2>1, <3>1
    <3>2. CASE txs[i].id = handlers[h].id
      <4>1. handlers[h].pc = "record"
        BY <1>1, <2>1, <3>2 DEF OneWriter, Unsubmitted
      <4> QED
        BY <1>1, <1>7, <3>2, <4>1, WritesName DEF Gives
    <3> QED
      BY <3>1, <3>2
  <2> QED
    BY <1>4, <2>1, <2>3, <2>4 DEF Named
<1> QED
  BY <1>2, <1>5, <1>6, <1>7

(* What lands or expires is a transaction, and only that.                  *)
LEMMA TxKinds ==
  ASSUME Shapes, Ledger, NEW i \in DOMAIN txs, TxStep(i)
  PROVE  /\ UNCHANGED <<rows, handlers, audit>>
         /\ \E status \in {"ok", "failed", "expired"} : Resolves(i, status)
<1>1. CASE land(i)
  BY <1>1, LandKinds
<1>2. CASE expire(i)
  BY <1>2, TxResolves DEF expire
<1> QED
  BY <1>1, <1>2 DEF TxStep

LEMMA StepNamed ==
  ASSUME Serial, MaxCrashes = 0, SerialInv, Named, [PaymentsNext]_allVars
  PROVE  Named'
<1>1. Shapes /\ Ledger /\ ~crash
  BY DEF SerialInv, DecisionInv, BackendInv, crash
<1>2. ASSUME UNCHANGED <<rows, handlers>>, DOMAIN txs' = DOMAIN txs,
             \A k \in DOMAIN txs : txs'[k].id = txs[k].id
      PROVE  Named'
  <2>1. \A h \in Requests : Rightful(h)' /\ (Tells(h)' => Tells(h) /\ handlers'[h] = handlers[h])
    BY <1>2 DEF Named, Rightful, Tells, At
  <2> QED
    BY <1>2, <2>1, NamedKept DEF Named
<1>3. ASSUME NEW i \in DOMAIN txs, TxStep(i) PROVE Named'
  BY <1>1, <1>2, <1>3, TxKinds DEF Resolves
<1>4. CASE chainStep \/ UNCHANGED allVars
  <2>1. UNCHANGED <<rows, handlers, txs>>
    BY <1>4 DEF chainStep, backend, allVars
  <2> QED
    BY <1>2, <2>1
<1>5. ASSUME NEW h \in Requests, BackendStep(h) PROVE Named'
  BY <1>5, HandlerNamed DEF BackendStep
<1> QED
  BY <1>1, <1>3, <1>4, <1>5, ArrivalNamed DEF PaymentsNext

LEMMA NamedAlways ==
  ASSUME Serial, MaxCrashes = 0, ~DbFaults
  PROVE  PaymentsSpec => [](SerialInv /\ Named)
<1>1. PaymentsInit => Named
  BY DEF PaymentsInit, Named, Rightful, Tells, At, Idle, Handler
<1>2. SerialInv /\ Named /\ [PaymentsNext]_allVars => Named'
  BY StepNamed
<1> QED
  BY <1>1, <1>2, SerialAlways, PTL DEF PaymentsSpec

-----------------------------------------------------------------------------
(* What a change of the rows, the transactions and the log is in the       *)
(* abstract lifecycle.                                                     *)
LEMMA SayStep ==
  ASSUME NEW id \in Ids, NEW after, NEW before,
         rows[id].status \in before, rows'[id].status = after,
         \A k \in Ids \ {id} : rows'[k] = rows[k], UNCHANGED <<txs, audit>>
  PROVE  Promise!Say(id, before, after)
<1>1. Said[id] \in before
  BY DEF Said
<1>2. Said' = [Said EXCEPT ![id] = after]
  BY DEF Said
<1>3. UNCHANGED Transfers /\ UNCHANGED Told
  BY DEF Transfers, Landed, Told
<1> QED
  BY <1>1, <1>2, <1>3 DEF Promise!Say

LEMMA PayStep ==
  ASSUME SerialInv, Named, NEW i \in DOMAIN txs, Resolves(i, "ok"), UNCHANGED <<rows, audit>>
  PROVE  txs[i].id \in Ids /\ Promise!Pay(txs[i].id)
<1>0. PICK id : id = txs[i].id
  OBVIOUS
<1>1. Shapes /\ Ledger /\ OneWriter
  BY DEF SerialInv, DecisionInv, BackendInv
<1>2. id \in Ids /\ rows[id] \in RowRecords
  BY <1>0, <1>1, TxIds DEF Shapes
<1>3. \A k \in DOMAIN txs : txs[k].id = id => k = i
  BY <1>0, <1>1 DEF OneWriter
<1>4. txs[i].status = "sent" /\ txs'[i].status = "ok" /\ txs'[i].id = id
  BY <1>0 DEF Resolves
<1>5. Landed(id) = {} /\ Landed(id)' = {i}
  BY <1>0, <1>3, <1>4 DEF Landed, Resolves
<1>6. \A k \in Ids \ {id} : Landed(k)' = Landed(k)
  BY <1>0, <1>4 DEF Landed, Resolves
<1>7. ~Paid_(id)
  BY <1>3, <1>4 DEF Paid_
<1>8. rows[id].status \in {"CREATED", "HELD", "REVERTED"}
  <2>1. rows[id].status \in Statuses
    BY <1>2 DEF RowRecords
  <2>2. rows[id].status \notin {"SETTLED", "APPROVED"}
    BY <1>1, <1>2, <1>7 DEF Ledger
  <2>3. rows[id].status \notin {"DENIED", "FAILED"}
    BY <1>0, <1>1 DEF OneWriter, Named
  <2> QED
    BY <2>1, <2>2, <2>3 DEF Statuses
<1>9. Cardinality({}) = 0 /\ Cardinality({i}) = 1
  BY FS_EmptySet, FS_Singleton
<1>10. Said[id] \in Promise!Open \cup {"REVERTED"}
  BY <1>2, <1>8 DEF Said, Promise!Open
<1>11. Transfers[id] = 0 /\ Transfers' = [Transfers EXCEPT ![id] = 1]
  <2>1. id \in Ids /\ Cardinality(Landed(id)) = 0 /\ Cardinality(Landed(id))' = 1
    BY <1>2, <1>5, <1>9
  <2>2. \A k \in Ids \ {id} : Cardinality(Landed(k))' = Cardinality(Landed(k))
    BY <1>6
  <2> QED
    BY <2>1, <2>2 DEF Transfers
<1>12. UNCHANGED Said /\ UNCHANGED Told
  BY DEF Said, Told
<1>13. Promise!Pay(id)
  BY <1>10, <1>11, <1>12 DEF Promise!Pay
<1> QED
  BY <1>0, <1>2, <1>13

(* The rows stay, and so does what landed and the endings in the log.      *)
Quiet == UNCHANGED Said /\ UNCHANGED Transfers /\ UNCHANGED Told

LEMMA QuietStep ==
  ASSUME UNCHANGED <<rows, audit>>, \A id \in Ids : Landed(id)' = Landed(id)
  PROVE  Quiet
<1>1. UNCHANGED Said /\ UNCHANGED Told
  BY DEF Said, Told
<1>2. UNCHANGED Transfers
  BY DEF Transfers
<1> QED
  BY <1>1, <1>2 DEF Quiet

(* Logging an ending, or that a payment is held.                           *)
LEMMA TellStep ==
  ASSUME SerialInv, Named, NEW h \in Requests, At(h, "audit"), UNCHANGED <<rows, txs>>,
         audit' = audit \cup {[id |-> handlers[h].id, action |-> handlers[h].log]}
  PROVE  Quiet \/ \E id \in Ids : Promise!Tell(id)
<1> DEFINE new == [id |-> handlers[h].id, action |-> handlers[h].log]
<1>1. new.id = handlers[h].id /\ new.action = handlers[h].log /\ audit' = audit \cup {new}
  OBVIOUS
<1> HIDE DEF new
<1>2. UNCHANGED Said /\ UNCHANGED Transfers
  BY DEF Said, Transfers, Landed
<1>3. CASE handlers[h].log = "payment.held"
  <2>1. UNCHANGED Told
    BY <1>1, <1>3 DEF Told
  <2> QED
    BY <1>2, <2>1 DEF Quiet
<1>4. CASE handlers[h].log # "payment.held"
  <2>1. handlers[h].id \in Ids
    BY DEF SerialInv, DecisionInv, BackendInv, Shapes, Formed, At, Finished
  <2>2. EndingOf(new.action) = Said[handlers[h].id]
    BY <1>1, <1>4, <2>1 DEF Named, Tells, RowOf, Said
  <2>3. EndingOf(new.action) \in {"SETTLED", "APPROVED", "REVERTED", "DENIED"}
    BY DEF EndingOf
  <2>4. Told' = Told \cup {<<new.id, EndingOf(new.action)>>}
    BY <1>1, <1>4 DEF Told
  <2>5. Promise!Tell(handlers[h].id)
    BY <1>1, <1>2, <2>2, <2>3, <2>4 DEF Promise!Tell, Promise!Logged
  <2> QED
    BY <2>1, <2>5
<1> QED
  BY <1>3, <1>4

(* Writing the row of a request.                                           *)
LEMMA WriteStep ==
  ASSUME SerialInv, Named, NEW h \in Requests, HandlerStep(h), Writes(h)
  PROVE  \E id \in Ids : \/ Promise!Hold(id) \/ Promise!Confirm(id) \/ Promise!Revert(id)
                         \/ Promise!Deny(id) \/ Promise!Fail(id)
<1>1. Shapes /\ Ledger /\ OneWriter /\ ~DbFaults
  BY DEF SerialInv, DecisionInv, BackendInv
<1>2. PICK id : id = handlers[h].id
  OBVIOUS
<1>3. /\ Writing(h) /\ id \in Ids /\ UNCHANGED <<txs, audit>>
      /\ \A k \in Ids \ {id} : rows'[k] = rows[k]
      /\ handlers[h].pc \in {"fail", "hold", "record_offline", "record", "deny"}
      /\ rows'[id].status = "HELD" <=> handlers[h].pc = "hold"
      /\ rows'[id].status = "DENIED" <=> handlers[h].pc = "deny"
  <2>1. Writing(h)
    BY DEF Writes, Writing, Unsubmitted
  <2> QED
    BY <1>1, <1>2, <2>1, WriterFacts DEF Writes
<1>4. rows[id].status = IF handlers[h].op = "create" THEN "CREATED" ELSE "HELD"
  BY <1>1, <1>2, <1>3 DEF OneWriter, RowOf
<1>5. ASSUME handlers[h].pc # "record" PROVE Transfers[id] = 0
  <2>1. Landed(id) = {}
    BY <1>1, <1>2, <1>3, <1>5 DEF OneWriter, Unsubmitted, Landed
  <2> QED
    BY <1>3, <2>1, FS_EmptySet DEF Transfers
<1>6. ASSUME handlers[h].pc = "record", handlers[h].ok PROVE Transfers[id] = 1
  <2>1. PICK i \in DOMAIN txs : txs[i].id = id /\ txs[i].status = "ok"
    BY <1>1, <1>2, <1>6 DEF Ledger, Paid_, At
  <2>2. Landed(id) = {i}
    BY <1>1, <2>1 DEF Landed, OneWriter
  <2> QED
    BY <1>3, <2>2, FS_Singleton DEF Transfers
<1>7. ASSUME NEW before, NEW after, rows[id].status \in before, Gives(h, after)
      PROVE  Promise!Say(id, before, after)
  BY <1>2, <1>3, <1>7, SayStep DEF Gives
<1>8. rows[id].status \in Promise!Open
  BY <1>4 DEF Promise!Open
<1>9. CASE handlers[h].pc = "hold"
  <2>1. Gives(h, "HELD") /\ handlers[h].op = "create"
    BY <1>1, <1>9, WritesName DEF Named, Rightful, At
  <2> QED
    BY <1>3, <1>4, <1>7, <2>1 DEF Promise!Hold
<1>10. CASE handlers[h].pc = "deny"
  <2>1. Gives(h, "DENIED") /\ handlers[h].op # "create"
    BY <1>1, <1>10, WritesName DEF Named, Rightful, At
  <2> QED
    BY <1>3, <1>4, <1>5, <1>7, <1>10, <2>1 DEF Promise!Deny
<1>11. CASE handlers[h].pc = "fail"
  <2>1. Gives(h, "FAILED")
    BY <1>1, <1>11, WritesName
  <2> QED
    BY <1>3, <1>5, <1>7, <1>8, <1>11, <2>1 DEF Promise!Fail
<1>12. ASSUME Gives(h, "REVERTED") PROVE Promise!Revert(id)
  BY <1>7, <1>8, <1>12 DEF Promise!Revert
<1>13. CASE handlers[h].pc = "record_offline"
  BY <1>1, <1>3, <1>12, <1>13, WritesName
<1>14. CASE handlers[h].pc = "record"
  <2>1. \/ Gives(h, "REVERTED")
        \/ handlers[h].ok /\ Gives(h, IF handlers[h].op = "create" THEN "SETTLED" ELSE "APPROVED")
    BY <1>1, <1>14, WritesName
  <2>2. ASSUME handlers[h].ok, Gives(h, "SETTLED"), handlers[h].op = "create"
        PROVE  Promise!Confirm(id)
    BY <1>4, <1>6, <1>7, <1>14, <2>2 DEF Promise!Confirm
  <2>3. ASSUME handlers[h].ok, Gives(h, "APPROVED"), handlers[h].op # "create"
        PROVE  Promise!Confirm(id)
    BY <1>4, <1>6, <1>7, <1>14, <2>3 DEF Promise!Confirm
  <2> QED
    BY <1>3, <1>12, <2>1, <2>2, <2>3
<1> QED
  BY <1>3, <1>9, <1>10, <1>11, <1>13, <1>14

LEMMA AskStep ==
  ASSUME SerialInv, NEW h \in Requests, RequestArrives(h)
  PROVE  Quiet \/ \E id \in Ids : Promise!Ask(id)
<1>1. Shapes /\ UNCHANGED <<txs, audit>>
  BY DEF SerialInv, DecisionInv, BackendInv, RequestArrives, create, decide
<1>2. CASE UNCHANGED rows
  BY <1>1, <1>2, QuietStep DEF Landed
<1>3. ASSUME NEW id \in Ids, NEW amount, NEW r, NEW c, create(h, id, amount, r, c),
             rows[id] = NoRow
      PROVE  Promise!Ask(id)
  <2>1. /\ \A k \in Ids \ {id} : rows'[k] = rows[k]
        /\ rows'[id].status = "CREATED" /\ rows[id].status \in {"NONE"}
    BY <1>1, <1>3 DEF create, Shapes, NoRow
  <2> QED
    BY <1>1, <2>1, SayStep DEF Promise!Ask
<1> QED
  BY <1>2, <1>3 DEF RequestArrives, create, decide

LEMMA GoStep ==
  ASSUME SerialInv, Named, NEW h \in Requests, HandlerStep(h)
  PROVE  Quiet \/ Promise!Next
<1>1. Shapes /\ (Moves(h) \/ Writes(h) \/ Submits(h))
  BY StepKinds DEF SerialInv, DecisionInv, BackendInv
<1>2. CASE Moves(h)
  <2>1. CASE UNCHANGED audit
    BY <1>2, <2>1, QuietStep DEF Moves, Landed
  <2>2. CASE /\ At(h, "audit")
             /\ audit' = audit \cup {[id |-> handlers[h].id, action |-> handlers[h].log]}
    BY <1>2, <2>2, TellStep DEF Moves, Promise!Next
  <2> QED
    BY <1>2, <2>1, <2>2 DEF Moves, At
<1>3. CASE Submits(h)
  <2>1. PICK tx : tx.status = "sent" /\ txs' = Append(txs, tx)
    BY <1>3 DEF Submits
  <2>2. /\ DOMAIN txs = 1 .. Len(txs) /\ DOMAIN txs' = 1 .. Len(txs) + 1 /\ Len(txs) \in Nat
        /\ \A i \in DOMAIN txs : txs'[i] = txs[i]
        /\ txs'[Len(txs) + 1] = tx
    BY <1>1, <2>1 DEF Shapes
  <2>3. \A id \in Ids : Landed(id)' = Landed(id)
    BY <2>1, <2>2 DEF Landed
  <2> QED
    BY <1>3, <2>3, QuietStep DEF Submits
<1>4. CASE Writes(h)
  BY <1>4, WriteStep DEF Promise!Next
<1> QED
  BY <1>1, <1>2, <1>3, <1>4

(* The lifecycle implements the abstract one, while the owner decides on a *)
(* payment once at a time and the backend is not restarted: statuses,      *)
(* transfers and logged endings change together as promised.               *)
THEOREM PromiseKept ==
  ASSUME Serial, MaxCrashes = 0, ~DbFaults
  PROVE  PaymentsSpec => KeepsPromise
<1>1. PaymentsInit => Promise!Init
  <2> SUFFICES ASSUME PaymentsInit PROVE Promise!Init
    OBVIOUS
  <2>1. rows = [id \in Ids |-> NoRow] /\ txs = <<>> /\ audit = {}
    BY DEF PaymentsInit
  <2>2. \A id \in Ids : Landed(id) = {}
    BY <2>1 DEF Landed
  <2>3. Cardinality({}) = 0
    BY FS_EmptySet
  <2>4. Transfers = [id \in Ids |-> 0]
    BY <2>2, <2>3 DEF Transfers
  <2>5. Said = [id \in Ids |-> "NONE"] /\ Told = {}
    BY <2>1 DEF Said, Told, NoRow
  <2> QED
    BY <2>4, <2>5 DEF Promise!Init
<1>2. ASSUME SerialInv, Named, [PaymentsNext]_allVars
      PROVE  Promise!Next \/ Quiet
  <2>1. Shapes /\ Ledger /\ ~crash
    BY <1>2 DEF SerialInv, DecisionInv, BackendInv, crash
  <2>2. ASSUME NEW h \in Requests, RequestArrives(h) PROVE Promise!Next \/ Quiet
    BY <1>2, <2>2, AskStep DEF Promise!Next
  <2>3. ASSUME NEW h \in Requests, BackendStep(h) PROVE Promise!Next \/ Quiet
    BY <1>2, <2>3, GoStep DEF BackendStep
  <2>4. ASSUME NEW i \in DOMAIN txs, TxStep(i) PROVE Promise!Next \/ Quiet
    <3>1. UNCHANGED <<rows, audit>>
      BY <2>1, <2>4, TxKinds
    <3>2. CASE Resolves(i, "ok")
      BY <1>2, <2>4, <3>1, <3>2, PayStep DEF Promise!Next
    <3>3. ASSUME NEW status \in {"failed", "expired"}, Resolves(i, status)
          PROVE  Quiet
      <4>1. \A id \in Ids : Landed(id)' = Landed(id)
        BY <3>3 DEF Landed, Resolves
      <4> QED
        BY <3>1, <4>1, QuietStep
    <3> QED
      BY <2>1, <2>4, <3>2, <3>3, TxKinds
  <2>5. CASE chainStep \/ UNCHANGED allVars
    <3>1. UNCHANGED <<rows, txs, audit>>
      BY <2>5 DEF chainStep, backend, allVars
    <3> QED
      BY <3>1, QuietStep DEF Landed
  <2> QED
    BY <1>2, <2>1, <2>2, <2>3, <2>4, <2>5 DEF PaymentsNext
<1>3. SerialInv /\ Named /\ [PaymentsNext]_allVars => [Promise!Next]_<<Said, Transfers, Told>>
  BY <1>2 DEF Quiet
<1> QED
  BY <1>1, <1>3, NamedAlways, PTL DEF PaymentsSpec, KeepsPromise, Promise!Spec
=============================================================================
