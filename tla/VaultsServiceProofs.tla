------------------------ MODULE VaultsServiceProofs ------------------------
(***************************************************************************)
(* Proofs about the owner operations of the backend, for any number of     *)
(* vaults, requests, failures and restarts.                                *)
(***************************************************************************)
EXTENDS VaultsService, TLAPS, FiniteSetTheorems

(* Where a request runs on behalf of a row, and where it has an act.       *)
Rowed == {"measure", "send", "audit", "zero", "sync", "fetch", "balance", "write"}
Acting == {"init", "fund", "insert", "measure", "send", "lost", "audit", "zero"}

(* What a request relies on: its slot has a key, and its row exists from   *)
(* the start unless it is the creation, which no poller runs; the creation *)
(* has a row once it wrote it.                                             *)
JobOK(h, j, rows, keys) ==
  /\ j \in Requests
  /\ h \in Pollers /\ j.pc # "idle" => rows[j.slot] # NoRow
  /\ j.pc # "idle" => j.slot \in keys
  /\ j.pc \in Rowed => rows[j.slot] # NoRow
  /\ j.pc \notin {"idle", "done"} => j.act = "create" \/ rows[j.slot] # NoRow
  /\ j.pc \in Acting => j.act \in Acts
  /\ j.pc \in {"balance", "write"} => j.seen \in Rows

VaultsInv ==
  /\ VaultsTypeOK
  /\ \A h \in Handlers : JobOK(h, jobs[h], row, sealed)
  /\ KeyOfEveryVault
  /\ \A s \in Slots : row[s] # NoRow => s \in sealed
  /\ OrphansHoldNothing

LEMMA NoRowIsNoRow == NoRow \notin Rows
  BY DEF NoRow, Rows

(* At the start no vault, row, key or request exists that could break it.   *)
THEOREM InitVaults == Init => VaultsInv
<1> SUFFICES ASSUME Init PROVE VaultsInv
  OBVIOUS
<1>1. Idle \in Requests /\ Idle.pc = "idle"
  BY DEF Idle, Request, Requests, Places
<1>2. VaultsTypeOK
  BY <1>1 DEF Init, VaultsTypeOK, Accounts, Account, Unborn
<1>3. \A h \in Handlers : JobOK(h, jobs[h], row, sealed)
  BY <1>1 DEF Init, JobOK, Rowed, Acting, Idle, Request
<1>4. KeyOfEveryVault /\ OrphansHoldNothing /\ \A s \in Slots : row[s] = NoRow
  BY DEF Init, KeyOfEveryVault, OrphansHoldNothing, Account, Unborn
<1> QED
  BY <1>2, <1>3, <1>4 DEF VaultsInv

-----------------------------------------------------------------------------
(* A request that moves on leaves the others' footing as it was, as rows   *)
(* and keys only ever appear.                                              *)
LEMMA JobMoves ==
  ASSUME VaultsInv, NEW h \in Handlers, NEW j, jobs' = [jobs EXCEPT ![h] = j],
         \A s \in Slots : row[s] # NoRow => row'[s] # NoRow,
         sealed \subseteq sealed', sealed \in SUBSET Slots,
         JobOK(h, j, row', sealed')
  PROVE  /\ jobs' \in [Handlers -> Requests]
         /\ \A g \in Handlers : JobOK(g, jobs'[g], row', sealed')
<1>1. jobs \in [Handlers -> Requests] /\ j \in Requests
  BY DEF VaultsInv, VaultsTypeOK, JobOK
<1>2. jobs' \in [Handlers -> Requests]
  BY <1>1
<1>3. ASSUME NEW g \in Handlers PROVE JobOK(g, jobs'[g], row', sealed')
  <2>1. CASE g = h
    BY <1>1, <2>1
  <2>2. CASE g # h
    <3>1. jobs'[g] = jobs[g] /\ JobOK(g, jobs[g], row, sealed)
      BY <1>1, <2>2 DEF VaultsInv
    <3>2. jobs[g].pc # "idle" => jobs[g].slot \in Slots
      BY <3>1 DEF JobOK
    <3> QED
      BY <3>1, <3>2 DEF JobOK, Rowed
  <2> QED
    BY <2>1, <2>2
<1> QED
  BY <1>2, <1>3

(* A record with another place is otherwise the same.                      *)
LEMMA Placed ==
  ASSUME NEW j \in Requests, NEW p \in Places
  PROVE  LET k == [j EXCEPT !.pc = p]
         IN  /\ k \in Requests
             /\ k.pc = p /\ k.slot = j.slot /\ k.act = j.act /\ k.seen = j.seen
  BY DEF Requests

(* A request that is over asks for nothing any more.                       *)
LEMMA EndedMade ==
  ASSUME NEW j \in Requests, j.slot \in Slots, NEW r \in Rows \cup {NoRow}
  PROVE  LET k == Ended(j, r)
         IN  /\ k \in Requests
             /\ k.pc = "done" /\ k.slot = j.slot /\ k.act = "none"
             /\ k.wrote = j.wrote /\ k.reply = r
  BY DEF Ended, Request, Requests, Places

(* And it relies on nothing but its key, and its row for a poller.         *)
LEMMA EndedOK ==
  ASSUME VaultsInv, NEW h \in Handlers, jobs[h].pc # "idle", NEW r \in Rows \cup {NoRow}
  PROVE  JobOK(h, Ended(jobs[h], r), row, sealed)
<1> DEFINE k == Ended(jobs[h], r)
<1>1. /\ JobOK(h, jobs[h], row, sealed) /\ jobs[h] \in Requests
      /\ jobs[h].slot \in sealed /\ jobs[h].slot \in Slots
  BY DEF VaultsInv, VaultsTypeOK, JobOK
<1>2. k \in Requests /\ k.pc = "done" /\ k.slot = jobs[h].slot
  BY <1>1, EndedMade
<1> HIDE DEF k
<1>3. JobOK(h, k, row, sealed)
  BY <1>1, <1>2 DEF JobOK, Rowed, Acting
<1> QED
  BY <1>3 DEF k

LEMMA RequestMade ==
  ASSUME NEW p \in Places, NEW act \in Acts \cup {"none"}, NEW s \in Slots, NEW n \in Nat
  PROVE  LET k == Request(p, act, s, n)
         IN  /\ k \in Requests
             /\ k.pc = p /\ k.slot = s /\ k.act = act
  BY DEF Request, Requests

(* A request that only moves on, to a place it is ready for.               *)
LEMMA OnlyJob ==
  ASSUME VaultsInv, NEW h \in Handlers, NEW j, jobs' = [jobs EXCEPT ![h] = j],
         JobOK(h, j, row, sealed), UNCHANGED <<account, row, sealed, done>>,
         audit' \in [Slots -> [Acts -> Nat]], pays' \in Nat, faults' \in Nat
  PROVE  VaultsInv'
<1>1. /\ jobs' \in [Handlers -> Requests]
      /\ \A g \in Handlers : JobOK(g, jobs'[g], row', sealed')
  BY JobMoves DEF VaultsInv, VaultsTypeOK
<1>2. VaultsTypeOK'
  BY <1>1 DEF VaultsInv, VaultsTypeOK
<1> QED
  BY <1>1, <1>2 DEF VaultsInv, KeyOfEveryVault, OrphansHoldNothing

(* What the owner's transaction does, when it lands.                       *)
LEMMA Executed ==
  ASSUME VaultsInv, NEW j \in Requests, j.slot \in sealed, j.act \in Acts,
         j.act = "create" \/ row[j.slot] # NoRow, Execute(j)
  PROVE  /\ account' \in [Slots -> Accounts]
         /\ done' \in [Slots -> [Acts -> Nat]]
         /\ \A s \in Slots : account'[s].status # "none" => s \in sealed
         /\ \A s \in Slots : row[s] = NoRow => account'[s].funds = 0
<1>1. /\ account \in [Slots -> Accounts] /\ done \in [Slots -> [Acts -> Nat]]
      /\ j.slot \in Slots /\ j.arg \in Nat
      /\ account[j.slot] \in Accounts
  BY DEF VaultsInv, VaultsTypeOK, Requests
<1> DEFINE a == account[j.slot]
           b == Effect(j)
<1>2. /\ a.status \in {"none", "open", "closed"} /\ a.at \in Nat /\ a.active \in BOOLEAN
      /\ a.funds \in Nat
  BY <1>1 DEF Accounts
<1>3. b \in Accounts /\ (j.act = "create" => b.funds = 0)
  <2>1. CASE j.act = "create"
    BY <2>1 DEF Effect, Account, Accounts
  <2>2. CASE j.act = "deposit"
    BY <1>1, <1>2, <2>2 DEF Effect, Account, Accounts
  <2>3. CASE j.act = "withdraw"
    <3>1. j.arg <= a.funds
      BY <2>3 DEF Execute, Possible
    <3>2. a.funds - j.arg \in Nat
      BY <1>1, <1>2, <3>1
    <3> QED
      BY <1>1, <1>2, <2>3, <3>2 DEF Effect, Account, Accounts
  <2>4. CASE j.act = "close"
    BY <1>1, <1>2, <2>4 DEF Effect, Account, Accounts
  <2>5. CASE j.act = "setDelegateActive"
    BY <1>1, <1>2, <2>5 DEF Effect, Account, Accounts
  <2>6. CASE j.act \notin {"create", "deposit", "withdraw", "close", "setDelegateActive"}
    BY <1>1, <1>2, <2>6 DEF Effect, Account, Accounts
  <2> QED
    BY <2>1, <2>2, <2>3, <2>4, <2>5, <2>6
<1>4. /\ account' = [account EXCEPT ![j.slot] = b]
      /\ done' = [done EXCEPT ![j.slot][j.act] = done[j.slot][j.act] + 1]
  BY DEF Execute
<1> HIDE DEF b
<1>5. account' \in [Slots -> Accounts] /\ done' \in [Slots -> [Acts -> Nat]]
  BY <1>1, <1>3, <1>4
<1>6. \A s \in Slots : account'[s].status # "none" => s \in sealed
  BY <1>1, <1>4 DEF VaultsInv, KeyOfEveryVault
<1>7. \A s \in Slots : row[s] = NoRow => account'[s].funds = 0
  BY <1>1, <1>3, <1>4 DEF VaultsInv, OrphansHoldNothing
<1> QED
  BY <1>5, <1>6, <1>7
-----------------------------------------------------------------------------
(* The steps of a request.                                                 *)
LEMMA CreateKeeps ==
  ASSUME VaultsInv, NEW h \in Jobs, NEW s \in Slots, create(h, s)
  PROVE  VaultsInv'
<1> DEFINE j == Request("init", "create", s, 0)
<1>1. /\ j \in Requests /\ j.pc = "init" /\ j.slot = s /\ j.act = "create"
  BY RequestMade DEF Places, Acts
<1>2. jobs' = [jobs EXCEPT ![h] = j] /\ sealed' = sealed \cup {s}
        /\ UNCHANGED <<account, row, audit, done, pays, faults>>
  BY DEF create, sealKey
<1> HIDE DEF j
<1>3. JobOK(h, j, row', sealed')
  BY <1>1, <1>2, VaultsAssumption DEF JobOK, Rowed, Acts
<1>4. sealed \in SUBSET Slots
  BY DEF VaultsInv, VaultsTypeOK
<1>5. /\ jobs' \in [Handlers -> Requests]
      /\ \A g \in Handlers : JobOK(g, jobs'[g], row', sealed')
  BY <1>2, <1>3, <1>4, JobMoves DEF Handlers
<1>6. VaultsTypeOK'
  BY <1>2, <1>5 DEF VaultsInv, VaultsTypeOK
<1> QED
  BY <1>2, <1>5, <1>6 DEF VaultsInv, KeyOfEveryVault, OrphansHoldNothing

LEMMA AskKeeps ==
  ASSUME VaultsInv, NEW h \in Handlers, NEW s \in Slots, NEW act \in Acts \cup {"none"},
         act # "create", NEW n \in Nat, NEW p \in {"send", "measure", "sync"},
         act \in Acts \/ p = "sync", Ask(h, s, act, n, p)
  PROVE  VaultsInv'
<1> DEFINE j == Request(p, act, s, n)
<1>1. j \in Requests /\ j.pc = p /\ j.slot = s /\ j.act = act
  BY RequestMade DEF Places
<1>2. jobs' = [jobs EXCEPT ![h] = j] /\ row[s] # NoRow
        /\ UNCHANGED <<account, row, sealed, audit, done, pays, faults>>
  BY DEF Ask
<1> HIDE DEF j
<1>3. JobOK(h, j, row, sealed)
  BY <1>1, <1>2 DEF JobOK, VaultsInv, Acting
<1> QED
  BY <1>2, <1>3, OnlyJob DEF VaultsInv, VaultsTypeOK

(* Steps that leave chain, rows and keys alone.                            *)
LEMMA GotoKeeps ==
  ASSUME VaultsInv, NEW h \in Handlers, NEW p \in Places,
         jobs' = [jobs EXCEPT ![h] = [jobs[h] EXCEPT !.pc = p]],
         jobs[h].pc # "idle",
         p \in Rowed => row[jobs[h].slot] # NoRow,
         p \in Acting => jobs[h].act \in Acts,
         p \notin {"balance", "write", "done"}, jobs[h].pc # "done",
         UNCHANGED <<account, row, sealed, done>>,
         audit' \in [Slots -> [Acts -> Nat]], pays' \in Nat, faults' \in Nat
  PROVE  VaultsInv'
<1> DEFINE j == [jobs[h] EXCEPT !.pc = p]
<1>1. /\ jobs[h] \in Requests /\ jobs[h].slot \in sealed
      /\ h \in Pollers => row[jobs[h].slot] # NoRow
      /\ jobs[h].act = "create" \/ row[jobs[h].slot] # NoRow
  BY DEF VaultsInv, JobOK
<1>2. j \in Requests /\ j.pc = p /\ j.slot = jobs[h].slot /\ j.act = jobs[h].act
  BY <1>1, Placed
<1> HIDE DEF j
<1>3. JobOK(h, j, row, sealed)
  BY <1>1, <1>2 DEF JobOK
<1>4. jobs' = [jobs EXCEPT ![h] = j]
  BY DEF j
<1> QED
  BY <1>3, <1>4, OnlyJob

(* A request that ends without an answer.                                  *)
LEMMA EndKeeps ==
  ASSUME VaultsInv, NEW h \in Handlers, jobs[h].pc # "idle", End(h),
         UNCHANGED <<account, row, sealed, audit, done>>, pays' \in Nat, faults' \in Nat
  PROVE  VaultsInv'
<1> DEFINE j == Ended(jobs[h], NoRow)
<1>1. JobOK(h, j, row, sealed)
  BY EndedOK
<1>2. jobs' = [jobs EXCEPT ![h] = j] /\ audit' \in [Slots -> [Acts -> Nat]]
  BY DEF End, VaultsInv, VaultsTypeOK
<1> HIDE DEF j
<1> QED
  BY <1>1, <1>2, OnlyJob

LEMMA FaultTyped == ASSUME VaultsInv, Fault PROVE faults' \in Nat
  BY DEF VaultsInv, VaultsTypeOK, Fault
LEMMA SimpleKeeps ==
  ASSUME VaultsInv, NEW h \in Handlers,
         fundDelegate(h) \/ refuse(h) \/ loseConfirmation(h) \/ writeAudit(h) \/ fail(h)
  PROVE  VaultsInv'
<1>t. /\ JobOK(h, jobs[h], row, sealed) /\ pays \in Nat /\ faults \in Nat
      /\ audit \in [Slots -> [Acts -> Nat]] /\ sealed \in SUBSET Slots
  BY DEF VaultsInv, VaultsTypeOK
<1>1. CASE fundDelegate(h)
  <2>1. "insert" \in Places /\ jobs[h].act \in Acts
    BY <1>t, <1>1 DEF fundDelegate, At, JobOK, Acting, Places
  <2> QED
    BY <1>t, <1>1, <2>1, GotoKeeps DEF fundDelegate, At, Goto, Rowed
<1>2. CASE refuse(h)
  BY <1>t, <1>2, EndKeeps DEF refuse, At
<1>3. CASE loseConfirmation(h)
  <2>1. /\ "lost" \in Places /\ jobs[h].act \in Acts
        /\ jobs[h].act = "create" \/ row[jobs[h].slot] # NoRow
    BY <1>t, <1>3 DEF loseConfirmation, At, JobOK, Acting, Rowed, Places
  <2>2. faults' \in Nat
    BY <1>3, FaultTyped DEF loseConfirmation
  <2> QED
    BY <1>t, <1>3, <2>1, <2>2, GotoKeeps DEF loseConfirmation, At, Goto, Rowed
<1>4. CASE fail(h)
  BY <1>t, <1>4, EndKeeps, FaultTyped DEF fail
<1>5. CASE writeAudit(h)
  <2>1. jobs[h].act \in Acts /\ jobs[h].slot \in Slots /\ row[jobs[h].slot] # NoRow
    BY <1>t, <1>5 DEF writeAudit, At, JobOK, Acting, Rowed
  <2>2. audit' \in [Slots -> [Acts -> Nat]]
    BY <1>t, <1>5, <2>1 DEF writeAudit
  <2>3. CASE jobs[h].act = "close"
    <3>1. "zero" \in Places
      BY DEF Places
    <3> QED
      BY <1>t, <1>5, <2>1, <2>2, <2>3, <3>1, GotoKeeps DEF writeAudit, At, Goto
  <2>4. CASE jobs[h].act # "close"
    <3>1. "sync" \in Places
      BY DEF Places
    <3> QED
      BY <1>t, <1>5, <2>1, <2>2, <2>4, <3>1, GotoKeeps DEF writeAudit, At, Goto
  <2> QED
    BY <2>3, <2>4
<1> QED
  BY <1>1, <1>2, <1>3, <1>4, <1>5

(* What a balance is read as, and what that costs.                         *)
LEMMA BalanceRead ==
  ASSUME VaultsInv, NEW s \in Slots, NEW balance, Reads(s, balance)
  PROVE  /\ balance \in Nat /\ faults' \in Nat /\ account[s] \in Accounts
         /\ balance = account[s].funds \/ (s \in Tokens /\ balance = 0)
<1>1. account[s] \in Accounts /\ account[s].funds \in Nat /\ faults \in Nat
  BY DEF VaultsInv, VaultsTypeOK, Accounts
<1> QED
  BY <1>1, FaultTyped DEF Reads

LEMMA MeasureKeeps ==
  ASSUME VaultsInv, NEW h \in Handlers, measure(h)
  PROVE  VaultsInv'
<1>1. /\ JobOK(h, jobs[h], row, sealed) /\ jobs[h] \in Requests /\ jobs[h].pc = "measure"
      /\ jobs[h].slot \in Slots /\ pays \in Nat /\ jobs[h].arg \in Nat
      /\ audit \in [Slots -> [Acts -> Nat]]
  BY DEF VaultsInv, VaultsTypeOK, measure, At, JobOK, Requests
<1>2. PICK n : \E balance :
        /\ Reads(jobs[h].slot, balance)
        /\ n = IF jobs[h].arg = All THEN balance ELSE jobs[h].arg
        /\ jobs' = [jobs EXCEPT ![h] = IF n = 0 THEN Ended(@, NoRow)
                                      ELSE [@ EXCEPT !.arg = n, !.pc = "send"]]
  BY DEF measure
<1>3. n \in Nat /\ faults' \in Nat
  BY <1>1, <1>2, BalanceRead
<1>4. UNCHANGED <<account, row, sealed, audit, done, pays>>
  BY DEF measure
<1>5. CASE n = 0
  <2>1. End(h)
    BY <1>2, <1>5 DEF End
  <2> QED
    BY <1>1, <1>3, <1>4, <2>1, EndKeeps
<1>6. CASE n # 0
  <2> DEFINE j == [jobs[h] EXCEPT !.arg = n, !.pc = "send"]
  <2>1. jobs' = [jobs EXCEPT ![h] = j]
    BY <1>2, <1>6
  <2>2. /\ j \in Requests /\ j.pc = "send" /\ j.slot = jobs[h].slot /\ j.act = jobs[h].act
    BY <1>1, <1>3 DEF Requests, Places
  <2> HIDE DEF j
  <2>3. JobOK(h, j, row, sealed)
    BY <1>1, <2>2 DEF JobOK, Rowed, Acting
  <2> QED
    BY <1>1, <1>3, <1>4, <2>1, <2>3, OnlyJob
<1> QED
  BY <1>5, <1>6

(* Transactions that land, confirmed or late.                              *)
LEMMA LandKeeps ==
  ASSUME VaultsInv, NEW h \in Handlers, NEW j, jobs' = [jobs EXCEPT ![h] = j],
         jobs[h].pc \in {"init", "send", "lost"}, Execute(jobs[h]),
         JobOK(h, j, row, sealed), UNCHANGED <<row, sealed, audit, pays, faults>>
  PROVE  VaultsInv'
<1>1. /\ JobOK(h, jobs[h], row, sealed) /\ jobs[h] \in Requests /\ jobs[h].slot \in sealed
      /\ jobs[h].act \in Acts
      /\ jobs[h].act = "create" \/ row[jobs[h].slot] # NoRow
  BY DEF VaultsInv, JobOK, Rowed, Acting
<1>2. /\ account' \in [Slots -> Accounts] /\ done' \in [Slots -> [Acts -> Nat]]
      /\ \A s \in Slots : account'[s].status # "none" => s \in sealed
      /\ \A s \in Slots : row[s] = NoRow => account'[s].funds = 0
  BY <1>1, Executed
<1>3. /\ jobs' \in [Handlers -> Requests]
      /\ \A g \in Handlers : JobOK(g, jobs'[g], row', sealed')
  BY JobMoves DEF VaultsInv, VaultsTypeOK
<1>4. VaultsTypeOK'
  BY <1>2, <1>3 DEF VaultsInv, VaultsTypeOK
<1> QED
  BY <1>2, <1>3, <1>4 DEF VaultsInv, KeyOfEveryVault, OrphansHoldNothing

LEMMA SendKeeps ==
  ASSUME VaultsInv, NEW h \in Handlers, send(h)
  PROVE  VaultsInv'
<1> DEFINE p == IF At(h, "init") THEN "fund" ELSE "audit"
           w == account'[jobs[h].slot].at
           j == [jobs[h] EXCEPT !.pc = p, !.wrote = w]
<1>1. /\ JobOK(h, jobs[h], row, sealed) /\ jobs[h] \in Requests /\ jobs[h].pc \in {"init", "send"}
      /\ jobs[h].slot \in Slots /\ jobs[h].slot \in sealed /\ jobs[h].act \in Acts
      /\ jobs[h].act = "create" \/ row[jobs[h].slot] # NoRow
  BY DEF VaultsInv, VaultsTypeOK, send, At, JobOK, Rowed, Acting
<1>2. Execute(jobs[h]) /\ UNCHANGED <<row, sealed, audit, pays, faults>>
        /\ jobs' = [jobs EXCEPT ![h] = j]
  BY DEF send
<1>3. w \in Nat
  <2>1. account' \in [Slots -> Accounts]
    BY <1>1, <1>2, Executed
  <2> QED
    BY <1>1, <2>1 DEF Accounts
<1>4. p \in {"fund", "audit"} /\ (p = "audit" => jobs[h].pc = "send")
  BY <1>1 DEF At
<1> HIDE DEF p, w
<1>5. j \in Requests /\ j.pc = p /\ j.slot = jobs[h].slot /\ j.act = jobs[h].act
  BY <1>1, <1>3, <1>4 DEF Requests, Places
<1> HIDE DEF j
<1>6. JobOK(h, j, row, sealed)
  BY <1>1, <1>4, <1>5 DEF JobOK, Rowed
<1> QED
  BY <1>1, <1>2, <1>6, LandKeeps

LEMMA LateKeeps ==
  ASSUME VaultsInv, NEW h \in Handlers, landLate(h)
  PROVE  VaultsInv'
<1> DEFINE j == Ended(jobs[h], NoRow)
<1>1. /\ JobOK(h, jobs[h], row, sealed) /\ jobs[h] \in Requests /\ jobs[h].pc = "lost"
      /\ jobs[h].slot \in sealed
  BY DEF VaultsInv, landLate, At, JobOK
<1>3. /\ jobs' = [jobs EXCEPT ![h] = j] /\ UNCHANGED <<row, sealed, audit, pays, faults>>
      /\ Execute(jobs[h]) \/ UNCHANGED <<account, done>>
  BY DEF landLate, End
<1>4. JobOK(h, j, row, sealed)
  BY <1>1, EndedOK
<1> HIDE DEF j
<1>5. CASE Execute(jobs[h])
  BY <1>1, <1>3, <1>4, <1>5, LandKeeps
<1>6. CASE UNCHANGED <<account, done>>
  BY <1>3, <1>4, <1>6, OnlyJob DEF VaultsInv, VaultsTypeOK
<1> QED
  BY <1>3, <1>5, <1>6
-----------------------------------------------------------------------------
(* Steps that write rows.                                                  *)
LEMMA RowKeeps ==
  ASSUME VaultsInv, NEW h \in Handlers, NEW j, jobs' = [jobs EXCEPT ![h] = j],
         NEW s \in Slots, NEW r \in Rows, row' = [row EXCEPT ![s] = r],
         s \in sealed, JobOK(h, j, row, sealed),
         UNCHANGED <<account, sealed, audit, done, pays, faults>>
  PROVE  VaultsInv'
<1>1. row \in [Slots -> Rows \cup {NoRow}] /\ sealed \in SUBSET Slots
  BY DEF VaultsInv, VaultsTypeOK
<1>2. /\ row' \in [Slots -> Rows \cup {NoRow}]
      /\ \A t \in Slots : row[t] # NoRow => row'[t] # NoRow
      /\ \A t \in Slots : row'[t] # NoRow => t \in sealed
  BY <1>1, NoRowIsNoRow DEF VaultsInv
<1>3. JobOK(h, j, row', sealed')
  <2>1. j.pc # "idle" => j.slot \in Slots
    BY <1>1 DEF JobOK
  <2> QED
    BY <1>2, <2>1 DEF JobOK, Rowed
<1>4. /\ jobs' \in [Handlers -> Requests]
      /\ \A g \in Handlers : JobOK(g, jobs'[g], row', sealed')
  BY <1>1, <1>2, <1>3, JobMoves
<1>5. VaultsTypeOK'
  BY <1>2, <1>4 DEF VaultsInv, VaultsTypeOK
<1>6. OrphansHoldNothing'
  BY <1>2 DEF VaultsInv, OrphansHoldNothing
<1> QED
  BY <1>2, <1>4, <1>5, <1>6 DEF VaultsInv, KeyOfEveryVault

LEMMA InsertKeeps ==
  ASSUME VaultsInv, NEW h \in Handlers, insertRow(h)
  PROVE  VaultsInv'
<1> DEFINE s == jobs[h].slot
           j == [jobs[h] EXCEPT !.pc = "audit"]
<1>1. /\ JobOK(h, jobs[h], row, sealed) /\ jobs[h] \in Requests /\ jobs[h].act \in Acts
      /\ s \in sealed /\ s \in Slots
  BY DEF VaultsInv, VaultsTypeOK, insertRow, At, JobOK, Acting
<1>2. j \in Requests /\ j.pc = "audit" /\ j.slot = s /\ j.act = jobs[h].act
  BY <1>1, Placed DEF Places
<1>3. /\ jobs' = [jobs EXCEPT ![h] = j] /\ row' = [row EXCEPT ![s] = FreshRow]
      /\ UNCHANGED <<account, sealed, audit, done, pays, faults>>
  BY DEF insertRow, Goto
<1>4. FreshRow \in Rows
  BY DEF FreshRow, Rows
<1> HIDE DEF j
<1>5. row \in [Slots -> Rows \cup {NoRow}] /\ sealed \in SUBSET Slots
  BY DEF VaultsInv, VaultsTypeOK
<1>6. /\ row' \in [Slots -> Rows \cup {NoRow}] /\ row'[s] # NoRow
      /\ \A t \in Slots : row[t] # NoRow => row'[t] # NoRow
      /\ \A t \in Slots : row'[t] # NoRow => t \in sealed
  BY <1>1, <1>3, <1>4, <1>5, NoRowIsNoRow DEF VaultsInv
<1>7. JobOK(h, j, row', sealed')
  BY <1>1, <1>2, <1>3, <1>6 DEF JobOK
<1>8. /\ jobs' \in [Handlers -> Requests]
      /\ \A g \in Handlers : JobOK(g, jobs'[g], row', sealed')
  BY <1>3, <1>5, <1>6, <1>7, JobMoves
<1>9. VaultsTypeOK'
  BY <1>3, <1>6, <1>8 DEF VaultsInv, VaultsTypeOK
<1>10. OrphansHoldNothing'
  BY <1>3, <1>6 DEF VaultsInv, OrphansHoldNothing
<1> QED
  BY <1>3, <1>6, <1>8, <1>9, <1>10 DEF VaultsInv, KeyOfEveryVault

LEMMA ZeroKeeps ==
  ASSUME VaultsInv, NEW h \in Handlers, zeroRow(h)
  PROVE  VaultsInv'
<1> DEFINE s == jobs[h].slot
           j == Ended(jobs[h], NoRow)
           r == [row[s] EXCEPT !.funds = 0, !.active = FALSE]
<1>1. /\ JobOK(h, jobs[h], row, sealed) /\ jobs[h] \in Requests
      /\ s \in sealed /\ s \in Slots /\ row[s] \in Rows /\ row[s] # NoRow
      /\ jobs[h].pc # "idle"
  BY DEF VaultsInv, VaultsTypeOK, zeroRow, At, JobOK, Rowed
<1>2. JobOK(h, j, row, sealed)
  BY <1>1, EndedOK
<1>3. /\ jobs' = [jobs EXCEPT ![h] = j] /\ row' = [row EXCEPT ![s] = r]
      /\ UNCHANGED <<account, sealed, audit, done, pays, faults>>
  BY DEF zeroRow, End
<1>4. r \in Rows
  BY <1>1 DEF Rows
<1> HIDE DEF j, r
<1> QED
  BY <1>1, <1>2, <1>3, <1>4, RowKeeps

LEMMA UpdateKeeps ==
  ASSUME VaultsInv, NEW h \in Handlers, updateRow(h)
  PROVE  VaultsInv'
<1> DEFINE s == jobs[h].slot
           j == Ended(jobs[h], jobs[h].seen)
<1>1. /\ JobOK(h, jobs[h], row, sealed) /\ jobs[h] \in Requests /\ jobs[h].pc # "idle"
      /\ s \in sealed /\ s \in Slots /\ jobs[h].seen \in Rows /\ row[s] # NoRow
  BY DEF VaultsInv, VaultsTypeOK, updateRow, At, JobOK, Rowed
<1>2. JobOK(h, j, row, sealed)
  BY <1>1, EndedOK
<1>3. /\ jobs' = [jobs EXCEPT ![h] = j] /\ row' = [row EXCEPT ![s] = jobs[h].seen]
      /\ UNCHANGED <<account, sealed, audit, done, pays, faults>>
  BY DEF updateRow
<1> HIDE DEF j
<1> QED
  BY <1>1, <1>2, <1>3, RowKeeps

-----------------------------------------------------------------------------
(* Steps that read for a row.                                              *)
LEMMA LookUpKeeps ==
  ASSUME VaultsInv, NEW h \in Handlers, lookUp(h)
  PROVE  VaultsInv'
<1> DEFINE j == [jobs[h] EXCEPT !.pc = "fetch", !.seen = row[jobs[h].slot]]
<1>1. /\ JobOK(h, jobs[h], row, sealed) /\ jobs[h] \in Requests
      /\ jobs[h].slot \in Slots /\ row[jobs[h].slot] \in Rows
      /\ jobs[h].slot \in sealed /\ row[jobs[h].slot] # NoRow
  BY DEF VaultsInv, VaultsTypeOK, lookUp, At, JobOK, Rowed
<1>2. j \in Requests /\ j.pc = "fetch" /\ j.slot = jobs[h].slot
        /\ j.act = jobs[h].act
  BY <1>1 DEF Requests, Places
<1>3. /\ jobs' = [jobs EXCEPT ![h] = j]
      /\ UNCHANGED <<account, row, sealed, audit, done, pays, faults>>
  BY DEF lookUp
<1> HIDE DEF j
<1>4. JobOK(h, j, row, sealed)
  BY <1>1, <1>2 DEF JobOK, Acting
<1> QED
  BY <1>3, <1>4, OnlyJob DEF VaultsInv, VaultsTypeOK

LEMMA FetchKeeps ==
  ASSUME VaultsInv, NEW h \in Handlers, fetchVault(h)
  PROVE  VaultsInv'
<1> DEFINE a == account[jobs[h].slot]
           read == [at |-> a.at, active |-> a.active, funds |-> 0, asOf |-> 0]
           found == [jobs[h] EXCEPT !.pc = "balance", !.seen = read]
           gone == Ended(jobs[h], jobs[h].seen)
<1>1. /\ JobOK(h, jobs[h], row, sealed) /\ jobs[h] \in Requests /\ jobs[h].pc # "idle"
      /\ jobs[h].slot \in sealed /\ row[jobs[h].slot] # NoRow /\ a \in Accounts
  BY DEF VaultsInv, VaultsTypeOK, fetchVault, At, JobOK, Rowed
<1>2. read \in Rows
  BY <1>1 DEF Accounts, Rows
<1>3. /\ jobs' = [jobs EXCEPT ![h] = IF Open(jobs[h].slot) THEN found ELSE gone]
      /\ UNCHANGED <<account, row, sealed, audit, done, pays, faults>>
  BY DEF fetchVault
<1> HIDE DEF read
<1>4. /\ found \in Requests /\ found.pc = "balance" /\ found.slot = jobs[h].slot
      /\ found.seen = read /\ found.act = jobs[h].act
  BY <1>1, <1>2 DEF Requests, Places
<1>5. JobOK(h, gone, row, sealed)
  <2>1. jobs[h].seen \in Rows \cup {NoRow}
    BY <1>1 DEF Requests
  <2> QED
    BY <1>1, <2>1, EndedOK
<1> HIDE DEF found, gone
<1>6. JobOK(h, found, row, sealed)
  BY <1>1, <1>2, <1>4 DEF JobOK, Rowed, Acting
<1>7. CASE Open(jobs[h].slot)
  <2>1. jobs' = [jobs EXCEPT ![h] = found]
    BY <1>3, <1>7
  <2> QED
    BY <1>3, <1>6, <2>1, OnlyJob DEF VaultsInv, VaultsTypeOK
<1>8. CASE ~Open(jobs[h].slot)
  <2>1. jobs' = [jobs EXCEPT ![h] = gone]
    BY <1>3, <1>8
  <2> QED
    BY <1>3, <1>5, <2>1, OnlyJob DEF VaultsInv, VaultsTypeOK
<1> QED
  BY <1>7, <1>8

(* What vaultBalance reads, as of which change.                            *)
Reading(j, f, n) ==
  [j EXCEPT !.pc = "write", !.seen = [j.seen EXCEPT !.funds = f, !.asOf = n]]

LEMMA BalanceStep ==
  ASSUME VaultsInv, NEW h \in Handlers, vaultBalance(h)
  PROVE  \E f \in Nat, n \in Nat :
           /\ jobs' = [jobs EXCEPT ![h] = Reading(jobs[h], f, n)]
           /\ n = account[jobs[h].slot].at \/ (jobs[h].slot \in Tokens /\ f = 0)
           /\ faults' \in Nat
<1>1. /\ jobs[h].slot \in Slots /\ account[jobs[h].slot].at \in Nat
  BY DEF VaultsInv, VaultsTypeOK, vaultBalance, At, JobOK, Accounts
<1>2. PICK f : LET a == account[jobs[h].slot]
                   n == IF f = a.funds THEN a.at ELSE 0
                   seen == [jobs[h].seen EXCEPT !.funds = f, !.asOf = n]
               IN  /\ Reads(jobs[h].slot, f)
                   /\ jobs' = [jobs EXCEPT ![h] = [@ EXCEPT !.pc = "write", !.seen = seen]]
  BY DEF vaultBalance
<1>3. /\ f \in Nat /\ faults' \in Nat
      /\ f = account[jobs[h].slot].funds \/ (jobs[h].slot \in Tokens /\ f = 0)
  BY <1>1, <1>2, BalanceRead
<1> DEFINE n == IF f = account[jobs[h].slot].funds THEN account[jobs[h].slot].at ELSE 0
<1>4. n \in Nat /\ (n = account[jobs[h].slot].at \/ (jobs[h].slot \in Tokens /\ f = 0))
  BY <1>1, <1>3
<1>5. jobs' = [jobs EXCEPT ![h] = Reading(jobs[h], f, n)]
  BY <1>2 DEF Reading
<1> HIDE DEF n
<1> QED
  BY <1>3, <1>4, <1>5

LEMMA BalanceKeeps ==
  ASSUME VaultsInv, NEW h \in Handlers, vaultBalance(h)
  PROVE  VaultsInv'
<1>1. /\ JobOK(h, jobs[h], row, sealed) /\ jobs[h] \in Requests
      /\ jobs[h].slot \in sealed /\ row[jobs[h].slot] # NoRow
      /\ jobs[h].seen \in Rows /\ jobs[h].slot \in Slots /\ jobs[h].pc = "balance"
  BY DEF VaultsInv, VaultsTypeOK, vaultBalance, At, JobOK, Rowed
<1>2. PICK f \in Nat, n \in Nat :
        jobs' = [jobs EXCEPT ![h] = Reading(jobs[h], f, n)] /\ faults' \in Nat
  BY BalanceStep
<1> DEFINE read == [jobs[h].seen EXCEPT !.funds = f, !.asOf = n]
           j == [jobs[h] EXCEPT !.pc = "write", !.seen = read]
<1>3. read \in Rows
  BY <1>1 DEF Rows
<1>4. jobs' = [jobs EXCEPT ![h] = j] /\ faults' \in Nat
  BY <1>2 DEF Reading
<1>5. UNCHANGED <<account, row, sealed, audit, done, pays>>
  BY DEF vaultBalance
<1> HIDE DEF read
<1>6. j \in Requests /\ j.pc = "write" /\ j.slot = jobs[h].slot /\ j.seen = read
        /\ j.act = jobs[h].act
  BY <1>1, <1>3 DEF Requests, Places
<1> HIDE DEF j
<1>7. JobOK(h, j, row, sealed)
  BY <1>1, <1>3, <1>6 DEF JobOK, Acting
<1> QED
  BY <1>4, <1>5, <1>7, OnlyJob DEF VaultsInv, VaultsTypeOK
-----------------------------------------------------------------------------
(* The rest of the world.                                                  *)
LEMMA PollKeeps ==
  ASSUME VaultsInv, NEW h \in Pollers, pollAgain(h)
  PROVE  VaultsInv'
<1> DEFINE j == Request("sync", "none", jobs[h].slot, 0)
<1>1. /\ h \in Handlers /\ JobOK(h, jobs[h], row, sealed)
      /\ jobs[h].slot \in sealed /\ jobs[h].slot \in Slots /\ row[jobs[h].slot] # NoRow
  BY DEF VaultsInv, VaultsTypeOK, pollAgain, At, JobOK, Handlers
<1>2. j \in Requests /\ j.pc = "sync" /\ j.slot = jobs[h].slot /\ j.act = "none"
  <2>1. "sync" \in Places /\ "none" \in Acts \cup {"none"} /\ 0 \in Nat
    BY DEF Places
  <2> QED
    BY <1>1, <2>1, RequestMade
<1>3. /\ jobs' = [jobs EXCEPT ![h] = j]
      /\ UNCHANGED <<account, row, sealed, audit, done, pays, faults>>
  BY DEF pollAgain
<1> HIDE DEF j
<1>4. JobOK(h, j, row, sealed)
  BY <1>1, <1>2 DEF JobOK, Acting
<1> QED
  BY <1>1, <1>3, <1>4, OnlyJob DEF VaultsInv, VaultsTypeOK

LEMMA PayKeeps ==
  ASSUME VaultsInv, NEW s \in Slots, pay(s)
  PROVE  VaultsInv'
<1> DEFINE a == account[s]
           b == Account(a.status, a.at + 1, a.active, a.funds - 1)
<1>1. /\ account \in [Slots -> Accounts] /\ pays \in Nat /\ a.status = "open" /\ a.funds > 0
      /\ a.at \in Nat /\ a.active \in BOOLEAN /\ a.funds \in Nat
  BY DEF VaultsInv, VaultsTypeOK, Accounts, pay, Open
<1>2. b \in Accounts /\ b.status = "open"
  BY <1>1 DEF Account, Accounts
<1>3. row[s] # NoRow
  BY <1>1 DEF VaultsInv, OrphansHoldNothing
<1>4. /\ account' = [account EXCEPT ![s] = b] /\ pays' \in Nat
      /\ UNCHANGED <<row, sealed, audit, done, jobs, faults>>
  BY <1>1 DEF pay
<1> HIDE DEF b
<1>5. VaultsTypeOK'
  BY <1>1, <1>2, <1>4 DEF VaultsInv, VaultsTypeOK
<1>6. KeyOfEveryVault'
  BY <1>1, <1>2, <1>4 DEF VaultsInv, KeyOfEveryVault
<1>7. OrphansHoldNothing'
  BY <1>1, <1>3, <1>4 DEF VaultsInv, OrphansHoldNothing
<1> QED
  BY <1>4, <1>5, <1>6, <1>7 DEF VaultsInv

LEMMA RestartKeeps ==
  ASSUME VaultsInv, restart
  PROVE  VaultsInv'
<1>1. /\ jobs \in [Handlers -> Requests] /\ UNCHANGED <<account, row, sealed, audit, done, pays>>
      /\ faults' \in Nat
  BY FaultTyped DEF VaultsInv, VaultsTypeOK, restart
<1>2. ASSUME NEW h \in Handlers
      PROVE  jobs'[h] \in Requests /\ JobOK(h, jobs'[h], row, sealed)
  <2>1. jobs[h] \in Requests /\ JobOK(h, jobs[h], row, sealed)
    BY <1>1, <1>2 DEF VaultsInv
  <2>2. CASE jobs[h].pc \in {"idle", "lost", "done"}
    <3>1. jobs'[h] = jobs[h]
      BY <2>2 DEF restart
    <3> QED
      BY <2>1, <3>1
  <2>3. CASE jobs[h].pc \in {"init", "send"}
    <3> DEFINE k == [jobs[h] EXCEPT !.pc = "lost"]
    <3>1. jobs'[h] = k /\ "lost" \in Places
      BY <2>3 DEF restart, Places
    <3>2. k \in Requests /\ k.pc = "lost" /\ k.slot = jobs[h].slot /\ k.act = jobs[h].act
      BY <2>1, <3>1, Placed
    <3> HIDE DEF k
    <3>3. /\ jobs'[h] \in Requests /\ jobs'[h].pc = "lost"
          /\ jobs'[h].slot = jobs[h].slot /\ jobs'[h].act = jobs[h].act
      BY <3>1, <3>2
    <3> QED
      BY <2>1, <2>3, <3>3 DEF JobOK, Rowed, Acting
  <2>4. CASE jobs[h].pc \notin {"idle", "lost", "done", "init", "send"}
    <3>1. jobs'[h] = Ended(jobs[h], NoRow)
      BY <2>4 DEF restart
    <3>2. JobOK(h, Ended(jobs[h], NoRow), row, sealed)
      BY <2>4, EndedOK
    <3> QED
      BY <3>1, <3>2 DEF JobOK
  <2> QED
    BY <2>2, <2>3, <2>4
<1>3. jobs' \in [Handlers -> Requests]
  BY <1>2 DEF restart
<1>4. VaultsTypeOK'
  BY <1>1, <1>3 DEF VaultsInv, VaultsTypeOK
<1> QED
  BY <1>1, <1>2, <1>4 DEF VaultsInv, KeyOfEveryVault, OrphansHoldNothing

-----------------------------------------------------------------------------
LEMMA ArrivalKeeps ==
  ASSUME VaultsInv, NEW h \in Jobs, Arrival(h)
  PROVE  VaultsInv'
<1>1. h \in Handlers /\ All \in Nat /\ Off \in Nat /\ On \in Nat /\ Deposits \subseteq Nat
  BY VaultsAssumption DEF Handlers, All, Off, On
<1>2. PICK s \in Slots :
        \/ create(h, s)
        \/ \E act \in Acts \ {"create"}, n \in Nat, p \in {"send", "measure"} :
             Ask(h, s, act, n, p)
  BY <1>1 DEF Arrival, setPolicy, setDelegateActive, resetWindow, manageList, deposit,
              withdraw, close, Acts
<1>3. CASE create(h, s)
  BY <1>3, CreateKeeps
<1>4. CASE \E act \in Acts \ {"create"}, n \in Nat, p \in {"send", "measure"} :
             Ask(h, s, act, n, p)
  BY <1>1, <1>4, AskKeeps
<1> QED
  BY <1>2, <1>3, <1>4

LEMMA VaultsInductive == VaultsInv /\ [Next]_vars => VaultsInv'
<1> SUFFICES ASSUME VaultsInv, [Next]_vars PROVE VaultsInv'
  OBVIOUS
<1>1. CASE UNCHANGED vars
  BY <1>1 DEF vars, VaultsInv, VaultsTypeOK, KeyOfEveryVault, OrphansHoldNothing, JobOK
<1>2. ASSUME NEW h \in Pollers, NEW s \in Slots, getVault(h, s) PROVE VaultsInv'
  <2>1. h \in Handlers /\ 0 \in Nat /\ Ask(h, s, "none", 0, "sync") /\ "none" # "create"
    BY <1>2 DEF getVault, Handlers
  <2> QED
    BY <2>1, AskKeeps
<1>3. ASSUME NEW h \in Handlers, Step(h) PROVE VaultsInv'
  BY <1>3, SimpleKeeps, InsertKeeps, MeasureKeeps, SendKeeps, LateKeeps, ZeroKeeps,
     LookUpKeeps, FetchKeeps, BalanceKeeps, UpdateKeeps DEF Step
<1> QED
  BY <1>1, <1>2, <1>3, ArrivalKeeps, PollKeeps, PayKeeps, RestartKeeps DEF Next

(* The invariant of the owner operations.                                  *)
THEOREM VaultsSafe == Spec => []VaultsInv
  BY InitVaults, VaultsInductive, PTL DEF Spec

(* Every state of the service is well-formed: rows, requests and counters  *)
(* stay what their types say, balances natural numbers.                    *)
THEOREM VaultsTypes == Spec => []VaultsTypeOK
<1>1. VaultsInv => VaultsTypeOK
  BY DEF VaultsInv
<1> QED
  BY <1>1, VaultsSafe, PTL

(* However creations fail, land late or are cut short by restarts, the     *)
(* delegate's key of every vault on the chain is in the key store.         *)
THEOREM KeysAreKept == Spec => []KeyOfEveryVault
<1>1. VaultsInv => KeyOfEveryVault
  BY DEF VaultsInv
<1> QED
  BY <1>1, VaultsSafe, PTL

(* A vault no row names never holds money.                                 *)
THEOREM OrphansAreEmpty == Spec => []OrphansHoldNothing
<1>1. VaultsInv => OrphansHoldNothing
  BY DEF VaultsInv
<1> QED
  BY <1>1, VaultsSafe, PTL

-----------------------------------------------------------------------------
(* Requests whose transaction landed and whose audit entry is still to     *)
(* come: with them, the log and the chain add up.                          *)
Owes(h) == jobs[h].pc \in {"fund", "insert", "audit"}
Owing(s, act) == {h \in Handlers : Owes(h) /\ jobs[h].slot = s /\ jobs[h].act = act}

AddsUp ==
  \A s \in Slots, act \in Acts : audit[s][act] + Cardinality(Owing(s, act)) <= done[s][act]

AuditInv == VaultsInv /\ AddsUp

LEMMA HandlersFinite == IsFiniteSet(Handlers)
  BY VaultsAssumption, FS_Union DEF Handlers

LEMMA OwingCounted ==
  ASSUME NEW s, NEW act
  PROVE  IsFiniteSet(Owing(s, act)) /\ Cardinality(Owing(s, act)) \in Nat
<1>1. Owing(s, act) \subseteq Handlers
  BY DEF Owing
<1> QED
  BY <1>1, HandlersFinite, FS_Subset, FS_CardinalityType

LEMMA InitAudit == Init => AuditInv
<1> SUFFICES ASSUME Init PROVE AuditInv
  OBVIOUS
<1>1. ASSUME NEW s \in Slots, NEW act \in Acts
      PROVE  audit[s][act] + Cardinality(Owing(s, act)) <= done[s][act]
  <2>1. Owing(s, act) = {}
    BY DEF Init, Owing, Owes, Idle, Request
  <2>2. Cardinality(Owing(s, act)) = 0
    BY <2>1, FS_EmptySet
  <2> QED
    BY <2>2 DEF Init
<1> QED
  BY <1>1, InitVaults DEF AuditInv, AddsUp

(* No request comes to owe an entry, and log and chain stay as they were.  *)
LEMMA QuietAddsUp ==
  ASSUME AuditInv, UNCHANGED <<audit, done>>,
         \A g \in Handlers : Owes(g)' => /\ Owes(g)
                                         /\ jobs'[g].slot = jobs[g].slot
                                         /\ jobs'[g].act = jobs[g].act
  PROVE  AddsUp'
<1> SUFFICES ASSUME NEW s \in Slots, NEW act \in Acts
             PROVE  audit'[s][act] + Cardinality(Owing(s, act)') <= done'[s][act]
  BY DEF AddsUp
<1>1. Owing(s, act)' \subseteq Owing(s, act)
  BY DEF Owing
<1>2. /\ Cardinality(Owing(s, act)') <= Cardinality(Owing(s, act))
      /\ Cardinality(Owing(s, act)') \in Nat
  BY <1>1, OwingCounted, FS_Subset, FS_CardinalityType
<1>3. audit[s][act] \in Nat /\ done[s][act] \in Nat
  BY DEF AuditInv, VaultsInv, VaultsTypeOK
<1> QED
  BY <1>2, <1>3, OwingCounted DEF AuditInv, AddsUp

(* Nothing more is owed than before, and the chain did as much or more.    *)
LEMMA GrownAddsUp ==
  ASSUME AuditInv, UNCHANGED audit,
         \A s \in Slots, act \in Acts :
           /\ Owing(s, act)' \subseteq Owing(s, act)
           /\ done[s][act] \in Nat /\ done'[s][act] \in Nat /\ done[s][act] <= done'[s][act]
  PROVE  AddsUp'
<1> SUFFICES ASSUME NEW s \in Slots, NEW act \in Acts
             PROVE  audit'[s][act] + Cardinality(Owing(s, act)') <= done'[s][act]
  BY DEF AddsUp
<1>1. /\ Cardinality(Owing(s, act)') <= Cardinality(Owing(s, act))
      /\ Cardinality(Owing(s, act)') \in Nat
  BY OwingCounted, FS_Subset, FS_CardinalityType
<1>2. audit[s][act] \in Nat
  BY DEF AuditInv, VaultsInv, VaultsTypeOK
<1> QED
  BY <1>1, <1>2, OwingCounted DEF AuditInv, AddsUp

(* A transaction lands: the request that sent it may owe an entry now.     *)
LEMMA LandAddsUp ==
  ASSUME AuditInv, NEW h \in Handlers, NEW j, jobs' = [jobs EXCEPT ![h] = j],
         Execute(jobs[h]), jobs[h].slot \in Slots, jobs[h].act \in Acts,
         j.slot = jobs[h].slot, j.act = jobs[h].act,
         UNCHANGED audit
  PROVE  AddsUp'
<1> SUFFICES ASSUME NEW s \in Slots, NEW act \in Acts
             PROVE  audit'[s][act] + Cardinality(Owing(s, act)') <= done'[s][act]
  BY DEF AddsUp
<1>1. /\ jobs \in [Handlers -> Requests] /\ audit[s][act] \in Nat /\ done[s][act] \in Nat
      /\ done \in [Slots -> [Acts -> Nat]]
  BY DEF AuditInv, VaultsInv, VaultsTypeOK
<1>2. done' = [done EXCEPT ![jobs[h].slot][jobs[h].act] = done[jobs[h].slot][jobs[h].act] + 1]
  BY DEF Execute
<1>3. audit[s][act] + Cardinality(Owing(s, act)) <= done[s][act]
  BY DEF AuditInv, AddsUp
<1>4. CASE s = jobs[h].slot /\ act = jobs[h].act
  <2>1. Owing(s, act)' \subseteq Owing(s, act) \cup {h}
    BY <1>1 DEF Owing, Owes
  <2> DEFINE S == Owing(s, act)
  <2>5. IsFiniteSet(S) /\ Cardinality(S) \in Nat
    BY OwingCounted
  <2> HIDE DEF S
  <2>6. /\ IsFiniteSet(S \cup {h}) /\ Cardinality(S \cup {h}) <= Cardinality(S) + 1
        /\ Cardinality(S \cup {h}) \in Nat
    <3>1. /\ IsFiniteSet(S \cup {h})
          /\ Cardinality(S \cup {h}) = IF h \in S THEN Cardinality(S) ELSE Cardinality(S) + 1
      BY <2>5, FS_AddElement
    <3> QED
      BY <2>5, <3>1
  <2>2. /\ IsFiniteSet(Owing(s, act) \cup {h})
        /\ Cardinality(Owing(s, act) \cup {h}) \in Nat
        /\ Cardinality(Owing(s, act) \cup {h}) <= Cardinality(Owing(s, act)) + 1
    BY <2>6 DEF S
  <2>3. /\ Cardinality(Owing(s, act)') <= Cardinality(Owing(s, act) \cup {h})
        /\ Cardinality(Owing(s, act)') \in Nat
    BY <2>1, <2>2, FS_Subset, FS_CardinalityType
  <2>4. done'[s][act] = done[s][act] + 1
    BY <1>1, <1>2, <1>4
  <2> QED
    BY <1>1, <1>3, <2>2, <2>3, <2>4, OwingCounted
<1>5. CASE ~(s = jobs[h].slot /\ act = jobs[h].act)
  <2>1. Owing(s, act)' \subseteq Owing(s, act)
    BY <1>1, <1>5 DEF Owing, Owes
  <2>2. /\ Cardinality(Owing(s, act)') <= Cardinality(Owing(s, act))
        /\ Cardinality(Owing(s, act)') \in Nat
    BY <2>1, OwingCounted, FS_Subset, FS_CardinalityType
  <2>3. done'[s][act] = done[s][act]
    BY <1>1, <1>2, <1>5
  <2> QED
    BY <1>1, <1>3, <2>2, <2>3, OwingCounted
<1> QED
  BY <1>4, <1>5

(* An entry is written: its request owes none any more.                    *)
LEMMA LogAddsUp ==
  ASSUME AuditInv, NEW h \in Handlers, writeAudit(h)
  PROVE  AddsUp'
<1> SUFFICES ASSUME NEW s \in Slots, NEW act \in Acts
             PROVE  audit'[s][act] + Cardinality(Owing(s, act)') <= done'[s][act]
  BY DEF AddsUp
<1>1. /\ jobs \in [Handlers -> Requests] /\ audit \in [Slots -> [Acts -> Nat]]
      /\ audit[s][act] \in Nat /\ done[s][act] \in Nat
      /\ jobs[h].pc = "audit"
  BY DEF AuditInv, VaultsInv, VaultsTypeOK, writeAudit, At
<1>2. JobOK(h, jobs[h], row, sealed) /\ sealed \subseteq Slots
  BY DEF AuditInv, VaultsInv, VaultsTypeOK
<1>3. jobs[h].slot \in Slots /\ jobs[h].act \in Acts
  BY <1>1, <1>2 DEF JobOK, Acting
<1>4. /\ audit' = [audit EXCEPT ![jobs[h].slot][jobs[h].act] = audit[jobs[h].slot][jobs[h].act] + 1]
      /\ done' = done
  BY DEF writeAudit
<1>5. audit[s][act] + Cardinality(Owing(s, act)) <= done[s][act]
  BY DEF AuditInv, AddsUp
<1>6. Owing(s, act)' \subseteq Owing(s, act) \ {h}
  BY <1>1 DEF Owing, Owes, writeAudit, Goto, Requests
<1>7. CASE s = jobs[h].slot /\ act = jobs[h].act
  <2>1. h \in Owing(s, act)
    BY <1>1, <1>7 DEF Owing, Owes
  <2>2. /\ IsFiniteSet(Owing(s, act) \ {h})
        /\ Cardinality(Owing(s, act) \ {h}) = Cardinality(Owing(s, act)) - 1
    BY <2>1, OwingCounted, FS_RemoveElement
  <2>3. /\ Cardinality(Owing(s, act)') <= Cardinality(Owing(s, act) \ {h})
        /\ Cardinality(Owing(s, act)') \in Nat
    BY <1>6, <2>2, FS_Subset, FS_CardinalityType
  <2>4. audit'[s][act] = audit[s][act] + 1
    BY <1>1, <1>3, <1>4, <1>7
  <2> QED
    BY <1>1, <1>4, <1>5, <2>2, <2>3, <2>4, OwingCounted
<1>8. CASE ~(s = jobs[h].slot /\ act = jobs[h].act)
  <2>1. Owing(s, act)' \subseteq Owing(s, act)
    BY <1>6
  <2>2. /\ Cardinality(Owing(s, act)') <= Cardinality(Owing(s, act))
        /\ Cardinality(Owing(s, act)') \in Nat
    BY <2>1, OwingCounted, FS_Subset, FS_CardinalityType
  <2>3. audit'[s][act] = audit[s][act]
    BY <1>1, <1>3, <1>4, <1>8
  <2> QED
    BY <1>1, <1>4, <1>5, <2>2, <2>3, OwingCounted
<1> QED
  BY <1>7, <1>8

LEMMA StepAddsUp ==
  ASSUME AuditInv, NEW h \in Handlers, Step(h)
  PROVE  AddsUp'
<1>1. jobs \in [Handlers -> Requests] /\ jobs[h] \in Requests
      /\ JobOK(h, jobs[h], row, sealed) /\ sealed \subseteq Slots
  BY DEF AuditInv, VaultsInv, VaultsTypeOK
<1>2. CASE fundDelegate(h) \/ insertRow(h) \/ loseConfirmation(h)
  BY <1>1, <1>2, QuietAddsUp
  DEF fundDelegate, insertRow, loseConfirmation, Goto, At, Owes, Requests
<1>t. \A reply : Ended(jobs[h], reply).pc = "done"
  BY DEF Ended, Request
<1>q. ASSUME NEW j, j.pc \notin {"fund", "insert", "audit"}, jobs' = [jobs EXCEPT ![h] = j],
             UNCHANGED <<audit, done>>
      PROVE  AddsUp'
  BY <1>1, <1>q, QuietAddsUp DEF Owes
<1>3. CASE refuse(h) \/ zeroRow(h) \/ fail(h) \/ updateRow(h)
  BY <1>3, <1>t, <1>q DEF refuse, zeroRow, fail, updateRow, End
<1>4. CASE measure(h) \/ lookUp(h) \/ vaultBalance(h) \/ fetchVault(h)
  <2>1. PICK j : j.pc \notin {"fund", "insert", "audit"} /\ jobs' = [jobs EXCEPT ![h] = j]
    <3>1. CASE measure(h)
      <4>1. PICK n : jobs' = [jobs EXCEPT ![h] = IF n = 0 THEN Ended(@, NoRow)
                                                ELSE [@ EXCEPT !.arg = n, !.pc = "send"]]
        BY <3>1 DEF measure
      <4>2. [jobs[h] EXCEPT !.arg = n, !.pc = "send"].pc = "send"
        BY <1>1 DEF Requests
      <4> QED
        BY <4>1, <4>2, <1>t
    <3>2. CASE lookUp(h)
      <4>1. [jobs[h] EXCEPT !.pc = "fetch", !.seen = row[jobs[h].slot]].pc = "fetch"
        BY <1>1 DEF Requests
      <4> QED
        BY <3>2, <4>1 DEF lookUp
    <3>3. CASE vaultBalance(h)
      <4>1. PICK r : jobs' = [jobs EXCEPT ![h] = [@ EXCEPT !.pc = "write", !.seen = r]]
        BY <3>3 DEF vaultBalance
      <4>2. [jobs[h] EXCEPT !.pc = "write", !.seen = r].pc = "write"
        BY <1>1 DEF Requests
      <4> QED
        BY <4>1, <4>2
    <3>4. CASE fetchVault(h)
      <4>1. PICK r : jobs' = [jobs EXCEPT ![h] =
                        IF Open(jobs[h].slot) THEN [@ EXCEPT !.pc = "balance", !.seen = r]
                                              ELSE Ended(@, @.seen)]
        BY <3>4 DEF fetchVault
      <4>2. [jobs[h] EXCEPT !.pc = "balance", !.seen = r].pc = "balance"
        BY <1>1 DEF Requests
      <4> QED
        BY <4>1, <4>2, <1>t
    <3> QED
      BY <1>4, <3>1, <3>2, <3>3, <3>4
  <2>2. UNCHANGED <<audit, done>>
    BY <1>4 DEF measure, lookUp, vaultBalance, fetchVault
  <2> QED
    BY <2>1, <2>2, <1>q
<1>5. CASE send(h)
  <2> DEFINE p == IF At(h, "init") THEN "fund" ELSE "audit"
             w == account'[jobs[h].slot].at
             j == [jobs[h] EXCEPT !.pc = p, !.wrote = w]
  <2>1. jobs[h].slot \in Slots /\ jobs[h].act \in Acts
    BY <1>1, <1>5 DEF send, At, JobOK, Acting
  <2>2. jobs' = [jobs EXCEPT ![h] = j] /\ Execute(jobs[h]) /\ UNCHANGED audit
    BY <1>5 DEF send
  <2>3. j.slot = jobs[h].slot /\ j.act = jobs[h].act
    BY <1>1 DEF Requests
  <2> HIDE DEF j
  <2> QED
    BY <2>1, <2>2, <2>3, LandAddsUp
<1>6. CASE landLate(h)
  <2> DEFINE j == Ended(jobs[h], NoRow)
  <2>1. jobs[h].slot \in Slots /\ jobs[h].act \in Acts
    BY <1>1, <1>6 DEF landLate, At, JobOK, Acting
  <2>2. jobs' = [jobs EXCEPT ![h] = j] /\ UNCHANGED audit /\ j.pc = "done"
    BY <1>6, <1>t DEF landLate, End
  <2> HIDE DEF j
  <2>4. CASE Execute(jobs[h])
    <3>1. \A s \in Slots, act \in Acts :
            Owing(s, act)' \subseteq Owing(s, act)
      BY <1>1, <2>2 DEF Owing, Owes
    <3>2. \A s \in Slots, act \in Acts : done[s][act] \in Nat /\ done'[s][act] \in Nat
                                        /\ done[s][act] <= done'[s][act]
      BY <2>1, <2>4 DEF AuditInv, VaultsInv, VaultsTypeOK, Execute
    <3> QED
      BY <2>2, <3>1, <3>2, GrownAddsUp
  <2>5. CASE UNCHANGED done
    BY <2>2, <2>5, <1>q
  <2> QED
    BY <1>6, <2>4, <2>5 DEF landLate
<1> QED
  BY <1>2, <1>3, <1>4, <1>5, <1>6, LogAddsUp DEF Step

LEMMA AuditInductive == AuditInv /\ [Next]_vars => AuditInv'
<1> SUFFICES ASSUME AuditInv, [Next]_vars PROVE AuditInv'
  OBVIOUS
<1>1. VaultsInv'
  BY VaultsInductive DEF AuditInv
<1>t. jobs \in [Handlers -> Requests]
  BY DEF AuditInv, VaultsInv, VaultsTypeOK
<1>2. ASSUME UNCHANGED vars PROVE AddsUp'
  <2>1. jobs' = jobs /\ UNCHANGED <<audit, done>>
    BY <1>2 DEF vars
  <2> QED
    BY <2>1, QuietAddsUp DEF Owes
<1>3. ASSUME NEW h \in Handlers, NEW k, k.pc \notin {"fund", "insert", "audit"},
             jobs' = [jobs EXCEPT ![h] = k], UNCHANGED <<audit, done>>
      PROVE  AddsUp'
  BY <1>t, <1>3, QuietAddsUp DEF Owes
<1>4. ASSUME NEW h \in Handlers, NEW s, NEW act, NEW n,
             NEW p \in {"init", "send", "measure", "sync"},
             jobs' = [jobs EXCEPT ![h] = Request(p, act, s, n)], UNCHANGED <<audit, done>>
      PROVE  AddsUp'
  <2>1. Request(p, act, s, n).pc = p
    BY DEF Request
  <2> QED
    BY <1>3, <1>4, <2>1
<1>5. ASSUME NEW h \in Jobs, Arrival(h) PROVE AddsUp'
  <2>1. h \in Handlers
    BY DEF Handlers
  <2> QED
    BY <1>4, <1>5, <2>1 DEF Arrival, create, Ask, setPolicy, setDelegateActive, resetWindow,
                            manageList, deposit, withdraw, close
<1>6. ASSUME NEW h \in Pollers, NEW s \in Slots, getVault(h, s) PROVE AddsUp'
  BY <1>4, <1>6 DEF Handlers, getVault, Ask
<1>7. ASSUME NEW h \in Pollers, pollAgain(h) PROVE AddsUp'
  BY <1>4, <1>7 DEF Handlers, pollAgain
<1>8. ASSUME NEW s \in Slots, pay(s) PROVE AddsUp'
  BY <1>8, QuietAddsUp DEF pay, Owes
<1>9. ASSUME restart PROVE AddsUp'
  <2>1. ASSUME NEW g \in Handlers PROVE ~Owes(g)'
    <3>1. \A reply : Ended(jobs[g], reply).pc = "done"
      BY DEF Ended, Request
    <3>2. [jobs[g] EXCEPT !.pc = "lost"].pc = "lost"
      BY <1>t DEF Requests
    <3> QED
      BY <1>9, <3>1, <3>2 DEF restart, Owes
  <2>2. UNCHANGED <<audit, done>>
    BY <1>9 DEF restart
  <2> QED
    BY <2>1, <2>2, QuietAddsUp DEF Owes
<1>10. ASSUME NEW h \in Handlers, Step(h) PROVE AddsUp'
  BY <1>10, StepAddsUp
<1>11. AddsUp'
  BY <1>2, <1>5, <1>6, <1>7, <1>8, <1>9, <1>10 DEF Next
<1> QED
  BY <1>1, <1>11 DEF AuditInv

(* Whatever fails and whatever lands late, the audit log never tells of an *)
(* operation more often than the chain carried it out.                     *)
THEOREM AuditIsBacked == Spec => []AuditNeverOverstates
<1>1. AuditInv => AuditNeverOverstates
  <2> SUFFICES ASSUME AuditInv, NEW s \in Slots, NEW act \in Acts
               PROVE  audit[s][act] <= done[s][act]
    BY DEF AuditNeverOverstates
  <2>1. audit[s][act] \in Nat /\ done[s][act] \in Nat
    BY DEF AuditInv, VaultsInv, VaultsTypeOK
  <2> QED
    BY <2>1, OwingCounted DEF AuditInv, AddsUp
<1> QED
  BY <1>1, InitAudit, AuditInductive, PTL DEF Spec

-----------------------------------------------------------------------------
(* The balance is as recent as the change, or could not be read.           *)
BalanceOK(j, r) == r.asOf >= j.wrote \/ (j.slot \in Tokens /\ r.funds = 0)

(* What a request may answer: unless its vault was closed, the chain is at *)
(* least as far as its own change, and so is what it read since.           *)
AnswerOK(j, chain) ==
  /\ j.reply # NoRow => j.pc = "done"
  /\ j.pc # "idle" =>
       \/ chain[j.slot].status = "closed"
       \/ /\ j.wrote <= chain[j.slot].at
          /\ j.pc \in {"balance", "write"} => j.seen.at >= j.wrote
          /\ j.pc = "write" => BalanceOK(j, j.seen)
          /\ j.reply # NoRow => j.reply.at >= j.wrote /\ BalanceOK(j, j.reply)
  /\ j.pc \in {"fund", "insert"} => chain[j.slot].status # "none"

(* Rows are of vaults that were created.                                   *)
Born ==
  \A s \in Slots : /\ row[s] # NoRow => account[s].status # "none"
                   /\ account[s].status = "none" => account[s].at = 0

AnswerInv ==
  /\ VaultsInv
  /\ Born
  /\ \A h \in Handlers : AnswerOK(jobs[h], account)

LEMMA InitAnswer == Init => AnswerInv
<1> SUFFICES ASSUME Init PROVE AnswerInv
  OBVIOUS
<1>1. Born
  BY DEF Init, Born, Unborn, Account
<1>2. \A h \in Handlers : AnswerOK(jobs[h], account)
  BY DEF Init, AnswerOK, Idle, Request
<1> QED
  BY <1>1, <1>2, InitVaults DEF AnswerInv

(* The chain only moves on, and a closed vault stays closed.               *)
Aging ==
  \A s \in Slots :
    /\ account[s].at <= account'[s].at
    /\ account[s].status = "closed" => account'[s].status = "closed"
    /\ account[s].status # "none" => account'[s].status # "none"
    /\ account'[s].status = "none" => account'[s].at = 0

LEMMA StillAging == ASSUME AnswerInv, UNCHANGED account PROVE Aging
  BY DEF AnswerInv, Born, VaultsInv, VaultsTypeOK, Accounts, Aging

LEMMA ExecuteAges ==
  ASSUME AnswerInv, NEW j \in Requests, j.slot \in Slots, Execute(j)
  PROVE  Aging /\ account'[j.slot].status # "none"
<1>1. /\ account \in [Slots -> Accounts] /\ account[j.slot] \in Accounts
  BY DEF AnswerInv, VaultsInv, VaultsTypeOK
<1> DEFINE a == account[j.slot]
           b == Effect(j)
<1>2. /\ a.at \in Nat /\ (a.status = "none" => a.at = 0)
      /\ a.status = "open" \/ (j.act = "create" /\ a.status = "none")
  <2>1. a.at \in Nat /\ (a.status = "none" => a.at = 0)
    BY <1>1 DEF Accounts, AnswerInv, Born
  <2>2. CASE j.act = "create"
    BY <2>1, <2>2 DEF Execute, Possible
  <2>3. CASE j.act # "create"
    <3>1. a.status = "open"
      BY <2>3 DEF Execute, Possible
    <3> QED
      BY <2>1, <3>1
  <2> QED
    BY <2>2, <2>3
<1>3. a.at <= b.at /\ b.status # "none"
  <2>1. CASE j.act = "create"
    BY <1>2, <2>1 DEF Effect, Account, Execute, Possible
  <2>2. CASE j.act = "deposit"
    BY <1>2, <2>2 DEF Effect, Account
  <2>3. CASE j.act = "withdraw"
    BY <1>2, <2>3 DEF Effect, Account
  <2>4. CASE j.act = "close"
    BY <1>2, <2>4 DEF Effect, Account
  <2>5. CASE j.act = "setDelegateActive"
    BY <1>2, <2>5 DEF Effect, Account
  <2>6. CASE j.act \notin {"create", "deposit", "withdraw", "close", "setDelegateActive"}
    BY <1>2, <2>6 DEF Effect, Account
  <2> QED
    BY <2>1, <2>2, <2>3, <2>4, <2>5, <2>6
<1>4. account' = [account EXCEPT ![j.slot] = b] /\ a.status # "closed"
  BY <1>2 DEF Execute
<1> HIDE DEF b
<1>5. ASSUME NEW s \in Slots
      PROVE  /\ account[s].at <= account'[s].at
             /\ account[s].status = "closed" => account'[s].status = "closed"
             /\ account[s].status # "none" => account'[s].status # "none"
             /\ account'[s].status = "none" => account'[s].at = 0
  <2>1. CASE s = j.slot
    BY <1>1, <1>3, <1>4, <2>1
  <2>2. CASE s # j.slot
    BY <1>1, <1>4, <2>2 DEF Accounts, AnswerInv, Born
  <2> QED
    BY <2>1, <2>2
<1> QED
  BY <1>1, <1>3, <1>4, <1>5 DEF Aging

(* What a request may answer, it may answer later.                         *)
LEMMA AnswerKeeps ==
  ASSUME NEW j \in Requests, j.pc # "idle" => j.slot \in Slots,
         account \in [Slots -> Accounts], account' \in [Slots -> Accounts],
         Aging, AnswerOK(j, account)
  PROVE  AnswerOK(j, account')
<1>1. CASE j.pc = "idle"
  BY <1>1 DEF AnswerOK
<1>2. CASE j.pc # "idle"
  <2>1. /\ account[j.slot].at \in Nat /\ account'[j.slot].at \in Nat /\ j.wrote \in Nat
        /\ account[j.slot].at <= account'[j.slot].at
    BY <1>2 DEF Accounts, Requests, Aging
  <2> QED
    BY <1>2, <2>1 DEF Aging, AnswerOK
<1> QED
  BY <1>1, <1>2

(* One request moves on, while the chain ages.                             *)
LEMMA AnswerStep ==
  ASSUME AnswerInv, VaultsInv', Aging, NEW h \in Handlers, NEW j,
         jobs' = [jobs EXCEPT ![h] = j], AnswerOK(j, account'),
         \A s \in Slots : row'[s] # NoRow => row[s] # NoRow \/ account'[s].status # "none"
  PROVE  AnswerInv'
<1>1. /\ jobs \in [Handlers -> Requests]
      /\ account \in [Slots -> Accounts] /\ account' \in [Slots -> Accounts]
  BY DEF AnswerInv, VaultsInv, VaultsTypeOK
<1>2. Born'
  BY DEF AnswerInv, Born, Aging
<1>3. ASSUME NEW g \in Handlers PROVE AnswerOK(jobs'[g], account')
  <2>1. CASE g = h
    BY <1>1, <2>1
  <2>2. CASE g # h
    <3>1. jobs'[g] = jobs[g] /\ AnswerOK(jobs[g], account) /\ jobs[g] \in Requests
          /\ (jobs[g].pc # "idle" => jobs[g].slot \in Slots)
      BY <1>1, <2>2 DEF AnswerInv, VaultsInv, VaultsTypeOK, JobOK
    <3> QED
      BY <1>1, <3>1, AnswerKeeps
  <2> QED
    BY <2>1, <2>2
<1> QED
  BY <1>2, <1>3 DEF AnswerInv

(* A request at work goes to another place than the reading of a vault.    *)
LEMMA OnwardAnswer ==
  ASSUME NEW i, NEW j, NEW chain, AnswerOK(i, chain), i.pc \notin {"idle", "done"},
         j.pc \notin {"idle", "balance", "write"},
         j.pc \in {"fund", "insert"} => i.pc \in {"fund", "insert"},
         j.slot = i.slot, j.wrote = i.wrote, j.reply = i.reply
  PROVE  AnswerOK(j, chain)
  BY DEF AnswerOK, BalanceOK

LEMMA FreshAnswer ==
  ASSUME AnswerInv, NEW s \in Slots, NEW act, NEW n, NEW p \in {"init", "send", "measure", "sync"}
  PROVE  AnswerOK(Request(p, act, s, n), account)
<1>1. account[s].at \in Nat
  BY DEF AnswerInv, VaultsInv, VaultsTypeOK, Accounts
<1> DEFINE j == Request(p, act, s, n)
<1>2. j.pc = p /\ j.slot = s /\ j.wrote = 0 /\ j.reply = NoRow
  BY DEF Request
<1> HIDE DEF j
<1>3. AnswerOK(j, account)
  BY <1>1, <1>2 DEF AnswerOK
<1> QED
  BY <1>3 DEF j

-----------------------------------------------------------------------------
(* The steps that leave the chain alone and read nothing of it.            *)
LEMMA OnwardStep ==
  ASSUME AnswerInv, VaultsInv', NEW h \in Handlers,
         \/ fundDelegate(h) \/ insertRow(h) \/ measure(h) \/ refuse(h) \/ loseConfirmation(h)
         \/ writeAudit(h) \/ zeroRow(h) \/ lookUp(h) \/ fail(h)
  PROVE  AnswerInv'
<1>1. /\ jobs \in [Handlers -> Requests] /\ jobs[h] \in Requests
      /\ JobOK(h, jobs[h], row, sealed) /\ sealed \subseteq Slots
      /\ row \in [Slots -> Rows \cup {NoRow}]
      /\ AnswerOK(jobs[h], account)
  BY DEF AnswerInv, VaultsInv, VaultsTypeOK
<1>2. UNCHANGED account
  BY DEF fundDelegate, insertRow, measure, refuse, loseConfirmation, writeAudit, zeroRow,
         lookUp, fail
<1> DEFINE j == jobs'[h]
<1>3. /\ jobs[h].pc \notin {"idle", "done"}
      /\ j.pc \notin {"idle", "balance", "write"}
      /\ j.pc \in {"fund", "insert"} => jobs[h].pc \in {"fund", "insert"}
      /\ j.slot = jobs[h].slot /\ j.wrote = jobs[h].wrote /\ j.reply = jobs[h].reply
      /\ jobs' = [jobs EXCEPT ![h] = j]
  <2>1. CASE \E p \in Places \ {"idle", "balance", "write", "fund"} :
               jobs[h].pc \notin {"idle", "done"} /\ Goto(h, p)
             /\ (p = "insert" => jobs[h].pc = "fund")
    BY <1>1, <2>1 DEF Goto, Requests
  <2>e. CASE jobs[h].pc \notin {"idle", "done"} /\ End(h)
    <3>1. /\ jobs[h].slot \in Slots /\ jobs[h].reply = NoRow
      BY <1>1, <2>e DEF JobOK, AnswerOK
    <3>2. LET k == Ended(jobs[h], NoRow)
          IN  k.pc = "done" /\ k.slot = jobs[h].slot /\ k.wrote = jobs[h].wrote /\ k.reply = NoRow
      BY <1>1, <3>1, EndedMade
    <3>3. jobs'[h] = Ended(jobs[h], NoRow) /\ jobs' = [jobs EXCEPT ![h] = jobs'[h]]
      BY <1>1, <2>e DEF End
    <3> QED
      BY <2>e, <3>1, <3>2, <3>3
  <2>2. CASE \/ fundDelegate(h) \/ insertRow(h) \/ loseConfirmation(h) \/ writeAudit(h)
    BY <2>1, <2>2 DEF fundDelegate, insertRow, loseConfirmation, writeAudit, At, Places
  <2>5. CASE refuse(h) \/ zeroRow(h) \/ fail(h)
    BY <2>e, <2>5 DEF refuse, zeroRow, fail, At
  <2>3. CASE measure(h)
    <3>1. PICK n : jobs' = [jobs EXCEPT ![h] = IF n = 0 THEN Ended(@, NoRow)
                                              ELSE [@ EXCEPT !.arg = n, !.pc = "send"]]
      BY <2>3 DEF measure
    <3>2. CASE n = 0
      BY <2>3, <2>e, <3>1, <3>2 DEF measure, At, End
    <3>3. CASE n # 0
      BY <1>1, <2>3, <3>1, <3>3 DEF measure, At, Requests
    <3> QED
      BY <3>2, <3>3
  <2>4. CASE lookUp(h)
    BY <1>1, <2>4 DEF lookUp, At, Requests
  <2> QED
    BY <2>2, <2>3, <2>4, <2>5
<1>4. \A s \in Slots : row'[s] # NoRow => row[s] # NoRow \/ account'[s].status # "none"
  <2>1. CASE row' = row
    BY <2>1
  <2>2. CASE insertRow(h)
    <3>1. /\ jobs[h].pc = "insert" /\ row' = [row EXCEPT ![jobs[h].slot] = FreshRow]
          /\ account[jobs[h].slot].status # "none"
      BY <1>1, <2>2 DEF insertRow, At, AnswerOK
    <3> QED
      BY <1>1, <1>2, <3>1
  <2>3. CASE zeroRow(h)
    <3>1. jobs[h].pc = "zero" /\ row[jobs[h].slot] # NoRow
      BY <1>1, <2>3 DEF zeroRow, At, JobOK, Rowed
    <3>2. \A s \in Slots : s # jobs[h].slot => row'[s] = row[s]
      BY <1>1, <2>3 DEF zeroRow
    <3> QED
      BY <3>1, <3>2
  <2> QED
    BY <2>1, <2>2, <2>3 DEF fundDelegate, measure, refuse, loseConfirmation, writeAudit,
                            lookUp, fail
<1> HIDE DEF j
<1>5. AnswerOK(j, account')
  BY <1>1, <1>2, <1>3, OnwardAnswer
<1> QED
  BY <1>2, <1>3, <1>4, <1>5, StillAging, AnswerStep

(* The steps that carry a change out or read one.                          *)
LEMMA SendAnswer ==
  ASSUME AnswerInv, VaultsInv', NEW h \in Handlers, send(h) \/ landLate(h)
  PROVE  AnswerInv'
<1>1. /\ jobs \in [Handlers -> Requests] /\ jobs[h] \in Requests
      /\ JobOK(h, jobs[h], row, sealed) /\ sealed \subseteq Slots
      /\ account \in [Slots -> Accounts] /\ account' \in [Slots -> Accounts]
      /\ AnswerOK(jobs[h], account)
  BY DEF AnswerInv, VaultsInv, VaultsTypeOK
<1>2. /\ jobs[h].pc \in {"init", "send", "lost"} /\ jobs[h].slot \in Slots
      /\ row' = row
  BY <1>1 DEF send, landLate, At, JobOK
<1>3. jobs[h].reply = NoRow
  BY <1>1, <1>2 DEF AnswerOK
<1>4. CASE send(h)
  <2> DEFINE p == IF At(h, "init") THEN "fund" ELSE "audit"
             w == account'[jobs[h].slot].at
             j == [jobs[h] EXCEPT !.pc = p, !.wrote = w]
  <2>1. Aging /\ account'[jobs[h].slot].status # "none"
    BY <1>1, <1>2, <1>4, ExecuteAges DEF send
  <2>2. jobs' = [jobs EXCEPT ![h] = j]
    BY <1>4 DEF send
  <2>3. w \in Nat /\ w = account'[jobs[h].slot].at /\ p \in {"fund", "audit"}
    BY <1>1, <1>2 DEF Accounts
  <2> HIDE DEF p, w
  <2>4. j.pc = p /\ j.slot = jobs[h].slot /\ j.wrote = w /\ j.reply = NoRow
    BY <1>1, <1>3 DEF Requests
  <2> HIDE DEF j
  <2>5. AnswerOK(j, account')
    BY <2>1, <2>3, <2>4 DEF AnswerOK
  <2> QED
    BY <1>2, <2>1, <2>2, <2>5, AnswerStep
<1>5. CASE landLate(h)
  <2> DEFINE j == Ended(jobs[h], NoRow)
  <2>1. Aging
    BY <1>1, <1>2, <1>5, ExecuteAges, StillAging DEF landLate
  <2>2. jobs' = [jobs EXCEPT ![h] = j]
    BY <1>5 DEF landLate, End
  <2>3. /\ j.pc = "done" /\ j.slot = jobs[h].slot /\ j.wrote = jobs[h].wrote
        /\ j.reply = jobs[h].reply
    BY <1>1, <1>2, <1>3, EndedMade
  <2> HIDE DEF j
  <2>4. AnswerOK(jobs[h], account')
    BY <1>1, <1>2, <2>1, AnswerKeeps
  <2>5. AnswerOK(j, account')
    BY <1>2, <2>3, <2>4, OnwardAnswer
  <2> QED
    BY <1>2, <2>1, <2>2, <2>5, AnswerStep
<1> QED
  BY <1>4, <1>5

LEMMA ReadAnswer ==
  ASSUME AnswerInv, VaultsInv', NEW h \in Handlers,
         fetchVault(h) \/ vaultBalance(h) \/ updateRow(h)
  PROVE  AnswerInv'
<1>1. /\ jobs \in [Handlers -> Requests] /\ jobs[h] \in Requests
      /\ JobOK(h, jobs[h], row, sealed) /\ sealed \subseteq Slots
      /\ account \in [Slots -> Accounts] /\ row \in [Slots -> Rows \cup {NoRow}]
      /\ AnswerOK(jobs[h], account)
  BY DEF AnswerInv, VaultsInv, VaultsTypeOK
<1>2. /\ jobs[h].pc \in {"fetch", "balance", "write"} /\ jobs[h].slot \in Slots
      /\ row[jobs[h].slot] # NoRow /\ UNCHANGED account
      /\ account[jobs[h].slot] \in Accounts /\ jobs[h].wrote \in Nat
  BY <1>1 DEF fetchVault, vaultBalance, updateRow, At, JobOK, Rowed, Requests
<1>3. jobs[h].reply = NoRow
  BY <1>1, <1>2 DEF AnswerOK
<1>4. Aging
  BY <1>2, StillAging
<1>5. CASE fetchVault(h)
  <2> DEFINE a == account[jobs[h].slot]
             read == [at |-> a.at, active |-> a.active, funds |-> 0, asOf |-> 0]
             found == [jobs[h] EXCEPT !.pc = "balance", !.seen = read]
             gone == Ended(jobs[h], jobs[h].seen)
  <2>1. /\ jobs' = [jobs EXCEPT ![h] = IF Open(jobs[h].slot) THEN found ELSE gone]
        /\ row' = row /\ jobs[h].pc = "fetch"
    BY <1>5 DEF fetchVault, At
  <2>2. read.at = a.at /\ a.at \in Nat
    BY <1>2 DEF Accounts
  <2> HIDE DEF read
  <2>3. /\ found.pc = "balance" /\ found.slot = jobs[h].slot /\ found.wrote = jobs[h].wrote
        /\ found.reply = NoRow /\ found.seen = read
    BY <1>1, <1>3 DEF Requests
  <2>4. gone.pc = "done" /\ gone.slot = jobs[h].slot
    <3>1. jobs[h].seen \in Rows \cup {NoRow}
      BY <1>1 DEF Requests
    <3> QED
      BY <1>1, <1>2, <3>1, EndedMade
  <2> HIDE DEF found, gone
  <2>5. CASE Open(jobs[h].slot)
    <3>1. AnswerOK(found, account')
      BY <1>1, <1>2, <2>1, <2>2, <2>3 DEF AnswerOK
    <3>2. jobs' = [jobs EXCEPT ![h] = found]
      BY <2>1, <2>5
    <3> QED
      BY <1>4, <2>1, <3>1, <3>2, AnswerStep
  <2>6. CASE ~Open(jobs[h].slot)
    <3>1. account[jobs[h].slot].status = "closed"
      BY <1>2, <2>6 DEF Open, Accounts, AnswerInv, Born
    <3>2. AnswerOK(gone, account')
      BY <1>2, <2>4, <3>1 DEF AnswerOK
    <3>3. jobs' = [jobs EXCEPT ![h] = gone]
      BY <2>1, <2>6
    <3> QED
      BY <1>4, <2>1, <3>2, <3>3, AnswerStep
  <2> QED
    BY <2>5, <2>6
<1>6. CASE vaultBalance(h)
  <2>1. PICK f \in Nat, n \in Nat :
          /\ jobs' = [jobs EXCEPT ![h] = Reading(jobs[h], f, n)]
          /\ n = account[jobs[h].slot].at \/ (jobs[h].slot \in Tokens /\ f = 0)
    BY <1>6, BalanceStep DEF AnswerInv
  <2> DEFINE j == Reading(jobs[h], f, n)
  <2>2. /\ row' = row /\ jobs[h].pc = "balance" /\ jobs[h].seen \in Rows
    BY <1>1, <1>6 DEF vaultBalance, At, JobOK
  <2>3. /\ j.pc = "write" /\ j.slot = jobs[h].slot /\ j.wrote = jobs[h].wrote
        /\ j.reply = NoRow
        /\ j.seen.at = jobs[h].seen.at /\ j.seen.funds = f /\ j.seen.asOf = n
    BY <1>1, <1>3, <2>2 DEF Requests, Rows, Reading
  <2>4. jobs' = [jobs EXCEPT ![h] = j]
    BY <2>1
  <2> HIDE DEF j
  <2>5. AnswerOK(j, account')
    BY <1>1, <1>2, <2>1, <2>2, <2>3 DEF AnswerOK, BalanceOK
  <2> QED
    BY <1>4, <2>2, <2>4, <2>5, AnswerStep
<1>7. CASE updateRow(h)
  <2> DEFINE j == Ended(jobs[h], jobs[h].seen)
  <2>1. /\ jobs' = [jobs EXCEPT ![h] = j] /\ jobs[h].pc = "write"
        /\ row' = [row EXCEPT ![jobs[h].slot] = jobs[h].seen]
    BY <1>7 DEF updateRow, At
  <2>2. /\ j.pc = "done" /\ j.slot = jobs[h].slot /\ j.wrote = jobs[h].wrote
        /\ j.reply = jobs[h].seen
    <3>1. jobs[h].seen \in Rows \cup {NoRow}
      BY <1>1 DEF Requests
    <3> QED
      BY <1>1, <1>2, <3>1, EndedMade
  <2> HIDE DEF j
  <2>3. AnswerOK(j, account')
    BY <1>1, <1>2, <2>1, <2>2 DEF AnswerOK, BalanceOK
  <2>4. \A s \in Slots : row'[s] # NoRow => row[s] # NoRow \/ account'[s].status # "none"
    BY <1>1, <1>2, <2>1
  <2> QED
    BY <1>4, <2>1, <2>3, <2>4, AnswerStep
<1> QED
  BY <1>5, <1>6, <1>7

LEMMA ArriveAnswer ==
  ASSUME AnswerInv, VaultsInv', NEW h \in Handlers, NEW s \in Slots, NEW act, NEW n,
         NEW p \in {"init", "send", "measure", "sync"},
         jobs' = [jobs EXCEPT ![h] = Request(p, act, s, n)], UNCHANGED <<account, row>>
  PROVE  AnswerInv'
<1> DEFINE j == Request(p, act, s, n)
<1>1. AnswerOK(j, account')
  BY FreshAnswer
<1>2. jobs' = [jobs EXCEPT ![h] = j]
  OBVIOUS
<1> HIDE DEF j
<1> QED
  BY <1>1, <1>2, StillAging, AnswerStep

(* Payments, and restarts, which end every request without an answer.      *)
LEMMA PayAnswer ==
  ASSUME AnswerInv, VaultsInv', NEW s \in Slots, pay(s)
  PROVE  AnswerInv'
<1>1. /\ jobs \in [Handlers -> Requests]
      /\ account \in [Slots -> Accounts] /\ account' \in [Slots -> Accounts]
      /\ account[s].at \in Nat
  BY DEF AnswerInv, VaultsInv, VaultsTypeOK, Accounts
<1> DEFINE a == account[s]
           b == Account(a.status, a.at + 1, a.active, a.funds - 1)
<1>2. /\ account' = [account EXCEPT ![s] = b] /\ a.status = "open"
      /\ jobs' = jobs /\ row' = row
  BY DEF pay, Open
<1>3. b.status = "open" /\ b.at = a.at + 1
  BY <1>2 DEF Account
<1> HIDE DEF b
<1>4. Aging
  BY <1>1, <1>2, <1>3 DEF Aging, AnswerInv, Born, Accounts
<1>5. ASSUME NEW g \in Handlers PROVE AnswerOK(jobs'[g], account')
  <2>1. /\ AnswerOK(jobs[g], account) /\ jobs[g] \in Requests
        /\ (jobs[g].pc # "idle" => jobs[g].slot \in Slots)
    BY <1>1 DEF AnswerInv, VaultsInv, VaultsTypeOK, JobOK
  <2> QED
    BY <1>1, <1>2, <1>4, <2>1, AnswerKeeps
<1>6. Born'
  BY <1>2, <1>4 DEF AnswerInv, Born, Aging
<1> QED
  BY <1>5, <1>6 DEF AnswerInv

LEMMA RestartAnswer ==
  ASSUME AnswerInv, VaultsInv', restart
  PROVE  AnswerInv'
<1>1. /\ jobs \in [Handlers -> Requests] /\ UNCHANGED <<account, row>>
  BY DEF AnswerInv, VaultsInv, VaultsTypeOK, restart
<1>2. ASSUME NEW g \in Handlers PROVE AnswerOK(jobs'[g], account)
  <2>1. AnswerOK(jobs[g], account) /\ jobs[g] \in Requests
    BY <1>1 DEF AnswerInv
  <2>2. CASE jobs[g].pc \in {"idle", "lost", "done"}
    <3>1. jobs'[g] = jobs[g]
      BY <2>1, <2>2 DEF restart, Requests
    <3> QED
      BY <2>1, <3>1
  <2>3. CASE jobs[g].pc \notin {"idle", "lost", "done"}
    <3>0. jobs[g].reply = NoRow /\ jobs[g].slot \in Slots
      BY <1>1, <2>1, <2>3 DEF AnswerInv, VaultsInv, VaultsTypeOK, JobOK, AnswerOK
    <3>1. /\ jobs'[g].pc \in {"lost", "done"} /\ jobs'[g].slot = jobs[g].slot
          /\ jobs'[g].wrote = jobs[g].wrote /\ jobs'[g].reply = jobs[g].reply
      <4>1. CASE jobs[g].pc \in {"init", "send"}
        BY <2>1, <2>3, <4>1 DEF restart, Requests
      <4>2. CASE jobs[g].pc \notin {"init", "send"}
        <5>1. jobs'[g] = Ended(jobs[g], NoRow)
          BY <2>3, <4>2 DEF restart
        <5> QED
          BY <2>1, <3>0, <5>1, EndedMade
      <4> QED
        BY <4>1, <4>2
    <3> QED
      BY <2>1, <2>3, <3>1, OnwardAnswer
  <2> QED
    BY <2>2, <2>3
<1>3. Born'
  BY <1>1 DEF AnswerInv, Born
<1> QED
  BY <1>1, <1>2, <1>3 DEF AnswerInv

LEMMA AnswerInductive == AnswerInv /\ [Next]_vars => AnswerInv'
<1> SUFFICES ASSUME AnswerInv, [Next]_vars PROVE AnswerInv'
  OBVIOUS
<1>1. VaultsInv'
  BY VaultsInductive DEF AnswerInv
<1>2. CASE UNCHANGED vars
  BY <1>1, <1>2 DEF vars, AnswerInv, Born
<1>3. ASSUME NEW h \in Jobs, Arrival(h) PROVE AnswerInv'
  <2>1. h \in Handlers
    BY DEF Handlers
  <2> QED
    BY <1>1, <1>3, <2>1, ArriveAnswer
    DEF Arrival, create, Ask, setPolicy, setDelegateActive, resetWindow, manageList, deposit,
        withdraw, close
<1>4. ASSUME NEW h \in Pollers, NEW s \in Slots, getVault(h, s) PROVE AnswerInv'
  BY <1>1, <1>4, ArriveAnswer DEF Handlers, getVault, Ask
<1>5. ASSUME NEW h \in Pollers, pollAgain(h) PROVE AnswerInv'
  <2>1. h \in Handlers /\ jobs[h].slot \in Slots
    BY <1>5 DEF AnswerInv, VaultsInv, VaultsTypeOK, JobOK, pollAgain, At, Handlers
  <2> QED
    BY <1>1, <1>5, <2>1, ArriveAnswer DEF pollAgain
<1>6. ASSUME NEW h \in Handlers, Step(h) PROVE AnswerInv'
  BY <1>1, <1>6, OnwardStep, SendAnswer, ReadAnswer DEF Step
<1> QED
  BY <1>1, <1>2, <1>3, <1>4, <1>5, <1>6, PayAnswer, RestartAnswer DEF Next

(* What a request answers is at least as recent as the change it made, its *)
(* balance too unless that could not be read, whatever comes between.      *)
THEOREM AnswersAreRecent == Spec => []AnswerShowsOwnChange
<1>1. AnswerInv => AnswerShowsOwnChange
  BY DEF AnswerInv, AnswerOK, AnswerShowsOwnChange, BalanceOK
<1> QED
  BY <1>1, InitAnswer, AnswerInductive, PTL DEF Spec
=============================================================================
