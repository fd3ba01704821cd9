--------------------------- MODULE VaultsService ---------------------------
(***************************************************************************)
(* The backend's owner operations (src/backend/src/vaults) over several    *)
(* vaults: creating a vault in steps that can fail one by one, changing it *)
(* on-chain and refreshing the row that caches it.  Requests run as        *)
(* concurrent handlers that interleave at every `await`.                   *)
(*                                                                         *)
(* A slot is one random vault_id with the delegate key generated for it.   *)
(* Of the vault account only what the requests and the cache depend on is  *)
(* kept: `at` counts its changes, those of its balance included, and       *)
(* stands for every field the row copies (limits, lists, window,           *)
(* counters); `funds` is the spendable balance.                            *)
(* Lamports of the owner and of delegate keys are not counted.             *)
(***************************************************************************)
EXTENDS Naturals, FiniteSets

CONSTANTS
  Slots,       \* vault ids a behaviour can create
  Tokens,      \* those of an SPL mint, the balance in a token account
  Jobs,        \* requests of the owner
  Pollers,     \* dashboards and agents that read a vault again and again
  Deposits,    \* amounts deposited and withdrawn
  MaxVaults,   \* bound on the vaults created
  MaxFaults,   \* bound on failing RPC and database calls and on restarts
  MaxPays,     \* bound on payments of the agents
  MaxFunds     \* bound on the balance of a vault

ASSUME VaultsAssumption ==
  /\ Jobs \cap Pollers = {} /\ IsFiniteSet(Jobs) /\ IsFiniteSet(Pollers)
  /\ Tokens \subseteq Slots /\ Deposits \subseteq Nat \ {0}
  /\ MaxVaults \in Nat /\ MaxFaults \in Nat /\ MaxPays \in Nat /\ MaxFunds \in Nat

VARIABLES
  account,   \* account[s]: the vault account on the chain
  row,       \* row[s]: the row that caches it, or NoRow
  sealed,    \* slots whose delegate key is in the key store
  audit,     \* audit[s][act]: entries of the audit log
  done,      \* done[s][act]: how often the owner did it on the chain
  jobs,      \* jobs[h]: where request h is, and what it remembers
  pays,      \* payments of the agents so far
  faults     \* failed calls and restarts so far

vars == <<account, row, sealed, audit, done, jobs, pays, faults>>

Handlers == Jobs \cup Pollers
Acts == {"create", "setPolicy", "setDelegateActive", "resetWindow", "manageList",
         "deposit", "withdraw", "close"}
All == 0        \* the amount "all"; off is 0 too, on is 1
Off == 0
On == 1

Account(status, at, active, funds) ==
  [status |-> status, at |-> at, active |-> active, funds |-> funds]
Unborn == Account("none", 0, FALSE, 0)
Accounts == [status : {"none", "open", "closed"}, at : Nat, active : BOOLEAN, funds : Nat]

(* A row remembers, for the properties, as of which change of the vault    *)
(* its balance is.                                                         *)
NoRow == [status |-> "no row"]
Rows == [at : Nat, active : BOOLEAN, funds : Nat, asOf : Nat]
FreshRow == [at |-> 0, active |-> FALSE, funds |-> 0, asOf |-> 0]

Request(place, act, slot, arg) ==
  [pc |-> place, act |-> act, slot |-> slot, arg |-> arg,
   seen |-> NoRow, wrote |-> 0, reply |-> NoRow]
Idle == Request("idle", "none", "none", 0)

Places == {"idle", "init", "fund", "insert", "measure", "send", "lost", "audit",
           "zero", "sync", "fetch", "balance", "write", "done"}

Requests ==
  [pc : Places, act : Acts \cup {"none"}, slot : Slots \cup {"none"}, arg : Nat,
   seen : Rows \cup {NoRow}, wrote : Nat, reply : Rows \cup {NoRow}]

VaultsTypeOK ==
  /\ account \in [Slots -> Accounts]
  /\ row \in [Slots -> Rows \cup {NoRow}]
  /\ sealed \in SUBSET Slots
  /\ audit \in [Slots -> [Acts -> Nat]] /\ done \in [Slots -> [Acts -> Nat]]
  /\ jobs \in [Handlers -> Requests]
  /\ pays \in Nat /\ faults \in Nat

Init ==
  /\ account = [s \in Slots |-> Unborn]
  /\ row = [s \in Slots |-> NoRow]
  /\ sealed = {}
  /\ audit = [s \in Slots |-> [a \in Acts |-> 0]]
  /\ done = [s \in Slots |-> [a \in Acts |-> 0]]
  /\ jobs = [h \in Handlers |-> Idle]
  /\ pays = 0 /\ faults = 0

At(h, place) == jobs[h].pc = place
Goto(h, place) == jobs' = [jobs EXCEPT ![h].pc = place]
(* A request is over: of it only what it answered, if anything, remains.   *)
Ended(job, reply) ==
  [Request("done", "none", job.slot, 0) EXCEPT !.wrote = job.wrote, !.reply = reply]
End(h) == jobs' = [jobs EXCEPT ![h] = Ended(@, NoRow)]
(* Something fails. *)
Fault == faults < MaxFaults /\ faults' = faults + 1

Open(s) == account[s].status = "open"

-----------------------------------------------------------------------------
(* What an instruction of the owner needs and does.                        *)

Possible(job) ==
  LET a == account[job.slot]
  IN  CASE job.act = "create"   -> a.status = "none"
        [] job.act = "deposit"  -> a.status = "open" /\ a.funds + job.arg <= MaxFunds
        [] job.act = "withdraw" -> a.status = "open" /\ job.arg <= a.funds
        [] OTHER                -> a.status = "open"

Effect(job) ==
  LET a == account[job.slot]
  IN  CASE job.act = "create"   -> Account("open", 1, TRUE, 0)
        [] job.act = "deposit"  -> Account(a.status, a.at + 1, a.active, a.funds + job.arg)
        [] job.act = "withdraw" -> Account(a.status, a.at + 1, a.active, a.funds - job.arg)
        [] job.act = "close"    -> Account("closed", a.at + 1, a.active, 0)
        [] job.act = "setDelegateActive"
                                -> Account(a.status, a.at + 1, job.arg = On, a.funds)
        [] OTHER                -> Account(a.status, a.at + 1, a.active, a.funds)

Execute(job) ==
  /\ Possible(job)
  /\ account' = [account EXCEPT ![job.slot] = Effect(job)]
  /\ done' = [done EXCEPT ![job.slot][job.act] = @ + 1]

-----------------------------------------------------------------------------
(* create: the key first, then the vault, then the row.                    *)

(* Mutant: the key is kept in memory until the row is written.             *)
Mut_create(h, s) ==
  /\ At(h, "idle")
  /\ s \notin sealed /\ account[s] = Unborn /\ Cardinality(sealed) < MaxVaults
  /\ jobs' = [jobs EXCEPT ![h] = Request("init", "create", s, 0)]
  /\ UNCHANGED <<account, row, sealed, audit, done, pays, faults>>

(* generateDelegate writes the encrypted key before anything uses it.      *)
sealKey(s) == sealed' = sealed \cup {s}

create(h, s) ==
  /\ At(h, "idle")
  /\ s \notin sealed /\ account[s] = Unborn /\ Cardinality(sealed) < MaxVaults
  /\ sealKey(s)
  /\ jobs' = [jobs EXCEPT ![h] = Request("init", "create", s, 0)]
  /\ UNCHANGED <<account, row, audit, done, pays, faults>>

(* A delegate that could not be funded is only warned about.               *)
fundDelegate(h) ==
  /\ At(h, "fund")
  /\ Goto(h, "insert")
  /\ UNCHANGED <<account, row, sealed, audit, done, pays, faults>>

insertRow(h) ==
  /\ At(h, "insert")
  /\ row' = [row EXCEPT ![jobs[h].slot] = FreshRow]
  /\ Goto(h, "audit")
  /\ UNCHANGED <<account, sealed, audit, done, pays, faults>>

-----------------------------------------------------------------------------
(* The other requests look the row up and go on.                           *)

(* Mutant: any vault of the chain can be named.                            *)
Mut_Ask(h, s, act, arg, place) ==
  /\ At(h, "idle")
  /\ Open(s)
  /\ jobs' = [jobs EXCEPT ![h] = Request(place, act, s, arg)]
  /\ UNCHANGED <<account, row, sealed, audit, done, pays, faults>>

Ask(h, s, act, arg, place) ==
  /\ At(h, "idle")
  /\ row[s] # NoRow
  /\ jobs' = [jobs EXCEPT ![h] = Request(place, act, s, arg)]
  /\ UNCHANGED <<account, row, sealed, audit, done, pays, faults>>

setPolicy(h, s) == Ask(h, s, "setPolicy", 0, "send")
setDelegateActive(h, s, active) == Ask(h, s, "setDelegateActive", active, "send")
resetWindow(h, s) == Ask(h, s, "resetWindow", 0, "send")
manageList(h, s) == Ask(h, s, "manageList", 0, "send")
deposit(h, s, n) == Ask(h, s, "deposit", n, "send")
withdraw(h, s, n) == Ask(h, s, "withdraw", n, "measure")
close(h, s) == Ask(h, s, "close", 0, "send")
getVault(h, s) == Ask(h, s, "none", 0, "sync")

(* SolanaService.vaultBalance: a token account that cannot be read counts  *)
(* as an empty one; reading a SOL balance throws instead, see fail.        *)
Reads(s, balance) ==
  \/ balance = account[s].funds /\ UNCHANGED faults
  \/ s \in Tokens /\ balance = 0 /\ Fault

(* withdraw reads the balance first: "all" is what it is now, and nothing  *)
(* is an error.                                                            *)
measure(h) ==
  /\ At(h, "measure")
  /\ \E balance \in {0, account[jobs[h].slot].funds} :
       LET n == IF jobs[h].arg = All THEN balance ELSE jobs[h].arg
       IN  /\ Reads(jobs[h].slot, balance)
           /\ jobs' = [jobs EXCEPT ![h] = IF n = 0 THEN Ended(@, NoRow)
                                         ELSE [@ EXCEPT !.arg = n, !.pc = "send"]]
  /\ UNCHANGED <<account, row, sealed, audit, done, pays>>

(* The instruction lands and its confirmation arrives.                     *)
send(h) ==
  /\ At(h, "init") \/ At(h, "send")
  /\ Execute(jobs[h])
  /\ jobs' = [jobs EXCEPT ![h].pc = IF At(h, "init") THEN "fund" ELSE "audit",
                          ![h].wrote = account'[jobs[h].slot].at]
  /\ UNCHANGED <<row, sealed, audit, pays, faults>>

(* Mutant: the result of the transaction is not checked.                   *)
Mut_refuse(h) ==
  /\ At(h, "init") \/ At(h, "send")
  /\ Goto(h, "audit")
  /\ UNCHANGED <<account, row, sealed, audit, done, pays, faults>>

(* The simulation or the program rejects it: ensure() throws.              *)
refuse(h) ==
  /\ At(h, "init") \/ At(h, "send")
  /\ End(h)
  /\ UNCHANGED <<account, row, sealed, audit, done, pays, faults>>

(* The confirmation fails: the request ends with an error, the transaction *)
(* may land later all the same, or not at all.                             *)
loseConfirmation(h) ==
  /\ Fault
  /\ At(h, "init") \/ At(h, "send")
  /\ Goto(h, "lost")
  /\ UNCHANGED <<account, row, sealed, audit, done, pays>>

landLate(h) ==
  /\ At(h, "lost")
  /\ \/ Execute(jobs[h])
     \/ UNCHANGED <<account, done>>
  /\ End(h)
  /\ UNCHANGED <<row, sealed, audit, pays, faults>>

writeAudit(h) ==
  /\ At(h, "audit")
  /\ audit' = [audit EXCEPT ![jobs[h].slot][jobs[h].act] = @ + 1]
  /\ Goto(h, IF jobs[h].act = "close" THEN "zero" ELSE "sync")
  /\ UNCHANGED <<account, row, sealed, done, pays, faults>>

(* close does not refresh the row, it empties it.                          *)
zeroRow(h) ==
  /\ At(h, "zero")
  /\ row' = [row EXCEPT ![jobs[h].slot].funds = 0, ![jobs[h].slot].active = FALSE]
  /\ End(h)
  /\ UNCHANGED <<account, sealed, audit, done, pays, faults>>

-----------------------------------------------------------------------------
(* syncFromChain: four awaits, each of them may be overtaken.              *)

lookUp(h) ==
  /\ At(h, "sync")
  /\ jobs' = [jobs EXCEPT ![h].pc = "fetch", ![h].seen = row[jobs[h].slot]]
  /\ UNCHANGED <<account, row, sealed, audit, done, pays, faults>>

(* A closed vault leaves the row, and the answer, as they were.            *)
fetchVault(h) ==
  LET a == account[jobs[h].slot]
  IN  /\ At(h, "fetch")
      /\ jobs' = [jobs EXCEPT ![h] =
           IF Open(jobs[h].slot)
           THEN [@ EXCEPT !.pc = "balance",
                          !.seen = [at |-> a.at, active |-> a.active, funds |-> 0, asOf |-> 0]]
           ELSE Ended(@, @.seen)]
      /\ UNCHANGED <<account, row, sealed, audit, done, pays, faults>>

(* The balance is read last; what is written for one that could not be     *)
(* read is as of no change.                                                *)
vaultBalance(h) ==
  LET a == account[jobs[h].slot]
  IN  /\ At(h, "balance")
      /\ \E balance \in {0, a.funds} :
           /\ Reads(jobs[h].slot, balance)
           /\ LET asOf == IF balance = a.funds THEN a.at ELSE 0
                  seen == [jobs[h].seen EXCEPT !.funds = balance, !.asOf = asOf]
              IN  jobs' = [jobs EXCEPT ![h] = [@ EXCEPT !.pc = "write", !.seen = seen]]
      /\ UNCHANGED <<account, row, sealed, audit, done, pays>>

(* Mutant: the answer is the row as it was looked up.                      *)
Mut_updateRow(h) ==
  /\ At(h, "write")
  /\ row' = [row EXCEPT ![jobs[h].slot] = jobs[h].seen]
  /\ jobs' = [jobs EXCEPT ![h] = Ended(@, row[@.slot])]
  /\ UNCHANGED <<account, sealed, audit, done, pays, faults>>

(* Mutant: what was read is answered and not saved.                        *)
Mut_updateRow_unsaved(h) ==
  /\ At(h, "write")
  /\ jobs' = [jobs EXCEPT ![h] = Ended(@, @.seen)]
  /\ UNCHANGED <<account, row, sealed, audit, done, pays, faults>>

(* Whatever the row says by now is overwritten.                            *)
updateRow(h) ==
  /\ At(h, "write")
  /\ row' = [row EXCEPT ![jobs[h].slot] = jobs[h].seen]
  /\ jobs' = [jobs EXCEPT ![h] = Ended(@, @.seen)]
  /\ UNCHANGED <<account, sealed, audit, done, pays, faults>>

(* A read or a write of the database or the chain throws.                  *)
fail(h) ==
  /\ Fault
  /\ jobs[h].pc \in {"fund", "insert", "measure", "audit", "zero", "sync", "fetch",
                     "balance", "write"}
  /\ jobs[h].pc \in {"measure", "balance"} => jobs[h].slot \notin Tokens
  /\ End(h)
  /\ UNCHANGED <<account, row, sealed, audit, done, pays>>

-----------------------------------------------------------------------------
(* A payment of the delegate, and the next reading of a poller.            *)
pay(s) ==
  /\ Open(s) /\ account[s].active /\ account[s].funds > 0
  /\ pays < MaxPays
  /\ pays' = pays + 1
  /\ account' = [account EXCEPT ![s] = Account(@.status, @.at + 1, @.active, @.funds - 1)]
  /\ UNCHANGED <<row, sealed, audit, done, jobs, faults>>

pollAgain(h) ==
  /\ At(h, "done")
  /\ jobs' = [jobs EXCEPT ![h] = Request("sync", "none", jobs[h].slot, 0)]
  /\ UNCHANGED <<account, row, sealed, audit, done, pays, faults>>

(* The backend restarts: what was being sent may still land.               *)
restart ==
  /\ Fault
  /\ jobs' = [h \in Handlers |->
                CASE jobs[h].pc \in {"idle", "lost", "done"} -> jobs[h]
                  [] jobs[h].pc \in {"init", "send"} -> [jobs[h] EXCEPT !.pc = "lost"]
                  [] OTHER -> Ended(jobs[h], NoRow)]
  /\ UNCHANGED <<account, row, sealed, audit, done, pays>>

Arrival(h) ==
  \E s \in Slots :
    \/ create(h, s)
    \/ setPolicy(h, s)
    \/ \E active \in {Off, On} : setDelegateActive(h, s, active)
    \/ resetWindow(h, s)
    \/ manageList(h, s)
    \/ \E n \in Deposits : deposit(h, s, n)
    \/ \E n \in Deposits \cup {All} : withdraw(h, s, n)
    \/ close(h, s)

Step(h) ==
  \/ fundDelegate(h) \/ insertRow(h) \/ measure(h)
  \/ send(h) \/ refuse(h) \/ loseConfirmation(h) \/ landLate(h)
  \/ writeAudit(h) \/ zeroRow(h)
  \/ lookUp(h) \/ fetchVault(h) \/ vaultBalance(h) \/ updateRow(h) \/ fail(h)

Next ==
  \/ \E h \in Jobs : Arrival(h)
  \/ \E h \in Pollers, s \in Slots : getVault(h, s)
  \/ \E h \in Handlers : Step(h)
  \/ \E h \in Pollers : pollAgain(h)
  \/ \E s \in Slots : pay(s)
  \/ restart

Spec == Init /\ [][Next]_vars

(* A handler that can continue does, and a poller of a vault keeps reading *)
(* it; no request has to arrive.                                           *)
FairSpec ==
  /\ Spec
  /\ \A h \in Handlers : WF_vars(Step(h))
  /\ \A h \in Pollers : WF_vars(pollAgain(h))

-----------------------------------------------------------------------------
(* Wherever create stops, and whenever its transaction lands, the delegate *)
(* key of a vault that exists is in the key store: what the delegate was   *)
(* given for fees is never lost.                                           *)
KeyOfEveryVault == \A s \in Slots : account[s].status # "none" => s \in sealed

(* A vault whose creation stopped half-way, with no row that names it, is  *)
(* never given money: only its rent is out of the owner's reach through    *)
(* the backend.                                                            *)
OrphansHoldNothing == \A s \in Slots : row[s] = NoRow => account[s].funds = 0

(* The audit log never claims what the chain did not do, however requests  *)
(* fail or are cut short.                                                  *)
AuditNeverOverstates == \A s \in Slots, a \in Acts : audit[s][a] <= done[s][a]

(* The vault a request answers with is at least as recent as the change    *)
(* the request made, a deposit or withdrawal included, unless the vault    *)
(* was closed meanwhile; only for a token vault may the balance be the     *)
(* zero of one that could not be read.                                     *)
AnswerShowsOwnChange ==
  \A h \in Handlers :
    LET job == jobs[h]
    IN  job.reply # NoRow =>
          \/ account[job.slot].status = "closed"
          \/ /\ job.reply.at >= job.wrote
             /\ \/ job.reply.asOf >= job.wrote
                \/ job.slot \in Tokens /\ job.reply.funds = 0

(* Stale writes, a balance that could not be read among them, are          *)
(* repaired: once the chain is quiet and calls succeed, a row of an open   *)
(* vault that is being read agrees with the chain for good.                *)
Polled(s) == \E h \in Pollers : jobs[h].pc # "idle" /\ jobs[h].slot = s

Current(s) ==
  LET a == account[s]
  IN  row[s] = [at |-> a.at, active |-> a.active, funds |-> a.funds, asOf |-> a.at]

EventuallyCurrent ==
  \A s \in Slots : <>[](Polled(s) /\ Open(s) => Current(s))
=============================================================================
