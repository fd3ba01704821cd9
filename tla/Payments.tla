------------------------------ MODULE Payments ------------------------------
(***************************************************************************)
(* The backend's payment lifecycle (src/backend/src/payments) over the     *)
(* on-chain vault: requests to create, approve and deny payments run as    *)
(* concurrent handlers that interleave at every `await`, with each other,  *)
(* with the transactions they submitted and with the owner and the world   *)
(* acting on the chain.                                                    *)
(*                                                                         *)
(* A payment row is named by its idempotency key (rows are unique on       *)
(* vaultId and key); one vault row is modelled.  The refresh of the cached *)
(* vault that ends a request reads and writes none of this state.          *)
(***************************************************************************)
EXTENDS PolicyMirror

CONSTANTS
  Requests,                   \* handler invocations of a behaviour
  Ids,                        \* idempotency keys
  AgentKey,                   \* the delegate key in the backend's key store
  VaultMint,                  \* the mint of the vault row
  InitialVaults,              \* vault accounts a behaviour can start from
  InitialHeld,                \* what such a vault holds
  ENFORCE_ONCHAIN_REVERTS,    \* submit payments the mirror rejects
  Serial,                     \* the owner decides on a row once at a time
  RpcFaults,                  \* RPC calls can fail or lose their reply
  DbFaults,                   \* writes to the database can fail
  ClockSkew,                  \* backend clock against the cluster's
  MaxChainSteps,              \* bound on other activity on the chain
  MaxCrashes                  \* bound on restarts of the backend

ASSUME PaymentsAssumption ==
  /\ AgentKey \in Keys
  /\ VaultMint \in Assets
  /\ InitialVaults \subseteq Vaults
  /\ InitialHeld \in [Assets -> Nat]
  /\ ENFORCE_ONCHAIN_REVERTS \in BOOLEAN /\ Serial \in BOOLEAN
  /\ RpcFaults \in BOOLEAN /\ DbFaults \in BOOLEAN
  /\ ClockSkew \in Nat /\ MaxChainSteps \in Nat /\ MaxCrashes \in Nat

VARIABLES
  rows,        \* rows[id]: the payment row, or NoRow
  handlers,    \* handlers[h]: where request h is, and what it remembers
  txs,         \* the transactions submitted, in order
  audit,       \* the audit log: which action was logged for which row
  chainSteps,  \* other activity on the chain so far
  crashes      \* restarts so far

chain == <<vault, held, atas, wallet, now, events, arms>>
backend == <<rows, handlers, txs, audit, crashes>>
allVars == <<chain, backend, chainSteps>>

NoRow == [status |-> "NONE"]

Statuses == {"CREATED", "HELD", "SETTLED", "APPROVED", "REVERTED", "DENIED", "FAILED"}

Rows ==
  [status : Statuses, amount : U64, recipient : Recipients, context : Contexts,
   signature : 0 .. Len(txs)]

Places == {"idle", "fetch", "balance", "fail", "hold", "record_offline", "submit",
           "confirm", "record", "deny", "audit", "done"}

Handler(place, op, id) ==
  [pc |-> place, op |-> op, id |-> id, seen |-> NoVault,
   verdict |-> "none", tx |-> 0, ok |-> FALSE, log |-> "none"]

Idle == Handler("idle", "none", "none")

PaymentsTypeOK ==
  /\ \A id \in Ids : rows[id] = NoRow \/ rows[id] \in Rows
  /\ \A h \in Requests :
       /\ handlers[h].pc \in Places
       /\ handlers[h].pc # "idle" => handlers[h].id \in Ids
       /\ handlers[h].pc = "balance" => handlers[h].seen \in Vaults
       /\ handlers[h].tx \in 0 .. Len(txs)
  /\ \A i \in DOMAIN txs : /\ txs[i].id \in Ids
                           /\ txs[i].status \in {"sent", "ok", "failed", "expired"}

PaymentsInit ==
  /\ vault \in InitialVaults
  /\ held = InitialHeld
  /\ atas = {m \in Mints : InitialHeld[m] > 0}
  /\ wallet = Endowment
  /\ now = 0
  /\ events = <<>>
  /\ arms = <<0>>
  /\ rows = [id \in Ids |-> NoRow]
  /\ handlers = [h \in Requests |-> Idle]
  /\ txs = <<>>
  /\ audit = {}
  /\ chainSteps = 0
  /\ crashes = 0

At(h, place) == handlers[h].pc = place
RowOf(h) == rows[handlers[h].id]

Goto(h, place) == handlers' = [handlers EXCEPT ![h].pc = place]

SetRow(h, status, signature) ==
  rows' = [rows EXCEPT ![handlers[h].id].status = status,
                       ![handlers[h].id].signature = signature]

-----------------------------------------------------------------------------
(* Entry of the three requests.                                            *)

Begin(h, op, id, place) == handlers' = [handlers EXCEPT ![h] = Handler(place, op, id)]

(* Mutant: the row is looked up but not locked by the unique key.          *)
Mut_create(h, id, amount, recipient, context) ==
  /\ At(h, "idle")
  /\ rows' = [rows EXCEPT ![id] = [status |-> "CREATED", amount |-> amount, signature |-> 0,
                                   recipient |-> recipient, context |-> context]]
  /\ Begin(h, "create", id, "fetch")
  /\ UNCHANGED <<txs, audit, crashes>>

(* createAndExecute up to the insert: the row is the lock, a second        *)
(* request with the same key returns the existing row as it is.            *)
create(h, id, amount, recipient, context) ==
  /\ At(h, "idle")
  /\ IF rows[id] = NoRow
     THEN /\ rows' = [rows EXCEPT ![id] =
                        [status |-> "CREATED", amount |-> amount, signature |-> 0,
                         recipient |-> recipient, context |-> context]]
          /\ Begin(h, "create", id, "fetch")
     ELSE /\ Begin(h, "create", id, "done")
          /\ UNCHANGED rows
  /\ UNCHANGED <<txs, audit, crashes>>

Deciding(id) ==
  \E g \in Requests : /\ handlers[g].op \in {"approve", "deny"} /\ handlers[g].id = id
                      /\ ~At(g, "done")

(* Mutant: the status of the row is not looked at.                         *)
Mut_decide(h, op, id) ==
  /\ At(h, "idle")
  /\ rows[id] # NoRow
  /\ Serial => ~Deciding(id)
  /\ Begin(h, op, id, IF op = "deny" THEN "deny" ELSE "fetch")
  /\ UNCHANGED <<rows, txs, audit, crashes>>

(* approveHeld and denyHeld read the row and go on only if it is HELD:     *)
(* nothing keeps the row HELD afterwards.                                  *)
decide(h, op, id) ==
  /\ At(h, "idle")
  /\ rows[id] # NoRow
  /\ Serial => ~Deciding(id)
  /\ Begin(h, op, id, IF rows[id].status # "HELD" THEN "done"
                      ELSE IF op = "deny" THEN "deny" ELSE "fetch")
  /\ UNCHANGED <<rows, txs, audit, crashes>>

-----------------------------------------------------------------------------
(* Reading the chain and deciding.                                         *)

fetchVault(h) ==
  /\ At(h, "fetch")
  /\ handlers' = [handlers EXCEPT ![h].pc = IF Open THEN "balance" ELSE "fail",
                                  ![h].seen = vault]
  /\ UNCHANGED <<rows, txs, audit, crashes>>

fail(h) ==
  /\ At(h, "fail")
  /\ SetRow(h, "FAILED", RowOf(h).signature)
  /\ Goto(h, "done")
  /\ UNCHANGED <<txs, audit, crashes>>

(* What vaultBalance can return: an error reading a token account counts   *)
(* as an empty one, and at the address of a closed vault only lamports     *)
(* sent there meanwhile are left.                                          *)
Balances ==
  IF VaultMint = Native
  THEN IF Open THEN {Available(Native)} ELSE 0 .. held[Native]
  ELSE (IF VaultMint \in atas THEN {held[VaultMint]} ELSE {0})
         \cup (IF RpcFaults THEN {0} ELSE {})

BackendClock == (IF now >= ClockSkew THEN now - ClockSkew ELSE 0) .. (now + ClockSkew)

(* The verdict is reached in the step that reads the balance, on the vault *)
(* account read before it.                                                 *)
NextPlace(op, verdict) ==
  IF op = "create" /\ verdict = "HELD" THEN "hold"
  ELSE IF op = "create" /\ verdict = "REVERT" /\ ~ENFORCE_ONCHAIN_REVERTS THEN "record_offline"
  ELSE "submit"

judge(h) ==
  /\ At(h, "balance")
  /\ \E available \in Balances, nowSec \in BackendClock :
       LET verdict == evaluate(handlers[h].seen, available, RowOf(h).recipient,
                               RowOf(h).amount, nowSec).verdict
       IN  handlers' = [handlers EXCEPT ![h].pc = NextPlace(handlers[h].op, verdict),
                                        ![h].verdict = verdict,
                                        ![h].seen = NoVault]
  /\ UNCHANGED <<rows, txs, audit, crashes>>

(* Mutant: the owner's queue is told, the row is not.                      *)
Mut_hold(h) ==
  /\ At(h, "hold")
  /\ handlers' = [handlers EXCEPT ![h].pc = "audit", ![h].log = "payment.held"]
  /\ UNCHANGED <<rows, txs, audit, crashes>>

hold(h) ==
  /\ At(h, "hold")
  /\ SetRow(h, "HELD", RowOf(h).signature)
  /\ handlers' = [handlers EXCEPT ![h].pc = "audit", ![h].log = "payment.held"]
  /\ UNCHANGED <<txs, audit, crashes>>

(* Without ENFORCE_ONCHAIN_REVERTS a rejected intent is only recorded.     *)
recordOffline(h) ==
  /\ At(h, "record_offline")
  /\ SetRow(h, "REVERTED", RowOf(h).signature)
  /\ Goto(h, "done")
  /\ UNCHANGED <<txs, audit, crashes>>

-----------------------------------------------------------------------------
(* SolanaService.send: the preflight simulation, the submission and the    *)
(* confirmation.  It never throws after the blockhash is fetched; any      *)
(* error becomes a result with `err` set.                                  *)

Cosigned(h) == handlers[h].op = "approve" /\ handlers[h].verdict # "REVERT"

Forced(h) == handlers[h].verdict = "REVERT" /\ ENFORCE_ONCHAIN_REVERTS

Simulates(h) ==
  Accepts(VaultMint, AgentKey, RowOf(h).recipient, RowOf(h).amount, Cosigned(h))

Sent(h) ==
  txs' = Append(txs, [id |-> handlers[h].id, op |-> handlers[h].op,
                      signed |-> Cosigned(h), status |-> "sent"])

(* Mutant: the signature of the transaction that will come next.           *)
Mut_submit(h) ==
  /\ At(h, "submit")
  /\ Forced(h) \/ Simulates(h)
  /\ Sent(h)
  /\ handlers' = [handlers EXCEPT ![h].pc = "confirm", ![h].tx = Len(txs) + 2]
  /\ UNCHANGED <<rows, audit, crashes>>

submit(h) ==
  /\ At(h, "submit")
  /\ Forced(h) \/ Simulates(h)
  /\ Sent(h)
  /\ handlers' = [handlers EXCEPT ![h].pc = "confirm", ![h].tx = Len(txs) + 1]
  /\ UNCHANGED <<rows, audit, crashes>>

preflightFails(h) ==
  /\ At(h, "submit")
  /\ ~Forced(h) /\ ~Simulates(h)
  /\ handlers' = [handlers EXCEPT ![h].pc = "record", ![h].ok = FALSE]
  /\ UNCHANGED <<rows, txs, audit, crashes>>

(* The transaction never leaves, or leaves and its signature does not come *)
(* back.                                                                   *)
sendLost(h) ==
  /\ RpcFaults
  /\ At(h, "submit")
  /\ handlers' = [handlers EXCEPT ![h].pc = "record", ![h].ok = FALSE]
  /\ UNCHANGED txs \/ ((Forced(h) \/ Simulates(h)) /\ Sent(h))
  /\ UNCHANGED <<rows, audit, crashes>>

confirm(h) ==
  /\ At(h, "confirm")
  /\ txs[handlers[h].tx].status # "sent"
  /\ handlers' = [handlers EXCEPT ![h].pc = "record",
                                  ![h].ok = txs[handlers[h].tx].status = "ok"]
  /\ UNCHANGED <<rows, txs, audit, crashes>>

(* confirmTransaction can fail although the transaction landed.            *)
confirmLost(h) ==
  /\ RpcFaults
  /\ At(h, "confirm")
  /\ handlers' = [handlers EXCEPT ![h].pc = "record", ![h].ok = FALSE]
  /\ UNCHANGED <<rows, txs, audit, crashes>>

(* A read of the chain, the blockhash, or a write to the row or the audit  *)
(* log fails: the request ends with an exception and the row stays as it   *)
(* is, also when its transaction was submitted.                            *)
abort(h) ==
  /\ \/ RpcFaults /\ \/ At(h, "fetch")
                     \/ At(h, "balance") /\ VaultMint = Native
                     \/ At(h, "submit")
     \/ DbFaults /\ handlers[h].pc \in {"fail", "hold", "record_offline", "record", "deny",
                                        "audit"}
  /\ Goto(h, "done")
  /\ UNCHANGED <<rows, txs, audit, crashes>>

-----------------------------------------------------------------------------
(* Recording the outcome.                                                  *)

(* Mutant: the result's `err` is not looked at.                            *)
Mut_Outcome(h) ==
  IF handlers[h].verdict = "REVERT" THEN "REVERTED"
  ELSE IF handlers[h].op = "create" THEN "SETTLED" ELSE "APPROVED"

Outcome(h) ==
  IF handlers[h].verdict = "REVERT" \/ ~handlers[h].ok THEN "REVERTED"
  ELSE IF handlers[h].op = "create" THEN "SETTLED" ELSE "APPROVED"

(* Mutant: the entry is named after the mirror's verdict alone.            *)
Mut_OutcomeLog(h) ==
  CASE handlers[h].verdict = "REVERT" -> "payment.reverted"
    [] handlers[h].op = "create"      -> "payment.settled"
    [] OTHER                          -> "payment.approved"

OutcomeLog(h) ==
  CASE Outcome(h) = "SETTLED"  -> "payment.settled"
    [] Outcome(h) = "APPROVED" -> "payment.approved"
    [] OTHER -> IF handlers[h].op = "create" THEN "payment.reverted"
                ELSE "payment.cosign.reverted"

(* An approval the network rejects is recorded but not logged.             *)
Logged(h) == ~(Cosigned(h) /\ ~handlers[h].ok)

record(h) ==
  /\ At(h, "record")
  /\ SetRow(h, Outcome(h), handlers[h].tx)
  /\ handlers' = [handlers EXCEPT ![h].pc = IF Logged(h) THEN "audit" ELSE "done",
                                  ![h].log = OutcomeLog(h)]
  /\ UNCHANGED <<txs, audit, crashes>>

deny(h) ==
  /\ At(h, "deny")
  /\ SetRow(h, "DENIED", RowOf(h).signature)
  /\ handlers' = [handlers EXCEPT ![h].pc = "audit", ![h].log = "payment.denied"]
  /\ UNCHANGED <<txs, audit, crashes>>

writeAudit(h) ==
  /\ At(h, "audit")
  /\ audit' = audit \cup {[id |-> handlers[h].id, action |-> handlers[h].log]}
  /\ Goto(h, "done")
  /\ UNCHANGED <<rows, txs, crashes>>

-----------------------------------------------------------------------------
(* The chain.                                                              *)

SetTx(i, status) == txs' = [txs EXCEPT ![i].status = status]

(* A submitted transaction executes against the vault as it is then, or    *)
(* its blockhash expires first.                                            *)
land(i) ==
  LET row == rows[txs[i].id]
  IN  /\ txs[i].status = "sent"
      /\ IF Accepts(VaultMint, AgentKey, row.recipient, row.amount, txs[i].signed)
         THEN /\ Settle(VaultMint, AgentKey, row.recipient, row.amount, txs[i].signed,
                        row.context)
              /\ SetTx(i, "ok")
         ELSE /\ UNCHANGED chain
              /\ SetTx(i, "failed")
      /\ UNCHANGED <<rows, handlers, audit, chainSteps, crashes>>

expire(i) ==
  /\ txs[i].status = "sent"
  /\ SetTx(i, "expired")
  /\ UNCHANGED <<chain, rows, handlers, audit, chainSteps, crashes>>

(* Everything else that happens to the vault, in one step of its own.      *)
chainStep ==
  /\ chainSteps < MaxChainSteps
  /\ chainSteps' = chainSteps + 1
  /\ OwnerStep \/ WorldStep
  /\ UNCHANGED backend

(* The backend restarts: the requests it was serving are gone.             *)
crash ==
  /\ crashes < MaxCrashes
  /\ crashes' = crashes + 1
  /\ handlers' = [h \in Requests |-> IF At(h, "idle") THEN Idle
                                     ELSE [handlers[h] EXCEPT !.pc = "done"]]
  /\ UNCHANGED <<chain, rows, txs, audit, chainSteps>>

-----------------------------------------------------------------------------
RequestArrives(h) ==
  \/ \E id \in Ids, amount \in Amounts, r \in Recipients, c \in Contexts :
       create(h, id, amount, r, c)
  \/ \E id \in Ids, op \in {"approve", "deny"} : decide(h, op, id)

HandlerStep(h) ==
  \/ fetchVault(h)
  \/ fail(h)
  \/ judge(h)
  \/ hold(h)
  \/ recordOffline(h)
  \/ submit(h)
  \/ preflightFails(h)
  \/ sendLost(h)
  \/ confirm(h)
  \/ confirmLost(h)
  \/ abort(h)
  \/ record(h)
  \/ deny(h)
  \/ writeAudit(h)

BackendStep(h) == HandlerStep(h) /\ UNCHANGED <<chain, chainSteps>>

TxStep(i) == land(i) \/ expire(i)

PaymentsNext ==
  \/ \E h \in Requests : RequestArrives(h) /\ UNCHANGED <<chain, chainSteps>>
  \/ \E h \in Requests : BackendStep(h)
  \/ \E i \in DOMAIN txs : TxStep(i)
  \/ chainStep
  \/ crash

PaymentsSpec == PaymentsInit /\ [][PaymentsNext]_allVars

(* A handler that can continue does, and a submitted transaction lands or  *)
(* expires; no request has to arrive and nobody has to act on the chain.   *)
LiveSpec ==
  /\ PaymentsSpec
  /\ \A h \in Requests : WF_allVars(BackendStep(h))
  /\ \A i \in 1 .. Cardinality(Requests) : WF_allVars(i \in DOMAIN txs /\ TxStep(i))

-----------------------------------------------------------------------------
Submissions(id, op) == {i \in DOMAIN txs : txs[i].id = id /\ txs[i].op = op}
Landed(id) == {i \in DOMAIN txs : txs[i].id = id /\ txs[i].status = "ok"}

(* The idempotency lock: however requests with one key overlap, are        *)
(* retried or lose their process, at most one of them submits.             *)
AtMostOneCreateSubmission ==
  \A id \in Ids : Cardinality(Submissions(id, "create")) <= 1

(* A row that says money moved is right: a transaction of that row, not of *)
(* another one with the same context, landed and is in the program's log.  *)
LedgerNeverOverstates ==
  \A id \in Ids :
    rows[id].status \in {"SETTLED", "APPROVED"} =>
      /\ Landed(id) # {}
      /\ \E i \in DOMAIN events : /\ events[i].amount = rows[id].amount
                                  /\ events[i].recipient = rows[id].recipient

(* One intent is paid at most once, whether by its creation or by the      *)
(* owner's decisions.                                                      *)
AtMostOncePaid == \A id \in Ids : Cardinality(Landed(id)) <= 1

(* However decisions on a payment overlap, fail or lose their process:     *)
(* what the owner denied was not submitted by its creation, so only an     *)
(* approval that overtook the denial can have paid it.                     *)
DeniedPaidOnlyByApproval ==
  \A id \in Ids :
    rows[id].status = "DENIED" =>
      \A i \in DOMAIN txs :
        txs[i].id = id /\ txs[i].status \in {"sent", "ok"} => txs[i].op = "approve"

(* A settled, approved, denied, reverted or failed row keeps its status,   *)
(* unless the owner's decisions collide: it changes only by an approval or *)
(* a denial still under way, and then another one was made on the row.     *)
Decides(h, id) == handlers[h].op \in {"approve", "deny"} /\ handlers[h].id = id

Contested(id) ==
  \E g, h \in Requests : /\ g # h /\ Decides(g, id) /\ Decides(h, id)
                         /\ handlers[h].pc \notin {"idle", "done"}

FinalUnlessContested ==
  [][\A id \in Ids :
       rows[id].status \notin {"NONE", "CREATED", "HELD", rows'[id].status}
         => Contested(id)]_allVars

(* The audit log tells one story of a payment: however decisions, network  *)
(* errors and lost replies follow each other, at most one ending is logged *)
(* for it, and one that says money moved is backed by the chain.           *)
Endings(id) == {e \in audit : e.id = id /\ e.action # "payment.held"}

AuditTellsOneStory ==
  \A id \in Ids :
    /\ Cardinality(Endings(id)) <= 1
    /\ \A e \in Endings(id) :
         e.action \in {"payment.settled", "payment.approved"} => Landed(id) # {}

(* The lifecycle implements the owner's view of it: statuses, transfers    *)
(* and logged endings only ever change together as Intents allows.         *)
EndingOf(action) ==
  CASE action = "payment.settled"  -> "SETTLED"
    [] action = "payment.approved" -> "APPROVED"
    [] action = "payment.denied"   -> "DENIED"
    [] OTHER                       -> "REVERTED"

Said == [id \in Ids |-> rows[id].status]
Transfers == [id \in Ids |-> Cardinality(Landed(id))]
Told == {<<e.id, EndingOf(e.action)>> : e \in {f \in audit : f.action # "payment.held"}}

Promise == INSTANCE Intents WITH said <- Said, moved <- Transfers, told <- Told

KeepsPromise == Promise!Spec

(* schema.prisma:21 says of REVERTED: "submitted, network rejected it".    *)
RevertedMovedNothing ==
  \A id \in Ids : rows[id].status = "REVERTED" => Landed(id) = {}

(* Every intent is carried out, held, rejected or failed in the end.       *)
EveryIntentDecided ==
  \A id \in Ids : (rows[id].status = "CREATED") ~> (rows[id].status # "CREATED")
=============================================================================
