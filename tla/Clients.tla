------------------------------ MODULE Clients ------------------------------
(***************************************************************************)
(* The programs that ask the backend to pay, over HTTP: the autonomous     *)
(* agent, callers of the SDK that name their purchase, tools called by a   *)
(* language model, the terminal and desktop wallets.  A caller may give up *)
(* on a call the backend goes on with, the backend may restart, the owner  *)
(* may revoke the API key and decides on held payments.  Payments are      *)
(* reduced to the row and its verdict; how one is reached is Payments'.    *)
(***************************************************************************)
EXTENDS Naturals, Sequences, FiniteSets

CONSTANTS
  Agents,       \* runs of agent/agent.ts, each with a task id of its own
  Shoppers,     \* callers of the SDK, with an idempotency key per purchase
  Tools,        \* MCP, LangChain, OpenAI and Vercel tools
  Terminals,    \* terminal wallets
  Desktops,     \* desktop wallets
  Plans,        \* purchases an agent may plan: sequences of items
  Items,        \* what the others buy: records of a domain and a price
  Decisions,    \* approvals and denials the backend serves at a time
  MaxActive,    \* bound on the callers in use
  MaxCalls,     \* bound on the calls of a caller
  MaxRestarts   \* bound on restarts of the backend

(* What there is to want; nothing of it is the mark of a caller that has   *)
(* not decided yet.                                                        *)
Offers == Items \cup UNION {{p[i] : i \in DOMAIN p} : p \in Plans}
Planless == [domain |-> "unplanned", price |-> 0]

ASSUME ClientsAssumption ==
  /\ Agents \cap (Shoppers \cup Tools \cup Terminals \cup Desktops) = {}
  /\ Shoppers \cap (Tools \cup Terminals \cup Desktops) = {}
  /\ Plans \subseteq Seq(Offers) /\ Planless \notin Offers

VARIABLES
  plan,      \* plan[c]: what caller c still wants, in order
  calls,     \* the calls made, in order
  rows,      \* payment rows; a row's id is the call that inserted it
  decisions, \* decisions[d]: the row a decision under way is about, and which
  report,    \* report[c]: what c counts as settled, held and reverted
  live,      \* the API key is not revoked
  restarts   \* restarts of the backend so far

vars == <<plan, calls, rows, decisions, report, live, restarts>>

Callers == Agents \cup Shoppers \cup Tools \cup Terminals \cup Desktops
Settled == {"SETTLED", "APPROVED"}
Verdicts == {"SETTLED", "HELD", "REVERTED", "FAILED"}
Outcomes == {"APPROVED", "DENIED", "REVERTED", "FAILED"}
Final == Settled \cup Outcomes
Statuses == Verdicts \cup {"CREATED", "APPROVED", "DENIED"}
Places == {"sent", "checked", "deciding", "answer", "answered", "stopped"}

Unplanned == <<Planless>>
NoDecision == [row |-> 0, op |-> "none"]
NoReport == [settled |-> 0, held |-> 0, reverted |-> 0]

Init ==
  /\ \E active \in SUBSET Callers :
       /\ Cardinality(active) <= MaxActive
       /\ plan = [c \in Callers |-> IF c \in active THEN Unplanned ELSE <<>>]
  /\ calls = <<>>
  /\ rows = {}
  /\ decisions = [d \in Decisions |-> NoDecision]
  /\ report = [c \in Callers |-> NoReport]
  /\ live = TRUE
  /\ restarts = 0

-----------------------------------------------------------------------------
(* The callers.                                                            *)

(* The agent reads its budget with its key, then takes the model's plan,   *)
(* or the whole catalog when there is none.                                *)
agentPlan(c) ==
  /\ plan[c] = Unplanned
  /\ live
  /\ \E p \in Plans : plan' = [plan EXCEPT ![c] = p]
  /\ UNCHANGED <<calls, rows, decisions, report, live, restarts>>

(* The budget cannot be read, for one because the key is revoked: the run  *)
(* is over before anything was tried.                                      *)
agentQuit(c) ==
  /\ plan[c] = Unplanned
  /\ plan' = [plan EXCEPT ![c] = <<>>]
  /\ UNCHANGED <<calls, rows, decisions, report, live, restarts>>

(* The others want one thing.                                              *)
want(c) ==
  /\ plan[c] = Unplanned
  /\ \E item \in Items : plan' = [plan EXCEPT ![c] = <<item>>]
  /\ UNCHANGED <<calls, rows, decisions, report, live, restarts>>

CallsOf(c) == {n \in DOMAIN calls : calls[n].by = c}
Waiting(c) == \E n \in CallsOf(c) : calls[n].open

Post(c, key) ==
  /\ plan[c] \notin {Unplanned, <<>>}
  /\ Cardinality(CallsOf(c)) < MaxCalls
  /\ calls' = Append(calls, [by |-> c, left |-> Len(plan[c]), item |-> Head(plan[c]),
                             key |-> key, at |-> "sent", open |-> TRUE,
                             late |-> ~live, status |-> "none"])
  /\ UNCHANGED <<plan, rows, decisions, report, live, restarts>>

Fresh(c) == <<c, "fresh", Cardinality(CallsOf(c))>>

(* Mutant: the price is not part of the key.                               *)
Mut_agentKey(c, item) == <<c, item.domain, 0>>

agentKey(c, item) == <<c, item.domain, item.price>>

agentPay(c) == ~Waiting(c) /\ Post(c, agentKey(c, Head(plan[c])))
sdkPay(c) == ~Waiting(c) /\ Post(c, <<c, "own", Len(plan[c])>>)
terminalPay(c) == ~Waiting(c) /\ Post(c, Fresh(c))

(* The server of the tools serves calls side by side; of the desktop       *)
(* wallet the button waits for the answer, the Enter key does not.         *)
toolPay(c) == Post(c, Fresh(c))
desktopPay(c) == Post(c, Fresh(c))

Close(n) == [calls EXCEPT ![n].open = FALSE]
Advance(c, n) ==
  plan' = [plan EXCEPT ![c] = IF Len(@) = calls[n].left THEN Tail(@) ELSE @]

Counted(r, status) ==
  CASE status \in Settled -> [r EXCEPT !.settled = @ + 1]
    [] status = "HELD"    -> [r EXCEPT !.held = @ + 1]
    [] OTHER              -> [r EXCEPT !.reverted = @ + 1]

(* The answer arrives and the purchase is done with.                       *)
receive(n) ==
  LET c == calls[n].by
  IN  /\ calls[n].open /\ calls[n].at = "answered"
      /\ report' = [report EXCEPT ![c] = Counted(@, calls[n].status)]
      /\ calls' = Close(n)
      /\ Advance(c, n)
      /\ UNCHANGED <<rows, decisions, live, restarts>>

(* Mutant: an error ends the agent's run.                                  *)
Mut_agentError(n) ==
  /\ calls[n].open /\ calls[n].by \in Agents
  /\ calls' = Close(n)
  /\ plan' = [plan EXCEPT ![calls[n].by] = <<>>]
  /\ UNCHANGED <<rows, decisions, report, live, restarts>>

(* An error reply or a broken connection: the agent goes on with the next. *)
agentError(n) ==
  /\ calls[n].open /\ calls[n].by \in Agents
  /\ calls' = Close(n)
  /\ Advance(calls[n].by, n)
  /\ UNCHANGED <<rows, decisions, report, live, restarts>>

(* The others may try the same purchase again.                             *)
otherError(n) ==
  /\ calls[n].open /\ calls[n].by \notin Agents
  /\ calls' = Close(n)
  /\ UNCHANGED <<plan, rows, decisions, report, live, restarts>>
-----------------------------------------------------------------------------
(* The backend: the guard, the insert that the unique key admits once, the *)
(* verdict, the answer read back from the row.                             *)

At(n, place) == calls[n].at = place
Goto(n, place) == calls' = [calls EXCEPT ![n].at = place]

(* Mutant: a revoked key still opens.                                      *)
Mut_authenticate(n) ==
  /\ At(n, "sent")
  /\ Goto(n, "checked")
  /\ UNCHANGED <<plan, rows, decisions, report, live, restarts>>

authenticate(n) ==
  /\ At(n, "sent")
  /\ Goto(n, IF live THEN "checked" ELSE "stopped")
  /\ UNCHANGED <<plan, rows, decisions, report, live, restarts>>

Named(key) == {r \in rows : r.key = key}

(* A row remembers, for the properties, whether it ever said paid.         *)
NewRow(n) == [id |-> n, key |-> calls[n].key, status |-> "CREATED", paid |-> FALSE]

(* Mutant: the key is not unique.                                          *)
Mut_insert(n) ==
  /\ At(n, "checked")
  /\ rows' = rows \cup {NewRow(n)}
  /\ Goto(n, "deciding")
  /\ UNCHANGED <<plan, decisions, report, live, restarts>>

insert(n) ==
  /\ At(n, "checked")
  /\ IF Named(calls[n].key) = {}
     THEN /\ rows' = rows \cup {NewRow(n)}
          /\ Goto(n, "deciding")
     ELSE UNCHANGED rows /\ Goto(n, "answer")
  /\ UNCHANGED <<plan, decisions, report, live, restarts>>

SetStatus(r, status) ==
  rows' = (rows \ {r}) \cup
            {[r EXCEPT !.status = status, !.paid = @ \/ status \in Settled]}

execute(n) ==
  /\ At(n, "deciding")
  /\ \E r \in rows, verdict \in Verdicts : r.id = n /\ SetStatus(r, verdict)
  /\ Goto(n, "answer")
  /\ UNCHANGED <<plan, decisions, report, live, restarts>>

answer(n) ==
  /\ At(n, "answer")
  /\ \E r \in Named(calls[n].key) :
       calls' = [calls EXCEPT ![n].at = "answered", ![n].status = r.status]
  /\ UNCHANGED <<plan, rows, decisions, report, live, restarts>>

(* Mutant: the status of the payment is not tested.                        *)
Mut_ownerBegins(d) ==
  /\ decisions[d] = NoDecision
  /\ \E r \in rows, op \in {"approve", "deny"} :
       decisions' = [decisions EXCEPT ![d] = [row |-> r.id, op |-> op]]
  /\ UNCHANGED <<plan, calls, rows, report, live, restarts>>

(* approveHeld and denyHeld find the payment held ...                      *)
ownerBegins(d) ==
  /\ decisions[d] = NoDecision
  /\ \E r \in rows, op \in {"approve", "deny"} :
       /\ r.status = "HELD"
       /\ decisions' = [decisions EXCEPT ![d] = [row |-> r.id, op |-> op]]
  /\ UNCHANGED <<plan, calls, rows, report, live, restarts>>

OutcomesOf(op) == IF op = "deny" THEN {"DENIED"} ELSE Outcomes \ {"DENIED"}

(* ... and some awaits later write their outcome, whatever the row says by *)
(* then, or fail and write none.                                           *)
ownerEnds(d) ==
  /\ decisions[d] # NoDecision
  /\ \/ \E r \in rows, status \in OutcomesOf(decisions[d].op) :
          r.id = decisions[d].row /\ SetStatus(r, status)
     \/ UNCHANGED rows
  /\ decisions' = [decisions EXCEPT ![d] = NoDecision]
  /\ UNCHANGED <<plan, calls, report, live, restarts>>

revoke ==
  /\ live /\ live' = FALSE
  /\ UNCHANGED <<plan, calls, rows, decisions, report, restarts>>

restart ==
  /\ restarts < MaxRestarts
  /\ restarts' = restarts + 1
  /\ calls' = [n \in DOMAIN calls |->
                 IF calls[n].at \in {"checked", "deciding", "answer"}
                 THEN [calls[n] EXCEPT !.at = "stopped"] ELSE calls[n]]
  /\ decisions' = [d \in Decisions |-> NoDecision]
  /\ UNCHANGED <<plan, rows, report, live>>

Serve(n) == authenticate(n) \/ insert(n) \/ execute(n) \/ answer(n)

AgentStep(c) ==
  \/ agentPlan(c) \/ agentQuit(c) \/ agentPay(c)
  \/ \E n \in CallsOf(c) : receive(n) \/ agentError(n)

Next ==
  \/ \E c \in Agents : AgentStep(c)
  \/ \E c \in Callers \ Agents : want(c)
  \/ \E c \in Shoppers : sdkPay(c)
  \/ \E c \in Tools : toolPay(c)
  \/ \E c \in Terminals : terminalPay(c)
  \/ \E c \in Desktops : desktopPay(c)
  \/ \E n \in DOMAIN calls : Serve(n) \/ otherError(n)
  \/ \E c \in Callers \ Agents : \E n \in CallsOf(c) : receive(n)
  \/ \E d \in Decisions : ownerBegins(d) \/ ownerEnds(d)
  \/ revoke \/ restart

Spec == Init /\ [][Next]_vars

(* An agent's run is a program that goes on, and a broken call ends in an  *)
(* error; the backend is not assumed to answer.                            *)
FairSpec == Spec /\ \A c \in Agents : WF_vars(AgentStep(c))

-----------------------------------------------------------------------------
RowsOf(c) == {r \in rows : calls[r.id].by = c}
Paid(c) == {r \in RowsOf(c) : r.paid}

(* A purchase that its caller names is paid at most once, however often    *)
(* the call is repeated, its answer lost or the backend restarted.         *)
NamedPurchasePaidOnce ==
  \A c \in Agents \cup Shoppers : \A r1, r2 \in Paid(c) :
    calls[r1.id].left = calls[r2.id].left => r1 = r2

(* Calls for what an earlier call of the same caller already was for.      *)
Repeats(c) ==
  {n \in CallsOf(c) : \E m \in CallsOf(c) :
     /\ m < n
     /\ calls[m].item.domain = calls[n].item.domain
     /\ calls[m].item.price = calls[n].item.price}

(* What an agent reports as settled was paid, each for a row of its own;   *)
(* only a purchase its plan repeats is counted again and not paid again.   *)
ReportIsPaid ==
  \A c \in Agents :
    report[c].settled <= Cardinality(Paid(c)) + Cardinality(Repeats(c))

(* A call made after the owner revoked the key creates no payment.         *)
RevokedCreatesNothing == \A r \in rows : ~calls[r.id].late

(* A final verdict a caller was told stays what the ledger says, unless a  *)
(* decision on the payment was still under way.  What the creation settled *)
(* no decision touches.                                                    *)
UnderWay(id) == \E d \in Decisions : decisions[d] # NoDecision /\ decisions[d].row = id

Standing(n) ==
  /\ calls[n].status \in Final
  /\ \E r \in Named(calls[n].key) :
       /\ r.status = calls[n].status
       /\ r.status = "SETTLED" \/ ~UnderWay(r.id)

ToldVerdictStands == [][\A n \in DOMAIN calls : Standing(n) => Standing(n)']_vars

(* One purchase that fails, or an answer that never comes, does not keep   *)
(* an agent that has a plan from trying each purchase of it.               *)
AgentWorksThrough ==
  \A c \in Agents : \A k \in 1 .. MaxCalls :
    (plan[c] # Unplanned /\ Len(plan[c]) >= k)
      ~> (\E n \in CallsOf(c) : calls[n].left = k /\ ~calls[n].open)
=============================================================================
