------------------------------ MODULE Indexer ------------------------------
(***************************************************************************)
(* IndexerService (src/backend/src/indexer/indexer.service.ts): it matches *)
(* the PaymentSettled events of the chain with the payment rows of the     *)
(* database, by context hash.  Two paths bring an event: the log           *)
(* subscription, which may miss any of them, and the poller, which reads   *)
(* the signatures after a stored cursor every 20 seconds, whether or not   *)
(* the previous poll has ended.  Polls, notifications and the payment      *)
(* requests that write the same rows interleave at every `await`.          *)
(*                                                                         *)
(* The requests are reduced to what the indexer meets: a row is created,   *)
(* its transaction lands, and the outcome is written to the row.  A        *)
(* transaction has the name of the row that submitted it; the others       *)
(* (Others) are sent to the program without the backend.                   *)
(***************************************************************************)
EXTENDS Naturals, Sequences, FiniteSets

CONSTANTS
  Rows,          \* payment rows, and the transactions they submit
  Others,        \* transactions the backend did not submit
  NoTx,          \* null
  Contexts,      \* the context hashes each transaction may have: functions
  Pollers,       \* polls that can be under way at the same time
  PageLimit,     \* signatures in a page of getSignaturesForAddress (100)
  MissingReads,  \* getTransaction can return null for a listed signature
  MaxFaults      \* bound on failed reads and restarts

Txs == Rows \cup Others

ASSUME NamesAssumption == Rows \cap Others = {} /\ NoTx \notin Txs
ASSUME IndexerAssumption ==
  /\ IsFiniteSet(Rows) /\ \A f \in Contexts : DOMAIN f = Txs
  /\ PageLimit \in Nat \ {0} /\ MaxFaults \in Nat /\ MissingReads \in BOOLEAN

VARIABLES
  log,        \* the program's transactions, in the order they landed
  rows,       \* rows[r]: what the indexer and the requests write
  createdAt,  \* createdAt[r]: the rank of the row's insertion, 0 before it
  recorded,   \* rows whose request has written its outcome
  cursor,     \* IndexerCursor.lastSignature: a position in the log, 0 if none
  pollers,    \* pollers[p]: where poll p is
  notices,    \* notices[t]: where the notification of transaction t is
  contextOf,  \* the context hash of each transaction: it never changes
  faults,     \* failed reads and restarts so far
  overlooked  \* history: payments a poll passed over unread (no code state)

vars == <<log, rows, createdAt, recorded, cursor, pollers, notices, contextOf, faults,
          overlooked>>

Entries == [tx : Txs, ok : BOOLEAN]

Slots == 0 .. Len(log)

(* A row is matched, then updated from what the match returned.            *)
Job(pc, at, last) ==
  [pc |-> pc, at |-> at, last |-> last, match |-> NoTx, signature |-> NoTx]

Blank == Job("idle", 0, 0)

Jobs ==
  [pc : {"idle", "list", "fetch", "update", "cursor", "find"},
   at : Slots, last : Slots, match : Rows \cup {NoTx}, signature : Txs \cup {NoTx}]

IndexerTypeOK ==
  /\ log \in Seq(Entries)
  /\ rows \in [Rows -> [signature : Txs \cup {NoTx}, slot : Slots, confirmed : BOOLEAN]]
  /\ createdAt \in [Rows -> Nat]
  /\ recorded \in SUBSET Rows
  /\ cursor \in Slots
  /\ pollers \in [Pollers -> Jobs]
  /\ notices \in [Txs -> Jobs]
  /\ contextOf \in Contexts
  /\ faults \in Nat
  /\ overlooked \subseteq DOMAIN log

Init ==
  /\ log = <<>>
  /\ rows = [r \in Rows |-> [signature |-> NoTx, slot |-> 0, confirmed |-> FALSE]]
  /\ createdAt = [r \in Rows |-> 0]
  /\ recorded = {}
  /\ cursor = 0
  /\ pollers = [p \in Pollers |-> Blank]
  /\ notices = [t \in Txs |-> Blank]
  /\ contextOf \in Contexts
  /\ faults = 0
  /\ overlooked = {}

Created(r) == createdAt[r] > 0
Landed(t) == \E i \in DOMAIN log : log[i].tx = t
SettledAt(i) == log[i].ok

-----------------------------------------------------------------------------
(* Payment requests and the chain.                                         *)

createRow(r) ==
  /\ ~Created(r)
  /\ createdAt' = [createdAt EXCEPT ![r] = 1 + Cardinality({s \in Rows : Created(s)})]
  /\ UNCHANGED <<contextOf, log, rows, recorded, cursor, pollers, notices, faults, overlooked>>

(* A transaction lands once, successful or not.  The subscription notifies *)
(* the indexer of a successful one, or is down and does not.               *)
land(t, ok) ==
  /\ ~Landed(t)
  /\ t \in Rows => Created(t)
  /\ log' = Append(log, [tx |-> t, ok |-> ok])
  /\ \/ ok /\ notices' = [notices EXCEPT ![t] = Job("find", Len(log) + 1, 0)]
     \/ UNCHANGED notices
  /\ UNCHANGED <<contextOf, rows, createdAt, recorded, cursor, pollers, faults, overlooked>>

(* The request writes its outcome, perhaps before the transaction lands:   *)
(* the signature, null when the reply to the submission was lost, and if   *)
(* it was confirmed a slot: the transaction's, or, when its details cannot *)
(* be read yet, the later one of the confirmation.                         *)
record(r) ==
  /\ Created(r) /\ r \notin recorded
  /\ recorded' = recorded \cup {r}
  /\ \/ rows' = [rows EXCEPT ![r].signature = NoTx]
     \/ rows' = [rows EXCEPT ![r].signature = r]
     \/ \E i, slot \in DOMAIN log :
          /\ log[i].tx = r /\ i <= slot
          /\ rows' = [rows EXCEPT ![r].signature = r, ![r].slot = slot]
  /\ UNCHANGED <<contextOf, log, createdAt, cursor, pollers, notices, faults, overlooked>>

-----------------------------------------------------------------------------
(* ingest: findFirst, then update, with an await between them.             *)

(* Mutant: the newest row that still waits, whatever its context.          *)
Mut_Matching(t) ==
  {r \in Rows : /\ Created(r) /\ ~rows[r].confirmed
                /\ \A s \in Rows : Created(s) /\ ~rows[s].confirmed
                                     => createdAt[s] <= createdAt[r]}

(* The newest row with the event's context hash, if there is one.          *)
Matching(t) ==
  {r \in Rows : /\ Created(r) /\ contextOf[r] = contextOf[t]
                /\ \A s \in Rows : Created(s) /\ contextOf[s] = contextOf[t]
                                     => createdAt[s] <= createdAt[r]}

(* The job that ingests log[job.at], once its findFirst has returned r.    *)
Found(job, r) ==
  [job EXCEPT !.pc = "update", !.match = r, !.signature = rows[r].signature]

Update(job) ==
  rows' = [rows EXCEPT ![job.match] =
             [signature |-> IF job.signature # NoTx THEN job.signature ELSE log[job.at].tx,
              slot |-> job.at, confirmed |-> TRUE]]

noticeFind(t) ==
  /\ notices[t].pc = "find"
  /\ \/ \E r \in Matching(t) : notices' = [notices EXCEPT ![t] = Found(@, r)]
     \/ Matching(t) = {} /\ notices' = [notices EXCEPT ![t] = Blank]
  /\ UNCHANGED <<contextOf, log, rows, createdAt, recorded, cursor, pollers, faults, overlooked>>

noticeUpdate(t) ==
  /\ notices[t].pc = "update"
  /\ Update(notices[t])
  /\ notices' = [notices EXCEPT ![t] = Blank]
  /\ UNCHANGED <<contextOf, log, createdAt, recorded, cursor, pollers, faults, overlooked>>

-----------------------------------------------------------------------------
(* pollSignatures.                                                         *)

(* The cursor is read when a poll starts and kept in `at`.                 *)
pollStart(p) ==
  /\ pollers[p].pc = "idle"
  /\ pollers' = [pollers EXCEPT ![p].pc = "list", ![p].at = cursor]
  /\ UNCHANGED <<contextOf, log, rows, createdAt, recorded, cursor, notices, faults, overlooked>>

(* Mutant: the oldest entry after the cursor is left out.                  *)
Mut_PageStart(from) == IF Len(log) > from THEN from + 1 ELSE from

(* The page holds the newest PageLimit entries after the cursor, and the   *)
(* older ones are passed over.  The poll goes through it from the oldest,  *)
(* and ends if it is empty.                                                *)
PageStart(from) == IF Len(log) > from + PageLimit THEN Len(log) - PageLimit ELSE from

(* The payments that a poll misses by not reading these entries.           *)
Unread(entries) == {i \in entries : SettledAt(i) /\ log[i].tx \in Rows}

pollList(p) ==
  /\ pollers[p].pc = "list"
  /\ pollers' = [pollers EXCEPT ![p] =
       IF pollers[p].at = Len(log) THEN Blank
       ELSE Job("fetch", PageStart(pollers[p].at) + 1, Len(log))]
  /\ overlooked' = overlooked \cup Unread((pollers[p].at + 1) .. PageStart(pollers[p].at))
  /\ UNCHANGED <<contextOf, log, rows, createdAt, recorded, cursor, notices, faults>>

(* On to the next entry of the page, or to the cursor after the last one.  *)
Advance(job) ==
  IF job.at = job.last THEN Job("cursor", 0, job.last)
  ELSE Job("fetch", job.at + 1, job.last)

(* A failed transaction is skipped, and so is one whose read gives null.   *)
pollSkip(p) ==
  /\ pollers[p].pc = "fetch"
  /\ \/ ~SettledAt(pollers[p].at) /\ UNCHANGED overlooked
     \/ MissingReads /\ overlooked' = overlooked \cup Unread({pollers[p].at})
  /\ pollers' = [pollers EXCEPT ![p] = Advance(@)]
  /\ UNCHANGED <<contextOf, log, rows, createdAt, recorded, cursor, notices, faults>>

(* A transaction never changes: it is read together with the row.          *)
pollFetch(p) ==
  /\ pollers[p].pc = "fetch"
  /\ SettledAt(pollers[p].at)
  /\ LET found == Matching(log[pollers[p].at].tx)
     IN  \/ \E r \in found : pollers' = [pollers EXCEPT ![p] = Found(@, r)]
         \/ found = {} /\ pollers' = [pollers EXCEPT ![p] = Advance(@)]
  /\ UNCHANGED <<contextOf, log, rows, createdAt, recorded, cursor, notices, faults, overlooked>>

pollUpdate(p) ==
  /\ pollers[p].pc = "update"
  /\ Update(pollers[p])
  /\ pollers' = [pollers EXCEPT ![p] = Advance(@)]
  /\ UNCHANGED <<contextOf, log, createdAt, recorded, cursor, notices, faults, overlooked>>

(* Mutant: the cursor is moved to the newest transaction of the program.   *)
Mut_pollCursor(p) ==
  /\ pollers[p].pc = "cursor"
  /\ cursor' = Len(log)
  /\ pollers' = [pollers EXCEPT ![p] = Blank]
  /\ UNCHANGED <<contextOf, log, rows, createdAt, recorded, notices, faults, overlooked>>

(* The newest entry of the page, even if another poll is already past it.  *)
pollCursor(p) ==
  /\ pollers[p].pc = "cursor"
  /\ cursor' = pollers[p].last
  /\ pollers' = [pollers EXCEPT ![p] = Blank]
  /\ UNCHANGED <<contextOf, log, rows, createdAt, recorded, notices, faults, overlooked>>

(* Mutant: the cursor is moved also by a poll that failed.                 *)
Mut_pollError(p) ==
  /\ faults < MaxFaults
  /\ pollers[p].pc # "idle"
  /\ faults' = faults + 1
  /\ pollers' = [pollers EXCEPT ![p] = Blank]
  /\ cursor' = IF pollers[p].last > cursor THEN pollers[p].last ELSE cursor
  /\ UNCHANGED <<contextOf, log, rows, createdAt, recorded, notices, overlooked>>

(* A read or a write fails: the poll ends and the cursor stays.            *)
pollError(p) ==
  /\ faults < MaxFaults
  /\ pollers[p].pc # "idle"
  /\ faults' = faults + 1
  /\ pollers' = [pollers EXCEPT ![p] = Blank]
  /\ UNCHANGED <<contextOf, log, rows, createdAt, recorded, cursor, notices, overlooked>>

(* The process restarts: notifications and polls under way are gone.       *)
restart ==
  /\ faults < MaxFaults
  /\ faults' = faults + 1
  /\ pollers' = [p \in Pollers |-> Blank]
  /\ notices' = [t \in Txs |-> Blank]
  /\ UNCHANGED <<contextOf, log, rows, createdAt, recorded, cursor, overlooked>>

-----------------------------------------------------------------------------
PollStep(p) ==
  \/ pollStart(p) \/ pollList(p) \/ pollSkip(p) \/ pollFetch(p)
  \/ pollUpdate(p) \/ pollCursor(p) \/ pollError(p)

Next ==
  \/ \E r \in Rows : createRow(r)
  \/ \E t \in Txs, ok \in BOOLEAN : land(t, ok)
  \/ \E r \in Rows : record(r)
  \/ \E t \in Txs : noticeFind(t) \/ noticeUpdate(t)
  \/ \E p \in Pollers : PollStep(p)
  \/ restart

(* The interval timer starts a poll again and again, and a poll whose read *)
(* is answered continues.  Nothing is assumed of the subscription.         *)
Spec == Init /\ [][Next]_vars /\ \A p \in Pollers : WF_vars(PollStep(p))

-----------------------------------------------------------------------------
(* schema.prisma:127 says of onchainConfirmed: "indexer matched the        *)
(* event".  Rows of repeated purchases share a context hash, and all the   *)
(* code looks for is the hash: a row is confirmed by a settled payment of  *)
(* its context, and its signature is one of that context.  A row that is   *)
(* alone with its context is confirmed by its own payment, at the slot of  *)
(* the row or before, whatever order notifications, overlapping polls and  *)
(* the request's own update of the row come in.                            *)
SameContext(t, u) == contextOf[t] = contextOf[u]

Alone(r) == \A t \in Txs : SameContext(t, r) => t = r

ConfirmedByItsContext ==
  \A r \in Rows :
    rows[r].confirmed =>
      /\ \E i \in DOMAIN log :
           /\ SettledAt(i) /\ SameContext(log[i].tx, r)
           /\ Alone(r) => i <= rows[r].slot
      /\ rows[r].signature # NoTx => SameContext(rows[r].signature, r)

(* Behind the cursor nothing is left to do: no later poll lists those      *)
(* transactions again, so every settled one of a row must have confirmed   *)
(* a row with its context, unless a poll passed it over unread, because    *)
(* its page was full or the read gave null.  Polls that overlap, fail      *)
(* midway and move the cursor back lose nothing else.                      *)
ContextConfirmed(t) == \E r \in Rows : SameContext(r, t) /\ rows[r].confirmed

BehindCursorConfirmed ==
  \A i \in 1 .. cursor :
    SettledAt(i) /\ log[i].tx \in Rows /\ i \notin overlooked
      => ContextConfirmed(log[i].tx)

(* Every settled payment that no poll passes over unread is confirmed in   *)
(* the end, with a subscription that misses everything, failing reads and  *)
(* restarts.                                                               *)
EventuallyConfirmed ==
  \A r \in Rows :
    (\E i \in DOMAIN log : log[i].tx = r /\ SettledAt(i)) ~>
      \/ ContextConfirmed(r)
      \/ \E i \in overlooked : log[i].tx = r
=============================================================================
