--------------------------- MODULE IndexerProofs ---------------------------
(***************************************************************************)
(* Proofs about Indexer, for any rows, context hashes, polls and page      *)
(* limit, with or without missing reads: its types, that only a settled    *)
(* payment of its context confirms a row, and that the poller leaves       *)
(* nothing behind its cursor but what it passed over unread.               *)
(***************************************************************************)
EXTENDS Indexer, FiniteSetTheorems, SequenceTheorems, WellFoundedInduction, TLAPS

(* Where a job may be: its entry is in the log, a settled one for a        *)
(* notification, and not past the end of its page for a poll.              *)
InLog(i) == i \in DOMAIN log /\ log[i].ok

JobsInv ==
  /\ \A p \in Pollers :
       /\ pollers[p].pc \in {"idle", "list", "fetch", "update", "cursor"}
       /\ pollers[p].pc \in {"fetch", "update"}
            => pollers[p].at \in DOMAIN log /\ pollers[p].at <= pollers[p].last
       /\ pollers[p].pc = "update" => pollers[p].match \in Rows
  /\ \A t \in Txs :
       /\ notices[t].pc \in {"find", "update"}
            => InLog(notices[t].at) /\ log[notices[t].at].tx = t
       /\ notices[t].pc = "update" => notices[t].match \in Rows

(* Nothing else is needed for the types.                                   *)
TypeInv == IndexerTypeOK /\ JobsInv

(* A job waits to write a row of its entry's context, and the rows hold    *)
(* nothing of another's.  That the request's own update of a confirmed row *)
(* keeps its slot right needs that a transaction lands once.               *)
OwnJob(job) ==
  /\ InLog(job.at) /\ job.match \in Rows /\ SameContext(log[job.at].tx, job.match)
  /\ job.signature # NoTx => SameContext(job.signature, job.match)

OwnSignatures ==
  \A r \in Rows : rows[r].signature # NoTx => SameContext(rows[r].signature, r)

Confirmation(r, i) ==
  /\ SettledAt(i) /\ SameContext(log[i].tx, r)
  /\ Alone(r) => i <= rows[r].slot

LandsOnce == \A i, j \in DOMAIN log : log[i].tx = log[j].tx => i = j

OwnInv ==
  /\ \A p \in Pollers : pollers[p].pc = "update" => OwnJob(pollers[p])
  /\ \A t \in Txs : notices[t].pc = "update" => OwnJob(notices[t])
  /\ OwnSignatures
  /\ LandsOnce
  /\ \A r \in Rows : rows[r].confirmed => \E i \in DOMAIN log : Confirmation(r, i)

(* The log only grows: what is at a position stays there.                  *)
LEMMA LogGrows ==
  ASSUME IndexerTypeOK, NEW t \in Txs, NEW ok \in BOOLEAN,
         log' = Append(log, [tx |-> t, ok |-> ok])
  PROVE  /\ log' \in Seq(Entries) /\ Len(log') = Len(log) + 1 /\ Len(log) \in Nat
         /\ \A i \in DOMAIN log : i \in DOMAIN log' /\ log'[i] = log[i]
         /\ Len(log) + 1 \in DOMAIN log' /\ log'[Len(log) + 1] = [tx |-> t, ok |-> ok]
         /\ Slots \subseteq Slots' /\ Jobs \subseteq Jobs'
<1>1. log \in Seq(Entries) /\ [tx |-> t, ok |-> ok] \in Entries
  BY DEF IndexerTypeOK, Entries
<1>2. /\ log' \in Seq(Entries) /\ Len(log') = Len(log) + 1 /\ Len(log) \in Nat
      /\ \A i \in 1 .. Len(log) : log'[i] = log[i]
      /\ log'[Len(log) + 1] = [tx |-> t, ok |-> ok]
  BY <1>1
<1>3. DOMAIN log = 1 .. Len(log) /\ DOMAIN log' = 1 .. Len(log')
  BY <1>1, <1>2
<1>4. Slots \subseteq Slots'
  BY <1>2 DEF Slots
<1>5. Jobs \subseteq Jobs'
  BY <1>4 DEF Jobs
<1> QED
  BY <1>2, <1>3, <1>4, <1>5

(* A blank job is a job.                                                   *)
LEMMA BlankIsJob == ASSUME IndexerTypeOK PROVE Blank \in Jobs
<1>1. Len(log) \in Nat
  BY DEF IndexerTypeOK
<1> QED
  BY <1>1 DEF Blank, Job, Jobs, Slots

(* Moving a poll to the next entry of its page, or to the cursor.          *)
LEMMA AdvanceKeeps ==
  ASSUME IndexerTypeOK, NEW job \in Jobs, job.at \in DOMAIN log, job.at <= job.last
  PROVE  /\ Advance(job) \in Jobs /\ Advance(job).pc \in {"fetch", "cursor"}
         /\ Advance(job).pc = "fetch" => /\ Advance(job).at \in DOMAIN log
                                         /\ Advance(job).at <= Advance(job).last
<1>1. /\ Len(log) \in Nat /\ DOMAIN log = 1 .. Len(log)
      /\ job.at \in 1 .. Len(log) /\ job.last \in 0 .. Len(log)
  BY DEF IndexerTypeOK, Jobs, Slots
<1>2. CASE job.at = job.last
  <2>1. Advance(job) = Job("cursor", 0, job.last)
    BY <1>2 DEF Advance
  <2> QED
    BY <1>1, <2>1 DEF Job, Jobs, Slots
<1>3. CASE job.at # job.last
  <2>1. job.at + 1 \in 1 .. Len(log) /\ job.at + 1 <= job.last
    BY <1>1, <1>3
  <2>2. Advance(job) = Job("fetch", job.at + 1, job.last)
    BY <1>3 DEF Advance
  <2> QED
    BY <1>1, <2>1, <2>2 DEF Job, Jobs, Slots
<1> QED
  BY <1>2, <1>3

(* A job that found row r is a job that will write r.                      *)
LEMMA FoundKeeps ==
  ASSUME IndexerTypeOK, NEW job \in Jobs, NEW r \in Rows
  PROVE  /\ Found(job, r) \in Jobs /\ Found(job, r).pc = "update"
         /\ Found(job, r).at = job.at /\ Found(job, r).last = job.last
         /\ Found(job, r).match = r /\ Found(job, r).signature = rows[r].signature
BY DEF IndexerTypeOK, Jobs, Found

(* Writing a row keeps the rows well typed.                                *)
LEMMA UpdateKeeps ==
  ASSUME IndexerTypeOK, NEW job \in Jobs, job.match \in Rows, job.at \in DOMAIN log, Update(job)
  PROVE  /\ rows' \in [Rows -> [signature : Txs \cup {NoTx}, slot : Slots, confirmed : BOOLEAN]]
         /\ rows'[job.match].slot = job.at /\ rows'[job.match].confirmed
         /\ rows'[job.match].signature
              = IF job.signature # NoTx THEN job.signature ELSE log[job.at].tx
         /\ \A r \in Rows : r # job.match => rows'[r] = rows[r]
<1>1. log[job.at].tx \in Txs /\ job.at \in Slots /\ job.signature \in Txs \cup {NoTx}
  <2>1. log[job.at] \in Entries
    BY DEF IndexerTypeOK
  <2> QED
    BY <2>1 DEF Entries, Jobs
<1> QED
  BY <1>1 DEF IndexerTypeOK, Update
-----------------------------------------------------------------------------
(* Types.                                                                  *)

LEMMA TypeInit == Init => TypeInv
<1> SUFFICES ASSUME Init PROVE TypeInv
  OBVIOUS
<1>1. log \in Seq(Entries) /\ Len(log) = 0 /\ Slots = {0}
  BY DEF Init, Slots
<1>2. Blank \in Jobs /\ Blank.pc = "idle"
  BY <1>1 DEF Blank, Job, Jobs
<1> QED
  BY <1>1, <1>2 DEF Init, TypeInv, IndexerTypeOK, JobsInv

(* Steps that only move one poll.                                          *)
LEMMA PollMove ==
  ASSUME TypeInv, NEW p \in Pollers, NEW job \in Jobs,
         job.pc \in {"idle", "list", "fetch", "update", "cursor"},
         job.pc \in {"fetch", "update"} => job.at \in DOMAIN log /\ job.at <= job.last,
         job.pc = "update" => job.match \in Rows,
         pollers' = [pollers EXCEPT ![p] = job],
         UNCHANGED <<log, notices>>
  PROVE  pollers' \in [Pollers -> Jobs]' /\ JobsInv'
<1>1. Jobs' = Jobs
  BY DEF Jobs, Slots
<1>2. pollers \in [Pollers -> Jobs] /\ pollers' \in [Pollers -> Jobs]'
  BY <1>1 DEF TypeInv, IndexerTypeOK
<1>3. pollers'[p] = job /\ \A q \in Pollers : q # p => pollers'[q] = pollers[q]
  BY <1>2
<1> QED
  BY <1>2, <1>3 DEF TypeInv, JobsInv, InLog

(* Steps that only move one notification.                                  *)
LEMMA NoticeMove ==
  ASSUME TypeInv, NEW t \in Txs, NEW job \in Jobs,
         job.pc \in {"find", "update"} => InLog(job.at) /\ log[job.at].tx = t,
         job.pc = "update" => job.match \in Rows,
         notices' = [notices EXCEPT ![t] = job],
         UNCHANGED <<log, pollers>>
  PROVE  notices' \in [Txs -> Jobs]' /\ JobsInv'
<1>1. Jobs' = Jobs
  BY DEF Jobs, Slots
<1>2. notices \in [Txs -> Jobs] /\ notices' \in [Txs -> Jobs]'
  BY <1>1 DEF TypeInv, IndexerTypeOK
<1>3. notices'[t] = job /\ \A u \in Txs : u # t => notices'[u] = notices[u]
  BY <1>2
<1> QED
  BY <1>2, <1>3 DEF TypeInv, JobsInv, InLog

LEMMA TypeNext == TypeInv /\ [Next]_vars => TypeInv'
<1> SUFFICES ASSUME TypeInv, [Next]_vars PROVE TypeInv'
  OBVIOUS
<1> USE DEF TypeInv
<1>0. /\ Len(log) \in Nat /\ DOMAIN log = 1 .. Len(log)
      /\ pollers \in [Pollers -> Jobs] /\ notices \in [Txs -> Jobs]
  BY DEF IndexerTypeOK
<1>1. ASSUME NEW r \in Rows, createRow(r) PROVE TypeInv'
  <2>1. 1 + Cardinality({s \in Rows : Created(s)}) \in Nat
    <3>1. IsFiniteSet({s \in Rows : Created(s)})
      BY IndexerAssumption, FS_Subset
    <3> QED
      BY <3>1, FS_CardinalityType
  <2>2. createdAt' \in [Rows -> Nat]
    BY <1>1, <2>1 DEF createRow, IndexerTypeOK
  <2> QED
    BY <1>1, <2>2 DEF createRow, IndexerTypeOK, JobsInv, InLog, Slots, Jobs
<1>2. ASSUME NEW t \in Txs, NEW ok \in BOOLEAN, land(t, ok) PROVE TypeInv'
  <2>1. /\ log' \in Seq(Entries) /\ Len(log') = Len(log) + 1
        /\ \A i \in DOMAIN log : i \in DOMAIN log' /\ log'[i] = log[i]
        /\ Len(log) + 1 \in DOMAIN log' /\ log'[Len(log) + 1] = [tx |-> t, ok |-> ok]
        /\ Slots \subseteq Slots' /\ Jobs \subseteq Jobs'
    BY <1>2, LogGrows DEF land
  <2> DEFINE job == Job("find", Len(log) + 1, 0)
  <2>2. job \in Jobs' /\ job.pc = "find" /\ job.at = Len(log) + 1
    BY <1>0, <2>1 DEF Job, Jobs, Slots
  <2> HIDE DEF job
  <2>0. \/ ok /\ notices' = [notices EXCEPT ![t] = job]
        \/ notices' = notices
    BY <1>2 DEF land, job
  <2>3. notices' \in [Txs -> Jobs]'
    BY <1>0, <2>0, <2>1, <2>2
  <2>4. ASSUME NEW u \in Txs
        PROVE  notices'[u] = notices[u] \/ (u = t /\ ok /\ notices'[u] = job)
    <3>1. CASE notices' = notices
      BY <3>1
    <3>2. CASE ok /\ notices' = [notices EXCEPT ![t] = job]
      BY <1>0, <3>2
    <3> QED
      BY <2>0, <3>1, <3>2
  <2>5. JobsInv'
    <3>1. ASSUME NEW p \in Pollers
          PROVE  /\ pollers'[p].pc \in {"idle", "list", "fetch", "update", "cursor"}
                 /\ pollers'[p].pc \in {"fetch", "update"}
                      => pollers'[p].at \in DOMAIN log' /\ pollers'[p].at <= pollers'[p].last
                 /\ pollers'[p].pc = "update" => pollers'[p].match \in Rows
      BY <1>2, <2>1 DEF land, JobsInv
    <3>2. ASSUME NEW u \in Txs
          PROVE  /\ notices'[u].pc \in {"find", "update"}
                      => /\ notices'[u].at \in DOMAIN log' /\ log'[notices'[u].at].ok
                         /\ log'[notices'[u].at].tx = u
                 /\ notices'[u].pc = "update" => notices'[u].match \in Rows
      <4>1. CASE notices'[u] = notices[u]
        BY <2>1, <4>1 DEF JobsInv, InLog
      <4>2. CASE u = t /\ ok /\ notices'[u] = job
        <5>1. /\ notices'[u].at \in DOMAIN log' /\ log'[notices'[u].at].ok
              /\ log'[notices'[u].at].tx = u
          BY <2>1, <2>2, <4>2
        <5> QED
          BY <2>2, <4>2, <5>1
      <4> QED
        BY <2>4, <4>1, <4>2
    <3> QED
      BY <3>1, <3>2 DEF JobsInv, InLog
  <2> QED
    BY <1>2, <2>1, <2>3, <2>5 DEF land, IndexerTypeOK
<1>3. ASSUME NEW r \in Rows, record(r) PROVE TypeInv'
  <2>1. rows' \in [Rows -> [signature : Txs \cup {NoTx}, slot : Slots, confirmed : BOOLEAN]]
    <3>1. CASE rows' = [rows EXCEPT ![r].signature = NoTx]
      BY <3>1 DEF IndexerTypeOK
    <3>2. CASE rows' = [rows EXCEPT ![r].signature = r]
      BY <3>2 DEF IndexerTypeOK, Txs
    <3>3. ASSUME NEW slot \in DOMAIN log,
                 rows' = [rows EXCEPT ![r].signature = r, ![r].slot = slot]
          PROVE  rows' \in [Rows -> [signature : Txs \cup {NoTx}, slot : Slots,
                                     confirmed : BOOLEAN]]
      <4>1. slot \in Slots /\ r \in Txs
        BY <1>0 DEF Slots, Txs
      <4> QED
        BY <3>3, <4>1 DEF IndexerTypeOK
    <3> QED
      BY <1>3, <3>1, <3>2, <3>3 DEF record
  <2> QED
    BY <1>3, <2>1 DEF record, IndexerTypeOK, JobsInv, InLog, Slots, Jobs
<1>4. ASSUME NEW t \in Txs, noticeFind(t) PROVE TypeInv'
  <2>1. ASSUME NEW r \in Rows, notices' = [notices EXCEPT ![t] = Found(@, r)]
        PROVE  notices' \in [Txs -> Jobs]' /\ JobsInv'
    <3>1. /\ Found(notices[t], r) \in Jobs /\ Found(notices[t], r).at = notices[t].at
          /\ Found(notices[t], r).match = r
      BY <1>0, FoundKeeps
    <3>2. InLog(notices[t].at) /\ log[notices[t].at].tx = t
      BY <1>4 DEF noticeFind, JobsInv
    <3> QED
      BY <1>4, <2>1, <3>1, <3>2, NoticeMove DEF noticeFind
  <2>2. ASSUME notices' = [notices EXCEPT ![t] = Blank]
        PROVE  notices' \in [Txs -> Jobs]' /\ JobsInv'
    <3>1. Blank \in Jobs /\ Blank.pc = "idle"
      BY BlankIsJob DEF Blank, Job
    <3> QED
      BY <1>4, <2>2, <3>1, NoticeMove DEF noticeFind
  <2>3. notices' \in [Txs -> Jobs]' /\ JobsInv'
    BY <1>4, <2>1, <2>2 DEF noticeFind, Matching
  <2> QED
    BY <1>4, <2>3 DEF noticeFind, IndexerTypeOK, Slots, Jobs
<1>5. ASSUME NEW t \in Txs, noticeUpdate(t) PROVE TypeInv'
  <2>1. Blank \in Jobs /\ Blank.pc = "idle"
    BY BlankIsJob DEF Blank, Job
  <2>2. notices' \in [Txs -> Jobs]' /\ JobsInv'
    BY <1>5, <2>1, NoticeMove DEF noticeUpdate
  <2>3. rows' \in [Rows -> [signature : Txs \cup {NoTx}, slot : Slots, confirmed : BOOLEAN]]
    <3>1. notices[t] \in Jobs /\ notices[t].match \in Rows /\ notices[t].at \in DOMAIN log
      BY <1>0, <1>5 DEF noticeUpdate, JobsInv, InLog
    <3> QED
      BY <1>5, <3>1, UpdateKeeps DEF noticeUpdate
  <2> QED
    BY <1>5, <2>2, <2>3 DEF noticeUpdate, IndexerTypeOK, Slots, Jobs
<1>6. ASSUME NEW p \in Pollers, pollStart(p) PROVE TypeInv'
  <2> DEFINE job == [pollers[p] EXCEPT !.pc = "list", !.at = cursor]
  <2>1. job \in Jobs /\ job.pc = "list"
    BY <1>0, ZenonT(60) DEF Jobs, IndexerTypeOK
  <2>2. pollers' = [pollers EXCEPT ![p] = job]
    BY <1>6 DEF pollStart
  <2>3. pollers' \in [Pollers -> Jobs]' /\ JobsInv'
    BY <1>6, <2>1, <2>2, PollMove DEF pollStart
  <2> QED
    BY <1>6, <2>3 DEF pollStart, IndexerTypeOK, Slots, Jobs
<1>7. ASSUME NEW p \in Pollers, pollList(p) PROVE TypeInv'
  <2>0. overlooked' \subseteq DOMAIN log'
    <3>1. pollers[p].at \in 0 .. Len(log)
      BY <1>0 DEF Jobs, Slots
    <3>2. (pollers[p].at + 1) .. PageStart(pollers[p].at) \subseteq DOMAIN log
      BY <1>0, <3>1, IndexerAssumption DEF PageStart
    <3>3. UNCHANGED log /\ overlooked \subseteq DOMAIN log
      BY <1>7 DEF pollList, IndexerTypeOK
    <3>4. overlooked' = overlooked \cup Unread((pollers[p].at + 1) .. PageStart(pollers[p].at))
      BY <1>7 DEF pollList
    <3> QED
      BY <3>2, <3>3, <3>4 DEF Unread
  <2>1. CASE pollers[p].at = Len(log)
    <3>1. Blank \in Jobs /\ Blank.pc = "idle"
      BY BlankIsJob DEF Blank, Job
    <3>2. pollers' \in [Pollers -> Jobs]' /\ JobsInv'
      BY <1>7, <2>1, <3>1, PollMove DEF pollList
    <3> QED
      BY <1>7, <2>0, <3>2 DEF pollList, IndexerTypeOK, Slots, Jobs
  <2>2. CASE pollers[p].at # Len(log)
    <3> DEFINE job == Job("fetch", PageStart(pollers[p].at) + 1, Len(log))
    <3>1. pollers' = [pollers EXCEPT ![p] = job]
      BY <1>7, <2>2 DEF pollList
    <3>2. pollers[p].at \in 0 .. Len(log)
      BY <1>0 DEF Jobs, Slots
    <3>3. PageStart(pollers[p].at) + 1 \in 1 .. Len(log)
      BY <1>0, <2>2, <3>2, IndexerAssumption DEF PageStart
    <3>4. /\ job \in Jobs /\ job.pc = "fetch"
          /\ job.at \in DOMAIN log /\ job.at <= job.last
      BY <1>0, <3>3 DEF Job, Jobs, Slots
    <3> HIDE DEF job
    <3>5. pollers' \in [Pollers -> Jobs]' /\ JobsInv'
      BY <1>7, <3>1, <3>4, PollMove DEF pollList
    <3> QED
      BY <1>7, <2>0, <3>5 DEF pollList, IndexerTypeOK, Slots, Jobs
  <2> QED
    BY <2>1, <2>2
<1>8. ASSUME NEW p \in Pollers, pollers[p].pc \in {"fetch", "update"},
             pollers' = [pollers EXCEPT ![p] = Advance(@)], UNCHANGED <<log, notices>>
      PROVE  pollers' \in [Pollers -> Jobs]' /\ JobsInv'
  <2>1. pollers[p] \in Jobs /\ pollers[p].at \in DOMAIN log /\ pollers[p].at <= pollers[p].last
    BY <1>0, <1>8 DEF JobsInv
  <2>2. /\ Advance(pollers[p]) \in Jobs /\ Advance(pollers[p]).pc \in {"fetch", "cursor"}
        /\ Advance(pollers[p]).pc = "fetch" => /\ Advance(pollers[p]).at \in DOMAIN log
                                               /\ Advance(pollers[p]).at <= Advance(pollers[p]).last
    BY <2>1, AdvanceKeeps
  <2>3. pollers' = [pollers EXCEPT ![p] = Advance(pollers[p])]
    BY <1>8
  <2> QED
    BY <1>8, <2>2, <2>3, PollMove
<1>9. ASSUME NEW p \in Pollers, pollSkip(p) PROVE TypeInv'
  <2>1. pollers' \in [Pollers -> Jobs]' /\ JobsInv'
    BY <1>8, <1>9 DEF pollSkip
  <2>2. overlooked' \subseteq DOMAIN log'
    <3>1. pollers[p].at \in DOMAIN log
      BY <1>9 DEF pollSkip, JobsInv
    <3> QED
      BY <1>9, <3>1 DEF pollSkip, IndexerTypeOK, Unread
  <2> QED
    BY <1>9, <2>1, <2>2 DEF pollSkip, IndexerTypeOK, Slots, Jobs
<1>10. ASSUME NEW p \in Pollers, pollFetch(p) PROVE TypeInv'
  <2>1. ASSUME NEW r \in Rows, pollers' = [pollers EXCEPT ![p] = Found(@, r)]
        PROVE  pollers' \in [Pollers -> Jobs]' /\ JobsInv'
    <3>1. /\ Found(pollers[p], r) \in Jobs /\ Found(pollers[p], r).at = pollers[p].at
          /\ Found(pollers[p], r).match = r /\ Found(pollers[p], r).last = pollers[p].last
          /\ Found(pollers[p], r).pc = "update"
      BY <1>0, FoundKeeps
    <3>2. pollers[p].at \in DOMAIN log /\ pollers[p].at <= pollers[p].last
      BY <1>10 DEF pollFetch, JobsInv
    <3> QED
      BY <1>10, <2>1, <3>1, <3>2, PollMove DEF pollFetch
  <2>2. pollers' \in [Pollers -> Jobs]' /\ JobsInv'
    BY <1>8, <1>10, <2>1 DEF pollFetch, Matching
  <2> QED
    BY <1>10, <2>2 DEF pollFetch, IndexerTypeOK, Slots, Jobs
<1>11. ASSUME NEW p \in Pollers, pollUpdate(p) PROVE TypeInv'
  <2>1. pollers' \in [Pollers -> Jobs]' /\ JobsInv'
    BY <1>8, <1>11 DEF pollUpdate
  <2>2. rows' \in [Rows -> [signature : Txs \cup {NoTx}, slot : Slots, confirmed : BOOLEAN]]
    <3>1. pollers[p] \in Jobs /\ pollers[p].match \in Rows /\ pollers[p].at \in DOMAIN log
      BY <1>0, <1>11 DEF pollUpdate, JobsInv
    <3> QED
      BY <1>11, <3>1, UpdateKeeps DEF pollUpdate
  <2> QED
    BY <1>11, <2>1, <2>2 DEF pollUpdate, IndexerTypeOK, Slots, Jobs
<1>12. ASSUME NEW p \in Pollers, pollers' = [pollers EXCEPT ![p] = Blank],
              UNCHANGED <<log, notices>>
       PROVE  pollers' \in [Pollers -> Jobs]' /\ JobsInv'
  <2>1. Blank \in Jobs /\ Blank.pc = "idle"
    BY BlankIsJob DEF Blank, Job
  <2> QED
    BY <1>12, <2>1, PollMove
<1>13. ASSUME NEW p \in Pollers, pollCursor(p) PROVE TypeInv'
  <2>1. pollers' \in [Pollers -> Jobs]' /\ JobsInv'
    BY <1>12, <1>13 DEF pollCursor
  <2>2. cursor' \in Slots
    BY <1>0, <1>13 DEF pollCursor, Jobs
  <2> QED
    BY <1>13, <2>1, <2>2 DEF pollCursor, IndexerTypeOK, Slots, Jobs
<1>14. ASSUME NEW p \in Pollers, pollError(p) PROVE TypeInv'
  <2>1. pollers' \in [Pollers -> Jobs]' /\ JobsInv'
    BY <1>12, <1>14 DEF pollError
  <2> QED
    BY <1>14, <2>1, SMTT(40) DEF pollError, IndexerTypeOK, Slots, Jobs
<1>15. ASSUME restart PROVE TypeInv'
  <2>1. Blank \in Jobs /\ Blank.pc = "idle"
    BY BlankIsJob DEF Blank, Job
  <2> QED
    BY <1>15, <2>1 DEF restart, IndexerTypeOK, JobsInv, Slots, Jobs
<1>16. ASSUME UNCHANGED vars PROVE TypeInv'
  BY <1>16 DEF vars, IndexerTypeOK, JobsInv, InLog, Slots, Jobs
<1> QED
  BY <1>1, <1>2, <1>3, <1>4, <1>5, <1>6, <1>7, <1>9, <1>10, <1>11, <1>13, <1>14, <1>15, <1>16
  DEF Next, PollStep

(* Every field keeps its type, whatever polls, notifications and faults    *)
(* interleave; no poll or notification points outside the log.             *)
THEOREM IndexerTypes == Spec => []IndexerTypeOK
<1>1. Spec => []TypeInv
  BY TypeInit, TypeNext, PTL DEF Spec
<1>2. TypeInv => IndexerTypeOK
  BY DEF TypeInv
<1> QED
  BY <1>1, <1>2, PTL

-----------------------------------------------------------------------------
(* Own rows.                                                               *)

(* What a row's signature was, the context hashes never change.            *)
LEMMA ContextsFixed == [Next]_vars => UNCHANGED contextOf
BY DEF Next, PollStep, vars, createRow, land, record, noticeFind, noticeUpdate, pollStart,
       pollList, pollSkip, pollFetch, pollUpdate, pollCursor, pollError, restart

(* findFirst returns a row of the entry's context.                         *)
LEMMA MatchingHasContext ==
  ASSUME NEW t \in Txs, NEW r \in Matching(t)
  PROVE  r \in Rows /\ SameContext(t, r)
BY DEF Matching, SameContext

(* Jobs stay right while the log only grows and no update is started.      *)
LEMMA OwnJobsStay ==
  ASSUME OwnInv, UNCHANGED contextOf,
         \A i \in DOMAIN log : i \in DOMAIN log' /\ log'[i] = log[i],
         \A p \in Pollers : pollers'[p].pc = "update" => pollers'[p] = pollers[p],
         \A t \in Txs : notices'[t].pc = "update" => notices'[t] = notices[t]
  PROVE  /\ \A p \in Pollers : pollers'[p].pc = "update" => OwnJob(pollers[p])'
         /\ \A t \in Txs : notices'[t].pc = "update" => OwnJob(notices[t])'
BY DEF OwnInv, OwnJob, InLog, SameContext

(* A job that has found a row of its entry's context waits to write it.    *)
LEMMA OwnFound ==
  ASSUME TypeInv, OwnInv, NEW job \in Jobs, InLog(job.at),
         NEW r \in Matching(log[job.at].tx)
  PROVE  OwnJob(Found(job, r))
<1>1. log[job.at].tx \in Txs
  <2>1. log[job.at] \in Entries
    BY DEF InLog, TypeInv, IndexerTypeOK
  <2> QED
    BY <2>1 DEF Entries
<1>2. r \in Rows /\ SameContext(log[job.at].tx, r)
  BY <1>1, MatchingHasContext
<1> QED
  BY <1>2, FoundKeeps DEF TypeInv, OwnInv, OwnJob, OwnSignatures

(* What confirms a row, at an entry of the log.                            *)
LEMMA ConfirmationStays ==
  ASSUME NEW r \in Rows, NEW i \in DOMAIN log, Confirmation(r, i),
         i \in DOMAIN log' /\ log'[i] = log[i], UNCHANGED contextOf,
         Alone(r) /\ i <= rows[r].slot => i <= rows'[r].slot
  PROVE  Confirmation(r, i)'
BY DEF Confirmation, SettledAt, SameContext, Alone

(* An update by a job of its entry's context.                              *)
LEMMA OwnUpdate ==
  ASSUME TypeInv, OwnInv, NEW job \in Jobs, OwnJob(job), Update(job),
         UNCHANGED <<contextOf, log>>
  PROVE  /\ OwnSignatures'
         /\ \A r \in Rows : rows'[r].confirmed => \E i \in DOMAIN log' : Confirmation(r, i)'
<1>1. /\ job.match \in Rows /\ job.at \in DOMAIN log /\ log[job.at].ok
      /\ SameContext(log[job.at].tx, job.match)
      /\ job.signature # NoTx => SameContext(job.signature, job.match)
  BY DEF OwnJob, InLog
<1>2. /\ rows'[job.match].slot = job.at
      /\ rows'[job.match].signature = IF job.signature # NoTx THEN job.signature ELSE log[job.at].tx
      /\ \A r \in Rows : r # job.match => rows'[r] = rows[r]
  BY <1>1, UpdateKeeps DEF TypeInv
<1>3. SameContext(rows'[job.match].signature, job.match)
  BY <1>1, <1>2
<1>4. OwnSignatures'
  BY <1>2, <1>3 DEF OwnInv, OwnSignatures, SameContext
<1>5. ASSUME NEW r \in Rows, rows'[r].confirmed
      PROVE  \E i \in DOMAIN log' : Confirmation(r, i)'
  <2>1. CASE r = job.match
    <3>1. job.at <= rows'[r].slot
      BY <1>1, <1>2, <2>1 DEF TypeInv, IndexerTypeOK
    <3>2. Confirmation(r, job.at)'
      BY <1>1, <2>1, <3>1 DEF Confirmation, SettledAt, SameContext
    <3> QED
      BY <1>1, <3>2
  <2>2. CASE r # job.match
    <3>1. rows'[r] = rows[r]
      BY <1>2, <2>2
    <3>2. PICK i \in DOMAIN log : Confirmation(r, i)
      BY <1>5, <3>1 DEF OwnInv
    <3>3. Confirmation(r, i)'
      BY <3>1, <3>2, ConfirmationStays
    <3> QED
      BY <3>3
  <2> QED
    BY <2>1, <2>2
<1> QED
  BY <1>4, <1>5

LEMMA OwnInit == Init => OwnInv
<1> SUFFICES ASSUME Init PROVE OwnInv
  OBVIOUS
<1>1. DOMAIN log = {} /\ Blank.pc = "idle"
  BY DEF Init, Blank, Job
<1> QED
  BY <1>1 DEF Init, OwnInv, OwnSignatures, LandsOnce

LEMMA OwnNext == TypeInv /\ OwnInv /\ [Next]_vars => OwnInv'
<1> SUFFICES ASSUME TypeInv, OwnInv, [Next]_vars PROVE OwnInv'
  OBVIOUS
<1> DEFINE Jobs1 == \A p \in Pollers : pollers[p].pc = "update" => OwnJob(pollers[p])
           Jobs2 == \A t \in Txs : notices[t].pc = "update" => OwnJob(notices[t])
<1>0. /\ DOMAIN log = 1 .. Len(log) /\ Len(log) \in Nat
      /\ pollers \in [Pollers -> Jobs] /\ notices \in [Txs -> Jobs]
  BY DEF TypeInv, IndexerTypeOK
(* Only the parts that a step can touch are left to show.                  *)
<1>x. UNCHANGED contextOf
  BY ContextsFixed
<1>a. ASSUME UNCHANGED <<log, rows>>, Jobs1', Jobs2' PROVE OwnInv'
  <2>1. ASSUME NEW r \in Rows, rows'[r].confirmed
        PROVE  \E i \in DOMAIN log' : Confirmation(r, i)'
    <3>1. PICK i \in DOMAIN log : Confirmation(r, i)
      BY <1>a, <2>1 DEF OwnInv
    <3>2. Confirmation(r, i)'
      BY <1>a, <1>x, <3>1, ConfirmationStays
    <3> QED
      BY <1>a, <3>2
  <2>2. OwnSignatures' /\ LandsOnce'
    BY <1>a, <1>x DEF OwnInv, OwnSignatures, LandsOnce, SameContext
  <2> QED
    BY <1>a, <2>1, <2>2 DEF OwnInv
<1>b. ASSUME UNCHANGED <<log, rows>>,
             \A p \in Pollers : pollers'[p].pc = "update" => pollers'[p] = pollers[p],
             \A t \in Txs : notices'[t].pc = "update" => notices'[t] = notices[t]
      PROVE  OwnInv'
  BY <1>a, <1>b, <1>x, OwnJobsStay
<1>c. ASSUME NEW p \in Pollers, NEW job, pollers' = [pollers EXCEPT ![p] = job],
             job.pc # "update", UNCHANGED notices
      PROVE  /\ \A q \in Pollers : pollers'[q].pc = "update" => pollers'[q] = pollers[q]
             /\ \A t \in Txs : notices'[t].pc = "update" => notices'[t] = notices[t]
  BY <1>0, <1>c
<1>d. Blank.pc = "idle" /\ \A pc, at, last : Job(pc, at, last).pc = pc
  BY DEF Blank, Job
<1>1. ASSUME NEW r \in Rows, createRow(r) PROVE OwnInv'
  BY <1>1, <1>b DEF createRow
<1>2. ASSUME NEW t \in Txs, NEW ok \in BOOLEAN, land(t, ok) PROVE OwnInv'
  <2>1. /\ Len(log') = Len(log) + 1 /\ log' \in Seq(Entries)
        /\ \A i \in DOMAIN log : i \in DOMAIN log' /\ log'[i] = log[i]
        /\ log'[Len(log) + 1] = [tx |-> t, ok |-> ok]
    BY <1>2, LogGrows DEF land, TypeInv
  <2>2. \A u \in Txs : notices'[u].pc = "update" => notices'[u] = notices[u]
    <3>1. \/ notices' = [notices EXCEPT ![t] = Job("find", Len(log) + 1, 0)]
          \/ notices' = notices
      BY <1>2 DEF land
    <3> QED
      BY <1>0, <1>d, <3>1
  <2>3. Jobs1' /\ Jobs2'
    BY <1>2, <1>x, <2>1, <2>2, OwnJobsStay DEF land
  <2>4. LandsOnce'
    <3> SUFFICES ASSUME NEW i \in DOMAIN log', NEW j \in DOMAIN log', log'[i].tx = log'[j].tx
                 PROVE  i = j
      BY DEF LandsOnce
    <3>1. ASSUME NEW k \in DOMAIN log' PROVE k \in DOMAIN log \/ k = Len(log) + 1
      BY <1>0, <2>1
    <3>2. \A k \in DOMAIN log : log'[k].tx # t
      BY <1>2, <2>1 DEF land, Landed
    <3>3. log'[Len(log) + 1].tx = t
      BY <2>1
    <3> QED
      BY <2>1, <3>1, <3>2, <3>3 DEF OwnInv, LandsOnce
  <2>5. OwnSignatures'
    BY <1>2, <1>x DEF land, OwnInv, OwnSignatures, SameContext
  <2>6. ASSUME NEW r \in Rows, rows'[r].confirmed
        PROVE  \E i \in DOMAIN log' : Confirmation(r, i)'
    <3>1. PICK i \in DOMAIN log : Confirmation(r, i)
      BY <1>2, <2>6 DEF land, OwnInv
    <3>2. Confirmation(r, i)'
      BY <1>2, <1>x, <2>1, <3>1, ConfirmationStays DEF land
    <3> QED
      BY <2>1, <3>2
  <2> QED
    BY <2>3, <2>4, <2>5, <2>6 DEF OwnInv
<1>3. ASSUME NEW r \in Rows, record(r) PROVE OwnInv'
  <2>1. Jobs1' /\ Jobs2' /\ LandsOnce'
    BY <1>3, <1>x, OwnJobsStay DEF record, OwnInv, LandsOnce
  <2>2. /\ \A s \in Rows : s # r => rows'[s] = rows[s]
        /\ rows'[r].signature \in {r, NoTx} /\ rows'[r].confirmed = rows[r].confirmed
        /\ \/ rows'[r].slot = rows[r].slot
           \/ \E i \in DOMAIN log : i <= rows'[r].slot /\ log[i].tx = r
    <3>1. CASE rows' = [rows EXCEPT ![r].signature = NoTx]
      BY <3>1 DEF TypeInv, IndexerTypeOK
    <3>2. CASE rows' = [rows EXCEPT ![r].signature = r]
      BY <3>2 DEF TypeInv, IndexerTypeOK
    <3>3. ASSUME NEW i \in DOMAIN log, NEW slot \in DOMAIN log, log[i].tx = r, i <= slot,
                 rows' = [rows EXCEPT ![r].signature = r, ![r].slot = slot]
          PROVE  /\ \A s \in Rows : s # r => rows'[s] = rows[s]
                 /\ rows'[r].signature = r /\ rows'[r].confirmed = rows[r].confirmed
                 /\ i <= rows'[r].slot /\ log[i].tx = r
      BY <3>3 DEF TypeInv, IndexerTypeOK
    <3> QED
      BY <1>3, <3>1, <3>2, <3>3 DEF record
  <2>3. OwnSignatures'
    BY <1>x, <2>2 DEF OwnInv, OwnSignatures, SameContext
  <2>4. ASSUME NEW s \in Rows, rows'[s].confirmed
        PROVE  \E i \in DOMAIN log' : Confirmation(s, i)'
    <3>1. PICK i \in DOMAIN log : Confirmation(s, i)
      BY <2>2, <2>4 DEF OwnInv
    <3>2. ASSUME Alone(s), i <= rows[s].slot PROVE i <= rows'[s].slot
      <4>1. log[i].tx \in Txs
        <5>1. log[i] \in Entries
          BY DEF TypeInv, IndexerTypeOK
        <5> QED
          BY <5>1 DEF Entries
      <4>2. log[i].tx = s
        BY <3>1, <3>2, <4>1 DEF Confirmation, Alone
      <4> QED
        BY <2>2, <3>2, <4>2 DEF OwnInv, LandsOnce
    <3>3. Confirmation(s, i)'
      BY <1>3, <1>x, <3>1, <3>2, ConfirmationStays DEF record
    <3> QED
      BY <1>3, <3>3 DEF record
  <2> QED
    BY <2>1, <2>3, <2>4 DEF OwnInv
<1>4. ASSUME NEW t \in Txs, noticeFind(t) PROVE OwnInv'
  <2>1. InLog(notices[t].at) /\ log[notices[t].at].tx = t
    BY <1>4 DEF noticeFind, TypeInv, JobsInv
  <2>2. \A p \in Pollers : pollers'[p].pc = "update" => pollers'[p] = pollers[p]
    BY <1>4 DEF noticeFind
  <2>3. CASE notices' = [notices EXCEPT ![t] = Blank]
    <3>1. \A u \in Txs : notices'[u].pc = "update" => notices'[u] = notices[u]
      BY <1>0, <1>d, <2>3
    <3> QED
      BY <1>4, <1>b, <2>2, <3>1 DEF noticeFind
  <2>4. ASSUME NEW r \in Matching(t), notices' = [notices EXCEPT ![t] = Found(@, r)]
        PROVE  OwnInv'
    <3>1. OwnJob(Found(notices[t], r))
      BY <1>0, <2>1, OwnFound
    <3>2. \A u \in Txs : notices'[u] = IF u = t THEN Found(notices[t], r) ELSE notices[u]
      BY <1>0, <2>4
    <3>3. Jobs1' /\ Jobs2'
      BY <1>4, <3>1, <3>2 DEF noticeFind, OwnInv, OwnJob, InLog, SameContext
    <3> QED
      BY <1>4, <1>a, <3>3 DEF noticeFind
  <2> QED
    BY <1>4, <2>3, <2>4 DEF noticeFind
<1>5. ASSUME NEW t \in Txs, noticeUpdate(t) PROVE OwnInv'
  <2>1. OwnJob(notices[t]) /\ notices[t] \in Jobs
    BY <1>0, <1>5 DEF noticeUpdate, OwnInv
  <2>2. /\ OwnSignatures'
        /\ \A r \in Rows : rows'[r].confirmed => \E i \in DOMAIN log' : Confirmation(r, i)'
    BY <1>5, <1>x, <2>1, OwnUpdate DEF noticeUpdate
  <2>3. \A u \in Txs : notices'[u].pc = "update" => notices'[u] = notices[u]
    BY <1>0, <1>d, <1>5 DEF noticeUpdate
  <2>4. Jobs1' /\ Jobs2' /\ LandsOnce'
    BY <1>5, <1>x, <2>3, OwnJobsStay DEF noticeUpdate, OwnInv, LandsOnce
  <2> QED
    BY <2>2, <2>4 DEF OwnInv
<1>6. ASSUME NEW p \in Pollers, pollStart(p) PROVE OwnInv'
  <2>1. \A q \in Pollers : pollers'[q].pc = "update" => pollers'[q] = pollers[q]
    BY <1>0, <1>6 DEF pollStart, Jobs
  <2> QED
    BY <1>6, <1>b, <2>1 DEF pollStart
<1>7. ASSUME NEW p \in Pollers, pollList(p) PROVE OwnInv'
  <2>1. PICK job : pollers' = [pollers EXCEPT ![p] = job] /\ job.pc # "update"
    BY <1>7, <1>d DEF pollList
  <2> QED
    BY <1>7, <1>b, <1>c, <2>1 DEF pollList
<1>8. \A job : Advance(job).pc # "update"
  BY <1>d DEF Advance
<1>9. ASSUME NEW p \in Pollers, pollSkip(p) PROVE OwnInv'
  BY <1>9, <1>b, <1>c, <1>8 DEF pollSkip
<1>10. ASSUME NEW p \in Pollers, pollFetch(p) PROVE OwnInv'
  <2>1. InLog(pollers[p].at)
    BY <1>10 DEF pollFetch, TypeInv, JobsInv, InLog, SettledAt
  <2>2. CASE pollers' = [pollers EXCEPT ![p] = Advance(@)]
    BY <1>10, <1>b, <1>c, <1>8, <2>2 DEF pollFetch
  <2>3. ASSUME NEW r \in Matching(log[pollers[p].at].tx),
               pollers' = [pollers EXCEPT ![p] = Found(@, r)]
        PROVE  OwnInv'
    <3>1. OwnJob(Found(pollers[p], r))
      BY <1>0, <2>1, OwnFound
    <3>2. \A q \in Pollers : pollers'[q] = IF q = p THEN Found(pollers[p], r) ELSE pollers[q]
      BY <1>0, <2>3
    <3>3. Jobs1' /\ Jobs2'
      BY <1>10, <3>1, <3>2 DEF pollFetch, OwnInv, OwnJob, InLog, SameContext
    <3> QED
      BY <1>10, <1>a, <3>3 DEF pollFetch
  <2> QED
    BY <1>10, <2>2, <2>3 DEF pollFetch
<1>11. ASSUME NEW p \in Pollers, pollUpdate(p) PROVE OwnInv'
  <2>1. OwnJob(pollers[p]) /\ pollers[p] \in Jobs
    BY <1>0, <1>11 DEF pollUpdate, OwnInv
  <2>2. /\ OwnSignatures'
        /\ \A r \in Rows : rows'[r].confirmed => \E i \in DOMAIN log' : Confirmation(r, i)'
    BY <1>11, <1>x, <2>1, OwnUpdate DEF pollUpdate
  <2>3. Jobs1' /\ Jobs2' /\ LandsOnce'
    BY <1>11, <1>x, <1>c, <1>8, OwnJobsStay DEF pollUpdate, OwnInv, LandsOnce
  <2> QED
    BY <2>2, <2>3 DEF OwnInv
<1>12. ASSUME NEW p \in Pollers, pollCursor(p) PROVE OwnInv'
  BY <1>12, <1>b, <1>c, <1>d DEF pollCursor
<1>13. ASSUME NEW p \in Pollers, pollError(p) PROVE OwnInv'
  BY <1>13, <1>b, <1>c, <1>d DEF pollError
<1>14. ASSUME restart PROVE OwnInv'
  <2>1. /\ \A p \in Pollers : pollers'[p].pc # "update"
        /\ \A t \in Txs : notices'[t].pc # "update"
    BY <1>14, <1>d DEF restart
  <2> QED
    BY <1>14, <1>b, <2>1 DEF restart
<1>15. ASSUME UNCHANGED vars PROVE OwnInv'
  BY <1>15, <1>b DEF vars
<1> QED
  BY <1>1, <1>2, <1>3, <1>4, <1>5, <1>6, <1>7, <1>9, <1>10, <1>11, <1>12, <1>13, <1>14, <1>15
  DEF Next, PollStep

(* Whatever the context hashes of the transactions are, a row is only ever *)
(* confirmed by a settled payment of its context, and keeps a signature of *)
(* its context; if no other transaction has it, by the settlement of its   *)
(* own payment, for any number of rows, polls, faults and restarts.        *)
THEOREM ContextPaymentConfirms == Spec => []ConfirmedByItsContext
<1>1. Spec => [](TypeInv /\ OwnInv)
  BY TypeInit, TypeNext, OwnInit, OwnNext, PTL DEF Spec
<1>2. TypeInv /\ OwnInv => ConfirmedByItsContext
  BY DEF OwnInv, OwnSignatures, Confirmation, ConfirmedByItsContext
<1> QED
  BY <1>1, <1>2, PTL

-----------------------------------------------------------------------------
(* Behind the cursor.                                                      *)

(* Settled payments of rows up to n have confirmed a row of their context, *)
(* or were passed over unread.                                             *)
Cleared(n) ==
  \A i \in 1 .. n :
    SettledAt(i) /\ log[i].tx \in Rows /\ i \notin overlooked => ContextConfirmed(log[i].tx)

(* The ranks of insertion are bounded, so there is a newest row.           *)
RanksBounded == \A r \in Rows : createdAt[r] <= Cardinality(Rows)

(* A nonempty set of numbers has a smallest one.                           *)
LessThan == {ss \in Nat \X Nat : ss[1] < ss[2]}
LEMMA Smallest ==
  ASSUME NEW T, T \subseteq Nat, T # {}
  PROVE  \E k \in T : \A m \in T : k <= m
<1>1. LessThan = OpToRel(<, Nat)
  BY Zenon DEF LessThan, OpToRel
<1>2. IsWellFoundedOn(LessThan, Nat)
  BY <1>1, NatLessThanWellFounded, Zenon
<1>3. PICK k \in T : \A m \in T : ~ (<<m, k>> \in LessThan)
  BY <1>2, WFMin, Zenon
<1>4. ASSUME NEW m \in T PROVE k <= m
  <2>1. k \in Nat /\ m \in Nat
    OBVIOUS
  <2>2. ~ (<<m, k>> \in LessThan)
    BY <1>3
  <2>3. m < k => <<m, k>> \in LessThan
    BY <2>1, Zenon DEF LessThan
  <2> QED
    BY <2>1, <2>2, <2>3
<1> QED
  BY <1>4

LEMMA NewestExists ==
  ASSUME TypeInv, RanksBounded, NEW t \in Rows, Created(t)
  PROVE  Matching(t) # {}
<1> DEFINE N == Cardinality(Rows)
           Same == {r \in Rows : Created(r) /\ contextOf[r] = contextOf[t]}
           T == {k \in Nat : \E r \in Same : createdAt[r] = N - k}
<1>1. N \in Nat /\ \A r \in Rows : createdAt[r] \in 0 .. N
  BY IndexerAssumption, FS_CardinalityType DEF TypeInv, IndexerTypeOK, RanksBounded
<1>2. t \in Same
  OBVIOUS
<1> HIDE DEF N, Same
<1>3. N - createdAt[t] \in T
  <2>1. t \in Rows /\ createdAt[t] = N - (N - createdAt[t]) /\ N - createdAt[t] \in Nat
    BY <1>1
  <2> QED
    BY <1>2, <2>1
<1>4. T \subseteq Nat /\ T # {}
  BY <1>3
<1> HIDE DEF T
<1>5. PICK k \in T : \A m \in T : k <= m
  BY <1>4, Smallest
<1>7. PICK r \in Same : createdAt[r] = N - k
  BY <1>5 DEF T
<1>8. ASSUME NEW s \in Same PROVE createdAt[s] <= createdAt[r]
  <2>1. createdAt[s] \in 0 .. N /\ createdAt[r] \in 0 .. N
    BY <1>1 DEF Same
  <2>2. N - createdAt[s] \in Nat /\ createdAt[s] = N - (N - createdAt[s])
    BY <1>1, <2>1
  <2>3. N - createdAt[s] \in T
    BY <2>2 DEF T
  <2>4. k \in Nat /\ k <= N - createdAt[s]
    BY <1>4, <1>5, <2>3
  <2> QED
    BY <1>1, <1>7, <2>1, <2>4
<1>9. r \in Matching(t)
  BY <1>8 DEF Same, Matching
<1> QED
  BY <1>9

(* How far a poll has come: behind this it left nothing to do.             *)
Behind(job) ==
  IF job.pc = "list" THEN job.at
  ELSE IF job.pc \in {"fetch", "update"} THEN job.at - 1
  ELSE IF job.pc = "cursor" THEN job.last
  ELSE 0

CursorInv ==
  /\ \A i \in DOMAIN log : log[i].tx \in Rows => Created(log[i].tx)
  /\ RanksBounded
  /\ Cleared(cursor)
  /\ \A p \in Pollers : Cleared(Behind(pollers[p]))

LEMMA BehindTyped ==
  ASSUME TypeInv, NEW p \in Pollers
  PROVE  Behind(pollers[p]) \in Slots
<1>1. /\ Len(log) \in Nat /\ DOMAIN log = 1 .. Len(log) /\ pollers[p] \in Jobs
      /\ pollers[p].pc \in {"fetch", "update"} => pollers[p].at \in DOMAIN log
  BY DEF TypeInv, IndexerTypeOK, JobsInv
<1> QED
  BY <1>1 DEF Behind, Jobs, Slots

LEMMA BehindAdvance ==
  ASSUME TypeInv, NEW p \in Pollers, pollers[p].pc \in {"fetch", "update"}
  PROVE  /\ Behind(Advance(pollers[p])) = pollers[p].at
         /\ pollers[p].at \in DOMAIN log /\ Behind(pollers[p]) = pollers[p].at - 1
<1>1. /\ Len(log) \in Nat /\ DOMAIN log = 1 .. Len(log) /\ pollers[p] \in Jobs
      /\ pollers[p].at \in DOMAIN log
  BY DEF TypeInv, IndexerTypeOK, JobsInv
<1> QED
  BY <1>1 DEF Behind, Advance, Job

(* The log grows, confirmed rows stay confirmed, what was passed over      *)
(* stays so: what is cleared stays so.                                     *)
OnlyGrows ==
  /\ UNCHANGED contextOf
  /\ overlooked \subseteq overlooked'
  /\ \A i \in DOMAIN log : i \in DOMAIN log' /\ log'[i] = log[i]
  /\ \A r \in Rows : rows[r].confirmed => rows'[r].confirmed

LEMMA ClearedStays ==
  ASSUME TypeInv, OnlyGrows, NEW n \in Slots, Cleared(n)
  PROVE  Cleared(n)'
<1>1. Len(log) \in Nat /\ DOMAIN log = 1 .. Len(log) /\ n \in 0 .. Len(log)
  BY DEF TypeInv, IndexerTypeOK, Slots
<1>2. \A i \in 1 .. n : i \in DOMAIN log /\ log'[i] = log[i]
  BY <1>1 DEF OnlyGrows
<1> QED
  BY <1>2 DEF Cleared, OnlyGrows, SettledAt, ContextConfirmed, SameContext

(* The request and the updates of rows leave confirmed rows confirmed.     *)
LEMMA UpdateConfirms ==
  ASSUME TypeInv, NEW job \in Jobs, job.match \in Rows, job.at \in DOMAIN log, Update(job),
         UNCHANGED <<contextOf, log, overlooked>>
  PROVE  OnlyGrows /\ rows'[job.match].confirmed
<1>1. /\ rows'[job.match].confirmed
      /\ \A r \in Rows : r # job.match => rows'[r] = rows[r]
  BY UpdateKeeps DEF TypeInv
<1> QED
  BY <1>1 DEF OnlyGrows

(* A step of one poll, or of none.                                         *)
LEMMA CursorMoves ==
  ASSUME TypeInv, CursorInv, OnlyGrows, UNCHANGED <<log, createdAt, cursor>>,
         NEW p \in Pollers, NEW job, pollers' = [pollers EXCEPT ![p] = job],
         NEW n, Behind(job) = n, Cleared(n)'
  PROVE  CursorInv'
<1>1. Cleared(cursor)'
  <2>1. PICK c \in Slots : c = cursor
    BY DEF TypeInv, IndexerTypeOK
  <2>2. Cleared(c)'
    BY <2>1, ClearedStays DEF CursorInv
  <2> QED
    BY <2>1, <2>2 DEF Cleared
<1>2. ASSUME NEW q \in Pollers PROVE Cleared(Behind(pollers[q]))'
  <2>1. CASE q = p
    <3>1. Behind(pollers[q])' = n
      BY <2>1 DEF TypeInv, IndexerTypeOK, Behind
    <3> QED
      BY <3>1 DEF Cleared
  <2>2. CASE q # p
    <3>1. PICK c \in Slots : c = Behind(pollers[q])
      BY BehindTyped
    <3>2. Cleared(c)'
      BY <3>1, ClearedStays DEF CursorInv
    <3>3. Behind(pollers[q])' = c
      BY <2>2, <3>1 DEF TypeInv, IndexerTypeOK, Behind
    <3> QED
      BY <3>2, <3>3 DEF Cleared
  <2> QED
    BY <2>1, <2>2
<1>3. \A i \in DOMAIN log' : log'[i].tx \in Rows => Created(log[i].tx)'
  BY DEF CursorInv, Created
<1>4. RanksBounded'
  BY DEF CursorInv, RanksBounded
<1> QED
  BY <1>1, <1>2, <1>3, <1>4 DEF CursorInv

(* Steps that move no poll and not the cursor.                             *)
LEMMA CursorStays ==
  ASSUME TypeInv, CursorInv, OnlyGrows, UNCHANGED <<pollers, cursor>>, RanksBounded',
         \A i \in DOMAIN log' : log'[i].tx \in Rows => Created(log[i].tx)'
  PROVE  CursorInv'
<1>1. Cleared(cursor)'
  <2>1. PICK c \in Slots : c = cursor
    BY DEF TypeInv, IndexerTypeOK
  <2>2. Cleared(c)'
    BY <2>1, ClearedStays DEF CursorInv
  <2> QED
    BY <2>1, <2>2 DEF Cleared
<1>2. ASSUME NEW q \in Pollers PROVE Cleared(Behind(pollers[q]))'
  <2>1. PICK c \in Slots : c = Behind(pollers[q])
    BY BehindTyped
  <2>2. Cleared(c)'
    BY <2>1, ClearedStays DEF CursorInv
  <2>3. Behind(pollers[q])' = c
    BY <2>1 DEF Behind
  <2> QED
    BY <2>2, <2>3 DEF Cleared
<1> QED
  BY <1>1, <1>2 DEF CursorInv

LEMMA CursorInit == Init => CursorInv
<1> SUFFICES ASSUME Init PROVE CursorInv
  OBVIOUS
<1>1. Behind(Blank) = 0 /\ DOMAIN log = {}
  BY DEF Init, Behind, Blank, Job
<1> QED
  <2>1. RanksBounded
    BY IndexerAssumption, FS_CardinalityType DEF Init, RanksBounded
  <2> QED
    BY <1>1, <2>1 DEF Init, CursorInv, Cleared

LEMMA CursorNext == TypeInv /\ OwnInv /\ CursorInv /\ [Next]_vars => CursorInv'
<1> SUFFICES ASSUME TypeInv, OwnInv, CursorInv, [Next]_vars PROVE CursorInv'
  OBVIOUS
<1>0. /\ DOMAIN log = 1 .. Len(log) /\ Len(log) \in Nat /\ cursor \in 0 .. Len(log)
      /\ pollers \in [Pollers -> Jobs] /\ notices \in [Txs -> Jobs]
      /\ \A i \in DOMAIN log : log[i] \in Entries
  BY DEF TypeInv, IndexerTypeOK, Slots
<1>x. UNCHANGED contextOf
  BY ContextsFixed
<1>a. ASSUME UNCHANGED <<log, rows>>, overlooked \subseteq overlooked' PROVE OnlyGrows
  BY <1>a, <1>x DEF OnlyGrows
<1>d. RanksBounded /\ (UNCHANGED createdAt => RanksBounded')
  BY DEF CursorInv, RanksBounded
<1>b. Cleared(0)'
  BY DEF Cleared
<1>c. \A i \in DOMAIN log : log[i].tx \in Rows => Created(log[i].tx)
  BY DEF CursorInv
<1>1. ASSUME NEW r \in Rows, createRow(r) PROVE CursorInv'
  <2>1. ASSUME NEW s \in Rows, Created(s) PROVE Created(s)'
    <3>1. IsFiniteSet({q \in Rows : Created(q)})
      BY IndexerAssumption, FS_Subset
    <3>2. Cardinality({q \in Rows : Created(q)}) \in Nat
      BY <3>1, FS_CardinalityType
    <3> QED
      BY <1>1, <2>1, <3>2 DEF createRow, Created, TypeInv, IndexerTypeOK
  <2>2. \A i \in DOMAIN log' : log'[i].tx \in Rows => Created(log[i].tx)'
    BY <1>1, <1>c, <2>1 DEF createRow, Created
  <2>3. RanksBounded'
    <3> DEFINE C == {s \in Rows : Created(s)}
    <3>1. IsFiniteSet(C) /\ r \notin C /\ C \cup {r} \in SUBSET Rows
      BY <1>1, IndexerAssumption, FS_Subset DEF createRow
    <3>2. Cardinality(C \cup {r}) = Cardinality(C) + 1
      BY <3>1, FS_AddElement
    <3>3. Cardinality(C) + 1 <= Cardinality(Rows)
      BY <3>1, <3>2, IndexerAssumption, FS_Subset
    <3>4. Cardinality(C) \in Nat /\ Cardinality(Rows) \in Nat
      BY <3>1, IndexerAssumption, FS_CardinalityType
    <3>5. createdAt' = [createdAt EXCEPT ![r] = 1 + Cardinality(C)]
      BY <1>1 DEF createRow
    <3> HIDE DEF C
    <3> QED
      BY <1>d, <3>3, <3>4, <3>5 DEF RanksBounded, TypeInv, IndexerTypeOK
  <2> QED
    BY <1>1, <1>a, <2>2, <2>3, CursorStays DEF createRow
<1>2. ASSUME NEW t \in Txs, NEW ok \in BOOLEAN, land(t, ok) PROVE CursorInv'
  <2>1. /\ Len(log') = Len(log) + 1 /\ log' \in Seq(Entries)
        /\ \A i \in DOMAIN log : i \in DOMAIN log' /\ log'[i] = log[i]
        /\ log'[Len(log) + 1] = [tx |-> t, ok |-> ok]
    BY <1>2, LogGrows DEF land, TypeInv
  <2>2. OnlyGrows
    BY <1>2, <1>x, <2>1 DEF land, OnlyGrows
  <2>3. \A i \in DOMAIN log' : log'[i].tx \in Rows => Created(log[i].tx)'
    <3>1. ASSUME NEW k \in DOMAIN log' PROVE k \in DOMAIN log \/ k = Len(log) + 1
      BY <1>0, <2>1
    <3>2. log'[Len(log) + 1].tx = t /\ (t \in Rows => Created(t))
      BY <1>2, <2>1 DEF land
    <3> QED
      BY <1>2, <1>c, <2>1, <3>1, <3>2 DEF land, Created
  <2> QED
    BY <1>2, <1>d, <2>2, <2>3, CursorStays DEF land
<1>3. ASSUME NEW r \in Rows, record(r) PROVE CursorInv'
  <2>1. \A s \in Rows : rows[s].confirmed => rows'[s].confirmed
    <3>1. rows \in [Rows -> [signature : Txs \cup {NoTx}, slot : Slots, confirmed : BOOLEAN]]
      BY DEF TypeInv, IndexerTypeOK
    <3>2. CASE \E x : rows' = [rows EXCEPT ![r].signature = x]
      BY <3>1, <3>2
    <3>3. CASE \E x, y : rows' = [rows EXCEPT ![r].signature = x, ![r].slot = y]
      BY <3>1, <3>3
    <3> QED
      BY <1>3, <3>2, <3>3 DEF record
  <2>2. OnlyGrows /\ \A i \in DOMAIN log' : log'[i].tx \in Rows => Created(log[i].tx)'
    BY <1>3, <1>c, <1>x, <2>1 DEF record, OnlyGrows, Created
  <2> QED
    BY <1>3, <1>d, <2>2, CursorStays DEF record
<1>4. ASSUME NEW t \in Txs, noticeFind(t) PROVE CursorInv'
  <2>1. \A i \in DOMAIN log' : log'[i].tx \in Rows => Created(log[i].tx)'
    BY <1>4, <1>c DEF noticeFind, Created
  <2> QED
    BY <1>4, <1>a, <1>d, <2>1, CursorStays DEF noticeFind
<1>5. ASSUME NEW t \in Txs, noticeUpdate(t) PROVE CursorInv'
  <2>1. /\ notices[t] \in Jobs /\ notices[t].match \in Rows /\ notices[t].at \in DOMAIN log
    BY <1>0, <1>5 DEF noticeUpdate, OwnInv, OwnJob, InLog
  <2>2. OnlyGrows
    BY <1>5, <1>x, <2>1, UpdateConfirms DEF noticeUpdate
  <2>3. \A i \in DOMAIN log' : log'[i].tx \in Rows => Created(log[i].tx)'
    BY <1>5, <1>c DEF noticeUpdate, Created
  <2> QED
    BY <1>5, <1>d, <2>2, <2>3, CursorStays DEF noticeUpdate
<1>6. ASSUME NEW p \in Pollers, pollStart(p) PROVE CursorInv'
  <2> DEFINE job == [pollers[p] EXCEPT !.pc = "list", !.at = cursor]
  <2>1. pollers' = [pollers EXCEPT ![p] = job] /\ UNCHANGED <<log, rows, createdAt, cursor, overlooked>>
    BY <1>6 DEF pollStart
  <2>2. Behind(job) = cursor
    BY <1>0 DEF Behind, Jobs
  <2> HIDE DEF job
  <2>3. PICK n \in Slots : n = cursor
    BY <1>0 DEF Slots
  <2>4. Cleared(n)'
    BY <1>a, <2>1, <2>3, ClearedStays DEF CursorInv
  <2> QED
    BY <1>a, <2>1, <2>2, <2>3, <2>4, CursorMoves
<1>7. ASSUME NEW p \in Pollers, pollList(p) PROVE CursorInv'
  <2>1. /\ UNCHANGED <<log, rows, createdAt, cursor>> /\ pollers[p].pc = "list"
        /\ overlooked' = overlooked \cup Unread((pollers[p].at + 1) .. PageStart(pollers[p].at))
    BY <1>7 DEF pollList
  <2>2. CASE pollers[p].at = Len(log)
    <3>1. pollers' = [pollers EXCEPT ![p] = Blank] /\ Behind(Blank) = 0
      BY <1>7, <2>2 DEF pollList, Behind, Blank, Job
    <3> QED
      BY <1>a, <1>b, <2>1, <3>1, CursorMoves
  <2>3. CASE pollers[p].at # Len(log)
    <3> DEFINE job == Job("fetch", PageStart(pollers[p].at) + 1, Len(log))
    <3>1. pollers' = [pollers EXCEPT ![p] = job]
      BY <1>7, <2>3 DEF pollList
    <3>2. PICK n \in Slots : n = pollers[p].at
      BY <1>0 DEF Jobs
    <3>3. n \in Nat /\ Behind(pollers[p]) = n
      BY <1>0, <2>1, <3>2 DEF Slots, Behind
    <3>4. PICK m \in Nat : m = PageStart(pollers[p].at)
      <4>1. PageStart(n) \in Nat
        BY <1>0, <3>3, IndexerAssumption DEF PageStart
      <4> QED
        BY <3>2, <4>1
    <3>5. Behind(job) = m
      BY <3>4 DEF Behind, Job
    <3> HIDE DEF job
    <3>6. Cleared(n)'
      BY <1>a, <2>1, <3>3, ClearedStays DEF CursorInv
    <3>7. ASSUME NEW i \in 1 .. m, SettledAt(i), log[i].tx \in Rows
          PROVE  i \in 1 .. n \/ i \in overlooked'
      BY <2>1, <3>2, <3>3, <3>4, <3>7 DEF Unread
    <3>8. Cleared(m)'
      BY <2>1, <3>6, <3>7 DEF Cleared, SettledAt
    <3> QED
      BY <1>a, <2>1, <3>1, <3>5, <3>8, CursorMoves
  <2> QED
    BY <2>2, <2>3
(* An entry that is not a settled payment of a row, was passed over, or    *)
(* has confirmed a row of its context.                                     *)
<1>8. ASSUME NEW p \in Pollers, pollers[p].pc \in {"fetch", "update"}, OnlyGrows,
             NEW a, a = pollers[p].at,
             pollers' = [pollers EXCEPT ![p] = Advance(pollers[p])],
             UNCHANGED <<log, createdAt, cursor>>,
             /\ log[a].ok /\ log[a].tx \in Rows /\ a \notin overlooked'
             => ContextConfirmed(log[a].tx)'
      PROVE  CursorInv'
  <2>1. PICK n \in DOMAIN log : n = pollers[p].at
    BY <1>8, BehindAdvance
  <2>2. Behind(Advance(pollers[p])) = n /\ Behind(pollers[p]) = n - 1
    BY <1>8, <2>1, BehindAdvance
  <2>3. n - 1 \in Slots /\ Cleared(n - 1)
    BY <1>0, <2>1, <2>2 DEF Slots, CursorInv
  <2>4. Cleared(n - 1)'
    BY <1>8, <2>3, ClearedStays
  <2>5. Cleared(n)'
    <3>1. \A i \in 1 .. n : i \in 1 .. (n - 1) \/ i = n
      BY <1>0
    <3> QED
      BY <1>8, <2>1, <2>4, <3>1 DEF Cleared, SettledAt
  <2> QED
    BY <1>8, <2>2, <2>5, CursorMoves
<1>9. ASSUME NEW p \in Pollers, pollSkip(p) PROVE CursorInv'
  <2>1. OnlyGrows
    BY <1>9, <1>a DEF pollSkip
  <2>2. \/ ~log[pollers[p].at].ok \/ log[pollers[p].at].tx \notin Rows
        \/ pollers[p].at \in overlooked'
    BY <1>9 DEF pollSkip, SettledAt, Unread
  <2> QED
    BY <1>8, <1>9, <2>1, <2>2 DEF pollSkip
<1>10. ASSUME NEW p \in Pollers, pollFetch(p) PROVE CursorInv'
  <2>1. UNCHANGED <<log, rows, createdAt, cursor, overlooked>> /\ pollers[p].pc = "fetch"
    BY <1>10 DEF pollFetch
  <2>2. ASSUME NEW r, pollers' = [pollers EXCEPT ![p] = Found(@, r)] PROVE CursorInv'
    <3> DEFINE job == Found(pollers[p], r)
    <3>1. PICK n \in Slots : n = Behind(pollers[p])
      BY BehindTyped
    <3>2. Behind(job) = n
      BY <1>0, <2>1, <3>1 DEF Found, Behind, Jobs
    <3>3. pollers' = [pollers EXCEPT ![p] = job]
      BY <2>2
    <3> HIDE DEF job
    <3>4. Cleared(n)'
      BY <1>a, <2>1, <3>1, ClearedStays DEF CursorInv
    <3> QED
      BY <1>a, <2>1, <3>2, <3>3, <3>4, CursorMoves
  <2>3. ASSUME Matching(log[pollers[p].at].tx) = {},
               pollers' = [pollers EXCEPT ![p] = Advance(@)]
        PROVE  CursorInv'
    <3>1. pollers[p].at \in DOMAIN log
      BY <2>1, BehindAdvance
    <3>2. ASSUME log[pollers[p].at].tx \in Rows PROVE FALSE
      BY <1>c, <1>d, <2>3, <3>1, <3>2, NewestExists
    <3> QED
      BY <1>8, <1>a, <2>1, <2>3, <3>2
  <2> QED
    BY <1>10, <2>2, <2>3 DEF pollFetch
<1>11. ASSUME NEW p \in Pollers, pollUpdate(p) PROVE CursorInv'
  <2>1. OwnJob(pollers[p]) /\ pollers[p] \in Jobs
    BY <1>0, <1>11 DEF pollUpdate, OwnInv
  <2>2. OnlyGrows /\ rows'[pollers[p].match].confirmed
    BY <1>11, <1>x, <2>1, UpdateConfirms DEF pollUpdate, OwnJob, InLog
  <2>3. PICK a \in DOMAIN log : a = pollers[p].at
    BY <2>1 DEF OwnJob, InLog
  <2>4. PICK r \in Rows : r = pollers[p].match
    BY <2>1 DEF OwnJob
  <2>5. SameContext(log[a].tx, r)' /\ rows'[r].confirmed
    BY <1>11, <1>x, <2>1, <2>2, <2>3, <2>4 DEF pollUpdate, OwnJob, SameContext
  <2>6. ContextConfirmed(log[a].tx)'
    BY <2>5 DEF ContextConfirmed, SameContext
  <2> QED
    BY <1>8, <1>11, <2>2, <2>3, <2>6 DEF pollUpdate
<1>12. ASSUME NEW p \in Pollers, pollCursor(p) PROVE CursorInv'
  <2>1. PICK n \in Slots : n = pollers[p].last
    BY <1>0 DEF Jobs
  <2>2. Behind(pollers[p]) = n
    BY <1>12, <2>1 DEF pollCursor, Behind
  <2>3. UNCHANGED <<log, rows, createdAt, overlooked>> /\ cursor' = n
        /\ pollers' = [pollers EXCEPT ![p] = Blank]
    BY <1>12, <2>1 DEF pollCursor
  <2>4. Cleared(n)
    BY <2>2 DEF CursorInv
  <2>5. Cleared(cursor)'
    BY <1>x, <2>3, <2>4 DEF Cleared, SettledAt, ContextConfirmed, SameContext
  <2>6. ASSUME NEW q \in Pollers PROVE Cleared(Behind(pollers[q]))'
    <3>1. CASE q = p
      BY <1>0, <2>3, <3>1 DEF Behind, Blank, Job, Cleared
    <3>2. CASE q # p
      <4>1. PICK c \in Slots : c = Behind(pollers[q])
        BY BehindTyped
      <4>2. Cleared(c)'
        BY <1>a, <2>3, <4>1, ClearedStays DEF CursorInv
      <4>3. Behind(pollers[q])' = c
        BY <1>0, <2>3, <3>2, <4>1 DEF Behind
      <4> QED
        BY <4>2, <4>3 DEF Cleared
    <3> QED
      BY <3>1, <3>2
  <2> QED
    BY <1>c, <1>d, <2>3, <2>5, <2>6 DEF CursorInv, Created
<1>13. ASSUME NEW p \in Pollers, pollError(p) PROVE CursorInv'
  <2>1. pollers' = [pollers EXCEPT ![p] = Blank] /\ Behind(Blank) = 0
        /\ UNCHANGED <<log, rows, createdAt, cursor, overlooked>>
    BY <1>13 DEF pollError, Behind, Blank, Job
  <2> QED
    BY <1>a, <1>b, <2>1, CursorMoves
<1>14. ASSUME restart PROVE CursorInv'
  <2>1. UNCHANGED <<log, rows, createdAt, cursor, overlooked>> /\ \A p \in Pollers : pollers'[p] = Blank
    BY <1>14 DEF restart
  <2>2. \A p \in Pollers : Behind(pollers[p])' = 0
    BY <2>1 DEF Behind, Blank, Job
  <2>3. PICK c \in Slots : c = cursor
    BY <1>0 DEF Slots
  <2>4. Cleared(c)'
    BY <1>a, <2>1, <2>3, ClearedStays DEF CursorInv
  <2>5. Cleared(cursor)'
    BY <2>1, <2>3, <2>4 DEF Cleared
  <2> QED
    BY <1>b, <1>c, <1>d, <2>1, <2>2, <2>5 DEF CursorInv, Created, Cleared
<1>15. ASSUME UNCHANGED vars PROVE CursorInv'
  <2>1. OnlyGrows /\ UNCHANGED <<pollers, cursor>>
    BY <1>15, <1>a DEF vars
  <2>2. \A i \in DOMAIN log' : log'[i].tx \in Rows => Created(log[i].tx)'
    BY <1>15, <1>c DEF vars, Created
  <2>3. RanksBounded'
    BY <1>15, <1>d DEF vars
  <2> QED
    BY <2>1, <2>2, <2>3, CursorStays
<1> QED
  BY <1>1, <1>2, <1>3, <1>4, <1>5, <1>6, <1>7, <1>9, <1>10, <1>11, <1>12, <1>13, <1>14, <1>15
  DEF Next, PollStep

(* Whatever polls overlap, fail midway, are cut off by restarts or move    *)
(* the cursor back, however long the pages and whatever the context hashes *)
(* are, the only payments that can be left behind are those a poll passed  *)
(* over unread.                                                            *)
THEOREM NothingLeftBehind == Spec => []BehindCursorConfirmed
<1>1. CursorInv => BehindCursorConfirmed
  BY DEF CursorInv, Cleared, BehindCursorConfirmed
<1> QED
  BY <1>1, TypeInit, TypeNext, OwnInit, OwnNext, CursorInit, CursorNext, PTL DEF Spec
=============================================================================
