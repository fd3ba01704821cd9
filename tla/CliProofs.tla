------------------------------ MODULE CliProofs ------------------------------
(***************************************************************************)
(* The command line, for any number of shells and vault ids, whatever      *)
(* overlaps, is killed, deleted or lands late.                             *)
(***************************************************************************)
EXTENDS Cli, TLAPS

Commands == {"none", "init", "fund", "manage", "policy", "pay", "withdraw", "close"}
Places == {"idle", "create", "reserve", "save", "read", "send", "lost", "exit"}

VaultRecords ==
  [status : {"none", "open", "closed"}, limits : [Limits -> Values \cup {Default}],
   edits : Nat, funds : Nat, reserve : Nat, charged : Nat]

JobRecords ==
  [at : Places, cmd : Commands, slot : Slots \cup {"none"}, named : SUBSET Limits,
   value : Values \cup {Default}, seen : VaultRecords, sent : Sending \cup {"none"},
   landed : BOOLEAN, alongside : SUBSET Slots]

CliTypeOK ==
  /\ cfg \in Slots \cup {NoCfg, Torn}
  /\ vault \in [Slots -> VaultRecords]
  /\ jobs \in [Shells -> JobRecords]
  /\ faults \in Nat
  /\ dropped \in SUBSET Slots

(* Commands that began by loading the file.                                *)
Loaded(job) == job.cmd \notin {"none", "init"}

(* What a command waits for is its own kind of transaction.                *)
InPlace(job) ==
  /\ job.at # "idle" => job.slot \in Slots
  /\ job.at # "idle" => job.cmd # "none"
  /\ Making(job) => job.cmd = "init"
  /\ job.at \in {"read", "send"} => Loaded(job)
  /\ job.at = "lost" => job.sent \in Sending /\ (job.sent = "send" <=> Loaded(job))
  /\ job.cmd # "none" => job.at # "idle"

(* All that was sent to a delegate for fees.                               *)
Total(v) == v.reserve + v.charged

(* A vault v that a command loaded was made, and is the one of file c      *)
(* unless that file was dropped.  One that init is making has no file yet, *)
(* and a file that is there was saved since init began.                    *)
OnVault(job, v, c, d) ==
  /\ Loaded(job) => v.status # "none" /\ (job.slot = c \/ job.slot \in d)
  /\ job.cmd = "init" /\ job.at # "exit" => job.slot # c
  /\ Making(job) /\ c \in Slots => c \in job.alongside
  /\ job.at \in {"create", "reserve"} => Total(v) = 0
  /\ job.at \in {"reserve", "save"} => v.status # "none"
  /\ job.at = "save" => Total(v) = FeeOf[job.slot]

(* What policy read is the vault as it was some edits ago.                 *)
ReadBefore(job, v) ==
  job.cmd = "policy" /\ job.at \in {"send", "lost"} =>
    /\ job.seen.edits <= v.edits
    /\ job.seen.edits = v.edits => job.seen.limits = v.limits

JobInv(h) ==
  /\ InPlace(jobs[h])
  /\ OnVault(jobs[h], vault[jobs[h].slot], cfg, dropped)
  /\ ReadBefore(jobs[h], vault[jobs[h].slot])

(* A vault id belongs to one init.                                         *)
OneMaker ==
  \A h, g \in Shells :
    jobs[h].cmd = "init" /\ jobs[g].cmd = "init" /\ jobs[h].slot = jobs[g].slot => h = g

CliInv ==
  /\ CliTypeOK
  /\ \A h \in Shells : JobInv(h)
  /\ OneMaker
  /\ SavedVaultIsReady
  /\ FundedVaultsAreNamed

-----------------------------------------------------------------------------
LEMMA UnbornTyped ==
  Unborn \in VaultRecords /\ Unborn.funds = 0 /\ Unborn.status = "none" /\ Total(Unborn) = 0
BY DEF Unborn, VaultRecords, Total

LEMMA IdleTyped ==
  /\ Idle \in JobRecords /\ InPlace(Idle) /\ Idle.cmd = "none" /\ Idle.alongside = {}
  /\ \A v, c, d : OnVault(Idle, v, c, d) /\ ReadBefore(Idle, v)
<1>1. Idle \in JobRecords
  BY UnbornTyped DEF Idle, JobRecords, Places, Commands
<1>2. Idle.at = "idle" /\ Idle.cmd = "none" /\ Idle.alongside = {}
  BY DEF Idle
<1> HIDE DEF Idle
<1> QED
  BY <1>1, <1>2 DEF InPlace, OnVault, ReadBefore, Making, Loaded

LEMMA InitCli == Init => CliInv
<1> SUFFICES ASSUME Init PROVE CliInv
  OBVIOUS
<1>1. \A h \in Shells : jobs[h] = Idle
  BY DEF Init
<1>2. \A h \in Shells : JobInv(h)
  BY <1>1, IdleTyped DEF JobInv
<1>3. \A s \in Slots : vault[s] = Unborn
  BY DEF Init
<1>4. CliTypeOK
  BY IdleTyped, UnbornTyped DEF Init, CliTypeOK
<1>5. FundedVaultsAreNamed
  BY <1>3, UnbornTyped DEF FundedVaultsAreNamed
<1>6. SavedVaultIsReady
  BY NoCfgAssumption DEF Init, SavedVaultIsReady
<1>7. OneMaker
  BY <1>1, IdleTyped DEF OneMaker
<1> QED
  BY <1>2, <1>4, <1>5, <1>6, <1>7 DEF CliInv

(* A vault only moves forward: once made it stays made, and its limits     *)
(* change with its edits.                                                  *)
Forward(v, w) ==
  /\ v.status # "none" => w.status # "none"
  /\ v.edits <= w.edits
  /\ w.edits = v.edits => w.limits = v.limits

LEMMA SameForward == ASSUME NEW v \in VaultRecords PROVE Forward(v, v)
BY DEF Forward, VaultRecords

LEMMA RewrittenTyped ==
  ASSUME NEW v \in VaultRecords, NEW l \in [Limits -> Values \cup {Default}], NEW n \in Nat
  PROVE  /\ [v EXCEPT !.limits = l, !.edits = n] \in VaultRecords
         /\ [v EXCEPT !.status = "closed", !.funds = 0] \in VaultRecords
BY DEF VaultRecords

(* A delegate that is charged a fee.                                       *)
LEMMA ChargeKeeps ==
  ASSUME NEW v \in VaultRecords, v.reserve > 0
  PROVE  /\ Charge(v) \in VaultRecords /\ Total(Charge(v)) = Total(v)
         /\ Charge(v).status = v.status /\ Charge(v).funds = v.funds
         /\ Charge(v).edits = v.edits /\ Charge(v).limits = v.limits
<1>1. v.reserve - 1 \in Nat /\ v.charged + 1 \in Nat
  BY DEF VaultRecords
<1>2. Charge(v) = [v EXCEPT !.reserve = v.reserve - 1, !.charged = v.charged + 1]
  BY DEF Charge
<1>3. Charge(v).reserve = v.reserve - 1 /\ Charge(v).charged = v.charged + 1
  BY <1>2 DEF VaultRecords
<1>4. v.reserve \in Nat /\ v.charged \in Nat
  BY DEF VaultRecords
<1>5. Total(Charge(v)) = Total(v)
  BY <1>3, <1>4 DEF Total
<1> QED
  BY <1>1, <1>2, <1>5 DEF VaultRecords

(* What a transaction that lands makes of its vault.                       *)
LEMMA EffectForward ==
  ASSUME CliTypeOK, NEW job \in JobRecords, job.slot \in Slots,
         job.at \in Sending, job.at = "send" <=> Loaded(job), job.cmd # "none", Possible(job)
  PROVE  /\ Effect(job) \in VaultRecords
         /\ Forward(vault[job.slot], Effect(job))
         /\ Effect(job).funds > 0 => vault[job.slot].funds > 0 \/ Loaded(job)
         /\ job.at # "reserve" => Total(Effect(job)) = Total(vault[job.slot])
         /\ job.at = "create" => Effect(job).status # "none"
         /\ job.at = "reserve" =>
              Total(Effect(job)) = Total(vault[job.slot]) + FeeOf[job.slot]
<1> DEFINE v == vault[job.slot]
           w == Effect(job)
<1>1. v \in VaultRecords
  BY DEF CliTypeOK
<1>n. /\ v.reserve \in Nat /\ v.charged \in Nat /\ v.funds \in Nat /\ v.edits \in Nat
      /\ FeeOf[job.slot] \in Nat
  BY <1>1, FeeAssumption DEF VaultRecords
<1>i. job.at # "send" => job.cmd = "init"
  BY DEF Loaded
<1>2. CASE job.at = "create"
  <2>1. w = [v EXCEPT !.status = "open"] /\ v.status = "none"
    BY <1>2, <1>i DEF Effect, Possible
  <2>2. w \in VaultRecords /\ Total(w) = Total(v) /\ w.status = "open" /\ w.funds = v.funds
        /\ w.edits = v.edits /\ w.limits = v.limits
    BY <1>1, <2>1 DEF VaultRecords, Total
  <2> QED
    BY <1>1, <1>2, <1>n, <2>2 DEF Forward
<1>3. CASE job.at = "reserve"
  <2>1. w = [v EXCEPT !.reserve = v.reserve + FeeOf[job.slot]]
    BY <1>3, <1>i DEF Effect
  <2>2. /\ w \in VaultRecords /\ w.reserve = v.reserve + FeeOf[job.slot]
        /\ w.charged = v.charged /\ w.status = v.status /\ w.funds = v.funds
        /\ w.edits = v.edits /\ w.limits = v.limits
    BY <1>1, <1>n, <2>1 DEF VaultRecords
  <2>3. Total(w) = Total(v) + FeeOf[job.slot]
    BY <1>n, <2>2 DEF Total
  <2> QED
    BY <1>3, <1>n, <2>2, <2>3 DEF Forward
<1>4. CASE job.at = "send"
  <2>1. job.cmd \in {"fund", "manage", "policy", "pay", "withdraw", "close"} /\ Loaded(job)
    BY <1>4 DEF JobRecords, Commands, Loaded
  <2>2. v.status = "open"
    BY <1>4, <2>1 DEF Possible
  (* What is left to show of a command that is sent.                       *)
  <2>s. SUFFICES w \in VaultRecords /\ Forward(v, w) /\ Total(w) = Total(v)
    BY <1>4, <2>1
  <2>3. CASE job.cmd = "fund"
    <3>1. w = [v EXCEPT !.funds = v.funds + 1]
      BY <1>4, <2>3 DEF Effect
    <3>2. w \in VaultRecords
      BY <1>1, <1>n, <3>1 DEF VaultRecords
    <3> QED
      BY <1>1, <1>n, <3>1, <3>2 DEF VaultRecords, Forward, Total
  <2>4. CASE job.cmd = "manage"
    <3>1. w = v
      BY <1>4, <2>4 DEF Effect
    <3> QED
      BY <1>1, <3>1, SameForward
  <2>5. CASE job.cmd = "policy"
    <3>1. w = [v EXCEPT !.limits = Policy(job), !.edits = v.edits + 1]
      BY <1>4, <2>5 DEF Effect
    <3>2. Policy(job) \in [Limits -> Values \cup {Default}]
      BY DEF Policy, JobRecords, VaultRecords
    <3>3. w \in VaultRecords
      <4>1. v.edits + 1 \in Nat
        BY <1>1 DEF VaultRecords
      <4>2. \A l \in [Limits -> Values \cup {Default}] :
              [v EXCEPT !.limits = l, !.edits = v.edits + 1] \in VaultRecords
        BY <1>1, <4>1, RewrittenTyped
      <4> QED
        BY <3>1, <3>2, <4>2, Zenon
    <3>4. /\ w.status = v.status /\ w.reserve = v.reserve /\ w.charged = v.charged
          /\ w.edits = v.edits + 1
      BY <1>1, <3>1 DEF VaultRecords
    <3> QED
      BY <1>n, <3>3, <3>4 DEF Forward, Total
  <2>6. CASE job.cmd = "pay"
    <3>1. v.funds > 0 /\ v.reserve > 0
      BY <1>4, <2>6 DEF Possible
    <3>2. w = [Charge(v) EXCEPT !.funds = v.funds - 1]
      <4>1. w = [Charge(v) EXCEPT !.funds = Charge(v).funds - 1]
        BY <1>4, <2>6 DEF Effect
      <4> QED
        BY <1>1, <3>1, <4>1, ChargeKeeps
    <3>3. PICK u \in VaultRecords : u = Charge(v)
      BY <1>1, <3>1, ChargeKeeps
    <3>4. /\ Total(u) = Total(v) /\ u.status = v.status /\ u.edits = v.edits
          /\ u.limits = v.limits
      BY <1>1, <3>1, <3>3, ChargeKeeps
    <3>5. w = [u EXCEPT !.funds = v.funds - 1] /\ v.funds - 1 \in Nat
      BY <1>n, <3>1, <3>2, <3>3
    <3>6. /\ w \in VaultRecords /\ w.reserve = u.reserve /\ w.charged = u.charged
          /\ w.status = u.status /\ w.edits = u.edits /\ w.limits = u.limits
      BY <3>5 DEF VaultRecords
    <3>7. Total(w) = Total(u)
      BY <3>6 DEF Total
    <3> QED
      BY <1>n, <3>4, <3>6, <3>7 DEF Forward
  <2>7. CASE job.cmd = "withdraw"
    <3>1. w = [v EXCEPT !.funds = v.funds - 1] /\ v.funds > 0
      BY <1>4, <2>7 DEF Effect, Possible
    <3>2. w \in VaultRecords
      BY <1>1, <1>n, <3>1 DEF VaultRecords
    <3> QED
      BY <1>1, <1>n, <3>1, <3>2 DEF VaultRecords, Forward, Total
  <2>8. CASE job.cmd = "close"
    <3>1. w = [v EXCEPT !.status = "closed", !.funds = 0]
      BY <1>4, <2>8 DEF Effect
    <3>2. w \in VaultRecords
      <4>1. v.limits \in [Limits -> Values \cup {Default}]
        BY <1>1 DEF VaultRecords
      <4> QED
        BY <1>1, <3>1, <4>1, RewrittenTyped
    <3>3. /\ w.status = "closed" /\ w.limits = v.limits /\ w.edits = v.edits
          /\ w.reserve = v.reserve /\ w.charged = v.charged
      BY <1>1, <3>1 DEF VaultRecords
    <3> QED
      BY <1>n, <3>2, <3>3 DEF Forward, Total
  <2> QED
    BY <2>1, <2>3, <2>4, <2>5, <2>6, <2>7, <2>8
<1> QED
  BY <1>2, <1>3, <1>4 DEF Sending

(* What a transaction that is rejected makes of its vault.                 *)
LEMMA RejectedForward ==
  ASSUME CliTypeOK, NEW job, job.slot \in Slots, NEW w \in Rejected(job)
  PROVE  /\ w \in VaultRecords /\ Forward(vault[job.slot], w)
         /\ w.funds = vault[job.slot].funds /\ Total(w) = Total(vault[job.slot])
<1> DEFINE v == vault[job.slot]
<1>1. v \in VaultRecords
  BY DEF CliTypeOK
<1>2. CASE w = v
  BY <1>1, <1>2, SameForward
<1>3. CASE w = Charge(v) /\ v.reserve > 0
  <2>1. v.edits \in Nat
    BY <1>1 DEF VaultRecords
  <2> QED
    BY <1>1, <1>3, <2>1, ChargeKeeps DEF Forward
<1> QED
  BY <1>2, <1>3 DEF Rejected

-----------------------------------------------------------------------------
(* What every step leaves to show.  The vaults move forward, a file that   *)
(* is replaced is dropped, and the steps of one command leave the others   *)
(* in place.                                                               *)
VaultsForward ==
  vault' \in [Slots -> VaultRecords] /\ \A s \in Slots : Forward(vault[s], vault'[s])

FileKept ==
  /\ cfg' \in Slots \cup {NoCfg, Torn}
  /\ dropped \subseteq dropped' /\ dropped' \subseteq Slots
  /\ cfg \in Slots => cfg' = cfg \/ cfg \in dropped'

LEMMA StillVaults ==
  ASSUME CliInv, UNCHANGED vault
  PROVE  VaultsForward
<1>1. vault \in [Slots -> VaultRecords]
  BY DEF CliInv, CliTypeOK
<1> QED
  BY <1>1, SameForward DEF VaultsForward

(* One waits as the other does, perhaps alongside more saved files.        *)
Alike(job, new) ==
  /\ new \in JobRecords
  /\ new.at = job.at /\ new.cmd = job.cmd /\ new.slot = job.slot
  /\ new.seen = job.seen /\ new.sent = job.sent
  /\ job.alongside \subseteq new.alongside

(* What another command must not do to one that makes a vault.             *)
LeavesMaker(job, new) ==
  job.cmd = "init" =>
    /\ Total(vault'[job.slot]) = Total(vault[job.slot])
    /\ job.at # "exit" => job.slot # cfg'
    /\ Making(job) /\ cfg' \in Slots => cfg' \in new.alongside

LEMMA OthersKeep ==
  ASSUME CliInv, VaultsForward, FileKept, NEW g \in Shells,
         Alike(jobs[g], jobs'[g]), LeavesMaker(jobs[g], jobs'[g])
  PROVE  JobInv(g)'
<1> DEFINE j == jobs[g]
           k == jobs'[g]
<1>1. /\ InPlace(j) /\ OnVault(j, vault[j.slot], cfg, dropped) /\ ReadBefore(j, vault[j.slot])
      /\ j \in JobRecords /\ k \in JobRecords
  BY DEF CliInv, JobInv, CliTypeOK, Alike
<1>2. /\ k.at = j.at /\ k.cmd = j.cmd /\ k.slot = j.slot /\ k.seen = j.seen /\ k.sent = j.sent
      /\ LeavesMaker(j, k)
  BY DEF Alike
<1> HIDE DEF j, k
<1>3. InPlace(k)
  BY <1>1, <1>2 DEF InPlace, Making, Loaded
<1>4. CASE j.at = "idle"
  <2>1. j.cmd = "none"
    BY <1>1, <1>4 DEF InPlace
  <2>2. OnVault(k, vault'[k.slot], cfg', dropped') /\ ReadBefore(k, vault'[k.slot])
    BY <1>2, <1>4, <2>1 DEF OnVault, ReadBefore, Loaded, Making
  <2> QED
    BY <1>3, <2>2 DEF JobInv, k
<1>5. CASE j.at # "idle"
  <2>1. j.slot \in Slots /\ j.seen \in VaultRecords
    BY <1>1, <1>5 DEF InPlace, JobRecords
  <2>2. PICK v \in VaultRecords : v = vault[j.slot]
    BY <2>1 DEF CliInv, CliTypeOK
  <2>3. PICK w \in VaultRecords : w = vault'[k.slot]
    BY <1>2, <2>1 DEF VaultsForward
  <2>4. Forward(v, w)
    BY <1>2, <2>1, <2>2, <2>3 DEF VaultsForward
  <2>5. Loaded(j) => k.slot = cfg' \/ k.slot \in dropped'
    BY <1>1, <1>2, <2>1 DEF OnVault, FileKept
  <2>6. Making(j) => j.cmd = "init"
    BY <1>1 DEF InPlace
  <2>7. j.cmd = "init" => Total(w) = Total(v)
    BY <1>2, <2>2, <2>3 DEF LeavesMaker
  <2>8. OnVault(k, w, cfg', dropped')
    BY <1>1, <1>2, <2>2, <2>4, <2>5, <2>6, <2>7 DEF OnVault, LeavesMaker, Forward, Loaded, Making
  <2>9. v.edits \in Nat /\ w.edits \in Nat /\ j.seen.edits \in Nat
    BY <2>1 DEF VaultRecords
  <2>10. ReadBefore(k, w)
    BY <1>1, <1>2, <2>2, <2>4, <2>9 DEF ReadBefore, Forward
  <2> QED
    BY <1>3, <2>3, <2>8, <2>10 DEF JobInv, k
<1> QED
  BY <1>4, <1>5

LEMMA CliStep ==
  ASSUME CliInv, VaultsForward, FileKept, NEW h \in Shells, faults' \in Nat,
         jobs' \in [Shells -> JobRecords],
         JobInv(h)',
         \/ jobs'[h].cmd = jobs[h].cmd /\ jobs'[h].slot = jobs[h].slot
         \/ jobs'[h].cmd = "init" => \A g \in Shells : jobs[g].cmd = "init"
                                          => jobs[g].slot # jobs'[h].slot,
         \A g \in Shells : g # h => /\ Alike(jobs[g], jobs'[g])
                                   /\ LeavesMaker(jobs[g], jobs'[g]),
         SavedVaultIsReady', FundedVaultsAreNamed'
  PROVE  CliInv'
<1>1. CliTypeOK'
  BY DEF CliTypeOK, VaultsForward, FileKept
<1>2. ASSUME NEW g \in Shells PROVE JobInv(g)'
  <2>1. CASE g = h
    BY <2>1
  <2>2. CASE g # h
    BY <2>2, OthersKeep
  <2> QED
    BY <2>1, <2>2
<1>3. \A g \in Shells : g # h => jobs'[g].cmd = jobs[g].cmd /\ jobs'[g].slot = jobs[g].slot
  BY DEF Alike
<1>4. OneMaker'
  <2> SUFFICES ASSUME NEW a \in Shells, NEW b \in Shells, jobs'[a].cmd = "init",
                      jobs'[b].cmd = "init", jobs'[a].slot = jobs'[b].slot, a # b
               PROVE  FALSE
    BY DEF OneMaker
  <2>1. OneMaker
    BY DEF CliInv
  <2>2. CASE a # h /\ b # h
    BY <1>3, <2>1, <2>2 DEF OneMaker
  <2>3. CASE a = h
    BY <1>3, <2>1, <2>3 DEF OneMaker
  <2>4. CASE b = h
    BY <1>3, <2>1, <2>4 DEF OneMaker
  <2> QED
    BY <2>2, <2>3, <2>4
<1> QED
  BY <1>1, <1>2, <1>4 DEF CliInv

(* Steps of one command that leave the file: what it does to its vault may *)
(* change the fees of a vault under way only if it is its own.             *)
LEMMA JobStep ==
  ASSUME CliInv, VaultsForward, NEW h \in Shells, NEW new \in JobRecords,
         jobs' = [jobs EXCEPT ![h] = new], UNCHANGED <<cfg, dropped>>, faults' \in Nat,
         InPlace(new), OnVault(new, vault'[new.slot], cfg, dropped),
         ReadBefore(new, vault'[new.slot]),
         \/ new.cmd = jobs[h].cmd /\ new.slot = jobs[h].slot
         \/ new.cmd = "init" => \A g \in Shells : jobs[g].cmd = "init" => jobs[g].slot # new.slot,
         \A s \in Slots :
           Total(vault'[s]) # Total(vault[s]) =>
             jobs[h].cmd = "init" /\ jobs[h].slot = s /\ s # cfg,
         \A s \in Slots :
           vault'[s].funds > 0 => vault[s].funds > 0 \/ s = cfg \/ s \in dropped
  PROVE  CliInv'
<1>1. /\ jobs \in [Shells -> JobRecords] /\ OneMaker /\ cfg \in Slots \cup {NoCfg, Torn}
      /\ dropped \subseteq Slots /\ \A g \in Shells : JobInv(g)
  BY DEF CliInv, CliTypeOK
<1>2. jobs'[h] = new /\ \A g \in Shells : g # h => jobs'[g] = jobs[g]
  BY <1>1
<1>3. JobInv(h)' /\ jobs' \in [Shells -> JobRecords] /\ FileKept
  BY <1>1, <1>2 DEF JobInv, FileKept
<1>4. ASSUME NEW g \in Shells, g # h
      PROVE  Alike(jobs[g], jobs'[g]) /\ LeavesMaker(jobs[g], jobs'[g])
  <2>1. jobs'[g] = jobs[g] /\ jobs[g] \in JobRecords /\ JobInv(g)
    BY <1>1, <1>2, <1>4
  <2>2. ASSUME jobs[g].cmd = "init"
        PROVE  Total(vault'[jobs[g].slot]) = Total(vault[jobs[g].slot])
    <3>1. jobs[g].slot \in Slots
      BY <2>1, <2>2 DEF JobInv, InPlace
    <3>2. jobs[h].cmd = "init" => jobs[h].slot # jobs[g].slot
      BY <1>1, <1>4, <2>2 DEF OneMaker
    <3> QED
      BY <3>1, <3>2
  <2> QED
    BY <2>1, <2>2 DEF Alike, LeavesMaker, JobInv, OnVault
<1>5. SavedVaultIsReady'
  <2> SUFFICES ASSUME cfg \in Slots
               PROVE  vault'[cfg].status # "none" /\ Total(vault'[cfg]) = FeeOf[cfg]
    BY DEF SavedVaultIsReady, Total
  <2>1. vault[cfg].status # "none" /\ Total(vault[cfg]) = FeeOf[cfg]
    BY DEF CliInv, SavedVaultIsReady, Total
  <2> QED
    BY <2>1 DEF VaultsForward, Forward
<1>6. FundedVaultsAreNamed'
  BY DEF CliInv, FundedVaultsAreNamed
<1> QED
  BY <1>2, <1>3, <1>4, <1>5, <1>6, CliStep

(* Steps that only move a command: the file and the vaults stay.           *)
LEMMA MoveStep ==
  ASSUME CliInv, NEW h \in Shells, NEW new \in JobRecords,
         jobs' = [jobs EXCEPT ![h] = new], UNCHANGED <<cfg, vault, dropped>>, faults' \in Nat,
         InPlace(new), OnVault(new, vault[new.slot], cfg, dropped),
         ReadBefore(new, vault[new.slot]),
         \/ new.cmd = jobs[h].cmd /\ new.slot = jobs[h].slot
         \/ new.cmd = "init" => \A g \in Shells : jobs[g].cmd = "init" => jobs[g].slot # new.slot
  PROVE  CliInv'
<1>1. VaultsForward
  BY StillVaults
<1>2. OnVault(new, vault'[new.slot], cfg, dropped) /\ ReadBefore(new, vault'[new.slot])
  OBVIOUS
<1>3. \A s \in Slots : Total(vault'[s]) = Total(vault[s])
  OBVIOUS
<1> QED
  BY <1>1, <1>2, <1>3, JobStep

LEMMA StartKeeps ==
  ASSUME CliInv, NEW h \in Shells, NEW cmd \in Commands \ {"none"}, NEW slot \in Slots,
         NEW named \in SUBSET Limits, NEW value \in Values \cup {Default},
         NEW place \in {"create", "read", "send"},
         Start(h, cmd, slot, named, value, place),
         \/ cmd = "init" /\ place = "create" /\ cfg = NoCfg /\ Fresh(slot)
         \/ cmd # "init" /\ cmd # "policy" /\ place = "send" /\ slot = cfg
         \/ cmd = "policy" /\ place = "read" /\ slot = cfg
  PROVE  CliInv'
<1> DEFINE new == [Idle EXCEPT !.at = place, !.cmd = cmd, !.slot = slot, !.named = named,
                               !.value = value]
<1>1. /\ new.at = place /\ new.cmd = cmd /\ new.slot = slot /\ new \in JobRecords
  BY IdleTyped DEF JobRecords, Places
<1>2. jobs' = [jobs EXCEPT ![h] = new] /\ UNCHANGED <<cfg, vault, faults, dropped>>
  BY DEF Start
<1> HIDE DEF new
<1>3. faults' \in Nat
  BY <1>2 DEF CliInv, CliTypeOK
<1>4. InPlace(new) /\ ReadBefore(new, vault[new.slot])
  BY <1>1 DEF InPlace, ReadBefore, Loaded, Making
<1>5. slot = cfg => vault[slot].status # "none"
  BY DEF CliInv, SavedVaultIsReady
<1>6. cmd = "init" => Total(vault[slot]) = 0 /\ slot # cfg /\ cfg \notin Slots
  BY UnbornTyped, NoCfgAssumption DEF Fresh
<1>7. OnVault(new, vault[new.slot], cfg, dropped)
  BY <1>1, <1>5, <1>6 DEF OnVault, Loaded, Making
<1>8. cmd = "init" => \A g \in Shells : jobs[g].cmd = "init" => jobs[g].slot # slot
  BY DEF Fresh
<1> QED
  BY <1>1, <1>2, <1>3, <1>4, <1>7, <1>8, MoveStep

(* A transaction lands: in the command's own time, or late.                *)
LEMMA LandKeeps ==
  ASSUME CliInv, NEW h \in Shells, jobs[h].at # "idle",
         NEW job \in JobRecords, job.slot = jobs[h].slot, job.cmd = jobs[h].cmd,
         job.at \in Sending, job.at = "send" <=> Loaded(job), Possible(job),
         jobs[h].at # "exit",
         vault' = [vault EXCEPT ![job.slot] = Effect(job)],
         NEW place \in {"reserve", "save", "exit"},
         place = "reserve" => jobs[h].at = "create" /\ job.at = "create",
         place = "save" => jobs[h].at = "reserve" /\ job.at = "reserve",
         jobs' = [jobs EXCEPT ![h].at = place, ![h].landed = TRUE],
         UNCHANGED <<cfg, faults, dropped>>
  PROVE  CliInv'
<1> DEFINE s == job.slot
           new == [jobs[h] EXCEPT !.at = place, !.landed = TRUE]
<1>1. /\ CliTypeOK /\ jobs[h] \in JobRecords /\ JobInv(h) /\ vault \in [Slots -> VaultRecords]
      /\ faults' \in Nat
  BY DEF CliInv, CliTypeOK
<1>2. s \in Slots /\ job.cmd # "none" /\ InPlace(jobs[h])
  BY <1>1 DEF JobInv, InPlace
<1>3. /\ Effect(job) \in VaultRecords
      /\ Forward(vault[s], Effect(job))
      /\ Effect(job).funds > 0 => vault[s].funds > 0 \/ Loaded(job)
      /\ job.at # "reserve" => Total(Effect(job)) = Total(vault[s])
      /\ job.at = "create" => Effect(job).status # "none"
      /\ job.at = "reserve" => Total(Effect(job)) = Total(vault[s]) + FeeOf[s]
  BY <1>1, <1>2, EffectForward
<1>4. vault'[s] = Effect(job) /\ \A r \in Slots : r # s => vault'[r] = vault[r]
  BY <1>1, <1>2
<1>5. VaultsForward
  <2>1. vault' \in [Slots -> VaultRecords]
    BY <1>1, <1>2, <1>3
  <2>2. \A r \in Slots : r # s => Forward(vault[r], vault[r])
    BY <1>1, SameForward
  <2> QED
    BY <1>3, <1>4, <2>1, <2>2 DEF VaultsForward
<1>6. /\ new.at = place /\ new.cmd = job.cmd /\ new.slot = s /\ new \in JobRecords
      /\ new.alongside = jobs[h].alongside
      /\ jobs' = [jobs EXCEPT ![h] = new]
  BY <1>1, ZenonT(60) DEF JobRecords, Places, CliTypeOK
<1> HIDE DEF new
<1>7. InPlace(new)
  BY <1>2, <1>6 DEF InPlace, Loaded, Making
<1>8. OnVault(jobs[h], vault[s], cfg, dropped)
  BY <1>1 DEF JobInv
<1>9. OnVault(new, vault'[s], cfg, dropped)
  <2>1. Loaded(new) => vault'[s].status # "none" /\ (new.slot = cfg \/ new.slot \in dropped)
    BY <1>3, <1>4, <1>6, <1>8 DEF OnVault, Loaded, Forward
  <2>2. new.cmd = "init" => new.slot # cfg
    BY <1>6, <1>8 DEF OnVault
  <2>3. Making(new) /\ cfg \in Slots => cfg \in new.alongside
    BY <1>6, <1>8 DEF OnVault, Making
  <2>4. place = "reserve" => vault'[s].status # "none" /\ Total(vault'[s]) = 0
    BY <1>3, <1>4, <1>8 DEF OnVault
  <2>5. place = "save" => vault'[s].status # "none" /\ Total(vault'[s]) = FeeOf[s]
    BY <1>2, <1>3, <1>4, <1>8, FeeAssumption DEF OnVault, Forward
  <2> QED
    BY <1>6, <2>1, <2>2, <2>3, <2>4, <2>5 DEF OnVault
<1>10. ReadBefore(new, vault'[s])
  BY <1>6 DEF ReadBefore
<1>11. ASSUME NEW r \in Slots, Total(vault'[r]) # Total(vault[r])
       PROVE  jobs[h].cmd = "init" /\ jobs[h].slot = r /\ r # cfg
  <2>1. r = s /\ job.at = "reserve"
    BY <1>3, <1>4, <1>11
  <2>2. job.cmd = "init"
    BY <1>2, <2>1 DEF Loaded
  <2> QED
    BY <1>8, <2>1, <2>2 DEF OnVault
<1>12. ASSUME NEW r \in Slots, vault'[r].funds > 0
       PROVE  vault[r].funds > 0 \/ r = cfg \/ r \in dropped
  <2>1. CASE r # s
    BY <1>4, <1>12, <2>1
  <2>2. CASE r = s
    BY <1>3, <1>4, <1>8, <1>12, <2>2 DEF OnVault, Loaded
  <2> QED
    BY <2>1, <2>2
<1>13. OnVault(new, vault'[new.slot], cfg, dropped) /\ ReadBefore(new, vault'[new.slot])
  BY <1>6, <1>9, <1>10
<1> QED
  BY <1>1, <1>5, <1>6, <1>7, <1>11, <1>12, <1>13, JobStep

(* A transaction is rejected, at once or late.                             *)
LEMMA RejectKeeps ==
  ASSUME CliInv, NEW h \in Shells, jobs[h].at # "idle", NEW job, job.slot = jobs[h].slot,
         NEW w \in Rejected(job), vault' = [vault EXCEPT ![job.slot] = w],
         Goto(h, "exit"), UNCHANGED <<cfg, faults, dropped>>
  PROVE  CliInv'
<1> DEFINE s == job.slot
           new == [jobs[h] EXCEPT !.at = "exit"]
<1>1. /\ CliTypeOK /\ jobs[h] \in JobRecords /\ JobInv(h) /\ vault \in [Slots -> VaultRecords]
      /\ faults' \in Nat
  BY DEF CliInv, CliTypeOK
<1>2. s \in Slots /\ InPlace(jobs[h]) /\ OnVault(jobs[h], vault[s], cfg, dropped)
  BY <1>1 DEF JobInv, InPlace
<1>3. /\ w \in VaultRecords /\ Forward(vault[s], w) /\ w.funds = vault[s].funds
      /\ Total(w) = Total(vault[s])
  BY <1>1, <1>2, RejectedForward
<1>4. vault'[s] = w /\ \A r \in Slots : r # s => vault'[r] = vault[r]
  BY <1>1, <1>2
<1>5. VaultsForward
  <2>1. vault' \in [Slots -> VaultRecords]
    BY <1>1, <1>2, <1>3
  <2>2. \A r \in Slots : r # s => Forward(vault[r], vault[r])
    BY <1>1, SameForward
  <2> QED
    BY <1>3, <1>4, <2>1, <2>2 DEF VaultsForward
<1>6. /\ jobs' = [jobs EXCEPT ![h] = new] /\ new \in JobRecords /\ new.at = "exit"
      /\ new.slot = s /\ new.cmd = jobs[h].cmd
  BY <1>1 DEF Goto, JobRecords, Places
<1> HIDE DEF new
<1>7. InPlace(new)
  BY <1>2, <1>6 DEF InPlace, Making, Loaded
<1>8. OnVault(new, vault'[new.slot], cfg, dropped) /\ ReadBefore(new, vault'[new.slot])
  BY <1>2, <1>3, <1>4, <1>6 DEF OnVault, ReadBefore, Loaded, Making, Forward
<1>9. /\ \A r \in Slots : Total(vault'[r]) = Total(vault[r])
      /\ \A r \in Slots : vault'[r].funds = vault[r].funds
  BY <1>3, <1>4
<1> QED
  BY <1>1, <1>5, <1>6, <1>7, <1>8, <1>9, JobStep

-----------------------------------------------------------------------------
(* The inductive step, one step of a command at a time.                    *)
LEMMA CommandsKeep ==
  ASSUME CliInv, NEW h \in Shells,
         \/ \E s \in Slots : init(h, s)
         \/ fund(h) \/ manage(h) \/ pay(h) \/ withdraw(h) \/ close(h)
         \/ \E named \in SUBSET Limits, value \in Values : policy(h, named, value)
  PROVE  CliInv'
<1>1. ASSUME NEW s \in Slots, init(h, s) PROVE CliInv'
  <2>1. Start(h, "init", s, {}, Default, "create") /\ cfg = NoCfg /\ Fresh(s)
    BY <1>1 DEF init
  <2> QED
    BY <2>1, StartKeeps DEF Commands
<1>2. ASSUME NEW cmd \in {"fund", "manage", "pay", "withdraw", "close"},
             OnSaved(h, cmd, {}, Default, "send")
      PROVE  CliInv'
  <2>1. Start(h, cmd, cfg, {}, Default, "send") /\ cfg \in Slots
    BY <1>2 DEF OnSaved
  <2> QED
    BY <2>1, StartKeeps DEF Commands
<1>3. ASSUME NEW named \in SUBSET Limits, NEW value \in Values, policy(h, named, value)
      PROVE  CliInv'
  <2>1. Start(h, "policy", cfg, named, value, "read") /\ cfg \in Slots
    BY <1>3 DEF policy, OnSaved
  <2> QED
    BY <2>1, StartKeeps DEF Commands
<1> QED
  BY <1>1, <1>2, <1>3 DEF fund, manage, pay, withdraw, close

(* A command that stops, or loses its confirmation.                        *)
LEMMA StopsKeep ==
  ASSUME CliInv, NEW h \in Shells, jobs[h].at # "idle", NEW new \in JobRecords,
         new.slot = jobs[h].slot, new.cmd = jobs[h].cmd, new.seen = jobs[h].seen,
         \/ new.at = "exit"
         \/ new.at = "lost" /\ jobs[h].at \in Sending /\ new.sent = jobs[h].at,
         jobs' = [jobs EXCEPT ![h] = new], UNCHANGED <<cfg, vault, dropped>>, faults' \in Nat
  PROVE  CliInv'
<1>1. JobInv(h)
  BY DEF CliInv
<1>2. /\ InPlace(jobs[h]) /\ OnVault(jobs[h], vault[new.slot], cfg, dropped)
      /\ ReadBefore(jobs[h], vault[new.slot])
  BY <1>1 DEF JobInv
<1>3. InPlace(new) /\ ~Making(new)
  BY <1>2 DEF InPlace, Making, Loaded, Sending
<1>4. OnVault(new, vault[new.slot], cfg, dropped)
  <2>1. new.at = "lost" => jobs[h].at # "exit"
    BY DEF Sending
  <2> QED
    BY <1>2, <1>3, <2>1 DEF OnVault, Loaded, Making
<1>5. ReadBefore(new, vault[new.slot])
  <2>1. new.cmd = "policy" /\ new.at = "lost" => jobs[h].at = "send"
    BY <1>2 DEF InPlace, Loaded, Making, Sending
  <2> QED
    BY <1>2, <2>1 DEF ReadBefore
<1> QED
  BY <1>3, <1>4, <1>5, MoveStep

LEMMA ReadKeeps ==
  ASSUME CliInv, NEW h \in Shells, readVault(h)
  PROVE  CliInv'
<1> DEFINE v == vault[jobs[h].slot]
           place == IF v.status = "open" THEN "send" ELSE "exit"
           new == [jobs[h] EXCEPT !.seen = v, !.at = place]
<1>1. /\ jobs[h].at = "read" /\ jobs \in [Shells -> JobRecords] /\ jobs[h] \in JobRecords
      /\ JobInv(h) /\ UNCHANGED <<cfg, vault, faults, dropped>> /\ faults' \in Nat
      /\ vault \in [Slots -> VaultRecords]
  BY DEF CliInv, CliTypeOK, readVault, At
<1>2. /\ InPlace(jobs[h]) /\ OnVault(jobs[h], v, cfg, dropped) /\ jobs[h].slot \in Slots
  BY <1>1 DEF JobInv, InPlace
<1>3. v \in VaultRecords
  BY <1>1, <1>2
<1>4. jobs' = [jobs EXCEPT ![h] = new]
  BY <1>1 DEF readVault
<1> HIDE DEF v
<1>5. /\ new \in JobRecords /\ new.at = place /\ new.seen = v
      /\ new.slot = jobs[h].slot /\ new.cmd = jobs[h].cmd
  BY <1>1, <1>3 DEF JobRecords, Places
<1> HIDE DEF new
<1>6. InPlace(new) /\ ~Making(new)
  BY <1>1, <1>2, <1>5 DEF InPlace, Making, Loaded
<1>7. OnVault(new, v, cfg, dropped)
  BY <1>1, <1>2, <1>5, <1>6 DEF OnVault, Loaded, Making, InPlace
<1>8. v.edits <= v.edits
  BY <1>3 DEF VaultRecords
<1>9. ReadBefore(new, v)
  BY <1>5, <1>8 DEF ReadBefore
<1>10. OnVault(new, vault[new.slot], cfg, dropped) /\ ReadBefore(new, vault[new.slot])
  BY <1>5, <1>7, <1>9 DEF v
<1> QED
  BY <1>1, <1>4, <1>5, <1>6, <1>10, MoveStep

LEMMA ConfirmKeeps ==
  ASSUME CliInv, NEW h \in Shells, confirm(h)
  PROVE  CliInv'
<1> DEFINE job == jobs[h]
<1>1. /\ job \in JobRecords /\ JobInv(h) /\ job.at \in Sending
      /\ job.at # "idle" /\ job.at # "exit"
  BY DEF CliInv, CliTypeOK, confirm, Sending
<1>2. job.at = "send" <=> Loaded(job)
  BY <1>1 DEF JobInv, InPlace, Loaded, Making, Sending
<1>3. /\ Possible(job) /\ vault' = [vault EXCEPT ![job.slot] = Effect(job)]
      /\ jobs' = [jobs EXCEPT ![h].at = After(job.at), ![h].landed = TRUE]
      /\ UNCHANGED <<cfg, faults, dropped>>
  BY <1>1 DEF confirm
<1>4. /\ job.at = "create" => After(job.at) = "reserve"
      /\ job.at = "reserve" => After(job.at) = "save"
      /\ job.at = "send" => After(job.at) = "exit"
  BY DEF After
<1>5. /\ After(job.at) \in {"reserve", "save", "exit"}
      /\ After(job.at) = "reserve" => job.at = "create"
      /\ After(job.at) = "save" => job.at = "reserve"
  BY <1>1, <1>4 DEF Sending
<1> QED
  BY <1>1, <1>2, <1>3, <1>5, LandKeeps

LEMMA LateKeeps ==
  ASSUME CliInv, NEW h \in Shells, landLate(h)
  PROVE  CliInv'
<1> DEFINE job == [jobs[h] EXCEPT !.at = jobs[h].sent]
<1>1. /\ jobs[h] \in JobRecords /\ JobInv(h) /\ jobs[h].at = "lost"
  BY DEF CliInv, CliTypeOK, landLate, At
<1>2. /\ jobs[h].sent \in Sending /\ (jobs[h].sent = "send" <=> Loaded(jobs[h]))
  BY <1>1 DEF JobInv, InPlace
<1>3. /\ job \in JobRecords /\ job.slot = jobs[h].slot /\ job.cmd = jobs[h].cmd
      /\ job.at = jobs[h].sent
  BY <1>1, <1>2 DEF JobRecords, Places, Sending
<1>4. /\ UNCHANGED <<cfg, faults, dropped>>
      /\ \/ /\ Possible(job) /\ vault' = [vault EXCEPT ![job.slot] = Effect(job)]
            /\ jobs' = [jobs EXCEPT ![h].at = "exit", ![h].landed = TRUE]
         \/ /\ \E w \in Rejected(job) : vault' = [vault EXCEPT ![job.slot] = w]
            /\ Goto(h, "exit")
  BY DEF landLate
<1> HIDE DEF job
<1>5. job.at \in Sending /\ (job.at = "send" <=> Loaded(job))
  BY <1>2, <1>3 DEF Loaded
<1>6. CASE /\ Possible(job) /\ vault' = [vault EXCEPT ![job.slot] = Effect(job)]
           /\ jobs' = [jobs EXCEPT ![h].at = "exit", ![h].landed = TRUE]
  BY <1>1, <1>3, <1>4, <1>5, <1>6, LandKeeps
<1>7. ASSUME NEW w \in Rejected(job), vault' = [vault EXCEPT ![job.slot] = w], Goto(h, "exit")
      PROVE  CliInv'
  BY <1>1, <1>3, <1>4, <1>7, RejectKeeps
<1> QED
  BY <1>4, <1>6, <1>7

LEMMA RefuseKeeps ==
  ASSUME CliInv, NEW h \in Shells, refuse(h)
  PROVE  CliInv'
<1>1. PICK w \in Rejected(jobs[h]) : vault' = [vault EXCEPT ![jobs[h].slot] = w]
  BY DEF refuse
<1>2. jobs[h].at # "idle" /\ Goto(h, "exit") /\ UNCHANGED <<cfg, faults, dropped>>
  BY DEF refuse, Sending
<1> QED
  BY <1>1, <1>2, RejectKeeps

(* A file that an init writes over was saved since it began, so it is      *)
(* dropped.                                                                *)
LEMMA OverwritingKeeps ==
  ASSUME CliInv, NEW h \in Shells, jobs[h].at = "save",
         dropped' = dropped \cup Overwritten(h), cfg' \in Slots \cup {NoCfg, Torn}
  PROVE  FileKept
<1>1. JobInv(h) /\ jobs[h] \in JobRecords /\ dropped \subseteq Slots
  BY DEF CliInv, CliTypeOK
<1>2. cfg \in Slots => cfg \in jobs[h].alongside
  BY <1>1 DEF JobInv, OnVault, Making
<1>3. jobs[h].alongside \subseteq Slots
  BY <1>1 DEF JobRecords
<1> QED
  BY <1>1, <1>2, <1>3 DEF FileKept, Overwritten

LEMMA SaveKeeps ==
  ASSUME CliInv, NEW h \in Shells, saveCfg(h)
  PROVE  CliInv'
<1> DEFINE s == jobs[h].slot
<1>1. /\ jobs \in [Shells -> JobRecords] /\ JobInv(h) /\ jobs[h].at = "save"
      /\ cfg' = s /\ UNCHANGED <<vault, faults>> /\ faults' \in Nat
      /\ dropped' = dropped \cup Overwritten(h) /\ OneMaker
  BY DEF CliInv, CliTypeOK, saveCfg, At
<1>2. /\ jobs[h].cmd = "init" /\ s \in Slots /\ vault[s].status # "none"
      /\ Total(vault[s]) = FeeOf[s]
  BY <1>1 DEF JobInv, InPlace, OnVault, Making
<1>3. FileKept /\ VaultsForward
  BY <1>1, <1>2, OverwritingKeeps, StillVaults
<1>4. jobs' = [g \in Shells |->
        IF g = h THEN [jobs[g] EXCEPT !.at = "exit"]
        ELSE IF Making(jobs[g]) THEN [jobs[g] EXCEPT !.alongside = jobs[g].alongside \cup {s}]
        ELSE jobs[g]]
  <2>1. \A g \in Shells :
          (CASE g = h -> [jobs[g] EXCEPT !.at = "exit"]
             [] g # h /\ Making(jobs[g]) -> [jobs[g] EXCEPT !.alongside = @ \cup {cfg'}]
             [] OTHER -> jobs[g])
          = (IF g = h THEN [jobs[g] EXCEPT !.at = "exit"]
             ELSE IF Making(jobs[g]) THEN [jobs[g] EXCEPT !.alongside = jobs[g].alongside \cup {s}]
             ELSE jobs[g])
    BY <1>1
  <2> QED
    BY <2>1 DEF saveCfg
<1>5. /\ jobs'[h] = [jobs[h] EXCEPT !.at = "exit"]
      /\ \A g \in Shells : g # h =>
           jobs'[g] = IF Making(jobs[g])
                        THEN [jobs[g] EXCEPT !.alongside = jobs[g].alongside \cup {s}]
                        ELSE jobs[g]
  BY <1>4
<1>6. /\ jobs'[h] \in JobRecords /\ jobs'[h].at = "exit" /\ jobs'[h].slot = s
      /\ jobs'[h].cmd = "init"
  BY <1>1, <1>2, <1>5 DEF JobRecords, Places
<1>7. ASSUME NEW g \in Shells, g # h
      PROVE  /\ Alike(jobs[g], jobs'[g])
             /\ Making(jobs[g]) => s \in jobs'[g].alongside
  <2>1. jobs[g] \in JobRecords
    BY <1>1
  <2>2. CASE ~Making(jobs[g])
    BY <1>5, <1>7, <2>1, <2>2 DEF Alike
  <2>3. CASE Making(jobs[g])
    <3>1. jobs'[g] = [jobs[g] EXCEPT !.alongside = jobs[g].alongside \cup {s}]
      BY <1>5, <1>7, <2>3
    <3>2. jobs[g].alongside \cup {s} \in SUBSET Slots
      BY <1>2, <2>1 DEF JobRecords
    <3> QED
      BY <2>1, <3>1, <3>2 DEF Alike, JobRecords
  <2> QED
    BY <2>2, <2>3
<1>8. jobs' \in [Shells -> JobRecords]
  <2>1. \A g \in Shells : jobs'[g] \in JobRecords
    BY <1>6, <1>7 DEF Alike
  <2> QED
    BY <1>4, <2>1
<1>9. ASSUME NEW g \in Shells, g # h PROVE LeavesMaker(jobs[g], jobs'[g])
  <2>1. jobs[g].cmd = "init" => jobs[g].slot # s
    BY <1>1, <1>2, <1>9 DEF OneMaker
  <2> QED
    BY <1>1, <1>7, <1>9, <2>1 DEF LeavesMaker
<1>10. JobInv(h)'
  <2>1. InPlace(jobs'[h])
    BY <1>2, <1>6 DEF InPlace, Making, Loaded
  <2>2. OnVault(jobs'[h], vault'[jobs'[h].slot], cfg', dropped')
    BY <1>6 DEF OnVault, Loaded, Making
  <2>3. ReadBefore(jobs'[h], vault'[jobs'[h].slot])
    BY <1>6 DEF ReadBefore
  <2> QED
    BY <2>1, <2>2, <2>3 DEF JobInv
<1>11. SavedVaultIsReady'
  BY <1>1, <1>2 DEF SavedVaultIsReady, Total
<1>12. FundedVaultsAreNamed'
  BY <1>1, <1>3 DEF CliInv, FundedVaultsAreNamed, FileKept
<1> QED
  BY <1>1, <1>2, <1>3, <1>6, <1>7, <1>8, <1>9, <1>10, <1>11, <1>12, CliStep

(* A kill, that may leave the file cut off.                                *)
LEMMA KillKeeps ==
  ASSUME CliInv, NEW h \in Shells, kill(h)
  PROVE  CliInv'
<1> DEFINE new == [jobs[h] EXCEPT !.at = "exit"]
<1>1. /\ jobs \in [Shells -> JobRecords] /\ jobs[h] \in JobRecords /\ JobInv(h)
      /\ jobs[h].at \in {"read", "save"} /\ jobs' = [jobs EXCEPT ![h] = new]
      /\ UNCHANGED vault /\ faults' \in Nat /\ \A g \in Shells : JobInv(g)
  BY DEF CliInv, CliTypeOK, kill, Goto, Fault
<1>2. /\ new \in JobRecords /\ new.at = "exit" /\ new.slot = jobs[h].slot
      /\ new.cmd = jobs[h].cmd /\ new.seen = jobs[h].seen
  BY <1>1 DEF JobRecords, Places
<1> HIDE DEF new
<1>3. CASE UNCHANGED <<cfg, dropped>>
  BY <1>1, <1>2, <1>3, StopsKeep
<1>4. CASE /\ jobs[h].at = "save" /\ cfg' = Torn /\ dropped' = dropped \cup Overwritten(h)
  <2>1. FileKept /\ VaultsForward
    BY <1>1, <1>4, OverwritingKeeps, StillVaults
  <2>2. jobs'[h] = new /\ \A g \in Shells : g # h => jobs'[g] = jobs[g]
    BY <1>1
  <2>3. jobs' \in [Shells -> JobRecords] /\ jobs[h].cmd = "init"
    BY <1>1, <1>2, <1>4 DEF JobInv, InPlace, Making
  <2>4. InPlace(new) /\ ReadBefore(new, vault'[new.slot])
        /\ OnVault(new, vault'[new.slot], cfg', dropped')
    BY <1>1, <1>2, <2>3 DEF JobInv, InPlace, Making, Loaded, ReadBefore, OnVault
  <2>5. JobInv(h)'
    BY <2>2, <2>4 DEF JobInv
  <2>6. ASSUME NEW g \in Shells, g # h
        PROVE  Alike(jobs[g], jobs'[g]) /\ LeavesMaker(jobs[g], jobs'[g])
    <3>1. jobs'[g] = jobs[g] /\ jobs[g] \in JobRecords /\ InPlace(jobs[g])
      BY <1>1, <2>2, <2>6 DEF JobInv
    <3>2. jobs[g].cmd = "init" => jobs[g].slot \in Slots
      BY <3>1 DEF InPlace
    <3> QED
      BY <1>1, <1>4, <3>1, <3>2, NoCfgAssumption DEF Alike, LeavesMaker
  <2>7. SavedVaultIsReady'
    BY <1>4, NoCfgAssumption DEF SavedVaultIsReady
  <2>8. FundedVaultsAreNamed'
    BY <1>1, <2>1 DEF CliInv, FundedVaultsAreNamed, FileKept
  <2> QED
    BY <1>1, <1>2, <2>1, <2>2, <2>3, <2>5, <2>6, <2>7, <2>8, CliStep
<1> QED
  BY <1>1, <1>3, <1>4 DEF kill, At

(* The owner deletes the file.                                             *)
LEMMA DeleteKeeps ==
  ASSUME CliInv, deleteCfg
  PROVE  CliInv'
<1>1. /\ cfg \in Slots \cup {NoCfg, Torn} /\ cfg' = NoCfg /\ UNCHANGED <<vault, jobs, faults>>
      /\ dropped' = dropped \cup ({cfg} \cap Slots) /\ CliTypeOK'
      /\ jobs \in [Shells -> JobRecords] /\ \A g \in Shells : JobInv(g)
  BY DEF CliInv, CliTypeOK, deleteCfg
<1>2. VaultsForward /\ FileKept
  <2>1. dropped \subseteq Slots
    BY DEF CliInv, CliTypeOK
  <2> QED
    BY <1>1, <2>1, StillVaults DEF FileKept
<1>3. ASSUME NEW g \in Shells PROVE JobInv(g)'
  <2>1. jobs'[g] = jobs[g] /\ jobs[g] \in JobRecords /\ InPlace(jobs[g])
    BY <1>1 DEF JobInv
  <2>2. jobs[g].cmd = "init" => jobs[g].slot \in Slots
    BY <2>1 DEF InPlace
  <2>3. Alike(jobs[g], jobs'[g]) /\ LeavesMaker(jobs[g], jobs'[g])
    BY <1>1, <2>1, <2>2, NoCfgAssumption DEF Alike, LeavesMaker
  <2> QED
    BY <1>2, <2>3, OthersKeep
<1>4. OneMaker' /\ SavedVaultIsReady'
  BY <1>1, NoCfgAssumption DEF CliInv, OneMaker, SavedVaultIsReady
<1>5. FundedVaultsAreNamed'
  BY <1>1, <1>2 DEF CliInv, FundedVaultsAreNamed, FileKept
<1> QED
  BY <1>1, <1>3, <1>4, <1>5 DEF CliInv

LEMMA CliInductive ==
  ASSUME CliInv, [Next]_vars
  PROVE  CliInv'
<1>t. /\ jobs \in [Shells -> JobRecords] /\ faults \in Nat
      /\ \A h \in Shells : jobs[h] \in JobRecords /\ JobInv(h)
  BY DEF CliInv, CliTypeOK
<1>1. CASE UNCHANGED vars
  <2>1. CliTypeOK' /\ SavedVaultIsReady' /\ FundedVaultsAreNamed' /\ OneMaker'
    BY <1>1 DEF vars, CliInv, CliTypeOK, SavedVaultIsReady, FundedVaultsAreNamed, OneMaker
  <2>2. \A h \in Shells : JobInv(h)'
    BY <1>t, <1>1 DEF vars, JobInv
  <2> QED
    BY <2>1, <2>2 DEF CliInv
<1>2. ASSUME NEW h \in Shells, loseConfirmation(h) PROVE CliInv'
  <2> DEFINE new == [jobs[h] EXCEPT !.sent = jobs[h].at, !.at = "lost"]
  <2>0. jobs' = [jobs EXCEPT ![h] = new]
    BY <1>t, <1>2 DEF loseConfirmation
  <2> HIDE DEF new
  <2>1. /\ jobs[h].at \in Sending /\ jobs[h].at # "idle"
        /\ UNCHANGED <<cfg, vault, dropped>> /\ faults' \in Nat
    <3>1. jobs[h].at \in Sending /\ UNCHANGED <<cfg, vault, dropped>> /\ faults' = faults + 1
      BY <1>2 DEF loseConfirmation, Fault
    <3>2. jobs[h].at # "idle"
      BY <3>1 DEF Sending
    <3>3. faults' \in Nat
      BY <1>t, <3>1
    <3> QED
      BY <3>1, <3>2, <3>3
  <2>2. /\ new \in JobRecords /\ new.at = "lost" /\ new.slot = jobs[h].slot
        /\ new.cmd = jobs[h].cmd /\ new.seen = jobs[h].seen /\ new.sent = jobs[h].at
    BY <1>t, <2>1 DEF JobRecords, Places, new
  <2> QED
    BY <2>0, <2>1, <2>2, StopsKeep
<1>3. ASSUME Next PROVE CliInv'
  BY <1>2, <1>3, CommandsKeep, ReadKeeps, ConfirmKeeps, RefuseKeeps, LateKeeps, SaveKeeps,
     KillKeeps, DeleteKeeps DEF Next
<1> QED
  BY <1>1, <1>3

(* Types, and all that the three properties below rest on.                 *)
THEOREM CliCorrect == Spec => []CliInv
  BY InitCli, CliInductive, PTL DEF Spec

(* Whatever shells, kills and late transactions do, a file that can be     *)
(* read names a vault that was made, and whose delegate was sent all the   *)
(* fees that init was asked to send, be it none.                           *)
THEOREM SavedIsReady == Spec => []SavedVaultIsReady
<1>1. CliInv => SavedVaultIsReady
  BY DEF CliInv
<1> QED
  BY <1>1, CliCorrect, PTL

(* A vault that no file names holds money only if the owner deleted its    *)
(* file or an init that overlapped its own wrote over it.                  *)
THEOREM FundedAreNamed == Spec => []FundedVaultsAreNamed
<1>1. CliInv => FundedVaultsAreNamed
  BY DEF CliInv
<1> QED
  BY <1>1, CliCorrect, PTL

-----------------------------------------------------------------------------
(* A policy written over the one it read.                                  *)
PolicyKeeps(h) ==
  jobs[h].cmd = "policy" /\ ~jobs[h].landed /\ jobs'[h].landed =>
    LET s == jobs[h].slot
    IN  \/ jobs[h].seen.edits # vault[s].edits
        \/ \A f \in Limits \ jobs[h].named : vault'[s].limits[f] = vault[s].limits[f]

LEMMA PolicyLands ==
  ASSUME CliInv, NEW h \in Shells, jobs[h].cmd = "policy",
         NEW job \in JobRecords, job.slot = jobs[h].slot, job.cmd = "policy", job.at = "send",
         job.named = jobs[h].named, job.seen = jobs[h].seen, jobs[h].at \in {"send", "lost"},
         vault' = [vault EXCEPT ![job.slot] = Effect(job)]
  PROVE  PolicyKeeps(h)
<1> DEFINE s == jobs[h].slot
<1>1. JobInv(h) /\ jobs[h].at # "idle" /\ vault \in [Slots -> VaultRecords]
  BY DEF CliInv, CliTypeOK
<1>2. s \in Slots /\ ReadBefore(jobs[h], vault[s])
  BY <1>1 DEF JobInv, InPlace
<1>3. vault'[s] = Effect(job) /\ vault[s] \in VaultRecords
  BY <1>1, <1>2
<1>4. Effect(job) = [vault[s] EXCEPT !.limits = Policy(job), !.edits = vault[s].edits + 1]
  BY DEF Effect
<1>5. vault'[s].limits = Policy(job)
  BY <1>3, <1>4 DEF VaultRecords
<1>6. jobs[h].seen.edits = vault[s].edits => jobs[h].seen.limits = vault[s].limits
  BY <1>2 DEF ReadBefore
<1>7. \A f \in Limits \ jobs[h].named : Policy(job)[f] = jobs[h].seen.limits[f]
  BY DEF Policy
<1> QED
  BY <1>5, <1>6, <1>7 DEF PolicyKeeps

LEMMA StepKeepsUnnamed ==
  ASSUME CliInv, [Next]_vars
  PROVE  [\A h \in Shells : PolicyKeeps(h)]_vars
<1>1. CASE UNCHANGED vars
  BY <1>1
<1>2. ASSUME Next, NEW h \in Shells, jobs[h].cmd = "policy", ~jobs[h].landed, jobs'[h].landed
      PROVE  PolicyKeeps(h)
  <2>t. /\ jobs \in [Shells -> JobRecords] /\ jobs[h] \in JobRecords /\ InPlace(jobs[h])
    BY DEF CliInv, CliTypeOK, JobInv
  <2>1. CASE confirm(h)
    <3>1. jobs[h].at = "send" /\ vault' = [vault EXCEPT ![jobs[h].slot] = Effect(jobs[h])]
      BY <1>2, <2>t, <2>1 DEF confirm, Sending, InPlace, Making
    <3> QED
      BY <1>2, <2>t, <3>1, PolicyLands
  <2>2. CASE landLate(h)
    <3> DEFINE job == [jobs[h] EXCEPT !.at = jobs[h].sent]
    <3>1. jobs[h].at = "lost" /\ jobs[h].sent = "send"
      BY <1>2, <2>t, <2>2 DEF landLate, At, InPlace, Loaded
    <3>2. /\ job \in JobRecords /\ job.slot = jobs[h].slot /\ job.cmd = "policy"
          /\ job.at = "send" /\ job.named = jobs[h].named /\ job.seen = jobs[h].seen
      BY <1>2, <2>t, <3>1 DEF JobRecords, Places
    <3>3. vault' = [vault EXCEPT ![job.slot] = Effect(job)]
      <4>1. CASE Goto(h, "exit")
        BY <1>2, <2>t, <4>1 DEF Goto, JobRecords
      <4> QED
        BY <2>2, <4>1 DEF landLate
    <3> HIDE DEF job
    <3> QED
      BY <1>2, <3>1, <3>2, <3>3, PolicyLands
  <2>3. ASSUME NEW g \in Shells, g # h, confirm(g) \/ landLate(g) PROVE FALSE
    BY <1>2, <2>t, <2>3 DEF confirm, landLate, Goto
  <2>4. ASSUME NEW g \in Shells, NEW cmd, NEW slot, NEW named, NEW value, NEW place,
               Start(g, cmd, slot, named, value, place)
        PROVE  FALSE
    BY <1>2, <2>t, <2>4 DEF Start, Idle
  <2>5. ASSUME NEW g \in Shells,
               readVault(g) \/ refuse(g) \/ loseConfirmation(g) \/ kill(g)
        PROVE  FALSE
    BY <1>2, <2>t, <2>5 DEF readVault, refuse, loseConfirmation, kill, Goto, JobRecords
  <2>6. ASSUME deleteCfg PROVE FALSE
    BY <1>2, <2>6 DEF deleteCfg
  <2>7. ASSUME NEW g \in Shells, saveCfg(g) PROVE FALSE
    <3>1. jobs'[h] = CASE h = g -> [jobs[h] EXCEPT !.at = "exit"]
                       [] h # g /\ Making(jobs[h]) -> [jobs[h] EXCEPT !.alongside = @ \cup {cfg'}]
                       [] OTHER -> jobs[h]
      BY <2>7 DEF saveCfg
    <3>2. jobs'[h].landed = jobs[h].landed
      BY <2>t, <3>1 DEF JobRecords
    <3> QED
      BY <1>2, <3>2
  <2> QED
    BY <1>2, <2>1, <2>2, <2>3, <2>4, <2>5, <2>6, <2>7
       DEF Next, init, fund, manage, pay, withdraw, close, policy, OnSaved
<1> QED
  BY <1>1, <1>2 DEF PolicyKeeps

(* policy writes back a limit it was not told to change, unless another    *)
(* policy was written since it read the vault.                             *)
THEOREM UnnamedAreKept == Spec => UnnamedLimitsKept
<1>1. CliInv /\ [Next]_vars =>
        [\A h \in Shells :
           jobs[h].cmd = "policy" /\ ~jobs[h].landed /\ jobs'[h].landed =>
             LET s == jobs[h].slot
             IN  \/ jobs[h].seen.edits # vault[s].edits
                 \/ \A f \in Limits \ jobs[h].named :
                       vault'[s].limits[f] = vault[s].limits[f]]_vars
  BY StepKeepsUnnamed DEF PolicyKeeps
<1> QED
  BY <1>1, CliCorrect, PTL DEF Spec, UnnamedLimitsKept
=============================================================================
