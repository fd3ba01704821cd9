-------------------------------- MODULE Cli --------------------------------
(***************************************************************************)
(* The command line (src/cli/budgent.mjs): every command is a process that *)
(* reads .budgent/vault.json, sends transactions and exits.  Commands of   *)
(* several shells overlap, a process can be killed, a confirmation can be  *)
(* lost and its transaction land later.  Amounts are units of one; what an *)
(* instruction demands is PolicyVault's, who may sign it Transactions'.    *)
(***************************************************************************)
EXTENDS Naturals, FiniteSets

CONSTANTS
  Slots,        \* vault ids, each with the delegate generated for it
  FeeOf,        \* FeeOf[s]: the --fee of the init that draws s, 0 allowed
  Shells,       \* commands of a behaviour
  NoCfg,        \* there is no vault.json
  Torn,         \* vault.json was cut off while it was written
  Values,       \* limits a command can ask for
  Default,      \* the limits of init
  MaxFunds,     \* bound on the balance of a vault
  MaxFaults     \* bound on failing calls, lost confirmations and kills

ASSUME NoCfgAssumption == NoCfg \notin Slots /\ Torn \notin Slots /\ NoCfg # Torn
ASSUME FeeAssumption == FeeOf \in [Slots -> Nat]

VARIABLES
  cfg,       \* the vault, and delegate secret, that vault.json names
  vault,     \* vault[s]: the vault account, what its delegate has for fees
  jobs,      \* jobs[h]: the command of shell h
  faults,    \* faults so far
  dropped    \* history: vaults whose file was deleted, or lost to an overlapping init

vars == <<cfg, vault, jobs, faults, dropped>>

Limits == {"per-tx", "daily", "cosign"}

Unborn == [status |-> "none", limits |-> [f \in Limits |-> Default], edits |-> 0,
           funds |-> 0, reserve |-> 0, charged |-> 0]

Idle == [at |-> "idle", cmd |-> "none", slot |-> "none", named |-> {}, value |-> Default,
         seen |-> Unborn, sent |-> "none", landed |-> FALSE, alongside |-> {}]

Init ==
  /\ cfg = NoCfg
  /\ vault = [s \in Slots |-> Unborn]
  /\ jobs = [h \in Shells |-> Idle]
  /\ faults = 0
  /\ dropped = {}

At(h, place) == jobs[h].at = place
Goto(h, place) == jobs' = [jobs EXCEPT ![h].at = place]
Fault == faults < MaxFaults /\ faults' = faults + 1

-----------------------------------------------------------------------------
(* The commands.                                                           *)

Start(h, cmd, slot, named, value, place) ==
  /\ At(h, "idle")
  /\ jobs' = [jobs EXCEPT ![h] =
       [Idle EXCEPT !.at = place, !.cmd = cmd, !.slot = slot, !.named = named,
                    !.value = value]]
  /\ UNCHANGED <<cfg, vault, faults, dropped>>

(* Vault ids are drawn at random, and none is drawn twice.                 *)
Fresh(s) == vault[s] = Unborn /\ \A g \in Shells : jobs[g].cmd = "init" => jobs[g].slot # s

(* Mutant: init does not look for an existing file.                        *)
Mut_init(h, s) == Fresh(s) /\ Start(h, "init", s, {}, Default, "create")

(* init looks for a file when it starts, and never again: two may overlap. *)
init(h, s) == cfg = NoCfg /\ Fresh(s) /\ Start(h, "init", s, {}, Default, "create")

(* Every other command starts by loading the file, and ends if it cannot.  *)
OnSaved(h, cmd, named, value, place) ==
  cfg \in Slots /\ Start(h, cmd, cfg, named, value, place)

fund(h) == OnSaved(h, "fund", {}, Default, "send")
manage(h) == OnSaved(h, "manage", {}, Default, "send")
policy(h, named, value) == OnSaved(h, "policy", named, value, "read")
pay(h) == OnSaved(h, "pay", {}, Default, "send")
withdraw(h) == OnSaved(h, "withdraw", {}, Default, "send")
close(h) == OnSaved(h, "close", {}, Default, "send")

(* policy reads the vault; a closed one cannot be fetched.                 *)
readVault(h) ==
  LET s == jobs[h].slot
  IN  /\ At(h, "read")
      /\ jobs' = [jobs EXCEPT ![h].seen = vault[s],
                              ![h].at = IF vault[s].status = "open" THEN "send" ELSE "exit"]
      /\ UNCHANGED <<cfg, vault, faults, dropped>>

(* Mutant: limits the command does not name go back to the defaults.       *)
Mut_Policy(job) == [f \in Limits |-> IF f \in job.named THEN job.value ELSE Default]

(* It writes all three limits, those not named as it read them.            *)
Policy(job) == [f \in Limits |-> IF f \in job.named THEN job.value ELSE job.seen.limits[f]]

Possible(job) ==
  LET v == vault[job.slot]
  IN  CASE job.at = "create"  -> v.status = "none"
        [] job.at = "reserve" -> TRUE
        [] job.cmd = "fund"   -> v.status = "open" /\ v.funds < MaxFunds
        [] job.cmd = "pay"    -> v.status = "open" /\ v.funds > 0 /\ v.reserve > 0
        [] job.cmd = "withdraw" -> v.status = "open" /\ v.funds > 0
        [] OTHER              -> v.status = "open"

(* The delegate signs a payment alone or first, and is charged its fee.    *)
Charge(v) == [v EXCEPT !.reserve = @ - 1, !.charged = @ + 1]

Effect(job) ==
  LET v == vault[job.slot]
  IN  CASE job.at = "create"  -> [v EXCEPT !.status = "open"]
        [] job.at = "reserve" -> [v EXCEPT !.reserve = @ + FeeOf[job.slot]]
        [] job.cmd = "fund"   -> [v EXCEPT !.funds = @ + 1]
        [] job.cmd = "manage" -> v
        [] job.cmd = "policy" -> [v EXCEPT !.limits = Policy(job), !.edits = @ + 1]
        [] job.cmd = "pay"    -> [Charge(v) EXCEPT !.funds = @ - 1]
        [] job.cmd = "withdraw" -> [v EXCEPT !.funds = @ - 1]
        [] job.cmd = "close"  -> [v EXCEPT !.status = "closed", !.funds = 0]

(* A payment that passes the simulation and fails on chain is charged too. *)
Rejected(job) ==
  LET v == vault[job.slot]
  IN  {v} \cup {w \in {Charge(v)} : job.cmd = "pay" /\ v.reserve > 0}

Sending == {"create", "reserve", "send"}

After(place) == CASE place = "create"  -> "reserve"
                  [] place = "reserve" -> "save"
                  [] place = "send"    -> "exit"

(* The transaction lands and is confirmed.                                 *)
confirm(h) ==
  /\ jobs[h].at \in Sending
  /\ Possible(jobs[h])
  /\ vault' = [vault EXCEPT ![jobs[h].slot] = Effect(jobs[h])]
  /\ jobs' = [jobs EXCEPT ![h].at = After(@), ![h].landed = TRUE]
  /\ UNCHANGED <<cfg, faults, dropped>>

(* The simulation or the chain rejects it: pay prints REVERTED, the others *)
(* the error.                                                              *)
refuse(h) ==
  /\ jobs[h].at \in Sending
  /\ ~Possible(jobs[h])
  /\ \E v \in Rejected(jobs[h]) : vault' = [vault EXCEPT ![jobs[h].slot] = v]
  /\ Goto(h, "exit")
  /\ UNCHANGED <<cfg, faults, dropped>>

(* The confirmation fails, or the process is killed: the transaction may   *)
(* land later, or never.                                                   *)
loseConfirmation(h) ==
  /\ Fault
  /\ jobs[h].at \in Sending
  /\ jobs' = [jobs EXCEPT ![h].sent = jobs[h].at, ![h].at = "lost"]
  /\ UNCHANGED <<cfg, vault, dropped>>

landLate(h) ==
  LET job == [jobs[h] EXCEPT !.at = jobs[h].sent]
  IN  /\ At(h, "lost")
      /\ \/ /\ Possible(job)
            /\ vault' = [vault EXCEPT ![job.slot] = Effect(job)]
            /\ jobs' = [jobs EXCEPT ![h].at = "exit", ![h].landed = TRUE]
         \/ /\ ~Possible(job)
            /\ \E v \in Rejected(job) : vault' = [vault EXCEPT ![job.slot] = v]
            /\ Goto(h, "exit")
      /\ UNCHANGED <<cfg, faults, dropped>>

Making(job) == job.at \in {"create", "reserve", "save"}

(* What file is written over, if one was saved since init began.           *)
Overwritten(h) == {cfg} \cap jobs[h].alongside

(* Mutant: init saves before it creates anything.                          *)
Mut_saveCfg(h) ==
  /\ jobs[h].cmd = "init" /\ jobs[h].at = "create"
  /\ cfg = NoCfg /\ cfg' = jobs[h].slot
  /\ UNCHANGED <<vault, jobs, faults, dropped>>

(* The last step of init keeps the vault id and the delegate's secret,     *)
(* over those of an init that was faster.                                  *)
saveCfg(h) ==
  /\ At(h, "save")
  /\ cfg' = jobs[h].slot
  /\ dropped' = dropped \cup Overwritten(h)
  /\ jobs' = [g \in Shells |->
       CASE g = h -> [jobs[g] EXCEPT !.at = "exit"]
         [] g # h /\ Making(jobs[g]) -> [jobs[g] EXCEPT !.alongside = @ \cup {cfg'}]
         [] OTHER -> jobs[g]]
  /\ UNCHANGED <<vault, faults>>

(* The process is killed, perhaps when the file is emptied and not yet     *)
(* written.                                                                *)
kill(h) ==
  /\ Fault
  /\ jobs[h].at \in {"read", "save"}
  /\ \/ UNCHANGED <<cfg, dropped>>
     \/ /\ At(h, "save")
        /\ cfg' = Torn
        /\ dropped' = dropped \cup Overwritten(h)
  /\ Goto(h, "exit")
  /\ UNCHANGED vault

(* init tells the owner to delete an existing file to create a new one.    *)
deleteCfg ==
  /\ cfg # NoCfg
  /\ cfg' = NoCfg
  /\ dropped' = dropped \cup ({cfg} \cap Slots)
  /\ UNCHANGED <<vault, jobs, faults>>

Next ==
  \/ \E h \in Shells :
       \/ \E s \in Slots : init(h, s)
       \/ fund(h) \/ manage(h) \/ pay(h) \/ withdraw(h) \/ close(h)
       \/ \E named \in SUBSET Limits, value \in Values : policy(h, named, value)
       \/ readVault(h) \/ confirm(h) \/ refuse(h) \/ loseConfirmation(h)
       \/ landLate(h) \/ saveCfg(h) \/ kill(h)
  \/ deleteCfg

Spec == Init /\ [][Next]_vars

-----------------------------------------------------------------------------
(* A file that can be read names a vault that was made and a delegate that *)
(* got all the fees init was told to send it, less what payments were      *)
(* charged: init saves only after both its transactions are confirmed,     *)
(* whatever other commands, kills and late transactions do meanwhile.      *)
SavedVaultIsReady ==
  cfg \in Slots => /\ vault[cfg].status # "none"
                   /\ vault[cfg].reserve + vault[cfg].charged = FeeOf[cfg]

(* Money sits in a vault that no file names only if the owner deleted its  *)
(* file, or an init that was under way when it was saved wrote over it.    *)
(* No init that stops midway leaves any behind, and commands that follow   *)
(* one another never lose a file.                                          *)
FundedVaultsAreNamed ==
  \A s \in Slots : vault[s].funds > 0 => s = cfg \/ s \in dropped

(* policy changes a limit it was not told to only if another policy was    *)
(* written between its own reading and its writing.                        *)
UnnamedLimitsKept ==
  [][\A h \in Shells :
       jobs[h].cmd = "policy" /\ ~jobs[h].landed /\ jobs'[h].landed =>
         LET s == jobs[h].slot
         IN  \/ jobs[h].seen.edits # vault[s].edits
             \/ \A f \in Limits \ jobs[h].named : vault'[s].limits[f] = vault[s].limits[f]]_vars
=============================================================================
