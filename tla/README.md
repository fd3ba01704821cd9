# Verification of Budgent

TLA+ models, TLC configurations and TLAPS proofs for Budgent: an on-chain
policy vault (`src/onchain/programs/budgent_vault/src/lib.rs`, Anchor/Solana),
the NestJS backend that pays from it (`src/backend/src`) and the clients of
both (`src/cli`, `src/agent`, `src/sdk`, `src/desktop`, `src/wallet-tui`).

## The system

| Part | State it keeps | Operations | Interacts with |
|---|---|---|---|
| Program `budgent_vault` | the `Vault` account (mint, delegate, limits, window, lists, totals), the lamports and token accounts of its address | 13 instructions: initialize, policy edits, deposits, `pay_*`, `withdraw_*`, `close_vault_*`, `reset_window`, `sweep_token` | every transaction executes against it, atomically |
| `PolicyService` | none | `evaluate`: the program's rules, off-chain | called by `PaymentsService` |
| `PaymentsService` | the `Payment` rows (status, signature), the audit log | `createAndExecute`, `approveHeld`, `denyHeld` | reads the chain, submits transactions, writes rows, all with `await` between |
| `SolanaService`, IDL, units | none (an RPC connection) | `send`, `fetchVault`, `vaultBalance`, one wrapper per instruction with its accounts, signers and amount | the cluster |
| `VaultsService`, `KeystoreService` | the cached `Vault` row, the sealed delegate keys | create, owner operations, `syncFromChain`, `close`, `audit` | chain, database, files |
| `IndexerService` | `onchainConfirmed` of rows, a cursor | log subscription, 20 s poller, `ingest` | chain events to rows |
| CLI | `.budgent/vault.json` | init, fund, allow, block, policy, pay, withdraw, close | the program, directly |
| Agent, SDKs, MCP server, integrations, wallets | what they have been told | payments over HTTP, each with its own kind of idempotency key | guard, API keys, payments |
| `LedgerService`, `ResourcesService`, `RedisService`, controllers, scripts | rows, counters | reads, upserts, routing | HTTP layer |

What is hard here: the window is rolled lazily inside a payment; a long legal
sequence of owner edits, resets, closes and re-initializations must keep the
totals right; assets arrive at the address without the program's knowledge;
a request spans many awaits during which the vault, the row and the transaction
all change; an RPC reply can be lost or late, so a transaction lands after its
request gave up; processes stop between a submission and its record; a signed
transaction meets a vault whose delegate has been replaced; callers repeat what
may have been done. `PROJECT.json` lists each such hazard at its line with the
properties that cover it, or why none does.

What makes each part correct:

* program: assets are conserved and leave only to the owner or as a logged
  payment; the account keeps its rent; the counters agree with the log; the
  boundary bound of the module docs (about twice the daily limit) holds; all of
  it together is an escrow with a metered grant (`Escrow`);
* mirror: its verdict and deciding rule are the program's;
* payments: one submission per idempotency key, a row that says paid is right,
  only an approval that overtook the denial pays a denied intent, a decided row
  changes only where two decisions collide, every intent is decided; and while
  the owner decides once at a time, an intent is paid once, the audit log tells
  one ending, and the whole is the lifecycle of `Intents`;
* transactions: complete signatures whatever keys coincide, a co-signature that
  lends no money, the magnitude that was typed (a sign is lost on the way), and
  no authority but that of the keys that signed, judged when the transaction
  lands;
* owner operations: no vault without its key, no money in a vault no row names,
  a true audit log, answers that show the caller's own change (a token balance
  that could not be read excepted), a cache that catches up;
* indexer: a row is confirmed by a settled payment of its context (by its own if
  it is alone with it), behind the cursor nothing is left but what a poll passed
  over unread, every other settled payment is confirmed in the end;
* clients: a named purchase is paid once, reports are covered by payments, a
  revoked key creates nothing, what was told stays true while no decision is
  under way, an agent that has a plan gets through it; a file of the command line
  that can be read names a vault that was made with its fees, and a vault with
  money is named unless its file was deleted or overwritten.

## Modules

```
BudgetRules        rules and commit (pure)            lib.rs authorize_and_commit, Vault
  PolicyVault      the program, one vault address     lib.rs, every instruction
    PolicyMirror   PolicyService.evaluate             policy.service.ts
      Payments     payment lifecycle over the chain   payments.service.ts, solana.service.ts
    VaultEscrow    the program read as an Escrow      (refinement mapping)
Escrow             what the program promises          (abstract specification)
Intents            what the lifecycle promises        (abstract specification, mapped in Payments)
Units              decimals to base units             units.ts, budgent.mjs
  Transactions     accounts, signatures, landing      solana.service.ts, budgent.mjs
Instructions       the program's interface            idl/budgent_vault.ts
VaultsService      owner operations, cached vault     vaults.service.ts, keystore.service.ts
Indexer            events to rows, the poll cursor    indexer.service.ts
Clients            agent, SDK, tools, wallets, guard  agent.ts, sdk/, wallet-tui, desktop
Cli                the command line and its file      budgent.mjs
...Proofs          TLAPS proofs of the module named   PolicyVaultProofs has the mirror and
                                                      the escrow, BudgetProofs the counters
                                                      and the budget of PolicyVault
MC...              instances for TLC
```

`EXTENDS` goes downwards: `Payments` uses the very actions of `PolicyVault`, so
a landed transaction is a `Settle` of the program and the owner's and the
world's steps are its own. Definitions named `Mut_...` are deliberately broken
variants of the definition that follows them; nothing uses them in the
specifications, they serve to show that a property notices the bug.

### BudgetRules

`Vaults` is the `Vault` account without owner, id and bump, which never change
for one address. `authorize` is `authorize_and_commit` up to its first failing
`require!`, returned by name, in source order; `commit` is what it writes.
`u64` values are numbers up to `U64Max` and every `checked_add` is a comparison
with it; the two checked additions after the last rule belong to `authorize`,
since a failed instruction leaves no trace. Lists are sets: the program
only tests membership and length. The clock is monotone, so `saturating_sub`
is an addition on the other side.

### PolicyVault

| Variable | Code |
|---|---|
| `vault` | the account, or `NoVault` before initialization and after a close |
| `held[a]` | lamports of the address (rent included), balance of its token account per mint |
| `atas` | mints whose token account exists |
| `wallet` | what the owner and everybody else hold, so that conservation can be stated |
| `now` | `Clock::unix_timestamp` |
| `events` | the `PaymentSettled` events, in order |
| `arms` | times at which the owner opened a window (history variable) |

Each instruction is one action named after it; `manage_list` is two, one per
kind. Account constraints of the `#[derive(Accounts)]` structs are guards:
`mint \in atas` where `vault_ata` must exist, `atas \cup {mint}` where it is
`init_if_needed`. `initialize_vault` tops the account up to the rent, as
Anchor's `init` does when lamports are already there. `sweep_token` takes any
mint and closes the account. `send_tokens`, `send_lamports` and `tick` are
external. Not counted: transaction fees, the rent of token accounts, several
token accounts per mint, recipients equal to the vault itself.

### PolicyMirror

`evaluate` returns the verdict and the rule that decided it. `RuleOf` maps the
program's errors to the mirror's rules, `Agree` compares the two. They can
differ only in what `evaluate` does not see: the key that will sign and the two
lifetime counters (`CountersFit`).

### Payments

`rows[id]` is the payment row, named by its idempotency key; `handlers[h]` is
one HTTP request, `pc` the await it is at:

| `pc` | Code |
|---|---|
| `idle` | the request has not arrived; `create` inserts the row (the insert is the lock), `decide` is the status test of `approveHeld`/`denyHeld` |
| `fetch`, `balance` | `fetchVault`, then `vaultBalance` with `evaluate` in the same step |
| `hold`, `record_offline`, `fail`, `deny` | the update of that branch |
| `submit` | blockhash, preflight, `sendRawTransaction`; forced (no preflight) after a REVERT verdict |
| `confirm` | `confirmTransaction` |
| `record`, `audit` | row update, then the audit entry where the branch has one |

`txs` are submitted transactions: `land` executes one against the vault as it is
then, `expire` is the blockhash running out. With `RpcFaults`, reads and the
blockhash can throw (`abort`), a submission can lose its reply (`sendLost`), a
confirmation can fail whatever the transaction does (`confirmLost`), and a
failed token balance read counts as 0. With `DbFaults`, the writes of a row or
of the audit log throw as well (`abort`): the request ends and the row stays as
it was, also when its transaction is already submitted. `crash` ends every
request under way. `Serial` restricts the owner to one decision at a time on a
row: the code does not enforce it, the runs with `Serial = FALSE` show what
follows. Not modelled here: the domain lookup and the context hash (inputs),
fees and slots, the refresh of the cached vault that ends a request (it is a
reader of `VaultsService`).

### Escrow and VaultEscrow

`Escrow` says what the program is for, without its account layout, its list of
instructions or its way to keep time: an address holds assets, a grant lets one
delegate hand out one asset within a limit per payment and a limit per window;
the owner can take anything out, amend, renew and end. A window is a countdown
that forgets what was spent at the tick it reaches 0. The program has no
countdown: it stores when the window started and rolls it in the first payment
that finds it elapsed. `VaultEscrow` gives the mapping: `key` is `NoKey` while
the delegate is off, `spent` is `SpentNow` (0 once the window elapsed, whatever
the account still says) and `left` what remains of the window. Each of the
program's steps, both closes with what they return included, is then a step of
the escrow or a stutter.

### Intents

`Intents` is the lifecycle as the owner sees it, with no requests, transactions
or signatures: what is `said` of an intent (the row's status), how often money
`moved` for it and which endings were `told` (the audit log). Money moves once at
most, and only for an intent that is open or of which a rejection was said (the
lost answer); a denial and a failure need that nothing moved, a confirmation that
something did; what is logged is what was said. `Payments` maps its state with
`Said`, `Transfers` (the landed transactions of a row) and `Told`: a request's
reads, its submission and everything else on the chain are stutters.

### Units, Instructions and Transactions

An amount is a literal of any sign, a JSON number or a text, in thousandths of a
base unit; `Near` is how far the nearest binary fraction of a decimal can be
from it. `toBaseUnits` prints a number with two more digits than the asset has,
takes a text as it is, cuts what is past the asset's decimals and puts the sign
back; `lam` of the command line multiplies and rounds. Nothing refuses a
negative amount, and the `u64` an instruction carries is the magnitude (`U64`).
Only where the code looks at the amount is there a guard: a withdrawal of the
backend must be positive, an amount of the command line not zero. `Instructions`
is the interface as the IDL gives it: for each instruction the accounts in order
with the flags `writable`, `signer` and the `relations` the program checks. In
`Transactions` each wrapper of `SolanaService` is an operator that puts one
transaction in `flight`: `Metas` builds the account list, `markSigner` flips the
first account with a key, `send` keeps what is signed and whether signing or
serializing would throw. `land` takes any transaction of `flight` at any later
time, against the vault as it is then. Keys may coincide: the owner can be paid,
be its own delegate (`Agents` may contain `OwnerKey`), the vault can be named as
its own recipient. `byHand` is anybody who builds an instruction with the key
they hold. What lists, windows and limits say is `PolicyVault`'s; here a change
of them only flips `rules`.

### VaultsService

| Variable | Code |
|---|---|
| `account[s]` | the vault of one random id: whether it exists, how often it changed (`at`, its balance included), delegate switch, balance |
| `row[s]` | what the database row caches of it, or `NoRow`; `asOf` (a history field) is the change its balance is from |
| `sealed` | ids whose delegate key is in the key store |
| `audit[s][act]`, `done[s][act]` | entries of the audit log; how often the owner did it on the chain |
| `jobs[h]` | a request: the await it is at, its operation, what it read (`seen`), wrote and answers |

`create` seals a key, then `send` lands `initialize_vault`, `fundDelegate` may
fail without ending it, `insertRow` and `writeAudit` follow, and every operation
but `close` ends in the four steps of `syncFromChain` (`lookUp`, `fetchVault`,
`vaultBalance`, `updateRow`). `close` empties the row without reading the chain
(`zeroRow`). A balance read that fails throws for a SOL vault; for those of
`Tokens` it gives 0 (`Reads`, as `solana.service.ts:208-214` does), which a
refresh then writes and answers and which makes a withdrawal of everything end
with "nothing to withdraw" (`measure`). `refuse` is `ensure` throwing on the
transaction's error, `fail` any read or write that throws, `loseConfirmation` a
confirmation that fails: the request ends, the transaction lands later or never
(`landLate`). `restart` ends every request; what was being sent may still land.
`Pollers` are the readers (`GET /vaults/:id`, the refresh after a payment).
Agents' payments change the account too (`pay`).

### Indexer

| Variable | Code |
|---|---|
| `log` | the program's transactions as `getSignaturesForAddress` lists them, oldest first; a position stands for signature order and slot |
| `rows[r]` | `signature`, `slot`, `onchainConfirmed` of a payment row |
| `createdAt`, `recorded` | insertion order; whether the payment request has written its outcome |
| `contextOf` | the context hash of each transaction, which never changes: purchases repeated with the same URL, resource and task share one |
| `cursor` | `IndexerCursor.lastSignature` |
| `pollers[p]`, `notices[t]` | a `pollSignatures` call, the callback of one log notification |

`ingest` is two steps, `findFirst` and `update`, because the signature written
is the one read (`Matching`, `Found`, `Update`). A poll reads the cursor
(`pollStart`), lists a page (`pollList`), goes through it (`pollSkip`,
`pollFetch`, `pollUpdate`) and writes the cursor (`pollCursor`); nothing keeps a
second one from starting meanwhile. What it passes over without reading, because
it is older than the page (`PageStart`) or its read gives null (`pollSkip` with
`MissingReads`), goes into the history variable `overlooked`: the code has no
trace of it. `land` delivers or loses the notification; `pollError` and
`restart` can come at any point. `record` is the payment request's own update,
before or after the indexer's, with the signature lost or with the later slot of
the confirmation when the transaction's is not readable. A row submits one
transaction, which has the row's name; fetching a transaction and finding its
row are one step, since a transaction never changes. The module stands on its
own: it needs of `Payments` only these three writes, and of the program only
that a successful payment emits its event. `blockTime` follows `slot` and is
left out.

### Clients

Five kinds of callers share one backend. They differ in the key of a payment:
the agent's is its task, the domain and the price (`agentKey`), an SDK caller
names its purchase, the terminal and desktop wallets and the tools get a fresh
one per call. `plan[c]` is what a caller still wants, `calls` every call made
with where the backend is with it, `rows` the payment rows by key. A call can
end for its caller (`agentError`, `otherError`) while the backend goes on with
it; the agent then takes the next purchase, the others may repeat the same.
An agent starts by reading its budget, outside any `try`: `agentQuit` is that read
failing, for one because the key is revoked, and the run ending with nothing
tried. The tools' server and the desktop wallet post calls side by side.
`authenticate` is the guard, `insert` the unique key of the rows, `execute` the
verdict (how it is reached is `Payments`'), `answer` reads the row back.
`restart` ends what the backend was doing and leaves the row as it was; `revoke`
is the owner's, and so are the decisions on held payments. A decision is two
steps as in the code: `ownerBegins` finds the row HELD, `ownerEnds` writes its
outcome by id some awaits later, whatever the row says by then, or fails and
writes none; `decisions` are those under way, and several may be about one row.

### Cli

`cfg` is the vault that `vault.json` names, `NoCfg` without a file, `Torn` for
one cut off while it was written, which no command can parse. `jobs[h]` is one
command, a process of its own. `init` looks for a file when it starts and never
again; then come two transactions and the file, any of which can be its last
step. Two of them may overlap: the slower one writes its file over the other's.
`deleteCfg` is the owner deleting the file, at any time. `policy` reads the
vault and writes three limits back. A confirmation can be lost and its
transaction land after the command exited. The delegate pays the fee of each
payment it signs, of one that fails on the chain too (`Charge`), out of the
reserve `init --fee` gave it, which may be 0 (`FeeOf`). Three parts of the state
are history, for the properties: `dropped` are the vaults whose file was deleted
or written over, `alongside` what was saved while an `init` was under way,
`charged` the fees paid so far.

## Runs

| Run | Checks | Shows |
|---|---|---|
| `vault_budget` | `TypeOK`, `SpentIsWindowTotal`, `TotalMatchesHistory`, `RollingBudget`, `MirrorAgrees` | SOL vault over several windows; counters, log, boundary bound and mirror |
| `vault_custody` | `Conservation`, `RentExempt`, `OnlyOwnerOrBudget`, `ImplementsEscrow` | all assets, foreign mint, direct transfers; the program implements the escrow |
| `payments_serial` | `PaymentsTypeOK`, `AtMostOncePaid`, `AuditTellsOneStory`, `KeepsPromise` | SPL vault, faulty RPC, skewed clock, one decision at a time; the lifecycle implements `Intents` |
| `payments_overlap` | `AtMostOneCreateSubmission`, `LedgerNeverOverstates`, `DeniedPaidOnlyByApproval`, `FinalUnlessContested` | free overlap, faulty RPC, failing writes, a restart |
| `payments_live` | `EveryIntentDecided` | liveness without faults, reverts recorded off-chain |
| `indexer` | `IndexerTypeOK`, `ConfirmedByItsContext`, `BehindCursorConfirmed`, `EventuallyConfirmed` | overlapping and failing polls, lossy subscription, restarts; shared and distinct contexts, a page that is too short, reads that give null |
| `vaults` | `KeyOfEveryVault`, `OrphansHoldNothing`, `AuditNeverOverstates`, `AnswerShowsOwnChange`, `EventuallyCurrent` | two owner requests and a reader of a token vault, two faults or restarts, late landings |
| `transactions` | `OnlyForeignCosignerThrows`, `CosignSpendsNothingElse`, `AmountAsTyped`, `PaymentsAuthorized`, `OnlyOwnerChangesVault` | every wrapper, every coincidence of keys, amounts of both signs as numbers and texts, two transactions in flight |
| `clients` | `NamedPurchasePaidOnce`, `ReportIsPaid`, `RevokedCreatesNothing`, `ToldVerdictStands`, `AgentWorksThrough` | each kind of caller with lost answers and repeated calls, overlapping decisions, a restart, a revocation; plans with and without repetition |
| `cli` | `SavedVaultIsReady`, `FundedVaultsAreNamed`, `UnnamedLimitsKept` | four overlapping commands, two `init`s among them, kills, lost confirmations, deleted files, a delegate without fees |
| `reverted_moved` | `RevertedMovedNothing` violated | REVERTED recorded for a transfer that succeeded |
| `double_approve` | `AtMostOncePaid` violated | two overlapping approvals both pay |

### Where the code and its words differ

The last two runs are findings (`PROJECT.json`, "findings"). Met while
modelling, and not given a run of their own:

* `lib.rs:348` says a close "drains every token": `close_vault_spl` returns the
  vault's own mint and the lamports; another mint's tokens stay at the address,
  where they can only be swept after a re-initialization.
* With two decisions overlapping, DENIED is recorded over an approval whose
  transfer is in flight (same cause as `double_approve`);
  `DeniedPaidOnlyByApproval` and `FinalUnlessContested` say that nothing else
  can do it.
* A write that fails after the submission leaves a row HELD whose payment is on
  its way, so that a second approval pays it again
  (`payments.service.ts:197,208`); so does a restart there.
* Negative amounts are refused nowhere: `units.ts:9-15` keeps the sign,
  `payments.service.ts:130-138` submits what the mirror rejected, the `u64` of the
  instruction is the magnitude, and `budgent.mjs:45` takes `-5` too.
  `AmountAsTyped` states what arrives.
* `solana.service.ts:208-214` gives 0 for a token balance it cannot read: a
  deposit can be answered with balance 0, a withdrawal of everything with
  "nothing to withdraw".
* A read that fails after the insert leaves the row CREATED for good; repeating
  the call returns that row (`EveryIntentDecided` therefore takes
  `RpcFaults = FALSE`).
* Two purchases with the same context share a context hash, and the event of one
  can confirm the row of the other: `schema.prisma:127` says "indexer matched the
  event", and `ConfirmedByItsContext` is what that amounts to.
* `pollSignatures` reads one page (100) and skips a null: the cursor moves past
  payments no poll reads again. `BehindCursorConfirmed` and `EventuallyConfirmed`
  except exactly those.
* Two purchases of one agent plan with the same domain and price are one payment,
  counted twice in its report; `ReportIsPaid` allows for calls that repeat one.
* `budgent.mjs:108` looks for the file, `:133` writes it two transactions later:
  the file of a vault that is funded meanwhile is written over. It also tells the
  owner to delete the file, with no word of what is in the vault. Either leaves
  money in a vault no file names (`FundedVaultsAreNamed`).
* `sdk/mcp/server.mjs:71` describes `taskId` as "attribution / idempotency"; it
  is no part of the key, a repeated tool call pays again.
* The row of a closed vault can show the balance of a sync that was in flight
  when it closed.
* `budgent.mjs:34` calls `PublicKey.default()`, which is a static value, not a
  function, in `@solana/web3.js`; the models take the native sentinel as meant.
  The wallets read `/v1/public/vaults/...`, which no controller serves; the
  models do not depend on it.

### Bounds

* `U64Max` 3 or 5 in the vault runs, so that the lifetime total overflows;
  8 in the payment runs, where it should not.
* `WINDOW_SECONDS = 2`, `MaxNow = 4`, `MaxPayments = 3`, `MaxArms = 2`: two
  roll-overs and one owner reset, the fewest that can add up two windows in one
  stretch; three payments of 2 exhaust the bound of a stretch with one reset;
  amounts 1 and 2 against limits 1 and 2, so a limit can be lowered below what
  was spent.
* `MAX_LIST_LEN = 0` in `vault_budget` keeps lists out of a run about time;
  `vault_custody` fills a list of length 1 with one recipient.
* `MaxArms = 2` in `vault_custody` admits a close followed by a second life of
  the address; `Amounts` contains 0 (a token account created empty).
* Payment runs: three requests on one key (creation, duplicate or decision,
  second decision) are the least that overlap two decisions on a held row;
  two steps of others on the chain (switch off and on again); a daily limit
  that admits two held payments, so that the limit does not hide a double one.
  Requests are symmetric.
* `indexer`: one row and one payment the backend did not submit, with the same
  context or another one, are enough for a page to grow between two polls, for an
  event that matches no row and for one that matches another's; `PageLimit = 1`
  makes a backlog of two overflow the page, `MissingReads` lets a read give null;
  two polls overlap, and one of them or the process fails once. The theorems
  cover any rows, contexts, page limit and polls.
* `vaults`: one vault, as nothing relates two, of a token (the reads of a SOL vault
  differ only in that one that fails throws like any other call); two owner requests, so that one overtakes the other at every await,
  and one reader; `MaxFaults = 2` allows a lost confirmation and a failure or a
  restart on top; one payment and a balance of 1 give every operation something
  to change.
* `transactions`: `MaxFlight = 2` is the least with an order; two delegate keys and
  the owner's own, one of which replaces the other; `Typed` are the worst binary
  fractions of 1 (below) and of -2 (beyond) and the text 2; `CosignAt = 2`
  separates them. The two delegate keys are symmetric.
* `clients`: `MaxActive = 1`, since callers share nothing but the key to revoke
  and rows of different callers never meet; `MaxCalls = 2` is a purchase and its
  repetition, or the next one; two decisions of the owner overlap; one plan names
  two purchases that differ in the price only, the other names one twice.
* `cli`: four commands are two `init`s that overlap, a `fund` and one more, or an
  `init` and a `policy` overtaken by another; two vault ids, of which one delegate
  gets a fee and the other none; two faults. Commands are symmetric.
* Deadlock is not checked: all these systems are passive and stop at their
  bounds, or when no request arrives.

### Fairness

`LiveSpec` assumes weak fairness of each handler's own steps (the event loop
runs a continuation whose promise settled) and of each submitted transaction
(it lands or its blockhash expires). Nothing obliges a request to arrive, an
owner to decide or the chain to change. `Indexer` assumes weak fairness of each
poll: the interval timer starts it again after it ended, and a read is answered
or fails, the latter a bounded number of times. Nothing is assumed of the
subscription, of the payment requests or of the chain. `VaultsService` assumes
weak fairness of each handler's steps and that a reader reads again (dashboards
poll); `EventuallyCurrent` only speaks of vaults that are being read. `Clients`
assumes it of the agent's own program alone: its `await` ends, by an answer or
by an error, and it goes on; the backend is not assumed to answer.

## Proofs

Checked by TLAPS for every value of the constants, under the named assumptions
of the modules (keys, mints and the sentinel are distinct, numbers are numbers,
inputs are u64, `NoVault` is no vault; jobs and pollers are finite and apart,
and so are an agent, an SDK caller and the other clients; `NoCfg` and `Torn` are
no vault ids and fees are numbers; the stranger and the vault's address are
nobody else's key; amounts are literals of any sign). A theorem that needs more
says so in its own ASSUME.

* `PolicyVaultProofs`. `Custody`: `CustodyInv == TypeOK /\ Conservation /\
  RentExempt` is inductive. The parts need each other: that a payment leaves
  `held` a natural number uses the balance rule, that an SPL payment leaves the
  rent alone uses `Native \notin Mints`, and that the outflow of a SOL vault
  stays above the rent uses `RentExempt` before the step (otherwise
  `saturating_sub` would hide a deficit). Lemmas about the three ways assets
  move (`PayInKeeps`, `PayOutKeeps`, `DrainKeeps`) carry the sums; each
  instruction then reduces to one of them. `TypeCorrect`, `AssetsConserved` and
  `AlwaysRentExempt` are its parts; `OnlyOwnerOrBudgetHolds` is the action
  property from the same invariant. `VaultIsEscrow`: initial states map to
  initial states and every step to a step of `Escrow` or a stutter. The window
  is the subtle part: the program rolls it only when it pays, the escrow
  whenever a day has passed (`LaterGrant` shows that what is left never shrinks
  by waiting). It uses `CustodyInv`, and covers payments, the owner's
  instructions and transfers by anybody. `SameRule`: `evaluate` and `authorize`
  stop at the same rule for all inputs; the only subtle case is the window
  overflow that the mirror does not test (`OverflowIsOverDaily`).
  `MirrorAlwaysAgrees` lifts it to reachable states.
* `BudgetProofs`, the counters and the budget, for any number of payments, lives
  of the address and windows. A sum over the log is `MapThenSumSet`, a recursive
  function; that it does not depend on the order, and grows with its set, is
  proved by induction over finite sets. The library's induction theorems cannot
  be instantiated here, but the set form of well-foundedness can (`WFMin` on `<`
  over the naturals): `Ascend` and `GrowingSets` put it to use, and `SumUnion`
  and its like follow. `AccountInv` adds to `CustodyInv` that nothing is dated
  after the clock and the limit is one the owner wrote (`Times`), that the window
  counts at least what was paid after its start and at most what was paid from
  it on (`WindowCounted`: payments of the second of a reset fall on either side)
  and that totals are those of the latest payments (`HistoryKept`). Steps are of
  three kinds: quiet, a window opened, a payment. `SpentMatchesLog` and
  `TotalsMatchLog` are its parts. `RollingBudgetHolds` needs more, since a bound
  on every stretch does not follow from one window's counter: `StretchKept(t)`
  says, for a stretch in which the present window began, how far what was paid in
  it is ahead of what the window counts, one limit per window opened by the
  owner and one for the window it found; a lazy roll-over happens once in a
  stretch, because it needs a window to have elapsed. Its hypothesis
  `DailyLimits # {}` only says that an owner has some limit to write, without
  which `Max(DailyLimits)` is no number.
* `IndexerProofs`, for any rows, contexts, page limit and polls. `IndexerTypes`:
  `TypeInv`, the types with where each kind of job may point; it needs that the
  log only grows. `ContextPaymentConfirms`: `OwnInv` adds what a job between its
  `findFirst` and its `update` holds, that no row has a signature of another
  context, and that a transaction lands once: without the last, the request's own
  update could move a confirmed row to a failed transaction.
  `NothingLeftBehind`: `CursorInv` says how far each poll has come (`Behind`),
  which is what a cursor moved back by an older poll still respects: whatever is
  behind it and was read has confirmed a row of its context. That reading an
  entry of the backend's finds a row at all (`NewestExists`) needs that ranks are
  bounded, and then confirmation is only ever added.
* `PaymentsProofs`, with any number of requests, RPC faults and restarts, and
  over the very program `PolicyVault` describes. `BackendInv` has three parts:
  `Shapes` (rows, transactions and requests are well-formed, a request at work
  has a row), `Lock` (one creation at most may still submit for a key, and then
  nothing was submitted for it) and `Ledger` (what a request learnt about its
  transaction is so, a row that says paid has a landed transaction, and the
  program logged it with the amount and recipient of the row). The steps of a
  request fall into three kinds, `Moves`, `Writes` and `Submits`, and each kind
  is treated once. `OneSubmissionPerKey` and `LedgerIsRight` follow.
  `PaymentsTyped` adds `MemoryInv`: the transaction a request remembers was
  submitted before it (`Pointers`), a balance is judged against a vault that was
  read, and the account stays well-formed under every step of the chain
  (`AccountTyped`, which a landing transaction, the owner and the world keep).
  Two theorems are about overlapping decisions and take no hypothesis either:
  `ContestInv` adds that a creation is about to write only a CREATED row, a
  decision only a HELD one or one another request decided on too, and that no
  creation submitted anything for a row that is held or denied (`Contest`).
  `DeniedUnlessApproved` and `FinalUnlessOvertaken` follow. Three more hold
  under three hypotheses: the owner decides on a payment once at a time
  (`Serial`), the backend is not restarted (`MaxCrashes = 0`) and its writes do
  not fail (`~DbFaults`). `DecisionInv` adds `OneWriter` (at most one request is
  about to write a row, the row waits in the status that let it in, and a
  transaction belongs to that request or the row is decided) and `OneEnding` (an
  ending is told by the request that decided or by the log, never by both).
  `PaidOnce` and `OneStory` follow. `PromiseKept` is the refinement of
  `Intents`: `Named` adds that the ending a request is about to log is its
  row's, that no transaction was made for a row that failed and that only
  creations hold and only denials deny; then each write is one of five abstract
  actions (`WriteStep`), a landing is the payment (`PayStep`), an audit entry
  tells what was said (`TellStep`) and the rest is `Quiet`. No hypothesis can
  go: `double_approve` pays twice when two approvals overlap, and a restart or a
  failing write between the submission and its record leaves a row HELD whose
  payment was already sent, so that a second decision pays it again.
* `VaultsServiceProofs`. `VaultsInv` gives each request what it relies on
  (`JobOK`: its slot has a key, its row exists unless it is the creation, its act
  is an operation), and with it `VaultsTypes`, `KeysAreKept` and
  `OrphansAreEmpty`. `AuditIsBacked` counts: the entries of the log and the
  requests whose transaction landed but whose entry is still to come (`Owing`)
  are together no more than what the chain did (`AddsUp`). `AnswersAreRecent`
  uses that the chain only ages (`Aging`), deposits, withdrawals and payments
  included, and that a row is only written of a vault that was created (`Born`),
  so that a vault which is not open when a request reads it is closed; the balance
  answered is as of the request's change or later, or the 0 of a token account
  that could not be read (`BalanceOK`).
* `ClientsProofs`, for any number of callers of each kind, calls, plans and
  restarts; an agent is no other kind of caller, and nothing on offer is the mark
  of a caller that has not decided (`ClientsAssumption`). `Naming` says that what
  a caller still wants tells which key its next call carries: a call keeps the
  length of the plan it was made with, and the plan only gets shorter. `Keyed`
  says that a key has one row, inserted by a call that passed the guard, which no
  call made with a revoked key does; and `Begun`, that a decision under way is
  about a payment that was held once, hence one its creation neither settled nor
  will write again. `NamedOnce`, `RevocationHolds` and `VerdictsStand` follow: a
  final verdict that was told stays, except while a decision is under way that
  may still overwrite it. `ReportsArePaid` takes any plan. `Faithful` says that
  what a call was told was said of its row; `Counts`, that a report is no larger
  than the set of calls that were told "settled" (`Told`). Of each key all but
  the first of them repeat an earlier call, and the first stands for a row of its
  own in `Paid`.
* `TransactionsProofs`, over every builder of the backend, the command line and
  `byHand`, and every coincidence of keys. A transaction is `Sound` from the
  moment it is built: whether it throws, what it can write and what it carries
  depend on nothing that changes later. That the signatures match comes from
  each instruction's account list (`SignersOfOwner`, `SignersOfPayment`,
  `SignersOfCosigned`, `MarkedWritables`: `markSigner` adds the owner's
  signature and no writable account). `FlightCorrect` is the invariant;
  `OnlyForeignThrows`, `CosignIsHarmless` and `AmountsArrive` (truncation and
  rounding agree in magnitude on every literal of whole units, of either sign,
  number or text) are its parts. `PaymentsAreAuthorized` and
  `OnlyTheOwnerChanges` are action properties: whatever was signed before, the
  vault at the landing decides.
* `CliProofs`, for any number of shells and vault ids. `CliInv` says of each
  command where it is with which vault (`JobInv`): the vault a command loaded
  was made, and is the file's or was dropped since (`OnVault`); what `policy`
  read is the vault as it was some edits ago (`ReadBefore`); a vault id belongs
  to one `init` (`OneMaker`), the vault it is making is no file's yet, and a
  file that is there was saved since it began, which is what its own saving
  drops; `reserve` and `charged` together are 0 until the fee is sent and the
  fee from then on. Vaults only move forward (`Forward`), which is why a
  transaction that lands after its command exited disturbs no other.
  `SavedIsReady`, `FundedAreNamed` and the action property `UnnamedAreKept`
  follow.

Every safety invariant and action property of the passing runs is proved, as is
each refinement. Only model-checked: the liveness properties
`EveryIntentDecided`, `EventuallyConfirmed`, `EventuallyCurrent` and
`AgentWorksThrough` (fairness is outside this prover's reach). The hypotheses of
`PaidOnce`, `OneStory` and `PromiseKept` are those of the run `payments_serial`,
that of `RollingBudgetHolds` is above; every other theorem holds under the named
assumptions alone.

## Plan

Done: the program and its mirror, the payment lifecycle, the indexer, the owner
operations with the row that caches a vault, the conversions, instructions and
transactions of both clients of the chain, the programs that use the backend,
the command line, the abstract escrow and the abstract lifecycle with their
refinements, and the theorems above. What is left: the rate limiter (`INCR` and
`EXPIRE` in `redis.service.ts`), once the repository has a caller for it.

## Not modelled

* `LedgerService` aggregates rows on demand and changes nothing; its queries are
  the database's.
* `ResourcesService` is a registry of single upserts, deletes and look-ups, each
  one call of the database; the recipient it resolved is an input of `Payments`
  and from then on fixed in the row.
* `RedisService`: nothing in the repository calls its rate limiter.
* API keys, request signatures and the encryption of delegate keys:
  cryptography. That a key is stored before it is used is in `VaultsService`,
  that a revoked key is refused is in `Clients`.
* Controllers and wiring beyond the guard: they pass their arguments on.
* `toUi`, `formatUi`, the wording of reasons and breakdowns, and the drawing of
  the desktop and the wallet: layout.
* Scripts, build files and the demonstration pages: they run once, by hand.

`PROJECT.json` lists every component with its status and reason.
