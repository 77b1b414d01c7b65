# LANAgent: TLA+ models, checks and proofs

LANAgent is a personal agent for a home network: one Node.js process that talks to its owner
(Telegram, web, SSH), runs about 140 plugins, modifies its own code, trades, and sells services to
other agents, paid in credits or by on-chain jobs. MongoDB keeps what outlives the process; pm2
restarts the process (`ecosystem.config.cjs`, one instance).

This directory holds TLA+ modules translated from the source, the TLC configurations that check
them on small instances, and TLAPS proofs for all instances. `PROJECT.json` lists runs, mutants
(one bug per property that the property must catch), hazards, findings, theorems, and for every
definition the source lines it stands for. Paths below are relative to `src/src/`.

## 1. Inventory

Within one process JavaScript runs each function up to its next `await` without interruption:
concurrency is the interleaving of these segments, of timers and of requests. What is hard is what
happens between two segments, and between a segment and the restart that loses everything in memory.

| Component | State | Operations | Hard behaviour | What makes it correct |
|---|---|---|---|---|
| Paid jobs: `services/crypto/agenticCommerceService.js`, `models/AgenticCommerceJob.js`, `api/external/routes/jobs.js` | job documents (status, execution lock, attempts, deliverable hash); in memory: jobs in process, terminal jobs; on the chain: status, deliverable | poll, process, run, submit, complete, track revenue; `POST /jobs/:id/fund` | poller and API race; a crash between a transaction and its record; transactions that nobody waits for; a paused contract; refunds | gas spent once, work done once, delivery only when paid, revenue once, submissions end in payment, locks given back |
| Self-modification lock: `services/selfModLock.js` | lock file; cached copy; wait queue; keep-alive timer | acquire (with wait, keep-alive), release, renew, check, updateLockInfo, forceClear | file I/O interleaves; stale cache; timer against grant; expiry; crash in the middle of a write | exclusion, a fair queue that loses nobody, waits that end |
| Concurrency limiter: `utils/concurrencyLimiter.js` (transcoding, speech, screenshots) | heap of waiters, active count, limits | run, abort, deadline, end of a task, updateConfig, reset | removal from the middle of the heap; limits that change under load | slots and tasks accounted, most urgent first, room is filled |
| External credits and payments: `api/external/middleware/{creditAuth,creditDebit,hybridAuth,payment}.js`, `routes/{credits,plugins,tts,transcribe,scraping}.js`, `models/ExternalCreditBalance.js`, `models/ExternalPayment.js` | balances with their totals, recorded payments; in memory: two caches of used hashes | check, debit, refund around a piece of work; purchase with a transaction hash; payment of one call with a hash | balances read before they are debited; answers of the database lost; refunds nobody waits for; one hash presented to two handlers; restarts | no balance below zero, books that agree, refunds covered by debits, one use per payment |
| Retry and circuit breaker: `utils/retryUtils.js` | breaker, learned attempt history | retryOperation, retryWithCondition | breaker opened and half-opened by concurrent calls | attempts bounded, no call while open |
| Services sold to peers: `services/p2p/skynetServiceExecutor.js`, `models/SkynetPayment.js` | recorded payments; in memory: count of executions, priority queue, rate limits, cache of used hashes | handle a request: rate limit, wait for a slot, tip, payment, execution, answer | a count decremented on every path; a wait that only others can end; two requests with one payment | nobody stranded, no slot leaked, cap kept, one payment one execution |
| Plugins from peers: `services/p2p/pluginSharing.js`, `models/P2PTransfer.js` | transfer documents; in memory: chunk buffers by peer and plugin, unsaved documents; the plugin directory | offer, chunk, assembly, approval or rejection, installation, cancellation | chunks that overlap on one document; cancellation against the last chunk; a second offer under the same key; crashes during installation | status moves along its map, complete transfers are decided, the file holds what was offered, what is cancelled stays so |
| Other P2P: `services/p2p` (peers, knowledge packs, bounties, governance, ledger) | peers, sessions, transfers, ledgers | connect, send, resume, trade | resume of chunk bitmaps, sessions | a pack completes from every chunk once |
| Sub-agents: `services/subagents` | agent documents, running map, budgets | start, pause, run, approve | overlapping runs, restarts | one run at a time, budget kept |
| Scheduler, tasks, reminders: `services/scheduler.js`, `taskReminders.js`, `reminderRecurrence.js` | Agenda jobs, tasks | fire, snooze, recur | firing twice, recurrence across clock changes | each occurrence once |
| Self-modification, bug fixing, plugin development | git branches, reports | analyse, edit, test, merge | share the lock above | one at a time |
| Self-healing, diagnostics | metric history, cooldowns | check, heal | action storms | cooldown respected |
| Agent core, intents, providers (`core`, `providers`) | conversation state, provider health | route, fall back | fallback chains | some provider answers |
| Wallets, swaps, strategies (`services/crypto`) | positions, ledgers | trade, exit | price feeds, partial swaps | positions match the chain |
| Gateway, MCP, MQTT (`services/gateway`, `mcp`, `mqtt`) | connections | connect, reconnect | reconnect storms | one connection each |
| Retrieval, memory, reasoning | vectors | search, reason | language-model loops | bounds |
| Interfaces, plugins, operations scripts | little | I/O | | |

Interaction. The poller and the external API call the paid-job service, which calls plugins for the
work, the contract through ethers, and the revenue service. The scheduler, self-modification, bug
fixing and plugin development share the lock file. The external media routes and the scraper each
have a limiter. Services sold to peers and plugins that come from peers share the connection to the
peer and nothing else. No state is shared between these five components, so no module composes them.
On the external API, service calls and payment claims meet in the balances: `CreditGateway` composes them.

## 2. Modules

### `AgenticCommerce.tla` and `PaidJob.tla`: the paid jobs

The process is one executor per job (`pc[j]`, from `processFundedJob` to its `finally`) and one
poller (`round`, `visiting`); `terminal` is `_terminal`, and `_processing` is the set of jobs whose
executor is not idle. The database is `docStatus`, `executing`, `attempts`, `docHash`, `today` (jobs
whose `executionStarted` is less than a day old) and `revenue`. The contract, an external part, is
`status`, `onChain`, `paused` and the transactions: `tx[j]` is the one an executor awaits;
`lostSubmits` and `lostCompletes` are those sent by executors that died, which are still mined.

Each action is the code between two awaits. `View` is `getJob` and the decisions on it; `Lookup` the
read of the document and the decisions on it; `Vet*` the registry, quote, gas and cap; `Claim` the
upsert and the `findOneAndUpdate`; `RunSucceeds`/`RunFails` the work; `Rehearse*`, `Send*`,
`*Confirmed`, `Save*` the two transactions. `Throws` is any other await that rejects, `TxReverted` a
`wait()` that does, `Crash` the end of the process. `ApiFund` starts an executor at any time, which
also covers polls that overlap. What chain, quotes, gas and registry answer in `Vet*` is left open.
The job statuses of the contract are those a job of ours can reach: nobody but the evaluator
rejects a job, and the evaluator is this agent, which never signs a rejection.

`PaidJob` is what the client and the owner are promised, without executors, polls, locks and
failures: each job is funded, submitted, paid, shown and booked in this order, each at most once, and what is
shown is what was paid for. `KeepsPromise` is the refinement: `status` is the chain's, `deliverable` is
`onChain`, `sent` counts the submissions that gas was spent on, `delivered` is what `getDeliverable` answers
(`Shown`), `booked` the revenue entries.

### `SelfModLock.tla`: the lock file

`file`, `cache`, `queue`, `granting` and `keepAlive` are the fields of the class. Each call is a
thread with a program counter, the operation it is in and the lock it carries. A file operation is
cut at the moment the file is touched and the moment the code goes on; `writeFile` also between its
truncation and its data, so others read torn files. `grant` is an acquire made by `_processQueue`,
`last` the one made by the waiter timer. Names of callers are distinct. `retryOperation` is one
attempt: errors of the file system are not among those it retries. `forceClear` is one step.
`renew(extendMs)` is not used by anyone and left out; a renewal dates the lock at the current time.
`since[c]` is history: the time at which the lock that `c` holds was last written, by `acquire`, by
`renew` or by the keep-alive (`Written`), so that `ExcludesWhenSerial` covers a renewed lock for the whole of its new
timeout. It says nothing once operations have overlapped: then two acquires may both resolve true.

### `ConcurrencyLimiter.tla` and `PriorityGate.tla`

`ConcurrencyLimiter` keeps the heap as the code does, an array with sift-up and sift-down, numbered
from 1. `PriorityGate` says what callers can rely on with a set of waiters and no heap:
`ImplementsGate` is the refinement, with the elements of the array as the waiters.
`MCConcurrencyLimiter` gives the two configurations of the run. `UpdateConfig` is a call of `updateConfig` that succeeds;
`RefuseConfig` is one that throws on `maxQueue` after it has set `max`, and so neither changes `maxQueue` nor
starts anybody. After such a call tasks may wait while there is room, and a newcomer may start before them; the
comment at `concurrencyLimiter.js:399` speaks of the loop that was skipped. No code of the repository
calls `updateConfig` of the limiter today. Hence `RoomIsFilled` is about steps: a step leaves nobody waiting while
there is room, unless it is a refused call, or there was room before and the limits stay.

### `CreditStore.tla`, `CreditCharges.tla`, `PaymentClaims.tla`, `CreditGateway.tla`: credits

`CreditStore` is the collection of balances: `account[w]` with `credits` and the three totals. Each
update is one `findOneAndUpdate`, hence one step. `faults` counts what went wrong: a database call
that fails may have written and only lost its answer, so most failing steps have two outcomes.

`CreditCharges` is a service call (`step[c]`), from the check of the balance to the answer. Four
pieces of code do this, and `route[c]` says which: `middleware` is `creditDebit`, which checks, debits
with `retryOperation`, lets the handler work, and on `targetError` starts a refund it does not await
(`owed[c]`, `Settle`); `plugin` is the generic route, which debits without a check, refunds in the
`try` (`Refund`) or the `catch` (`Recover`), and gives the price back when a free source answered
(`Fallback`); `metered` is speech and transcription, with one refund in the `catch`; `scrape` checks,
debits without looking at the answer, and refunds in both places. `told[c]` is what the answer says.
`charged` and `refunds` are history: how often the price was taken and given back. A rejection in an
async handler that catches nothing leaves the request unanswered (Express 4): `lost`.

`PaymentClaims` is a request with the hash of a payment: `kind` says whether it buys credits or pays
for a call, `stage` where it is between cache, database, chain, record and grant. `txHash[k]` is the
hash as the request wrote it, and `PaymentOf` the payment it names on the chain, which does not tell upper case from
lower: several hashes can name one payment. The code compares strings, and so does the model: `row[h]` is the
document with the unique `txHash`, and `usedTxHashes` has one cache of strings for each of the two handlers.
`OneUse` is therefore one use of each hash as written; a payment presented in a second spelling is
granted again, in the model as in the code. `got` is history. Chain and confirmations are external: a payment is confirmed or not.

`CreditGateway` puts both over one store. `BooksAgree` compares the totals of a wallet with sums over the
calls and claims that moved them; calls and claims are finitely many (`FiniteAssumption`). `Crash` ends the process: calls and claims in progress
are cut off, refunds under way are lost, caches are empty. `MCCreditGateway` gives the constants.

### `ServiceExecutor.tla`: services sold to peers

`stage[r]` is where the handler of request `r` is: `queued` is the promise in `priorityQueue`, `woken`
that promise resolved and not yet continued, `tip` to `recording` the awaits of `verifyPayment`,
`executing` the plugin, and `refused` and `served` the answer, before the `finally` block (`Leave`).
The other variables have the names of the source; `row[h]` is the document of hash `h` in `SkynetPayment`, and
`seen[r]` the local `currentCount`, which `Execute` writes back plus one. `TurnAway` is every way of
leaving the `try` before `activeExecutions++`: it passes `Leave` as well. Cache, query and unique index compare
the string that the requester sent (`HashOf`), so `OneUse` is about hashes as written, as in `PaymentClaims`. `NoOvertaking`
says where the queue puts a newcomer: behind all who tip as much, and the others keep their order. `Running` are the requests
between the increment and the decrement, whatever the counter says. `served` is history. The tip is passed
to `verifyPayment` as if it were a hash, and its answer only logged: `Tipped` has no effect, and
the tip counts unpaid. Chain and plugins are external.

### `PluginTransfer.tla`: plugins from peers

One plugin of one peer, hence one key of `incomingTransfers` (`current`), and several offers of it.
Each message has a handler (`at`, and `to`: the transfer whose buffer it fetched), each
request of the owner too; an action is the code between two awaits. What the code leaves to
Mongoose is modelled as such: a document in memory is an object with changes (`mem`); `save` throws while
another save of the same object is under way (`ParallelSaveError`), else writes what was changed
(`carry`) later, over whatever the database then has; what it fails to write is changed again. The handlers of
messages share the object of the offer, a request of the owner loads one of its own (`Doc`).
`Save` is used by every action that calls it, `Saved` and `SaveFails` end it, `After` and `ErrorStage` say
what follows. A chunk carries its version only (`VersionOf`), the buffer is equal to the offer's
hash when all its chunks are of its version. `source[o]` is `assembledSource`, as the set of the versions its parts are of, and `code` the same of the file;
`OwnSource` compares the file with the hash of its offer, without any exception.

`contested` is history: transfers on which two handlers overlapped other than in counting chunks, or whose status was
set and could not be saved (`save` refused it or failed). There the code makes no promise about the status that
holds: a bad chunk can save `failed`, and a request to reject `rejected`, while the installer is at work. `KeepsToMap`
and `Decided` are about the others, that is about late and missing chunks, mixed offers, failing calls and restarts;
`NotResurrected` is about overlaps. `KeepsToMap` has one exception of its own: an installed transfer becomes `failed`
when the counter of transfers fails (`pluginSharing.js:400-406`), which `transitionMap` (`P2PTransfer.js:119`) does
not allow although its comment says that it matches `pluginSharing.js`. `Decided` is about transfers that have
counted exactly the chunks they wait for, with no call failed. When chunks of two offers are counted in one buffer, the
count can pass the total before the handler of the last one compares them, and the transfer then stays
undecided: the property says nothing of it.
Rejection and cancellation also clear `assembledSource`, and `P2PTransfer.js:363-374` compares its hash again before
a save as approved; both only prevent installations, and are left out.

## 3. Runs

| Run | Question | Bounds | Result |
|---|---|---|---|
| `commerce_one_job` | gas, work, delivery and revenue under crashes and races; progress; does it implement `PaidJob`? | 1 job, 2 attempts, 2 faults, 2 pauses, all terms | holds |
| `commerce_daily_cap` | is the daily cap kept? | 2 jobs, cap 1 | violated |
| `selfmod_queue` | is the queue fair, complete and served? | 3 services, 2 waiting, forceClear | holds |
| `selfmod_faults` | do operations that do not overlap exclude each other? | 2 services, renewals and keep-alive, 1 crash or failed write | holds |
| `selfmod_waits` | does every wait end? | 2 waiting services, forceClear, 1 crash or failed write | holds |
| `limiter_heap` | is the heap a heap, is room filled, and is it `PriorityGate`? | 7 tasks, 2 priorities, limits 1+6 and 3+2, also refused half-way | holds |
| `credit_gateway` | are balances, refunds and payments right under races, lost answers and crashes? | 2 calls on any routes, 2 claims of 1 payment with one hash or its 2 spellings, 1 credit, 1 retry, 2 faults | holds |
| `credit_scrape_race` | is every refund covered by a debit? | 2 calls, 2 claims, 1 credit, no faults | violated |
| `skynet_executor` | does the queue keep its order, lose nobody, leak no slot, and serve a hash once? | 4 requests, 1 slot, 1 tip, 2 requests with 1 hash, 1 failed insert or crash | holds |
| `executor_cap` | do at most `MAX_CONCURRENT` run? | the same | violated |
| `plugin_transfer` | is a transfer decided, its status legal, and the file its own offer's? | 2 offers of 2 versions, 2 chunks (one is lost), 1 request of the owner, 1 failed call or crash | holds |
| `transfer_resurrected` | does a cancelled transfer stay so? | the same, no fault | violated |

Why the bounds are enough. Jobs meet only in the daily cap, the poll window and the poller, so one
job shows what happens to a job; two faults let a crash follow a lost transaction, and two attempts
a second execution. In the lock runs one tick is the whole timeout, so each lock can be fresh or
expired, and each cached copy current or stale; a third caller is needed for a queue of two with a
holder in front of them. In the heap, a removal that must sift up needs six waiters (the last
one lies in the other subtree), hence seven tasks and one slot. Calls meet only in the balance, and two
calls for one credit already race for it; claims meet only in the hash they present. Two faults let a
lost answer be followed by another, or by a crash. The code retries a debit three times, the model once.
A queue of two, behind one that runs, with one that is turned away, is four requests and one slot. Two offers under
one key mix their chunks; two chunks race for one document, and either may be the last; the request of the owner may be any of the three.
These runs check no deadlock: all requests end.

What the violated runs show (details under `findings`): the cap on paid jobs is counted before the claim (two
executors pass it together); a scrape whose debit found too little runs free, and its failure is refunded;
a request that is turned away gives back a slot it never took, and the cap on executions is exceeded; a cancellation that
falls between the last chunk and the save of its handler is overwritten, and the plugin installed.
The models also have, without a run of their own: an execution cut off after its claim keeps
its lock for ever (`Throws`, `Crash`); newer jobs that stay open hide older funded ones (`Candidates`); two acquires that
overlap both get the lock (`Decide`, `WriteFile`); a failure that does not say `targetError` stays charged (`WorkFails`).

## 4. Fairness

`AgenticCommerce`: executors, the poll timer and the mining of transactions go on; the owner of the
contract ends every pause. The event loop and the chain justify the first three; the last is assumed.
Clients, the clock and faults owe nothing. `SelfModLock`: file operations end and timers fire; no
fairness for release, renewal or forceClear, so the wait must end without them.
`ConcurrencyLimiter`: every operation that was started ends, as the class itself assumes.
`CreditGateway` states no liveness and assumes no fairness: what is lost in a crash stays lost.
`ServiceExecutor`: a request that was woken or has a slot goes on (`WF_vars(Step(r))`): the event loop, the database,
the chain (whose calls have timeouts) and the plugins. The last is an assumption, as `executeService` has no timeout.
Arriving, and so being turned away, is owed by nobody. `PluginTransfer` assumes no fairness: `Decided` is an invariant on
transfers that all handlers have left.

## 5. Proofs

`AgenticCommerce_proofs.tla` proves, for any number of jobs, attempts, faults and pauses and any
offered terms, that every reachable state satisfies `TypeOK`, `SubmitOnce`, `NoWorkTwice`,
`DeliveredOnlyWhenPaid` and `RevenueOnce`. None is inductive. `SubmitOnce`, for one, holds because an
executor that may submit holds the execution lock, every path that gives the lock back either has sent
nothing or comes after the payment, and a job once submitted is never claimed again. The invariant
`IInv` says this in five parts: `TypeInv` (types), `LockInv` (who holds the lock and what he has
sent), `ChainInv` (what is in flight and what the chain can hold), `PayInv` (what a completed
document or a revenue entry implies), and `DeliverInv` (what is recorded as the deliverable is what the
chain has, and whoever may complete the job has recorded it). The proof has one step per action.
`KeepsPromiseHolds` proves the refinement of `PaidJob` from it: `Unseen` for the steps that the promise does not
see, `ShowsNothing` and `ShowsWhatIsPaid` for what saving a document makes visible, `MinesAsPromised` for the
transactions, `PromiseStep` for the rest. Assumptions: `JobAssumption` and
`BoundsAssumption` of the module, nothing about the code beyond them.

`PriorityGate_proofs.tla` proves of the abstract gate, for any integers as priorities and any
positive limits, that room is filled (`RoomIsFilledHolds`) and that whoever starts is more
urgent than all who go on waiting (`StartsMostUrgentHolds`). The core is `BestFillsUp`: a finite set
has its k most urgent members, unless all of it is among them, by well-foundedness of strict
inclusion on the sets of those ahead of someone.

`SelfModLock_proofs.tla` proves, for any callers, timeouts and faults, every safety property of the lock runs. Its invariant has
two halves. `Sound` holds however operations overlap: each thread is at a step of its operation with a lock that fits
(`Threads`), and queue, grant and timers account for each waiter. `Calm` is about operations that do not overlap: what the one thread at work has
read or written is what the file holds (`Serial`); the lock of a holder within its timeout is in the file and in the cache, unless
the holder is rewriting it, and nobody is about to write another or to unlink it (`HoldersKeep`, from which `ExcludesWhenSerial`
follows); the cache never outlives the file unnoticed (`CacheTrue`, with `faults = 0`); and when the lock is free somebody takes it or is about to
wake a waiter (`Handing`, for `HandedOn`). `QuietStep` serves the actions that leave the file alone; those that change it, `forceClear` and
the restart have lemmas of their own. `NoOvertaking` is an action property of `Sound` states: where a step can put a waiter
(`JoinsInOrder`, `LeavesInOrder`, `WakesInOrder`) keeps the order of the others. Assumption: `ConstantsAssumption`.

`CreditGateway_proofs.tla` proves, for any wallets, calls, claims, prices, retries and faults, every
property of `credit_gateway`. Only `NeverOverdrawn` is inductive with typing, by the
filter of the debit. The others need to know what a call or a claim has done at each of its steps:
`CallInv` bounds debits and refunds by the step reached (`Paid`, `Unrefunded`), excludes steps that a
route does not have (`Fits`) and, while nothing has failed, fixes both numbers (`Settled`); `ClaimInv`
says whose record a hash carries and what that request has been given (`Claimed`). `BooksAgree` is
carried by `SumChange`: the step of a call changes one term of the sum of its own wallet by what it
books, and no term of another's. The proof has one
lemma for the steps of calls, one for those of claims, one for what a step of either leaves alone, and
one each for expiry and crash. Assumptions: `StoreAssumption`, `CallAssumption`,
`ClaimAssumption`, `FiniteAssumption`.

`ServiceExecutor_proofs.tla` proves, for any requests, payments, tips, peers and limits, every safety property of
`skynet_executor`. `NobodyStranded` is inductive only with its books: the counter never exceeds the requests
that run (`NoSlotLeaks`), so whoever finds it at the limit and waits has somebody who runs; and each who leaves with
a queue behind him wakes one. `NoOvertaking` follows from where an insertion puts a newcomer
(`EnqueuePlaces`, `Placed`) and from the steps that only take from the front (`OrderKept`). `OneUse` needs `PaidFor` (who may be served holds the record of his hash, which is never overwritten)
and the limit on the counts `SeenBelow`. Assumption: `ExecutorAssumption`.

`PluginTransfer_proofs.tla` proves every property of `plugin_transfer`, for any offers, versions, messages and requests and any number of chunks. The
invariant `IInv` relates handlers, objects and database: `Assigned` (a handler at work has a transfer), `OneSaver` (Mongoose's rule, built into `Save`), `Carries`
(what each stage writes), `Marked` and `OwnStages` (what overlaps make contested, and what is left to requests and to messages),
`Born` and `Expected` (which status the database has at each stage, while uncontested), `Entry` and `Deciding` (a counted last chunk has a
handler that decides). Two lemmas carry it: `SaveKeeps` for the steps that call `save`, `MoveKeeps` for all others; then
one lemma for each action. A second layer, `SourceInvariance`, holds without regard to overlaps: `Sourced` (whoever is past
the check of the hash, and the file, have the source of their own offer; from it `OwnSource`) and `Blamed` (whoever breaks off an installation
does so because a call failed or the transfer is contested). `KeepsToMap` is an action property that follows from both. Assumption: `TransferAssumption`.

`Induction.tla` has what two of these need of recursive definitions and of sums. An induction theorem with an
operator for a parameter cannot be instantiated here, so a property of all points of a set is proved from a
counterexample of least measure (`LeastNumber`, `LeastMember`, from well-foundedness of the naturals), and a recursive
definition by `Recursion`: if the body, given as a function of functions, looks at them only where a measure is
smaller, then the chosen function satisfies its equation. With it, a sum over a finite set is the term of a
chosen member plus the sum over the others (`SumEquation`); `SumChange` follows.

`ConcurrencyLimiter_proofs.tla` proves every safety property of `limiter_heap` and the refinement of `PriorityGate`,
for any number of tasks, queues of any length, any integers as priorities and any positive limits. Sifting is
proved first. An array that is a heap but for one task and its parent (`HeapButUp`) is a heap after `SiftUp`; but for
one task and its children (`HeapButDown`), after `SiftDown`; both keep the tasks of the array (`Perm`). Each is a
least counterexample to what a recursive function computes. A removal from the middle puts the last task in the
gap, where it may be wrong above or below, never both: this is why `HeapRemoveTask` may sift both ways. The head of a
heap is the best of its tasks, so a dequeue takes `Best`, and draining `n` of them leaves the set without its `n` best
(`DrainedBy`, `Promoted`), which is what `UpdateConfig` does to the gate; `RefuseConfig` leaves the array alone. The invariant `Inv` is `QueueInv` (a
heap of tasks with numbers of their own, which are those queued), `Fresh` (later numbers are new), the count of
active tasks. `RoomIsFilled` is an action property of such states. Assumption: `ConfigAssumption`.

Only model-checked: all liveness (`ResumesToPayment`, `LockReturned`, `WaitEnds`, `Answered`), since fairness and
ENABLED are out of the prover's reach. Every other property of a passing run is a theorem; what the violated
runs ask is false.

## 6. Not modelled, and why

Within modelled components: quotes, pricing, downloads and the services behind `_run` (no state that
the flow depends on); nonces and gas (any send may fail instead); the expiry notification of the lock
(it only logs); batch scraping, which refunds part of a price for each URL that failed; keys, logins,
prices and the transaction history of a balance; revenue tracking of payments; `isLocked` and `getLockInfo`, which call `require` in an ES module and therefore always
report a free lock; the counters of `stats()`. A torn lock file left by a crash blocks every acquire
until it is removed: the model has this, and no comment of the code promises otherwise.
Of the services sold to peers: statistics, the token ledger, the catalogue, and the requester's side; `ensService.js:732` and
`emailLeaseService.js:253`, `386`, which call `verifyPayment` on the class that the module exports, not on an instance, so that the call throws. Of the transfers: the sending
side, signatures (only noted in the record), progress, backups of an existing file, and `transitionStatus` to other states, which nobody calls.
Whole components: see `components` in `PROJECT.json`; language-model behaviour, pure I/O and user
interfaces are not for TLC.

## 7. Plan

1. Done, each with proofs of all its safety properties: `AgenticCommerce` implementing `PaidJob`;
   `SelfModLock`; `ConcurrencyLimiter` implementing `PriorityGate`; `CreditGateway`; `ServiceExecutor`;
   `PluginTransfer`.
2. Batch scraping: one debit, partial refunds. An abstract ledger (what is spent was served) that the
   calls implement where they are not found wanting above.
3. Knowledge packs: chunk bitmaps with resume, on the model of `PluginTransfer`.
4. `CircuitBreaker` with `retryOperation`, several calls sharing one breaker.
