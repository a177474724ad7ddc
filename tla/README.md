# Verification of OnlyPump (Solana sniper and Robinhood research API)

TLA+ modules, TLC runs and TLAPS proofs kept beside the code. Paths are relative
to the repository root (`src/...` is its TypeScript source). `PROJECT.json` says
which lines each definition stands for, which mutant of the code each property
notices, which hazard each property is for, and lists every component of the
repository with its status.

Contents: 1 the system, 2 what is hard to test in it, 3 the modules, 4 the runs,
5 bounds, 6 fairness, 7 proofs, 8 what the models showed, 9 what is not
modelled, 10 the plan.

## 1. The system

Several Node processes share one Postgres database: the research API, the Pons
ingestion worker, the candle worker, the Solana worker and the forensics worker,
with older bots beside them. A process is single-threaded: its steps interleave
at `await`, and those of different processes at every database statement or
transaction.

| component | state it keeps | operations | talks to | correct when |
|---|---|---|---|---|
| **Real-trade execution** (`services/executionService.ts`, `pons/execution/lifecycle.ts`, `reconciliationWorker.ts`) | intents, submissions, receipts | create, record a hash, reconcile a receipt, count a missing one | clients that retry, the chain, one worker per API process | a result comes from a receipt, no hash is forgotten, one key is one trade, a submission settles |
| **V1 discovery and trade listeners** (`pons/discoveryListener.ts`, `tradeListener.ts`) | tokens, trades, a checkpoint each | ticks: scan a range and commit | chain RPC; trades wait for discovery | no launch and no swap is lost |
| **V2 listeners** (`discoveryV2Listener`, `curveTradeListener`, `tradeV2Listener`) | the same tables, three checkpoints, an adaptive log window | ticks | as above; a token graduates from its curve to a pool | history is whole on both venues |
| **Reorg recovery** (`pons/reorgRecovery.ts`, `checkpointStore.ts`) | a block history all sources share | ancestor search, orphaning, rollback | all listeners, candles | rows are those of the live chain |
| **Backfill** (`pons/backfill/tokenTradeBackfill.ts`) | a row with two cursors per token | windows over the curve and the pool, within a budget | chain RPC, the market data service | claims no history it did not read |
| **Candles** (`candles/*`) | candles, a checkpoint per token, `busyTokens` | fleet tick, watched tick: invalidations, forward progress, promotion | the writers of `ChainTrade` | a candle is the canonical trades of its bucket |
| **Wakeable loop, head wakeup** (`pons/wakeableLoop.ts`, `headWakeup.ts`) | a timer and flags; a socket | wake, run, stop; connect, check, subscribe, give up | nodes; wakes the V2 ticks | no wake lost, no tick in a backoff, heads keep coming |
| **RPC failover** (`pons/failoverChainClient.ts`) | cooldowns and failure counts | one request over several endpoints | nodes | the good endpoint is reached; a range cap is evidence |
| **Subscription manager** (`pons/wsSubscriptionManager.ts`) | sockets, deduplicator, checkpoint | connect, frames, stall, reconnect, replay, stop | nodes | every event arrives, once within the window |
| **Realtime** (`researchApi/realtime/*`) | a LISTEN connection, connections, handlers | subscribe, unsubscribe, heartbeat, reconnect | browsers, Postgres | handlers and subscriptions agree |
| **Forensics** (`forensics/*`, `services/forensicsIntelligenceReconciliation.ts`) | job rows with leases, runs, reports | claim, heartbeat, store, settle; reconcile | workers that die | done once, by the last attempt; the report shows the newest run |
| **Solana ingestion** (`solana/*`) | queue, deferred set, checkpoint; lifecycle events, trades, snapshot | live stream, recovery walk, persist, finality | Solana RPC, candles | what lands is stored; the phase is the furthest proven |
| **Card purchases** (`buying/moonpay/*`) | orders, webhook events | checkout, webhook, poll | MoonPay (unordered, at least once) | one order per key, newest statement wins, final stays final |
| **Practice trading** (`services/practiceService.ts`) | balances, holdings, trades | a serializable transaction with retries | API routes | the books add up |
| **Vanity addresses** (`services/vanity/vanityService.ts`) | a stock of addresses | reserve, release, consume, retire, expire | users, the launch service | one launch per address |
| **Wallet verification** (`services/walletVerificationService.ts`) | challenges, links | issue, verify, unlink | API routes | a proof is used once |
| Quotes, adapters, decoding, metadata, market snapshots, forensic analysis, token intelligence, paper trading, API wiring, bots, legacy programs, Solidity tests | little, or elsewhere | pure functions or I/O | | see 9 |

## 2. What is hard to test here

`PROJECT.json` "hazards" has each at its line. By kind:

* **Read, await, write.** A handler reads rows, awaits, and writes in a later
  transaction on the strength of what it read: `recordSubmission`, the trade
  ticks' pool list and barrier, the MoonPay claim, the candle tick, a report that
  two sweeps update, the pump.fun checkpoint, a signed challenge.
* **Several actors on one row.** Requests with one key, two candle loops, worker
  slots with leases, two reservations of one user, portfolios with parallel
  trades, backfills of one token.
* **Order and loss.** Forks one source notices before another; webhooks late,
  twice or lost; transactions stored in any order; a stream that drops what its
  queue cannot take; trades of two listeners with two checkpoints.
* **Sockets.** They open late, hang, fall silent, close during a subscription or
  after a stop, and name the wrong chain.
* **Partial failure and crashes.** A worker that stops between candle and
  checkpoint, a slot that dies under its lease, a backfill cut off between
  windows, an enrichment that fails for some tokens of a block.
* **Must happen in the end.** Submissions settle, listeners catch up, forks heal,
  lost webhooks are recovered, candles converge, jobs finish, heads keep coming,
  vanished peers are cleaned up.
* **Boundaries.** Attempt limits, a lookback below genesis, the barrier one block
  before a launch, a page that ends inside an hour, a full queue, a deadline used
  up before the last endpoint.

## 3. The modules

Every module keeps the source's names. A handler is one action where nothing can
come between its reads and its writes; otherwise it is one action per stretch
between awaits, and what it read stays in the record of its request, worker, tick
or flow, where it may go stale. `*_proofs` modules hold proofs, `MC*` modules the
values of the constants. Definitions commented "Mutant" are plausible bugs that
show the properties notice them; no specification uses them.

### Ingestion of the chain

**Ingestion**, the V1 listeners on a chain that grows. State: `row` (enrichment of
each token), `swaps`, two checkpoints, the tick in flight of each listener. A
discovery tick is `DiscBegin` (tip, retry batch), `DiscRetry` per token,
`DiscCommit` or `DiscUpToDate`; a trade tick `TradePools`, `TradeTip`,
`TradeBarrier` or `TradeWaits`, `TradeCommit`; either fails anywhere. Blocks do
not change, so their contents are read where they are committed.

**IngestionV2**, the three V2 listeners. A token is known at its launch, traded on
its curve, and from its graduation in a pool. `DiscCommit` is a whole discovery
tick with a tip that may be old; `SwapPools`, `SwapBarrier`, `SwapCommit` the pool
listener; `CurveBarrier`, `CurveLogs` or `CurveRefused`, `CurveCommit` the curve
listener with its window: `Narrowed` on a refusal, `ceiling` remembering a range
cap for some successes (`Waning`), `Growth` afterwards. `Restart` forgets what is
kept in memory.

**LateTrades** extends it by the candle worker's forward progress: one checkpoint
per token over the rows of two listeners. A recomputation is one step here.

**ReorgRecovery**, forks. State: the live chain (`fork`, `place`), checkpoints with
hashes, the shared history `past`, the rows. `Commit(s)` is a whole tick of a
source, `Recover(s)` the ancestor search, orphaning and rollback of everybody,
`CannotRecover(s)` the tick that finds no ancestor, `Reorg(h)` a fork that moves
contents anywhere or nowhere. `RolledBack`, `Upserted` say what each row and
checkpoint becomes. `overtaken` and `moved` are history.

**Backfill**, the history of one token fetched on demand by any number of
processes: `Start`, `ReadRow`, `ReadHead`, windows over the curve, then over the
pool (`CurveWindow`, `PoolWindow`), the budget that ends a run anywhere, `Finish`
with the status it writes, and death between windows. `Bridges` is the question
the market data service asks of the row: may the history before the live
listeners be shown as whole?

**Failover**, one request after another over endpoints 1 to `Widest` in priority
order. `Request` chooses who is not cooling down (all, if everyone is), `Probe` is
the one-off chain id, then `Serve`, `Fault`, `Decline` or `Fail`; `MoveOn` is the
end of an endpoint's turn, where the last failure is `Judged`.

**WakeableLoop**, the scheduler of the V2 ticks: `Wake`, `Run`, `End`, `Stop`,
`Clock`. Times are what is left until they come, so the clock never ends.
**Doorbell** is what it promises: a ring is followed by a pass that begins after
it, one pass at a time, none once closed. The refinement maps `rung` to the wakes
no tick has begun after, `busy` to a tick in flight, `closed` to `stopped`.
**HeadWakeup** extends the loop by the WebSocket that wakes it: handshake, chain
check, subscription, heads, the health timer, and the next endpoint after a
growing delay.

**Subscription**, `WsSubscriptionManager`: sockets (one may open after the manager
moved on), the stall timer, reconnection over endpoints, the replay over HTTP from
the checkpoint, the deduplicator that admits an event before it is observed, and
stop. Flows are the initial connection and a reconnect, which may overlap.

### Candles

State: `canonical` (the token's `ChainTrade` rows), `position` and `confirmed` (its
listeners), `skipped` (history: trades the checkpoint was moved past unread, or that were
stored too late for it), `pending` (`CandleInvalidation`), `candle`, `mark` (the checkpoint),
`loop` (what the fleet and the watched tick hold), `busy` (`busyTokens`). A candle
is the set of trades it was computed from. Writers: `Ingest`, `RecoverReorg`,
`Backfill`, one transaction each. A tick: `Begin` reads finality;
`SelectInvalidations`, `ClaimInvalidated`, the recompute (`ReadPage`,
`CompletePage`, `Persist`, `Prune`), `Advance`, `Settle`; then `ClaimForward`,
`CheckInvalidations`, `StartForward` and the same recompute; then `Promote` by the
fleet tick. `RecomputeFails` is the path of unavailable decimals, `TickFails` a
write that throws, `Restart` a crash anywhere.

### Solana

**PumpRecovery**, which transactions reach the database: `Land` announces one on
the open socket, the bounded queue drops or keeps it, workers `Take`, fetch and
`Persist`, then compare and write the checkpoint in two awaits (`Compare`,
`Advance`); what the node cannot resolve goes to the deferred set, what is of an
unsupported version or holds no event ends there (`NotReadable`, `NoEvents`). The
finality reconciler reads the checkpoint's row and writes it back later (`ReadRow`,
`WriteRow`). A sweep first retries the deferred ones, then reads its floor and walks
back (`ReadFloor`, `Walk`). A throw or a restart forgets what is in memory.

**PumpLedger**, the rows of one mint: `Persist` is the transaction that inserts the
event, advances the phase and the snapshot and mirrors them onto the token row;
`Reconcile`, then `Promote` or `Orphan`, is the finality reconciler; `Drop` loses a
transaction to a fork.

### Money and ownership

**Execution**: `plan`, `state`, `owner`, `attempts`, `receipt` are the rows; `req`
and `worker` hold what a request or worker has read. `StartCreate`,
`CreateLookup`, `CreateInsert` are `createIntent`; `StartSubmit`, `SubmitLookup`,
`SubmitCheck`, `SubmitRecord` are `recordSubmission`; `Poll` takes a pass's batch
(`PendingSubmissions`: as many as a pass takes, the oldest checks first, by the order
`before` of `lastReconciledAt`), `ReadUnavailable`, `ReadMissing`, `ReadMined` what a receipt read gives, and the
`Missing*` and `Receipt*` pairs what is made of it.

**MoonPay**: `Deliver` gives any statement ever made to the handler, any number of
times and in any order: at least once, unordered, or never. `Apply` is the
transaction under the row lock with its verdicts in the code's order. `Claim`,
`Fetch`, `ApplyFound`, `LookupFails`, `Note` are `reconcileMoonPayOrder`; `Pick`
chooses as the recovery worker does.

**Practice**: `Start`, `Lookup` (the idempotency key), `Lock` or `LoseLock`, `Fill`,
`Refuse`, `RollBack` of a serializable transaction with retries. Amounts are real,
because the properties are about cash, tokens and basis; the division rounds as
the code's does.

**Vanity**: a call reads the time (`Ask`), may wait for a lock, then `Pick`s and
`Reserve`s, `Release`s or `Consume`s; `Retire` and `Tick` come from outside.

**WalletVerification**: issue, the reads of a verification, the conditional update
that consumes the challenge, the link, the losing insert, unlinking, and a request
that is cut off anywhere.

**ForensicsJobs**: one job. `Claim`, `Heartbeat`, `Persist` (the stored run),
`Complete`, `Fail`, `Vanish` (the slot dies), `Expire` (the lease runs out); then
reports: `ReadReport`, `WriteReport`, `MarkRun`, by the slot and by the sweep. A
claim is named by its attempt number, which is what the ownership check compares.

**Realtime**: frames of a connection wait in `queue` and are worked off with awaits
in between (`Begin`, `Lookup`, `AddHandler`, `Subscribed`); `Heartbeat`
terminates peers that did not answer, whose `CloseEvent` cleans up later; the LISTEN connection opens, fails, is lost
and reconnects.

### Runs that hold several modules

`MCIngestion`, `MCChainAccess`, `MCServices`, `MCFeeds` and `MCLedgers` hold modules
that share no state and check them in one run: a variable `part`, fixed by Init, says which one
moves while the others stand still. So the states of a run are the disjoint union
of its parts', not their product, and a property prefixed by `part = ...` says
just what it says of that module alone; one without the prefix holds of the other
parts' initial states too. Fairness of an action is stated within its part.
`MCChainAccess` also instantiates ReorgRecovery, whose run has a specification of its
own, `RecoverySpec`, in which it alone moves.

## 4. The runs

| run | modules | question |
|---|---|---|
| `execution` | Execution | requests that race, a queue longer than a pass, a replaced transaction, two API processes: what stays true in all of them, and that submissions settle |
| `ingestion` | Ingestion, IngestionV2 | barriers, no launch lost, swaps lost only behind a stale pool list, curve history whole, everybody catches up |
| `reorg_recovery` | ReorgRecovery (in MCChainAccess) | two sources, two forks: rows follow the chain but where a source was overtaken, the common past survives, all converge |
| `candles` | Candles | candles match the trades but for skipped ones; in the end they are those of the live chain |
| `chain_access` | HeadWakeup with WakeableLoop, Failover | no wake is lost or breaks the backoff, the loop implements Doorbell with its liveness, heads keep coming; a range cap is evidence, a good endpoint is not starved |
| `feeds` | Subscription, Realtime, PumpRecovery | nothing skipped, nothing handed out again while the deduplicator can know it, handlers agree with subscriptions, lost listeners and peers are cleaned up, what lands is stored or passed |
| `services` | MoonPay, ForensicsJobs | with every webhook lost and workers dying, orders and jobs still come to their end |
| `ledgers` | Backfill, PumpLedger, Practice, Vanity, WalletVerification, MoonPay | what concurrent requests and workers write to one row stays right |
| `execution_replaced` | Execution | violation: "a terminal state never changes again" |
| `late_trades` | LateTrades | violation: stored trades reach the candles |
| `pump_missed` | PumpRecovery | violation: recovery covers what an open stream dropped at a full queue |
| `pump_ungraduated` | PumpLedger | violation: a proven phase reaches the rows discovery reads |

What the less obvious properties say:

* `SettledByReceipt`, `RecordedIsReconciled`, `IdempotentAnswers`: no interleaving
  leaves a hash nobody polls, or a result without its receipt, or two answers to
  one key. `DroppedOnlyAfterSustainedAbsence`: outages do not count.
* `OnlyRacesStray`: a state moves along the lifecycle's transitions, except when what
  is written was decided from a state that the row has left since, and that takes a
  second hash of the trade (`RequestStrays`) or a second process (`WorkerStrays`).
  It does not say that the lifecycle is obeyed: in those two races it is not, see 8.
* `MissedOnlyBehindATick` (and its like in `V2IsWhole`) says exactly when a swap
  can be lost: its token became trackable while a tick held an older list.
* `RowsFollowTheChain` compares stored rows with the live chain up to the
  checkpoints; `RecoveryConverges` adds that the common past is never orphaned.
* `CandlesMatchUnlessSkipped` compares candles with canonical trades whenever no
  invalidation is open, at every step of both loops.
* `WakesArePrompt`: a wake that is not answered has a timer no longer than the
  interval and the backoff. `ServesTheBell` is the refinement.
* `NotAlwaysTooLate`: slow endpoints in front can use up a request's deadline, but
  then their cooldowns outlast the next one.
* `NothingIsLost`: the checkpoint of the block feed passes no event that was not
  handed out, none is handed out again before as many others were as the
  deduplicator holds, and the pump.fun checkpoint is the slot of something stored.
* `PumpIsRecovered`: again and again, all that has facts and landed is stored or at or
  below the checkpoint (`StoredOrPassed`), and what the node could not resolve is
  stored or was forgotten by a throw or restart (`DeferredIsSettled`). The first holds
  while the sweep's budget reaches a transaction that has facts (`WithinBudget`): when
  the newest ones all have none, the checkpoint does not move and each sweep walks the
  same ones again. "Passed" is not stored: the difference is the run `pump_missed`.
  A signature of an unsupported version stays deferred for ever, as in the code.
* `SubscribersAreServed`: every handler on the bus is an open connection's that
  subscribed, and conversely.
* `ForensicsIsOrderly`: done means the last attempt stored its run; a report never
  goes back to an older run unless two reconciliations overlap, which the code
  allows and whose outcome depends on their order.
* `LifecycleIsHonest`: for every order of arrival, the phase is the furthest any stored
  event proves, one orphaned since included (the code does not roll it back), and the
  snapshot is that of the newest stored trade; a final event is of a finalized
  transaction, unless a fork dropped it between fetch and write; an orphaned
  transaction loses its trade with its event.
* `BooksBalance`: cash, tokens and basis are what the stored trades add up to.
* `HistoryIsHonest`: the two cursors of the row and of every run pass no trade that
  is not stored; COMPLETE means up to the target; the bridge is real.
* `OrdersFollowMoonPay`: status, time and reference of an order are those of
  statements about its one payment, and nothing kept is newer unless refused.

## 5. Bounds, and why they are enough

* **execution** goes through four cases, so that their states add up: *retries*, two
  creations and two submissions race for one key and one hash; *queue*, two trades wait
  for a pass that takes one (`BatchSize = 1`; 25 in the code); *replaced*, a second hash
  for the same trade; *processes*, two workers poll one hash. `MaxAttempts = 2` has a
  first, a counted and a last attempt. Every behaviour of a case is one of Execution.
* **ingestion**: V1 has three tokens, a chain of 6, lag 1, ranges of 2, one retry a
  tick: a range holds two launches, pending ones compete for the retry, the
  lookback reaches below genesis. V2 has two tokens, one of which launches and
  graduates within one range, and a window that is refused above 2 blocks.
* **reorg_recovery**: height 3, two forks, depth 1: a source may be behind, level
  or ahead at each fork, and a fork may hit a recovery.
* **candles**: two trades in two hours, pages of one trade, so a page always ends
  before the next hour; any two disturbances (`MaxFaults`).
* **chain_access**: two WebSocket endpoints of which one never works; three HTTP
  endpoints with different faults, a timeout of 2 in a deadline of 5.
* **feeds**: two sockets, two blocks and one fault, with a deduplicator that holds one
  event (10,000 in the code), so that the second block evicts the first; a connection
  with two channels of which it may have one, two pending frames and two losses; four
  transactions in two slots, of which one holds no event and the last cannot be read,
  one worker next to the sweep, a queue of one, a budget of two, two faults.
* **services** and **ledgers** check MoonPay in two instances. Safety (ledgers): two
  checkouts, two payments, one reference, one update, so that two payments compete
  for an order and two clicks for a key. Liveness (services): one payment, two
  references, two updates, and webhooks that need never come. Forensics: two slots
  that may both die, of which one reconciles its own run and the other leaves that
  to the sweep, two attempts, two tries.
* **ledgers**: two backfills of three blocks with a window of two, any graduation
  height; four pump.fun transactions of which one may be dropped; three practice
  requests over three keys and two currencies; two vanity users, addresses and
  launches, a time to live of one tick; two challenges, wallets and users.
* The violation runs are the smallest instances that show the trace; `pump_missed`
  counts a dropped delivery only after the first checkpoint, and has no faults.

`CHECK_DEADLOCK FALSE` stands where the system may really rest: every bound used
up and nothing left to do.

## 6. Fairness

Only what timers and loops of the code guarantee, and never that a client, a fork,
a crash or a failure happens.

* Execution: the interval of one worker keeps polling (weak; the second process may
  stop for good); a chain read is answered and a started write gets through if tried
  again and again (strong): the code retries each tick and promises nothing if the node
  never answers. The last matters for the queue: a submission whose receipt is never
  read, or whose venue is not known, is never marked as checked and keeps its place at
  the front, so that 25 of them would keep every other one waiting.
* Ingestion, IngestionV2: ticks are rescheduled for ever (weak to begin and wait,
  strong for reads that may fail now and then).
* ReorgRecovery: each source's loop ticks on (weak).
* Candles: listeners poll, the fleet timer fires, a tick that began goes on (weak).
  Nothing is assumed of watched ticks, whose number is bounded: with unboundedly
  many, the two loops can find the token busy in lockstep for ever.
* WakeableLoop, HeadWakeup: timers fire, ticks return, time passes, the health
  timer closes an overdue socket, and the *good* endpoint answers (weak); nothing
  is assumed of the others.
* Failover: callers keep asking and every call comes back (weak on Next).
* Subscription: frames and observations are handled, a flow goes on, and a stall is
  noticed once no socket is heard of any more (weak).
* Realtime: the bus goes on and close events come, the heartbeat fires, frames are
  worked off (weak).
* PumpRecovery: the sweep and the reconnect timer fire, workers go on (weak).
  `FeedsSpec` names a step of each of the three in one condition: a behaviour is of one
  part, and the disjuncts of the others are never enabled in it.
* MoonPay: the minute passes, the poller's loop goes on (weak); a recoverable order
  is picked in the end, since the code takes those least recently looked at first,
  and the provider answers sometimes (strong).
* ForensicsJobs: slots that live go on, an abandoned lease runs out, the sweep
  fires (weak). A slot may die at any moment and nothing says that one does not.

## 7. Proofs

TLAPS checks eight modules; each theorem holds for every value of the constants: any
number of requests, workers, sockets, endpoints or tokens, any chain, limits and
delays. All follow one scheme: an invariant that strengthens the property, `Init =>`
it, one lemma or step per action that keeps it, and the property from it. What each
invariant adds, and why it is needed:

* **Execution_proofs** (`ResultsComeFromReceipts`, `NoHashIsForgotten`,
  `AnswersAreIdempotent`, `IdentityIsKept`). What a request or worker writes depends
  on what it read. `RequestsKnow`: rows are never deleted and identities never
  change, so an old read of them still holds; `WorkersKnow`: a worker's hashes are
  recorded and the receipt in its hands is the chain's. The *state* that was read is
  not among it. `DroppedAfterAbsence` has a hypothesis, one worker: `AbsenceCounted`
  bounds each counted attempt by the polls that found nothing (a found receipt moves
  the same counter, and a second worker could take that for an absence). What a stale
  state can do to the lifecycle is bounded without any: `OnlyRacesLeaveTheLifecycle`
  and `OnlyRacesReopen` hold for any number of hashes and processes, and name the two
  ways out. They rest on `Current`: what a lone worker has read of a trade with one
  hash is still so; on `Judged`: a submission was found acceptable before it is recorded;
  and on `UnsubmittedIsFresh`: a trade without a hash is as it was created.
* **Ingestion_proofs** (`BarrierIsHeld`, `NoLaunchIsMissed`, `OnlyExposedTokensMiss`,
  `CheckpointsOnlyAdvance` of V1; `V2HistoryIsWhole`). `BatchKnown`: tokens to be
  retried have a row; `CommitReady`: a trade tick about to commit ends at a block
  discovery has passed with nothing pending below it, and each trackable token up to
  there is in its list or exposed. Discovery only moves on, so this survives its
  steps. V2 has one such condition per venue, `SwapReady` and `CurveReady`: a range
  follows the checkpoint, however the window was narrowed in between, and discovery
  has passed it; by `FirstIsScanned` a listener with a checkpoint knows its first
  block.
* **ChainAccess_proofs.** The loop (`AnsweredPromptly`, `WaitsOutTheBackoff`,
  `ImplementsDoorbell`): `Timers` says that a waiting loop has a timer, never shorter
  than what is left of the backoff, and an unanswered wake is still pending;
  `ImplementsDoorbell` maps each step to a step of Doorbell or a stutter, and
  `WakeupIsALoop` shows that the socket adds nothing but wakes; `SocketComesBack`
  says that a socket or its timer is always there. The failover client
  (`CapIsEvidence`): by `AllThereUntilTheWidest` endpoints are left in order, so a
  request in which nobody sits out still has the widest one to ask. Forks
  (`RecoveryIsSound`, `CommonPastIsKept`): fork numbers grow with time and with height
  (`ForkGrows`, `HashesAreOld`), so a block is still the one a source scanned exactly
  when its fork is no newer than the checkpoint's hash (`StillScanned`), and for such
  blocks the rows are right at every step (`RowsMatchTheFork`); `RecordedBefore` is
  what an overtaken source lacks.
* **Candles_proofs** (`CandlesMatch`). Whatever is wrong about a candle, an open
  invalidation covers it that no loop settles without recomputing it: `Pinned`,
  since both loops may hold snapshots of the same invalidations with different
  windows. `ReadIsCanonical` and `WrittenAsRead` follow a recomputation, which reads
  while trades arrive and are orphaned; `StartsInTime` says that forward progress
  begins no later than the first trade not yet passed.
* **MoonPay_proofs** (`OneStoryPerOrder`, `NewestIsApplied`, `DoubleClicksBuyOnce`,
  `CompletionNeverRegresses`, `NoOrderIsLeftBehind`). `StatementsOK`: what is delivered was said of an
  existing order; `UnpaidIsFresh` and `RowsOK`: an order without a payment is as it was
  created, one with a payment shows something said of it and nothing kept is newer;
  `RequestsOK` and `PollsOK`: what requests and pollers hold is still so.
* **Ledgers_proofs**, by part, and for the run that composes them.
  Backfill (`HistoryHonest`): what is stored only grows, so it is enough that every
  copy of a cursor was `Covered` when taken (`RunOK`), and that nothing live is
  missing (`LiveIsStored`).
  PumpLedger (`LifecyclesAreHonest`): `PhaseFollowsEvents`, `SnapshotFollowsTrades` and
  `OrphansAreDropped` tie the maxima on the rows to the sets they are maxima of.
  Beside the finding `pump_ungraduated` stand `GraduationIsProven`, no mint is shown
  as graduated without a stored event that proves it, and `PhaseReachesTheRow`, a
  phase proven while there is a row reaches it: only a row created later misses it.
  Practice (`BasisIsOrderly`, `EveryFillIsBooked`, `BooksAreBalanced`): `LocksExclude`
  makes the cash that a transaction read under its lock current when it writes, so
  each step books one new trade and changes the balances by what it says. The books
  are sums over all trades, folds over a set. What such a fold returns needs the
  recursion to have a solution on every finite set (`SumsExist`: there is no least
  size without one), and a sum not to depend on which element is taken first
  (`SumsTakeOut`: there is no smallest set for which it does, by `SmallestSet`).
  Vanity (`ReservationsAreExclusive`): `TakesTurns`, a user has one reservation under
  way, and nothing of theirs outlives the time it has read; `PickedIsLocked`,
  `PickedIsFree`; `GrantedIsConsumed`, what was handed out can be read off a row that
  never changes.
  WalletVerification (`ChallengesLinkOnce`): `LinksAlone`, a request about to link has
  consumed a challenge that linked nothing, and is alone with it;
  `LinkedIsConsumed`.
* **Services_proofs** (`ForensicsHolds`, `OneOwnerPerJob`, `WhatIsSettledIsKept`). `WorkOK`: an attempt is
  in the hands of one slot, so its run is stored once; `RecsOK` and `TriesOK` follow a
  reconciliation by the slot and by the sweep; `ForwardOK`: one that does not overlap
  another writes a newer run over an older one.
* **Feeds_proofs** (`CheckpointIsBackedByEvents`, `EventsComeOnce`, `SlotIsBackedByFacts`,
  `GatewayServesItsSubscribers`, `StoppedStaysStopped`). `ReplaysCover`: every block up
  to where a replay goes was handed out or is still in its hands, which is why the
  checkpoint may jump there. `Remembers`: what was admitted less than a window ago is
  still in the deduplicator (`since` counts the admissions after it), for a window of
  any size, so that what it forgets is what `EventsComeOnce` lets come again. `Orderly`: of a connection's frames only the first is under way,
  for a channel not yet subscribed, so that closing leaves nothing but what that frame
  undoes. `AtWork`: whoever is about to write the pump.fun checkpoint has stored the
  transaction it names.

**Behind the liveness.** Fairness recovers a part only if its steps never leave it with
nothing to do. That half is safety, and a theorem for each part that recovers on its
own: a wakeup that was not stopped has a socket or the timer of the next one
(`SocketComesBack`, for `HeadsKeepComing`); a subscription that was not stopped and
did not give up has a connection under way or a timer (`SubscriptionIsTakenUp`, for
`BlocksArrive`); a started bus listens, opens, will retry or is about to hear of its
loss (`BusIsTakenUp`, for `RealtimeRecovers`); a deferred signature stays deferred
until its facts are being written, unless a throw or a restart forgets it or it holds no event
(`DeferredIsNotForgotten`, for `PumpIsRecovered`); an order of whose one payment
MoonPay says something new is on the list of the recovery worker, unless the code must
refuse the word (`NoOrderIsLeftBehind`, for `MissedEventsAreRecovered`); and a job that
was taken over is lost to whom it was taken from (`OneOwnerPerJob`, for
`ForensicsFinishes`). That timers then go off and tries succeed is what TLC checks.

**Runs and theorems.** All invariants that passing runs check, and the action
properties `OnlyRacesStray` and `WhatIsSettledStays`, are theorems, stated of
the specifications the runs check (`AccessSpec`, `RecoverySpec`, `AllSpec` of
MCIngestion, `LedgersSpec`, `ServicesSpec`, `FeedsSpec` for those that hold several
modules); `DroppedAfterAbsence` alone has the hypothesis above.

**Assumptions.** Modules name those on their constants (`AsksAssumption`,
`NumberAssumption`, `ChainAssumption`, `DelayAssumption`, `SocketAssumption`,
`LaunchAssumption`, `WidthsNest` and others), or, where a run instantiates them, define a predicate that
the MC module assumes and TLC evaluates for the values of the run: `ConstantsOK` of
Failover, MoonPay, ReorgRecovery, Subscription, Realtime and PumpRecovery, `BoundsOK`
of ForensicsJobs, `NumbersOK` and `ChainOK` of IngestionV2, `KnownKinds` of PumpLedger,
`QuotesOK` of Practice, `NamesApart` of Vanity, `NoneIsNobody` of WalletVerification.
They say that numbers are natural, names distinct, a token launches before it
graduates, resolutions nest, and that a quote gives something for something, which
the code enforces (`pons/quote/quoteService.ts:493`, `pons/quote/curveQuote.ts:100`).
`SocketAssumption` also says that powers of two are natural numbers, which is
arithmetic that the provers do not have: they know no exponents.

**Only model-checked.**

* Liveness under fairness, ENABLED included, is out of the prover's reach:
  `SubmissionsSettle`, `ListenersCatchUp`, `RecoveryConverges`, `CandlesConverge`,
  `HeadsKeepComing`, `NotAlwaysTooLate`, `ForensicsFinishes`, `MissedEventsAreRecovered`,
  `BlocksArrive` (but for `StopIsKept`, a theorem), `RealtimeRecovers`,
  `PumpIsRecovered`, and the fairness half of `ServesTheBell`.
* Refutations (the violation runs) are what TLC is for.

Where a proof needs the least number with a property, it takes it from the
well-foundedness of the naturals (`LeastNatural`), which the provers can use, instead
of an induction theorem; `SmallestSet` does the same for finite sets.

## 8. What the models showed

Four runs show the code doing what a comment of it excludes; `PROJECT.json`
"findings" quotes the comments.

1. `execution_replaced`: a second hash submitted for an intent reopens a settled
   trade (`executionService.ts:194`).
2. `late_trades`: a trade committed below the candle checkpoint by the slower of a
   token's two listeners is in no candle (`candleAggregationService.ts:306`).
3. `pump_missed`: what an open subscription announced while the queue was full, after
   the first checkpoint, is never walked to once a later transaction is stored
   (`pumpfunIngestionEngine.ts:263`).
4. `pump_ungraduated`: a migration stored before its token row exists never reaches
   that row (`pumpfunPersistence.ts:451`).

Modelling met more of the same kind. They have no run of their own, since a
passing run says what remains true in spite of them:

* With two API processes, a late DROPPED overwrites CONFIRMED
  (`executionService.ts:284`), although `reconciliationWorker.ts:97` says of a pass
  "Safe to call repeatedly and concurrently." With `Cases = {"processes"}`, one hash and
  two workers, `MCExecutionReplaced.cfg` finds `TerminalIsFinal` violated as it does
  with a second hash. `OnlyRacesStray` says that nothing else breaks the lifecycle.
* The trade tick's pool list is older than its barrier (`tradeListener.ts:114`, and
  the V2 listener): the exposed tokens of `MissedOnlyBehindATick`.
* The shared block history hides the fork point from a slower source
  (`reorgRecovery.ts:75`): the overtaken sources of `RowsFollowTheChain`.
* An invalidation moves the candle checkpoint past trades never aggregated
  (`candleAggregationService.ts:195`): the skipped ones of
  `CandlesMatchUnlessSkipped`. So may two forks, one within the other: when the second
  goes deeper but orphans no trade, it leaves the checkpoint at a trade of the first,
  and a trade of the live chain ingested below that is passed over.
* The deduplicator remembers 10,000 events (`wsSubscriptionManager.ts:99`) and the
  checkpoint of the feed moves only at a replay (`:279`): a reconnection after more live
  events than that hands out again all of those since the checkpoint, since what it
  replays first evicts the rest. `NothingRepeatedEarly` is what holds; the comment at `:95` says why
  the window is bounded.
* Sweeps stop at their budget: when the newest `maxRecoverySignatures` transactions hold
  nothing to store, the checkpoint stays and older ones are not reached
  (`pumpfunListener.ts:361`). `WithinBudget` excludes that.
* A rollback keeps the orphaned tip's timestamp (`reorgRecovery.ts:188`), so a
  candle may be FINAL before it has all its trades; `CandlesConverge` shows that it
  still gets them.
* A V1 token that was written as graduated is never read again, since the poller
  lists `graduated: false` only (`graduationPoller.ts:65`); `reorgRecovery.ts:147`
  relies on a poller that "re-reads graduationStatus() every tick regardless". A
  fork that undoes only the graduation leaves the flag set. No model yet.
* A wake during a failing tick waits for the backoff, not for the next interval as
  a plain wake does (`wakeableLoop.ts:32`): `WakesArePrompt` counts the backoff.

## 9. Not modelled, and why

The map covers less than a tenth of the repository's lines, and not much more of it is
a state machine. What is left out:

* **The bots and legacy programs** (`telegram`, `discord`, `index.ts`,
  `transactions.ts`, `simulation.ts`, `api`, `tracker`, `pumputils`): menus,
  commands and scripts around services whose state is elsewhere (Jupiter, Moralis,
  chat platforms), a quarter of the source.
* **Pure conversions**: Pons and pump.fun decoding, quotes and transaction building,
  forensic arithmetic, ranking, presentation, contracts and schemas. Their state is
  their arguments; their difficulty is 256-bit arithmetic and formats, which
  vectors reach better than small instances.
* **Wiring and I/O**: routes, middleware, metadata, USD rates, media, worker mains.
* **Single statements**: realtime tickets, paper positions, practice plans: one
  conditional update each, with no step in between.
* **Token intelligence**: parallel external reads and one report; its interleaving
  with forensics is in ForensicsJobs, its researchers are I/O.
* **The Solidity tests**: a program of their own.
* **Within modelled components**: session checkpoints; pruning of the block
  history; a fork in the middle of a tick (ReorgRecovery with the steps of Ingestion
  is far beyond what TLC can take); unresolved reorgs in candle finality; budgets
  over many tokens; the deadline of a backfill; realtime tickets and message
  windows; priorities between forensics jobs; throttling of the pump.fun listener;
  signatures, amounts and validation of requests. A hazard that lies there has a
  note in `PROJECT.json`.

Simplifications inside actions that a reader who compares them with the code will meet:

* Execution: the batch is any one that the order of checks allows; rows that were never
  checked come first in no particular order, where the database has one.
* Subscription: `start` after `stop`, which nothing in the repository calls.
* PumpRecovery: one walk with one budget, where the code walks the program and each
  known pool with a share of it (`pumpfunListener.ts:497-516`), after
  `backfillMissingCreates` (`:482`); a transaction whose trades are all dropped for want
  of their token counts as stored; the reconciler's runs do not overlap each other.
* PumpLedger: the refusal of a batch whose quote scale contradicts the stored one
  (`pumpfunPersistence.ts:156-164`).
* Candles: `Persist` and `Prune` are one step each, where the code writes chunks of 200
  rows (`persistCandles.ts:87-143`) and deletes per resolution (`recompute.ts:114-121`).
  What a crash between chunks leaves is repaired as what a crash before `Advance` is:
  the invalidation is open or the checkpoint not moved, and the window is written again.
  `ClaimForward` judges at the claim whether the token is behind, which the code lists
  earlier in the tick
  (`candleAggregationService.ts:265-302`): the older answer is the other order of the
  two steps, or a token found with nothing to do.
* ForensicsJobs: `RecFails` always records the failure; the code swallows a record that
  fails itself (`forensicsIntelligenceReconciliation.ts:149-159`), and its first read
  (`:51`) is outside the `try`.

## 10. The plan

Done: the modules of section 3, and proofs about all of them but LateTrades,
whose only property is refuted.

Next, in this order:

1. **The graduation poller** as an extension of ReorgRecovery: its list, its reads
   and its late writes against a recovery.
2. **Fork inside a tick** for one source and one fork, for the unconditional
   checkpoint write (`checkpointStore.ts:106`).
3. **Token intelligence**: dispatch, which drops what exceeds its capacity, and
   ownership of scans (`tokenIntelligenceDispatch.ts`, `scanOwnershipService.ts`).
4. **Market snapshots**: recomputation against reorgs, as Candles does it.
5. **Refinements**: ForensicsJobs and the poll of MoonPay as implementations of a
   queue that hands out each item until it is settled.
