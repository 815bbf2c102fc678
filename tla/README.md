# Verification of the merc control plane

The control plane (`src/src/control`, Go over PostgreSQL) takes batch jobs and
realtime calls from buyers, places the work on machines of suppliers, verifies
what comes back, and moves money: it charges buyers, credits suppliers, pays
them out and takes credits back. Its correctness arguments are about
transactions of several actors over the same rows: request handlers, agents,
verification processors, the elected leader's sweeps, operators, and a payment
provider that loses answers and repeats events. That is what the modules here
model. Formats, floating-point estimates, HTTP and the agent program are not.

## How to read a module

Every component has one module: its rows and in-process state as `VARIABLES`,
an `Init`, one action per handler, sweep or transaction, `Next`, the
specification, then the properties. A transaction of the database is one
action; what happens between two transactions (a call to the provider, an
upload, a read whose value is used later) is a step of its own, so that other
actors can move in between. Faults are explicit actions or disjuncts with a
named bound (`...Faults`, `...Troubles`, `Max...`). Operators named
`Definition_Variant`, marked "Mutant", are not used by any specification: each
is a plausible bug of the definition below it, and shows which property would
notice that bug.

Names follow the source. Modules that one run loads together cannot share
names, which is why many variables carry a prefix of their module (`cc`, `rt`,
`co`, `sl`, `dp`, `oc`, ...).

## Modules and the code they model

| module | source | what it is about |
|---|---|---|
| `WorkerLeader` | `worker_leader.go` | election of the one process that runs the sweeps, by an advisory lock whose session may die unnoticed |
| `Transitions`, `Lifecycle` | `schema.sql` | the `lifecycle_transitions` table, and a row its trigger guards, as an abstract specification |
| `TaskLifecycle` | `store_tasks.go`, `store_jobs.go`, `verification_apply.go`, `verification_lifecycle.go`, `scheduler.go`, `failure.go`, `workers.go` | one job, its task rows, verdicts, credits and charges, and the sweeps over them |
| `VerificationWork` | `verification_processor.go`, `verification_work*.go`, `verification_artifact.go`, `verification_apply.go` | durable verification: lease, chunk lock, seal, pin, plan, fenced application |
| `AtomicVerdicts` | the same | what verification promises: deciding and applying are one step per chunk |
| `ChargeCollection` | `collect.go`, `buyer_charge_operations.go`, `billing.go`, `store_billing.go` | charging a buyer, alone or in a batch, by request and by sweep |
| `BuyerFunding` | `store_prepaid.go`, `execution_envelope.go`, `buyer_open_exposure.go`, `realtime_store.go` | what a buyer may still commit: balance, grant, envelopes, holds |
| `PrepaidTopups` | `prepaid.go`, `store_prepaid.go` | card top-ups and refunds traced back to them |
| `ContributionSettlement` | `contribution_settlement*.go`, `risk_reserve_ledger.go`, `economic_facts.go`, `ledger_write.go` | the risk reserve, fee allocation, final and provisional settlement |
| `SupplierPayouts` | `store_payouts.go`, `store_disputes.go`, `stripe_cash_events.go`, `supplier_accrual.go`, `payment.go` | the payout sweep, reversals, funding, clawbacks, disputes |
| `JobEconomics` | `pricing_decision.go`, `economic_plan.go`, `observed_output_settlement.go` | the price of a job, from catalogue units to what is settled |
| `QuoteBinding` | `pricing_citation_authority.go`, `quote.go`, `pricing*.go`, `runtime_cell_performance.go` | the evidence behind a price, quotes, and the rechecks when a job is stored |
| `JobSubmission` | `api.go`, `store_jobs.go` | a submission under its idempotency key: input, classification, expansion, plans, one transaction |
| `Dispatch` | `scheduler.go`, `claim_narrowing.go`, `buyer_supplier_independence.go` | the claim statement, its gates and its explanation |
| `DynamicPeers` | `workers.go`, `store_tasks.go`, `scheduler.go`, `verification_lifecycle.go` | peers for hedges, tail races and third opinions |
| `TopologyPlanner`, `FabricEvidence` | `topology_*.go`, `execution_mode.go`, `fabric_*.go` | the frozen plan of a lane, and the measurements it may rest on |
| `RealtimeContracts` | `realtime.go`, `realtime_store.go` | realtime calls: contract, stream, settlement intent, recovery |
| `Coalescing` | `inflight_coalescing.go`, `exact_result_retention.go`, `exact_reuse*.go` | identical requests that share one execution |
| `ArrivalBatch`, `OfferHeartbeats`, `LiveIndex` | `arrival_batch.go`, `batch_policy.go`, `liveness_*.go` | batching of arrivals, reports of offers, and which of them are alive |
| `PrefixBeliefs` | `prefix_routing*.go` | which worker is believed to hold a prompt prefix |
| `ServiceLeases` | `service_lease*.go` | leased hosts: order book, metering, failover, settlement |
| `ProjectGraph`, `ProjectOrders` | `project_*.go`, `render_*.go`, `lora_evaluation_receipts.go` | compiled projects, their orders and their receipts |
| `ResultMerge` | `api.go`, `store_jobs.go`, `workers.go` | the merge of results by handlers and sweeps that overlap |
| `WorkerCredentials`, `WorkerRegistration` | `enrollment.go`, `store_workers.go`, `node_capability.go`, `runtime_matrix.go`, `benchmark_corroboration.go` | enrolment, rotation and revocation, and what a worker declares about itself |
| `BuyerAccess` | `accounts.go`, `api_key_cache.go`, `ratelimit.go` | keys, sessions, lockouts, token buckets |
| `OperatorControls` | `operational_controls.go`, `admin_mutation_audit.go`, `admin_authority.go` | pauses and adjustments by operators, and their record |
| `ActivationPolicy` | `activation_policy.go`, `runtime_profile_sync.go` | which runtime cells are active, for processes of different releases |
| `ObjectRetention` | `data_governance.go`, `job_object_retention.go` | erasure, retention and the deletion queue |
| `ProviderEvents` | `stripe_*_events.go`, `billing.go`, `payment_authority.go`, `webhook_delivery.go` | the provider's inbox, and the webhooks of buyers |

Components interact through rows. Where the interaction is the point the models
share it: `TaskLifecycle` holds job, tasks, credits and charges together,
`SupplierPayouts` credits with refunds and disputes, `ChargeCollection` jobs
with batches and the provider, `BuyerFunding` all the admissions that draw on
one balance. Where one component only hands another a value, the value is a
constant or an input there (the price of a job in `JobEconomics` is an amount in
`ChargeCollection`).

`PROJECT.json` gives, per definition, the lines it stands for. A helper whose
lines lie inside those of the definition that uses it has no entry of its own.

## Runs

Five runs check one specification each. In the others, called sums, the `MC`
module extends several components that share no state; a behaviour picks one
part at the start, only that part moves, and all properties are invariants of
the whole. A sum is the disjoint union of the state spaces of its parts.

| run | what it shows |
|---|---|
| `task_votes` | `VotesSettle`: a checked chunk with copy, tiebreak and majority. `tasks_done` stays within `task_count`, and a credit stands only for a result whose last verdict pays. |
| `task_races` | `PaidOnce`: a primary and its hedge under commits, failures, every requeue path, cancellation and finalisation. One charge per chunk, one verdict per attempt, the reserve spent exactly by the rows it paid for. `TerminalIsFrozen`: nothing moves in a job that ended. `ClaimsReleased`: its claims are let go. |
| `task_chunks` | `EndsDeliverable`: two chunks, one beside a honeypot, under a cap below the number of rows. A job completes only with a deliverable result for each chunk and ends over no result that is being judged. `WithinBudget`: charges and work in flight together stay within the buyer's cap. |
| `verification` | `VerdictsAtomic`: two attempts of a chunk and two processor runs refine `AtomicVerdicts`, as long as no lock session dies and nothing else moves the task (`KeptSpec`). `AllJudged`: both are judged in the end, but for an attempt whose planning is refused every time and one in whose chunk an application is rolled back every time: those are retried without end. |
| `payouts` | `PayoutsSettle`: two sweeps, lost answers, late transfers, clawbacks and a dispute. Cash moves once, fractions of a cent are kept, cash taken back is recovered, a dispute can always be closed. `BackedUnlessRejected`: what a refund exposes is not released, except after a rejected dispute (see the findings). |
| `payments` | `CollectedOnce`, `FundsCover`, `TopUpsReconcile`, `ReserveReconciles`: a job is collected once unless a stale first attempt writes over its status (see the findings), admissions are covered by the buyer's money, balance and provider agree on top-ups and refunds, and settlement adds up in nanos and in micros. |
| `market` | `EconomicsHold`, `RealtimeKept`, `ReuseIsVerified`, `LeasesReconcile`, `SubmittedOnce`, `QuotesBind`, `OrderKept`, `GraphPlans`, `ReceiptsStand`: what is sold is planned, priced, admitted, billed and receipted consistently although requests are retried and sweeps act behind them, with the exceptions listed below. |
| `work` | `ClaimsWithinTerms`, `PeersStand`, `ArtifactKept`, `PlacementOnEvidence`, `IndexKept`: claims under a shared cap and what the diagnostics say of them, independent peers before and after a requeue clears their pin, overlapping merges, placement on measured links, the timing wheel of live offers. `WorkSteps`: pins of a verification are not replaced, not even when the advisory lock is lost, an object is given up only after its retries, no task of an ended job starts. |
| `platform` | `NoOverlapWithoutSessionLoss`, `CredentialsHold`, `AccessHolds`, `ObjectsAccounted`, `EventsKept`, `PolicyHolds`, `ArrivalsKept`, `BeliefsEarned`, `OperatorsHeard`: leadership, credentials, keys, retention, events, policy, batching, beliefs and operators, with the exceptions listed below. `StepsPermitted`: steps none of these services takes, such as ending a delivery that another deliverer has taken over. |
| `progress` | `AllConclude`: leadership is taken again, cash is recorded, refunds are decided, contracts and intents end, waiters leave, erased objects go, webhooks and events land, handlers return, batches are served, jobs conclude. |
| `released_unbacked`, `retention_stops` | the first two findings below, as violations |

Each of these properties is a conjunction of named ones; the definition of each
conjunct has a comment that says what it means for the code. For every property
`PROJECT.json` names a mutant of the code, a dropped guard or a missing step,
under which the same run reports that property.

`Spec`s allow stuttering and most parts end once their requests are spent, so
deadlock is not checked there; it is checked in `payouts`, where sweeps can
always begin again.

### Bounds

- Two actors are enough for a race over one row, three where one of them has to
  arrive between two others (three requests, two of them under one idempotency
  key, in `RealtimeContracts`; three registrations in `WorkerRegistration`; a
  fourth worker in `task_votes`, so that primary, copy and tiebreak have an
  independent one left).
- One or two faults per behaviour: each fault action fires alone and, where the
  bound is two or three, together with a second one.
- A counter with a limit in the code (retries, elections, attempts of a
  delivery, lease attempts, map sizes) has the smallest limit at which the step
  before it, the step at it and the step after it all happen.
- Amounts are small numbers with the ratios that decide something: a job below
  the threshold of a charge and one above it, a credit smaller than a cent,
  prices with and without a remainder in the next coarser unit.
- Clocks are integers up to a horizon at which every deadline of the part has
  passed once.
- In `MCSupplierPayouts` two sweeps overlap until a refund arrives or the dispute
  is decided, and take turns from then on (`OverlapFirst`). `FabricBegins` in
  `MCWork` names interchangeable workers and certificates in the order they
  appear, and lets the first session be one over a link. `MCPayments` explores charges twice: once with a card that is saved late
  and no fault or failed charge, once with a card on file and a crash.
- `MCVerificationWork` (`OneRefused`) lets one of the two attempts be refused, by
  planning or by its application, and the other one lose its object. Refusals are
  not counted as faults: they may come every time.
- `MCWork` has one part with two tasks of a batch job and one (`families`) with a
  task of a job of placement version 4. A dynamic task loses its pin once
  (`DyTries`), by a failure or with a rejected result; only the leader hedges. A
  link receipt lists the rounds that were run, one of them possibly again.
- `MCPlatform` has arrivals without a deadline and with one that a full batch
  would miss (`ArSpans`). The calls of operators are a pause, a resume
  under its ticket, a resume under another (`controls`), and an adjustment, its
  exact retry and another amount under its ticket (`adjustments`). A buyer whose
  account is closed has at most one provider event on its way (`QuietOnceErased`).
- `MCMarket` explores project orders twice (`projects`, `requotes`): two clients and
  a root quoted once, or one client and a root quoted twice.

The proofs below do not depend on any of these bounds.

### Fairness

Fairness is assumed of what a running process or a periodic sweep does, never of
buyers, agents, operators or the arrival of faults.

- `TaskLifecycle`: weak fairness of `DetachTerminal`, the leader's sweep.
- `VerificationWork`: weak fairness of a run's own steps and of the expiry of an
  abandoned lease; strong fairness of claiming a row, because the drain claims
  the oldest due rows every two seconds and a row is claimable only between two
  runs. `AllJudged` also assumes that a row that keeps trying for the chunk lock
  does not lose every race (`RaceFair`). Nothing is assumed of refusals.
- `WorkerLeader`: every replica's loop goes on; failed pings are noticed.
- `ChargeCollection`, `PrepaidTopups`, `ProviderEvents`: the provider redelivers
  an event until it is acknowledged; the recovery sweep keeps listing.
- `RealtimeContracts`, `Coalescing`, `ArrivalBatch`/`OfferHeartbeats`: handlers
  take their next step, timers fire, the sweep reaches every intent and every
  stale contract.
- `Dispatch`: the workers in `Steady` keep polling; tasks age.
- Strong fairness in `progress` (`Attempt`) is for the sweeps that try again each
  interval what another actor may have in hand at the moment: removing a prefix,
  claiming a due hook, listing the jobs to merge.
- `FabricEvidence` (`retention_stops`): retention passes keep running.

## Findings

- `retention_stops`. Rows of `fabric_topology_evaluations` are append-only: a
  trigger refuses their deletion. Once one is older than the retention,
  `sweepTelemetryRetention` fails at it in every pass and returns before
  `sweepPendingObjectDeletions`, so keys queued by an erasure stay in storage.
- `released_unbacked`. A dispute filed during a transfer and rejected after a
  refund of the buyer arms the operation again; the answer of the transfer then
  finalizes it as released without a look at the funding.

The other findings are disagreements between the code and what a comment or a
test says of it. Each is an exception that the property of a passing run states
by name, so that everything beside it is still checked; without the exception TLC
refutes the property. `PROJECT.json` quotes the lines.

| property | exception | the code |
|---|---|---|
| `CollectedOnce` | `ccStale` | a charge decided on a status that changed since is made beside the one the change brought (`billing.go:1028`): a job can be paid for twice |
| `RealtimeKept` | `dropped` | settlement of a delivered stream fails and so does the write of its evidence (`realtime.go:1563`): nothing is left to bill |
| `RealtimeKept` | `excess` | a heartbeat writes free sequences from an older snapshot (`liveness_ingest.go:595`): a sequence is handed out twice. Counted one for one |
| `LeasesReconcile` | `early` | a refresh between expiry and finalisation no longer counts the lease (`service_leases.go:688`): its replicas are free twice. Counted one for one |
| `SubmittedOnce` | `RefusedTwin` | a refused request deletes the input its accepted twin shares (`api.go:728`) |
| `OrderKept` | `poSlips` | the file of a dependent step is hashed and then read again (`project_dependency.go:264`): other bytes pass if they are there after the check of both commands |
| `ClaimsWithinTerms` | version 4 | the diagnostics do not know a placement version the claim accepts (`claim_narrowing.go:256`) |
| `PeersStand` | hedges | claims of a hedge leave no history (`scheduler.go:1316`): who gave it up without a result may take the third opinion once another runs it. A hedge that lost its pin is claimed without a test of independence (`FreedHedge`) |
| `AccessHolds` | late lookups | a lookup that read before a revocation caches the key after it (`store.go:348`) |
| `EventsKept` | rows not seen | the identity check reads the snapshot taken before its lock (`stripe_risk_events.go:115`): a warning can name two charges |
| `OperatorsHeard` | `Indistinct` | the digest of a request does not say whether a control is paused or resumed (`admin_mutation_audit.go:43`): a resume under the ticket of its pause is told ok and changes nothing |
| `OperatorsHeard` | overlapping reads | a read that began before a change caches the old state after it (`operational_controls.go:92`) |
| `BeliefsEarned` | `ProvisionalOverlap` | registrations that overlap do not see each other's measurements (`store_workers.go:673`): both rates are believed for the time being |

Five more exceptions contradict no line of the repository:

- `TaskLifecycle`, `trampled`. `reapNoPeerWedged` lists tasks, probes for a peer, and
  requeues by id; `RequeueTask` names no status, so a task that was committed in
  between is taken back. `DoneWithinCount`, `CreditMatchesVerdict`,
  `CompleteIsDeliverable` and `NoOrphanVerification` are stated for behaviours in
  which there is none. `PaidOnce`, `WithinBudget` and `TerminalIsFrozen` are not
  restricted.
- `AllJudged`: attempts refused for ever, as above.
- `CredentialsHold`, `late`: a code whose exchange was open while its chain was
  revoked may yield a credential that lives on.
- `ReuseIsVerified`, `NoOverlapWithoutSessionLoss`: two executions after a lease ran
  out, two leaders after a session was lost.
- `ObjectsAccounted` (`ErasureIsQueued`), `AllConclude` (`ErasedIsGone`): after a restore from before a tombstone the
  objects go by the retention of jobs, not by the deletion queue.

A link receipt may list one observed round several times
(`validateFabricLinkMeasurement` compares no transcripts, the validator of
collectives does), so its sample count is a number of entries. `VerifiedIsObserved`
claims that each entry was reported by both ends, and distinct rounds only of
collectives.

## Proofs

Eight modules hold theorems that TLAPS checks for every value of the constants:
any number of chunks, workers, callers, replicas, processor runs, faults, and any
amounts. Each rests on one inductive invariant; it was checked by TLC on the
run of its component first. The assumptions are the named `ASSUME`s of the
component modules: finite sets of actors, naturals for limits, and values that
stand for NULL being none of the column's values. TLC evaluates them in the runs.

**`TaskLifecycleProofs`** (`LifecycleAssumption`). `BudgetKept`
(`WithinBudget`) bounds settled charges *plus* work in flight: a claim is checked and
a charge is not, so the charges alone would not be inductive. `ChunksPaidOnce` (`PaidOnce`) needs `VerdictInv`, which ties a
verdict to an attempt that is over or delivered, and `WorkInv`, one open work item
per delivered result and none in a job that ended. The remaining theorems need
a second layer, `DInv`: `DeliverInv` follows a chunk from the first delivery, which
is charged and becomes its artifact, to the third opinion that may replace it;
`EndInv` says a primary fails in a living job only to a delivered hedge; `CountInv`
says `task_count` and `tasks_done` are the sizes of two sets of rows, one inside
the other; `PresentInv` and `QueuedInv` are what finalisation relies on. They give
`VotesSettled` (`VotesSettle`), `JobsEndDeliverable` (`EndsDeliverable`),
`TerminalFrozen` (`TerminalIsFrozen`), and the refinements of the trigger's table
`TaskRowsGuarded` and `JobRowGuarded`.

**`VerificationWorkProofs`** (`WorkAssumption`). `VerdictsArePlans`, `PinsStand` and
`EvidenceStands` hold whatever leases, locks and tasks are lost. `EvidenceStands`
(`EvidenceFails`) is about decisions taken from a copy of the row: `RunEvidence`
says what a run may still conclude from its copy, because attempts only grow,
and `RowEvidence` that a planned row is pinned. `PlansFresh` and
`ImplementsAtomic` (`VerdictsAtomic`, the refinement of `AtomicVerdicts`) assume
that no lock session dies under its holder (`~LockLoss`); with a lost lock two
runs can plan for one chunk at once. Their invariant is that a run inside the
lock is alone with the unfinished plan of its chunk and that its draft was
computed from the verdicts the chunk has now.

**`ChargeCollection`** (`ChargeConstants`). `CollectedSafely` (`CollectedOnce`)
from `CcLiveInv` (a request that moved money, or still might, is the last try of an
operation not marked failed, and a caller about to ask is the only one and finds
no such request), `CcPaidInv`
(a succeeded operation has its money) and `CcOneWay` (until a stale write a job has
an operation of its own or a batch, never both). What it proves of a second
payment is that it needs such a write.

**`QuoteBinding`** (`QbAssumption`). `QbQuotesBind` (`QuotesBind`). The invariant
carries, for every stored quote, the plan it was built from and how long each
piece of its evidence lasts (`QuoteInv`); for every call in flight, that what it
holds was true of the release it loaded (`CallInv`); and for every job, what was in
force at its insert (`JobInv`). The lemmas about the earliest expiry of a set of
receipts rest on the well-foundedness of the naturals.

**`RealtimeContracts`** (`RealtimeConstants`). `RealtimeSafe` (`RealtimeKept`) from
`RtInv`: `HandlerInv` says what the place of a handler implies about its contract
and its intent, namely that nobody else ends the contract before its deadline and
no sweep takes the intent before the handler has left its evidence. Capacity is
proved with the sequences handed out again (`excess`) on the other side of the
inequality, accounting for streams whose evidence was not lost (`dropped`).

**`Coalescing`** (`CoalescingConstants`). `CoalescedVerified` (`ReuseIsVerified`) from
`CoInv`, whose core is that, as long as nothing went wrong, whoever executes leads
the running row under a lease that is not over. `CoalescedStable`: a published
answer is not replaced while its row lives.

**`JobSubmission`** (`SubmissionConstants`, among them that a body is identified by
its digest). `JobSubmittedOnce` (`SubmittedOnce`) from `JsInv`. Nothing is locked
before the transaction, so the invariant follows each request: `JsPlace` says what
it has stored so far, `JsChunkInv` that its chunk is in the store from the upload
until its cleanup, `JsInputInv` that the input it shares with its twins is there
unless a refused twin's cleanup took it. `JsRowInv` ties a row to the one request
it was accepted from, and `JsFundInv` the funds to the number of rows.

**`PlatformProofs`**, on two modules. `WorkerLeader` (`ConstantsAssumption`):
`NoOverlap` (`NoOverlapWithoutSessionLoss`) from `LeaderInv`, which links sweeping to
the session and the session to the lock. `OperatorControls` (`OperatorAssumption`,
`OcNoneAssumption`): `OperatorsSafe` (`OperatorsHeard`) from `OcInv`: what an open
transaction has read and locked (`OcTxInv`), that an answered call is on record with
its actor, target, reason and amount, or, of a control, with what it or a request the
record cannot tell from it asked (`Indistinct`), and that a cached control older than the operator's change was read while that change
was under way (`OcSeenInv`). `OperatorRevoked`: a revoked operator changes nothing.

### Only model-checked

- Everything temporal under fairness: `AllJudged`, `ClaimsReleased`,
  `AllConclude`. Liveness and `ENABLED` are outside the prover.
- Properties about sums and folds over sets, whose proofs are inductions over
  data: `ReserveReconciles`, `PayoutsSettle`, `LeasesReconcile`, `OrderKept`; and
  those about recursive definitions or folds over sequences (`GraphPlans`,
  `ArtifactKept`, `ArrivalsKept`, the prefixes in `BeliefsEarned`).
- `FundsCover`, `TopUpsReconcile`, `EconomicsHold`, `BackedUnlessRejected`, `ReceiptsStand`, `ClaimsWithinTerms`,
  `PeersStand`, `PlacementOnEvidence`, `IndexKept`, `CredentialsHold`,
  `AccessHolds`, `ObjectsAccounted`, `EventsKept`, `PolicyHolds`: no inductive invariant has been written for these components.
  Of `WorkSteps` the conjuncts about verification are proved (`PinsStand`,
  `EvidenceStands`), of `StepsPermitted` the one about operators
  (`OperatorRevoked`).

## What is not modelled

The worker program and the clients are the environment: they call in any order
the control plane allows. Comparators of results are a nondeterministic verdict.
Left out are floating-point estimates and calibration (what is frozen from them
into a job is an input), ranking and clearing of realtime offers (which offer is
taken is a choice), documents nobody reads back, media containers, the object
storage client, HTTP, configuration, metrics, offline tools and tables of
runtime adapters. `PROJECT.json` lists every component with what was left out of
it, and the hazards no property covers.

Known limits: rows of one component that another one reads are inputs there, so
an error that needs a particular history of two components that share no model
is not seen. Transactions are atomic and serial; where the code relies on a
weaker isolation level the statements between which others may commit are
separate steps, and those places are named in the modules.
