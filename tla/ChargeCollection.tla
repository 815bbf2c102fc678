-------------------------- MODULE ChargeCollection --------------------------
(***************************************************************************)
(* Collecting what the terminal jobs of one buyer owe (collect.go,          *)
(* billing.go, buyer_charge_operations.go): a job is charged on its own or, *)
(* below the threshold, deferred into a batch.  chargeOrDeferJob is run by  *)
(* the API process that finalises a job and by the collect sweep, at the    *)
(* same time and without a lock; the durable row of                         *)
(* buyer_charge_operations is the boundary that a request to the payment    *)
(* provider crosses at most once.                                           *)
(***************************************************************************)
EXTENDS Integers, FiniteSets, FiniteSetsExt, Transitions, TLAPS

CONSTANTS
    Jobs,         \* jobs of one buyer, all terminal
    ChargeBatches,      \* ids of charge_batches
    Sweepers,     \* processes that run collectCharges (the worker leader)
    Handlers,     \* API requests that run chargeOrDeferJob after finalising
    Owed,         \* what a job owes before its SLA is settled
    Threshold,    \* chargeMinUSD
    CcMaxAttempts,  \* chargeMaxAttempts
    CcMaxFaults,    \* bound on crashes and on errors before the request boundary
    CcNone

ASSUME ChargeConstants ==
    /\ Jobs \cap ChargeBatches = {} /\ Sweepers \cap Handlers = {}
    /\ CcNone \notin Jobs \cup ChargeBatches
    /\ Owed \in [Jobs -> Nat \ {0}] /\ Threshold \in Nat \ {0}
    /\ CcMaxAttempts \in Nat \ {0} /\ CcMaxFaults \in Nat

Sources == Jobs \cup ChargeBatches
Chargers == Sweepers \cup Handlers

VARIABLES
    ccStatus,    \* jobs.charge_status
    ccDue,       \* firmChargeAmountSQL of a job
    frozen,    \* jobs.charge_attempt_usd, 0 for NULL
    batchOf,   \* jobs.charge_batch_id
    ccAttempts,  \* jobs.charge_attempts and charge_batches.attempts
    ccBatch,     \* charge_batches.status, "none" before the row exists
    ccTotal,     \* charge_batches.amount_usd
    ccOp,        \* buyer_charge_operations.status, "none" before the row exists
    ccBound,     \* buyer_charge_operations.amount_cents
    try,       \* buyer_charge_operations.provider_attempt
    ccSettled,   \* jobs whose SLA outcome is decided (sla_met)
    card,      \* the buyer has a saved payment method
    pending,   \* provider: requests whose outcome is still open
    ccCash,      \* provider: requests that moved the buyer's money
    ccPc, ccSrc, ccMode, amt,   \* each caller: step, source, path, amount it read
    ccStale,     \* a first attempt wrote a job that had left not_attempted
    ccFaults

jobVars == <<ccStatus, ccDue, frozen, batchOf, ccSettled>>
ccBatchVars == <<ccBatch, ccTotal>>
ccOpVars == <<ccOp, ccBound, try>>
ccProviderVars == <<card, pending, ccCash>>
callerVars == <<ccPc, ccSrc, ccMode, amt>>
ccVars == <<jobVars, ccBatchVars, ccAttempts, ccOpVars, ccProviderVars, callerVars, ccStale, ccFaults>>

Members(b) == {j \in Jobs : batchOf[j] = b}
Owing(js) == MapThenSumSet(LAMBDA j : ccDue[j], js)

\* The trigger on charge_status: an UPDATE along no edge aborts its statement.
MayBecome(j, s) == ccStatus[j] = s \/ <<ccStatus[j], s>> \in ChargeEdges

CcInit ==
    /\ ccStatus = [j \in Jobs |-> "not_attempted"]
    /\ ccDue = Owed
    /\ frozen = [j \in Jobs |-> 0]
    /\ batchOf = [j \in Jobs |-> CcNone]
    /\ ccSettled = {}
    /\ ccBatch = [b \in ChargeBatches |-> "none"]
    /\ ccTotal = [b \in ChargeBatches |-> 0]
    /\ ccAttempts = [s \in Sources |-> 0]
    /\ ccOp = [s \in Sources |-> "none"]
    /\ ccBound = [s \in Sources |-> 0]
    /\ try = [s \in Sources |-> 0]
    /\ card \in BOOLEAN
    /\ pending = {} /\ ccCash = {}
    /\ ccPc = [p \in Chargers |-> "idle"]
    /\ ccSrc = [p \in Chargers |-> CcNone]
    /\ ccMode = [p \in Chargers |-> "first"]
    /\ amt = [p \in Chargers |-> 0]
    /\ ccStale = FALSE
    /\ ccFaults = 0

CcFault == ccFaults < CcMaxFaults /\ ccFaults' = ccFaults + 1

\* A caller moves to another step of the same charge ...
Goto(p, step) ==
    /\ ccPc' = [ccPc EXCEPT ![p] = step]
    /\ UNCHANGED <<ccSrc, ccMode, amt>>

\* ... or returns.
Return(p) ==
    /\ ccPc' = [ccPc EXCEPT ![p] = "idle"]
    /\ ccSrc' = [ccSrc EXCEPT ![p] = CcNone]
    /\ ccMode' = [ccMode EXCEPT ![p] = "first"]
    /\ amt' = [amt EXCEPT ![p] = 0]

TakeCharge(p, s, m, n, step) ==
    /\ ccPc[p] = "idle"
    /\ ccPc' = [ccPc EXCEPT ![p] = step]
    /\ ccSrc' = [ccSrc EXCEPT ![p] = s]
    /\ ccMode' = [ccMode EXCEPT ![p] = m]
    /\ amt' = [amt EXCEPT ![p] = n]
-----------------------------------------------------------------------------
(* chargeOrDeferJob                                                         *)

\* JobChargeInfo and JobChargeStatus: the amount and the status are read once.
ReadJob(p, j) ==
    /\ ccStatus[j] = "not_attempted" /\ ccDue[j] > 0
    /\ TakeCharge(p, j, "first", ccDue[j], "read")
    /\ UNCHANGED <<jobVars, ccBatchVars, ccAttempts, ccOpVars, ccProviderVars, ccStale, ccFaults>>

\* MarkJobDeferred, below the threshold.
DeferJob(p) ==
    /\ ccPc[p] = "read" /\ amt[p] < Threshold
    /\ ccStatus' = IF ccStatus[ccSrc[p]] = "not_attempted"
                   THEN [ccStatus EXCEPT ![ccSrc[p]] = "deferred"] ELSE ccStatus
    /\ Return(p)
    /\ UNCHANGED <<ccDue, frozen, batchOf, ccSettled, ccBatchVars, ccAttempts, ccOpVars, ccProviderVars,
                   ccStale, ccFaults>>

\* GetBillingCustomer finds a card, and FreezeChargeAmount keeps the first amount.
FreezeAmount(p) ==
    /\ ccPc[p] = "read" /\ amt[p] >= Threshold /\ card
    /\ frozen' = IF frozen[ccSrc[p]] = 0 THEN [frozen EXCEPT ![ccSrc[p]] = amt[p]] ELSE frozen
    /\ Goto(p, "ready")
    /\ UNCHANGED <<ccStatus, ccDue, batchOf, ccSettled, ccBatchVars, ccAttempts, ccOpVars, ccProviderVars,
                   ccStale, ccFaults>>

\* GetBillingCustomer finds no card ...
MissCard(p) ==
    /\ ccPc[p] = "read" /\ amt[p] >= Threshold /\ ~card
    /\ Goto(p, "nocard")
    /\ UNCHANGED <<jobVars, ccBatchVars, ccAttempts, ccOpVars, ccProviderVars, ccStale, ccFaults>>

\* SetChargeStatus: an UPDATE by id alone, limited only by the trigger.
SetChargeStatus(j, s) ==
    /\ ccStatus' = IF MayBecome(j, s) THEN [ccStatus EXCEPT ![j] = s] ELSE ccStatus
    /\ ccStale' = (ccStale \/ (MayBecome(j, s) /\ ccStatus[j] \notin {"not_attempted", s}))

\* ... and parks the job as no_payment_method.
ParkJob(p) ==
    /\ ccPc[p] = "nocard"
    /\ SetChargeStatus(ccSrc[p], "no_payment_method")
    /\ Return(p)
    /\ UNCHANGED <<ccDue, frozen, batchOf, ccSettled, ccBatchVars, ccAttempts, ccOpVars, ccProviderVars,
                   ccFaults>>
-----------------------------------------------------------------------------
(* The other work of collectCharges                                         *)

\* FailedChargesDue and JobFrozenChargeInfo: a failed single charge is retried.
ReadFailed(p, j) ==
    /\ p \in Sweepers /\ ccStatus[j] = "failed" /\ frozen[j] > 0
    /\ TakeCharge(p, j, "retry", frozen[j], "ready")
    /\ UNCHANGED <<jobVars, ccBatchVars, ccAttempts, ccOpVars, ccProviderVars, ccStale, ccFaults>>

\* AttemptingChargeBatches: a batch is charged, or charged again.
ReadBatch(p, b) ==
    /\ p \in Sweepers /\ ccBatch[b] = "attempting"
    /\ TakeCharge(p, b, "batch", ccTotal[b], "ready")
    /\ UNCHANGED <<jobVars, ccBatchVars, ccAttempts, ccOpVars, ccProviderVars, ccStale, ccFaults>>

\* Mutant: the candidates of a batch are not limited to deferred jobs.
Deferred_AnyStatus == {j \in Jobs : ccStatus[j] # "charged" /\ batchOf[j] = CcNone /\ ccDue[j] > 0}

Deferred == {j \in Jobs : ccStatus[j] = "deferred" /\ batchOf[j] = CcNone /\ ccDue[j] > 0}

\* ReflipNoCardJobs: the buyer has saved a card.
ReflipNoCardJobs ==
    LET back == {j \in Jobs : ccStatus[j] = "no_payment_method" /\ batchOf[j] = CcNone /\ ccDue[j] > 0}
    IN  /\ card /\ back # {}
        /\ ccStatus' = [j \in Jobs |-> IF j \in back THEN "deferred" ELSE ccStatus[j]]
        /\ UNCHANGED <<ccDue, frozen, batchOf, ccSettled, ccBatchVars, ccAttempts, ccOpVars, ccProviderVars,
                       callerVars, ccStale, ccFaults>>

\* BuyersDueForBatch finds the buyer, who has no card: MarkBuyerDeferredNoCard.
MarkBuyerDeferredNoCard ==
    /\ ~card /\ Owing(Deferred) >= Threshold
    /\ ccStatus' = [j \in Jobs |-> IF ccStatus[j] = "deferred" /\ batchOf[j] = CcNone
                                   THEN "no_payment_method" ELSE ccStatus[j]]
    /\ UNCHANGED <<ccDue, frozen, batchOf, ccSettled, ccBatchVars, ccAttempts, ccOpVars, ccProviderVars,
                   callerVars, ccStale, ccFaults>>

\* BuyersDueForBatch finds the buyer, who has a card: FormChargeBatch.
FormChargeBatch(b) ==
    /\ card /\ ccBatch[b] = "none" /\ Owing(Deferred) >= Threshold
    /\ ccBatch' = [ccBatch EXCEPT ![b] = "attempting"]
    /\ ccTotal' = [ccTotal EXCEPT ![b] = Owing(Deferred)]
    /\ batchOf' = [j \in Jobs |-> IF j \in Deferred THEN b ELSE batchOf[j]]
    /\ UNCHANGED <<ccStatus, ccDue, frozen, ccSettled, ccAttempts, ccOpVars, ccProviderVars, callerVars,
                   ccStale, ccFaults>>

\* SettleJobSLA: a missed guarantee takes its premium off the amount due.
SettleJobSLA(j) ==
    /\ j \notin ccSettled
    /\ ccSettled' = ccSettled \cup {j}
    /\ \E refund \in {0, 1} : ccDue' = [ccDue EXCEPT ![j] = @ - refund]
    /\ UNCHANGED <<ccStatus, frozen, batchOf, ccBatchVars, ccAttempts, ccOpVars, ccProviderVars,
                   callerVars, ccStale, ccFaults>>
-----------------------------------------------------------------------------
(* How a caller ends a charge that certainly moved no money                 *)

\* AdvanceFailedChargeRetry.
AdvanceFailedChargeRetry(j) ==
    /\ IF ccStatus[j] = "failed"
       THEN /\ ccAttempts' = [ccAttempts EXCEPT ![j] = @ + 1]
            /\ ccStatus' = IF ccAttempts[j] + 1 >= CcMaxAttempts
                           THEN [ccStatus EXCEPT ![j] = "manual_review"] ELSE ccStatus
       ELSE UNCHANGED <<ccAttempts, ccStatus>>
    /\ UNCHANGED <<ccBatch, ccStale>>

\* BumpChargeBatchRetry.
BumpChargeBatchRetry(b) ==
    /\ IF ccBatch[b] \in {"attempting", "outcome_unknown"}
       THEN /\ ccAttempts' = [ccAttempts EXCEPT ![b] = @ + 1]
            /\ IF ccAttempts[b] + 1 >= CcMaxAttempts
               THEN /\ ccBatch' = [ccBatch EXCEPT ![b] = "manual_review"]
                    /\ ccStatus' = [j \in Jobs |->
                                      IF j \in Members(b) /\ ccStatus[j] \in {"outcome_unknown", "failed"}
                                      THEN "manual_review" ELSE ccStatus[j]]
               ELSE UNCHANGED <<ccBatch, ccStatus>>
       ELSE UNCHANGED <<ccAttempts, ccBatch, ccStatus>>
    /\ UNCHANGED ccStale

ChargeFailed(p) ==
    \/ ccMode[p] = "first" /\ SetChargeStatus(ccSrc[p], "failed") /\ UNCHANGED <<ccAttempts, ccBatch>>
    \/ ccMode[p] = "retry" /\ AdvanceFailedChargeRetry(ccSrc[p])
    \/ ccMode[p] = "batch" /\ BumpChargeBatchRetry(ccSrc[p])

\* chargeBuyer fails before the request boundary: no payment authority, no card
\* any more, or a database error.
FailEarly(p) ==
    /\ ccPc[p] = "ready" /\ CcFault
    /\ ChargeFailed(p)
    /\ Return(p)
    /\ UNCHANGED <<ccDue, frozen, batchOf, ccSettled, ccTotal, ccOpVars, ccProviderVars>>
-----------------------------------------------------------------------------
(* BeginBuyerChargeOperation                                                *)

\* The rows that cross the boundary with the operation: the job, or the batch
\* and its unpaid jobs.
Crossing(s) == IF s \in Jobs THEN {s} ELSE {j \in Members(s) : ccStatus[j] # "charged"}

\* The operation row is new: it and its source become outcome_unknown.
BeginFirst(p) ==
    LET s == ccSrc[p] IN
    /\ ccPc[p] = "ready" /\ ccOp[s] = "none"
    /\ IF s \in Jobs THEN ccStatus[s] # "charged" ELSE ccBatch[s] = "attempting"
    /\ \A j \in Crossing(s) : MayBecome(j, "outcome_unknown")
    /\ ccOp' = [ccOp EXCEPT ![s] = "outcome_unknown"]
    /\ ccBound' = [ccBound EXCEPT ![s] = amt[p]]
    /\ try' = [try EXCEPT ![s] = 1]
    /\ ccStatus' = [j \in Jobs |-> IF j \in Crossing(s) THEN "outcome_unknown" ELSE ccStatus[j]]
    /\ ccBatch' = [b \in ChargeBatches |-> IF b = s THEN "outcome_unknown" ELSE ccBatch[b]]
    /\ ccStale' = (ccStale \/ (ccMode[p] = "first" /\ ccStatus[s] # "not_attempted"))
    /\ Goto(p, "armed")
    /\ UNCHANGED <<ccDue, frozen, batchOf, ccSettled, ccTotal, ccAttempts, ccProviderVars, ccFaults>>

\* A retry needs the binding of the failed operation, and arms the next try.
BeginAgain(p) ==
    LET s == ccSrc[p] IN
    /\ ccPc[p] = "ready" /\ ccOp[s] = "failed" /\ ccBound[s] = amt[p]
    /\ IF s \in Jobs THEN ccStatus[s] = "failed" ELSE ccBatch[s] \in {"attempting", "outcome_unknown"}
    /\ ccOp' = [ccOp EXCEPT ![s] = "outcome_unknown"]
    /\ try' = [try EXCEPT ![s] = @ + 1]
    /\ ccStatus' = [j \in Jobs |-> IF j = s THEN "outcome_unknown" ELSE ccStatus[j]]
    /\ ccBatch' = [b \in ChargeBatches |-> IF b = s THEN "attempting" ELSE ccBatch[b]]
    /\ Goto(p, "armed")
    /\ UNCHANGED <<ccDue, frozen, batchOf, ccSettled, ccTotal, ccAttempts, ccBound, ccProviderVars, ccStale, ccFaults>>

SourceCharged(s) == IF s \in Jobs THEN ccStatus[s] = "charged" ELSE ccBatch[s] = "charged"

\* errBuyerChargeOutcomeUnknown or not armed: the caller writes nothing.
BeginBlocked(p) ==
    LET s == ccSrc[p] IN
    /\ ccPc[p] = "ready" /\ ccOp[s] # "none" /\ ~SourceCharged(s)
    /\ ccOp[s] # "failed" \/ ccBound[s] # amt[p]
    /\ Return(p)
    /\ UNCHANGED <<jobVars, ccBatchVars, ccAttempts, ccOpVars, ccProviderVars, ccStale, ccFaults>>

\* Any other refusal counts as a charge that failed.
BeginRefused(p) ==
    LET s == ccSrc[p] IN
    /\ ccPc[p] = "ready"
    /\ \/ SourceCharged(s)
       \/ /\ ccOp[s] = "none"
          /\ \/ s \in ChargeBatches /\ ccBatch[s] # "attempting"
             \/ \E j \in Crossing(s) : ~MayBecome(j, "outcome_unknown")
       \/ /\ ccOp[s] = "failed" /\ ccBound[s] = amt[p]
          /\ IF s \in Jobs THEN ccStatus[s] # "failed"
                           ELSE ccBatch[s] \notin {"attempting", "outcome_unknown"}
    /\ ChargeFailed(p)
    /\ Return(p)
    /\ UNCHANGED <<ccDue, frozen, batchOf, ccSettled, ccTotal, ccOpVars, ccProviderVars, ccFaults>>
-----------------------------------------------------------------------------
(* The request to the provider and what becomes of it                       *)

Request(p) == <<ccSrc[p], try[ccSrc[p]]>>

\* The PaymentIntent succeeds and the answer arrives.
Paid(p) ==
    /\ ccPc[p] = "armed"
    /\ ccCash' = ccCash \cup {Request(p)}
    /\ Goto(p, "paid")
    /\ UNCHANGED <<jobVars, ccBatchVars, ccAttempts, ccOpVars, card, pending, ccStale, ccFaults>>

\* definitelyNotSent: the provider rejected the request.
Declined(p) ==
    /\ ccPc[p] = "armed"
    /\ Goto(p, "declined")
    /\ UNCHANGED <<jobVars, ccBatchVars, ccAttempts, ccOpVars, ccProviderVars, ccStale, ccFaults>>

\* Timeout, 5xx, a PaymentIntent that is not succeeded yet: the outcome is open.
AnswerLost(p) ==
    /\ ccPc[p] = "armed"
    /\ pending' = pending \cup {Request(p)}
    /\ Return(p)
    /\ UNCHANGED <<jobVars, ccBatchVars, ccAttempts, ccOpVars, card, ccCash, ccStale, ccFaults>>

\* The provider settles an open request, one way or the other.
ResolveCharge(x) ==
    /\ x \in pending
    /\ pending' = pending \ {x}
    /\ ccCash' \in {ccCash, ccCash \cup {x}}
    /\ UNCHANGED <<jobVars, ccBatchVars, ccAttempts, ccOpVars, card, callerVars, ccStale, ccFaults>>

\* Mutant: a batch is confirmed only while it is marked outcome_unknown.
Confirmable_UnknownBatch(s) ==
    /\ ccOp[s] = "outcome_unknown"
    /\ IF s \in Jobs THEN ccStatus[s] # "charged" /\ MayBecome(s, "charged")
       ELSE ccBatch[s] = "outcome_unknown" /\ \A j \in Members(s) : MayBecome(j, "charged")

\* The write predicates of confirmJobChargeSQL and confirmBatchChargeSQL.
Confirmable(s) ==
    /\ ccOp[s] = "outcome_unknown"
    /\ IF s \in Jobs THEN ccStatus[s] # "charged" /\ MayBecome(s, "charged")
       ELSE /\ ccBatch[s] \in {"attempting", "outcome_unknown"}
            /\ \A j \in Members(s) : MayBecome(j, "charged")

\* One statement records the cash, the operation, the source and its jobs.
Confirm(s) ==
    /\ ccOp' = [ccOp EXCEPT ![s] = "succeeded"]
    /\ ccStatus' = [j \in Jobs |-> IF j = s \/ batchOf[j] = s THEN "charged" ELSE ccStatus[j]]
    /\ ccBatch' = [b \in ChargeBatches |-> IF b = s THEN "charged" ELSE ccBatch[b]]

\* SetJobCharged, MarkChargeBatchCharged.
RecordPaid(p) ==
    /\ ccPc[p] = "paid"
    /\ IF Confirmable(ccSrc[p]) THEN Confirm(ccSrc[p]) ELSE UNCHANGED <<ccOp, ccStatus, ccBatch>>
    /\ Return(p)
    /\ UNCHANGED <<ccDue, frozen, batchOf, ccSettled, ccTotal, ccAttempts, ccBound, try, ccProviderVars,
                   ccStale, ccFaults>>

\* The payment_intent.succeeded webhook, delivered until it is acknowledged.
Reconcile(s) ==
    /\ \E x \in ccCash : x[1] = s
    /\ Confirmable(s) /\ Confirm(s)
    /\ UNCHANGED <<ccDue, frozen, batchOf, ccSettled, ccTotal, ccAttempts, ccBound, try, ccProviderVars,
                   callerVars, ccStale, ccFaults>>

\* MarkBuyerChargeDefinitelyFailed; when its source row has moved on it writes
\* nothing and the outcome counts as unknown.
MarkDeclined(p) ==
    LET s == ccSrc[p]
        open == /\ ccOp[s] = "outcome_unknown"
                /\ IF s \in Jobs THEN ccStatus[s] \in {"outcome_unknown", "failed"}
                                 ELSE ccBatch[s] \in {"attempting", "outcome_unknown"}
    IN  /\ ccPc[p] = "declined"
        /\ IF open
           THEN /\ ccOp' = [ccOp EXCEPT ![s] = "failed"]
                /\ ccStatus' = [j \in Jobs |-> IF j = s THEN "failed" ELSE ccStatus[j]]
                /\ ccBatch' = [b \in ChargeBatches |-> IF b = s THEN "attempting" ELSE ccBatch[b]]
                /\ Goto(p, "failing")
           ELSE UNCHANGED <<ccOp, ccStatus, ccBatch>> /\ Return(p)
        /\ UNCHANGED <<ccDue, frozen, batchOf, ccSettled, ccTotal, ccAttempts, ccBound, try, ccProviderVars,
                       ccStale, ccFaults>>

\* The caller's own accounting of the rejection, in a statement of its own.
CountDeclined(p) ==
    /\ ccPc[p] = "failing"
    /\ ChargeFailed(p)
    /\ Return(p)
    /\ UNCHANGED <<ccDue, frozen, batchOf, ccSettled, ccTotal, ccOpVars, ccProviderVars, ccFaults>>

\* The process dies.
CcCrash(p) ==
    /\ ccPc[p] # "idle" /\ CcFault
    /\ Return(p)
    /\ UNCHANGED <<jobVars, ccBatchVars, ccAttempts, ccOpVars, ccProviderVars, ccStale>>

\* setup_intent.succeeded, payment_method.attached: the buyer saves a card.
SaveCard ==
    /\ ~card /\ card' = TRUE
    /\ UNCHANGED <<jobVars, ccBatchVars, ccAttempts, ccOpVars, pending, ccCash, callerVars, ccStale, ccFaults>>
-----------------------------------------------------------------------------
Step(p) ==
    \/ DeferJob(p) \/ FreezeAmount(p) \/ MissCard(p) \/ ParkJob(p)
    \/ BeginFirst(p) \/ BeginAgain(p) \/ BeginBlocked(p) \/ BeginRefused(p)
    \/ RecordPaid(p) \/ MarkDeclined(p) \/ CountDeclined(p)

Answer(p) == Paid(p) \/ Declined(p) \/ AnswerLost(p)

CcNext ==
    \/ \E p \in Chargers : Step(p) \/ Answer(p) \/ FailEarly(p) \/ CcCrash(p)
    \/ \E p \in Chargers, j \in Jobs : ReadJob(p, j) \/ ReadFailed(p, j)
    \/ \E p \in Chargers, b \in ChargeBatches : ReadBatch(p, b)
    \/ ReflipNoCardJobs \/ MarkBuyerDeferredNoCard \/ SaveCard
    \/ \E b \in ChargeBatches : FormChargeBatch(b)
    \/ \E j \in Jobs : SettleJobSLA(j)
    \/ \E s \in Sources : Reconcile(s)
    \/ \E x \in pending : ResolveCharge(x)

CcSpec == CcInit /\ [][CcNext]_ccVars

\* The provider redelivers its webhook until it is accepted.
FairSpec == CcSpec /\ \A s \in Sources : WF_ccVars(Reconcile(s))
-----------------------------------------------------------------------------
\* No blind retry: of all the requests made for one operation at most one has
\* moved money or still might.
OneLivePayment ==
    \A x, y \in pending \cup ccCash : x[1] = y[1] => x = y

\* A job is recorded as charged only when the buyer paid for it.
PaidFor(j) == {x \in ccCash : x[1] = j \/ (batchOf[j] # CcNone /\ x[1] = batchOf[j])}
ChargedIsPaid == \A j \in Jobs : ccStatus[j] = "charged" => PaidFor(j) # {}

\* "The buyer must be charged for the job exactly once": on its own or with a
\* batch, never both.
ChargedOnce == \A j \in Jobs : \A x, y \in PaidFor(j) : x = y

\* The buyer pays twice for one job only after a first attempt acted on a status
\* that it had read before the job went elsewhere: ChargedOnce itself fails, because
\* chargeOrDeferJob reads the status in one statement and the insertion of the
\* operation checks only that the job is not charged.
TwiceOnlyIfStale == ccStale \/ ChargedOnce

\* An operation never has two live payments, only what was paid is called charged, and
\* a job is collected twice only by a first attempt with a stale status, although a
\* request, the retry sweep, the batch sweep and late events of the provider act on it
\* together.
CollectedOnce == OneLivePayment /\ ChargedIsPaid /\ TwiceOnlyIfStale

\* Money taken is recorded in the end, unless its job was charged in another way
\* or its batch has been handed to an operator.
CashRecorded ==
    \A s \in Sources :
      []<>((\E x \in ccCash : x[1] = s) =>
             (ccOp[s] = "succeeded" \/ ccStale \/ (s \in ChargeBatches /\ ccBatch[s] = "manual_review")))

-----------------------------------------------------------------------------
(* Proofs, for every number of jobs, batches, callers, retries and faults.   *)

CcChargeStatus == {"not_attempted", "deferred", "no_payment_method", "failed",
                 "outcome_unknown", "manual_review", "charged"}
CcBatchStatus == {"none", "attempting", "outcome_unknown", "manual_review", "charged"}
CcOpStatus == {"none", "outcome_unknown", "failed", "succeeded"}
CcPlaces == {"idle", "read", "nocard", "ready", "armed", "paid", "declined", "failing"}

\* The types of what decides whether money moves; the amounts play no part.
CcRowTypes ==
  /\ ccStatus \in [Jobs -> CcChargeStatus]
  /\ batchOf \in [Jobs -> ChargeBatches \cup {CcNone}]
  /\ ccBatch \in [ChargeBatches -> CcBatchStatus]
  /\ ccOp \in [Sources -> CcOpStatus]
  /\ try \in [Sources -> Nat]
  /\ pending \subseteq Sources \X Nat /\ ccCash \subseteq Sources \X Nat
  /\ ccStale \in BOOLEAN
  /\ ccPc \in [Chargers -> CcPlaces]
  /\ ccSrc \in [Chargers -> Sources \cup {CcNone}]
  /\ ccMode \in [Chargers -> {"first", "retry", "batch"}]

\* What a caller has in hand at each place.
CcCallerInv ==
  \A p \in Chargers :
    /\ ccPc[p] # "idle" => ccSrc[p] \in (IF ccMode[p] = "batch" THEN ChargeBatches ELSE Jobs)
    /\ ccPc[p] \in {"read", "nocard"} => ccMode[p] = "first"

CcTypes == CcRowTypes /\ CcCallerInv

\* A request that moved money, or still might, is the last try of an operation
\* that is not marked failed ...
CcCurrent ==
  \A x \in pending \cup ccCash : x[2] = try[x[1]] /\ ccOp[x[1]] \in {"outcome_unknown", "succeeded"}

\* ... and a caller between the request boundary and its answer is the only one
\* there, with no such request made yet.
CcOwns ==
  \A p \in Chargers :
    ccPc[p] \in {"armed", "declined"} =>
      /\ ccOp[ccSrc[p]] = "outcome_unknown"
      /\ \A x \in pending \cup ccCash : x[1] # ccSrc[p]
      /\ \A q \in Chargers : q # p /\ ccSrc[q] = ccSrc[p] => ccPc[q] \notin {"armed", "declined"}

CcPaidCaller ==
  \A p \in Chargers : ccPc[p] = "paid" => \E x \in ccCash : x[1] = ccSrc[p]

CcLiveInv == CcCurrent /\ CcOwns /\ CcPaidCaller

\* A charged job has an operation that succeeded, with its money.
CcPaidInv ==
  /\ \A s \in Sources : ccOp[s] = "succeeded" => \E x \in ccCash : x[1] = s
  /\ \A j \in Jobs : ccStatus[j] = "charged" =>
       ccOp[j] = "succeeded" \/ (batchOf[j] # CcNone /\ ccOp[batchOf[j]] = "succeeded")

CcAttempted == {"failed", "outcome_unknown", "manual_review", "charged"}

\* Until a stale write, a job has an operation of its own or a batch.
CcOneWay ==
  ~ccStale =>
    /\ \A j \in Jobs : ccOp[j] # "none" => batchOf[j] = CcNone /\ ccStatus[j] \in CcAttempted
    /\ \A j \in Jobs : batchOf[j] # CcNone =>
         ccStatus[j] \in {"deferred", "outcome_unknown", "manual_review", "charged"}
    /\ \A p \in Chargers : ccPc[p] # "idle" /\ ccMode[p] = "retry" =>
         batchOf[ccSrc[p]] = CcNone /\ ccStatus[ccSrc[p]] \in CcAttempted

USE ZenonT(100)

\* The effect of a charge that failed: no job becomes charged or stops being it.
LEMMA CcFailedEffect ==
  ASSUME CcTypes, NEW p \in Chargers, ccPc[p] # "idle", ChargeFailed(p)
  PROVE  /\ ccStatus' \in [Jobs -> CcChargeStatus] /\ ccBatch' \in [ChargeBatches -> CcBatchStatus]
         /\ ccStale' \in BOOLEAN /\ (ccStale => ccStale')
         /\ \A j \in Jobs : ccStatus'[j] = "charged" <=> ccStatus[j] = "charged"
  <1>1. CASE ccMode[p] = "first" /\ SetChargeStatus(ccSrc[p], "failed") /\ UNCHANGED <<ccAttempts, ccBatch>>
    BY <1>1 DEF SetChargeStatus, MayBecome, ChargeEdges, CcTypes, CcRowTypes, CcCallerInv, CcChargeStatus, CcBatchStatus
  <1>2. CASE ccMode[p] = "retry" /\ AdvanceFailedChargeRetry(ccSrc[p])
    BY <1>2, SMTT(20) DEF AdvanceFailedChargeRetry, CcTypes, CcRowTypes, CcCallerInv, CcChargeStatus, CcBatchStatus
  <1>3. CASE ccMode[p] = "batch" /\ BumpChargeBatchRetry(ccSrc[p])
    BY <1>3, SMTT(20) DEF BumpChargeBatchRetry, Members, CcTypes, CcRowTypes, CcCallerInv, CcChargeStatus, CcBatchStatus
  <1> QED BY <1>1, <1>2, <1>3 DEF ChargeFailed

USE DEF jobVars, ccBatchVars, ccOpVars, ccProviderVars, callerVars, Goto, Return, TakeCharge, CcFault

LEMMA CcInitTypes == CcInit => CcTypes
  <1> SUFFICES ASSUME CcInit PROVE CcRowTypes /\ CcCallerInv
    BY DEF CcTypes
  <1>1. CcRowTypes
    BY DEF CcInit, CcRowTypes, CcChargeStatus, CcBatchStatus, CcOpStatus, CcPlaces
  <1>2. CcCallerInv
    BY DEF CcInit, CcCallerInv
  <1> QED BY <1>1, <1>2

LEMMA CcTypesStep ==
  ASSUME CcTypes, [CcNext]_ccVars
  PROVE  CcTypes'
  <1>1. ASSUME NEW p \in Chargers, DeferJob(p) PROVE CcTypes'
    BY <1>1 DEF DeferJob, CcTypes, CcRowTypes, CcCallerInv, CcChargeStatus, CcBatchStatus, CcOpStatus, CcPlaces, Sources
  <1>2. ASSUME NEW p \in Chargers, FreezeAmount(p) PROVE CcTypes'
    BY <1>2 DEF FreezeAmount, CcTypes, CcRowTypes, CcCallerInv, CcChargeStatus, CcBatchStatus, CcOpStatus, CcPlaces, Sources
  <1>3. ASSUME NEW p \in Chargers, MissCard(p) PROVE CcTypes'
    BY <1>3 DEF MissCard, CcTypes, CcRowTypes, CcCallerInv, CcChargeStatus, CcBatchStatus, CcOpStatus, CcPlaces, Sources
  <1>4. ASSUME NEW p \in Chargers, ParkJob(p) PROVE CcTypes'
    BY <1>4 DEF ParkJob, SetChargeStatus, MayBecome, ChargeEdges, CcTypes, CcRowTypes, CcCallerInv, CcChargeStatus, CcBatchStatus, CcOpStatus, CcPlaces, Sources
  <1>5. ASSUME NEW p \in Chargers, BeginFirst(p) PROVE CcTypes'
    BY <1>5 DEF BeginFirst, Crossing, Members, CcTypes, CcRowTypes, CcCallerInv, CcChargeStatus, CcBatchStatus, CcOpStatus, CcPlaces, Sources
  <1>6. ASSUME NEW p \in Chargers, BeginAgain(p) PROVE CcTypes'
    BY <1>6, SMTT(20) DEF BeginAgain, CcTypes, CcRowTypes, CcCallerInv, CcChargeStatus, CcBatchStatus, CcOpStatus, CcPlaces, Sources
  <1>7. ASSUME NEW p \in Chargers, BeginBlocked(p) PROVE CcTypes'
    BY <1>7 DEF BeginBlocked, CcTypes, CcRowTypes, CcCallerInv, CcChargeStatus, CcBatchStatus, CcOpStatus, CcPlaces, Sources
  <1>8. ASSUME NEW p \in Chargers, BeginRefused(p) PROVE CcTypes'
    <2>1. ccPc[p] # "idle" BY <1>8 DEF BeginRefused
    <2> QED BY <1>8, <2>1, CcFailedEffect DEF BeginRefused, CcTypes, CcRowTypes, CcCallerInv, CcPlaces, Sources
  <1>9. ASSUME NEW p \in Chargers, RecordPaid(p) PROVE CcTypes'
    BY <1>9, SMTT(20) DEF RecordPaid, Confirm, CcTypes, CcRowTypes, CcCallerInv, CcChargeStatus, CcBatchStatus, CcOpStatus, CcPlaces, Sources
  <1>10. ASSUME NEW p \in Chargers, MarkDeclined(p) PROVE CcTypes'
    BY <1>10, SMTT(20) DEF MarkDeclined, CcTypes, CcRowTypes, CcCallerInv, CcChargeStatus, CcBatchStatus, CcOpStatus, CcPlaces, Sources
  <1>11. ASSUME NEW p \in Chargers, CountDeclined(p) PROVE CcTypes'
    <2>1. ccPc[p] # "idle" BY <1>11 DEF CountDeclined
    <2> QED BY <1>11, <2>1, CcFailedEffect DEF CountDeclined, CcTypes, CcRowTypes, CcCallerInv, CcPlaces, Sources
  <1>12. ASSUME NEW p \in Chargers, Paid(p) PROVE CcTypes'
    BY <1>12, SMTT(20) DEF Paid, Request, CcTypes, CcRowTypes, CcCallerInv, CcChargeStatus, CcBatchStatus, CcOpStatus, CcPlaces, Sources
  <1>13. ASSUME NEW p \in Chargers, Declined(p) PROVE CcTypes'
    BY <1>13 DEF Declined, CcTypes, CcRowTypes, CcCallerInv, CcChargeStatus, CcBatchStatus, CcOpStatus, CcPlaces, Sources
  <1>14. ASSUME NEW p \in Chargers, AnswerLost(p) PROVE CcTypes'
    BY <1>14, SMTT(20) DEF AnswerLost, Request, CcTypes, CcRowTypes, CcCallerInv, CcChargeStatus, CcBatchStatus, CcOpStatus, CcPlaces, Sources
  <1>15. ASSUME NEW p \in Chargers, FailEarly(p) PROVE CcTypes'
    <2>1. ccPc[p] # "idle" BY <1>15 DEF FailEarly
    <2> QED BY <1>15, <2>1, CcFailedEffect DEF FailEarly, CcTypes, CcRowTypes, CcCallerInv, CcPlaces, Sources
  <1>16. ASSUME NEW p \in Chargers, CcCrash(p) PROVE CcTypes'
    BY <1>16 DEF CcCrash, CcTypes, CcRowTypes, CcCallerInv, CcChargeStatus, CcBatchStatus, CcOpStatus, CcPlaces, Sources
  <1>17. ASSUME NEW p \in Chargers, NEW j \in Jobs, ReadJob(p, j) PROVE CcTypes'
    BY <1>17 DEF ReadJob, CcTypes, CcRowTypes, CcCallerInv, CcChargeStatus, CcBatchStatus, CcOpStatus, CcPlaces, Sources
  <1>18. ASSUME NEW p \in Chargers, NEW j \in Jobs, ReadFailed(p, j) PROVE CcTypes'
    BY <1>18 DEF ReadFailed, CcTypes, CcRowTypes, CcCallerInv, CcChargeStatus, CcBatchStatus, CcOpStatus, CcPlaces, Sources
  <1>19. ASSUME NEW p \in Chargers, NEW b \in ChargeBatches, ReadBatch(p, b) PROVE CcTypes'
    BY <1>19 DEF ReadBatch, CcTypes, CcRowTypes, CcCallerInv, CcChargeStatus, CcBatchStatus, CcOpStatus, CcPlaces, Sources
  <1>20. ASSUME ReflipNoCardJobs PROVE CcTypes'
    BY <1>20 DEF ReflipNoCardJobs, CcTypes, CcRowTypes, CcCallerInv, CcChargeStatus, CcBatchStatus, CcOpStatus, CcPlaces, Sources
  <1>21. ASSUME MarkBuyerDeferredNoCard PROVE CcTypes'
    BY <1>21 DEF MarkBuyerDeferredNoCard, CcTypes, CcRowTypes, CcCallerInv, CcChargeStatus, CcBatchStatus, CcOpStatus, CcPlaces, Sources
  <1>22. ASSUME SaveCard PROVE CcTypes'
    BY <1>22 DEF SaveCard, CcTypes, CcRowTypes, CcCallerInv, CcChargeStatus, CcBatchStatus, CcOpStatus, CcPlaces, Sources
  <1>23. ASSUME NEW b \in ChargeBatches, FormChargeBatch(b) PROVE CcTypes'
    BY <1>23 DEF FormChargeBatch, Deferred, CcTypes, CcRowTypes, CcCallerInv, CcChargeStatus, CcBatchStatus, CcOpStatus, CcPlaces, Sources
  <1>24. ASSUME NEW j \in Jobs, SettleJobSLA(j) PROVE CcTypes'
    BY <1>24 DEF SettleJobSLA, CcTypes, CcRowTypes, CcCallerInv, CcChargeStatus, CcBatchStatus, CcOpStatus, CcPlaces, Sources
  <1>25. ASSUME NEW s \in Sources, Reconcile(s) PROVE CcTypes'
    BY <1>25 DEF Reconcile, Confirm, CcTypes, CcRowTypes, CcCallerInv, CcChargeStatus, CcBatchStatus, CcOpStatus, CcPlaces, Sources
  <1>26. ASSUME NEW x \in pending, ResolveCharge(x) PROVE CcTypes'
    BY <1>26, SMTT(20) DEF ResolveCharge, CcTypes, CcRowTypes, CcCallerInv, CcChargeStatus, CcBatchStatus, CcOpStatus, CcPlaces, Sources
  <1>27. CASE UNCHANGED ccVars
    BY <1>27 DEF ccVars, CcTypes, CcRowTypes, CcCallerInv, CcChargeStatus, CcBatchStatus, CcOpStatus, CcPlaces, Sources
  <1> QED BY <1>1, <1>2, <1>3, <1>4, <1>5, <1>6, <1>7, <1>8, <1>9, <1>10, <1>11, <1>12, <1>13, <1>14, <1>15, <1>16, <1>17, <1>18, <1>19, <1>20, <1>21, <1>22, <1>23, <1>24, <1>25, <1>26, <1>27 DEF CcNext, Step, Answer

\* No request is made twice for one operation.
LEMMA CcInitLive == CcInit => CcLiveInv
  BY DEF CcInit, CcLiveInv, CcCurrent, CcOwns, CcPaidCaller

LEMMA CcLiveStep ==
  ASSUME CcTypes, CcLiveInv, [CcNext]_ccVars
  PROVE  CcLiveInv'
  <1>1. ASSUME NEW p \in Chargers, DeferJob(p) PROVE CcLiveInv'
    BY <1>1, SMTT(20) DEF DeferJob, CcLiveInv, CcCurrent, CcOwns, CcPaidCaller, CcTypes, CcRowTypes, CcCallerInv, CcPlaces, Sources
  <1>2. ASSUME NEW p \in Chargers, FreezeAmount(p) PROVE CcLiveInv'
    BY <1>2, SMTT(20) DEF FreezeAmount, CcLiveInv, CcCurrent, CcOwns, CcPaidCaller, CcTypes, CcRowTypes, CcCallerInv, CcPlaces, Sources
  <1>3. ASSUME NEW p \in Chargers, MissCard(p) PROVE CcLiveInv'
    BY <1>3, SMTT(20) DEF MissCard, CcLiveInv, CcCurrent, CcOwns, CcPaidCaller, CcTypes, CcRowTypes, CcCallerInv, CcPlaces, Sources
  <1>4. ASSUME NEW p \in Chargers, ParkJob(p) PROVE CcLiveInv'
    BY <1>4, SMTT(20) DEF ParkJob, SetChargeStatus, MayBecome, ChargeEdges, CcLiveInv, CcCurrent, CcOwns, CcPaidCaller, CcTypes, CcRowTypes, CcCallerInv, CcPlaces, Sources
  <1>5. ASSUME NEW p \in Chargers, BeginFirst(p) PROVE CcLiveInv'
    <2>1. CcCurrent' BY <1>5 DEF BeginFirst, Crossing, Members, CcLiveInv, CcCurrent, CcOwns, CcTypes, CcRowTypes, CcCallerInv, Sources
    <2>2. CcOwns' BY <1>5, ChargeConstants, SMTT(20) DEF BeginFirst, Crossing, Members, CcLiveInv, CcCurrent, CcOwns, CcPaidCaller, CcTypes, CcRowTypes, CcCallerInv, Sources
    <2>3. CcPaidCaller' BY <1>5 DEF BeginFirst, Crossing, Members, CcLiveInv, CcPaidCaller, CcTypes, CcRowTypes
    <2> QED BY <2>1, <2>2, <2>3 DEF CcLiveInv
  <1>6. ASSUME NEW p \in Chargers, BeginAgain(p) PROVE CcLiveInv'
    <2>1. CcCurrent' BY <1>6 DEF BeginAgain, CcLiveInv, CcCurrent, CcOwns, CcTypes, CcRowTypes, CcCallerInv, Sources
    <2>2. CcOwns' BY <1>6, ChargeConstants, SMTT(20) DEF BeginAgain, CcLiveInv, CcCurrent, CcOwns, CcPaidCaller, CcTypes, CcRowTypes, CcCallerInv, Sources
    <2>3. CcPaidCaller' BY <1>6 DEF BeginAgain, CcLiveInv, CcPaidCaller, CcTypes, CcRowTypes
    <2> QED BY <2>1, <2>2, <2>3 DEF CcLiveInv
  <1>7. ASSUME NEW p \in Chargers, BeginBlocked(p) PROVE CcLiveInv'
    BY <1>7, SMTT(20) DEF BeginBlocked, CcLiveInv, CcCurrent, CcOwns, CcPaidCaller, CcTypes, CcRowTypes, CcCallerInv, CcPlaces, Sources
  <1>8. ASSUME NEW p \in Chargers, BeginRefused(p) PROVE CcLiveInv'
    BY <1>8, SMTT(20) DEF BeginRefused, CcLiveInv, CcCurrent, CcOwns, CcPaidCaller, CcTypes, CcRowTypes, CcCallerInv, CcPlaces, Sources
  <1>9. ASSUME NEW p \in Chargers, RecordPaid(p) PROVE CcLiveInv'
    <2>1. CcCurrent' BY <1>9, SMTT(20) DEF RecordPaid, Confirm, CcLiveInv, CcCurrent, CcOwns, CcTypes, CcRowTypes, CcCallerInv, Sources
    <2>2. CcOwns' BY <1>9, ChargeConstants, SMTT(20) DEF RecordPaid, Confirm, CcLiveInv, CcCurrent, CcOwns, CcPaidCaller, CcTypes, CcRowTypes, CcCallerInv, Sources
    <2>3. CcPaidCaller' BY <1>9 DEF RecordPaid, Confirm, CcLiveInv, CcPaidCaller, CcTypes, CcRowTypes
    <2> QED BY <2>1, <2>2, <2>3 DEF CcLiveInv
  <1>10. ASSUME NEW p \in Chargers, MarkDeclined(p) PROVE CcLiveInv'
    <2>1. CcCurrent' BY <1>10, SMTT(20) DEF MarkDeclined, CcLiveInv, CcCurrent, CcOwns, CcTypes, CcRowTypes, CcCallerInv, Sources
    <2>2. CcOwns' BY <1>10, ChargeConstants, SMTT(20) DEF MarkDeclined, CcLiveInv, CcCurrent, CcOwns, CcPaidCaller, CcTypes, CcRowTypes, CcCallerInv, Sources
    <2>3. CcPaidCaller' BY <1>10, SMTT(20) DEF MarkDeclined, CcLiveInv, CcPaidCaller, CcTypes, CcRowTypes
    <2> QED BY <2>1, <2>2, <2>3 DEF CcLiveInv
  <1>11. ASSUME NEW p \in Chargers, CountDeclined(p) PROVE CcLiveInv'
    BY <1>11, SMTT(20) DEF CountDeclined, CcLiveInv, CcCurrent, CcOwns, CcPaidCaller, CcTypes, CcRowTypes, CcCallerInv, CcPlaces, Sources
  <1>12. ASSUME NEW p \in Chargers, Paid(p) PROVE CcLiveInv'
    <2>1. CcCurrent' BY <1>12, SMTT(20) DEF Paid, Request, CcLiveInv, CcCurrent, CcOwns, CcTypes, CcRowTypes, CcCallerInv, Sources
    <2>2. CcOwns' BY <1>12, ChargeConstants, SMTT(20) DEF Paid, Request, CcLiveInv, CcCurrent, CcOwns, CcPaidCaller, CcTypes, CcRowTypes, CcCallerInv, Sources
    <2>3. ASSUME NEW q \in Chargers, ccPc'[q] = "paid" PROVE \E x \in ccCash' : x[1] = ccSrc'[q]
      <3>1. CASE q = p
        <4>1. Request(p) \in ccCash' /\ Request(p)[1] = ccSrc'[p] BY <1>12 DEF Paid, Request
        <4> QED BY <3>1, <4>1
      <3>2. CASE q # p
        BY <1>12, <2>3, <3>2 DEF Paid, CcLiveInv, CcPaidCaller, CcTypes, CcRowTypes
      <3> QED BY <3>1, <3>2
    <2> QED BY <2>1, <2>2, <2>3 DEF CcLiveInv, CcPaidCaller
  <1>13. ASSUME NEW p \in Chargers, Declined(p) PROVE CcLiveInv'
    <2>1. CcCurrent' BY <1>13 DEF Declined, CcLiveInv, CcCurrent, CcOwns, CcTypes, CcRowTypes, CcCallerInv, Sources
    <2>2. CcOwns' BY <1>13, ChargeConstants, SMTT(20) DEF Declined, CcLiveInv, CcCurrent, CcOwns, CcPaidCaller, CcTypes, CcRowTypes, CcCallerInv, Sources
    <2>3. CcPaidCaller' BY <1>13 DEF Declined, CcLiveInv, CcPaidCaller, CcTypes, CcRowTypes
    <2> QED BY <2>1, <2>2, <2>3 DEF CcLiveInv
  <1>14. ASSUME NEW p \in Chargers, AnswerLost(p) PROVE CcLiveInv'
    <2>1. CcCurrent' BY <1>14, SMTT(20) DEF AnswerLost, Request, CcLiveInv, CcCurrent, CcOwns, CcTypes, CcRowTypes, CcCallerInv, Sources
    <2>2. CcOwns' BY <1>14, ChargeConstants, SMTT(20) DEF AnswerLost, Request, CcLiveInv, CcCurrent, CcOwns, CcPaidCaller, CcTypes, CcRowTypes, CcCallerInv, Sources
    <2>3. CcPaidCaller' BY <1>14 DEF AnswerLost, Request, CcLiveInv, CcPaidCaller, CcTypes, CcRowTypes
    <2> QED BY <2>1, <2>2, <2>3 DEF CcLiveInv
  <1>15. ASSUME NEW p \in Chargers, FailEarly(p) PROVE CcLiveInv'
    BY <1>15, SMTT(20) DEF FailEarly, CcLiveInv, CcCurrent, CcOwns, CcPaidCaller, CcTypes, CcRowTypes, CcCallerInv, CcPlaces, Sources
  <1>16. ASSUME NEW p \in Chargers, CcCrash(p) PROVE CcLiveInv'
    BY <1>16, SMTT(20) DEF CcCrash, CcLiveInv, CcCurrent, CcOwns, CcPaidCaller, CcTypes, CcRowTypes, CcCallerInv, CcPlaces, Sources
  <1>17. ASSUME NEW p \in Chargers, NEW j \in Jobs, ReadJob(p, j) PROVE CcLiveInv'
    BY <1>17, SMTT(20) DEF ReadJob, CcLiveInv, CcCurrent, CcOwns, CcPaidCaller, CcTypes, CcRowTypes, CcCallerInv, CcPlaces, Sources
  <1>18. ASSUME NEW p \in Chargers, NEW j \in Jobs, ReadFailed(p, j) PROVE CcLiveInv'
    BY <1>18, SMTT(20) DEF ReadFailed, CcLiveInv, CcCurrent, CcOwns, CcPaidCaller, CcTypes, CcRowTypes, CcCallerInv, CcPlaces, Sources
  <1>19. ASSUME NEW p \in Chargers, NEW b \in ChargeBatches, ReadBatch(p, b) PROVE CcLiveInv'
    BY <1>19, SMTT(20) DEF ReadBatch, CcLiveInv, CcCurrent, CcOwns, CcPaidCaller, CcTypes, CcRowTypes, CcCallerInv, CcPlaces, Sources
  <1>20. ASSUME ReflipNoCardJobs PROVE CcLiveInv'
    BY <1>20, SMTT(20) DEF ReflipNoCardJobs, CcLiveInv, CcCurrent, CcOwns, CcPaidCaller, CcTypes, CcRowTypes, CcCallerInv, CcPlaces, Sources
  <1>21. ASSUME MarkBuyerDeferredNoCard PROVE CcLiveInv'
    BY <1>21, SMTT(20) DEF MarkBuyerDeferredNoCard, CcLiveInv, CcCurrent, CcOwns, CcPaidCaller, CcTypes, CcRowTypes, CcCallerInv, CcPlaces, Sources
  <1>22. ASSUME SaveCard PROVE CcLiveInv'
    BY <1>22, SMTT(20) DEF SaveCard, CcLiveInv, CcCurrent, CcOwns, CcPaidCaller, CcTypes, CcRowTypes, CcCallerInv, CcPlaces, Sources
  <1>23. ASSUME NEW b \in ChargeBatches, FormChargeBatch(b) PROVE CcLiveInv'
    BY <1>23, SMTT(20) DEF FormChargeBatch, Deferred, CcLiveInv, CcCurrent, CcOwns, CcPaidCaller, CcTypes, CcRowTypes, CcCallerInv, CcPlaces, Sources
  <1>24. ASSUME NEW j \in Jobs, SettleJobSLA(j) PROVE CcLiveInv'
    BY <1>24, SMTT(20) DEF SettleJobSLA, CcLiveInv, CcCurrent, CcOwns, CcPaidCaller, CcTypes, CcRowTypes, CcCallerInv, CcPlaces, Sources
  <1>25. ASSUME NEW s \in Sources, Reconcile(s) PROVE CcLiveInv'
    <2>1. CcCurrent' BY <1>25 DEF Reconcile, Confirm, CcLiveInv, CcCurrent, CcOwns, CcTypes, CcRowTypes, CcCallerInv, Sources
    <2>2. CcOwns' BY <1>25, ChargeConstants, SMTT(20) DEF Reconcile, Confirm, CcLiveInv, CcCurrent, CcOwns, CcPaidCaller, CcTypes, CcRowTypes, CcCallerInv, Sources
    <2>3. CcPaidCaller' BY <1>25 DEF Reconcile, Confirm, CcLiveInv, CcPaidCaller, CcTypes, CcRowTypes
    <2> QED BY <2>1, <2>2, <2>3 DEF CcLiveInv
  <1>26. ASSUME NEW x \in pending, ResolveCharge(x) PROVE CcLiveInv'
    <2>1. CcCurrent' BY <1>26 DEF ResolveCharge, CcLiveInv, CcCurrent, CcOwns, CcTypes, CcRowTypes, CcCallerInv, Sources
    <2>2. CcOwns' BY <1>26, ChargeConstants, SMTT(20) DEF ResolveCharge, CcLiveInv, CcCurrent, CcOwns, CcPaidCaller, CcTypes, CcRowTypes, CcCallerInv, Sources
    <2>3. CcPaidCaller' BY <1>26 DEF ResolveCharge, CcLiveInv, CcPaidCaller, CcTypes, CcRowTypes
    <2> QED BY <2>1, <2>2, <2>3 DEF CcLiveInv
  <1>27. CASE UNCHANGED ccVars
    BY <1>27, SMTT(20) DEF ccVars, CcLiveInv, CcCurrent, CcOwns, CcPaidCaller, CcTypes, CcRowTypes, CcCallerInv, CcPlaces, Sources
  <1> QED BY <1>1, <1>2, <1>3, <1>4, <1>5, <1>6, <1>7, <1>8, <1>9, <1>10, <1>11, <1>12, <1>13, <1>14, <1>15, <1>16, <1>17, <1>18, <1>19, <1>20, <1>21, <1>22, <1>23, <1>24, <1>25, <1>26, <1>27 DEF CcNext, Step, Answer

\* A job becomes charged together with an operation whose money moved.
LEMMA CcInitPaid == CcInit => CcPaidInv
  BY DEF CcInit, CcPaidInv, Sources

LEMMA CcPaidStep ==
  ASSUME CcTypes, CcLiveInv, CcPaidInv, [CcNext]_ccVars
  PROVE  CcPaidInv'
  <1>1. ASSUME NEW p \in Chargers, DeferJob(p) PROVE CcPaidInv'
    BY <1>1, ChargeConstants, SMTT(20) DEF DeferJob, CcPaidInv, CcLiveInv, CcCurrent, CcOwns, CcPaidCaller, CcTypes, CcRowTypes, CcCallerInv, Sources
  <1>2. ASSUME NEW p \in Chargers, FreezeAmount(p) PROVE CcPaidInv'
    BY <1>2, ChargeConstants DEF FreezeAmount, CcPaidInv, CcLiveInv, CcCurrent, CcOwns, CcPaidCaller, CcTypes, CcRowTypes, CcCallerInv, Sources
  <1>3. ASSUME NEW p \in Chargers, MissCard(p) PROVE CcPaidInv'
    BY <1>3, ChargeConstants DEF MissCard, CcPaidInv, CcLiveInv, CcCurrent, CcOwns, CcPaidCaller, CcTypes, CcRowTypes, CcCallerInv, Sources
  <1>4. ASSUME NEW p \in Chargers, ParkJob(p) PROVE CcPaidInv'
    BY <1>4, ChargeConstants, SMTT(20) DEF ParkJob, SetChargeStatus, CcPaidInv, CcLiveInv, CcCurrent, CcOwns, CcPaidCaller, CcTypes, CcRowTypes, CcCallerInv, Sources
  <1>5. ASSUME NEW p \in Chargers, BeginFirst(p) PROVE CcPaidInv'
    BY <1>5, ChargeConstants, SMTT(20) DEF BeginFirst, Crossing, Members, CcPaidInv, CcLiveInv, CcCurrent, CcOwns, CcPaidCaller, CcTypes, CcRowTypes, CcCallerInv, Sources
  <1>6. ASSUME NEW p \in Chargers, BeginAgain(p) PROVE CcPaidInv'
    BY <1>6, ChargeConstants, SMTT(20) DEF BeginAgain, CcPaidInv, CcLiveInv, CcCurrent, CcOwns, CcPaidCaller, CcTypes, CcRowTypes, CcCallerInv, Sources
  <1>7. ASSUME NEW p \in Chargers, BeginBlocked(p) PROVE CcPaidInv'
    BY <1>7, ChargeConstants DEF BeginBlocked, CcPaidInv, CcLiveInv, CcCurrent, CcOwns, CcPaidCaller, CcTypes, CcRowTypes, CcCallerInv, Sources
  <1>8. ASSUME NEW p \in Chargers, BeginRefused(p) PROVE CcPaidInv'
    <2>1. ccPc[p] # "idle" BY <1>8 DEF BeginRefused
    <2> QED BY <1>8, <2>1, CcFailedEffect DEF BeginRefused, CcPaidInv, CcTypes, CcRowTypes, CcCallerInv, Sources
  <1>9. ASSUME NEW p \in Chargers, RecordPaid(p) PROVE CcPaidInv'
    BY <1>9, ChargeConstants, SMTT(20) DEF RecordPaid, Confirm, CcPaidInv, CcLiveInv, CcCurrent, CcOwns, CcPaidCaller, CcTypes, CcRowTypes, CcCallerInv, Sources
  <1>10. ASSUME NEW p \in Chargers, MarkDeclined(p) PROVE CcPaidInv'
    BY <1>10, ChargeConstants, SMTT(20) DEF MarkDeclined, CcPaidInv, CcLiveInv, CcCurrent, CcOwns, CcPaidCaller, CcTypes, CcRowTypes, CcCallerInv, Sources
  <1>11. ASSUME NEW p \in Chargers, CountDeclined(p) PROVE CcPaidInv'
    <2>1. ccPc[p] # "idle" BY <1>11 DEF CountDeclined
    <2> QED BY <1>11, <2>1, CcFailedEffect DEF CountDeclined, CcPaidInv, CcTypes, CcRowTypes, CcCallerInv, Sources
  <1>12. ASSUME NEW p \in Chargers, Paid(p) PROVE CcPaidInv'
    BY <1>12, ChargeConstants DEF Paid, Request, CcPaidInv, CcLiveInv, CcCurrent, CcOwns, CcPaidCaller, CcTypes, CcRowTypes, CcCallerInv, Sources
  <1>13. ASSUME NEW p \in Chargers, Declined(p) PROVE CcPaidInv'
    BY <1>13, ChargeConstants DEF Declined, CcPaidInv, CcLiveInv, CcCurrent, CcOwns, CcPaidCaller, CcTypes, CcRowTypes, CcCallerInv, Sources
  <1>14. ASSUME NEW p \in Chargers, AnswerLost(p) PROVE CcPaidInv'
    BY <1>14, ChargeConstants DEF AnswerLost, Request, CcPaidInv, CcLiveInv, CcCurrent, CcOwns, CcPaidCaller, CcTypes, CcRowTypes, CcCallerInv, Sources
  <1>15. ASSUME NEW p \in Chargers, FailEarly(p) PROVE CcPaidInv'
    <2>1. ccPc[p] # "idle" BY <1>15 DEF FailEarly
    <2> QED BY <1>15, <2>1, CcFailedEffect DEF FailEarly, CcPaidInv, CcTypes, CcRowTypes, CcCallerInv, Sources
  <1>16. ASSUME NEW p \in Chargers, CcCrash(p) PROVE CcPaidInv'
    BY <1>16, ChargeConstants DEF CcCrash, CcPaidInv, CcLiveInv, CcCurrent, CcOwns, CcPaidCaller, CcTypes, CcRowTypes, CcCallerInv, Sources
  <1>17. ASSUME NEW p \in Chargers, NEW j \in Jobs, ReadJob(p, j) PROVE CcPaidInv'
    BY <1>17, ChargeConstants DEF ReadJob, CcPaidInv, CcLiveInv, CcCurrent, CcOwns, CcPaidCaller, CcTypes, CcRowTypes, CcCallerInv, Sources
  <1>18. ASSUME NEW p \in Chargers, NEW j \in Jobs, ReadFailed(p, j) PROVE CcPaidInv'
    BY <1>18, ChargeConstants DEF ReadFailed, CcPaidInv, CcLiveInv, CcCurrent, CcOwns, CcPaidCaller, CcTypes, CcRowTypes, CcCallerInv, Sources
  <1>19. ASSUME NEW p \in Chargers, NEW b \in ChargeBatches, ReadBatch(p, b) PROVE CcPaidInv'
    BY <1>19, ChargeConstants DEF ReadBatch, CcPaidInv, CcLiveInv, CcCurrent, CcOwns, CcPaidCaller, CcTypes, CcRowTypes, CcCallerInv, Sources
  <1>20. ASSUME ReflipNoCardJobs PROVE CcPaidInv'
    BY <1>20, ChargeConstants DEF ReflipNoCardJobs, CcPaidInv, CcLiveInv, CcCurrent, CcOwns, CcPaidCaller, CcTypes, CcRowTypes, CcCallerInv, Sources
  <1>21. ASSUME MarkBuyerDeferredNoCard PROVE CcPaidInv'
    BY <1>21, ChargeConstants DEF MarkBuyerDeferredNoCard, CcPaidInv, CcLiveInv, CcCurrent, CcOwns, CcPaidCaller, CcTypes, CcRowTypes, CcCallerInv, Sources
  <1>22. ASSUME SaveCard PROVE CcPaidInv'
    BY <1>22, ChargeConstants DEF SaveCard, CcPaidInv, CcLiveInv, CcCurrent, CcOwns, CcPaidCaller, CcTypes, CcRowTypes, CcCallerInv, Sources
  <1>23. ASSUME NEW b \in ChargeBatches, FormChargeBatch(b) PROVE CcPaidInv'
    BY <1>23, ChargeConstants DEF FormChargeBatch, Deferred, CcPaidInv, CcLiveInv, CcCurrent, CcOwns, CcPaidCaller, CcTypes, CcRowTypes, CcCallerInv, Sources
  <1>24. ASSUME NEW j \in Jobs, SettleJobSLA(j) PROVE CcPaidInv'
    BY <1>24, ChargeConstants DEF SettleJobSLA, CcPaidInv, CcLiveInv, CcCurrent, CcOwns, CcPaidCaller, CcTypes, CcRowTypes, CcCallerInv, Sources
  <1>25. ASSUME NEW s \in Sources, Reconcile(s) PROVE CcPaidInv'
    BY <1>25, ChargeConstants, SMTT(20) DEF Reconcile, Confirm, CcPaidInv, CcLiveInv, CcCurrent, CcOwns, CcPaidCaller, CcTypes, CcRowTypes, CcCallerInv, Sources
  <1>26. ASSUME NEW x \in pending, ResolveCharge(x) PROVE CcPaidInv'
    BY <1>26, ChargeConstants, SMTT(20) DEF ResolveCharge, CcPaidInv, CcLiveInv, CcCurrent, CcOwns, CcPaidCaller, CcTypes, CcRowTypes, CcCallerInv, Sources
  <1>27. CASE UNCHANGED ccVars
    BY <1>27 DEF ccVars, CcPaidInv, CcLiveInv, CcCurrent, CcOwns, CcPaidCaller, CcTypes, CcRowTypes, CcCallerInv, Sources
  <1> QED BY <1>1, <1>2, <1>3, <1>4, <1>5, <1>6, <1>7, <1>8, <1>9, <1>10, <1>11, <1>12, <1>13, <1>14, <1>15, <1>16, <1>17, <1>18, <1>19, <1>20, <1>21, <1>22, <1>23, <1>24, <1>25, <1>26, <1>27 DEF CcNext, Step, Answer

\* What a charge that failed writes to the jobs unless the write is stale.
LEMMA CcFailedWrites ==
  ASSUME CcTypes, NEW p \in Chargers, ccPc[p] # "idle", ChargeFailed(p)
  PROVE  /\ ccStale => ccStale'
         /\ ~ccStale' =>
              \A j \in Jobs : ccStatus'[j] = ccStatus[j] \/ (ccStatus[j] \in CcAttempted /\ ccStatus'[j] = "manual_review")
                              \/ (ccStatus[j] = "not_attempted" /\ ccStatus'[j] = "failed")
  <1>1. CASE ccMode[p] = "first" /\ SetChargeStatus(ccSrc[p], "failed") /\ UNCHANGED <<ccAttempts, ccBatch>>
    BY <1>1 DEF SetChargeStatus, MayBecome, CcTypes, CcRowTypes, CcCallerInv
  <1>2. CASE ccMode[p] = "retry" /\ AdvanceFailedChargeRetry(ccSrc[p])
    BY <1>2 DEF AdvanceFailedChargeRetry, CcAttempted, CcTypes, CcRowTypes, CcCallerInv
  <1>3. CASE ccMode[p] = "batch" /\ BumpChargeBatchRetry(ccSrc[p])
    BY <1>3, SMTT(20) DEF BumpChargeBatchRetry, Members, CcAttempted, CcTypes, CcRowTypes, CcCallerInv
  <1> QED BY <1>1, <1>2, <1>3 DEF ChargeFailed

\* Until a stale write, no job is charged both ways.
LEMMA CcConfirmOneWay ==
  ASSUME CcTypes, CcOneWay, NEW s \in Sources, Confirmable(s), Confirm(s), UNCHANGED <<batchOf, ccStale>>,
         \A q \in Chargers : ccPc'[q] = "idle" \/ (ccPc'[q] = ccPc[q] /\ ccMode'[q] = ccMode[q] /\ ccSrc'[q] = ccSrc[q])
  PROVE  CcOneWay'
  <1> SUFFICES ASSUME ~ccStale PROVE CcOneWay'
    BY DEF CcOneWay
  <1>1. \A j \in Jobs : ccOp'[j] # "none" => ccOp[j] # "none"
    BY DEF Confirmable, Confirm, CcTypes, CcRowTypes, Sources
  <1>2. \A j \in Jobs : ccStatus'[j] = ccStatus[j]
          \/ (ccStatus'[j] = "charged" /\ (ccOp[j] # "none" \/ batchOf[j] # CcNone))
    BY ChargeConstants DEF Confirmable, Confirm, CcTypes, CcRowTypes, Sources
  <1> QED BY <1>1, <1>2, SMTT(20) DEF CcOneWay, CcAttempted, CcTypes, CcRowTypes, CcCallerInv

\* A charge that failed keeps direct and batched payments apart.
LEMMA CcFailedOneWay ==
  ASSUME CcTypes, CcOneWay, NEW p \in Chargers, ccPc[p] # "idle", ChargeFailed(p), Return(p),
         UNCHANGED <<batchOf, ccOp>>
  PROVE  CcOneWay'
  <1> SUFFICES ASSUME ~ccStale' PROVE CcOneWay'
    BY DEF CcOneWay
  <1>1. \A j \in Jobs : ccStatus'[j] = ccStatus[j] \/ (ccStatus[j] \in CcAttempted /\ ccStatus'[j] = "manual_review")
                          \/ (ccStatus[j] = "not_attempted" /\ ccStatus'[j] = "failed")
    BY CcFailedWrites
  <1>2. ~ccStale
    BY CcFailedWrites
  <1>3. \A j \in Jobs : ccOp'[j] # "none" => batchOf'[j] = CcNone /\ ccStatus'[j] \in CcAttempted
    BY <1>1, <1>2 DEF CcOneWay, CcAttempted
  <1>4. \A j \in Jobs : batchOf'[j] # CcNone =>
          ccStatus'[j] \in {"deferred", "outcome_unknown", "manual_review", "charged"}
    BY <1>1, <1>2 DEF CcOneWay
  <1>5. ASSUME NEW q \in Chargers, ccPc'[q] # "idle" /\ ccMode'[q] = "retry"
        PROVE  batchOf'[ccSrc'[q]] = CcNone /\ ccStatus'[ccSrc'[q]] \in CcAttempted
    <2>1. q # p /\ ccPc[q] # "idle" /\ ccMode[q] = "retry" /\ ccSrc'[q] = ccSrc[q] /\ ccSrc[q] \in Jobs
      BY <1>5 DEF Return, CcTypes, CcRowTypes, CcCallerInv
    <2> QED BY <1>1, <1>2, <2>1, SMTT(20) DEF CcOneWay, CcAttempted
  <1> QED BY <1>3, <1>4, <1>5 DEF CcOneWay

LEMMA CcInitOneWay == CcInit => CcOneWay
  BY ChargeConstants, SMTT(20) DEF CcInit, CcOneWay, Sources

LEMMA CcOneWayStep ==
  ASSUME CcTypes, CcLiveInv, CcOneWay, [CcNext]_ccVars
  PROVE  CcOneWay'
  <1>1. ASSUME NEW p \in Chargers, DeferJob(p) PROVE CcOneWay'
    BY <1>1, ChargeConstants, SMTT(20) DEF DeferJob, CcOneWay, CcAttempted, CcLiveInv, CcOwns, CcTypes, CcRowTypes, CcCallerInv, Sources
  <1>2. ASSUME NEW p \in Chargers, FreezeAmount(p) PROVE CcOneWay'
    BY <1>2, ChargeConstants DEF FreezeAmount, CcOneWay, CcAttempted, CcLiveInv, CcOwns, CcTypes, CcRowTypes, CcCallerInv, Sources
  <1>3. ASSUME NEW p \in Chargers, MissCard(p) PROVE CcOneWay'
    BY <1>3, ChargeConstants DEF MissCard, CcOneWay, CcAttempted, CcLiveInv, CcOwns, CcTypes, CcRowTypes, CcCallerInv, Sources
  <1>4. ASSUME NEW p \in Chargers, ParkJob(p) PROVE CcOneWay'
    <2> SUFFICES ASSUME ~ccStale' PROVE CcOneWay'
      BY DEF CcOneWay
    <2>1. ccSrc[p] \in Jobs
      BY <1>4 DEF ParkJob, CcTypes, CcCallerInv
    <2>2. ccStatus' = ccStatus \/ (ccStatus[ccSrc[p]] = "not_attempted" /\ ccStatus' = [ccStatus EXCEPT ![ccSrc[p]] = "no_payment_method"])
      BY <1>4, <2>1 DEF ParkJob, SetChargeStatus, CcTypes, CcRowTypes
    <2>3. ~ccStale
      BY <1>4 DEF ParkJob, SetChargeStatus
    <2> QED BY <1>4, <2>1, <2>2, <2>3, SMTT(20) DEF ParkJob, CcOneWay, CcAttempted, CcTypes, CcRowTypes, CcCallerInv
  <1>5. ASSUME NEW p \in Chargers, BeginFirst(p) PROVE CcOneWay'
    <2> SUFFICES ASSUME ~ccStale' PROVE CcOneWay'
      BY DEF CcOneWay
    <2>1. ccSrc[p] \in Sources /\ ~ccStale /\ (ccMode[p] = "first" => ccStatus[ccSrc[p]] = "not_attempted")
      BY <1>5 DEF BeginFirst, CcTypes, CcRowTypes, CcCallerInv, Sources
    <2>2. CASE ccSrc[p] \in Jobs
      <3>1. ccStatus' = [ccStatus EXCEPT ![ccSrc[p]] = "outcome_unknown"] /\ batchOf[ccSrc[p]] = CcNone
        BY <1>5, <2>1, <2>2, ChargeConstants DEF BeginFirst, Crossing, CcOneWay, CcAttempted, CcTypes, CcRowTypes, CcCallerInv
      <3> QED BY <1>5, <2>1, <2>2, <3>1, SMTT(20) DEF BeginFirst, CcOneWay, CcAttempted, CcTypes, CcRowTypes, CcCallerInv, Sources
    <2>3. CASE ccSrc[p] \in ChargeBatches
      <3>1. ccSrc[p] \notin Jobs
        BY <2>3, ChargeConstants
      <3>2. \A j \in Jobs : ccOp'[j] = ccOp[j] /\ (ccStatus'[j] = ccStatus[j] \/ (batchOf[j] = ccSrc[p] /\ ccStatus'[j] = "outcome_unknown"))
        BY <1>5, <2>1, <3>1 DEF BeginFirst, Crossing, Members, CcTypes, CcRowTypes, Sources
      <3> QED BY <1>5, <2>1, <2>3, <3>1, <3>2, ChargeConstants, SMTT(20) DEF BeginFirst, CcOneWay, CcAttempted, CcTypes, CcRowTypes, CcCallerInv
    <2> QED BY <2>1, <2>2, <2>3 DEF Sources
  <1>6. ASSUME NEW p \in Chargers, BeginAgain(p) PROVE CcOneWay'
    BY <1>6, ChargeConstants, SMTT(20) DEF BeginAgain, CcOneWay, CcAttempted, CcLiveInv, CcOwns, CcTypes, CcRowTypes, CcCallerInv, Sources
  <1>7. ASSUME NEW p \in Chargers, BeginBlocked(p) PROVE CcOneWay'
    BY <1>7, ChargeConstants, SMTT(20) DEF BeginBlocked, CcOneWay, CcAttempted, CcLiveInv, CcOwns, CcTypes, CcRowTypes, CcCallerInv, Sources
  <1>8. ASSUME NEW p \in Chargers, BeginRefused(p) PROVE CcOneWay'
    BY <1>8, CcFailedOneWay DEF BeginRefused, ccOpVars
  <1>9. ASSUME NEW p \in Chargers, RecordPaid(p) PROVE CcOneWay'
    <2>1. CASE Confirmable(ccSrc[p]) /\ Confirm(ccSrc[p])
      BY <1>9, <2>1, CcConfirmOneWay DEF RecordPaid, CcTypes, CcRowTypes, CcCallerInv, Sources
    <2>2. CASE UNCHANGED <<ccOp, ccStatus, ccBatch>>
      BY <1>9, <2>2 DEF RecordPaid, CcOneWay, CcTypes, CcRowTypes, CcCallerInv
    <2> QED BY <1>9, <2>1, <2>2 DEF RecordPaid
  <1>10. ASSUME NEW p \in Chargers, MarkDeclined(p) PROVE CcOneWay'
    BY <1>10, ChargeConstants, SMTT(20) DEF MarkDeclined, CcOneWay, CcAttempted, CcLiveInv, CcOwns, CcTypes, CcRowTypes, CcCallerInv, Sources
  <1>11. ASSUME NEW p \in Chargers, CountDeclined(p) PROVE CcOneWay'
    BY <1>11, CcFailedOneWay DEF CountDeclined, ccOpVars
  <1>12. ASSUME NEW p \in Chargers, Paid(p) PROVE CcOneWay'
    BY <1>12, ChargeConstants, SMTT(20) DEF Paid, Request, CcOneWay, CcAttempted, CcLiveInv, CcOwns, CcTypes, CcRowTypes, CcCallerInv, Sources
  <1>13. ASSUME NEW p \in Chargers, Declined(p) PROVE CcOneWay'
    BY <1>13, ChargeConstants, SMTT(20) DEF Declined, CcOneWay, CcAttempted, CcLiveInv, CcOwns, CcTypes, CcRowTypes, CcCallerInv, Sources
  <1>14. ASSUME NEW p \in Chargers, AnswerLost(p) PROVE CcOneWay'
    BY <1>14, ChargeConstants, SMTT(20) DEF AnswerLost, Request, CcOneWay, CcAttempted, CcLiveInv, CcOwns, CcTypes, CcRowTypes, CcCallerInv, Sources
  <1>15. ASSUME NEW p \in Chargers, FailEarly(p) PROVE CcOneWay'
    BY <1>15, CcFailedOneWay DEF FailEarly, ccOpVars
  <1>16. ASSUME NEW p \in Chargers, CcCrash(p) PROVE CcOneWay'
    BY <1>16, ChargeConstants, SMTT(20) DEF CcCrash, CcOneWay, CcAttempted, CcLiveInv, CcOwns, CcTypes, CcRowTypes, CcCallerInv, Sources
  <1>17. ASSUME NEW p \in Chargers, NEW j \in Jobs, ReadJob(p, j) PROVE CcOneWay'
    BY <1>17, ChargeConstants, SMTT(20) DEF ReadJob, CcOneWay, CcAttempted, CcLiveInv, CcOwns, CcTypes, CcRowTypes, CcCallerInv, Sources
  <1>18. ASSUME NEW p \in Chargers, NEW j \in Jobs, ReadFailed(p, j) PROVE CcOneWay'
    BY <1>18, ChargeConstants, SMTT(20) DEF ReadFailed, CcOneWay, CcAttempted, CcLiveInv, CcOwns, CcTypes, CcRowTypes, CcCallerInv, Sources
  <1>19. ASSUME NEW p \in Chargers, NEW b \in ChargeBatches, ReadBatch(p, b) PROVE CcOneWay'
    BY <1>19, ChargeConstants, SMTT(20) DEF ReadBatch, CcOneWay, CcAttempted, CcLiveInv, CcOwns, CcTypes, CcRowTypes, CcCallerInv, Sources
  <1>20. ASSUME ReflipNoCardJobs PROVE CcOneWay'
    BY <1>20, ChargeConstants DEF ReflipNoCardJobs, CcOneWay, CcAttempted, CcLiveInv, CcOwns, CcTypes, CcRowTypes, CcCallerInv, Sources
  <1>21. ASSUME MarkBuyerDeferredNoCard PROVE CcOneWay'
    BY <1>21, ChargeConstants DEF MarkBuyerDeferredNoCard, CcOneWay, CcAttempted, CcLiveInv, CcOwns, CcTypes, CcRowTypes, CcCallerInv, Sources
  <1>22. ASSUME SaveCard PROVE CcOneWay'
    BY <1>22, ChargeConstants DEF SaveCard, CcOneWay, CcAttempted, CcLiveInv, CcOwns, CcTypes, CcRowTypes, CcCallerInv, Sources
  <1>23. ASSUME NEW b \in ChargeBatches, FormChargeBatch(b) PROVE CcOneWay'
    BY <1>23, ChargeConstants DEF FormChargeBatch, Deferred, CcOneWay, CcAttempted, CcLiveInv, CcOwns, CcTypes, CcRowTypes, CcCallerInv, Sources
  <1>24. ASSUME NEW j \in Jobs, SettleJobSLA(j) PROVE CcOneWay'
    BY <1>24, ChargeConstants DEF SettleJobSLA, CcOneWay, CcAttempted, CcLiveInv, CcOwns, CcTypes, CcRowTypes, CcCallerInv, Sources
  <1>25. ASSUME NEW s \in Sources, Reconcile(s) PROVE CcOneWay'
    BY <1>25, CcConfirmOneWay DEF Reconcile
  <1>26. ASSUME NEW x \in pending, ResolveCharge(x) PROVE CcOneWay'
    BY <1>26, ChargeConstants DEF ResolveCharge, CcOneWay, CcAttempted, CcLiveInv, CcOwns, CcTypes, CcRowTypes, CcCallerInv, Sources
  <1>27. CASE UNCHANGED ccVars
    BY <1>27 DEF ccVars, CcOneWay, CcAttempted, CcLiveInv, CcOwns, CcTypes, CcRowTypes, CcCallerInv, Sources
  <1> QED BY <1>1, <1>2, <1>3, <1>4, <1>5, <1>6, <1>7, <1>8, <1>9, <1>10, <1>11, <1>12, <1>13, <1>14, <1>15, <1>16, <1>17, <1>18, <1>19, <1>20, <1>21, <1>22, <1>23, <1>24, <1>25, <1>26, <1>27 DEF CcNext, Step, Answer

CcInv == CcTypes /\ CcLiveInv /\ CcPaidInv /\ CcOneWay

LEMMA CcInductive == CcSpec => []CcInv
  <1>1. CcInit => CcInv
    BY CcInitTypes, CcInitLive, CcInitPaid, CcInitOneWay DEF CcInv
  <1>2. CcInv /\ [CcNext]_ccVars => CcInv'
    BY CcTypesStep, CcLiveStep, CcPaidStep, CcOneWayStep DEF CcInv
  <1> QED BY <1>1, <1>2, PTL DEF CcSpec

LEMMA CcOneLive == CcTypes /\ CcLiveInv => OneLivePayment
  <1> SUFFICES ASSUME CcTypes, CcLiveInv, NEW x \in pending \cup ccCash, NEW y \in pending \cup ccCash, x[1] = y[1]
               PROVE  x = y
    BY DEF OneLivePayment
  <1>1. x \in Sources \X Nat /\ y \in Sources \X Nat
    BY DEF CcTypes, CcRowTypes
  <1>2. x[2] = y[2]
    BY SMTT(20) DEF CcLiveInv, CcCurrent
  <1> QED BY <1>1, <1>2, SMTT(20)

\* No blind retry: however many callers run chargeBuyer for one operation, at
\* most one of its requests has moved money or still might.
THEOREM SinglePayment == CcSpec => []OneLivePayment
  <1>1. CcInv => OneLivePayment
    BY CcOneLive DEF CcInv
  <1> QED BY <1>1, CcInductive, PTL

\* A job that the rows record as charged was paid for.
THEOREM PaymentBehindCharge == CcSpec => []ChargedIsPaid
  <1>1. CcInv => ChargedIsPaid
    BY ChargeConstants, SMTT(20) DEF CcInv, CcPaidInv, ChargedIsPaid, PaidFor, CcTypes, CcRowTypes, Sources
  <1> QED BY <1>1, CcInductive, PTL

\* A buyer pays twice for a job only after a first attempt wrote over a status
\* that had changed since it was read.
THEOREM TwiceNeedsStale == CcSpec => []TwiceOnlyIfStale
  <1>1. ASSUME CcInv, ~ccStale, NEW j \in Jobs, NEW x \in PaidFor(j), NEW y \in PaidFor(j) PROVE x = y
    <2>1. x \in ccCash /\ y \in ccCash
      BY DEF PaidFor
    <2>2. x \in Sources \X Nat /\ y \in Sources \X Nat /\ ccOp[x[1]] # "none" /\ ccOp[y[1]] # "none"
      BY <1>1, <2>1 DEF CcInv, CcTypes, CcRowTypes, CcLiveInv, CcCurrent
    <2>3. x[1] = y[1]
      BY <1>1, <2>2, ChargeConstants DEF CcInv, CcOneWay, PaidFor, CcTypes, CcRowTypes, Sources
    <2> QED BY <1>1, <2>1, <2>3, CcOneLive DEF CcInv, OneLivePayment
  <1>2. CcInv => TwiceOnlyIfStale
    BY <1>1 DEF TwiceOnlyIfStale, ChargedOnce
  <1> QED BY <1>2, CcInductive, PTL

\* Any number of chargers, jobs and lost answers make one live payment per operation,
\* call charged only what was paid, and collect a job twice only when a first attempt
\* acted on a stale status.
THEOREM CollectedSafely == CcSpec => []CollectedOnce
  <1>1. OneLivePayment /\ ChargedIsPaid /\ TwiceOnlyIfStale => CollectedOnce BY DEF CollectedOnce
  <1> QED BY <1>1, SinglePayment, PaymentBehindCharge, TwiceNeedsStale, PTL
=============================================================================
