----------------------- MODULE ContributionSettlement -----------------------
(***************************************************************************)
(* What a job finally earned, and the risk reserve that stands behind its  *)
(* refunds: contribution_settlement.go, contribution_settlement_batch.go,  *)
(* risk_reserve_ledger.go, economic_facts.go, and the writers of the       *)
(* ledger rows they read (finalization, SLA settlement, dispute            *)
(* resolution).  Every writer is one transaction that holds the job row;   *)
(* only the filing of a dispute is cut in two, because its now() is taken  *)
(* when the transaction begins and used after it has waited for the row.   *)
(* A job has one task, named after it.  Ledger rows carry micro-units, the *)
(* reserve and the settlement nano-units.                                  *)
(***************************************************************************)
EXTENDS Integers, FiniteSets, FiniteSetsExt

CONSTANTS
    CsJobs,          \* jobs; each has one task of the same name
    CsDisputes,      \* dispute ids
    CsNoTask,        \* task_id IS NULL
    CsNanos,         \* NanosPerMicro
    CsAccepted,      \* functions from jobs to [pricing, premium] as accepted
    ChargeMicros,    \* buyer charge of a task
    CreditMicros,    \* supplier credit of a task
    FeeMicros,       \* processor fee of a payment
    SubsidyMicros    \* platform subsidy of a payout

ASSUME ContributionAssumption ==
    /\ CsNanos \in Nat \ {0}
    /\ ChargeMicros \in Nat \ {0}
    /\ CreditMicros \in 1..ChargeMicros
    /\ FeeMicros \in Nat /\ SubsidyMicros \in Nat

VARIABLES
    csJob,       \* job -> [status, sla, past]: past = the filing window elapsed
    csPricing,   \* job -> the frozen pricing decision
    csPremium,   \* job -> frozen SLA premium
    csLedger,    \* ledger_entries: a set of rows
    csReserve,   \* job -> job_risk_reserves row, or NoReserve
    csEvents,    \* CONSUMED events: <<job, cause>>
    csDispute,   \* dispute -> [job, status]
    csReceipts,  \* dispute -> buyer_refund_usd of job_dispute_refunds, 0: none
    csBatch,     \* jobs of the charge batch (the others are charged alone)
    csAlloc,     \* job -> charge_batch_fee_allocations share, or NoShare
    csSubsidy,   \* job -> platform_subsidy funding
    csKept       \* job -> nanos the platform kept so far (a ghost)

csVars == <<csJob, csPricing, csPremium, csLedger, csReserve, csEvents,
            csDispute, csReceipts, csBatch, csAlloc, csSubsidy, csKept>>

NoReserve == [accrued |-> 0, held |-> 0, consumed |-> 0, released |-> 0,
              lAccrued |-> 0, lHeld |-> 0, lConsumed |-> 0, lReleased |-> 0]
NoShare == -1
CsActiveDispute == {"open"}   \* open, no_peer, reverifying, unresolvable

LedgerRow(kind, task, ref, micros) ==
    [kind |-> kind, task |-> task, ref |-> ref, micros |-> micros]
NoRef == <<"none", CsNoTask>>
SumOf(rows) == MapThenSumSet(LAMBDA r : r.micros, rows)
CeilDiv(a, b) == (a + b - 1) \div b
RowsOf(j, kind) == {r \in csLedger : r.task = j /\ r.kind = kind}
RefRows(kind, ref) == {r \in csLedger : r.kind = kind /\ r.ref = ref}

Move(j, nanos) == csKept' = [csKept EXCEPT ![j] = @ + nanos]

CSInit ==
    /\ \E accepted \in CsAccepted :
          /\ csPricing = [j \in CsJobs |-> accepted[j].pricing]
          /\ csPremium = [j \in CsJobs |-> accepted[j].premium]
    /\ csBatch \in {{}, CsJobs}
    /\ csJob = [j \in CsJobs |->
          [status |-> "running", past |-> FALSE,
           sla |-> IF csPremium[j] > 0 THEN "undecided" ELSE "none"]]
    /\ csLedger = {}
    /\ csReserve = [j \in CsJobs |-> NoReserve]
    /\ csEvents = {}
    /\ csDispute = [d \in CsDisputes |-> [job |-> CsNoTask, status |-> "unfiled"]]
    /\ csReceipts = [d \in CsDisputes |-> 0]
    /\ csAlloc = [j \in CsJobs |-> NoShare]
    /\ csSubsidy = [j \in CsJobs |-> 0]
    /\ csKept = [j \in CsJobs |-> 0]

-----------------------------------------------------------------------------
(* The writers of settlement money.                                        *)

\* settlementEntries: the charge and the credit of a verified task.
SettleTask(j) ==
    /\ csJob[j].status = "running"
    /\ RowsOf(j, "buyer_charge") = {}
    /\ csLedger' = csLedger \cup
          {LedgerRow("buyer_charge", j, NoRef, ChargeMicros),
           LedgerRow("supplier_credit", j, NoRef, CreditMicros)}
    /\ Move(j, (ChargeMicros - CreditMicros) * CsNanos)
    /\ UNCHANGED <<csJob, csPricing, csPremium, csReserve, csEvents, csDispute,
                   csReceipts, csBatch, csAlloc, csSubsidy>>

PremiumRef(j) == <<"sla-premium", j>>

\* Accrual in nanos for a settled charge: basis points of the frozen cost
\* policy, or the accepted reserve/buyer ratio of a historical decision; both
\* are a fraction rounded up.  No reserve is modelled: nothing accrues.
AccruedNanos(pricing, settledNanos) ==
    IF pricing.risk # "MODELED" THEN 0
    ELSE CeilDiv(settledNanos * pricing.num, pricing.den)

\* AccrueRiskReserveAtSettlementTx: the row, with its ceiling in ledger micros.
AccrueRiskReserve(pricing, settledMicros) ==
    LET nanos == AccruedNanos(pricing, settledMicros * CsNanos)
        micros == CeilDiv(nanos, CsNanos)
    IN  IF nanos = 0 THEN NoReserve
        ELSE [accrued |-> nanos, held |-> nanos, consumed |-> 0, released |-> 0,
              lAccrued |-> micros, lHeld |-> micros, lConsumed |-> 0, lReleased |-> 0]

\* completeJobEconomics: completion, SLA premium charge and accrual commit
\* together.  A replay on a complete job finds every row and changes nothing.
CsCompleteJob(j) ==
    LET premium == IF csPremium[j] = 0 THEN {}
                   ELSE {LedgerRow("buyer_charge", CsNoTask, PremiumRef(j), csPremium[j])}
        settled == SumOf(RowsOf(j, "buyer_charge") \cup premium)
    IN  /\ csJob[j].status = "running"
        /\ RowsOf(j, "buyer_charge") # {}
        /\ csJob' = [csJob EXCEPT ![j].status = "complete"]
        /\ csLedger' = csLedger \cup premium
        /\ csReserve' = [csReserve EXCEPT ![j] = AccrueRiskReserve(csPricing[j], settled)]
        /\ Move(j, csPremium[j] * CsNanos)
        /\ UNCHANGED <<csPricing, csPremium, csEvents, csDispute, csReceipts,
                       csBatch, csAlloc, csSubsidy>>

\* terminal_at + disputeFilingWindow goes by.
WindowElapses(j) ==
    /\ csJob[j].status = "complete" /\ ~csJob[j].past
    /\ csJob' = [csJob EXCEPT ![j].past = TRUE]
    /\ UNCHANGED <<csPricing, csPremium, csLedger, csReserve, csEvents, csDispute,
                   csReceipts, csBatch, csAlloc, csSubsidy, csKept>>

-----------------------------------------------------------------------------
(* The risk reserve.                                                       *)

\* Mutant: the event that makes a cause consume once is not looked up.
CauseConsumed_Never(j, cause) == FALSE
\* consumeRiskReserveForCauseTx: a CONSUMED event for this cause exists.
CauseConsumed(j, cause) == <<j, cause>> \in csEvents

\* The micros the ledger has consumed once `nanos` more are consumed: the
\* cumulative nanos projected and rounded down.
LedgerConsumed(r, nanos) == ((r.consumed + nanos) * r.lAccrued) \div r.accrued

\* The reserve after consuming for a refund of `nanos`.
ConsumedReserve(r, nanos) ==
    LET take == IF nanos > r.held THEN r.held ELSE nanos
        delta == LedgerConsumed(r, take) - r.lConsumed
    IN  [r EXCEPT !.held = @ - take, !.consumed = @ + take,
                  !.lHeld = @ - delta, !.lConsumed = @ + delta]

\* The transaction can go on: the cause was consumed before, or there is no
\* reserve, or it was not released before this refund.
ConsumePasses(j, cause) ==
    LET r == csReserve[j]
    IN  r = NoReserve \/ CauseConsumed(j, cause) \/ r.held > 0 \/ r.released = 0

\* The whole effect of consumeRiskReserveForCauseTx, as new reserve and events.
AfterConsume(j, cause, nanos) ==
    LET r == csReserve[j]
    IN  IF r = NoReserve \/ CauseConsumed(j, cause) \/ r.held = 0
        THEN [reserve |-> r, events |-> csEvents]
        ELSE [reserve |-> ConsumedReserve(r, nanos), events |-> csEvents \cup {<<j, cause>>}]

SlaCause == <<"SLA_REFUND", CsNoTask>>
DisputeCause(d) == <<"DISPUTE_REFUND", d>>

\* loadSLARefundCauseTx and loadDisputeRefundCauseTx: the posted refunds of a
\* cause, in nanos; a dispute's are the rows keyed by it, not the job's.
SlaRefundRef(j) == <<"sla", j>>
TaskRefundRef(d) == <<"dispute-refund", d>>
DisputeSlaRef(d) == <<"dispute-sla-refund", d>>
SlaRefundNanos(ledger, j) ==
    CsNanos * SumOf({r \in ledger : r.kind = "sla_refund" /\ r.ref = SlaRefundRef(j)})
DisputeRefundNanos(ledger, d) ==
    CsNanos * SumOf({r \in ledger : r.kind = "buyer_refund"
                                    /\ r.ref \in {TaskRefundRef(d), DisputeSlaRef(d)}})

\* CsSettleJobSLA: a missed guarantee refunds min(premium, charged) and consumes
\* the reserve in the same transaction.
CsSettleJobSLA(j, missed) ==
    LET refund == Min({csPremium[j], SumOf(RowsOf(j, "buyer_charge")) + csPremium[j]})
        ledger == csLedger \cup
                     IF missed THEN {LedgerRow("sla_refund", CsNoTask, SlaRefundRef(j), refund)} ELSE {}
        after == AfterConsume(j, SlaCause, refund * CsNanos)
    IN  /\ csJob[j].status = "complete" /\ csJob[j].sla = "undecided"
        /\ missed => ConsumePasses(j, SlaCause)
        /\ csJob' = [csJob EXCEPT ![j].sla = IF missed THEN "missed" ELSE "met"]
        /\ csLedger' = ledger
        /\ csReserve' = IF missed THEN [csReserve EXCEPT ![j] = after.reserve] ELSE csReserve
        /\ csEvents' = IF missed THEN after.events ELSE csEvents
        /\ Move(j, IF missed THEN -refund * CsNanos ELSE 0)
        /\ UNCHANGED <<csPricing, csPremium, csDispute, csReceipts, csBatch, csAlloc, csSubsidy>>

\* CsRecordDispute begins: its now() is taken here, inside the filing window.
BeginDispute(d, j) ==
    /\ csDispute[d].status = "unfiled" /\ ~csJob[j].past
    /\ csDispute' = [csDispute EXCEPT ![d] = [job |-> j, status |-> "filing"]]
    /\ UNCHANGED <<csJob, csPricing, csPremium, csLedger, csReserve, csEvents,
                   csReceipts, csBatch, csAlloc, csSubsidy, csKept>>

ActiveOn(j) == {d \in CsDisputes : csDispute[d].job = j /\ csDispute[d].status \in CsActiveDispute}

\* CsRecordDispute has the job row: the job must be terminal and have no active
\* case; the window was checked against the begin of the transaction.
CsRecordDispute(d) ==
    LET j == csDispute[d].job
    IN  /\ csDispute[d].status = "filing"
        /\ csDispute' = [csDispute EXCEPT ![d] =
              IF csJob[j].status = "complete" /\ ActiveOn(j) = {}
              THEN [job |-> j, status |-> "open"]
              ELSE [job |-> CsNoTask, status |-> "unfiled"]]
        /\ UNCHANGED <<csJob, csPricing, csPremium, csLedger, csReserve, csEvents,
                       csReceipts, csBatch, csAlloc, csSubsidy, csKept>>

\* insertJobDisputeClawbacksTx: one clawback per credit (ON CONFLICT task, kind).
ClawbackRows(j) ==
    IF RowsOf(j, "clawback") # {} THEN {}
    ELSE {LedgerRow("clawback", j, NoRef, r.micros) : r \in RowsOf(j, "supplier_credit")}

\* insertJobDisputeBuyerRefundsTx: one refund per task charge, and the premium
\* once per dispute id.
RefundRows(d, j) ==
    LET perTask == IF RowsOf(j, "buyer_refund") # {} THEN {}
                   ELSE {LedgerRow("buyer_refund", j, TaskRefundRef(d), r.micros) :
                            r \in RowsOf(j, "buyer_charge")}
        premium == {LedgerRow("buyer_refund", CsNoTask, DisputeSlaRef(d), r.micros) :
                       r \in RefRows("buyer_charge", PremiumRef(j))}
    IN  perTask \cup premium

\* BuyerRefundMicros of the result: every task refund of the job, and the
\* premium refund of this dispute.
ReceiptMicros(ledger, d, j) ==
    SumOf({r \in ledger : r.kind = "buyer_refund" /\ (r.task = j \/ r.ref = DisputeSlaRef(d))})

\* resolveDisputeInTx, upheld: clawbacks, refunds, receipt and consumption in
\* one transaction.  It fails when the reserve was released before, and when
\* the job has refunds but none of them is keyed by this dispute.
UpholdDispute(d) ==
    LET j == csDispute[d].job
        ledger == csLedger \cup ClawbackRows(j) \cup RefundRows(d, j)
        nanos == DisputeRefundNanos(ledger, d)
        after == AfterConsume(j, DisputeCause(d), nanos)
    IN  /\ csDispute[d].status \in CsActiveDispute
        /\ ReceiptMicros(ledger, d, j) > 0 => nanos > 0 /\ ConsumePasses(j, DisputeCause(d))
        /\ csDispute' = [csDispute EXCEPT ![d].status = "upheld"]
        /\ csLedger' = ledger
        /\ csReceipts' = [csReceipts EXCEPT ![d] = ReceiptMicros(ledger, d, j)]
        /\ csReserve' = [csReserve EXCEPT ![j] = after.reserve]
        /\ csEvents' = after.events
        /\ Move(j, CsNanos * (SumOf(ClawbackRows(j)) - SumOf(RefundRows(d, j))))
        /\ UNCHANGED <<csJob, csPricing, csPremium, csBatch, csAlloc, csSubsidy>>

RejectDispute(d) ==
    /\ csDispute[d].status \in CsActiveDispute
    /\ csDispute' = [csDispute EXCEPT ![d].status = "rejected"]
    /\ UNCHANGED <<csJob, csPricing, csPremium, csLedger, csReserve, csEvents,
                   csReceipts, csBatch, csAlloc, csSubsidy, csKept>>

\* ConsumeRiskReserveOnRefund: the recovery entry point consumes a durable
\* refund whose consumption is missing, and refuses a job without refunds.
ConsumeOnRefund(j) ==
    \E cause \in {SlaCause} \cup {DisputeCause(d) : d \in {e \in CsDisputes :
                     csDispute[e].job = j /\ csDispute[e].status = "upheld"}} :
        LET nanos == IF cause = SlaCause THEN SlaRefundNanos(csLedger, j)
                     ELSE DisputeRefundNanos(csLedger, cause[2])
            after == AfterConsume(j, cause, nanos)
        IN  /\ nanos > 0 /\ ConsumePasses(j, cause)
            /\ csReserve' = [csReserve EXCEPT ![j] = after.reserve]
            /\ csEvents' = after.events
            /\ UNCHANGED <<csJob, csPricing, csPremium, csLedger, csDispute,
                           csReceipts, csBatch, csAlloc, csSubsidy, csKept>>

\* unconsumedRiskReserveRefundExistsTx
UnconsumedRefund(j) ==
    \/ RefRows("sla_refund", SlaRefundRef(j)) # {} /\ <<j, SlaCause>> \notin csEvents
    \/ \E d \in CsDisputes : /\ csDispute[d].job = j /\ csDispute[d].status = "upheld"
                             /\ DisputeRefundNanos(csLedger, d) > 0
                             /\ <<j, DisputeCause(d)>> \notin csEvents

\* releaseRiskReserveTx: an active dispute, an undecided SLA or a refund that
\* has not been consumed keeps the reserve.
ReleaseBlocked(j) ==
    ActiveOn(j) # {} \/ csJob[j].sla = "undecided" \/ UnconsumedRefund(j)

\* ReleaseEligibleRiskReserves lists what may be due and takes each job in a
\* transaction of its own, which skips one that is blocked by then.
ReleaseEligible(j) == csReserve[j].held > 0 /\ csJob[j].past

\* releaseRiskReserveTx, from the sweep and from the operator's entry point.
ReleaseRiskReserve(j) ==
    LET r == csReserve[j]
    IN  /\ ReleaseEligible(j) /\ ~ReleaseBlocked(j)
        /\ csReserve' = [csReserve EXCEPT ![j] =
              [r EXCEPT !.held = 0, !.released = @ + r.held,
                        !.lHeld = 0, !.lReleased = @ + r.lHeld]]
        /\ UNCHANGED <<csJob, csPricing, csPremium, csLedger, csEvents, csDispute,
                       csReceipts, csBatch, csAlloc, csSubsidy, csKept>>

-----------------------------------------------------------------------------
(* Processor fees and subsidies.                                           *)

PaymentOf(j) == <<"pi", IF j \in csBatch THEN CsNoTask ELSE j>>
Weight(j) == SumOf(RowsOf(j, "buyer_charge") \cup RefRows("buyer_charge", PremiumRef(j)))

\* The processor's balance transaction is recorded once the payment of a
\* complete job (every job of a batch) succeeded; a single job bears it whole.
RecordFee(j) ==
    LET payers == IF j \in csBatch THEN csBatch ELSE {j}
    IN  /\ \A p \in payers : csJob[p].status = "complete"
        /\ RefRows("stripe_fee", PaymentOf(j)) = {}
        /\ csLedger' = csLedger \cup {LedgerRow("stripe_fee", CsNoTask, PaymentOf(j), FeeMicros)}
        /\ Move(j, IF j \in csBatch THEN 0 ELSE -FeeMicros * CsNanos)
        /\ UNCHANGED <<csJob, csPricing, csPremium, csReserve, csEvents, csDispute,
                       csReceipts, csBatch, csAlloc, csSubsidy>>

\* allocateBatchFeeMicros: floors first, then one micro each to the largest
\* remainders (ties to the smaller job id; job ids are numbers here).
Quota(fee, j) == (fee * Weight(j)) \div MapThenSumSet(Weight, csBatch)
Remainder(fee, j) == (fee * Weight(j)) % MapThenSumSet(Weight, csBatch)
Ahead(fee, j, k) ==
    \/ Remainder(fee, j) > Remainder(fee, k)
    \/ Remainder(fee, j) = Remainder(fee, k) /\ j < k
allocateBatchFeeMicros(fee) ==
    LET residual == fee - MapThenSumSet(LAMBDA j : Quota(fee, j), csBatch)
        rank(j) == Cardinality({k \in csBatch : Ahead(fee, k, j)})
    IN  [j \in csBatch |-> Quota(fee, j) + IF rank(j) < residual THEN 1 ELSE 0]

\* AllocateBatchStripeFee: one insert for the whole batch; replays only verify.
AllocateBatchStripeFee ==
    LET shares == allocateBatchFeeMicros(FeeMicros)
    IN  /\ csBatch # {}
        /\ \A j \in csBatch : csAlloc[j] = NoShare
        /\ RefRows("stripe_fee", <<"pi", CsNoTask>>) # {}
        /\ csAlloc' = [j \in CsJobs |-> IF j \in csBatch THEN shares[j] ELSE csAlloc[j]]
        /\ csKept' = [j \in CsJobs |-> csKept[j] -
                         IF j \in csBatch THEN shares[j] * CsNanos ELSE 0]
        /\ UNCHANGED <<csJob, csPricing, csPremium, csLedger, csReserve, csEvents,
                       csDispute, csReceipts, csBatch, csSubsidy>>

\* A payout of the job's credit is funded from the platform's own cash.
FundSubsidy(j) ==
    /\ csJob[j].status = "complete" /\ csSubsidy[j] = 0
    /\ RowsOf(j, "clawback") = {}
    /\ csSubsidy' = [csSubsidy EXCEPT ![j] = SubsidyMicros]
    /\ Move(j, -SubsidyMicros * CsNanos)
    /\ UNCHANGED <<csJob, csPricing, csPremium, csLedger, csReserve, csEvents,
                   csDispute, csReceipts, csBatch, csAlloc>>

CSNext ==
    \/ \E j \in CsJobs : \/ SettleTask(j) \/ CsCompleteJob(j) \/ WindowElapses(j)
                         \/ ConsumeOnRefund(j) \/ ReleaseRiskReserve(j)
                         \/ RecordFee(j) \/ FundSubsidy(j)
    \/ \E j \in CsJobs, missed \in BOOLEAN : CsSettleJobSLA(j, missed)
    \/ \E d \in CsDisputes : \/ \E j \in CsJobs : BeginDispute(d, j)
                             \/ CsRecordDispute(d) \/ UpholdDispute(d) \/ RejectDispute(d)
    \/ AllocateBatchStripeFee

CSSpec == CSInit /\ [][CSNext]_csVars

-----------------------------------------------------------------------------
(* Reading the settlement: one job, and a page of jobs.                    *)

JobRefs(j) ==
    {PremiumRef(j), SlaRefundRef(j)} \cup
    {DisputeSlaRef(d) : d \in {e \in CsDisputes : csDispute[e].job = j /\ csReceipts[e] > 0}}

\* applyContributionLedgerFact, over the rows of one job.
LedgerFacts(rows) ==
    LET nanos(kind) == CsNanos * SumOf({r \in rows : r.kind = kind})
    IN  [gross |-> nanos("buyer_charge"), refunds |-> nanos("buyer_refund"),
         sla |-> nanos("sla_refund"), credit |-> nanos("supplier_credit"),
         clawback |-> nanos("clawback"), some |-> rows # {}]

Unreconciled == -1
Broken == -2

\* loadContributionProcessorFee: the payment's fee row, or the job's share of
\* the batch's; a batch fee that is not completely allocated is an error.
CsProcessorFee(j) ==
    LET fee == RefRows("stripe_fee", PaymentOf(j))
        allocated == MapThenSumSet(LAMBDA k : csAlloc[k], csBatch)
    IN  CASE fee = {} -> Unreconciled
          [] fee # {} /\ j \notin csBatch -> CsNanos * SumOf(fee)
          [] OTHER -> IF csAlloc[j] = NoShare \/ allocated # SumOf(fee) THEN Broken
                      ELSE CsNanos * csAlloc[j]

ReserveFacts(j) == [canonical |-> csReserve[j] # NoReserve,
                    held |-> csReserve[j].held]

\* loadContributionJobFacts
JobFacts(j) ==
    [ledger |-> LedgerFacts({r \in csLedger : r.task = j \/ r.ref \in JobRefs(j)}),
     reserve |-> ReserveFacts(j),
     fee |-> CsProcessorFee(j),
     subsidy |-> CsNanos * csSubsidy[j],
     open |-> Cardinality(ActiveOn(j)),
     receipts |-> CsNanos * MapThenSumSet(LAMBDA d : csReceipts[d],
                               {d \in CsDisputes : csDispute[d].job = j})]

\* loadContributionJobFactsBatch: the UNION of task-bound and job-level rows.
BatchRows(jobs) ==
    {jr \in jobs \X csLedger : jr[2].task = jr[1]} \cup
    {jr \in jobs \X csLedger : jr[2].ref \in JobRefs(jr[1])}

\* loadContributionProcessorFeesBatch: per batch, the member and allocation
\* counts and the allocated sum, joined to every job of the page.
FeesBatch(jobs) ==
    LET batches == {PaymentOf(j) : j \in jobs}
        fee(p) == RefRows("stripe_fee", p)
        members(p) == {k \in CsJobs : PaymentOf(k) = p}
        shares(p) == {k \in members(p) : csAlloc[k] # NoShare}
        complete(p) == /\ shares(p) = members(p)
                       /\ MapThenSumSet(LAMBDA k : csAlloc[k], shares(p)) = SumOf(fee(p))
        known == {p \in batches : fee(p) # {}}
    IN  [j \in jobs |->
           IF PaymentOf(j) \notin known THEN Unreconciled
           ELSE IF j \notin csBatch THEN CsNanos * SumOf(fee(PaymentOf(j)))
           ELSE IF complete(PaymentOf(j)) THEN CsNanos * csAlloc[j] ELSE Broken]

BatchFacts(jobs) ==
    [j \in jobs |->
       [ledger |-> LedgerFacts({jr[2] : jr \in {x \in BatchRows(jobs) : x[1] = j}}),
        reserve |-> ReserveFacts(j),
        fee |-> FeesBatch(jobs)[j],
        subsidy |-> CsNanos * csSubsidy[j],
        open |-> Cardinality({d \in CsDisputes : csDispute[d].job = j
                                /\ csDispute[d].status \in CsActiveDispute}),
        receipts |-> CsNanos * MapThenSumSet(LAMBDA d : csReceipts[d],
                                  {d \in CsDisputes : csDispute[d].job = j})]]

\* reduceContributionJobFacts: what keeps the settlement from being final.
Blockers(j, f) ==
    LET p == csPricing[j]
    IN  {b \in {"ledger", "terminal", "charge", "supplier", "fee", "accepted",
                "reserve", "sla", "dispute", "receipt"} :
           \/ b = "ledger" /\ ~f.ledger.some
           \/ b = "terminal" /\ csJob[j].status # "complete"
           \/ b = "charge" /\ f.ledger.gross = 0
           \/ b = "supplier" /\ f.ledger.credit = 0
           \/ b = "fee" /\ f.fee = Unreconciled
           \/ b = "accepted" /\ ~p.exact
           \/ b = "reserve" /\ \/ p.risk = "UNKNOWN"
                               \/ p.risk = "MODELED" /\ (~f.reserve.canonical \/ f.reserve.held > 0)
           \/ b = "sla" /\ csJob[j].sla = "undecided"
           \/ b = "dispute" /\ f.open > 0
           \/ b = "receipt" /\ f.receipts > f.ledger.refunds}

\* Refunds above the gross charge, or clawbacks above the credits, are errors;
\* so is a fee that is not completely allocated.
FactsRefused(f) ==
    \/ f.fee = Broken
    \/ f.ledger.refunds + f.ledger.sla > f.ledger.gross
    \/ f.ledger.clawback > f.ledger.credit

\* Buyer net less supplier net, processor fee, accepted control-plane and
\* provider costs and subsidy.  Storage, egress and a closed reserve are zero.
TrueNet(j, f) ==
    f.ledger.gross - f.ledger.refunds - f.ledger.sla - (f.ledger.credit - f.ledger.clawback)
      - f.fee - csPricing[j].costs - f.subsidy

Settlement(j, f) ==
    IF FactsRefused(f) THEN [stage |-> "REFUSED", net |-> 0]
    ELSE IF Blockers(j, f) = {} THEN [stage |-> "FINAL_SETTLEMENT", net |-> TrueNet(j, f)]
    ELSE [stage |-> IF f.ledger.some THEN "PROVISIONAL_SETTLEMENT" ELSE "ACCEPTED_FORECAST",
          net |-> 0]

\* ContributionSettlementForJob: one REPEATABLE READ snapshot.
SettlementOf(j) == Settlement(j, JobFacts(j))

-----------------------------------------------------------------------------
(* Properties.                                                             *)

Refunded(j) == LedgerFacts({r \in csLedger : r.task = j \/ r.ref \in JobRefs(j)}).refunds
                 + SlaRefundNanos(csLedger, j)

\* The reserve has paid exactly the refunds of its job, each once, as far as
\* it reaches; once a part of it was released, no refund is left uncovered
\* (consumeRiskReserveForCauseTx, releaseRiskReserveTx).
ReserveCoversRefunds ==
    \A j \in CsJobs : LET r == csReserve[j] IN r # NoReserve =>
        /\ r.consumed = Min({r.accrued, Refunded(j)})
        /\ r.released > 0 => r.consumed = Refunded(j)

\* The nano state and its micro projection conserve together: no micro stays
\* held in the ledger for a reserve that holds nothing, and none is consumed
\* or released that was not accrued.
ReserveConserves ==
    \A j \in CsJobs : LET r == csReserve[j] IN r # NoReserve =>
        /\ r.accrued = r.held + r.consumed + r.released
        /\ r.lAccrued = r.lHeld + r.lConsumed + r.lReleased
        /\ r.held >= 0 /\ r.lHeld >= 0
        /\ r.held = 0 => r.lHeld = 0

\* A final settlement reports what the platform kept: every charge, refund,
\* credit, clawback, fee share and subsidy of the job counted exactly once.
FinalIsWhatWasKept ==
    \A j \in CsJobs : SettlementOf(j).stage = "FINAL_SETTLEMENT" =>
        SettlementOf(j).net = csKept[j] - csPricing[j].costs

\* The page loader of the accounting endpoints reads for every job of a page
\* what the single-job loader reads.
PageAgrees == \A j \in CsJobs : BatchFacts(CsJobs)[j] = JobFacts(j)

\* The settlement of a job and its risk reserve add up in both units, and every reader
\* is told the same, whatever order refunds, disputes, fees and the maturity sweep come
\* in.
ReserveReconciles ==
    /\ ReserveCoversRefunds /\ ReserveConserves /\ FinalIsWhatWasKept /\ PageAgrees
=============================================================================
