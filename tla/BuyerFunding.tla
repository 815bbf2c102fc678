--------------------------- MODULE BuyerFunding ---------------------------
(***************************************************************************)
(* The money of one buyer without a card: a free grant and a prepaid        *)
(* balance (store_prepaid.go, accounts.go), and everything that is admitted *)
(* against them: batch jobs on either rail, realtime contracts              *)
(* (realtime_store.go), execution envelopes (execution_envelope.go) and a   *)
(* service lease (service_leases.go).  What is still open counts through    *)
(* buyer_open_exposure.go.                                                  *)
(*                                                                         *)
(* Every admission holds the buyer's funding advisory lock and every        *)
(* settlement the row of the balance, so each action is one transaction.    *)
(* A transaction that finds the balance short rolls back and changes        *)
(* nothing: the action is then disabled.  Envelopes and contracts are in    *)
(* nanos, the ledger is in micros of Npm nanos.                             *)
(***************************************************************************)
EXTENDS Integers, FiniteSets, FiniteSetsExt

CONSTANTS
    FundBatches,      \* batch jobs
    Calls,        \* realtime contracts
    Grants,       \* values of buyers.free_credit_usd
    Npm,          \* NanosPerMicro
    JobReserve,   \* reserved_buyer_charge_usd of a batch job
    FundPremium,      \* sla_premium_usd, part of the reserve
    CallCeiling,  \* accepted_ceiling_nanos of a contract
    EnvelopeCap,  \* cap_nanos
    LeaseReserve, \* reserved_buyer_micros of the lease
    TopUp,        \* received amount of a top-up
    MaxTopUps     \* bound: top-ups the buyer makes

ASSUME FundingConstants ==
    /\ IsFiniteSet(FundBatches) /\ IsFiniteSet(Calls) /\ Grants \subseteq Nat
    /\ Npm \in Nat \ {0} /\ JobReserve \in Nat \ {0} /\ FundPremium \in 0..JobReserve
    /\ CallCeiling \in Nat \ {0} /\ EnvelopeCap \in Nat \ {0}
    /\ LeaseReserve \in Nat \ {0} /\ TopUp \in Nat \ {0} /\ MaxTopUps \in Nat

VARIABLES
    grant,     \* buyers.free_credit_usd
    balance,   \* buyer_prepaid_balances.balance_micros
    spent,     \* ledger: buyer_charge less buyer_refund
    debited,   \* ledger: prepaid_debit less prepaid_restore
    cashIn,    \* ledger: prepaid_topup, prepaid_refund and prepaid_balance_return
    topUps,    \* top-ups made
    bfBatch,     \* jobs.status, with the rail while the job is live
    rail,      \* prepaid_required
    bfCharged,   \* buyer_charge of the job's tasks
    bfPremium,   \* "none", "charged", "returned": the SLA premium
    refunded,  \* jobs and contracts whose charge was refunded
    bfCall,      \* execution_contracts.state
    bfFee,       \* its buyer_charge
    covered,   \* the part of the fee the grant paid
    spend,     \* execution_envelope_spends.state, "none" without a row
    envelope,  \* execution_envelopes.state
    envSpent, envReserved,  \* spent_nanos, reserved_nanos
    lease      \* service_leases.state

ledgerVars == <<spent, debited, cashIn>>
bfBatchVars == <<bfBatch, rail, bfCharged, bfPremium>>
callVars == <<bfCall, bfFee, covered>>
envVars == <<spend, envelope, envSpent, envReserved>>
fundingVars == <<grant, balance, ledgerVars, topUps, bfBatchVars, refunded, callVars, envVars, lease>>

FundingInit ==
    /\ grant \in Grants
    /\ balance = 0 /\ spent = 0 /\ debited = 0 /\ cashIn = 0 /\ topUps = 0
    /\ bfBatch = [j \in FundBatches |-> "none"]
    /\ rail = [j \in FundBatches |-> "none"]
    /\ bfCharged = [j \in FundBatches |-> 0]
    /\ bfPremium = [j \in FundBatches |-> "none"]
    /\ refunded = {}
    /\ bfCall = [c \in Calls |-> "none"]
    /\ bfFee = [c \in Calls |-> 0]
    /\ covered = [c \in Calls |-> 0]
    /\ spend = [c \in Calls |-> "none"]
    /\ envelope = "none" /\ envSpent = 0 /\ envReserved = 0
    /\ lease = "none"

-----------------------------------------------------------------------------
(* Rounding, and what is still open.                                         *)

\* ceilNanosToMicros
CeilOver(n) == IF n <= 0 THEN 0 ELSE (n + Npm - 1) \div Npm

\* LedgerMicrosFromNanos: half away from zero, and at least one micro.
LedgerMicros(n) ==
    LET whole == (n \div Npm) + (IF 2 * (n % Npm) >= Npm THEN 1 ELSE 0)
    IN  IF whole = 0 /\ n > 0 THEN 1 ELSE whole

AtLeastZero(n) == IF n < 0 THEN 0 ELSE n
AtMost(n, bound) == IF n > bound THEN bound ELSE n

\* Prepaid debits of a job: its tasks and its SLA premium.
JobDebits(j) ==
    IF rail[j] # "prepaid" THEN 0
    ELSE bfCharged[j] + (IF bfPremium[j] = "none" THEN 0 ELSE FundPremium)
JobResidual(r) ==
    SumFunctionOnSet([j \in FundBatches |-> AtLeastZero(JobReserve - JobDebits(j))],
                     {j \in FundBatches : bfBatch[j] = "live" /\ rail[j] = r})
LeaseHold == IF lease = "ACTIVE" THEN LeaseReserve ELSE 0
EnvelopeRemaining == IF envelope = "ACTIVE" THEN CeilOver(EnvelopeCap - envSpent) ELSE 0
\* Mutant: a hold on an envelope that expired no longer counts.
OrphanSpend_Dropped == 0
OrphanSpend ==
    IF envelope = "ACTIVE" THEN 0
    ELSE CeilOver(CallCeiling) *
           Cardinality({c \in Calls : bfCall[c] = "EXECUTING" /\ spend[c] = "RESERVED"})
\* sqlBuyerOpenExposureMicros
OpenExposure == JobResidual("prepaid") + LeaseHold + EnvelopeRemaining + OrphanSpend

ExecutingHold ==
    CeilOver(CallCeiling) *
      Cardinality({c \in Calls : bfCall[c] = "EXECUTING" /\ spend[c] = "none"})

\* sqlBuyerCommittedMoneyMicros
Committed == OpenExposure + JobResidual("free") + ExecutingHold

\* What reservePrepaidForJobTx and the admin refund may use.
PrepaidAvailable == balance - OpenExposure - ExecutingHold

\* evaluateRealtimeBuyerFunding
RealtimeAvailable == grant + balance - spent + debited - Committed

\* reserveFreeCreditForJobTx
FreeCreditAvailable == grant - spent - Committed

-----------------------------------------------------------------------------
(* Moving money.                                                             *)

\* debitPrepaidForTaskTx, debitPrepaidByRefTx, debitPrepaidForSLAPremiumTx
Debit(n) ==
    /\ balance >= n
    /\ balance' = balance - n
    /\ debited' = debited + n
\* restorePrepaidForTaskDebitTx, restorePrepaidByDebitRefTx
Restore(n) ==
    /\ balance' = balance + n
    /\ debited' = debited - n

\* CreditPrepaidTopup
TopUpBalance ==
    /\ topUps < MaxTopUps
    /\ topUps' = topUps + 1
    /\ balance' = balance + TopUp
    /\ cashIn' = cashIn + TopUp
    /\ UNCHANGED <<grant, spent, debited, bfBatchVars, refunded, callVars, envVars, lease>>

\* BeginPrepaidRefund of everything that is available.
WithdrawPrepaid ==
    /\ PrepaidAvailable > 0
    /\ balance' = balance - PrepaidAvailable
    /\ cashIn' = cashIn - PrepaidAvailable
    /\ UNCHANGED <<grant, spent, debited, topUps, bfBatchVars, refunded, callVars, envVars, lease>>

-----------------------------------------------------------------------------
(* Batch jobs.                                                               *)

AdmitJob(j, r) ==
    /\ bfBatch[j] = "none"
    /\ bfBatch' = [bfBatch EXCEPT ![j] = "live"]
    /\ rail' = [rail EXCEPT ![j] = r]
    /\ UNCHANGED <<grant, balance, ledgerVars, topUps, bfCharged, bfPremium, refunded, callVars,
                   envVars, lease>>
SubmitPrepaid(j) == PrepaidAvailable >= JobReserve /\ AdmitJob(j, "prepaid")
SubmitFree(j) == FreeCreditAvailable >= JobReserve /\ AdmitJob(j, "free")

\* A task is settled: one micro is charged, within the economic reserve.
ChargeTask(j) ==
    /\ bfBatch[j] = "live"
    /\ bfCharged[j] < JobReserve - FundPremium
    /\ bfCharged' = [bfCharged EXCEPT ![j] = @ + 1]
    /\ spent' = spent + 1
    /\ IF rail[j] = "prepaid" THEN Debit(1) ELSE UNCHANGED <<balance, debited>>
    /\ UNCHANGED <<grant, cashIn, topUps, bfBatch, rail, bfPremium, refunded, callVars, envVars, lease>>

\* FinalizeJobComplete charges the SLA premium.
FundCompleteJob(j) ==
    /\ bfBatch[j] = "live"
    /\ bfBatch' = [bfBatch EXCEPT ![j] = "over"]
    /\ bfPremium' = [bfPremium EXCEPT ![j] = "charged"]
    /\ spent' = spent + FundPremium
    /\ IF rail[j] = "prepaid" THEN Debit(FundPremium) ELSE UNCHANGED <<balance, debited>>
    /\ UNCHANGED <<grant, cashIn, topUps, rail, bfCharged, refunded, callVars, envVars, lease>>

\* A job that fails or is cancelled leaves the query of open reservations.
AbandonJob(j) ==
    /\ bfBatch[j] = "live"
    /\ bfBatch' = [bfBatch EXCEPT ![j] = "over"]
    /\ UNCHANGED <<grant, balance, ledgerVars, topUps, rail, bfCharged, bfPremium, refunded, callVars,
                   envVars, lease>>

\* SettleJobSLA on a miss: prepaid_balance_return, outside spent and debited.
RefundPremium(j) ==
    /\ bfPremium[j] = "charged" /\ rail[j] = "prepaid"
    /\ bfPremium' = [bfPremium EXCEPT ![j] = "returned"]
    /\ balance' = balance + FundPremium
    /\ cashIn' = cashIn + FundPremium
    /\ UNCHANGED <<grant, spent, debited, topUps, bfBatch, rail, bfCharged, refunded, callVars, envVars,
                   lease>>

\* An upheld dispute refunds the tasks; each debit is restored once.
RefundJob(j) ==
    /\ bfBatch[j] = "over" /\ j \notin refunded
    /\ refunded' = refunded \cup {j}
    /\ spent' = spent - bfCharged[j]
    /\ IF rail[j] = "prepaid" THEN Restore(bfCharged[j]) ELSE UNCHANGED <<balance, debited>>
    /\ UNCHANGED <<grant, cashIn, topUps, bfBatchVars, callVars, envVars, lease>>

-----------------------------------------------------------------------------
(* Realtime contracts and the envelope.                                      *)

CreateEnvelope ==
    /\ envelope = "none"
    /\ RealtimeAvailable >= CeilOver(EnvelopeCap)
    /\ envelope' = "ACTIVE"
    /\ UNCHANGED <<grant, balance, ledgerVars, topUps, bfBatchVars, refunded, callVars, spend,
                   envSpent, envReserved, lease>>

\* ReleaseExpiredExecutionEnvelopes leaves the reserved spends alone.
ExpireEnvelope ==
    /\ envelope = "ACTIVE"
    /\ envelope' = "EXPIRED"
    /\ UNCHANGED <<grant, balance, ledgerVars, topUps, bfBatchVars, refunded, callVars, spend,
                   envSpent, envReserved, lease>>

Authorize(c) ==
    /\ bfCall[c] = "none"
    /\ RealtimeAvailable >= CeilOver(CallCeiling)
    /\ bfCall' = [bfCall EXCEPT ![c] = "EXECUTING"]
    /\ UNCHANGED <<grant, balance, ledgerVars, topUps, bfBatchVars, refunded, bfFee, covered, envVars,
                   lease>>

\* reserveEnvelopeSpendTx and bindEnvelopeSpendContractTx
WithinCap == envSpent + envReserved + CallCeiling <= EnvelopeCap
AuthorizeOnEnvelope(c) ==
    /\ bfCall[c] = "none"
    /\ envelope = "ACTIVE" /\ WithinCap
    /\ bfCall' = [bfCall EXCEPT ![c] = "EXECUTING"]
    /\ spend' = [spend EXCEPT ![c] = "RESERVED"]
    /\ envReserved' = envReserved + CallCeiling
    /\ UNCHANGED <<grant, balance, ledgerVars, topUps, bfBatchVars, refunded, bfFee, covered, envelope,
                   envSpent, lease>>

\* captureEnvelopeSpendTx
CaptureSpend(c, n) ==
    IF spend[c] = "none" THEN UNCHANGED envVars
    ELSE /\ spend[c] = "RESERVED"
         /\ spend' = [spend EXCEPT ![c] = "CAPTURED"]
         /\ envReserved' = envReserved - CallCeiling
         /\ envSpent' = envSpent + n
         /\ UNCHANGED envelope

\* releaseEnvelopeSpendForContractTx
ReleaseSpend(c) ==
    IF spend[c] # "RESERVED" THEN UNCHANGED envVars
    ELSE /\ spend' = [spend EXCEPT ![c] = "VOIDED"]
         /\ envReserved' = envReserved - CallCeiling
         /\ UNCHANGED <<envelope, envSpent>>

\* maybeDebitPrepaidForRealtimeTx: what the grant still pays of a charge.
GrantCover(charge) == AtMost(AtLeastZero(grant - spent), charge)

\* FinalizeRealtimeSuccess, for a metered cost of n nanos.
SettleCall(c, n) ==
    LET charge == LedgerMicros(n)
        free == GrantCover(charge)
    IN  /\ bfCall[c] = "EXECUTING"
        /\ bfCall' = [bfCall EXCEPT ![c] = "VERIFIED"]
        /\ bfFee' = [bfFee EXCEPT ![c] = charge]
        /\ covered' = [covered EXCEPT ![c] = free]
        /\ spent' = spent + charge
        /\ Debit(charge - free)
        /\ CaptureSpend(c, n)
        /\ UNCHANGED <<grant, cashIn, topUps, bfBatchVars, refunded, lease>>

\* FinalizeRealtimeFailure and RecoverStaleRealtimeContracts
FailCall(c) ==
    /\ bfCall[c] = "EXECUTING"
    /\ bfCall' = [bfCall EXCEPT ![c] = "FAILED"]
    /\ ReleaseSpend(c)
    /\ UNCHANGED <<grant, balance, ledgerVars, topUps, bfBatchVars, refunded, bfFee, covered, lease>>

\* RefundRealtimeContract restores the debit, the whole fee leaves spent.
RefundCall(c) ==
    /\ bfCall[c] = "VERIFIED" /\ c \notin refunded
    /\ refunded' = refunded \cup {c}
    /\ spent' = spent - bfFee[c]
    /\ Restore(bfFee[c] - covered[c])
    /\ UNCHANGED <<grant, cashIn, topUps, bfBatchVars, callVars, envVars, lease>>

-----------------------------------------------------------------------------
(* The service lease.                                                        *)

OpenLease ==
    /\ lease = "none"
    /\ PrepaidAvailable >= LeaseReserve
    /\ lease' = "ACTIVE"
    /\ UNCHANGED <<grant, balance, ledgerVars, topUps, bfBatchVars, refunded, callVars, envVars>>

\* The terminal charge, at most the reserve.
SettleLease(n) ==
    /\ lease = "ACTIVE"
    /\ lease' = "ENDED"
    /\ spent' = spent + n
    /\ Debit(n)
    /\ UNCHANGED <<grant, cashIn, topUps, bfBatchVars, refunded, callVars, envVars>>

FundingNext ==
    \/ TopUpBalance \/ WithdrawPrepaid
    \/ CreateEnvelope \/ ExpireEnvelope
    \/ OpenLease \/ \E n \in 1..LeaseReserve : SettleLease(n)
    \/ \E j \in FundBatches :
         \/ SubmitPrepaid(j) \/ SubmitFree(j) \/ ChargeTask(j) \/ FundCompleteJob(j)
         \/ AbandonJob(j) \/ RefundPremium(j) \/ RefundJob(j)
    \/ \E c \in Calls :
         \/ Authorize(c) \/ AuthorizeOnEnvelope(c) \/ FailCall(c) \/ RefundCall(c)
         \/ \E n \in 1..CallCeiling : SettleCall(c, n)

FundingSpec == FundingInit /\ [][FundingNext]_fundingVars

-----------------------------------------------------------------------------
(* Properties.                                                               *)

\* Every micro of the balance is accounted for: what came in, less what is
\* debited and not restored (creditPrepaidBalanceTx: a bare credit mints money).
BalanceMatchesLedger == balance = cashIn - debited /\ balance >= 0

\* An envelope never promises more than its cap, and its two counters are the
\* sums of its spends (execution_envelope.go).
EnvelopeAccounts ==
    /\ envReserved = CallCeiling * Cardinality({c \in Calls : spend[c] = "RESERVED"})
    /\ envSpent + envReserved <= EnvelopeCap
    /\ \A c \in Calls : spend[c] = "RESERVED" => bfCall[c] = "EXECUTING"

\* Without a grant the balance covers everything that was admitted against it,
\* up to the micro that rounding may take with each captured call: no order of
\* admissions, settlements, expiries and refunds leaves a hold uncovered.
HoldsCovered ==
    grant = 0 =>
      balance + Cardinality({c \in Calls : spend[c] = "CAPTURED"}) >= OpenExposure + ExecutingHold

\* Neither rail takes more out of the grant than there is.
GrantNotOverdrawn ==
    /\ SumFunctionOnSet(covered, Calls \ refunded) <= grant
    /\ SumFunctionOnSet(bfCharged, {j \in FundBatches \ refunded : rail[j] = "free"}) <= grant

\* The money of a buyer covers what was admitted against it, counter by counter, in
\* whatever order admissions, captures, expiries and refunds commit.
FundsCover ==
    /\ BalanceMatchesLedger /\ EnvelopeAccounts /\ HoldsCovered /\ GrantNotOverdrawn
=============================================================================
