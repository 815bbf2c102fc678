-------------------------- MODULE SupplierPayouts --------------------------
(***************************************************************************)
(* Paying suppliers for the tasks of one job: the payout sweep with its     *)
(* durable operations (store_payouts.go, workers.go), the recovery of cash  *)
(* already sent (store.go), buyer disputes (store_disputes.go), clawbacks   *)
(* by verification, and refunds and chargebacks of the buyer's payment      *)
(* (stripe_cash_events.go).                                                 *)
(*                                                                         *)
(* An entry is a supplier_credit row of ledger_entries; all belong to one   *)
(* job, one supplier and one collected payment.  Every action is one        *)
(* transaction, or one exchange with the payment provider.  A transaction   *)
(* that the lifecycle trigger or a check of the code aborts changes         *)
(* nothing; where it fails inside the sweep, the sweep ends.  Times are     *)
(* abstracted: a lease may have run out at any moment.                      *)
(***************************************************************************)
EXTENDS Integers, FiniteSets, FiniteSetsExt, Sequences, SequencesExt, Transitions

CONSTANTS
    Entries,     \* supplier credits of the job
    Sweeps,      \* processes that run releasePayouts
    Liability,   \* amount_usd of a credit, in micros
    Factor,      \* MicrosPerMinorUnit
    Received,    \* received_cents of the buyer's payment
    Disputes,    \* bound: disputes the buyer files
    CashEvents,  \* bound: refunds, chargebacks and reinstatements
    Target,      \* the credit of the task a dispute re-verifies
    SpMaxFaults,   \* bound: crashes, lost and refused requests
    SpNone

ASSUME PayoutConstants ==
    /\ IsFiniteSet(Entries) /\ SpNone \notin Entries /\ Target \in Entries
    /\ Liability \in [Entries -> Nat \ {0}] /\ Factor \in Nat \ {0}
    /\ Received \in Nat /\ Disputes \in Nat /\ CashEvents \in Nat /\ SpMaxFaults \in Nat

VARIABLES
    spPaid,      \* ledger_entries.payout_status
    standing,  \* credits whose task's outcome is still pass
    spCash,      \* supplier_minor_unit_settlements.cash_cents, Unsettled before the row
    accrued,   \* supplier_payout_accruals.accrued_microusd
    spOp,        \* supplier_payout_operations.status, "none" before the row
    unknown,   \* operations with outcome_unknown
    moved,     \* operations with cash_moved and a transfer reference
    fresh,     \* operations created within payoutIdempotencyRetryWindow
    funding,   \* supplier_payout_funding.amount_cents, 0 before the row
    reserved,  \* credits funded from the buyer's payment, oldest first
    impaired,  \* funding rows whose state is compromised
    ended,     \* the job is terminal: nothing more is judged
    spCharged,   \* the job's charge is confirmed
    lost,      \* cents of the payment refunded or charged back
    dispute,   \* disputes.status of the latest dispute, "none" before the first
    held,      \* its dispute_payout_holds
    sent,      \* provider: transfers made for a credit
    spKeyed,     \* provider: the transfer's idempotency key is remembered
    spLate,      \* provider: a request without an answer may still be executed
    returned,  \* provider: credits whose transfer was reversed
    spPhase,     \* where each sweep is
    todo,      \* credits it has claimed and not yet sent
    cur,       \* the credit the provider just answered about
    spAnswer,    \* what it said
    filed, events, spFaults

creditVars == <<spPaid, standing>>
accrualVars == <<spCash, accrued>>
spOpVars == <<spOp, unknown, moved, fresh>>
fundVars == <<funding, reserved, impaired>>
paymentVars == <<ended, spCharged, lost, events>>
disputeVars == <<dispute, held, filed>>
spProviderVars == <<sent, spKeyed, spLate, returned>>
sweepVars == <<spPhase, todo, cur, spAnswer>>
spVars == <<creditVars, accrualVars, spOpVars, fundVars, paymentVars, disputeVars,
          spProviderVars, sweepVars, spFaults>>

Unsettled == -1
ActiveDispute == dispute \in {"open", "no_peer", "reverifying", "unresolvable"}
InRecovery(e) == spPaid[e] \in {"reversal_required", "reversing"}

\* The lifecycle trigger on payout_status.
Legal(e, s) == spPaid[e] = s \/ <<spPaid[e], s>> \in PayoutEdges

SpInit ==
    /\ spPaid = [e \in Entries |-> "held"]
    /\ standing = Entries
    /\ spCash = [e \in Entries |-> Unsettled]
    /\ accrued = 0
    /\ spOp = [e \in Entries |-> "none"]
    /\ unknown = {} /\ moved = {} /\ fresh = {}
    /\ funding = [e \in Entries |-> 0]
    /\ reserved = << >> /\ impaired = {}
    /\ ended = FALSE /\ spCharged = FALSE /\ lost = 0 /\ events = 0
    /\ dispute = "none" /\ held = {} /\ filed = 0
    /\ sent = [e \in Entries |-> 0]
    /\ spKeyed = {} /\ spLate = {} /\ returned = {}
    /\ spPhase = [s \in Sweeps |-> "idle"]
    /\ todo = [s \in Sweeps |-> {}]
    /\ cur = [s \in Sweeps |-> SpNone]
    /\ spAnswer = [s \in Sweeps |-> "none"]
    /\ spFaults = 0

Free(s) == todo[s] = {} /\ cur[s] = SpNone
TakePayout(s, es) == todo' = [todo EXCEPT ![s] = es] /\ UNCHANGED <<spPhase, cur, spAnswer>>
\* The sweep is through with its credit and goes on.
PayoutDone(s) ==
    /\ cur' = [cur EXCEPT ![s] = SpNone]
    /\ spAnswer' = [spAnswer EXCEPT ![s] = "none"]
    /\ UNCHANGED <<spPhase, todo>>
\* The sweep returns an error, or its process dies.
Abort(s) ==
    /\ cur' = [cur EXCEPT ![s] = SpNone]
    /\ spAnswer' = [spAnswer EXCEPT ![s] = "none"]
    /\ todo' = [todo EXCEPT ![s] = {}]
    /\ spPhase' = [spPhase EXCEPT ![s] = "idle"]

\* releasePayouts goes through the recoveries, the operations with an unknown
\* outcome and, when nothing is waiting for recovery, the credits due.
Advance(s) ==
    /\ Free(s)
    /\ spPhase' = [spPhase EXCEPT ![s] =
         CASE spPhase[s] = "idle" -> "reverse"
           [] spPhase[s] = "reverse" -> "resolve"
           [] spPhase[s] = "resolve" -> IF \E e \in Entries : InRecovery(e) THEN "idle" ELSE "pay"
           [] spPhase[s] = "pay" -> "idle"]
    /\ UNCHANGED <<todo, cur, spAnswer, creditVars, accrualVars, spOpVars, fundVars, paymentVars,
                   disputeVars, spProviderVars, spFaults>>

-----------------------------------------------------------------------------
(* Claiming a credit.                                                        *)

\* accrueSupplierLiability: the whole minor units the carry and the credit make.
CashFor(e) == IF spCash[e] # Unsettled THEN spCash[e] ELSE (accrued + Liability[e]) \div Factor
Accrue(e) ==
    /\ spCash' = [spCash EXCEPT ![e] = CashFor(e)]
    /\ accrued' = IF spCash[e] # Unsettled THEN accrued ELSE (accrued + Liability[e]) % Factor

ReservedCash(es) == FoldSeq(LAMBDA e, n : n + funding[e], 0, es)

\* reservePayoutFunding on a credit without funding of its own.
HasRoom(e) == spCharged /\ CashFor(e) <= Received - lost - ReservedCash(reserved)
\* Mutant: funding is not looked at again once it is reserved.
Funded_Once(e) == funding[e] > 0 \/ HasRoom(e)
Funded(e) == IF funding[e] > 0 THEN e \notin impaired ELSE HasRoom(e)
Mismatched(e) == funding[e] > 0 /\ funding[e] # CashFor(e)
Reserve(e) ==
    IF funding[e] > 0
    THEN UNCHANGED fundVars
    ELSE /\ funding' = [funding EXCEPT ![e] = CashFor(e)]
         /\ reserved' = Append(reserved, e)
         /\ UNCHANGED impaired

PayoutClaimable(e) ==
    /\ ~ActiveDispute
    /\ spPaid[e] \in {"held", "ready", "awaiting_funding"}
    /\ e \in standing

ClaimPayout(s, e) ==
    /\ spPhase[s] = "pay" /\ Free(s)
    /\ PayoutClaimable(e)
    /\ \/ /\ CashFor(e) = 0 /\ spPaid[e] = "held"
          /\ Accrue(e)
          /\ spPaid' = [spPaid EXCEPT ![e] = "carried"]
          /\ UNCHANGED <<standing, spOpVars, fundVars, sweepVars>>
       \/ /\ CashFor(e) > 0
          /\ Mismatched(e) \/ (Funded(e) /\ spOp[e] \notin {"none", "ready"})
          /\ Abort(s)
          /\ UNCHANGED <<creditVars, accrualVars, spOpVars, fundVars>>
       \/ /\ CashFor(e) > 0 /\ ~Mismatched(e) /\ ~Funded(e)
          /\ Accrue(e)
          /\ spPaid' = [spPaid EXCEPT ![e] = "awaiting_funding"]
          /\ UNCHANGED <<standing, spOpVars, fundVars, sweepVars>>
       \/ /\ CashFor(e) > 0 /\ ~Mismatched(e) /\ Funded(e)
          /\ spOp[e] \in {"none", "ready"}
          /\ Accrue(e)
          /\ Reserve(e)
          /\ spOp' = [spOp EXCEPT ![e] = "sending"]
          /\ fresh' = IF spOp[e] = "none" THEN fresh \cup {e} ELSE fresh
          /\ spPaid' = [spPaid EXCEPT ![e] = "sending"]
          /\ TakePayout(s, {e})
          /\ UNCHANGED <<standing, unknown, moved>>
    /\ UNCHANGED <<paymentVars, disputeVars, spProviderVars, spFaults>>

RecoverStale(s, e) ==
    /\ spPhase[s] = "resolve" /\ Free(s)
    /\ spOp[e] = "sending" /\ spPaid[e] = "sending" /\ e \notin moved
    /\ spOp' = [spOp EXCEPT ![e] = "outcome_unknown"]
    /\ spPaid' = [spPaid EXCEPT ![e] = "outcome_unknown"]
    /\ unknown' = unknown \cup {e}
    /\ UNCHANGED <<standing, moved, fresh, accrualVars, fundVars, paymentVars, disputeVars,
                   spProviderVars, sweepVars, spFaults>>

\* Mutant: an unknown outcome is retried however old its key is.
ClaimOutcomeUnknown_AnyAge(s) ==
    /\ spPhase[s] = "resolve" /\ Free(s)
    /\ \E es \in SUBSET {e \in unknown \ (moved \cup impaired) :
                            spOp[e] \in {"outcome_unknown", "reversal_required"}} \ {{}} : TakePayout(s, es)
    /\ UNCHANGED <<creditVars, accrualVars, spOpVars, fundVars, paymentVars, disputeVars,
                   spProviderVars, spFaults>>
ClaimOutcomeUnknown(s) ==
    LET due == {e \in unknown \ (moved \cup impaired) :
                  /\ e \in fresh
                  /\ {spOp[e], spPaid[e]} \subseteq {"outcome_unknown", "reversal_required"}} IN
    /\ spPhase[s] = "resolve" /\ Free(s)
    /\ \E es \in SUBSET due \ {{}} : TakePayout(s, es)
    /\ UNCHANGED <<creditVars, accrualVars, spOpVars, fundVars, paymentVars, disputeVars,
                   spProviderVars, spFaults>>

-----------------------------------------------------------------------------
(* The payment provider.                                                     *)

Sends(s, e) == spPhase[s] \in {"resolve", "pay"} /\ cur[s] = SpNone /\ e \in todo[s]
Hears(s, e, a) ==
    /\ todo' = [todo EXCEPT ![s] = @ \ {e}]
    /\ cur' = [cur EXCEPT ![s] = e]
    /\ spAnswer' = [spAnswer EXCEPT ![s] = a]
    /\ UNCHANGED spPhase
SpFault == spFaults < SpMaxFaults /\ spFaults' = spFaults + 1

\* A transfer is made once per remembered idempotency key.
Transfer(e) ==
    /\ sent' = IF e \in spKeyed THEN sent ELSE [sent EXCEPT ![e] = @ + 1]
    /\ spKeyed' = spKeyed \cup {e}

SendAnswered(s, e) ==
    /\ Sends(s, e)
    /\ Transfer(e)
    /\ Hears(s, e, "ok")
    /\ UNCHANGED <<spLate, returned, spFaults>>

SendLost(s, e) ==
    /\ Sends(s, e) /\ SpFault
    /\ \/ Transfer(e) /\ UNCHANGED spLate
       \/ spLate' = spLate \cup {e} /\ UNCHANGED <<sent, spKeyed>>
    /\ Hears(s, e, "unknown")
    /\ UNCHANGED returned

SendRefused(s, e) ==
    /\ Sends(s, e) /\ SpFault
    /\ Hears(s, e, "refused")
    /\ UNCHANGED spProviderVars

LateTransfer(e) ==
    /\ e \in spLate
    /\ Transfer(e)
    /\ spLate' = spLate \ {e}
    /\ UNCHANGED <<returned, sweepVars, spFaults>>

\* The key outlives the retry window and every request made within it.
ForgetKey(e) ==
    /\ e \in spKeyed \ (fresh \cup spLate)
    /\ \A s \in Sweeps : e \notin todo[s]
    /\ spKeyed' = spKeyed \ {e}
    /\ UNCHANGED <<sent, spLate, returned, sweepVars, spFaults>>

Reverses(s, e) == spPhase[s] = "reverse" /\ cur[s] = SpNone /\ e \in todo[s]

ReverseAnswered(s, e) ==
    /\ Reverses(s, e)
    /\ returned' = returned \cup {e}
    /\ Hears(s, e, "ok")
    /\ UNCHANGED <<sent, spKeyed, spLate, spFaults>>

ReverseFailed(s, e) ==
    /\ Reverses(s, e) /\ SpFault
    /\ returned' \in {returned, returned \cup {e}}
    /\ Hears(s, e, "unknown")
    /\ UNCHANGED <<sent, spKeyed, spLate>>

Provider ==
    /\ \E e \in Entries :
          \/ LateTransfer(e) \/ ForgetKey(e)
          \/ \E s \in Sweeps : \/ SendAnswered(s, e) \/ SendLost(s, e) \/ SendRefused(s, e)
                              \/ ReverseAnswered(s, e) \/ ReverseFailed(s, e)
    /\ UNCHANGED <<creditVars, accrualVars, spOpVars, fundVars, paymentVars, disputeVars>>

-----------------------------------------------------------------------------
(* Recording the provider's answer to a transfer.                            *)

\* FinalizePayout of a transfer that moved cash.
FinalStatus(e) ==
    IF {spPaid[e], spOp[e]} \cap {"reversal_required", "clawed_back"} # {}
    THEN "reversal_required" ELSE "released"
PayoutFinalizable(e) ==
    /\ \/ FinalStatus(e) = "reversal_required"
       \/ spPaid[e] = spOp[e] /\ spPaid[e] \in {"sending", "outcome_unknown"}
    /\ Legal(e, FinalStatus(e))
    /\ FinalStatus(e) = "released" => ~ActiveDispute

FinalizePayout(s) ==
    LET e == cur[s] IN
    /\ spPhase[s] \in {"resolve", "pay"} /\ spAnswer[s] = "ok"
    /\ \/ /\ PayoutFinalizable(e)
          /\ spOp' = [spOp EXCEPT ![e] = FinalStatus(e)]
          /\ spPaid' = [spPaid EXCEPT ![e] = FinalStatus(e)]
          /\ moved' = moved \cup {e}
          /\ unknown' = unknown \ {e}
          /\ UNCHANGED <<standing, fresh>>
          /\ PayoutDone(s)
       \/ /\ ~PayoutFinalizable(e)
          /\ Abort(s)
          /\ UNCHANGED <<creditVars, spOpVars>>

Unresolved(s) ==
    \/ spPhase[s] \in {"resolve", "pay"} /\ spAnswer[s] = "unknown"
    \/ spPhase[s] = "resolve" /\ spAnswer[s] = "refused"
Unknowable(e) ==
    e \notin moved /\ spPaid[e] \in {"sending", "outcome_unknown", "reversal_required"}

MarkPayoutOutcomeUnknown(s) ==
    LET e == cur[s]
        next == IF "reversal_required" \in {spPaid[e], spOp[e]} THEN "reversal_required"
                ELSE "outcome_unknown" IN
    /\ Unresolved(s)
    /\ \/ /\ Unknowable(e) /\ Legal(e, next)
          /\ spOp' = [spOp EXCEPT ![e] = next]
          /\ spPaid' = [spPaid EXCEPT ![e] = next]
          /\ unknown' = unknown \cup {e}
          /\ UNCHANGED <<standing, moved, fresh>>
          /\ PayoutDone(s)
       \/ /\ ~(Unknowable(e) /\ Legal(e, next))
          /\ Abort(s)
          /\ UNCHANGED <<creditVars, spOpVars>>

\* DeferPayout: only a credit still held by this attempt goes back to ready.
Deferrable(e) ==
    \/ spPaid[e] = "sending"
    \/ spPaid[e] = "reversal_required" /\ spOp[e] = "reversal_required" /\ ~ActiveDispute

DeferPayout(s) ==
    LET e == cur[s] IN
    /\ spPhase[s] = "pay" /\ spAnswer[s] = "refused"
    /\ \/ /\ e \in moved \/ (e \in unknown /\ spPaid[e] # "reversal_required")
          /\ Abort(s)
          /\ UNCHANGED <<creditVars, spOpVars>>
       \/ /\ e \notin moved /\ (e \in unknown => spPaid[e] = "reversal_required")
          /\ IF e \notin unknown /\ Deferrable(e)
             THEN /\ spOp' = [spOp EXCEPT ![e] = IF @ \in {"sending", "reversal_required"} THEN "ready" ELSE @]
                  /\ spPaid' = [spPaid EXCEPT ![e] = "ready"]
                  /\ UNCHANGED <<standing, unknown, moved, fresh>>
             ELSE UNCHANGED <<creditVars, spOpVars>>
          /\ PayoutDone(s)

RecordAnswer ==
    /\ \E s \in Sweeps : FinalizePayout(s) \/ MarkPayoutOutcomeUnknown(s) \/ DeferPayout(s)
    /\ UNCHANGED <<accrualVars, fundVars, paymentVars, disputeVars, spProviderVars, spFaults>>

-----------------------------------------------------------------------------
(* Recovering cash.                                                          *)

ClaimReversals(s) ==
    LET due == {e \in moved :
                  /\ InRecovery(e)
                  /\ spOp[e] = "reversing" \/ (spOp[e] = "reversal_required" /\ ~ActiveDispute)} IN
    /\ spPhase[s] = "reverse" /\ Free(s)
    /\ \E es \in SUBSET due \ {{}} :
          /\ spOp' = [e \in Entries |-> IF e \in es THEN "reversing" ELSE spOp[e]]
          /\ spPaid' = [e \in Entries |-> IF e \in es THEN "reversing" ELSE spPaid[e]]
          /\ TakePayout(s, es)
    /\ UNCHANGED <<standing, unknown, moved, fresh, accrualVars, fundVars, paymentVars,
                   disputeVars, spProviderVars, spFaults>>

ReversalFinal(e) == spPaid[e] = "reversing" /\ spOp[e] = "reversing"

\* MarkReversalFailed, also after a FinalizeReversal that found another state.
ReversalFailed(s) ==
    LET e == cur[s] IN
    IF "reversed" \in {spPaid[e], spOp[e]}
    THEN PayoutDone(s) /\ UNCHANGED <<creditVars, spOpVars>>
    ELSE IF InRecovery(e)
         THEN /\ spOp' = [spOp EXCEPT ![e] = IF @ \in {"reversing", "reversal_required"}
                                             THEN "reversal_required" ELSE @]
              /\ spPaid' = [spPaid EXCEPT ![e] = "reversal_required"]
              /\ PayoutDone(s)
              /\ UNCHANGED <<standing, unknown, moved, fresh>>
         ELSE Abort(s) /\ UNCHANGED <<creditVars, spOpVars>>

FinalizeReversal(s) ==
    LET e == cur[s] IN
    /\ spPhase[s] = "reverse" /\ spAnswer[s] # "none"
    /\ IF spAnswer[s] = "ok" /\ ReversalFinal(e)
       THEN /\ spOp' = [spOp EXCEPT ![e] = "reversed"]
            /\ spPaid' = [spPaid EXCEPT ![e] = "reversed"]
            /\ unknown' = unknown \ {e}
            /\ PayoutDone(s)
            /\ UNCHANGED <<standing, moved, fresh>>
       ELSE ReversalFailed(s)
    /\ UNCHANGED <<accrualVars, fundVars, paymentVars, disputeVars, spProviderVars, spFaults>>

SpCrash(s) ==
    /\ spPhase[s] # "idle" /\ SpFault
    /\ Abort(s)
    /\ UNCHANGED <<creditVars, accrualVars, spOpVars, fundVars, paymentVars, disputeVars,
                   spProviderVars>>

-----------------------------------------------------------------------------
(* The buyer's payment.                                                      *)

\* The job ends; its charge is confirmed and unblocks the credits.
EndJob ==
    /\ ~ended
    /\ ended' = TRUE
    /\ UNCHANGED <<creditVars, spCharged, lost, events, spOpVars, fundVars>>

ConfirmCharge ==
    /\ ended /\ ~spCharged
    /\ spCharged' = TRUE
    /\ spPaid' = [e \in Entries |-> IF spPaid[e] = "awaiting_funding" THEN "held" ELSE spPaid[e]]
    /\ UNCHANGED <<standing, ended, lost, events, spOpVars, fundVars>>

\* recomputeStripeCollectionFunding: the latest reservations lose their cash first.
Exposed(available) ==
    {reserved[i] : i \in {j \in 1..Len(reserved) : ReservedCash(SubSeq(reserved, 1, j)) > available}}

CashEvent(unavailable) ==
    LET hit == Exposed(Received - unavailable)
        reversals == {e \in hit : /\ spOp[e] # "reversed"
                                  /\ e \in moved \cup unknown \/ spOp[e] = "sending"}
        targets == reversals \cup {e \in hit : spOp[e] = "reversal_required"} IN
    /\ spCharged /\ events < CashEvents
    /\ \A e \in targets : Legal(e, "reversal_required")
    /\ lost' = unavailable
    /\ events' = events + 1
    /\ impaired' = hit
    /\ spOp' = [e \in Entries |-> IF e \in reversals THEN "reversal_required" ELSE spOp[e]]
    /\ spPaid' = [e \in Entries |-> IF e \in targets THEN "reversal_required" ELSE spPaid[e]]
    /\ UNCHANGED <<ended, spCharged, standing, unknown, moved, fresh, funding, reserved>>

Payment ==
    /\ EndJob \/ ConfirmCharge \/ \E n \in 0..Received : CashEvent(n)
    /\ UNCHANGED <<accrualVars, disputeVars, spProviderVars, sweepVars, spFaults>>

-----------------------------------------------------------------------------
(* Operators and verification.                                               *)

\* AuthorizePayoutSubsidy funds the credit's own liability.
AuthorizeSubsidy(e) ==
    /\ spPaid[e] \in {"held", "ready", "awaiting_funding"}
    /\ funding[e] = 0 /\ Liability[e] \div Factor > 0
    /\ funding' = [funding EXCEPT ![e] = Liability[e] \div Factor]
    /\ spPaid' = [spPaid EXCEPT ![e] = IF @ = "awaiting_funding" THEN "held" ELSE @]
    /\ UNCHANGED <<standing, reserved, impaired, spOpVars>>

ReleasePayout(e) ==
    /\ spPaid[e] = "ready"
    /\ spPaid' = [spPaid EXCEPT ![e] = "held"]
    /\ UNCHANGED <<standing, fundVars, spOpVars>>

\* What taking a credit back makes of it.
TakenBack(e) ==
    IF \/ e \in moved \cup unknown
       \/ spPaid[e] \in {"sending", "outcome_unknown", "released", "reversal_required"}
    THEN "reversal_required" ELSE "clawed_back"

\* clawbackTaskCreditTx, before the job ends.
Clawback(e) ==
    /\ ~ended /\ e \in standing
    /\ Legal(e, TakenBack(e))
    /\ standing' = standing \ {e}
    /\ spPaid' = [spPaid EXCEPT ![e] = TakenBack(e)]
    /\ spOp' = [spOp EXCEPT ![e] = IF @ = "none" THEN @ ELSE TakenBack(e)]
    /\ UNCHANGED <<unknown, moved, fresh, fundVars>>

\* payoutIdempotencyRetryWindow runs out.
CloseWindow(e) ==
    /\ e \in fresh
    /\ fresh' = fresh \ {e}
    /\ UNCHANGED <<creditVars, spOp, unknown, moved, fundVars>>

Outside ==
    /\ \E e \in Entries : AuthorizeSubsidy(e) \/ ReleasePayout(e) \/ Clawback(e) \/ CloseWindow(e)
    /\ UNCHANGED <<accrualVars, paymentVars, disputeVars, spProviderVars, sweepVars, spFaults>>

-----------------------------------------------------------------------------
(* Disputes.                                                                 *)

RecordDispute ==
    LET inflight == {e \in Entries : spPaid[e] \in {"sending", "outcome_unknown"}} IN
    /\ ended /\ ~ActiveDispute /\ filed < Disputes
    /\ filed' = filed + 1
    /\ dispute' = "open"
    /\ held' = {e \in Entries : spPaid[e] \notin {"released", "clawed_back", "reversal_required"}}
    /\ spPaid' = [e \in Entries |-> IF e \in inflight THEN "reversal_required" ELSE spPaid[e]]
    /\ spOp' = [e \in Entries |-> IF e \in inflight THEN "reversal_required" ELSE spOp[e]]
    /\ unknown' = unknown \cup inflight
    /\ UNCHANGED <<standing, moved, fresh>>

\* No target, or no peer within the bound: the operator queue.
Park ==
    /\ dispute = "open"
    /\ dispute' = "unresolvable"
    /\ UNCHANGED <<held, filed, creditVars, spOpVars>>

\* resolveDisputeInTx, upheld: every credit of the job is taken back.
Upheld(e) == IF spPaid[e] \in {"clawed_back", "reversal_required"} THEN spPaid[e] ELSE TakenBack(e)
CanUphold == \A e \in Entries : Legal(e, Upheld(e))
Uphold ==
    LET recovering == {e \in held \ moved : spOp[e] # "none" /\ Upheld(e) = "reversal_required"} IN
    /\ CanUphold
    /\ dispute' = "upheld"
    /\ standing' = {}
    /\ spPaid' = [e \in Entries |-> Upheld(e)]
    /\ spOp' = [e \in Entries |-> IF spOp[e] = "none" THEN "none" ELSE Upheld(e)]
    /\ unknown' = unknown \cup recovering
    /\ UNCHANGED <<held, filed, moved, fresh>>

\* reconcileDisputePayoutHoldsTx, rejected: what the filing froze goes on.
CanReject ==
    \A e \in held : IF spOp[e] = "none" THEN ~InRecovery(e)
                    ELSE {spPaid[e], spOp[e]} \cap {"reversing", "reversed"} = {}
Reject ==
    LET kept == {e \in held \ impaired : e \in moved}
        retried == {e \in held \ moved : spOp[e] # "none"}
        Rearmed(e, s) == CASE s # "reversal_required" -> s
                           [] e \in kept -> "released"
                           [] e \in retried -> "outcome_unknown"
                           [] OTHER -> s IN
    /\ CanReject
    /\ dispute' = "rejected"
    /\ spPaid' = [e \in Entries |-> Rearmed(e, spPaid[e])]
    /\ spOp' = [e \in Entries |-> Rearmed(e, spOp[e])]
    /\ unknown' = unknown \cup {e \in retried : spOp[e] = "reversal_required"}
    /\ UNCHANGED <<standing, held, filed, moved, fresh>>

\* The sweep decides by the target's clawback; an operator decides the parked ones.
ResolveDispute ==
    \/ dispute = "open" /\ Target \notin standing /\ Uphold
    \/ dispute = "open" /\ Target \in standing /\ Reject
    \/ dispute = "unresolvable" /\ (Uphold \/ Reject)

Dispute ==
    /\ RecordDispute \/ Park \/ ResolveDispute
    /\ UNCHANGED <<accrualVars, fundVars, paymentVars, spProviderVars, sweepVars, spFaults>>

-----------------------------------------------------------------------------
PayoutSweep(s) ==
    \/ Advance(s)
    \/ \E e \in Entries : ClaimPayout(s, e) \/ RecoverStale(s, e)
    \/ ClaimOutcomeUnknown(s) \/ ClaimReversals(s) \/ FinalizeReversal(s) \/ SpCrash(s)

SpNext ==
    \/ \E s \in Sweeps : PayoutSweep(s)
    \/ RecordAnswer \/ Provider \/ Payment \/ Outside \/ Dispute

SpSpec == SpInit /\ [][SpNext]_spVars

-----------------------------------------------------------------------------
PayoutStatus == {"held", "awaiting_funding", "ready", "sending", "outcome_unknown", "released",
                 "carried", "clawed_back", "reversal_required", "reversing", "reversed"}
\* Statuses stay in their enumerations, the carry is less than one minor unit
\* and an operation never both moved cash and is of unknown outcome.
PayoutTypeOK ==
    /\ spPaid \in [Entries -> PayoutStatus]
    /\ spOp \in [Entries -> {"none", "ready", "sending", "outcome_unknown", "released", "clawed_back",
                           "reversal_required", "reversing", "reversed"}]
    /\ standing \cup unknown \cup moved \cup fresh \cup impaired \cup held \subseteq Entries
    /\ spKeyed \cup spLate \cup returned \subseteq Entries
    /\ accrued \in 0..(Factor - 1)
    /\ lost \in 0..Received
    /\ unknown \cap moved = {}
    /\ spPhase \in [Sweeps -> {"idle", "reverse", "resolve", "pay"}]
    /\ todo \in [Sweeps -> SUBSET Entries]
    /\ cur \in [Sweeps -> Entries \cup {SpNone}]

\* A credit is paid at most once, whatever is retried: a lost answer, a stale
\* claim another sweep recovers, a transfer the provider executes late.  The
\* idempotency key protects a retry only within payoutIdempotencyRetryWindow.
CashOnce == \A e \in Entries : sent[e] <= 1

\* "Cash that actually moved is released on rejection only when no independent
\* Stripe funding impairment still requires recovery": what is paid out of the
\* buyer's payment and not being recovered is covered by what is left of it.
ReleasedIsBacked ==
    ReservedCash(SelectSeq(reserved, LAMBDA e : spPaid[e] = "released")) <= Received - lost

\* A refund or a chargeback pulls the credits it exposes into recovery, wherever
\* their payout is, and none of them is released afterwards; only an attempt that
\* the rejection of a dispute armed again is finalized without a look at funding.
BackedUnlessRejected ==
    [][\A e \in impaired' : spPaid'[e] = "released" =>
         dispute' = "rejected" \/ spPaid[e] = "released"]_spVars

\* accrueSupplierLiability loses no fraction of a cent and counts none twice:
\* what suppliers earned is what was cut into cash plus the carry.
RoundingKept ==
    LET settled == {e \in Entries : spCash[e] # Unsettled} IN
    MapThenSumSet(LAMBDA e : Liability[e], settled)
      = accrued + Factor * MapThenSumSet(LAMBDA e : spCash[e], settled)

\* Cash that reached a supplier for a credit taken back is under recovery or
\* returned, also when it arrives after the clawback, as long as no dispute was
\* rejected (a rejection releases what an earlier clawback was recovering).
TakenBackRecovered ==
    dispute # "rejected" =>
        \A e \in Entries \ standing : sent[e] > 0 /\ e \notin returned => InRecovery(e)

\* The operator can always decide a dispute of the operator queue against the
\* supplier, wherever the payouts are, unless a credit's cash was already
\* returned (the lifecycle trigger lets nothing leave reversed).
OperatorExit ==
    dispute = "unresolvable" /\ (\A e \in Entries : spPaid[e] # "reversed") => CanUphold

\* cash_moved is evidence: it is recorded only of transfers that were made.
EvidenceIsReal == \A e \in moved : sent[e] = 1

\* The payout of a credit comes out right under every loss of an answer, late transfer,
\* clawback and dispute: paid once, to the fraction of a cent, recorded only if it was
\* made, recovered if it was taken back, and never stuck in the operator queue.
PayoutsSettle ==
    /\ PayoutTypeOK
    /\ CashOnce /\ RoundingKept /\ TakenBackRecovered /\ OperatorExit /\ EvidenceIsReal
=============================================================================
