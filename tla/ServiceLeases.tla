---------------------------- MODULE ServiceLeases ----------------------------
(***************************************************************************)
(* Reserved warm services (service_leases.go, service_lease_pricing.go,    *)
(* service_lease_data_plane.go, service_lease_api.go): a buyer's order     *)
(* crosses the offer book of warm replicas, the lease freezes its price,   *)
(* worker heartbeats meter replica time cumulatively, a lost worker fails  *)
(* over to another one or ends the lease, and one terminal settlement      *)
(* charges the buyer and credits every supplier for its own share of the   *)
(* meter.                                                                  *)
(*                                                                         *)
(* A transaction that locks the lease row is one action; the recovery      *)
(* sweep reads its list first and acts on it later without looking at the  *)
(* heartbeat again.  New leases have minimum = maximum replicas            *)
(* (CreateServiceLease refuses anything else), here the constant Replicas. *)
(* Prepaid cover for the reservation is the subject of BuyerFunding.       *)
(***************************************************************************)
EXTENDS Integers, FiniteSets, Functions

CONSTANTS Leases,        \* orders; each becomes at most one lease
          Hosts,         \* workers with a warm offer, each its own supplier
          AskOf,         \* [Hosts -> nanos per replica-hour, supplier + residency]
          Spread,        \* control plane + contribution, nanos per replica-hour
          Hour,          \* ticks per hour: rates are rounded up per aggregate
          Npu,           \* nanos per ledger micro
          BuyerCeiling,  \* buyer_declared_ceiling_nanos of every order
          SlReplicas,      \* minimum_replicas = maximum_replicas
          Capacity,      \* maximum_warm_replicas of every offer
          LeaseTerm,     \* term_seconds in ticks
          Silence,       \* serviceLeaseHeartbeatTimeout in ticks
          SlHorizon,       \* the clock stops here; an order's term ends before
          NoHost

ASSUME LeaseAssumption ==
    /\ NoHost \notin Hosts
    /\ {Spread, Hour, Npu, BuyerCeiling, SlReplicas, Capacity, LeaseTerm} \subseteq Nat \ {0}
    /\ {Silence, SlHorizon} \subseteq Nat
    /\ AskOf \in [Hosts -> Nat \ {0}]

VARIABLES slNow,
          slPhase,      \* [Leases -> service_leases.state, "none" before the order]
          host,       \* [Leases -> worker_id / supplier_id]
          active,     \* [Leases -> active_replicas]
          ask,        \* [Leases -> the frozen all-in supplier rate]
          expires,    \* [Leases -> expires_at]
          metered,    \* [Leases -> last_metered_at]
          beat,       \* [Leases -> last_worker_heartbeat_at]
          worked,     \* [Leases -> [Hosts -> replica time of the supplier's meter rows]]
          payable,    \* [Leases -> [Hosts -> nanos of the supplier's meter rows]]
          credit,     \* [Leases -> [Hosts -> micros of the supplier_credit row, 0 if none]]
          slCharge,     \* [Leases -> micros of the buyer_charge row, 0 if none]
          offer,      \* [Hosts -> [open: READY and seen of late, available]]
          slStale,      \* ids the recovery sweep listed and has not acted on
          tenure,     \* [Leases -> [Hosts -> replica time the host held the lease]], history
          early       \* leases past their term that the last refresh of their host left out, history

leaseVars == <<slPhase, host, active, ask, expires, metered, beat, worked, payable,
               credit, slCharge, tenure>>
slVars == <<slNow, leaseVars, offer, slStale, early>>

Alive == {"ACTIVE", "UPGRADING"}
Standing == Alive \cup {"FAILOVER_REQUIRED"}
LeaseEnded == {"COMPLETED", "CANCELLED"}

SLInit ==
    /\ slNow = 0
    /\ slPhase = [l \in Leases |-> "none"]
    /\ host = [l \in Leases |-> NoHost]
    /\ active = [l \in Leases |-> 0]
    /\ ask = [l \in Leases |-> 0]
    /\ expires = [l \in Leases |-> 0]
    /\ metered = [l \in Leases |-> 0]
    /\ beat = [l \in Leases |-> 0]
    /\ worked = [l \in Leases |-> [h \in Hosts |-> 0]]
    /\ payable = [l \in Leases |-> [h \in Hosts |-> 0]]
    /\ credit = [l \in Leases |-> [h \in Hosts |-> 0]]
    /\ slCharge = [l \in Leases |-> 0]
    /\ offer = [h \in Hosts |-> [open |-> FALSE, available |-> 0]]
    /\ slStale = {}
    /\ tenure = [l \in Leases |-> [h \in Hosts |-> 0]]
    /\ early = {}

LeaseTotal(f) == FoldFunction(LAMBDA a, b : a + b, 0, f)

-----------------------------------------------------------------------------
(* The price of an aggregate replica time: every component is rounded up    *)
(* once, and the buyer's charge is their sum.                               *)

Component(rate, time) == (rate * time + Hour - 1) \div Hour
SupplierPayable(l, time) == IF time = 0 THEN 0 ELSE Component(ask[l], time)
BuyerCharge(l, time) == IF time = 0 THEN 0 ELSE SupplierPayable(l, time) + Component(Spread, time)

LeaseMicros(nanos) ==
    LET whole == nanos \div Npu + (IF 2 * (nanos % Npu) >= Npu THEN 1 ELSE 0)
    IN IF whole = 0 /\ nanos > 0 THEN 1 ELSE whole

\* newServiceLeasePricingDecision: the maximum of the term clears the ceiling.
Clears(h) ==
    Component(AskOf[h], SlReplicas * LeaseTerm) + Component(Spread, SlReplicas * LeaseTerm) <= BuyerCeiling

-----------------------------------------------------------------------------
(* Offers.  The worker refreshes its row; the replicas it may advertise are *)
(* bounded by what is reserved on it and by its measured residency.         *)

ReservedOn(h) ==
    SlReplicas * Cardinality({l \in Leases : host[l] = h /\ slPhase[l] \in Standing /\ expires[l] > slNow})

LeastOf(a, b) == IF a < b THEN a ELSE b

UpsertServiceLeaseOffer(h, ready, resident) ==
    /\ ReservedOn(h) <= Capacity
    /\ offer' = [offer EXCEPT ![h] =
           [open |-> ready,
            available |-> IF ready /\ resident THEN Capacity - ReservedOn(h) ELSE 0]]
    /\ early' = {l \in early : host[l] # h}
                \cup {l \in Leases : host[l] = h /\ slPhase[l] \in Standing /\ expires[l] <= slNow}
    /\ UNCHANGED <<slNow, leaseVars, slStale>>

\* An offer that is not refreshed within a tick is out of the book.
Selectable(h) == offer[h].open /\ offer[h].available >= SlReplicas

\* The order book in ask order: no selectable host that clears is cheaper.
Cheapest(h, eligible) == h \in eligible /\ \A k \in eligible : AskOf[h] <= AskOf[k]

TakeReplica(h) == offer' = [offer EXCEPT ![h].available = @ - SlReplicas]
GiveBack(h) == offer' = [offer EXCEPT ![h].available = LeastOf(Capacity, @ + SlReplicas)]

CreateServiceLease(l, h) ==
    /\ slPhase[l] = "none" /\ slNow + LeaseTerm <= SlHorizon
    /\ Cheapest(h, {k \in Hosts : Selectable(k) /\ Clears(k)})
    /\ slPhase' = [slPhase EXCEPT ![l] = "ACTIVE"]
    /\ host' = [host EXCEPT ![l] = h]
    /\ active' = [active EXCEPT ![l] = SlReplicas]
    /\ ask' = [ask EXCEPT ![l] = AskOf[h]]
    /\ expires' = [expires EXCEPT ![l] = slNow + LeaseTerm]
    /\ metered' = [metered EXCEPT ![l] = slNow]
    /\ beat' = [beat EXCEPT ![l] = slNow]
    /\ TakeReplica(h)
    /\ UNCHANGED <<slNow, worked, payable, credit, slCharge, slStale, tenure, early>>

-----------------------------------------------------------------------------
(* The meter: aggregate replica time through `at`, never past the expiry.   *)

Through(l, at) == LeastOf(at, expires[l])

Added(l, at) == IF Through(l, at) > metered[l] THEN active[l] * (Through(l, at) - metered[l]) ELSE 0
Aggregate(l, at) == LeaseTotal(worked[l]) + Added(l, at)

\* The supplier rows of the lease once it is metered through `at`: the growth
\* of the aggregate payable is booked to the supplier of the moment.
PayableThrough(l, at) ==
    [payable[l] EXCEPT ![host[l]] = @ + SupplierPayable(l, Aggregate(l, at)) - LeaseTotal(payable[l])]

Meter(l, at) ==
    /\ at >= metered[l]
    /\ BuyerCharge(l, Aggregate(l, at)) <= BuyerCeiling
    /\ metered' = [metered EXCEPT ![l] = IF Through(l, at) > @ THEN Through(l, at) ELSE @]
    /\ worked' = [worked EXCEPT ![l][host[l]] = @ + Added(l, at)]
    /\ payable' = [payable EXCEPT ![l] = PayableThrough(l, at)]

\* Mutant: the whole payable is credited to the lease's current supplier.
Credits_Current(l, rows) ==
    [h \in Hosts |-> IF h = host[l] THEN LeaseMicros(LeaseTotal(rows)) ELSE 0]
Credits(l, rows) == [h \in Hosts |-> LeaseMicros(rows[h])]

\* settleFinalServiceLeaseTx refuses an empty or an out-of-bounds projection.
Settleable(l, at) ==
    LET buyer == LeaseMicros(BuyerCharge(l, Aggregate(l, at)))
        paid == LeaseTotal(Credits(l, PayableThrough(l, at)))
    IN 0 < paid /\ paid <= buyer /\ buyer <= LeaseMicros(BuyerCeiling)

SettleFinal(l, at) ==
    /\ Settleable(l, at)
    /\ credit' = [credit EXCEPT ![l] = Credits(l, PayableThrough(l, at))]
    /\ slCharge' = [slCharge EXCEPT ![l] = LeaseMicros(BuyerCharge(l, Aggregate(l, at)))]

\* A cancellation without a metered interval settles nothing.
SettleOrNothing(l, at) ==
    IF Aggregate(l, at) > 0 THEN SettleFinal(l, at) ELSE UNCHANGED <<credit, slCharge>>

StopLease(l, state) ==
    /\ slPhase' = [slPhase EXCEPT ![l] = state]
    /\ active' = [active EXCEPT ![l] = 0]

-----------------------------------------------------------------------------
(* Worker heartbeats: every one meters through now before it is judged.     *)
(* Two of them are at least a tick apart.                                   *)

ReadyHeartbeat(l) ==
    /\ slPhase[l] \in Standing /\ slNow > beat[l]
    /\ Meter(l, slNow)
    /\ slPhase' = [slPhase EXCEPT ![l] = IF @ = "UPGRADING" THEN "ACTIVE" ELSE @]
    /\ active' = [active EXCEPT ![l] = SlReplicas]
    /\ beat' = [beat EXCEPT ![l] = slNow]
    /\ UNCHANGED <<slNow, host, ask, expires, credit, slCharge, offer, slStale, tenure, early>>

DrainingHeartbeat(l) ==
    /\ slPhase[l] \in Standing /\ slNow > beat[l]
    /\ Meter(l, slNow)
    /\ slPhase' = [slPhase EXCEPT ![l] = "UPGRADING"]
    /\ active' = [active EXCEPT ![l] = SlReplicas]
    /\ beat' = [beat EXCEPT ![l] = slNow]
    /\ UNCHANGED <<slNow, host, ask, expires, credit, slCharge, offer, slStale, tenure, early>>

FailedHeartbeat(l) ==
    /\ slPhase[l] \in Standing /\ slNow > beat[l]
    /\ Meter(l, slNow)
    /\ StopLease(l, "FAILOVER_REQUIRED")
    /\ beat' = [beat EXCEPT ![l] = slNow]
    /\ UNCHANGED <<slNow, host, ask, expires, credit, slCharge, offer, slStale, tenure, early>>

-----------------------------------------------------------------------------
(* The buyer's cancellation meters through the last heartbeat, or through   *)
(* the expiry once that has passed.                                         *)

Cutoff(l) ==
    IF slNow >= expires[l] THEN expires[l]
    ELSE IF slPhase[l] \in Alive THEN IF beat[l] < metered[l] THEN metered[l] ELSE beat[l]
    ELSE metered[l]

CancelServiceLease(l) ==
    /\ slPhase[l] \in Standing
    /\ Meter(l, Cutoff(l))
    /\ SettleOrNothing(l, Cutoff(l))
    /\ StopLease(l, "CANCELLED")
    /\ GiveBack(host[l])
    /\ UNCHANGED <<slNow, host, ask, expires, beat, slStale, tenure, early>>

-----------------------------------------------------------------------------
(* The recovery sweep.                                                      *)

RecoverServiceLeases ==
    LET silent == {l \in Leases : slPhase[l] \in Alive /\ slNow - beat[l] > Silence}
    IN /\ slStale = {} /\ silent # {}
       /\ slStale' = silent
       /\ UNCHANGED <<slNow, leaseVars, offer, early>>

MarkServiceLeaseWorkerLost(l) ==
    /\ l \in slStale /\ slStale' = slStale \ {l}
    /\ IF slPhase[l] \in Alive
       THEN Meter(l, beat[l]) /\ StopLease(l, "FAILOVER_REQUIRED")
       ELSE UNCHANGED <<metered, worked, payable, slPhase, active>>
    /\ UNCHANGED <<slNow, host, ask, expires, beat, credit, slCharge, offer, tenure, early>>

\* FOR UPDATE SKIP LOCKED: a replacement whose offer row is locked is not seen,
\* so any of the cheapest of a subset of the replacements may be taken.
FailoverServiceLease(l, h) ==
    /\ slPhase[l] = "FAILOVER_REQUIRED" /\ slNow < expires[l]
    /\ h # host[l] /\ Selectable(h) /\ AskOf[h] <= ask[l]
    /\ Meter(l, slNow)
    /\ TakeReplica(h)
    /\ slPhase' = [slPhase EXCEPT ![l] = "ACTIVE"]
    /\ host' = [host EXCEPT ![l] = h]
    /\ active' = [active EXCEPT ![l] = SlReplicas]
    /\ beat' = [beat EXCEPT ![l] = metered'[l]]
    /\ UNCHANGED <<slNow, ask, expires, credit, slCharge, slStale, tenure, early>>

\* The failover found nothing it could lock; the row is looked at again.
TerminateServiceLeaseNoReplacement(l) ==
    /\ slPhase[l] = "FAILOVER_REQUIRED" /\ slNow < expires[l]
    /\ Meter(l, metered[l])
    /\ SettleOrNothing(l, metered[l])
    /\ StopLease(l, "CANCELLED")
    /\ GiveBack(host[l])
    /\ UNCHANGED <<slNow, host, ask, expires, beat, slStale, tenure, early>>

\* FinalizeExpiredServiceLeases goes through its list in the order of expiry
\* and gives up at the first lease that cannot be settled.
Reached(l) ==
    \A k \in Leases : slPhase[k] \in Standing /\ expires[k] < expires[l] => Settleable(k, expires[k])

FinalizeExpiredServiceLease(l) ==
    /\ slPhase[l] \in Standing /\ slNow >= expires[l]
    /\ Reached(l)
    /\ Meter(l, expires[l])
    /\ SettleFinal(l, expires[l])
    /\ slPhase' = [slPhase EXCEPT ![l] = "COMPLETED"]
    /\ GiveBack(host[l])
    /\ UNCHANGED <<slNow, host, active, ask, expires, beat, slStale, tenure, early>>

-----------------------------------------------------------------------------
(* What the buyer sees.  The data plane forwards to the worker of a lease   *)
(* that is alive, in its term, at strength and heard of lately; the receipt *)
(* reassembles the terminal settlement from the ledger and refuses a set    *)
(* that is partial or not conserved.                                        *)

ServiceLeaseDataPlaneTarget(l) ==
    slPhase[l] \in Alive /\ slNow <= expires[l] /\ active[l] >= SlReplicas /\ slNow - beat[l] <= Silence

TerminalSettlement(l) ==
    LET owed == {h \in Hosts : payable[l][h] > 0}
        paid == LeaseTotal([h \in owed |-> credit[l][h]])
        take == slCharge[l] - LeaseTotal(credit[l])
    IN IF slCharge[l] = 0 THEN "none"
       ELSE IF /\ owed # {} /\ \A h \in owed : credit[l][h] > 0
               /\ take >= 0 /\ slCharge[l] = paid + take THEN "settled"
       ELSE "refused"

ServiceLeaseReceipt(l) ==
    IF slPhase[l] \notin LeaseEnded THEN "PREPAID_MAXIMUM_RESERVED"
    ELSE CASE TerminalSettlement(l) = "settled" -> "PREPAID_FINAL_DEBIT_RECORDED"
           [] TerminalSettlement(l) = "refused" -> "error"
           [] OTHER -> IF slPhase[l] = "CANCELLED" THEN "PREPAID_RESERVATION_RELEASED_NO_METERED_USAGE"
                       ELSE "PREPAID_TERMINAL_SETTLEMENT_MISSING_LEGACY"

-----------------------------------------------------------------------------
SLTick ==
    /\ slNow < SlHorizon
    /\ slNow' = slNow + 1
    /\ tenure' = [l \in Leases |-> [h \in Hosts |->
           tenure[l][h] + IF host[l] = h /\ slPhase[l] \in Standing /\ slNow < expires[l] THEN SlReplicas ELSE 0]]
    /\ offer' = [h \in Hosts |-> [offer[h] EXCEPT !.open = FALSE]]
    /\ UNCHANGED <<slPhase, host, active, ask, expires, metered, beat, worked, payable,
                   credit, slCharge, slStale, early>>

LeaseSweep(l) ==
    \/ MarkServiceLeaseWorkerLost(l)
    \/ \E h \in Hosts : FailoverServiceLease(l, h)
    \/ TerminateServiceLeaseNoReplacement(l)
    \/ FinalizeExpiredServiceLease(l)

SLNext ==
    \/ SLTick
    \/ RecoverServiceLeases
    \/ \E h \in Hosts : \E ready, resident \in BOOLEAN : UpsertServiceLeaseOffer(h, ready, resident)
    \/ \E l \in Leases :
          \/ \E h \in Hosts : CreateServiceLease(l, h)
          \/ ReadyHeartbeat(l) \/ DrainingHeartbeat(l) \/ FailedHeartbeat(l)
          \/ CancelServiceLease(l)
          \/ LeaseSweep(l)

SLSpec == SLInit /\ [][SLNext]_slVars

-----------------------------------------------------------------------------
Outstanding(h) == {l \in Leases : host[l] = h /\ slPhase[l] \in Standing}

\* Every standing reservation on a host is backed by one of its replicas, with what the
\* offer still advertises on top, but for the leases the host's last refresh did not
\* count: their term was over and their finalization, which gives the replicas back once
\* more, still to come (UpsertServiceLeaseOffer's expires_at>now()).  The host is
\* overbooked by no more than those, and by nothing after its next refresh.
HostNotOverbooked ==
    \A h \in Hosts :
        offer[h].available + SlReplicas * Cardinality(Outstanding(h))
            <= Capacity + SlReplicas * Cardinality({l \in early : host[l] = h})

\* The meter never runs past the last heartbeat, except that a lease that
\* reached its expiry is billed through the expiry (markServiceLeaseWorkerLost,
\* CancelServiceLease, finalizeExpiredServiceLease).
MeteredThroughHeartbeat ==
    \A l \in Leases : metered[l] <= beat[l] \/ (slPhase[l] \in LeaseEnded /\ metered[l] = expires[l])

\* No supplier is paid for replica time in which another one held the lease,
\* or for time beyond the term (meterServiceLeaseTx books deltas to the
\* supplier of the moment; a failover changes the supplier).
PaidForOwnTenure ==
    \A l \in Leases, h \in Hosts :
        /\ worked[l][h] <= tenure[l][h]
        /\ credit[l][h] > 0 => tenure[l][h] > 0

\* Terminal money is conserved and inside the reservation: the aggregate is
\* what the supplier rows sum to, the credits fit the buyer's charge, the
\* charge fits the frozen ceiling, and a lease that was metered settled.
SettledConserves ==
    \A l \in Leases :
        /\ LeaseTotal(payable[l]) = SupplierPayable(l, LeaseTotal(worked[l]))
        /\ LeaseTotal(credit[l]) <= slCharge[l]
        /\ slCharge[l] <= LeaseMicros(BuyerCeiling)
        /\ slPhase[l] \in LeaseEnded => (slCharge[l] > 0) = (LeaseTotal(worked[l]) > 0)
        /\ slPhase[l] \notin LeaseEnded => slCharge[l] = 0

\* Whatever order of heartbeats, loss, failover, cancellation and expiry a
\* lease went through, its receipt can be assembled from the ledger and says
\* that the usage it metered was debited (GetServiceLeaseReceipt).
ReceiptsAssemble ==
    \A l \in Leases :
        /\ ServiceLeaseReceipt(l) \notin {"error", "PREPAID_TERMINAL_SETTLEMENT_MISSING_LEGACY"}
        /\ slPhase[l] \in LeaseEnded /\ LeaseTotal(worked[l]) > 0
              => ServiceLeaseReceipt(l) = "PREPAID_FINAL_DEBIT_RECORDED"

\* Capacity, meter, pay, charge and receipt of a lease agree through heartbeats, loss,
\* failover, cancellation and expiry.
LeasesReconcile ==
    /\ HostNotOverbooked /\ MeteredThroughHeartbeat /\ PaidForOwnTenure
    /\ SettledConserves /\ ReceiptsAssemble
==============================================================================
