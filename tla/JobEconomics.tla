------------------------- MODULE JobEconomics -------------------------
(***************************************************************************)
(* The money of one batch job: the catalogue prices its units, the         *)
(* economic plan turns the price into a per-task buyer charge and supplier *)
(* payout whose contribution floor holds in four scenarios, the pricing    *)
(* decision attributes every modelled cost, and settlement rebates the     *)
(* output tokens a worker did not produce.  Everything here is arithmetic  *)
(* with roundings in named directions, over two grains of money: nanos,    *)
(* which are the authority, and micros (JeGrain nanos), which the ledger   *)
(* holds.  Rates and shares are multiples of 1/JeScale; a division is      *)
(* exact, where the code uses 64-bit floats with an epsilon at each        *)
(* rounding.                                                               *)
(*                                                                         *)
(* A run draws one request and one schedule and follows the job through    *)
(* the pipeline.  The headroom loop of BuildEconomicPlan and the binary    *)
(* search of the settlement clamp take one step per iteration.             *)
(***************************************************************************)
EXTENDS Integers, Sequences, FiniteSets, FiniteSetsExt

CONSTANTS
    JeGrain,       \* nanos in a micro (1000 in the code)
    JeScale,       \* denominator of rates and shares
    JePer,         \* units a catalogue price is quoted for (1000 in the code)
    JeRequests,    \* requests: [price, records, bytes, cap, clones, sla, share]
    JeSchedules,   \* economic and cost schedules, with their policy
    JeReports,     \* token counts a worker may report
    JeMaxLifts,    \* attempts of the headroom loop (32 in the code)
    JeNothing      \* no plan, no decision, no search

ASSUME MoneyGrains == JeGrain \in Nat \ {0} /\ JeScale \in Nat \ {0} /\ JePer \in Nat \ {0}

VARIABLES
    jeReq, jeSched,   \* the drawn request and schedule
    jeStage,          \* where the job stands
    jePass,           \* "base" without the premium, "quote" with it, "rebuild"
    jeInput,          \* EconomicPlanInput being priced
    jeBuyer, jePay,   \* buyer charge and supplier payout per task, in micros
    jeLifts,          \* attempts of the headroom loop made
    jePlan,           \* the frozen economic plan
    jeDecision,       \* the pricing decision
    jeSearch,         \* the clamp's binary search
    jeBills           \* settled tasks, in order

jeVars == <<jeReq, jeSched, jeStage, jePass, jeInput, jeBuyer, jePay, jeLifts, jePlan,
            jeDecision, jeSearch, jeBills>>

Least(a, b) == IF a <= b THEN a ELSE b
Most(a, b) == IF a >= b THEN a ELSE b

-----------------------------------------------------------------------------
(* Roundings.  An amount n/d is rounded half up, up, or projected.         *)

Half(n, d) == (2 * n + d) \div (2 * d)
Up(n, d) == (n + d - 1) \div d

\* mulDiv: a product divided once, down for the buyer and up for the supplier.
MulDiv(a, b, d, up) == IF up THEN Up(a * b, d) ELSE (a * b) \div d

\* projectNanosToUSD and LedgerMicrosFromNanos: half up, at least one micro.
Project(nanos) == IF nanos <= 0 THEN 0 ELSE Most(1, Half(nanos, JeGrain))

-----------------------------------------------------------------------------
(* Units and catalogue price.  Units are counted in quarters, the grain of *)
(* a byte in the bytes/4 heuristic.                                        *)

InputQuarters(r) == Most(4 * r.records, r.bytes)

OutputTokens(r) == r.records * r.cap

BillableQuarters(r) == InputQuarters(r) + 4 * OutputTokens(r)

\* CatalogueGrossNanos: the buyer's direction is down.
CatalogueGross(r) == (r.price * BillableQuarters(r)) \div (4 * JePer)

\* SupplierEntitlementNanos: the supplier's direction is up, within the gross.
SupplierEntitlement(gross, share) == Least(gross, Up(gross * share, JeScale))

\* estimateJobSettlementForJobType: the micro projection of the exact figure.
Expected(r) == Most(1, Half(CatalogueGross(r), JeGrain))

InitialTasks(r) == 1 + r.clones

\* validateCurrentUniformTaskCounts: one primary and at least one clone.
UniformCounts(r) == r.clones >= 1

\* validateCurrentUniformTaskEconomicAuthority: every initial task and the one
\* reserve task carry the same frozen amounts.
UniformAuthority(r, p) ==
    /\ p.input.tasks = InitialTasks(r) /\ p.input.extra = 1
    /\ p.chargeNanos > 0 /\ p.payNanos > 0
-----------------------------------------------------------------------------
(* The fee model, forwards and as a floor.                                 *)

\* The charge rides in a larger batch.
FixedShareBelowOne(s, net) == net < s.batch

\* processorFeeFor: a charge below the batch floor pays its share of the
\* fixed fee and rounds half up, a standalone charge rounds up.
ProcessorFee(s, net) ==
    IF net <= 0 THEN 0
    ELSE IF FixedShareBelowOne(s, net)
         THEN Half(net * (s.percent * s.batch + s.fixed * JeScale), JeScale * s.batch)
         ELSE Up(net * s.percent + s.fixed * JeScale, JeScale)

\* controlPlaneCostFor, under the batch allocation every loaded schedule uses.
ControlCost(s, net) ==
    IF net <= 0 THEN 0
    ELSE IF FixedShareBelowOne(s, net) THEN Half(s.control * net, s.batch) ELSE s.control

\* processorFloorTerms and controlPlaneFloorTerms: with a batch floor both
\* fixed amounts become rates, here over JeScale * batch.
RateOver(s) == JeScale * s.batch
ProcessorRate(s) == s.percent * s.batch + s.fixed * JeScale
ControlRate(s) == s.control * JeScale

\* What is left of a charge after the rates and the target margin.
FloorShare(s) == RateOver(s) - ProcessorRate(s) - ControlRate(s) - s.margin * s.batch

\* validateEconomicSchedule.
ValidSchedule(s) == s.percent < JeScale /\ s.margin < JeScale /\ s.batch > 0
                    /\ FloorShare(s) > 0
-----------------------------------------------------------------------------
(* The economic plan.                                                      *)

\* minBillableBaseComputeMicros: the least total whose share pays every task
\* one micro.
MinBillable(share, tasks) ==
    Min({t \in 1 .. (tasks * JeScale) : Half(t * share, tasks * JeScale) >= 1})

\* The min-billable floor lifts both projections of the base compute.
Floored(in) ==
    LET least == MinBillable(in.share, in.tasks)
    IN  [in EXCEPT !.micros = Most(@, least),
                   !.nanos = IF @ > 0 THEN Most(@, least * JeGrain) ELSE 0]

\* Base compute per task, as a numerator over JeGrain * tasks micros: the
\* larger of the micro projection and the exact figure.
ComputeOver(in) == JeGrain * in.tasks
ComputeNum(in) == Most(in.micros * JeGrain, in.nanos)

\* Supplier payout per task before the exact authority replaces it.
FirstPay(in) ==
    LET num == ComputeNum(in) * in.share
        den == ComputeOver(in) * JeScale
    IN  Most(1, Up(num, den))

\* The charge that covers payout, fees and contribution, in micros rounded up.
FirstBuyer(s, in, pay) ==
    LET floor == Up((pay * in.tasks + s.least) * RateOver(s), in.tasks * FloorShare(s))
    IN  Most(Up(ComputeNum(in), ComputeOver(in)), floor)

Scenario(s, in, price, pay, tasks, miss) ==
    LET gross == price * tasks + in.premium
        refund == IF miss THEN Least(in.premium, gross) ELSE 0
        net == gross - refund
        fee == ProcessorFee(s, net)
        control == ControlCost(s, net)
        margin == net - pay * tasks - fee - control
        required == Most(Half(net * s.margin, JeScale), Half(s.least * tasks, in.tasks))
    IN  [tasks |-> tasks, net |-> net, fee |-> fee, control |-> control,
         margin |-> margin, headroom |-> margin - required]

Scenarios(s, in, price, pay) ==
    {Scenario(s, in, price, pay, 1, TRUE),
     Scenario(s, in, price, pay, in.tasks, FALSE),
     Scenario(s, in, price, pay, in.tasks, TRUE),
     Scenario(s, in, price, pay, in.tasks + in.extra, TRUE)}

Worst(s, in, price, pay) == Min({x.headroom : x \in Scenarios(s, in, price, pay)})

\* exactPerTaskNanos: base down, payout up, charge up and never below payout.
ExactBase(in) == (IF in.nanos > 0 THEN in.nanos ELSE in.micros * JeGrain) \div in.tasks

ExactPay(in) == Up(ExactBase(in) * in.share, JeScale)
ExactCharge(in, buyer) == Most(buyer * JeGrain, ExactPay(in))

\* The plan whose float fields are projections of its nanos.
PlanOf(s, in, buyer) ==
    LET pay == Project(ExactPay(in))
        charge == ExactCharge(in, buyer)
        price == Most(Project(charge), buyer)
    IN  [input |-> in, payNanos |-> ExactPay(in),
         chargeNanos |-> Most(charge, buyer * JeGrain),
         pay |-> pay, price |-> price,
         initial |-> price * in.tasks + in.premium,
         reserved |-> price * (in.tasks + in.extra) + in.premium,
         headroom |-> Worst(s, in, price, pay)]

\* A plan may miss the floor by the micro the scenarios round away.
Executable(p) == p.headroom >= -1
-----------------------------------------------------------------------------
(* The pricing decision.                                                   *)

\* declaredOutputBytesBound: what is stored and what is delivered.
EgressBytes(r) == IF OutputTokens(r) = 0 THEN r.bytes ELSE OutputTokens(r)
StorageBytes(r) == r.bytes + EgressBytes(r)

\* storageNanosForBytes, egressNanosForBytes, riskReserveNanos, all rounded up.
StorageNanos(s, bytes) ==
    IF bytes = 0 \/ s.storage = 0 THEN 0
    ELSE MulDiv(MulDiv(bytes, s.storage, s.gib, TRUE), s.retained, s.month, TRUE)
EgressNanos(s, bytes) ==
    IF bytes = 0 \/ s.egress = 0 THEN 0 ELSE MulDiv(bytes, s.egress, s.gib, TRUE)
RiskNanos(s, charge) == MulDiv(charge, s.risk, JeScale, TRUE)

FullSuccess(s, p) == Scenario(s, p.input, p.price, p.pay, p.input.tasks, FALSE)

\* fixedPointPricingFromPlanWithExtras.
FixedPoint(s, p, extras) ==
    LET full == FullSuccess(s, p)
        tasks == full.tasks
        buyer == p.chargeNanos * tasks + p.input.premium * JeGrain
        supplier == p.payNanos * tasks
        base == (full.fee + full.control) * JeGrain
    IN  [buyer |-> buyer,
         ceiling |-> p.chargeNanos * (p.input.tasks + p.input.extra) + p.input.premium * JeGrain,
         supplier |-> supplier,
         variable |-> base + extras,
         contribution |-> buyer - supplier - base - extras]

Attributed(s, r, p) ==
    LET storage == StorageNanos(s, StorageBytes(r))
        egress == EgressNanos(s, EgressBytes(r))
        risk == RiskNanos(s, FixedPoint(s, p, 0).buyer)
    IN  [storage |-> storage, egress |-> egress, risk |-> risk,
         fixed |-> FixedPoint(s, p, storage + egress + risk)]

\* validatePricingCostShape: the micro projections of the components add up
\* to the buyer price, within two micros.
ConservedMicros(s, p, a) ==
    LET full == FullSuccess(s, p)
    IN  p.pay * p.input.tasks + full.fee + full.control
        + Half(a.storage, JeGrain) + Half(a.egress, JeGrain) + Half(a.risk, JeGrain)
        + (a.fixed.contribution \div JeGrain)

FixedPointHolds(f) == f.buyer > 0 /\ f.ceiling >= f.buyer /\ f.supplier > 0
                      /\ f.contribution > 0

\* admissionEntitlementRefusal.
EntitlementClears(r, p) == p.payNanos >= SupplierEntitlement(CatalogueGross(r), r.share)

FloatsConserve(s, p, a) ==
    LET gap == ConservedMicros(s, p, a) - p.initial IN gap <= 2 /\ gap >= -2
-----------------------------------------------------------------------------
(* Settlement by observed output.                                          *)

Ceiling(r) == r.records * r.cap

\* The token-proportional charge, half up, between one micro and the freeze.
Proportional(r, p, reported) ==
    LET c == Ceiling(r)
        unused == c - Least(reported, c)
        units == BillableQuarters(r)
        num == units * c - 4 * OutputTokens(r) * unused
    IN  Least(p.chargeNanos, Most(JeGrain, Half(p.chargeNanos * num, units * c)))

\* The supplier's part of a charge, up, within the frozen payout and the charge.
PayFor(p, charge) ==
    Least(Least(Up(p.payNanos * charge, p.chargeNanos), p.payNanos), charge)

\* covers: the charge still pays the supplier, the fees and the contribution.
Covers(s, p, chargeNanos, payNanos) ==
    LET charge == Project(chargeNanos)
        pay == Least(Project(payNanos), charge)
        required == Most(Half(charge * s.margin, JeScale), Half(s.least, p.input.tasks))
    IN  charge > 0 /\ charge - pay - ProcessorFee(s, charge) - ControlCost(s, charge) >= required

-----------------------------------------------------------------------------
(* The pipeline.                                                           *)

JeInit ==
    /\ jeReq \in {r \in JeRequests : UniformCounts(r) /\ CatalogueGross(r) > 0}
    /\ jeSched \in {s \in JeSchedules : ValidSchedule(s)}
    /\ jeStage = "floor" /\ jePass = "base"
    /\ jeInput = [micros |-> Expected(jeReq) * InitialTasks(jeReq),
                  nanos |-> CatalogueGross(jeReq) * InitialTasks(jeReq),
                  tasks |-> InitialTasks(jeReq), extra |-> 1,
                  share |-> jeReq.share, premium |-> 0]
    /\ jeBuyer = 0 /\ jePay = 0 /\ jeLifts = 0
    /\ jePlan = JeNothing /\ jeDecision = JeNothing /\ jeSearch = JeNothing
    /\ jeBills = <<>>

\* BuildEconomicPlan up to the first price.
PriceFloor ==
    /\ jeStage = "floor"
    /\ LET in == Floored(jeInput)
           pay == FirstPay(in)
       IN  /\ jeInput' = in
           /\ jePay' = pay
           /\ jeBuyer' = FirstBuyer(jeSched, in, pay)
    /\ jeLifts' = 0 /\ jeStage' = "lift"
    /\ UNCHANGED <<jeReq, jeSched, jePass, jePlan, jeDecision, jeSearch, jeBills>>

\* Mutant: the loop measures the miss and does not raise the charge.
Lifted_Never(worst) == jeBuyer

Lifted(worst) == jeBuyer + Most(1, -worst)

\* One attempt of the headroom loop: raise the charge by the worst miss.
LiftCharge ==
    /\ jeStage = "lift"
    /\ LET worst == Worst(jeSched, jeInput, jeBuyer, jePay)
       IN  IF worst >= 0 \/ jeLifts = JeMaxLifts
           THEN jeStage' = "freeze" /\ UNCHANGED <<jeBuyer, jeLifts>>
           ELSE /\ jeBuyer' = Lifted(worst)
                /\ jeLifts' = jeLifts + 1
                /\ UNCHANGED jeStage
    /\ UNCHANGED <<jeReq, jeSched, jePass, jeInput, jePay, jePlan, jeDecision, jeSearch,
                   jeBills>>

\* deriveQuoteSLA: the premium is a share of the charge without it.
Premium(p) == Half(p.initial * jeSched.sla, JeScale)

\* The exact authority replaces the floats.  The plan without the premium
\* prices the premium; the plan with it is the quote's.
FreezePlan ==
    /\ jeStage = "freeze" /\ jePass \in {"base", "quote"}
    /\ LET p == PlanOf(jeSched, jeInput, jeBuyer)
           more == jePass = "base" /\ jeReq.sla /\ Executable(p) /\ Premium(p) > 0
       IN  /\ jePlan' = p
           /\ jePass' = IF more THEN "quote" ELSE jePass
           /\ jeStage' = IF more THEN "floor" ELSE IF Executable(p) THEN "decide" ELSE "blocked"
           /\ jeInput' = IF more THEN [jeInput EXCEPT !.premium = Premium(p)] ELSE jeInput
    /\ UNCHANGED <<jeReq, jeSched, jeBuyer, jePay, jeLifts, jeDecision, jeSearch, jeBills>>

\* distributedPricingDecisionAtRate with its validators.
DecidePrice ==
    /\ jeStage = "decide"
    /\ LET a == Attributed(jeSched, jeReq, jePlan)
       IN  /\ jeDecision' = a
           /\ jeStage' = IF ~EntitlementClears(jeReq, jePlan) \/ ~UniformAuthority(jeReq, jePlan)
                         THEN "below floor"
                         ELSE IF ~FixedPointHolds(FixedPoint(jeSched, jePlan, 0))
                                 \/ ~FixedPointHolds(a.fixed) THEN "no contribution"
                         ELSE IF ~FloatsConserve(jeSched, jePlan, a) THEN "not conserved"
                         ELSE "accepted"
    /\ UNCHANGED <<jeReq, jeSched, jePass, jeInput, jeBuyer, jePay, jeLifts, jePlan, jeSearch,
                   jeBills>>

\* Settlement first rebuilds the plan from its frozen input.
Revalidate ==
    /\ jeStage = "accepted" /\ jePass # "rebuild"
    /\ jePass' = "rebuild" /\ jeInput' = jePlan.input /\ jeStage' = "floor"
    /\ UNCHANGED <<jeReq, jeSched, jeBuyer, jePay, jeLifts, jePlan, jeDecision, jeSearch,
                   jeBills>>

\* settlementBaseFromComputeEstimate.
SettlementBase(r) == Most(Expected(r) * InitialTasks(r), MinBillable(r.share, InitialTasks(r)))

\* ValidateEconomicPlanSnapshot and ValidateComputePlanEconomicSnapshot.
CompareSnapshot ==
    /\ jeStage = "freeze" /\ jePass = "rebuild"
    /\ jeStage' = IF /\ PlanOf(jeSched, jeInput, jeBuyer) = jePlan
                     /\ SettlementBase(jeReq) - jePlan.input.micros \in -1 .. 1
                  THEN "settle" ELSE "snapshot differs"
    /\ UNCHANGED <<jeReq, jeSched, jePass, jeInput, jeBuyer, jePay, jeLifts, jePlan, jeDecision,
                   jeSearch, jeBills>>

Bill(reported, first, charge) ==
    [reported |-> reported, first |-> first, charge |-> charge, pay |-> PayFor(jePlan, charge)]

Billed(bill) == jeBills' = Append(jeBills, bill)

\* The clamp's search interval.
Opening(reported, first) ==
    [reported |-> reported, first |-> first, lo |-> first,
     hi |-> jePlan.chargeNanos, best |-> jePlan.chargeNanos]

\* One probe: keep the smallest charge seen to cover.
Probed(q, mid) ==
    IF Covers(jeSched, jePlan, mid, PayFor(jePlan, mid))
    THEN [q EXCEPT !.best = mid, !.hi = mid - 1]
    ELSE [q EXCEPT !.lo = mid + 1]

\* settleObservedOutputTokensWithSchedule up to the clamp.
SettleObserved(reported) ==
    /\ jeStage = "settle" /\ Len(jeBills) < jePlan.input.tasks
    /\ LET p == jePlan
           first == IF Ceiling(jeReq) = 0 \/ reported = JeNothing THEN p.chargeNanos ELSE Proportional(jeReq, p, reported)
       IN  IF \/ first = p.chargeNanos
              \/ Covers(jeSched, p, first, PayFor(p, first))
              \/ ~Covers(jeSched, p, p.chargeNanos, p.payNanos)
           THEN /\ Billed(IF Covers(jeSched, p, first, PayFor(p, first))
                          THEN Bill(reported, first, first)
                          ELSE Bill(reported, first, p.chargeNanos))
                /\ UNCHANGED <<jeStage, jeSearch>>
           ELSE /\ jeSearch' = Opening(reported, first)
                /\ jeStage' = "clamp"
                /\ UNCHANGED jeBills
    /\ UNCHANGED <<jeReq, jeSched, jePass, jeInput, jeBuyer, jePay, jeLifts, jePlan, jeDecision>>

\* One probe of the clamp's binary search, and its end.
ClampStep ==
    /\ jeStage = "clamp"
    /\ IF jeSearch.lo > jeSearch.hi
       THEN /\ Billed(Bill(jeSearch.reported, jeSearch.first, jeSearch.best))
            /\ jeSearch' = JeNothing /\ jeStage' = "settle"
       ELSE /\ jeSearch' = Probed(jeSearch, (jeSearch.lo + jeSearch.hi) \div 2)
            /\ UNCHANGED <<jeStage, jeBills>>
    /\ UNCHANGED <<jeReq, jeSched, jePass, jeInput, jeBuyer, jePay, jeLifts, jePlan, jeDecision>>

JeNext ==
    \/ PriceFloor \/ LiftCharge \/ FreezePlan \/ DecidePrice \/ Revalidate
    \/ CompareSnapshot \/ ClampStep
    \/ \E reported \in JeReports \cup {JeNothing} : SettleObserved(reported)

JeSpec == JeInit /\ [][JeNext]_jeVars
-----------------------------------------------------------------------------
(* Properties.                                                             *)

\* The exact payout a plan freezes never falls below the floor admission
\* derives from the catalogue, so admission never refuses a priced job
\* (admissionEntitlementRefusal: "an identity rather than a tolerance").
EntitlementIsFloor == jeStage # "below floor"

\* A plan rebuilt from its own frozen input is the same plan, and its base is
\* the floored form of the compute estimate: settlement never refuses the
\* snapshot admission accepted (ValidateEconomicPlanSnapshot,
\* ValidateComputePlanEconomicSnapshot).
SnapshotRebuilds == jeStage # "snapshot differs"

\* What an accepted decision attributes stays inside what the job reserves:
\* exact buyer charge, SLA premium and the reserve clone fit the reservation,
\* and the supplier, the modelled costs and a positive contribution divide the
\* buyer charge (fixedPointPricingFromPlanWithExtras).
AcceptedIsFunded ==
    jeDecision # JeNothing /\ jeStage \notin {"below floor", "no contribution", "not conserved"} =>
        /\ jeDecision.fixed.ceiling <= jePlan.reserved * JeGrain
        /\ jeDecision.fixed.contribution > 0
        /\ jeDecision.fixed.buyer = jeDecision.fixed.supplier + jeDecision.fixed.variable
                                     + jeDecision.fixed.contribution

BillOf(i) == jeBills[i]

\* A settled task still pays for itself: its charge covers the supplier, the
\* processor, the control plane and the required contribution, as the frozen
\* plan says of every rebate (economic_plan.go, last assumption of the plan).
SettledCoversFloor ==
    \A i \in DOMAIN jeBills : Covers(jeSched, jePlan, BillOf(i).charge, BillOf(i).pay)

\* Settlement only reduces, and never shaves the supplier: the charge is within
\* the freeze and at least the proportional charge, the payout is at least the
\* supplier's share of the charge, and no more than the charge.
SettledWithinFreeze ==
    \A i \in DOMAIN jeBills :
        LET b == BillOf(i)
        IN  /\ b.first <= b.charge /\ b.charge <= jePlan.chargeNanos
            /\ b.pay * jePlan.chargeNanos >= jePlan.payNanos * b.charge
            /\ b.pay <= jePlan.payNanos /\ b.pay <= b.charge

\* What one step of pricing froze, the next accepts: plan, floor, admission, snapshot
\* and settlement agree to the nano, roundings included.
EconomicsHold ==
    /\ EntitlementIsFloor /\ SnapshotRebuilds /\ AcceptedIsFunded /\ SettledCoversFloor
    /\ SettledWithinFreeze

=============================================================================
