---------------------------- MODULE QuoteBinding ----------------------------
(***************************************************************************)
(* Which price authority a quote and a job may rest on.  A release carries *)
(* the declarations compiled into a control process: the benchmark receipt *)
(* of each model's cell, the power receipt, the engine build, the price    *)
(* board and the economic schedule.  A process publishes the schedule it   *)
(* derives from them when it boots (pricing.go) and moves the catalogue    *)
(* pointer to it.  Quotes (quote.go) and jobs (store_jobs.go) are built    *)
(* from the pointer and admitted later, in a transaction that looks again; *)
(* a job bound to a quote keeps the quote's price and looks only at the    *)
(* physical half of the evidence.                                          *)
(*                                                                         *)
(* A receipt and a board are named by their bytes, so equality of names is *)
(* the digest comparison of the code.                                      *)
(***************************************************************************)
EXTENDS Naturals, FiniteSets, FiniteSetsExt, TLAPS
LOCAL INSTANCE FiniteSetTheorems
LOCAL INSTANCE NaturalsInduction
LOCAL INSTANCE WellFoundedInduction

CONSTANTS
  QbModels,       \* catalogue models priced by one schedule
  QbProcs,        \* control processes sharing the database
  QbReleases,     \* [build, through: [QbModels -> receipt], power, board, econ]
  ReceiptBuild,   \* the engine build a receipt measured
  ReceiptUntil,   \* the end of a receipt's freshness window
  BoardUntil,     \* the end of a board's freshness window
  QuoteTTL,
  FirstRelease,   \* the release whose schedule the pointer names at first
  QbHorizon, QbMaxQuotes, QbMaxJobs

\* A release names receipts and a board the tables know, and times are naturals.
ASSUME QbAssumption ==
  /\ QuoteTTL \in Nat
  /\ FirstRelease \in QbReleases
  /\ \A r \in DOMAIN ReceiptUntil : ReceiptUntil[r] \in Nat
  /\ \A b \in DOMAIN BoardUntil : BoardUntil[b] \in Nat
  /\ \A rel \in QbReleases :
       /\ rel.board \in DOMAIN BoardUntil
       /\ rel.power \in DOMAIN ReceiptUntil
       /\ \A m \in QbModels : rel.through[m] \in DOMAIN ReceiptUntil

VARIABLES
  qbClock,
  runs,        \* the release each process runs
  published,   \* catalogue_price_schedules with their model_price_history
  pointed,     \* models.price_schedule_sha256
  quotes,      \* sequence number -> frozen quote
  work,        \* the call a process is serving
  qbAccepted     \* jobs, with the clock and the pointer of their acceptance

qbVars == <<qbClock, runs, published, pointed, quotes, work, qbAccepted>>

QbIdle == [step |-> "idle"]

----------------------------------------------------------------------------
(* Evidence *)

\* The runtime authority of a release: the benchmark receipt and the build of
\* the one cell that serves a model.
SelectedCell(rel, m) == [through |-> rel.through[m], build |-> rel.build]

WithinWindow(receipt) == qbClock <= ReceiptUntil[receipt]

\* A throughput citation is current when it is the exact benchmark authority
\* of the model's selected cell, measured the build the row names, and is
\* within its window.
CitesSelectedCell(rel, m, phys) == phys.through = SelectedCell(rel, m).through

MeasuredOn(rel, m, phys) ==
  /\ phys.build = SelectedCell(rel, m).build
  /\ ReceiptBuild[phys.through] = phys.build

ThroughputCurrent(rel, m, phys) ==
  /\ CitesSelectedCell(rel, m, phys)
  /\ MeasuredOn(rel, m, phys)
  /\ WithinWindow(phys.through)

\* The power receipt is pinned by its digest, names the row's build, covers
\* only workloads the release publishes on that build, and has its own age.
PowerIdentity(phys) == ReceiptBuild[phys.power] = phys.build

PowerCoverage(rel, phys) ==
  \A m \in QbModels : SelectedCell(rel, m).build = ReceiptBuild[phys.power]

PowerFresh(phys) == WithinWindow(phys.power)

PowerCurrent(rel, phys) ==
  PowerIdentity(phys) /\ PowerCoverage(rel, phys) /\ PowerFresh(phys)

Physical(rel, m) ==
  [through |-> rel.through[m], power |-> rel.power, build |-> rel.build]

\* A cell's rate is measured within the revalidation window and degraded
\* after it.
Posture(receipt) == IF WithinWindow(receipt) THEN "measured" ELSE "stale"

\* The frozen performance projection of a placement still equals what the
\* runtime authority resolves now, and its price rests on the same receipt.
ProjectionCurrent(rel, m, phys) ==
  /\ SelectedCell(rel, m) = [through |-> phys.through, build |-> phys.build]
  /\ Posture(phys.through) = "measured"

PlacementCurrent(rel, m, phys) ==
  ProjectionCurrent(rel, m, phys) /\ ReceiptBuild[phys.through] = phys.build

\* A schedule's current use ends with the first of its evidence.
CurrentUseUntil(rel) ==
  Min({BoardUntil[rel.board], ReceiptUntil[rel.power]}
        \cup {ReceiptUntil[rel.through[m]] : m \in QbModels})

BuildCataloguePriceSchedule(rel) ==
  [phys |-> [m \in QbModels |-> Physical(rel, m)],
   board |-> rel.board, until |-> CurrentUseUntil(rel)]

SchedulePhysicalCurrent(rel, sched) ==
  \A m \in QbModels : /\ ThroughputCurrent(rel, m, sched.phys[m])
                      /\ PowerCurrent(rel, sched.phys[m])

BoardCurrent(rel, sched) ==
  sched.board = rel.board /\ qbClock <= BoardUntil[rel.board]

\* Newly minted authority also has to be what this process would derive.
ScheduleCurrent(rel, sched) ==
  /\ SchedulePhysicalCurrent(rel, sched)
  /\ BoardCurrent(rel, sched)
  /\ sched = BuildCataloguePriceSchedule(rel)

\* The bound half: receipts, build and freshness, but not the board.
BoundCurrent(rel, sched) == SchedulePhysicalCurrent(rel, sched)

\* Under the model row's share lock: the exact schedule, or for a bound job
\* only the model's physical snapshot.
\* Mutant: the pointer of a new decision is not read again.
PointerCurrent_Trusted(sched) == TRUE
PointerCurrent(sched) == pointed = sched
PhysicalPointer(m, sched) == pointed.phys[m] = sched.phys[m]

\* A decision is validated against the append-only row its digest names.
AtSchedule(sched) == sched \in published

----------------------------------------------------------------------------
(* Publication *)

\* Boot: derive, revalidate, and under the publication lock revalidate,
\* append and move the pointer.  Nothing orders releases, so a process of an
\* older release that restarts moves the pointer back to its own schedule.
Boot(p, rel) ==
  LET sched == BuildCataloguePriceSchedule(rel)
  IN /\ ScheduleCurrent(rel, sched)
     /\ runs' = [runs EXCEPT ![p] = rel]
     /\ published' = published \cup {sched}
     /\ pointed' = sched
     /\ work' = [work EXCEPT ![p] = QbIdle]
     /\ UNCHANGED <<qbClock, quotes, qbAccepted>>

----------------------------------------------------------------------------
(* Quotes *)

\* A quote lives for its TTL, and no longer than the evidence it rests on.
QuoteExpiry(sched, m) ==
  Min({qbClock + QuoteTTL, sched.until, ReceiptUntil[sched.phys[m].through]})

\* The plan a decision's digest covers.
QuotePlan(sched, econ, sla) == [sched |-> sched, econ |-> econ, sla |-> sla]

\* The pointed schedule, revalidated, for a model whose placement is current.
LoadCataloguePriceAuthority(rel, m) ==
  /\ ScheduleCurrent(rel, pointed)
  /\ PlacementCurrent(rel, m, pointed.phys[m])

\* The speed offer depends on how many workers are eligible, on the planner and
\* on the plan being executable, none of which is state of this module.
SLAOffers == BOOLEAN

\* The quote built from the authority; it is not stored yet.
BuildQuote(p, m, sla) ==
  LET rel == runs[p]
  IN /\ work[p].step = "idle"
     /\ Cardinality(DOMAIN quotes) < QbMaxQuotes
     /\ LoadCataloguePriceAuthority(rel, m)
     /\ pointed.until > qbClock /\ ReceiptUntil[pointed.phys[m].through] > qbClock
     /\ work' = [work EXCEPT ![p] =
          [step |-> "quote", model |-> m, plan |-> QuotePlan(pointed, rel.econ, sla),
           expires |-> QuoteExpiry(pointed, m)]]
     /\ UNCHANGED <<qbClock, runs, published, pointed, quotes, qbAccepted>>

InsertQuote(p) ==
  LET w == work[p]  n == Cardinality(DOMAIN quotes) + 1
  IN /\ w.step = "quote" /\ n <= QbMaxQuotes
     /\ AtSchedule(w.plan.sched)
     /\ PlacementCurrent(runs[p], w.model, w.plan.sched.phys[w.model])
     /\ ScheduleCurrent(runs[p], w.plan.sched)
     /\ PointerCurrent(w.plan.sched)
     /\ quotes' = [i \in DOMAIN quotes \cup {n} |->
          IF i = n THEN [model |-> w.model, plan |-> w.plan, expires |-> w.expires]
          ELSE quotes[i]]
     /\ work' = [work EXCEPT ![p] = QbIdle]
     /\ UNCHANGED <<qbClock, runs, published, pointed, qbAccepted>>

----------------------------------------------------------------------------
(* Jobs *)

\* GetBindableQuote and the preflight of a bound submission.
QuoteBindable(p, q) ==
  /\ quotes[q].expires > qbClock
  /\ AtSchedule(quotes[q].plan.sched)
  /\ quotes[q].plan.econ = runs[p].econ

BindQuote(p, q, firm) ==
  /\ work[p].step = "idle"
  /\ QuoteBindable(p, q)
  /\ work' = [work EXCEPT ![p] =
       [step |-> "bound", model |-> quotes[q].model, quote |-> q, firm |-> firm,
        plan |-> quotes[q].plan]]
  /\ UNCHANGED <<qbClock, runs, published, pointed, quotes, qbAccepted>>

\* An unquoted submission prices itself from the pointer.
PriceUnquoted(p, m) ==
  /\ work[p].step = "idle"
  /\ LoadCataloguePriceAuthority(runs[p], m)
  /\ work' = [work EXCEPT ![p] =
       [step |-> "plain", model |-> m, plan |-> QuotePlan(pointed, runs[p].econ, FALSE)]]
  /\ UNCHANGED <<qbClock, runs, published, pointed, quotes, qbAccepted>>

\* The economic plan the job would execute: the premium is charged only when
\* the submission is firm.
ExecutionPlan(w) ==
  IF w.step = "plain" THEN w.plan
  ELSE QuotePlan(w.plan.sched, w.plan.econ, w.plan.sla /\ w.firm)

\* The frozen decision must be what its plan rebuilds to.
DecisionRebuilds(w) == ExecutionPlan(w) = w.plan

QuoteAlive(q) == quotes[q].expires > qbClock

\* The durable boundary of both kinds of submission.
AdmissibleAt(p, w) ==
  LET sched == w.plan.sched
  IN /\ DecisionRebuilds(w)
     /\ AtSchedule(sched)
     /\ PlacementCurrent(runs[p], w.model, sched.phys[w.model])
     /\ IF w.step = "plain"
        THEN ScheduleCurrent(runs[p], sched) /\ PointerCurrent(sched)
        ELSE /\ BoundCurrent(runs[p], sched)
             /\ PhysicalPointer(w.model, sched)
             /\ QuoteAlive(w.quote)

SubmitPriced(p) ==
  LET w == work[p]
  IN /\ w.step \in {"plain", "bound"}
     /\ Cardinality(qbAccepted) < QbMaxJobs
     /\ AdmissibleAt(p, w)
     /\ qbAccepted' = qbAccepted \cup
          {[model |-> w.model, plan |-> ExecutionPlan(w), at |-> qbClock,
            quote |-> IF w.step = "bound" THEN w.quote ELSE 0,
            pointed |-> pointed]}
     /\ work' = [work EXCEPT ![p] = QbIdle]
     /\ UNCHANGED <<qbClock, runs, published, pointed, quotes>>

\* Any refusal, and a client that gives up, end the call.
AbandonCall(p) ==
  /\ work[p].step # "idle"
  /\ work' = [work EXCEPT ![p] = QbIdle]
  /\ UNCHANGED <<qbClock, runs, published, pointed, quotes, qbAccepted>>

TickQuotes ==
  /\ qbClock < QbHorizon
  /\ qbClock' = qbClock + 1
  /\ UNCHANGED <<runs, published, pointed, quotes, work, qbAccepted>>

QbInit ==
  /\ qbClock = 0
  /\ runs = [p \in QbProcs |-> FirstRelease]
  /\ published = {BuildCataloguePriceSchedule(FirstRelease)}
  /\ pointed = BuildCataloguePriceSchedule(FirstRelease)
  /\ quotes = [i \in {} |-> QbIdle]
  /\ work = [p \in QbProcs |-> QbIdle]
  /\ qbAccepted = {}

QbNext ==
  \/ TickQuotes
  \/ \E p \in QbProcs :
       \/ \E rel \in QbReleases : Boot(p, rel)
       \/ \E m \in QbModels : PriceUnquoted(p, m) \/ \E sla \in SLAOffers : BuildQuote(p, m, sla)
       \/ InsertQuote(p) \/ SubmitPriced(p) \/ AbandonCall(p)
       \/ \E q \in DOMAIN quotes, firm \in BOOLEAN : BindQuote(p, q, firm)

QbSpec == QbInit /\ [][QbNext]_qbVars

----------------------------------------------------------------------------
(* Properties *)

\* An unexpired firm quote is honoured by every process that still runs its
\* evidence: neither a price-only reprice nor the passing of time makes the
\* durable boundary refuse it before it expires (the comment of
\* validateCurrentCataloguePhysicalPointerFrom).
FirmQuoteIsHonoured ==
  \A q \in DOMAIN quotes, p \in QbProcs :
    LET s == quotes[q].plan.sched  rel == runs[p]
    IN ( /\ qbClock < quotes[q].expires
         /\ \A m \in QbModels : s.phys[m] = Physical(rel, m)
         /\ pointed.phys[quotes[q].model] = s.phys[quotes[q].model]
         /\ quotes[q].plan.econ = rel.econ )
       => /\ QuoteBindable(p, q)
          /\ AdmissibleAt(p, [step |-> "bound", model |-> quotes[q].model,
                              quote |-> q, firm |-> TRUE, plan |-> quotes[q].plan])

\* A job priced without a quote carries the schedule the catalogue names at
\* the instant it is accepted, whatever another process published between
\* pricing and acceptance.
UnquotedAtCurrentPrice ==
  \A j \in qbAccepted : j.quote = 0 => j.plan.sched = j.pointed

\* A bound job may be cheaper or dearer than the catalogue, but it executes
\* under the physical authority the catalogue names when it is accepted, and
\* it was accepted within the life of its quote on the quote's own terms.
BoundUnderCurrentEvidence ==
  \A j \in qbAccepted : j.quote # 0 =>
    /\ j.pointed.phys[j.model] = j.plan.sched.phys[j.model]
    /\ j.at < quotes[j.quote].expires

\* No job is accepted on evidence that had expired.
AcceptedOnFreshEvidence ==
  \A j \in qbAccepted :
    LET phys == j.plan.sched.phys[j.model]
    IN j.at <= ReceiptUntil[phys.through] /\ j.at <= ReceiptUntil[phys.power]

\* A quote binds for as long as its evidence stands, and nothing is accepted on a price
\* or evidence that no longer does.
QuotesBind ==
    /\ FirmQuoteIsHonoured /\ UnquotedAtCurrentPrice /\ BoundUnderCurrentEvidence
    /\ AcceptedOnFreshEvidence

----------------------------------------------------------------------------
(* The inductive invariant *)

USE ZenonT(100)

\* What a process can publish.
Schedules == {BuildCataloguePriceSchedule(rel) : rel \in QbReleases}

IsPlan(ps, plan) ==
  \E s \in ps, e \in {rel.econ : rel \in QbReleases}, sla \in BOOLEAN :
    plan = QuotePlan(s, e, sla)

\* The receipts of a schedule measured the builds its rows name.
MeasuredSchedule(s) ==
  \A m \in QbModels : /\ ReceiptBuild[s.phys[m].through] = s.phys[m].build
                      /\ ReceiptBuild[s.phys[m].power] = s.phys[m].build

\* A promise ends no later than the evidence of its schedule.
Promise(ps, w) ==
  /\ w.model \in QbModels /\ IsPlan(ps, w.plan)
  /\ w.expires \in Nat /\ w.expires <= w.plan.sched.until

QuoteInv ==
  /\ IsFiniteSet(DOMAIN quotes) /\ DOMAIN quotes = 1..Cardinality(DOMAIN quotes)
  /\ \A q \in DOMAIN quotes :
       Promise(published, quotes[q]) /\ MeasuredSchedule(quotes[q].plan.sched)

CallInv(ps, known, w) ==
  \/ w = QbIdle
  \/ w.step = "quote" /\ Promise(ps, w)
  \/ w.step = "plain" /\ w.model \in QbModels /\ IsPlan(ps, w.plan)
  \/ w.step = "bound" /\ w.model \in QbModels /\ IsPlan(ps, w.plan) /\ w.quote \in known

JobInv ==
  /\ \A j \in qbAccepted : j.quote # 0 => j.quote \in DOMAIN quotes
  /\ UnquotedAtCurrentPrice /\ BoundUnderCurrentEvidence /\ AcceptedOnFreshEvidence

\* Clock, releases and schedules keep their kinds; every plan names a published
\* schedule; and a quote ends with its evidence.
QbInv ==
  /\ qbClock \in Nat
  /\ runs \in [QbProcs -> QbReleases]
  /\ published \subseteq Schedules /\ pointed \in published
  /\ QuoteInv
  /\ work = [p \in QbProcs |-> work[p]] /\ \A p \in QbProcs : CallInv(published, DOMAIN quotes, work[p])
  /\ JobInv

\* The least of a set of naturals.
LEMMA QbMin ==
  ASSUME NEW S, S \subseteq Nat, S # {}
  PROVE  Min(S) \in S /\ \A y \in S : Min(S) <= y
<1>1. PICK x \in S : \A y \in S : ~(<<y, x>> \in OpToRel(<, Nat))
  BY NatLessThanWellFounded, WFMin
<1>2. \A y \in S : x <= y
  <2> SUFFICES ASSUME NEW y \in S PROVE x <= y  OBVIOUS
  <2>1. y < x => <<y, x>> \in OpToRel(<, Nat)  BY DEF OpToRel
  <2>2. ~(y < x)  BY <1>1, <2>1
  <2>3. x \in Nat /\ y \in Nat  OBVIOUS
  <2> QED BY <2>2, <2>3, SMTT(20)
<1> QED BY <1>2 DEF Min

\* The end of a schedule's use is within the window of each of its receipts.
LEMMA QbUntil ==
  ASSUME NEW s \in Schedules, NEW m \in QbModels
  PROVE  /\ s.until \in Nat
         /\ ReceiptUntil[s.phys[m].through] \in Nat /\ ReceiptUntil[s.phys[m].power] \in Nat
         /\ s.until <= ReceiptUntil[s.phys[m].through]
         /\ s.until <= ReceiptUntil[s.phys[m].power]
<1>1. PICK rel \in QbReleases : s = BuildCataloguePriceSchedule(rel)
  BY DEF Schedules
<1> DEFINE W == {BoardUntil[rel.board], ReceiptUntil[rel.power]}
                  \cup {ReceiptUntil[rel.through[n]] : n \in QbModels}
<1>2. W \subseteq Nat /\ W # {}
  BY QbAssumption
<1>3. Min(W) \in W /\ \A y \in W : Min(W) <= y
  <2> HIDE DEF W
  <2> QED BY <1>2, QbMin
<1>4. s.until = Min(W)
  BY <1>1, SMTT(20) DEF BuildCataloguePriceSchedule, CurrentUseUntil
<1>5. s.phys[m] = Physical(rel, m)
  BY <1>1, SMTT(20) DEF BuildCataloguePriceSchedule
<1>6. s.phys[m].through = rel.through[m] /\ s.phys[m].power = rel.power
  BY <1>5, SMTT(20) DEF Physical
<1>7. ReceiptUntil[rel.through[m]] \in W /\ ReceiptUntil[rel.power] \in W
  OBVIOUS
<1> QED
  <2> HIDE DEF W
  <2> QED BY <1>2, <1>3, <1>4, <1>6, <1>7

\* A published schedule stays published, so what rests on it keeps its form.
LEMMA QbPlanKept ==
  ASSUME NEW ps, NEW qs, ps \subseteq qs, NEW plan, IsPlan(ps, plan)
  PROVE  IsPlan(qs, plan)
BY DEF IsPlan

LEMMA QbPromiseKept ==
  ASSUME NEW ps, NEW qs, ps \subseteq qs, NEW w, Promise(ps, w)
  PROVE  Promise(qs, w)
BY QbPlanKept DEF Promise

LEMMA QbCallKept ==
  ASSUME NEW ps, NEW qs, ps \subseteq qs, NEW known, NEW more, known \subseteq more,
         NEW w, CallInv(ps, known, w)
  PROVE  CallInv(qs, more, w)
BY QbPlanKept, QbPromiseKept DEF CallInv

\* A plan's parts.
LEMMA QbPlanParts ==
  ASSUME NEW ps, NEW plan, IsPlan(ps, plan)
  PROVE  /\ plan.sched \in ps /\ plan.sla \in BOOLEAN
         /\ plan = QuotePlan(plan.sched, plan.econ, plan.sla)
<1>1. PICK s \in ps, e \in {rel.econ : rel \in QbReleases}, sla \in BOOLEAN :
        plan = QuotePlan(s, e, sla)
  BY DEF IsPlan
<1>2. plan.sched = s /\ plan.econ = e /\ plan.sla = sla
  BY <1>1, SMTT(20) DEF QuotePlan
<1> QED BY <1>1, <1>2

\* A release's own physical snapshot names its selected cell.
LEMMA QbCell ==
  ASSUME NEW rel, NEW m
  PROVE  /\ Physical(rel, m).through = SelectedCell(rel, m).through
         /\ Physical(rel, m).build = rel.build /\ SelectedCell(rel, m).build = rel.build
         /\ SelectedCell(rel, m) = [through |-> Physical(rel, m).through,
                                   build |-> Physical(rel, m).build]
BY SMTT(20) DEF Physical, SelectedCell

\* The invariant makes the durable boundary accept an unexpired firm quote: its
\* evidence outlives it, and its plan rebuilds to itself.
LEMMA QbFirm == QbInv => FirmQuoteIsHonoured
<1> SUFFICES ASSUME QbInv, NEW q \in DOMAIN quotes, NEW p \in QbProcs,
                    qbClock < quotes[q].expires,
                    \A m \in QbModels : quotes[q].plan.sched.phys[m] = Physical(runs[p], m),
                    pointed.phys[quotes[q].model] = quotes[q].plan.sched.phys[quotes[q].model],
                    quotes[q].plan.econ = runs[p].econ
             PROVE  /\ QuoteBindable(p, q)
                    /\ AdmissibleAt(p, [step |-> "bound", model |-> quotes[q].model,
                                        quote |-> q, firm |-> TRUE, plan |-> quotes[q].plan])
  BY DEF FirmQuoteIsHonoured
<1> DEFINE s == quotes[q].plan.sched
           m0 == quotes[q].model
           w == [step |-> "bound", model |-> m0, quote |-> q, firm |-> TRUE,
                 plan |-> quotes[q].plan]
<1>1. /\ m0 \in QbModels /\ IsPlan(published, quotes[q].plan) /\ MeasuredSchedule(s)
      /\ quotes[q].expires \in Nat /\ quotes[q].expires <= s.until /\ qbClock \in Nat
  BY DEF QbInv, QuoteInv, Promise
<1>2. s \in published /\ s \in Schedules /\ quotes[q].plan.sla \in BOOLEAN
      /\ quotes[q].plan = QuotePlan(s, quotes[q].plan.econ, quotes[q].plan.sla)
  BY <1>1, QbPlanParts DEF QbInv
<1>3. /\ w.step = "bound" /\ w.model = m0 /\ w.quote = q /\ w.firm = TRUE
      /\ w.plan = quotes[q].plan
  BY SMTT(20)
<1>4. \A m \in QbModels : WithinWindow(s.phys[m].through) /\ WithinWindow(s.phys[m].power)
  <2> SUFFICES ASSUME NEW m \in QbModels
               PROVE  WithinWindow(s.phys[m].through) /\ WithinWindow(s.phys[m].power)
    OBVIOUS
  <2>1. /\ s.until \in Nat
        /\ ReceiptUntil[s.phys[m].through] \in Nat /\ ReceiptUntil[s.phys[m].power] \in Nat
        /\ s.until <= ReceiptUntil[s.phys[m].through]
        /\ s.until <= ReceiptUntil[s.phys[m].power]
    BY <1>2, QbUntil
  <2> HIDE DEF s
  <2> QED BY <1>1, <2>1, SMTT(20) DEF WithinWindow
<1> USE DEF s
<1>5. \A m \in QbModels : /\ s.phys[m].through = SelectedCell(runs[p], m).through
                          /\ s.phys[m].build = runs[p].build
                          /\ SelectedCell(runs[p], m).build = runs[p].build
                          /\ SelectedCell(runs[p], m) = [through |-> s.phys[m].through,
                                                        build |-> s.phys[m].build]
  <2> SUFFICES ASSUME NEW m \in QbModels
               PROVE  /\ s.phys[m].through = SelectedCell(runs[p], m).through
                      /\ s.phys[m].build = runs[p].build
                      /\ SelectedCell(runs[p], m).build = runs[p].build
                      /\ SelectedCell(runs[p], m) = [through |-> s.phys[m].through,
                                                    build |-> s.phys[m].build]
    OBVIOUS
  <2>1. s.phys[m] = Physical(runs[p], m)
    OBVIOUS
  <2> HIDE DEF s
  <2>2. /\ Physical(runs[p], m).through = SelectedCell(runs[p], m).through
        /\ Physical(runs[p], m).build = runs[p].build
        /\ SelectedCell(runs[p], m).build = runs[p].build
        /\ SelectedCell(runs[p], m) = [through |-> Physical(runs[p], m).through,
                                      build |-> Physical(runs[p], m).build]
    BY QbCell
  <2> QED BY <2>1, <2>2
<1> HIDE DEF s
<1>6. \A m \in QbModels : ThroughputCurrent(runs[p], m, s.phys[m])
  BY <1>1, <1>4, <1>5 DEF ThroughputCurrent, CitesSelectedCell, MeasuredOn, MeasuredSchedule
<1>7. BoundCurrent(runs[p], s)
  <2>1. \A m \in QbModels : PowerCurrent(runs[p], s.phys[m])
    BY <1>1, <1>4, <1>5 DEF PowerCurrent, PowerIdentity, PowerCoverage, PowerFresh,
       MeasuredSchedule
  <2> QED BY <1>6, <2>1 DEF BoundCurrent, SchedulePhysicalCurrent
<1>8. PlacementCurrent(runs[p], m0, s.phys[m0])
  BY <1>1, <1>4, <1>5 DEF PlacementCurrent, ProjectionCurrent, Posture, MeasuredSchedule
<1>9. DecisionRebuilds(w)
  <2>1. ExecutionPlan(w) = QuotePlan(s, quotes[q].plan.econ, quotes[q].plan.sla /\ TRUE)
    BY <1>3 DEF ExecutionPlan, s
  <2>2. (quotes[q].plan.sla /\ TRUE) = quotes[q].plan.sla
    BY <1>2
  <2> QED BY <1>2, <1>3, <2>1, <2>2 DEF DecisionRebuilds
<1>10. QuoteBindable(p, q) /\ QuoteAlive(q)
  <2>1. quotes[q].expires > qbClock  BY <1>1, SMTT(20)
  <2> QED BY <1>2, <2>1 DEF QuoteBindable, AtSchedule, QuoteAlive, s
<1>11. AdmissibleAt(p, w)
  <2> HIDE DEF w
  <2>1. w.plan.sched = s /\ w.step # "plain"
    BY <1>3 DEF s
  <2> QED BY <1>2, <1>3, <1>7, <1>8, <1>9, <1>10, <2>1
          DEF AdmissibleAt, AtSchedule, PhysicalPointer, s
<1> QED BY <1>10, <1>11

\* The initial state has one published schedule and no quote, call or job.
LEMMA QbInitial == QbInit => QbInv
<1> SUFFICES ASSUME QbInit PROVE QbInv  OBVIOUS
<1>1. qbClock \in Nat  BY SMTT(20) DEF QbInit
<1>2. runs \in [QbProcs -> QbReleases]  BY QbAssumption DEF QbInit
<1>3. published \subseteq Schedules /\ pointed \in published
  BY QbAssumption DEF QbInit, Schedules
<1>4. DOMAIN quotes = {}  BY DEF QbInit
<1>5. QuoteInv
  <2>1. IsFiniteSet({}) /\ Cardinality({}) = 0  BY FS_EmptySet
  <2>2. {} = 1..0  BY SMTT(20)
  <2> QED BY <1>4, <2>1, <2>2 DEF QuoteInv
<1>6. work = [p \in QbProcs |-> work[p]] /\ \A p \in QbProcs : work[p] = QbIdle
  BY DEF QbInit
<1>7. JobInv
  BY DEF QbInit, JobInv, UnquotedAtCurrentPrice, BoundUnderCurrentEvidence,
     AcceptedOnFreshEvidence
<1> QED BY <1>1, <1>2, <1>3, <1>5, <1>6, <1>7 DEF QbInv, CallInv

\* A step that gives one call a legal state, and forgets no schedule and no quote,
\* leaves every call legal.
LEMMA QbCalls ==
  ASSUME QbInv, NEW p \in QbProcs, published \subseteq published',
         DOMAIN quotes \subseteq DOMAIN quotes', work' = [work EXCEPT ![p] = work'[p]],
         CallInv(published', DOMAIN quotes', work'[p])
  PROVE  /\ work' = [r \in QbProcs |-> work'[r]]
         /\ \A r \in QbProcs : CallInv(published', DOMAIN quotes', work'[r])
<1>1. work = [r \in QbProcs |-> work[r]]
  BY DEF QbInv
<1>2. work' = [r \in QbProcs |-> IF r = p THEN work'[p] ELSE work[r]]
  BY <1>1
<1>3. \A r \in QbProcs : CallInv(published', DOMAIN quotes', work[r])
  BY QbCallKept DEF QbInv
<1> QED BY <1>2, <1>3

\* Accepted jobs stay as they are while no job is added and quotes are kept.
LEMMA QbJobsKept ==
  ASSUME JobInv, qbAccepted' = qbAccepted, DOMAIN quotes \subseteq DOMAIN quotes',
         \A q \in DOMAIN quotes : quotes'[q] = quotes[q]
  PROVE  JobInv'
<1>1. UnquotedAtCurrentPrice' /\ AcceptedOnFreshEvidence'
  BY DEF JobInv, UnquotedAtCurrentPrice, AcceptedOnFreshEvidence
<1>2. \A j \in qbAccepted : j.quote # 0 =>
        j.quote \in DOMAIN quotes' /\ quotes'[j.quote] = quotes[j.quote]
  BY DEF JobInv
<1>3. BoundUnderCurrentEvidence'
  BY <1>2 DEF JobInv, BoundUnderCurrentEvidence
<1> QED BY <1>1, <1>2, <1>3 DEF JobInv

\* Quotes that a step leaves alone stay promises.
LEMMA QbQuotesKept ==
  ASSUME QuoteInv, quotes' = quotes, published \subseteq published'
  PROVE  QuoteInv'
BY QbPromiseKept DEF QuoteInv

LEMMA QbBoot ==
  ASSUME QbInv, NEW p \in QbProcs, NEW rel \in QbReleases, Boot(p, rel)
  PROVE  QbInv'
<1> DEFINE sched == BuildCataloguePriceSchedule(rel)
<1>1. published' = published \cup {sched} /\ pointed' = sched /\ sched \in Schedules
  BY DEF Boot, Schedules
<1>2. runs' \in [QbProcs -> QbReleases]  BY DEF Boot, QbInv
<1>3. CallInv(published', DOMAIN quotes', QbIdle)  BY DEF CallInv
<1>4. work' = [work EXCEPT ![p] = QbIdle] /\ quotes' = quotes /\ qbAccepted' = qbAccepted
      /\ qbClock' = qbClock
  BY DEF Boot
<1> HIDE DEF sched
<1>5. work' = [r \in QbProcs |-> work'[r]]
      /\ \A r \in QbProcs : CallInv(published', DOMAIN quotes', work'[r])
  <2>1. published \subseteq published' /\ DOMAIN quotes \subseteq DOMAIN quotes'
    BY <1>1, <1>4
  <2>2. work'[p] = QbIdle  BY <1>4 DEF QbInv
  <2> QED BY <1>3, <1>4, <2>1, <2>2, QbCalls
<1>6. QuoteInv'  BY <1>1, <1>4, QbQuotesKept DEF QbInv
<1>7. JobInv'  BY <1>4, QbJobsKept DEF QbInv
<1> QED BY <1>1, <1>2, <1>4, <1>5, <1>6, <1>7 DEF QbInv

\* A step that only moves one call.
LEMMA QbQuiet ==
  ASSUME QbInv, NEW p \in QbProcs, qbClock' = qbClock, runs' = runs, published' = published,
         pointed' = pointed, quotes' = quotes, qbAccepted' = qbAccepted,
         work' = [work EXCEPT ![p] = work'[p]],
         CallInv(published, DOMAIN quotes, work'[p])
  PROVE  QbInv'
<1>1. /\ work' = [r \in QbProcs |-> work'[r]]
      /\ \A r \in QbProcs : CallInv(published', DOMAIN quotes', work'[r])
  BY QbCalls
<1>2. QuoteInv'  BY QbQuotesKept DEF QbInv
<1>3. JobInv'  BY QbJobsKept DEF QbInv
<1> QED BY <1>1, <1>2, <1>3 DEF QbInv

LEMMA QbBuildQuote ==
  ASSUME QbInv, NEW p \in QbProcs, NEW m \in QbModels, NEW sla \in SLAOffers,
         BuildQuote(p, m, sla)
  PROVE  QbInv'
<1> DEFINE pl == QuotePlan(pointed, runs[p].econ, sla)
           ex == QuoteExpiry(pointed, m)
<1>1. /\ qbClock' = qbClock /\ runs' = runs /\ published' = published /\ pointed' = pointed
      /\ quotes' = quotes /\ qbAccepted' = qbAccepted
      /\ work' = [work EXCEPT ![p] = [step |-> "quote", model |-> m, plan |-> pl,
                                      expires |-> ex]]
  BY DEF BuildQuote
<1>2. IsPlan(published, pl) /\ pl.sched = pointed
  <2>1. pointed \in published /\ runs[p] \in QbReleases /\ sla \in BOOLEAN
    BY DEF QbInv, SLAOffers
  <2>2. IsPlan(published, pl)  BY <2>1 DEF IsPlan
  <2>3. pl.sched = pointed  BY SMTT(20) DEF QuotePlan
  <2> QED BY <2>2, <2>3
<1>3. ex \in Nat /\ ex <= pointed.until
  <2> DEFINE W == {qbClock + QuoteTTL, pointed.until, ReceiptUntil[pointed.phys[m].through]}
  <2>1. pointed.until \in Nat /\ ReceiptUntil[pointed.phys[m].through] \in Nat
    BY QbUntil DEF QbInv
  <2>2. qbClock + QuoteTTL \in Nat  BY QbAssumption, SMTT(20) DEF QbInv
  <2>3. W \subseteq Nat /\ W # {} /\ pointed.until \in W  BY <2>1, <2>2
  <2>4. ex = Min(W)  BY DEF QuoteExpiry
  <2> HIDE DEF W, ex
  <2> QED BY <2>3, <2>4, QbMin
<1> HIDE DEF pl, ex
<1>4. work'[p] = [step |-> "quote", model |-> m, plan |-> pl, expires |-> ex]
  BY <1>1 DEF QbInv
<1>5. /\ work'[p].step = "quote" /\ work'[p].model = m /\ work'[p].plan = pl
      /\ work'[p].expires = ex
  BY <1>4, SMTT(20)
<1>6. CallInv(published, DOMAIN quotes, work'[p])
  BY <1>2, <1>3, <1>5 DEF CallInv, Promise
<1>7. work' = [work EXCEPT ![p] = work'[p]]
  BY <1>1, <1>4
<1> QED BY <1>1, <1>6, <1>7, QbQuiet

LEMMA QbPriceUnquoted ==
  ASSUME QbInv, NEW p \in QbProcs, NEW m \in QbModels, PriceUnquoted(p, m)
  PROVE  QbInv'
<1> DEFINE pl == QuotePlan(pointed, runs[p].econ, FALSE)
<1>1. /\ qbClock' = qbClock /\ runs' = runs /\ published' = published /\ pointed' = pointed
      /\ quotes' = quotes /\ qbAccepted' = qbAccepted
      /\ work' = [work EXCEPT ![p] = [step |-> "plain", model |-> m, plan |-> pl]]
  BY DEF PriceUnquoted
<1>2. IsPlan(published, pl)
  BY DEF IsPlan, QbInv
<1> HIDE DEF pl
<1>3. work'[p] = [step |-> "plain", model |-> m, plan |-> pl]
  BY <1>1 DEF QbInv
<1>4. work'[p].step = "plain" /\ work'[p].model = m /\ work'[p].plan = pl
  BY <1>3, SMTT(20)
<1>5. CallInv(published, DOMAIN quotes, work'[p])
  BY <1>2, <1>4 DEF CallInv
<1>6. work' = [work EXCEPT ![p] = work'[p]]
  BY <1>1, <1>3
<1> QED BY <1>1, <1>5, <1>6, QbQuiet

LEMMA QbBindQuote ==
  ASSUME QbInv, NEW p \in QbProcs, NEW q \in DOMAIN quotes, NEW firm \in BOOLEAN,
         BindQuote(p, q, firm)
  PROVE  QbInv'
<1> DEFINE pl == quotes[q].plan
           mo == quotes[q].model
<1>1. /\ qbClock' = qbClock /\ runs' = runs /\ published' = published /\ pointed' = pointed
      /\ quotes' = quotes /\ qbAccepted' = qbAccepted
      /\ work' = [work EXCEPT ![p] = [step |-> "bound", model |-> mo, quote |-> q,
                                      firm |-> firm, plan |-> pl]]
  BY DEF BindQuote
<1>2. IsPlan(published, pl) /\ mo \in QbModels
  BY DEF QbInv, QuoteInv, Promise
<1> HIDE DEF pl, mo
<1>3. work'[p] = [step |-> "bound", model |-> mo, quote |-> q, firm |-> firm, plan |-> pl]
  BY <1>1 DEF QbInv
<1>4. /\ work'[p].step = "bound" /\ work'[p].model = mo /\ work'[p].plan = pl
      /\ work'[p].quote = q
  BY <1>3, SMTT(20)
<1>5. CallInv(published, DOMAIN quotes, work'[p])
  BY <1>2, <1>4 DEF CallInv
<1>6. work' = [work EXCEPT ![p] = work'[p]]
  BY <1>1, <1>3
<1> QED BY <1>1, <1>5, <1>6, QbQuiet

LEMMA QbAbandon ==
  ASSUME QbInv, NEW p \in QbProcs, AbandonCall(p)
  PROVE  QbInv'
<1>1. /\ qbClock' = qbClock /\ runs' = runs /\ published' = published /\ pointed' = pointed
      /\ quotes' = quotes /\ qbAccepted' = qbAccepted
      /\ work' = [work EXCEPT ![p] = QbIdle]
  BY DEF AbandonCall
<1>2. work'[p] = QbIdle  BY <1>1 DEF QbInv
<1>3. CallInv(published, DOMAIN quotes, work'[p])  BY <1>2 DEF CallInv
<1>4. work' = [work EXCEPT ![p] = work'[p]]  BY <1>1, <1>2
<1> QED BY <1>1, <1>3, <1>4, QbQuiet

\* What the step of a call says of it.
LEMMA QbCallForm ==
  ASSUME NEW ps, NEW known, NEW w, CallInv(ps, known, w)
  PROVE  /\ w.step = "quote" => Promise(ps, w)
         /\ w.step \in {"plain", "bound"} => w.model \in QbModels /\ IsPlan(ps, w.plan)
         /\ w.step = "bound" => w.quote \in known
<1>1. QbIdle.step = "idle"  BY SMTT(20) DEF QbIdle
<1> QED BY <1>1 DEF CallInv

\* A quote is stored under the next number, on evidence that measured its builds.
LEMMA QbInsert ==
  ASSUME QbInv, NEW p \in QbProcs, InsertQuote(p)
  PROVE  QbInv'
<1> DEFINE w == work[p]
           c == Cardinality(DOMAIN quotes)
           row == [model |-> w.model, plan |-> w.plan, expires |-> w.expires]
<1>1. /\ qbClock' = qbClock /\ runs' = runs /\ published' = published /\ pointed' = pointed
      /\ qbAccepted' = qbAccepted /\ work' = [work EXCEPT ![p] = QbIdle]
      /\ w.step = "quote" /\ ScheduleCurrent(runs[p], w.plan.sched)
      /\ quotes' = [i \in DOMAIN quotes \cup {c + 1} |-> IF i = c + 1 THEN row ELSE quotes[i]]
  BY DEF InsertQuote
<1>2. Promise(published, w)
  BY <1>1, QbCallForm DEF QbInv
<1>3. MeasuredSchedule(w.plan.sched)
  BY <1>1 DEF ScheduleCurrent, SchedulePhysicalCurrent, ThroughputCurrent, MeasuredOn,
     PowerCurrent, PowerIdentity, MeasuredSchedule
<1>4. IsFiniteSet(DOMAIN quotes) /\ DOMAIN quotes = 1..c /\ c \in Nat
  BY FS_CardinalityType DEF QbInv, QuoteInv
<1>5. row.model = w.model /\ row.plan = w.plan /\ row.expires = w.expires
  BY SMTT(20)
<1> HIDE DEF w, c, row
<1>6. c + 1 \notin DOMAIN quotes /\ DOMAIN quotes \cup {c + 1} = 1..(c + 1)
  <2>1. c + 1 \notin 1..c /\ 1..c \cup {c + 1} = 1..(c + 1)  BY <1>4, SMTT(20)
  <2> QED BY <1>4, <2>1
<1>7. DOMAIN quotes' = DOMAIN quotes \cup {c + 1}  BY <1>1
<1>8. IsFiniteSet(DOMAIN quotes') /\ Cardinality(DOMAIN quotes') = c + 1
  <2>1. /\ IsFiniteSet(DOMAIN quotes \cup {c + 1})
        /\ Cardinality(DOMAIN quotes \cup {c + 1})
             = IF c + 1 \in DOMAIN quotes THEN Cardinality(DOMAIN quotes)
               ELSE Cardinality(DOMAIN quotes) + 1
    BY <1>4, FS_AddElement
  <2> QED BY <1>6, <1>7, <2>1 DEF c
<1>9. quotes'[c + 1] = row /\ \A q \in DOMAIN quotes : quotes'[q] = quotes[q]
  BY <1>1, <1>6
<1>10. QuoteInv'
  <2>1. Promise(published, row) /\ MeasuredSchedule(row.plan.sched)
    BY <1>2, <1>3, <1>5 DEF Promise
  <2>2. \A q \in DOMAIN quotes' :
          Promise(published, quotes'[q]) /\ MeasuredSchedule(quotes'[q].plan.sched)
    BY <1>7, <1>9, <2>1 DEF QbInv, QuoteInv
  <2>3. DOMAIN quotes' = 1..Cardinality(DOMAIN quotes')
    BY <1>6, <1>7, <1>8
  <2> QED BY <1>1, <1>8, <2>2, <2>3 DEF QuoteInv
<1>11. JobInv'
  <2>1. DOMAIN quotes \subseteq DOMAIN quotes'  BY <1>7
  <2> QED BY <1>1, <1>9, <2>1, QbJobsKept DEF QbInv
<1>12. /\ work' = [r \in QbProcs |-> work'[r]]
       /\ \A r \in QbProcs : CallInv(published', DOMAIN quotes', work'[r])
  <2>1. work'[p] = QbIdle  BY <1>1 DEF QbInv
  <2>2. CallInv(published', DOMAIN quotes', work'[p])  BY <2>1 DEF CallInv
  <2>3. work' = [work EXCEPT ![p] = work'[p]]  BY <1>1, <2>1
  <2> QED BY <1>1, <1>7, <2>2, <2>3, QbCalls
<1> QED BY <1>1, <1>10, <1>11, <1>12 DEF QbInv

\* A job is accepted only on what holds at that instant: the boundary reads the
\* pointer, the windows and the quote again.
LEMMA QbSubmit ==
  ASSUME QbInv, NEW p \in QbProcs, SubmitPriced(p)
  PROVE  QbInv'
<1> DEFINE w == work[p]
           no == IF w.step = "bound" THEN w.quote ELSE 0
           job == [model |-> w.model, plan |-> ExecutionPlan(w), at |-> qbClock,
                   quote |-> no, pointed |-> pointed]
<1>1. /\ qbClock' = qbClock /\ runs' = runs /\ published' = published /\ pointed' = pointed
      /\ quotes' = quotes /\ work' = [work EXCEPT ![p] = QbIdle]
      /\ w.step \in {"plain", "bound"} /\ AdmissibleAt(p, w)
      /\ qbAccepted' = qbAccepted \cup {job}
  BY DEF SubmitPriced
<1>2. /\ w.model \in QbModels /\ IsPlan(published, w.plan)
      /\ w.step = "bound" => w.quote \in DOMAIN quotes
  BY <1>1, QbCallForm DEF QbInv
<1>3. /\ job.model = w.model /\ job.plan = ExecutionPlan(w) /\ job.at = qbClock
      /\ job.quote = no /\ job.pointed = pointed
  BY SMTT(20)
<1>4. ExecutionPlan(w) = w.plan
  BY <1>1 DEF AdmissibleAt, DecisionRebuilds
<1>5. w.step = "bound" => w.quote # 0
  <2>1. DOMAIN quotes = 1..Cardinality(DOMAIN quotes) /\ Cardinality(DOMAIN quotes) \in Nat
    BY FS_CardinalityType DEF QbInv, QuoteInv
  <2> HIDE DEF w
  <2>2. \A i \in DOMAIN quotes : i # 0  BY <2>1, SMTT(20)
  <2> QED BY <1>2, <2>2
<1>6. w.step = "plain" => pointed = w.plan.sched
  BY <1>1 DEF AdmissibleAt, PointerCurrent
<1>7. w.step = "bound" => /\ pointed.phys[w.model] = w.plan.sched.phys[w.model]
                          /\ quotes[w.quote].expires > qbClock
  BY <1>1 DEF AdmissibleAt, PhysicalPointer, QuoteAlive
<1>8. SchedulePhysicalCurrent(runs[p], w.plan.sched)
  BY <1>1 DEF AdmissibleAt, ScheduleCurrent, BoundCurrent
<1>9. /\ qbClock <= ReceiptUntil[w.plan.sched.phys[w.model].through]
      /\ qbClock <= ReceiptUntil[w.plan.sched.phys[w.model].power]
  BY <1>2, <1>8 DEF SchedulePhysicalCurrent, ThroughputCurrent, PowerCurrent, PowerFresh,
     WithinWindow
<1>10. w.step = "bound" => qbClock < quotes[w.quote].expires
  <2>1. ASSUME w.step = "bound"
        PROVE  quotes[w.quote].expires \in Nat /\ qbClock \in Nat
    BY <1>2, <2>1 DEF QbInv, QuoteInv, Promise
  <2> HIDE DEF w
  <2> QED BY <1>7, <2>1, SMTT(20)
<1> HIDE DEF w, job
<1>11. JobInv'
  <2>1. job.quote # 0 => w.step = "bound" /\ job.quote = w.quote
    BY <1>1, <1>3
  <2>2. job.quote = 0 => w.step = "plain"
    BY <1>1, <1>3, <1>5
  <2>3. UnquotedAtCurrentPrice'
    BY <1>1, <1>3, <1>4, <1>6, <2>2 DEF QbInv, JobInv, UnquotedAtCurrentPrice
  <2>4. BoundUnderCurrentEvidence'
    BY <1>1, <1>3, <1>4, <1>7, <1>10, <2>1 DEF QbInv, JobInv, BoundUnderCurrentEvidence
  <2>5. AcceptedOnFreshEvidence'
    BY <1>1, <1>3, <1>4, <1>9 DEF QbInv, JobInv, AcceptedOnFreshEvidence
  <2>6. \A j \in qbAccepted' : j.quote # 0 => j.quote \in DOMAIN quotes'
    BY <1>1, <1>2, <2>1 DEF QbInv, JobInv
  <2> QED BY <2>3, <2>4, <2>5, <2>6 DEF JobInv
<1>12. /\ work' = [r \in QbProcs |-> work'[r]]
       /\ \A r \in QbProcs : CallInv(published', DOMAIN quotes', work'[r])
  <2>1. work'[p] = QbIdle  BY <1>1 DEF QbInv
  <2>2. CallInv(published', DOMAIN quotes', work'[p])  BY <2>1 DEF CallInv
  <2>3. work' = [work EXCEPT ![p] = work'[p]]  BY <1>1, <2>1
  <2> QED BY <1>1, <2>2, <2>3, QbCalls
<1>13. QuoteInv'  BY <1>1, QbQuotesKept DEF QbInv
<1> QED BY <1>1, <1>11, <1>12, <1>13 DEF QbInv

\* Every step keeps the invariant: one lemma per action.
LEMMA QbStep == QbInv /\ [QbNext]_qbVars => QbInv'
<1> SUFFICES ASSUME QbInv, [QbNext]_qbVars PROVE QbInv'  OBVIOUS
<1>1. ASSUME TickQuotes PROVE QbInv'
  <2>1. /\ runs' = runs /\ published' = published /\ pointed' = pointed /\ quotes' = quotes
        /\ work' = work /\ qbAccepted' = qbAccepted /\ qbClock' = qbClock + 1
    BY <1>1 DEF TickQuotes
  <2>2. qbClock' \in Nat  BY <2>1, SMTT(20) DEF QbInv
  <2>3. QuoteInv' /\ JobInv'  BY <2>1, QbQuotesKept, QbJobsKept DEF QbInv
  <2> QED BY <2>1, <2>2, <2>3 DEF QbInv
<1>2. ASSUME UNCHANGED qbVars PROVE QbInv'
  <2>1. /\ runs' = runs /\ published' = published /\ pointed' = pointed /\ quotes' = quotes
        /\ work' = work /\ qbAccepted' = qbAccepted /\ qbClock' = qbClock
    BY <1>2 DEF qbVars
  <2>2. QuoteInv' /\ JobInv'  BY <2>1, QbQuotesKept, QbJobsKept DEF QbInv
  <2> QED BY <2>1, <2>2 DEF QbInv
<1>3. ASSUME NEW p \in QbProcs, NEW rel \in QbReleases, Boot(p, rel) PROVE QbInv'
  BY <1>3, QbBoot
<1>4. ASSUME NEW p \in QbProcs, NEW m \in QbModels, PriceUnquoted(p, m) PROVE QbInv'
  BY <1>4, QbPriceUnquoted
<1>5. ASSUME NEW p \in QbProcs, NEW m \in QbModels, NEW sla \in SLAOffers, BuildQuote(p, m, sla)
      PROVE  QbInv'
  BY <1>5, QbBuildQuote
<1>6. ASSUME NEW p \in QbProcs, InsertQuote(p) PROVE QbInv'
  BY <1>6, QbInsert
<1>7. ASSUME NEW p \in QbProcs, SubmitPriced(p) PROVE QbInv'
  BY <1>7, QbSubmit
<1>8. ASSUME NEW p \in QbProcs, AbandonCall(p) PROVE QbInv'
  BY <1>8, QbAbandon
<1>9. ASSUME NEW p \in QbProcs, NEW q \in DOMAIN quotes, NEW firm \in BOOLEAN,
             BindQuote(p, q, firm)
      PROVE  QbInv'
  BY <1>9, QbBindQuote
<1> QED BY <1>1, <1>2, <1>3, <1>4, <1>5, <1>6, <1>7, <1>8, <1>9 DEF QbNext

\* For any number of releases, processes, models and quotes: an unexpired firm
\* quote is accepted by every process that still runs its evidence, an unquoted
\* job carries the pointed schedule, and no job rests on expired evidence.
THEOREM QbQuotesBind == QbSpec => []QuotesBind
<1>1. QbInv => QuotesBind
  BY QbFirm DEF QbInv, JobInv, QuotesBind
<1> QED BY <1>1, QbInitial, QbStep, PTL DEF QbSpec
=============================================================================
