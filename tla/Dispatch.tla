------------------------------ MODULE Dispatch ------------------------------
(***************************************************************************)
(* Batch dispatch: the claim one polling worker makes against the live     *)
(* queue (ClaimTasksTx and the statement claimTaskSQL builds), the budget  *)
(* governor that bounds it, and the two diagnostics that re-state its      *)
(* predicates (MeasureClaimNarrowing, SchedulerExplain).                   *)
(*                                                                         *)
(* A claim is two steps.  Its first statement reads one snapshot, ranks    *)
(* the tasks the worker may take and locks the best one nobody else has    *)
(* locked (FOR UPDATE SKIP LOCKED).  The rest of the transaction waits for *)
(* the job row, checks the job's status and its spend cap again, and       *)
(* commits or rolls back.  Other claims, commits, failures and heartbeats  *)
(* fall between the two.                                                   *)
(*                                                                         *)
(* Machines and jobs are rows of constants: a machine is what its          *)
(* registration says, a job what its acceptance froze.  A task is a slot   *)
(* that is filled again after it is finished, so that the queue never      *)
(* runs dry; slots are numbers, in the order of their creation.  Which     *)
(* workers may vote on a chunk is TaskLifecycle's subject.                 *)
(***************************************************************************)
EXTENDS Integers, Sequences, FiniteSets, FiniteSetsExt

CONSTANTS
    DpWorkers, DpJobs, DpTasks,
    DpJobOf,        \* [DpTasks -> DpJobs]
    Machine,        \* [DpWorkers -> machine rows]
    Order,          \* [DpJobs -> job rows]
    Matrix,         \* the capability matrix this deployment was generated from
    Currency,       \* the deployment's settlement currency
    AskWindow,      \* askDeferralWindow, in steps of the clock
    MaxStreak,      \* three consecutive priority claims
    DpPins,         \* [DpTasks -> the pins a task may be born with]
    Steady,         \* machines that are never throttled nor silent
    NoOne, NoTask

VARIABLES
    dpTask,     \* task -> [status, holder, pin, age, excluded]; age < 0: not visible yet
    dpJob,      \* job -> status
    dpSpent,    \* job -> what its committed tasks were charged
    dpBudget,   \* job -> budget_state
    dpStreak,   \* worker -> priority_claim_streak
    dpOnline,   \* workers seen within a minute
    dpThrottled,\* workers pausing for memory pressure
    dpClaim     \* worker -> the task its open claim transaction holds

dpVars == <<dpTask, dpJob, dpSpent, dpBudget, dpStreak, dpOnline,
            dpThrottled, dpClaim>>

DpTerminal(j) == dpJob[j] \in {"cancelled", "failed", "complete"}

TasksIn(j) == {t \in DpTasks : DpJobOf[t] = j}

(***************************************************************************)
(* The predicates of one statement.                                        *)
(***************************************************************************)
\* hwClassCostRank: the marginal cost of a hardware class, unknown classes last.
CostRank == [apple_silicon_base |-> 0, apple_silicon_pro |-> 1,
             apple_silicon_max |-> 2, apple_silicon_ultra |-> 3,
             nvidia_24gb |-> 4, nvidia_48gb |-> 5, nvidia_80gb |-> 6,
             nvidia_180gb |-> 7, unknown |-> 99]

RankOf(w) == CostRank[Machine[w].class]

\* buyerSupplierLinkSignals and the predicates built from it: the buyer owns
\* the supplier, enrolled it, or shares a private mail domain with it.
LinkSignals(w, b) ==
    {s \in {"owner_buyer_id", "email_domain", "enrollment_device"} :
        <<s, b>> \in Machine[w].links}

Unlinked(w, j) == LinkSignals(w, Order[j].buyer) = {}

\* workerJobContainmentSQL with workerDeviceBoundSQL.
Contained(w, j) ==
    /\ \/ Machine[w].sandboxed /\ Machine[w].deviceBound
       \/ Order[j].directed
    /\ ~Machine[w].optIn

\* The authorised cell the claim would freeze: exact cell, current matrix.  A
\* legacy job names no cell and may only meet a routable one.
CellsFor(w, j) ==
    {c \in Machine[w].cells :
        /\ c.matrix = Matrix
        /\ IF Order[j].legacy THEN c.routable ELSE c.id \in Order[j].cells}

\* Placement v3 pins one measured build and device; the other accepted
\* versions leave the identity to the frozen cells.
PlacementFits(w, j, identityFree) ==
    \/ Order[j].version \in identityFree
    \/ Order[j].version = 3 /\ Order[j].identity = Machine[w].identity

ClaimVersions == {0, 1, 2, 4}

\* The gates on machine and supplier that each of the statements repeats.
FitsContract(w, j, identityFree) ==
    /\ Order[j].memory <= Machine[w].memory
    /\ Order[j].classes = {} \/ Machine[w].class \in Order[j].classes
    /\ Order[j].rate >= Machine[w].ask
    /\ PlacementFits(w, j, identityFree)

FitsTrust(w, j) ==
    /\ Machine[w].active
    /\ w \notin dpThrottled
    /\ Order[j].reputation <= Machine[w].reputation
    /\ Order[j].tier = "trusted" => Machine[w].trusted
    /\ Contained(w, j)
    /\ Unlinked(w, j)

FitsRegion(w, j) ==
    Order[j].residency = {} \/ Machine[w].country \in Order[j].residency

Sufficient(w, j, identityFree) ==
    /\ FitsContract(w, j, identityFree) /\ FitsTrust(w, j) /\ FitsRegion(w, j)
    /\ CellsFor(w, j) # {}

\* A live rival of w that could take job j (the two EXISTS scans of the fleet).
Rival(w, v, j, identityFree) ==
    v # w /\ v \in dpOnline /\ Sufficient(v, j, identityFree)

CheaperClassOnline(w, j, identityFree) ==
    \E v \in DpWorkers : Rival(w, v, j, identityFree) /\ RankOf(v) < RankOf(w)

CheaperAskOnline(w, j, identityFree) ==
    \E v \in DpWorkers :
        Rival(w, v, j, identityFree) /\ Machine[v].ask < Machine[w].ask

InFlight(j) == Cardinality({t \in TasksIn(j) : dpTask[t].status = "running"})

\* The budget governor: spent, plus every task in flight, plus `more` further
\* tasks, plus the premium, against the cap.
DebtProjected(j, more) ==
    dpSpent[j] + (InFlight(j) + more) * Order[j].charge + Order[j].premium

WithinBudget(j, more) == Order[j].cap = 0 \/ DebtProjected(j, more) <= Order[j].cap

Waiting(t) == dpTask[t].status \in {"queued", "retrying"}

Visible(t) == Waiting(t) /\ dpTask[t].age >= 0

\* eligible_jobs: everything about a claim that depends on the job alone.
EligibleJob(w, j) ==
    /\ ~DpTerminal(j)
    /\ Order[j].currency = Currency
    /\ \E t \in TasksIn(j) : Visible(t) /\ dpTask[t].pin \in {NoOne, w}
    /\ Sufficient(w, j, ClaimVersions)
    /\ WithinBudget(j, 1)

\* A task is held back for a cheaper ask while it is younger than the window
\* and the wait fits the job's speed guarantee.
HeldBack(w, t, identityFree) ==
    /\ CheaperAskOnline(w, DpJobOf[t], identityFree)
    /\ dpTask[t].age < AskWindow
    /\ Order[DpJobOf[t]].slack

\* The rows of `next` for one of the two branches: pinned to w, or unclaimed.
Candidates(w, pinned) ==
    {t \in DpTasks :
        /\ Visible(t)
        /\ dpTask[t].pin = (IF pinned THEN w ELSE NoOne)
        /\ dpTask[t].excluded # w
        /\ EligibleJob(w, DpJobOf[t])
        /\ ~HeldBack(w, t, ClaimVersions)}

\* The claim's ORDER BY, as the list of its terms, smaller first.
AsInt(b) == IF b THEN 0 ELSE 1

DispatchedCount(j) ==
    Cardinality({t \in TasksIn(j) : dpTask[t].status \in {"running", "done"}})

Terms(w, t) ==
    LET j == DpJobOf[t]
        lane == IF dpStreak[w] >= MaxStreak THEN "batch" ELSE "priority"
    IN <<AsInt(Order[j].tier = lane), AsInt(Order[j].tier = "priority"),
         AsInt(~CheaperClassOnline(w, j, ClaimVersions)),
         AsInt(~CheaperAskOnline(w, j, ClaimVersions)),
         AsInt(j \in Machine[w].warm), DispatchedCount(j), t>>

Precedes(a, b) ==
    \E i \in DOMAIN a : a[i] < b[i] /\ \A k \in 1..(i - 1) : a[k] = b[k]

Best(w, S) == CHOOSE t \in S : \A u \in S \ {t} : Precedes(Terms(w, t), Terms(w, u))

LockedTasks == {dpClaim[w] : w \in DpWorkers} \ {NoTask}

(***************************************************************************)
(* ClaimTasksTx.                                                           *)
(***************************************************************************)
\* The claim statement, pinned branch first, then the unclaimed one.
ClaimSelect(w) ==
    /\ dpClaim[w] = NoTask
    /\ LET mine == Candidates(w, TRUE) \ LockedTasks
           free == Candidates(w, FALSE) \ LockedTasks
           S == IF mine # {} THEN mine ELSE free
       IN /\ S # {}
          /\ dpClaim' = [dpClaim EXCEPT ![w] = Best(w, S)]
    /\ UNCHANGED <<dpTask, dpJob, dpSpent, dpBudget, dpStreak,
                   dpOnline, dpThrottled>>

\* Mutant: the cap is trusted from the first statement's snapshot.
ClaimStands_Unchecked(w) == ~DpTerminal(DpJobOf[dpClaim[w]])

\* What is checked again under the job's row lock.  The claimed task counts as
\* in flight by then, which is the one further task here.
ClaimStands(w) ==
    LET j == DpJobOf[dpClaim[w]] IN ~DpTerminal(j) /\ WithinBudget(j, 1)

\* budgetWarnOnDispatch: tracking turns near_limit at four fifths of the cap.
WarnedBudget(j) ==
    IF Order[j].cap > 0 /\ dpBudget[j] = "tracking"
       /\ 5 * DebtProjected(j, 2) >= 4 * Order[j].cap
    THEN "near_limit" ELSE dpBudget[j]

NextStreak(w, tier) ==
    CASE tier = "priority" -> Min({dpStreak[w] + 1, MaxStreak})
      [] tier = "batch" -> 0
      [] OTHER -> dpStreak[w]

ClaimCommit(w) ==
    LET t == dpClaim[w]
        j == DpJobOf[t]
    IN /\ t # NoTask /\ ClaimStands(w)
       /\ dpTask' = [dpTask EXCEPT ![t].status = "running", ![t].holder = w]
       /\ dpJob' = [dpJob EXCEPT ![j] = IF @ = "queued" THEN "running" ELSE @]
       /\ dpBudget' = [dpBudget EXCEPT ![j] = WarnedBudget(j)]
       /\ dpStreak' = IF dpTask[t].pin = w THEN dpStreak
                      ELSE [dpStreak EXCEPT ![w] = NextStreak(w, Order[j].tier)]
       /\ dpClaim' = [dpClaim EXCEPT ![w] = NoTask]
       /\ UNCHANGED <<dpSpent, dpOnline, dpThrottled>>

\* The recheck fails: the rollback restores the queue and the pin.
ClaimRollback(w) ==
    /\ dpClaim[w] # NoTask /\ ~ClaimStands(w)
    /\ dpClaim' = [dpClaim EXCEPT ![w] = NoTask]
    /\ UNCHANGED <<dpTask, dpJob, dpSpent, dpBudget, dpStreak,
                   dpOnline, dpThrottled>>

(***************************************************************************)
(* What else moves the rows a claim reads.                                 *)
(***************************************************************************)
Fresh(pin) == [status |-> "queued", holder |-> NoOne, pin |-> pin, age |-> 0,
               excluded |-> NoOne]

\* A job's next task enters the queue, or a dynamic one born pinned to a peer.
Enqueue(t, pin) ==
    /\ dpTask[t].status \in {"absent", "done"}
    /\ ~DpTerminal(DpJobOf[t])
    /\ dpTask' = [dpTask EXCEPT ![t] = Fresh(pin)]
    /\ UNCHANGED <<dpJob, dpSpent, dpBudget, dpStreak, dpOnline,
                   dpThrottled, dpClaim>>

\* A running task is verified and charged its frozen amount.
Settle(t) ==
    LET j == DpJobOf[t] IN
    /\ dpTask[t].status = "running"
    /\ dpTask' = [dpTask EXCEPT ![t].status = "done"]
    /\ dpSpent' = [dpSpent EXCEPT
            ![j] = IF Order[j].cap = 0 THEN 0 ELSE @ + Order[j].charge]
    /\ UNCHANGED <<dpJob, dpBudget, dpStreak, dpOnline, dpThrottled,
                   dpClaim>>

\* RequeueTask: the task comes back later and the failed worker is kept off it.
Requeue(t) ==
    /\ dpTask[t].status = "running"
    /\ dpTask' = [dpTask EXCEPT ![t] =
            [Fresh(NoOne) EXCEPT !.status = "retrying", !.age = -1,
                                 !.excluded = dpTask[t].holder]]
    /\ UNCHANGED <<dpJob, dpSpent, dpBudget, dpStreak, dpOnline,
                   dpThrottled, dpClaim>>

\* A task runs out of retries and fails its job; the job's other tasks are not
\* touched, a claim of one of them may be open.
FailJob(t) ==
    /\ dpTask[t].status = "running" /\ ~DpTerminal(DpJobOf[t])
    /\ dpTask' = [dpTask EXCEPT ![t].status = "failed"]
    /\ dpJob' = [dpJob EXCEPT ![DpJobOf[t]] = "failed"]
    /\ UNCHANGED <<dpSpent, dpBudget, dpStreak, dpOnline, dpThrottled,
                   dpClaim>>

\* The clock: queued tasks get older; an exclusion outlasts the backoff by a while.
Age ==
    /\ \E t \in DpTasks :
        Waiting(t) /\ (dpTask[t].age < AskWindow \/ dpTask[t].excluded # NoOne)
    /\ dpTask' = [t \in DpTasks |->
            IF ~Waiting(t) THEN dpTask[t]
            ELSE [dpTask[t] EXCEPT !.age = Min({@ + 1, AskWindow}),
                                   !.excluded = IF Visible(t) THEN NoOne ELSE @]]
    /\ UNCHANGED <<dpJob, dpSpent, dpBudget, dpStreak, dpOnline,
                   dpThrottled, dpClaim>>

\* A heartbeat reports memory pressure, or its end; a machine falls silent.
Heartbeat(w, pressure) ==
    /\ w \notin Steady
    /\ dpOnline' = dpOnline \cup {w}
    /\ dpThrottled' = IF pressure THEN dpThrottled \cup {w} ELSE dpThrottled \ {w}
    /\ UNCHANGED <<dpTask, dpJob, dpSpent, dpBudget, dpStreak, dpClaim>>

FallSilent(w) ==
    /\ w \notin Steady
    /\ dpOnline' = dpOnline \ {w}
    /\ UNCHANGED <<dpTask, dpJob, dpSpent, dpBudget, dpStreak,
                   dpThrottled, dpClaim>>

\* SweepBudgetStops: a job with unclaimed work that no further task fits.
BudgetStop(j) ==
    /\ Order[j].cap > 0 /\ ~DpTerminal(j)
    /\ dpBudget[j] \notin {"paused_for_budget", "cancelled_by_budget"}
    /\ DebtProjected(j, 1) > Order[j].cap
    /\ \E t \in TasksIn(j) : Visible(t) /\ dpTask[t].pin = NoOne
    /\ dpBudget' = [dpBudget EXCEPT ![j] = "paused_for_budget"]
    /\ UNCHANGED <<dpTask, dpJob, dpSpent, dpStreak, dpOnline,
                   dpThrottled, dpClaim>>

DpInit ==
    /\ dpTask = [t \in DpTasks |-> [Fresh(NoOne) EXCEPT !.status = "absent"]]
    /\ dpJob = [j \in DpJobs |-> "queued"]
    /\ dpSpent = [j \in DpJobs |-> 0]
    /\ dpBudget = [j \in DpJobs |-> "tracking"]
    /\ dpStreak = [w \in DpWorkers |-> 0]
    /\ dpOnline = DpWorkers
    /\ dpThrottled = {}
    /\ dpClaim = [w \in DpWorkers |-> NoTask]

DpNext ==
    \/ \E w \in DpWorkers :
        \/ ClaimSelect(w) \/ ClaimCommit(w) \/ ClaimRollback(w)
        \/ FallSilent(w) \/ \E p \in BOOLEAN : Heartbeat(w, p)
    \/ \E t \in DpTasks :
        \/ \E p \in DpPins[t] : Enqueue(t, p)
        \/ Settle(t) \/ Requeue(t) \/ FailJob(t)
    \/ Age
    \/ \E j \in DpJobs : BudgetStop(j)

\* A steady machine polls forever and its claim transactions end; time passes.
DpFairness ==
    /\ \A w \in Steady : WF_dpVars(ClaimSelect(w))
    /\ \A w \in DpWorkers : WF_dpVars(ClaimCommit(w) \/ ClaimRollback(w))
    /\ WF_dpVars(Age)

DpSpec == DpInit /\ [][DpNext]_dpVars /\ DpFairness

(***************************************************************************)
(* The diagnostics.                                                        *)
(***************************************************************************)
\* The versions whose identity claim_narrowing.go leaves to the cells: one fewer
\* than the claim.
MeasureVersions == {0, 1, 2}

Offered(w, t) ==
    Visible(t) /\ dpTask[t].pin = NoOne /\ dpTask[t].excluded # w

\* MeasureClaimNarrowing's first query: its first stage.
PassHard(w) ==
    {j \in DpJobs : ~DpTerminal(j) /\ Order[j].currency = Currency
                    /\ FitsContract(w, j, MeasureVersions) /\ WithinBudget(j, 1)}

\* Its second query, which has no budget term.
Shortlist(w) ==
    {j \in DpJobs :
        /\ ~DpTerminal(j) /\ Order[j].currency = Currency
        /\ Sufficient(w, j, MeasureVersions)
        /\ \E t \in TasksIn(j) : Offered(w, t) /\ ~HeldBack(w, t, MeasureVersions)}

\* The shortlist is clamped to the count of the first query.
ShortlistCount(ready, shortlist) == Min({ready, shortlist})

\* The nine surviving counts of the trace, preference and absent stages
\* copying the stage before; `second` is the other query's count.
Ladder(w, second) ==
    LET hard == PassHard(w)
        trust == {j \in hard : FitsTrust(w, j)}
        region == {j \in trust : FitsRegion(w, j)}
        runtime == {j \in region : CellsFor(w, j) # {}}
        ready == {j \in runtime : \E t \in TasksIn(j) : Offered(w, t)}
        shortlist == ShortlistCount(Cardinality(ready), second)
        left == Cardinality(runtime)
    IN <<Cardinality(hard), Cardinality(trust), Cardinality(region), left, left,
         left, Cardinality(ready), shortlist, shortlist>>

\* ValidateClaimNarrowingLadder.
ValidLadder(stages) ==
    \A i \in 2..Len(stages) : stages[i] <= stages[i - 1]
                              /\ (i \in {5, 6, 9} => stages[i] = stages[i - 1])

\* listEligibleClaimJobIDs, which has no budget and no exclusion term.
EligibleClaimJobs(w) ==
    {j \in DpJobs :
        /\ ~DpTerminal(j) /\ Order[j].currency = Currency
        /\ Sufficient(w, j, MeasureVersions)
        /\ \E t \in TasksIn(j) : Visible(t) /\ dpTask[t].pin = NoOne}

\* SchedulerExplain: the first reason in its CASE that stops task t.
ExplainReason(w, t) ==
    LET j == DpJobOf[t] IN
    IF ~Machine[w].active THEN "supplier_inactive"
    ELSE IF Order[j].memory > Machine[w].memory THEN "memory_mismatch"
    ELSE IF w \in dpThrottled THEN "throttled"
    ELSE IF Order[j].classes # {} /\ Machine[w].class \notin Order[j].classes
         THEN "hw_class_mismatch"
    ELSE IF \A c \in Machine[w].cells : c.matrix # Matrix THEN "model_mismatch"
    ELSE IF ~FitsRegion(w, j) THEN "residency_mismatch"
    ELSE IF \/ Order[j].reputation > Machine[w].reputation
            \/ Order[j].tier = "trusted" /\ ~Machine[w].trusted
            \/ Order[j].rate < Machine[w].ask
         THEN "payout_floor"
    ELSE "eligible"

ExplainedAs(w, reason) ==
    {t \in DpTasks : Visible(t) /\ dpTask[t].pin \in {NoOne, w}
                     /\ ~DpTerminal(DpJobOf[t]) /\ ExplainReason(w, t) = reason}

(***************************************************************************)
(* Properties.                                                             *)
(***************************************************************************)
\* Two claims of one job may pass the statement's budget test on the same
\* snapshot.  What is committed, with everything in flight and the premium,
\* nevertheless never exceeds the job's spend cap.
SpendWithinCap ==
    \A j \in DpJobs : Order[j].cap > 0 =>
        dpSpent[j] + InFlight(j) * Order[j].charge + Order[j].premium <= Order[j].cap

\* A claim selected while its job was live does not start the task after the
\* job has failed: no task begins to run under a terminal job.
NoWorkOnTerminal ==
    \A t \in DpTasks :
     dpTask[t].status # "running" /\ dpTask'[t].status = "running"
         => ~DpTerminal(DpJobOf[t])

\* The two queries of MeasureClaimNarrowing read two snapshots, one step
\* apart or more.  Whatever happened in between, the trace it builds passes
\* its own validation.
LadderDescends ==
    dpVars' # dpVars =>
      \A w \in DpWorkers : \A stages \in {Ladder(w, Cardinality(Shortlist(w)'))} :
         ValidLadder(stages)

\* A worker that is told no task is eligible for it gets none: whatever the
\* claim can take, SchedulerExplain counts as eligible, and the list of eligible
\* jobs names its job unless the task is a pinned copy or the job's placement is
\* of a version the diagnostics do not know: the claim accepts version 4, a job
\* with several families of cells, and they do not.
ExplainCoversClaim ==
    \A w \in DpWorkers : \A t \in Candidates(w, TRUE) \cup Candidates(w, FALSE) :
        /\ t \in ExplainedAs(w, "eligible")
        /\ dpTask[t].pin = NoOne /\ Order[DpJobOf[t]].version \in MeasureVersions \cup {3}
             => DpJobOf[t] \in EligibleClaimJobs(w)

\* What a worker can claim is within the terms of the job and is what the explanation
\* told it.
ClaimsWithinTerms == SpendWithinCap /\ ExplainCoversClaim

\* Endless priority work and a cheaper machine that never polls do not starve
\* a batch task: a steady machine that fits it takes it, unless its job ends or
\* its spend cap is met.
BatchIsServed ==
    \A t \in DpTasks :
        []<>(Waiting(t) /\ Order[DpJobOf[t]].tier = "batch" /\ dpTask[t].pin = NoOne
                => DpTerminal(DpJobOf[t]) \/ ~WithinBudget(DpJobOf[t], 1))
=============================================================================
