--------------------------- MODULE TaskLifecycle ---------------------------
(***************************************************************************)
(* One batch job and its task rows, as the control plane's transactions    *)
(* change them: claims, starts, commits and failure reports of the agents; *)
(* the verdict transaction; finalisation; and the sweepers that requeue,   *)
(* rescue, hedge, cancel and detach.                                       *)
(*                                                                         *)
(* Every action is one committed Postgres transaction (row locks make it   *)
(* atomic); an early return or a rollback is a step that is not enabled.   *)
(* A sweeper that reads a list in one statement and acts on it in a later  *)
(* one takes two actions, the list kept in a variable between them.        *)
(*                                                                         *)
(* Time is abstracted: a running task may look stale, its worker dead or   *)
(* the job stuck at any moment, and visibility back-offs and exclusion     *)
(* windows may have elapsed.  Every worker belongs to its own supplier and *)
(* to the same verification class.  One unit of money is the frozen charge *)
(* of one task.                                                            *)
(***************************************************************************)
EXTENDS Integers, FiniteSets, Transitions

CONSTANTS
    Chunks,        \* input chunks of the job; each has one primary task
    Checked,       \* chunks submitted with a redundancy copy
    Probes,        \* chunks carrying a known-answer (honeypot) task
    Workers,       \* agents
    Results,       \* what an agent may commit: "invalid" fails the shape check
    Nobody,        \* SQL NULL in claimed_by and execution_worker_id
    MaxRetries,    \* maxTaskRetries
    Reserved,      \* job_economic_reserves.reserved_tasks
    Cap,           \* max_usd, in task charges
    MaxAttempt     \* bound on retry_count

ASSUME LifecycleAssumption ==
    /\ Checked \subseteq Chunks /\ Probes \subseteq Chunks
    /\ Results \subseteq {"good", "bad", "invalid"}
    /\ IsFiniteSet(Chunks) /\ IsFiniteSet(Workers)
    /\ Nobody \notin Workers
    /\ MaxRetries \in Nat /\ Reserved \in Nat /\ Cap \in Nat /\ MaxAttempt \in Nat

Tasks == ({"primary", "hedge", "tiebreak"} \X Chunks) \cup ({"copy"} \X Checked)
           \cup ({"probe"} \X Probes)

Kind(t) == t[1]
Chunk(t) == t[2]
IsRedundancy(t) == Kind(t) \in {"copy", "tiebreak"}
IsHoneypot(t) == Kind(t) = "probe"
Dynamic(t) == Kind(t) \in {"hedge", "tiebreak"}
InitialTasks == {t \in Tasks : ~Dynamic(t)}
ChunkTasks(c) == {t \in Tasks : Chunk(t) = c}

\* The rows fenceHedgeSettlementTx treats as one buyer obligation.
Family(t) == {u \in ChunkTasks(Chunk(t)) :
                u = t \/ (Kind(t) \in {"primary", "hedge"} /\ Kind(u) \in {"primary", "hedge"})}

TaskStatus == {"absent", "queued", "running", "verifying", "complete",
               "retrying", "failed", "cancelled"}
JobStatus == {"queued", "running", "verifying", "complete", "failed", "cancelled"}
Outcomes == {"pass", "pass_with_penalty", "loss_no_payout", "clawed_back"}
NoResult == "none"
NoTask == <<"none", "none">>

Row == [status : TaskStatus, claimedBy : Workers \cup {Nobody}, execBy : Workers \cup {Nobody},
        retry : Nat, result : Results \cup {NoResult}, outcome : Outcomes \cup {NoResult}]

VARIABLES
    jobStatus,   \* jobs.status
    tasksDone,   \* jobs.tasks_done
    taskCount,   \* jobs.task_count
    strikes,     \* jobs.watchdog_strikes
    consumed,    \* job_economic_reserves.consumed_tasks
    task,        \* tasks: status, claimed_by, execution_worker_id, retry_count,
                 \* the committed result and verification_outcome
    openWork,    \* verification_work rows not yet terminal, as <<task, attempt>>
    verdicts,    \* task_verdicts, as <<task, attempt, outcome>>
    executed,    \* <<task, worker>> of verification_work and task_execution_history
    charged,     \* tasks with buyer_charge and supplier_credit rows
    clawed,      \* tasks whose supplier_credit was clawed back
    resolution,  \* chunk_artifact_resolutions: winner per chunk and basis
    staleSeen,   \* <<task, retry_count>> rows read by StaleRunningTasks
    noPeerSeen,  \* tasks read by NoPeerWedgedCandidates with no eligible peer
    stuckSeen,   \* <<watchdog_strikes, tasks_done>> read by StuckRunningJobs
    trampled     \* tasks requeued by the no-peer watchdog when no longer running

jobVars == <<jobStatus, tasksDone, taskCount, strikes, consumed>>
workVars == <<openWork, verdicts, executed>>
moneyVars == <<charged, clawed, resolution>>
sweepVars == <<staleSeen, noPeerSeen, stuckSeen, trampled>>
vars == <<jobVars, task, workVars, moneyVars, sweepVars>>

Live == jobStatus \in {"queued", "running", "verifying"}
Terminal == jobStatus \in {"complete", "failed", "cancelled"}
WithStatus(S) == {t \in Tasks : task[t].status \in S}
Status(t) == task[t].status

\* jobTerminalTransitionStateTx: verification authority is still in flight.
Pending(tk) == (\E t \in Tasks : tk[t].status = "verifying") \/ openWork # {}

TaskRow(s, c, e, n, r, o) ==
    [status |-> s, claimedBy |-> c, execBy |-> e, retry |-> n, result |-> r, outcome |-> o]
Absent == TaskRow("absent", Nobody, Nobody, 0, NoResult, NoResult)
Fresh(w) == TaskRow("queued", w, Nobody, 0, NoResult, NoResult)

\* task[t] with another status, or with another verdict.
Moved(t, s) ==
    TaskRow(s, task[t].claimedBy, task[t].execBy, task[t].retry, task[t].result, task[t].outcome)
Judged(t, s, o) ==
    TaskRow(s, task[t].claimedBy, task[t].execBy, task[t].retry, task[t].result, o)

Resolved(p, m) == [provisional |-> p, majority |-> m]

Init ==
    /\ jobStatus = "queued" /\ tasksDone = 0 /\ strikes = 0 /\ consumed = 0
    /\ taskCount = Cardinality(InitialTasks)
    /\ task = [t \in Tasks |-> IF Dynamic(t) THEN Absent ELSE Fresh(Nobody)]
    /\ openWork = {} /\ verdicts = {} /\ executed = {}
    /\ charged = {} /\ clawed = {}
    /\ resolution = [c \in Chunks |-> Resolved(NoTask, NoTask)]
    /\ staleSeen = {} /\ noPeerSeen = {} /\ stuckSeen = {} /\ trampled = {}
-----------------------------------------------------------------------------
(* Claims and starts                                                       *)

\* chunkIndependencePriorsSQL: who executed, holds or committed another task of
\* the chunk (the row self excepted where it reads the task row itself).
ChunkPriors(c, self) ==
    {task[u].execBy : u \in ChunkTasks(c) \ {self}}
      \cup {task[u].claimedBy : u \in ChunkTasks(c) \ {self}}
      \cup {e[2] : e \in {x \in executed : Chunk(x[1]) = c}}

Independent(w, t) == IsRedundancy(t) => w \notin ChunkPriors(Chunk(t), t)

\* The budget clause of ClaimTasksTx, evaluated after the candidate is running.
InFlight(tk) == {t \in Tasks : tk[t].status \in {"running", "verifying"}}
\* Mutant: only settled charges and the candidate itself are counted.
WithinCap_Settled(tk) == Cardinality(charged) + 1 <= Cap
WithinCap(tk) == Cardinality(charged) + Cardinality(InFlight(tk)) <= Cap

Claimable(w, t) ==
    /\ Status(t) \in {"queued", "retrying"}
    /\ task[t].claimedBy \in {w, Nobody}

Running(w, t) ==
    [task EXCEPT ![t] = TaskRow("running", w, w, task[t].retry, task[t].result, task[t].outcome)]

RememberExecution(w, t) ==
    executed' = IF Kind(t) = "tiebreak" THEN executed \cup {<<t, w>>} ELSE executed

ClaimTask(w, t) ==
    /\ Live /\ Claimable(w, t) /\ Independent(w, t)
    /\ task' = Running(w, t)
    /\ WithinCap(task')
    /\ RememberExecution(w, t)
    /\ jobStatus' = IF jobStatus = "queued" THEN "running" ELSE jobStatus
    /\ UNCHANGED <<tasksDone, taskCount, strikes, consumed, openWork, verdicts,
                   moneyVars, sweepVars>>

\* tiebreakPeerClaimEligibleTx: independence and one more task under the cap.
TiebreakEligible(w, t) ==
    /\ w \notin ChunkPriors(Chunk(t), t)
    /\ Cardinality(charged) + Cardinality(InFlight(task)) + 1 <= Cap

\* StartTask of a pinned third opinion; a start of a running task changes nothing.
StartTask(w, t) ==
    /\ Live /\ Kind(t) = "tiebreak"
    /\ Status(t) = "queued" /\ task[t].claimedBy = w
    /\ <<t, w>> \notin executed
    /\ TiebreakEligible(w, t)
    /\ task' = Running(w, t)
    /\ RememberExecution(w, t)
    /\ jobStatus' = IF jobStatus = "queued" THEN "running" ELSE jobStatus
    /\ UNCHANGED <<tasksDone, taskCount, strikes, consumed, openWork, verdicts,
                   moneyVars, sweepVars>>
-----------------------------------------------------------------------------
(* Commit and failure reports                                              *)

CommitTask(w, t, r) ==
    /\ task[t].claimedBy = w /\ task[t].execBy = w
    /\ Status(t) \in {"running", "queued"}
    /\ Live
    /\ task' = [task EXCEPT ![t] = TaskRow("verifying", w, w, task[t].retry, r, task[t].outcome)]
    /\ jobStatus' = IF /\ jobStatus \in {"queued", "running"}
                       /\ \A u \in Tasks :
                            task'[u].status \notin {"queued", "retrying", "running"}
                    THEN "verifying" ELSE jobStatus
    /\ openWork' = openWork \cup {<<t, task[t].retry>>}
    /\ executed' = executed \cup {<<t, w>>}
    /\ UNCHANGED <<tasksDone, taskCount, strikes, consumed, verdicts, moneyVars, sweepVars>>

\* A result is read only while its attempt is verifying or complete.
Released(t, s) == TaskRow(s, Nobody, task[t].execBy, task[t].retry, NoResult, NoResult)
Requeued(t, s) == TaskRow(s, Nobody, task[t].execBy, task[t].retry + 1, NoResult, NoResult)

\* UPDATE jobs SET status='running' WHERE ... AND status='verifying'.
BackToRunning_Unguarded == "running"
BackToRunning == IF jobStatus = "verifying" THEN "running" ELSE jobStatus

\* failJobAndSettleOnce, in the transaction that makes the task rows tk.
FailJobWith(tk) ==
    IF Terminal THEN UNCHANGED jobStatus
    ELSE ~Pending(tk) /\ jobStatus' = "failed"

FailTaskRetry(w, t) ==
    /\ task[t].claimedBy = w
    /\ Status(t) \in {"running", "queued", "retrying"}
    /\ task[t].retry < MaxRetries /\ task[t].retry < MaxAttempt
    /\ task' = [task EXCEPT ![t] = Requeued(t, "retrying")]
    /\ UNCHANGED <<jobVars, workVars, moneyVars, sweepVars>>

\* The terminal branch: not retryable, or the retry limit is reached.
FailTaskTerminal_NoPending(w, t) ==
    /\ task[t].claimedBy = w
    /\ Status(t) \in {"running", "queued", "retrying"}
    /\ task' = [task EXCEPT ![t] = Released(t, "failed")]
    /\ jobStatus' = IF Terminal THEN jobStatus ELSE "failed"
    /\ UNCHANGED <<tasksDone, taskCount, strikes, consumed, workVars, moneyVars, sweepVars>>

FailTaskTerminal(w, t) ==
    /\ task[t].claimedBy = w
    /\ Status(t) \in {"running", "queued", "retrying"}
    /\ task' = [task EXCEPT ![t] = Released(t, "failed")]
    /\ FailJobWith(task')
    /\ UNCHANGED <<tasksDone, taskCount, strikes, consumed, workVars, moneyVars, sweepVars>>
-----------------------------------------------------------------------------
(* The verdict: the plan verifyTaskResult makes and the transaction that     *)
(* applies it.  A plan is an outcome, the votes that won and lost a majority *)
(* and whether it asks for a third opinion.                                  *)

Plan(outcome, winners, losers, tiebreak) ==
    [outcome |-> outcome, winners |-> winners, losers |-> losers, tiebreak |-> tiebreak]
Decide(outcome) == Plan(outcome, {}, {}, FALSE)

\* ChunkResults: the delivered results of the chunk other than t's.
Peers(t) == {u \in ChunkTasks(Chunk(t)) \ {t} : ~IsHoneypot(u) /\ Status(u) = "complete"}

\* independentSupplierVotes keeps one vote of each supplier (the smallest task
\* id, which is random).
Suppliers(V) == {task[v].execBy : v \in V}
Ballots(V) == {B \in SUBSET V : /\ Suppliers(B) = Suppliers(V)
                               /\ Cardinality(B) = Cardinality(Suppliers(V))}

TiebreakOf(t) == <<"tiebreak", Chunk(t)>>

ResolveTiebreak(t, B) ==
    LET agree(r) == {b \in B : task[b].result = r}
        strict == {r \in {"good", "bad"} : 2 * Cardinality(agree(r)) > Cardinality(B)}
    IN IF strict = {} THEN Decide("pass_with_penalty")
       ELSE LET r == CHOOSE x \in strict : TRUE
                lost == B \ agree(r)
            IN Plan(IF task[t].execBy \in Suppliers(lost) THEN "loss_no_payout" ELSE "pass",
                    agree(r), lost, FALSE)

BallotPlans(t, B) ==
    IF Cardinality(B) >= 3 THEN {ResolveTiebreak(t, B)}
    ELSE IF Cardinality(B) = 2 /\ Cardinality({task[b].result : b \in B}) = 2
         THEN {Decide("pass_with_penalty")}
                \cup (IF Status(TiebreakOf(t)) = "absent"
                      THEN {Plan("pass_with_penalty", {}, {}, TRUE)} ELSE {})
    ELSE IF Cardinality(B) = 2 THEN {Decide("pass")}
    ELSE {}     \* errNoIndependentSupplier: no plan, the work is retried

Plans(t) ==
    IF task[t].result = "invalid" \/ (IsHoneypot(t) /\ task[t].result = "bad")
    THEN {Decide("fail")}
    ELSE IF IsHoneypot(t) \/ Peers(t) = {}
    THEN {Decide(IF IsRedundancy(t) THEN "pass_with_penalty" ELSE "pass")}
    ELSE UNION {BallotPlans(t, B) : B \in Ballots(Peers(t) \cup {t})}

Verifying(t) == Status(t) = "verifying" /\ <<t, task[t].retry>> \in openWork

CloseWork(t, outcome) ==
    /\ openWork' = openWork \ {<<t, task[t].retry>>}
    /\ verdicts' = verdicts \cup {<<t, task[t].retry, outcome>>}

RejectResult(t) ==
    /\ Live /\ Verifying(t) /\ Decide("fail") \in Plans(t)
    /\ task[t].retry < MaxAttempt
    /\ task' = [task EXCEPT ![t] = Requeued(t, "retrying")]
    /\ jobStatus' = BackToRunning
    /\ CloseWork(t, "fail")
    /\ UNCHANGED <<tasksDone, taskCount, strikes, consumed, executed, moneyVars, sweepVars>>

\* fenceHedgeSettlementTx: the other racer of the family was already charged.
SiblingSettled(t) == \E u \in Family(t) \ {t} : u \in charged
CountsBuyerChunk_Unfenced(t) == TRUE
CountsBuyerChunk(t) == IsRedundancy(t) \/ ~SiblingSettled(t)

\* The losers of a decided race, cancelled by the verdict transaction.
CancelledSiblings(t) ==
    {u \in ChunkTasks(Chunk(t)) \ {t} :
        /\ Status(u) \in {"queued", "running", "retrying"}
        /\ Kind(u) = "hedge" \/ (Kind(u) = "primary" /\ Kind(t) = "hedge")}

\* consumeEconomicReserveTx.
ReserveLeft ==
    /\ consumed < Reserved
    /\ Live
    /\ Cardinality(InitialTasks) + consumed + 1 <= Cap

\* recordChunkArtifactResolutionTx: a winner that is not a redundancy row comes
\* first, the committing task after the others; a second majority must agree.
MajorityWinners(t, W) ==
    LET direct == {u \in W : ~IsRedundancy(u)}
        top == IF direct = {} THEN W ELSE direct
    IN IF top = {t} THEN {t} ELSE top \ {t}

ResolutionRows(t, p) ==
    LET old == resolution[Chunk(t)]
    IN IF p.winners # {} THEN
           {Resolved(old.provisional, u) :
               u \in {x \in MajorityWinners(t, p.winners) : old.majority \in {NoTask, x}}}
       ELSE IF CountsBuyerChunk(t) /\ ~IsRedundancy(t) /\ ~IsHoneypot(t)
                 /\ old.provisional = NoTask
       THEN {Resolved(t, old.majority)}
       ELSE {old}

\* clawbackTaskCreditTx reverses a credit only where there is one.
Clawback_Never(p) == {}
Clawback(p) == p.losers \cap charged

\* insertPlannedTiebreakTx pins the planned peer only if it is still eligible.
PinChoices(t) == {Nobody} \cup {w \in Workers : TiebreakEligible(w, TiebreakOf(t))}

Settled(t, p, pin) ==
    [u \in Tasks |->
        IF u = t THEN Judged(t, "complete", p.outcome)
        ELSE IF u \in p.winners THEN Judged(u, Status(u), "pass")
        ELSE IF u \in p.losers THEN Judged(u, Status(u), "clawed_back")
        ELSE IF u \in CancelledSiblings(t) THEN Released(u, "failed")
        ELSE IF p.tiebreak /\ u = TiebreakOf(t) THEN Fresh(pin)
        ELSE task[u]]

AcceptResult(t, p, pin) ==
    LET counts == CountsBuyerChunk(t)
        pays == counts /\ p.outcome # "loss_no_payout"
    IN /\ Live /\ Verifying(t)
       /\ \A u \in p.winners \ {t} : task[u].outcome \in {"pass", "pass_with_penalty"}
       /\ p.tiebreak => ReserveLeft
       /\ pays => t \notin charged
       /\ task' = Settled(t, p, pin)
       /\ tasksDone' = IF counts THEN tasksDone + 1 ELSE tasksDone
       /\ consumed' = IF p.tiebreak THEN consumed + 1 ELSE consumed
       /\ taskCount' = IF p.tiebreak THEN taskCount + 1 ELSE taskCount
       /\ jobStatus' = IF p.tiebreak THEN BackToRunning ELSE jobStatus
       /\ CloseWork(t, p.outcome)
       /\ charged' = IF pays THEN charged \cup {t} ELSE charged
       /\ clawed' = clawed \cup Clawback(p)
       /\ \E row \in ResolutionRows(t, p) :
             resolution' = [resolution EXCEPT ![Chunk(t)] = row]
       /\ UNCHANGED <<strikes, executed, sweepVars>>

Verify(t) ==
    \/ RejectResult(t)
    \/ \E p \in Plans(t) \ {Decide("fail")}, pin \in Workers \cup {Nobody} :
          /\ pin \in (IF p.tiebreak THEN PinChoices(t) ELSE {Nobody})
          /\ AcceptResult(t, p, pin)
-----------------------------------------------------------------------------
(* Finalisation and cancellation                                           *)

Finalizable ==
    /\ taskCount > 0
    /\ \A t \in Tasks : Status(t) \in {"absent", "complete", "failed"}
    /\ \E t \in Tasks : Status(t) = "complete"

FinalizeJob ==
    /\ jobStatus \in {"running", "verifying"}
    /\ Finalizable
    /\ jobStatus' = "complete"
    /\ UNCHANGED <<tasksDone, taskCount, strikes, consumed, task, workVars, moneyVars, sweepVars>>

CancelJob ==
    /\ jobStatus = "queued" /\ ~Pending(task)
    /\ jobStatus' = "cancelled"
    /\ task' = [t \in Tasks |-> IF Status(t) = "queued" THEN Moved(t, "failed") ELSE task[t]]
    /\ UNCHANGED <<tasksDone, taskCount, strikes, consumed, workVars, moneyVars, sweepVars>>

\* DetachUnfinishedTasksForTerminalJob, after a failure and from the janitor sweep.
Unfinished_NoRetrying == WithStatus({"queued", "running"})
Unfinished == WithStatus({"queued", "retrying", "running"})
DetachTerminal ==
    /\ Terminal /\ Unfinished # {}
    /\ task' = [t \in Tasks |->
                  IF t \in Unfinished
                  THEN Released(t, IF jobStatus = "cancelled" THEN "cancelled" ELSE "failed")
                  ELSE task[t]]
    /\ UNCHANGED <<jobVars, workVars, moneyVars, sweepVars>>
-----------------------------------------------------------------------------
(* Sweepers                                                                *)

\* requeueStaleTasks: the list, then one statement per listed row.
ReadStale ==
    /\ Live /\ staleSeen = {}
    /\ \E t \in WithStatus({"running"}) : staleSeen' = {<<t, task[t].retry>>}
    /\ UNCHANGED <<jobVars, task, workVars, moneyVars, noPeerSeen, stuckSeen, trampled>>

RequeueStaleTask(t) ==
    /\ Status(t) = "running" /\ Live
    /\ task[t].retry < MaxAttempt
    /\ task' = [task EXCEPT ![t] = Requeued(t, "queued")]
    /\ jobStatus' = BackToRunning

FailTaskAndSettleJob(t) ==
    /\ Status(t) = "running"
    /\ task' = [task EXCEPT ![t] = Released(t, "failed")]
    /\ FailJobWith(task')

\* A row that left "running" or whose job ended is skipped; a terminal failure
\* waits for pending verification.
SweepStale ==
    \E x \in staleSeen :
        /\ staleSeen' = {}
        /\ \/ x[2] < MaxRetries /\ RequeueStaleTask(x[1])
           \/ x[2] >= MaxRetries /\ FailTaskAndSettleJob(x[1])
           \/ /\ \/ Status(x[1]) # "running"
                 \/ IF x[2] < MaxRetries THEN Terminal ELSE Live /\ Pending(task)
              /\ UNCHANGED <<task, jobStatus>>
        /\ UNCHANGED <<tasksDone, taskCount, strikes, consumed, workVars, moneyVars,
                       noPeerSeen, stuckSeen, trampled>>

\* rescueDeadClaims; the statement only asks for a running row.
RescueDeadClaim(t) ==
    /\ Status(t) = "running" /\ task[t].retry < MaxAttempt
    /\ task' = [task EXCEPT ![t] = Requeued(t, "queued")]
    /\ UNCHANGED <<jobVars, workVars, moneyVars, sweepVars>>

AdminForceRequeue(t) ==
    /\ Status(t) \in {"running", "retrying"}
    /\ task[t].retry < MaxRetries /\ task[t].retry < MaxAttempt
    /\ task' = [task EXCEPT ![t] = Requeued(t, "queued")]
    /\ UNCHANGED <<jobVars, workVars, moneyVars, sweepVars>>

\* reapNoPeerWedged: list, probe for a peer, then RequeueTask by id.
ReadNoPeer ==
    /\ jobStatus = "running" /\ noPeerSeen = {}
    /\ \E t \in WithStatus({"running"}) :
          /\ Kind(t) = "primary"
          /\ noPeerSeen' = {t}
    /\ UNCHANGED <<jobVars, task, workVars, moneyVars, staleSeen, stuckSeen, trampled>>

\* RequeueTask names no status; the lifecycle trigger refuses it for a cancelled row.
RequeueNoPeer ==
    \E t \in noPeerSeen :
        /\ noPeerSeen' = {}
        /\ \/ /\ Status(t) # "cancelled" /\ task[t].retry < MaxAttempt
              /\ task' = [task EXCEPT ![t] = Requeued(t, "retrying")]
              /\ jobStatus' = BackToRunning
              /\ trampled' = IF Status(t) = "running" THEN trampled ELSE trampled \cup {t}
           \/ /\ Status(t) = "cancelled"
              /\ UNCHANGED <<task, jobStatus, trampled>>
        /\ UNCHANGED <<tasksDone, taskCount, strikes, consumed, workVars, moneyVars,
                       staleSeen, stuckSeen>>

\* reapStuckJobs: the first strike rescues, the second cancels.
ReadStuck ==
    /\ jobStatus = "running" /\ stuckSeen = {}
    /\ stuckSeen' = {<<strikes, tasksDone>>}
    /\ UNCHANGED <<jobVars, task, workVars, moneyVars, staleSeen, noPeerSeen, trampled>>

StuckRead(n) == \E x \in stuckSeen : x[1] = n

RescueStuckJob ==
    /\ StuckRead(0) /\ stuckSeen' = {}
    /\ jobStatus = "running" /\ strikes = 0
    /\ \A t \in WithStatus({"running", "retrying"}) : task[t].retry < MaxAttempt
    /\ strikes' = 1
    /\ task' = [t \in Tasks |-> IF Status(t) \in {"running", "retrying"}
                                THEN Requeued(t, "queued") ELSE task[t]]
    /\ UNCHANGED <<jobStatus, tasksDone, taskCount, consumed, workVars, moneyVars,
                   staleSeen, noPeerSeen, trampled>>

\* The rows keep claimed_by.
CancelledRows == [t \in Tasks |-> IF Status(t) \in {"queued", "running", "verifying", "retrying"}
                                  THEN Moved(t, "cancelled") ELSE task[t]]

CancelStuckJob ==
    /\ StuckRead(1) /\ stuckSeen' = {}
    /\ jobStatus = "running" /\ ~Pending(task)
    /\ jobStatus' = "cancelled" /\ task' = CancelledRows
    /\ UNCHANGED <<tasksDone, taskCount, strikes, consumed, workVars, moneyVars,
                   staleSeen, noPeerSeen, trampled>>

\* "not flipped": the job ended, was rescued already, or has verification pending.
SkipStuck ==
    /\ stuckSeen # {} /\ stuckSeen' = {}
    /\ jobStatus = "running" => (StuckRead(0) /\ strikes # 0) \/ (StuckRead(1) /\ Pending(task))
    /\ UNCHANGED <<jobVars, task, workVars, moneyVars, staleSeen, noPeerSeen, trampled>>

\* hedgeStragglers and raceEndgameTails, through InsertHedgeTask.
InsertHedgeTask(c, w) ==
    LET h == <<"hedge", c>>
    IN /\ Status(h) = "absent"
       /\ Status(<<"primary", c>>) \in {"running", "verifying"}
       /\ w \notin ChunkPriors(c, NoTask)
       /\ ReserveLeft
       /\ task' = [task EXCEPT ![h] = Fresh(w)]
       /\ consumed' = consumed + 1
       /\ UNCHANGED <<jobStatus, tasksDone, taskCount, strikes, workVars, moneyVars, sweepVars>>

\* recoverPinnedTiebreaks, through ReassignPinnedTiebreak.
ReassignPinnedTiebreak(t, w) ==
    /\ Kind(t) = "tiebreak"
    /\ Status(t) \in {"queued", "retrying"} /\ task[t].claimedBy \notin {Nobody, w}
    /\ jobStatus \in {"running", "verifying"}
    /\ TiebreakEligible(w, t)
    /\ task' = [task EXCEPT ![t] = TaskRow(Status(t), w, task[t].execBy, task[t].retry,
                                           task[t].result, task[t].outcome)]
    /\ jobStatus' = "running"
    /\ UNCHANGED <<tasksDone, taskCount, strikes, consumed, workVars, moneyVars, sweepVars>>
-----------------------------------------------------------------------------
AgentStep ==
    \E w \in Workers, t \in Tasks :
        \/ ClaimTask(w, t)
        \/ StartTask(w, t)
        \/ \E r \in Results : CommitTask(w, t, r)
        \/ FailTaskRetry(w, t)
        \/ FailTaskTerminal(w, t)

SweepStep ==
    \/ ReadStale \/ SweepStale
    \/ ReadNoPeer \/ RequeueNoPeer
    \/ ReadStuck \/ RescueStuckJob \/ CancelStuckJob \/ SkipStuck
    \/ DetachTerminal
    \/ \E t \in Tasks : RescueDeadClaim(t) \/ AdminForceRequeue(t)
    \/ \E c \in Chunks, w \in Workers : InsertHedgeTask(c, w)
    \/ \E t \in Tasks, w \in Workers : ReassignPinnedTiebreak(t, w)

Next ==
    \/ AgentStep
    \/ \E t \in Tasks : Verify(t)
    \/ FinalizeJob
    \/ CancelJob
    \/ SweepStep

Spec == Init /\ [][Next]_vars
FairSpec == Spec /\ WF_vars(DetachTerminal)
-----------------------------------------------------------------------------
\* Every column keeps its type, and only a credited task is ever clawed back.
TypeOK ==
    /\ jobStatus \in JobStatus
    /\ tasksDone \in Nat /\ taskCount \in Nat /\ strikes \in 0..1 /\ consumed \in Nat
    /\ task \in [Tasks -> Row]
    /\ openWork \subseteq Tasks \X Nat
    /\ verdicts \subseteq Tasks \X Nat \X (Outcomes \cup {"fail"})
    /\ executed \subseteq Tasks \X Workers
    /\ charged \subseteq Tasks /\ clawed \subseteq charged
    /\ resolution \in [Chunks -> [provisional : Tasks \cup {NoTask}, majority : Tasks \cup {NoTask}]]
    /\ staleSeen \subseteq Tasks \X Nat /\ noPeerSeen \subseteq Tasks
    /\ stuckSeen \subseteq (0..1) \X Nat /\ trampled \subseteq Tasks

\* A chunk's primary and its hedge race for one buyer obligation; whichever
\* order their verdicts commit in, at most one of them is charged.
OneChargePerChunk ==
    \A c \in Chunks : ~({<<"primary", c>>, <<"hedge", c>>} \subseteq charged)

\* The artifact mergeJobResults delivers: a majority row before a provisional one.
Winner(c) == IF resolution[c].majority # NoTask THEN resolution[c].majority
             ELSE resolution[c].provisional

\* A job is complete only when every chunk has a resolution naming a delivered
\* result that verification accepted (FinalizeJob against verdicts, hedging and
\* third opinions; the no-peer watchdog's late requeue excepted).
CompleteIsDeliverable ==
    (jobStatus = "complete" /\ trampled = {}) =>
        \A c \in Chunks : /\ Winner(c) # NoTask
                          /\ Status(Winner(c)) = "complete"
                          /\ task[Winner(c)].outcome \in {"pass", "pass_with_penalty"}

\* No job fails, is cancelled or completes over a delivered result whose verdict
\* is still owed (jobTerminalTransitionStateTx against commits; same exception).
NoOrphanVerification ==
    (Terminal /\ trampled = {}) => openWork = {} /\ WithStatus({"verifying"}) = {}

\* A job ends only on decided results: complete with a deliverable one for each chunk,
\* and in no other way over one that is being judged.
EndsDeliverable == CompleteIsDeliverable /\ NoOrphanVerification

\* tasks_done never passes task_count although hedges are not counted in it.
DoneWithinCount == trampled = {} => tasksDone <= taskCount

\* The buyer's max_usd is never exceeded by what was charged and what is still to be
\* charged for work in flight: ClaimTasksTx checks the cap, and neither the verdict
\* that charges, nor a requeue, a hedge or the start of a pinned opinion goes past it.
WithinBudget == Cardinality(charged) + Cardinality(InFlight(task)) <= Cap

\* Every hedge and third opinion took one unit of the frozen reserve, and no
\* more units than reserved were taken.
ReserveExact ==
    /\ consumed <= Reserved
    /\ consumed = Cardinality({t \in Tasks : Dynamic(t) /\ Status(t) # "absent"})

\* An attempt of a task gets one verdict, whatever requeues it.
OneVerdictPerAttempt ==
    \A v, x \in verdicts : (v[1] = x[1] /\ v[2] = x[2]) => v = x

\* Whatever races, requeues and retries it goes through, a chunk is paid for once, an
\* attempt judged once, and a unit of the reserve spent once.
PaidOnce == OneChargePerChunk /\ OneVerdictPerAttempt /\ ReserveExact

\* A credit stands only for a result whose last verdict pays: losers of a
\* majority were never credited or were clawed back.
CreditMatchesVerdict ==
    trampled = {} =>
        \A t \in charged \ clawed : /\ Status(t) = "complete"
                                    /\ task[t].outcome \in {"pass", "pass_with_penalty"}

\* However the votes on a chunk fall, the counters and the credits follow the verdicts
\* that stand (ApplyVerification, clawbackTaskCreditTx).
VotesSettle == DoneWithinCount /\ CreditMatchesVerdict

\* Once the job is terminal its status, counters, charges, claw-backs and
\* resolutions are frozen, whatever sweeper or agent acts later.
TerminalIsFrozen ==
    [][Terminal => UNCHANGED <<jobVars, verdicts, moneyVars>>]_vars

\* No transaction is ever aborted by the lifecycle triggers on jobs and tasks.
JobRow == INSTANCE Lifecycle WITH Rows <- {"job"}, Inserted <- {"queued"}, Edges <- JobEdges,
                                  state <- [r \in {"job"} |-> jobStatus]
TaskRows == INSTANCE Lifecycle WITH Rows <- Tasks, Inserted <- {"queued"}, Edges <- TaskEdges,
                                    state <- [t \in Tasks |-> task[t].status]
JobLifecycle == JobRow!Spec
TaskLifecycleGuarded == TaskRows!Spec

\* A terminal job eventually holds no queued, retrying or running task.
ClaimsReleased == Terminal ~> (WithStatus({"queued", "retrying", "running"}) = {})
=============================================================================
