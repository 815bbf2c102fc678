----------------------- MODULE TaskLifecycleProofs ------------------------
(***************************************************************************)
(* Safety of one batch job for every number of chunks, workers, retries,   *)
(* reserved tasks and every cap.  First the inductive invariant and the    *)
(* types, then what each step does to the rows, then the invariants.       *)
(***************************************************************************)
EXTENDS TaskLifecycle, FiniteSetTheorems, TLAPS

\* The leaves are set and function reasoning; SMT is cited where one is not.
USE ZenonT(100)

\* A row built from values of the columns' types is a row with those columns.
LEMMA RowFacts ==
    ASSUME NEW s \in TaskStatus, NEW c \in Workers \cup {Nobody}, NEW e \in Workers \cup {Nobody},
           NEW n \in Nat, NEW r \in Results \cup {NoResult}, NEW o \in Outcomes \cup {NoResult}
    PROVE  /\ TaskRow(s, c, e, n, r, o) \in Row
           /\ TaskRow(s, c, e, n, r, o).status = s
           /\ TaskRow(s, c, e, n, r, o).claimedBy = c
           /\ TaskRow(s, c, e, n, r, o).execBy = e
           /\ TaskRow(s, c, e, n, r, o).retry = n
           /\ TaskRow(s, c, e, n, r, o).result = r
           /\ TaskRow(s, c, e, n, r, o).outcome = o
  BY DEF TaskRow, Row

\* The columns of a stored row have their types.
LEMMA StoredFacts ==
    ASSUME TypeOK, NEW t \in Tasks
    PROVE  /\ task[t] \in Row /\ task[t].status \in TaskStatus /\ task[t].retry \in Nat
           /\ task[t].claimedBy \in Workers \cup {Nobody} /\ task[t].execBy \in Workers \cup {Nobody}
           /\ task[t].result \in Results \cup {NoResult}
           /\ task[t].outcome \in Outcomes \cup {NoResult}
  BY DEF TypeOK, Row

\* The columns of released, requeued and moved rows.
LEMMA ChangedFacts ==
    ASSUME TypeOK, NEW t \in Tasks, NEW s \in TaskStatus
    PROVE  /\ Released(t, s) \in Row /\ Released(t, s).status = s
           /\ Released(t, s).claimedBy = Nobody /\ Released(t, s).retry = task[t].retry
           /\ Requeued(t, s) \in Row /\ Requeued(t, s).status = s
           /\ Requeued(t, s).claimedBy = Nobody /\ Requeued(t, s).retry = task[t].retry + 1
           /\ Moved(t, s) \in Row /\ Moved(t, s).status = s
           /\ Moved(t, s).claimedBy = task[t].claimedBy /\ Moved(t, s).retry = task[t].retry
  BY SMTT(20) DEF TypeOK, Row, Released, Requeued, Moved, TaskRow

\* The columns of a judged row.
LEMMA JudgedFacts ==
    ASSUME TypeOK, NEW t \in Tasks, NEW s \in TaskStatus, NEW o \in Outcomes
    PROVE  /\ Judged(t, s, o) \in Row /\ Judged(t, s, o).status = s
           /\ Judged(t, s, o).claimedBy = task[t].claimedBy
           /\ Judged(t, s, o).execBy = task[t].execBy
           /\ Judged(t, s, o).retry = task[t].retry /\ Judged(t, s, o).outcome = o
  BY DEF TypeOK, Row, Judged, TaskRow

\* The columns of a fresh and of an absent row.
LEMMA FreshFacts ==
    ASSUME NEW w \in Workers \cup {Nobody}
    PROVE  /\ Fresh(w) \in Row /\ Fresh(w).status = "queued" /\ Fresh(w).execBy = Nobody
           /\ Fresh(w).retry = 0 /\ Absent \in Row /\ Absent.status = "absent"
           /\ Absent.execBy = Nobody /\ Absent.retry = 0
  <1>1. "queued" \in TaskStatus /\ "absent" \in TaskStatus BY DEF TaskStatus
  <1> QED BY SMTT(20), <1>1, RowFacts DEF Fresh, Absent

LEMMA FiniteTasks == IsFiniteSet(Tasks)
  <1>1. IsFiniteSet(Checked) /\ IsFiniteSet(Probes) /\ IsFiniteSet(Chunks)
    BY LifecycleAssumption, FS_Subset
  <1>2. IsFiniteSet({"primary", "hedge", "tiebreak"}) /\ IsFiniteSet({"copy"}) /\ IsFiniteSet({"probe"})
    <2>1. IsFiniteSet({}) BY FS_EmptySet
    <2>2. IsFiniteSet({} \cup {"primary"}) BY <2>1, FS_AddElement
    <2>3. IsFiniteSet({} \cup {"primary"} \cup {"hedge"}) BY <2>2, FS_AddElement
    <2>4. IsFiniteSet({} \cup {"primary"} \cup {"hedge"} \cup {"tiebreak"}) BY <2>3, FS_AddElement
    <2>5. {"primary", "hedge", "tiebreak"} = {} \cup {"primary"} \cup {"hedge"} \cup {"tiebreak"} OBVIOUS
    <2>6. IsFiniteSet({} \cup {"copy"}) /\ IsFiniteSet({} \cup {"probe"}) BY <2>1, FS_AddElement
    <2>7. {"copy"} = {} \cup {"copy"} /\ {"probe"} = {} \cup {"probe"} OBVIOUS
    <2> QED BY <2>4, <2>5, <2>6, <2>7
  <1>3. /\ IsFiniteSet({"primary", "hedge", "tiebreak"} \X Chunks)
        /\ IsFiniteSet({"copy"} \X Checked) /\ IsFiniteSet({"probe"} \X Probes)
    BY <1>1, <1>2, FS_Product
  <1> QED BY <1>3, FS_Union DEF Tasks

LEMMA TaskFacts ==
    /\ NoTask \notin Tasks
    /\ \A t \in Tasks : Chunk(t) \in Chunks /\ TiebreakOf(t) \in Tasks /\ Dynamic(TiebreakOf(t))
                        /\ Chunk(TiebreakOf(t)) = Chunk(t)
  BY LifecycleAssumption DEF Tasks, NoTask, Chunk, TiebreakOf, Dynamic, Kind
-----------------------------------------------------------------------------
(* The inductive invariant                                                 *)

\* A row waiting for a worker is not both pinned and already executed, so a
\* commit always finds its task running.
PinInv == \A t \in Tasks : Status(t) \in {"queued", "retrying"}
                             => task[t].claimedBy = Nobody \/ task[t].execBy = Nobody

\* The no-peer list holds primaries, which exist from the start.
ListInv == \A t \in noPeerSeen : Kind(t) = "primary"

\* A verdict belongs to an attempt that is over, or to the delivered one.
VerdictInv == \A v \in verdicts :
                 /\ v[2] <= task[v[1]].retry
                 /\ v[2] = task[v[1]].retry => Status(v[1]) = "complete"
                 /\ Status(v[1]) # "absent"

\* Open work is exactly one item per delivered result that awaits its verdict,
\* and a terminal job has none.
WorkInv ==
    trampled = {} =>
        /\ \A t \in Tasks, n \in Nat : <<t, n>> \in openWork
                                          <=> Status(t) = "verifying" /\ task[t].retry = n
        /\ Terminal => \A t \in Tasks : Status(t) # "verifying"
-----------------------------------------------------------------------------
(* Type correctness                                                        *)

LEMMA InitType == Init => TypeOK
  <1> SUFFICES ASSUME Init PROVE TypeOK OBVIOUS
  <1>1. taskCount \in Nat
    <2>1. IsFiniteSet(InitialTasks) BY FiniteTasks, FS_Subset DEF InitialTasks
    <2> QED BY <2>1, FS_CardinalityType DEF Init
  <1>2. task \in [Tasks -> Row] BY FreshFacts DEF Init
  <1>3. resolution \in [Chunks -> [provisional : Tasks \cup {NoTask}, majority : Tasks \cup {NoTask}]]
    BY DEF Init, Resolved
  <1> QED BY SMTT(20), <1>1, <1>2, <1>3 DEF Init, TypeOK, JobStatus

\* The plans verifyTaskResult can make: the outcomes it can reach, votes taken
\* from the chunk's delivered results, and a third opinion only where none was
\* asked for yet.
LEMMA PlanFacts ==
    ASSUME TypeOK, NEW t \in Tasks, NEW p \in Plans(t)
    PROVE  /\ p.outcome \in {"pass", "pass_with_penalty", "loss_no_payout", "fail"}
           /\ p.outcome = "fail" => p = Decide("fail")
           /\ p.winners \subseteq Peers(t) \cup {t}
           /\ p.losers \subseteq Peers(t) \cup {t}
           /\ t \in p.losers => p.outcome = "loss_no_payout"
           /\ p.tiebreak \in BOOLEAN
           /\ p.tiebreak => /\ Status(TiebreakOf(t)) = "absent"
                            /\ p.winners = {} /\ p.losers = {}
  <1> DEFINE Good(q) ==
        /\ q.outcome \in {"pass", "pass_with_penalty", "loss_no_payout", "fail"}
        /\ q.outcome = "fail" => q = Decide("fail")
        /\ q.winners \subseteq Peers(t) \cup {t}
        /\ q.losers \subseteq Peers(t) \cup {t}
        /\ t \in q.losers => q.outcome = "loss_no_payout"
        /\ q.tiebreak \in BOOLEAN
        /\ q.tiebreak => /\ Status(TiebreakOf(t)) = "absent"
                         /\ q.winners = {} /\ q.losers = {}
  <1>1. \A o \in {"pass", "pass_with_penalty", "fail"} : Good(Decide(o))
    BY DEF Decide, Plan
  <1>2. ASSUME NEW B \in Ballots(Peers(t) \cup {t}) PROVE Good(ResolveTiebreak(t, B))
    <2> DEFINE agree(r) == {b \in B : task[b].result = r}
               strict == {r \in {"good", "bad"} : 2 * Cardinality(agree(r)) > Cardinality(B)}
               r == CHOOSE x \in strict : TRUE
               lost == B \ agree(r)
    <2>1. CASE strict = {} BY <1>1, <2>1 DEF ResolveTiebreak
    <2>2. CASE strict # {}
      <3>1. ResolveTiebreak(t, B) =
              Plan(IF task[t].execBy \in Suppliers(lost) THEN "loss_no_payout" ELSE "pass",
                   agree(r), lost, FALSE)
        BY <2>2 DEF ResolveTiebreak
      <3>2. B \subseteq Peers(t) \cup {t} BY DEF Ballots
      <3>3. t \in lost => task[t].execBy \in Suppliers(lost) BY DEF Suppliers
      <3> HIDE DEF lost, r, agree
      <3>4. agree(r) \subseteq B /\ lost \subseteq B BY DEF lost, agree
      <3> QED BY SMTT(20), <3>1, <3>2, <3>3, <3>4 DEF Plan
    <2> QED BY <2>1, <2>2
  <1>3. Status(TiebreakOf(t)) = "absent" => Good(Plan("pass_with_penalty", {}, {}, TRUE))
    BY DEF Plan
  <1>4. ASSUME NEW B \in Ballots(Peers(t) \cup {t}), NEW q \in BallotPlans(t, B) PROVE Good(q)
    <2> HIDE DEF Good
    <2> QED BY <1>1, <1>2, <1>3, <1>4 DEF BallotPlans
  <1>5. Good(p)
    <2> HIDE DEF Good
    <2> QED BY <1>1, <1>4 DEF Plans
  <1> QED BY <1>5

\* AcceptResult keeps the types: rows, money and resolution of a settled verdict.
LEMMA AcceptType ==
    ASSUME TypeOK, NEW t \in Tasks, NEW p \in Plans(t) \ {Decide("fail")},
           NEW pin \in Workers \cup {Nobody}, AcceptResult(t, p, pin)
    PROVE  TypeOK'
  <1>1. /\ p.outcome \in {"pass", "pass_with_penalty", "loss_no_payout"}
        /\ p.winners \subseteq Tasks /\ p.losers \subseteq Tasks /\ p.tiebreak \in BOOLEAN
    BY SMTT(20), PlanFacts DEF Peers, ChunkTasks
  <1>2. task' \in [Tasks -> Row]
    <2>1. \A u \in Tasks : /\ Judged(u, "complete", p.outcome) \in Row
                           /\ Judged(u, Status(u), "pass") \in Row
                           /\ Judged(u, Status(u), "clawed_back") \in Row
                           /\ Released(u, "failed") \in Row
                           /\ task[u] \in Row
      <3>1. /\ "complete" \in TaskStatus /\ "failed" \in TaskStatus /\ p.outcome \in Outcomes
            /\ "pass" \in Outcomes /\ "clawed_back" \in Outcomes
        BY <1>1 DEF TaskStatus, Outcomes
      <3> QED BY <3>1, StoredFacts, JudgedFacts, ChangedFacts DEF Status
    <2>2. Fresh(pin) \in Row BY FreshFacts
    <2> QED BY <2>1, <2>2 DEF AcceptResult, Settled
  <1>3. resolution' \in [Chunks -> [provisional : Tasks \cup {NoTask}, majority : Tasks \cup {NoTask}]]
    <2>1. PICK row \in ResolutionRows(t, p) : resolution' = [resolution EXCEPT ![Chunk(t)] = row]
      BY DEF AcceptResult
    <2>2. Chunk(t) \in Chunks BY TaskFacts
    <2>3. MajorityWinners(t, p.winners) \subseteq Tasks BY <1>1 DEF MajorityWinners
    <2>4. row \in [provisional : Tasks \cup {NoTask}, majority : Tasks \cup {NoTask}]
      BY SMTT(20), <2>2, <2>3 DEF ResolutionRows, Resolved, TypeOK
    <2> QED BY <2>1, <2>2, <2>4 DEF TypeOK
  <1>4. openWork' \subseteq Tasks \X Nat /\ verdicts' \subseteq Tasks \X Nat \X (Outcomes \cup {"fail"})
    BY SMTT(20), <1>1, StoredFacts DEF AcceptResult, CloseWork, TypeOK, Outcomes
  <1>5. charged' \subseteq Tasks /\ clawed' \subseteq charged'
    BY DEF AcceptResult, Clawback, TypeOK
  <1>6. jobStatus' \in JobStatus BY DEF AcceptResult, BackToRunning, TypeOK, JobStatus
  <1>7. tasksDone' \in Nat /\ taskCount' \in Nat /\ consumed' \in Nat BY SMTT(20) DEF AcceptResult, TypeOK
  <1> QED BY <1>2, <1>3, <1>4, <1>5, <1>6, <1>7 DEF AcceptResult, TypeOK, sweepVars

\* A single rewritten row keeps the table's type.
LEMMA OneRow ==
    ASSUME TypeOK, NEW t \in Tasks, NEW r \in Row
    PROVE  [task EXCEPT ![t] = r] \in [Tasks -> Row]
  BY DEF TypeOK

\* A step by an agent keeps the types.
LEMMA AgentType ==
    ASSUME TypeOK, NEW w \in Workers, NEW t \in Tasks,
           \/ ClaimTask(w, t) \/ StartTask(w, t) \/ \E r \in Results : CommitTask(w, t, r)
           \/ FailTaskRetry(w, t) \/ FailTaskTerminal(w, t)
    PROVE  TypeOK'
  <1> USE DEF jobVars, workVars, moneyVars, sweepVars
  <1>1. Running(w, t) \in [Tasks -> Row]
    <2>1. "running" \in TaskStatus BY DEF TaskStatus
    <2>2. TaskRow("running", w, w, task[t].retry, task[t].result, task[t].outcome) \in Row
      BY <2>1, StoredFacts, RowFacts
    <2> QED BY <2>2, OneRow DEF Running
  <1>2. executed \cup {<<t, w>>} \subseteq Tasks \X Workers BY SMTT(20) DEF TypeOK
  <1>3. ASSUME ClaimTask(w, t) \/ StartTask(w, t) PROVE TypeOK'
    BY <1>1, <1>2, <1>3 DEF ClaimTask, StartTask, RememberExecution, TypeOK, JobStatus
  <1>4. ASSUME NEW r \in Results, CommitTask(w, t, r) PROVE TypeOK'
    <2>1. TaskRow("verifying", w, w, task[t].retry, r, task[t].outcome) \in Row
      <3>1. "verifying" \in TaskStatus BY DEF TaskStatus
      <3> QED BY <3>1, StoredFacts, RowFacts
    <2>2. task' \in [Tasks -> Row] BY <1>4, <2>1, OneRow DEF CommitTask
    <2>3. openWork' \subseteq Tasks \X Nat BY SMTT(20), <1>4, StoredFacts DEF CommitTask, TypeOK
    <2> QED BY <1>2, <1>4, <2>2, <2>3 DEF CommitTask, TypeOK, JobStatus
  <1>5. Requeued(t, "retrying") \in Row /\ Released(t, "failed") \in Row
    <2>1. "retrying" \in TaskStatus /\ "failed" \in TaskStatus BY DEF TaskStatus
    <2> QED BY <2>1, ChangedFacts
  <1>6. ASSUME FailTaskRetry(w, t) PROVE TypeOK'
    BY <1>5, <1>6, OneRow DEF FailTaskRetry, TypeOK
  <1>7. ASSUME FailTaskTerminal(w, t) PROVE TypeOK'
    BY <1>5, <1>7, OneRow DEF FailTaskTerminal, FailJobWith, TypeOK, JobStatus
  <1> QED BY <1>3, <1>4, <1>6, <1>7

\* A step by a sweeper, and the job's own transitions, keep the types.
LEMMA SweepType ==
    ASSUME TypeOK, SweepStep \/ FinalizeJob \/ CancelJob
    PROVE  TypeOK'
  <1> USE DEF jobVars, workVars, moneyVars, sweepVars
  <1>1. \A t \in Tasks : /\ Requeued(t, "queued") \in Row /\ Requeued(t, "retrying") \in Row
                         /\ Released(t, "failed") \in Row /\ Released(t, "cancelled") \in Row
                         /\ Moved(t, "failed") \in Row /\ Moved(t, "cancelled") \in Row
                         /\ task[t] \in Row
    <2>1. {"queued", "retrying", "failed", "cancelled"} \subseteq TaskStatus BY DEF TaskStatus
    <2> QED BY <2>1, ChangedFacts, StoredFacts
  <1>2. ASSUME ReadStale PROVE TypeOK'
    BY SMTT(20), <1>2, StoredFacts DEF ReadStale, WithStatus, TypeOK
  <1>3. ASSUME SweepStale PROVE TypeOK'
    <2>1. PICK x \in staleSeen :
            /\ staleSeen' = {}
            /\ \/ RequeueStaleTask(x[1]) \/ FailTaskAndSettleJob(x[1])
               \/ UNCHANGED <<task, jobStatus>>
            /\ UNCHANGED <<tasksDone, taskCount, strikes, consumed, workVars, moneyVars,
                           noPeerSeen, stuckSeen, trampled>>
      BY <1>3 DEF SweepStale
    <2>2. x[1] \in Tasks BY DEF TypeOK
    <2>3. task' \in [Tasks -> Row]
      BY <1>1, <2>1, <2>2, OneRow DEF RequeueStaleTask, FailTaskAndSettleJob, TypeOK
    <2>4. jobStatus' \in JobStatus
      BY <2>1 DEF RequeueStaleTask, FailTaskAndSettleJob, BackToRunning, FailJobWith, TypeOK, JobStatus
    <2> QED BY <2>1, <2>3, <2>4 DEF TypeOK
  <1>4. ASSUME NEW t \in Tasks, RescueDeadClaim(t) \/ AdminForceRequeue(t) PROVE TypeOK'
    BY <1>1, <1>4, OneRow DEF RescueDeadClaim, AdminForceRequeue, TypeOK
  <1>5. ASSUME ReadNoPeer PROVE TypeOK'
    BY <1>5 DEF ReadNoPeer, WithStatus, TypeOK
  <1>6. ASSUME RequeueNoPeer PROVE TypeOK'
    <2>1. PICK t \in noPeerSeen :
            /\ noPeerSeen' = {}
            /\ \/ task' = [task EXCEPT ![t] = Requeued(t, "retrying")] /\ jobStatus' = BackToRunning
               \/ UNCHANGED <<task, jobStatus>>
            /\ trampled' \in {trampled, trampled \cup {t}}
            /\ UNCHANGED <<tasksDone, taskCount, strikes, consumed, workVars, moneyVars,
                           staleSeen, stuckSeen>>
      BY <1>6 DEF RequeueNoPeer
    <2>2. t \in Tasks BY DEF TypeOK
    <2>3. task' \in [Tasks -> Row] BY <1>1, <2>1, <2>2, OneRow DEF TypeOK
    <2>4. jobStatus' \in JobStatus BY <2>1 DEF BackToRunning, TypeOK, JobStatus
    <2> QED BY <2>1, <2>2, <2>3, <2>4 DEF TypeOK
  <1>7. ASSUME ReadStuck \/ SkipStuck PROVE TypeOK'
    BY SMTT(20), <1>7 DEF ReadStuck, SkipStuck, TypeOK
  <1>8. ASSUME RescueStuckJob PROVE TypeOK'
    BY SMTT(20), <1>1, <1>8 DEF RescueStuckJob, TypeOK
  <1>9. ASSUME CancelStuckJob PROVE TypeOK'
    BY <1>1, <1>9 DEF CancelStuckJob, CancelledRows, TypeOK, JobStatus
  <1>10. ASSUME DetachTerminal PROVE TypeOK'
    BY <1>1, <1>10 DEF DetachTerminal, TypeOK
  <1>11. ASSUME NEW c \in Chunks, NEW w \in Workers, InsertHedgeTask(c, w) PROVE TypeOK'
    <2>1. <<"hedge", c>> \in Tasks BY DEF Tasks
    <2>2. Fresh(w) \in Row BY FreshFacts
    <2> QED BY SMTT(20), <1>11, <2>1, <2>2, OneRow DEF InsertHedgeTask, TypeOK
  <1>12. ASSUME NEW t \in Tasks, NEW w \in Workers, ReassignPinnedTiebreak(t, w) PROVE TypeOK'
    <2>1. TaskRow(Status(t), w, task[t].execBy, task[t].retry, task[t].result, task[t].outcome) \in Row
      BY StoredFacts, RowFacts DEF Status
    <2> QED BY <1>12, <2>1, OneRow DEF ReassignPinnedTiebreak, TypeOK, JobStatus
  <1>13. ASSUME FinalizeJob PROVE TypeOK'
    BY <1>13 DEF FinalizeJob, TypeOK, JobStatus
  <1>14. ASSUME CancelJob PROVE TypeOK'
    BY <1>1, <1>14 DEF CancelJob, TypeOK, JobStatus
  <1> QED
    BY <1>2, <1>3, <1>4, <1>5, <1>6, <1>7, <1>8, <1>9, <1>10, <1>11, <1>12, <1>13, <1>14
    DEF SweepStep

\* Every step keeps the types.
LEMMA NextType == TypeOK /\ [Next]_vars => TypeOK'
  <1> SUFFICES ASSUME TypeOK, [Next]_vars PROVE TypeOK' OBVIOUS
  <1>1. ASSUME NEW t \in Tasks, RejectResult(t) PROVE TypeOK'
    <2>1. Requeued(t, "retrying") \in Row
      <3>1. "retrying" \in TaskStatus BY DEF TaskStatus
      <3> QED BY <3>1, ChangedFacts
    <2>2. task' \in [Tasks -> Row] BY <1>1, <2>1, OneRow DEF RejectResult
    <2>3. openWork' \subseteq Tasks \X Nat /\ verdicts' \subseteq Tasks \X Nat \X (Outcomes \cup {"fail"})
      BY SMTT(20), <1>1, StoredFacts DEF RejectResult, CloseWork, TypeOK
    <2> QED BY <1>1, <2>2, <2>3 DEF RejectResult, BackToRunning, TypeOK, JobStatus, moneyVars, sweepVars
  <1>2. ASSUME NEW t \in Tasks, Verify(t) PROVE TypeOK'
    BY <1>1, <1>2, AcceptType DEF Verify
  <1>3. ASSUME UNCHANGED vars PROVE TypeOK'
    BY <1>3 DEF vars, jobVars, workVars, moneyVars, sweepVars, TypeOK
  <1> QED BY <1>2, <1>3, AgentType, SweepType DEF Next, AgentStep

\* A terminal job keeps its status, counters, verdicts, charges and resolutions.
THEOREM TerminalFrozen == Spec => TerminalIsFrozen
  <1> DEFINE Frozen == Terminal => UNCHANGED <<jobVars, verdicts, moneyVars>>
  <1> USE DEF jobVars, workVars, moneyVars, sweepVars
  <1>1. ASSUME Terminal, [Next]_vars PROVE UNCHANGED <<jobVars, verdicts, moneyVars>>
    <2>0. ~Live /\ jobStatus \notin {"queued", "running", "verifying"} BY <1>1 DEF Live, Terminal
    <2>1. CASE AgentStep
      <3>1. ASSUME NEW w \in Workers, NEW t \in Tasks, ClaimTask(w, t)
            PROVE  UNCHANGED <<jobVars, verdicts, moneyVars>>
        BY <2>0, <3>1 DEF ClaimTask
      <3>2. ASSUME NEW w \in Workers, NEW t \in Tasks, StartTask(w, t)
            PROVE  UNCHANGED <<jobVars, verdicts, moneyVars>>
        BY <2>0, <3>2 DEF StartTask
      <3>3. ASSUME NEW w \in Workers, NEW t \in Tasks, NEW r \in Results, CommitTask(w, t, r)
            PROVE  UNCHANGED <<jobVars, verdicts, moneyVars>>
        BY <2>0, <3>3 DEF CommitTask
      <3>4. ASSUME NEW w \in Workers, NEW t \in Tasks, FailTaskRetry(w, t)
            PROVE  UNCHANGED <<jobVars, verdicts, moneyVars>>
        BY <2>0, <3>4 DEF FailTaskRetry
      <3>5. ASSUME NEW w \in Workers, NEW t \in Tasks, FailTaskTerminal(w, t)
            PROVE  UNCHANGED <<jobVars, verdicts, moneyVars>>
        BY <1>1, <3>5 DEF FailTaskTerminal, FailJobWith
      <3> QED BY <2>1, <3>1, <3>2, <3>3, <3>4, <3>5 DEF AgentStep
    <2>2. ASSUME NEW t \in Tasks, Verify(t) PROVE FALSE
      BY <2>0, <2>2 DEF Verify, RejectResult, AcceptResult
    <2>3. CASE FinalizeJob \/ CancelJob BY <2>0, <2>3 DEF FinalizeJob, CancelJob
    <2>4. CASE SweepStep
      <3>1. CASE ReadStale \/ ReadNoPeer \/ ReadStuck \/ SkipStuck \/ DetachTerminal
        BY <3>1 DEF ReadStale, ReadNoPeer, ReadStuck, SkipStuck, DetachTerminal
      <3>2. CASE SweepStale
        BY <1>1, <2>0, <3>2 DEF SweepStale, RequeueStaleTask, FailTaskAndSettleJob, FailJobWith
      <3>3. CASE RequeueNoPeer BY <2>0, <3>3 DEF RequeueNoPeer, BackToRunning
      <3>4. CASE RescueStuckJob \/ CancelStuckJob BY <2>0, <3>4 DEF RescueStuckJob, CancelStuckJob
      <3>5. CASE \E t \in Tasks : RescueDeadClaim(t) \/ AdminForceRequeue(t)
        BY <3>5 DEF RescueDeadClaim, AdminForceRequeue
      <3>6. ASSUME NEW c \in Chunks, NEW w \in Workers, InsertHedgeTask(c, w) PROVE FALSE
        BY <2>0, <3>6 DEF InsertHedgeTask, ReserveLeft
      <3>7. ASSUME NEW t \in Tasks, NEW w \in Workers, ReassignPinnedTiebreak(t, w) PROVE FALSE
        BY <2>0, <3>7 DEF ReassignPinnedTiebreak
      <3> QED BY <2>4, <3>1, <3>2, <3>3, <3>4, <3>5, <3>6, <3>7 DEF SweepStep
    <2>5. CASE UNCHANGED vars BY <2>5 DEF vars
    <2> QED BY <1>1, <2>1, <2>2, <2>3, <2>4, <2>5 DEF Next
  <1>2. [Next]_vars => [Frozen]_vars BY <1>1
  <1> QED BY <1>2, PTL DEF Spec, TerminalIsFrozen
-----------------------------------------------------------------------------
(* The steps that neither deliver a result, judge one nor insert a task      *)

\* What all those steps have in common.
QuietRow(t) ==
    \/ task'[t] = task[t]
    \/ /\ Status(t) \in {"queued", "running", "retrying"}
       /\ task'[t].status \in {"queued", "running", "retrying", "failed", "cancelled"}
       /\ task'[t].retry >= task[t].retry
       /\ task'[t].status \in {"queued", "retrying"}
            => task'[t].claimedBy = Nobody \/ task'[t].execBy = Nobody

Quiet ==
    /\ UNCHANGED <<openWork, verdicts, charged, clawed, trampled, consumed>>
    /\ \A t \in Tasks : QuietRow(t)
    /\ InFlight(task') \subseteq InFlight(task) \/ WithinCap(task')
    /\ ~Terminal /\ Terminal' => \A t \in Tasks : Status(t) # "verifying"
    /\ ListInv'

\* Rows that were in flight before, and no new ones.
LEMMA QuietFlight ==
    ASSUME TypeOK, \A t \in Tasks : task'[t] = task[t] \/ task'[t].status \notin {"running", "verifying"}
    PROVE  InFlight(task') \subseteq InFlight(task)
  BY DEF InFlight

\* A claim or a start is quiet; what it puts in flight fits under the cap.
LEMMA QuietClaim ==
    ASSUME TypeOK, ListInv, NEW w \in Workers, NEW t \in Tasks, ClaimTask(w, t) \/ StartTask(w, t)
    PROVE  Quiet
  <1> USE DEF moneyVars, sweepVars
  <1>1. /\ task' = Running(w, t) /\ Status(t) \in {"queued", "retrying"}
        /\ UNCHANGED <<openWork, verdicts, charged, clawed, trampled, consumed, noPeerSeen>>
    BY DEF ClaimTask, StartTask, Claimable
  <1>2. task'[t].status = "running" /\ task'[t].retry = task[t].retry
    BY <1>1 DEF Running, TaskRow, TypeOK
  <1>3. \A u \in Tasks \ {t} : task'[u] = task[u] BY <1>1 DEF Running, TypeOK
  <1>4. \A u \in Tasks : QuietRow(u) BY SMTT(20), <1>1, <1>2, <1>3, StoredFacts DEF QuietRow
  <1>5. WithinCap(task')
    <2>1. CASE ClaimTask(w, t) BY <2>1 DEF ClaimTask
    <2>2. CASE StartTask(w, t)
      <3>1. InFlight(task') = InFlight(task) \cup {t} BY <1>2, <1>3 DEF InFlight
      <3>2. t \notin InFlight(task) BY <1>1 DEF InFlight, Status
      <3>3. IsFiniteSet(InFlight(task)) BY FiniteTasks, FS_Subset DEF InFlight
      <3>4. Cardinality(InFlight(task')) = Cardinality(InFlight(task)) + 1
        BY <3>1, <3>2, <3>3, FS_AddElement
      <3>5. Cardinality(charged) \in Nat /\ Cardinality(InFlight(task)) \in Nat
        BY <3>3, FiniteTasks, FS_Subset, FS_CardinalityType DEF TypeOK
      <3>6. Cardinality(charged) + Cardinality(InFlight(task)) + 1 <= Cap
        BY <2>2 DEF StartTask, TiebreakEligible
      <3> QED BY SMTT(20), <1>1, <3>4, <3>5, <3>6, LifecycleAssumption DEF WithinCap
    <2> QED BY <2>1, <2>2
  <1>6. ~Terminal' BY DEF ClaimTask, StartTask, Live, Terminal
  <1> QED BY <1>1, <1>4, <1>5, <1>6 DEF Quiet, ListInv

\* Rewriting one waiting or running row by Requeued or Released is quiet.
LEMMA QuietRows ==
    ASSUME TypeOK, NEW S \in SUBSET Tasks,
           \A t \in S : Status(t) \in {"queued", "running", "retrying"},
           \A t \in Tasks \ S : task'[t] = task[t],
           \A t \in S : \E s \in {"queued", "retrying", "failed", "cancelled"} :
              \/ task'[t] = Released(t, s) \/ task'[t] = Requeued(t, s)
              \/ s \notin {"queued", "retrying"} /\ task'[t] = Moved(t, s)
    PROVE  (\A t \in Tasks : QuietRow(t)) /\ InFlight(task') \subseteq InFlight(task)
  <1>1. ASSUME NEW t \in S
        PROVE /\ task'[t].status \in {"queued", "retrying", "failed", "cancelled"}
              /\ task'[t].retry >= task[t].retry
              /\ task'[t].status \in {"queued", "retrying"} => task'[t].claimedBy = Nobody
    <2>1. PICK s \in {"queued", "retrying", "failed", "cancelled"} :
              \/ task'[t] = Released(t, s) \/ task'[t] = Requeued(t, s)
              \/ s \notin {"queued", "retrying"} /\ task'[t] = Moved(t, s)
      OBVIOUS
    <2>2. s \in TaskStatus BY DEF TaskStatus
    <2> QED BY SMTT(20), <2>1, <2>2, ChangedFacts, StoredFacts
  <1>2. \A t \in Tasks : QuietRow(t) BY <1>1 DEF QuietRow
  <1>3. \A t \in Tasks : task'[t] = task[t] \/ task'[t].status \notin {"running", "verifying"} BY <1>1
  <1> QED BY <1>2, <1>3, QuietFlight

\* The failure reports are quiet.
LEMMA QuietFail ==
    ASSUME TypeOK, ListInv, NEW w \in Workers, NEW t \in Tasks,
           FailTaskRetry(w, t) \/ FailTaskTerminal(w, t)
    PROVE  Quiet
  <1> USE DEF jobVars, workVars, moneyVars, sweepVars
  <1>1. /\ Status(t) \in {"queued", "running", "retrying"}
        /\ task'[t] \in {Requeued(t, "retrying"), Released(t, "failed")}
        /\ \A u \in Tasks \ {t} : task'[u] = task[u]
        /\ UNCHANGED <<openWork, verdicts, charged, clawed, trampled, consumed, noPeerSeen>>
    BY DEF FailTaskRetry, FailTaskTerminal, TypeOK
  <1>2. (\A u \in Tasks : QuietRow(u)) /\ InFlight(task') \subseteq InFlight(task)
    BY <1>1, QuietRows, {t} \in SUBSET Tasks
  <1>3. ~Terminal /\ Terminal' => \A u \in Tasks : Status(u) # "verifying"
    <2>1. CASE FailTaskRetry(w, t) BY <2>1 DEF FailTaskRetry, Terminal
    <2>2. CASE FailTaskTerminal(w, t)
      BY <1>1, <2>2 DEF FailTaskTerminal, FailJobWith, Pending, Status
    <2> QED BY <2>1, <2>2
  <1> QED BY <1>1, <1>2, <1>3 DEF Quiet, ListInv

\* The sweepers that act on one running row are quiet.
LEMMA QuietSweep ==
    ASSUME TypeOK, ListInv,
           \/ SweepStale \/ \E t \in Tasks : RescueDeadClaim(t) \/ AdminForceRequeue(t)
    PROVE  Quiet
  <1> USE DEF jobVars, workVars, moneyVars, sweepVars
  <1>1. ASSUME NEW t \in Tasks, RescueDeadClaim(t) \/ AdminForceRequeue(t) PROVE Quiet
    <2>1. /\ Status(t) \in {"queued", "running", "retrying"}
          /\ task'[t] = Requeued(t, "queued")
          /\ \A u \in Tasks \ {t} : task'[u] = task[u]
          /\ UNCHANGED <<openWork, verdicts, charged, clawed, trampled, consumed, noPeerSeen, jobStatus>>
      BY <1>1 DEF RescueDeadClaim, AdminForceRequeue, TypeOK
    <2>2. (\A u \in Tasks : QuietRow(u)) /\ InFlight(task') \subseteq InFlight(task)
      BY <2>1, QuietRows, {t} \in SUBSET Tasks
    <2> QED BY <2>1, <2>2 DEF Quiet, ListInv, Terminal
  <1>2. ASSUME SweepStale PROVE Quiet
    <2>1. PICK x \in staleSeen :
            /\ \/ RequeueStaleTask(x[1]) \/ FailTaskAndSettleJob(x[1])
               \/ UNCHANGED <<task, jobStatus>>
            /\ UNCHANGED <<tasksDone, taskCount, strikes, consumed, workVars, moneyVars,
                           noPeerSeen, stuckSeen, trampled>>
      BY <1>2 DEF SweepStale
    <2> DEFINE t == x[1]
    <2>2. t \in Tasks BY DEF TypeOK
    <2> HIDE DEF t
    <2>3. CASE UNCHANGED <<task, jobStatus>>
      BY <2>1, <2>3 DEF Quiet, QuietRow, ListInv, Terminal, InFlight
    <2>4. CASE RequeueStaleTask(t) \/ FailTaskAndSettleJob(t)
      <3>1. /\ Status(t) \in {"queued", "running", "retrying"}
            /\ task'[t] \in {Requeued(t, "queued"), Released(t, "failed")}
            /\ \A u \in Tasks \ {t} : task'[u] = task[u]
        BY <2>2, <2>4 DEF RequeueStaleTask, FailTaskAndSettleJob, TypeOK
      <3>2. (\A u \in Tasks : QuietRow(u)) /\ InFlight(task') \subseteq InFlight(task)
        BY <2>2, <3>1, QuietRows, {t} \in SUBSET Tasks
      <3>3. ~Terminal /\ Terminal' => \A u \in Tasks : Status(u) # "verifying"
        <4>1. CASE RequeueStaleTask(t) BY <4>1 DEF RequeueStaleTask, BackToRunning, Terminal
        <4>2. CASE FailTaskAndSettleJob(t)
          BY <3>1, <4>2 DEF FailTaskAndSettleJob, FailJobWith, Pending, Status
        <4> QED BY <2>4, <4>1, <4>2
      <3> QED BY <2>1, <3>2, <3>3 DEF Quiet, ListInv
    <2> QED BY <2>1, <2>3, <2>4 DEF t
  <1> QED BY <1>1, <1>2

\* The job-wide transitions and the list reads are quiet.
LEMMA QuietJob ==
    ASSUME TypeOK, ListInv,
           \/ FinalizeJob \/ CancelJob \/ DetachTerminal \/ RescueStuckJob \/ CancelStuckJob
           \/ ReadStale \/ ReadNoPeer \/ ReadStuck \/ SkipStuck
    PROVE  Quiet
  <1> USE DEF jobVars, workVars, moneyVars, sweepVars
  <1>1. ASSUME ReadStale \/ ReadNoPeer \/ ReadStuck \/ SkipStuck PROVE Quiet
    <2>1. UNCHANGED <<jobVars, task, workVars, moneyVars, trampled>>
      BY <1>1 DEF ReadStale, ReadNoPeer, ReadStuck, SkipStuck
    <2>2. ListInv' BY <1>1 DEF ReadStale, ReadNoPeer, ReadStuck, SkipStuck, ListInv
    <2> QED BY <2>1, <2>2 DEF Quiet, QuietRow, InFlight, Terminal
  <1>2. ASSUME FinalizeJob PROVE Quiet
    BY <1>2 DEF FinalizeJob, Finalizable, Quiet, QuietRow, InFlight, ListInv
  <1>3. ASSUME CancelJob PROVE Quiet
    <2> DEFINE S == WithStatus({"queued"})
    <2>1. /\ S \in SUBSET Tasks /\ \A t \in S : Status(t) \in {"queued", "running", "retrying"}
          /\ \A t \in Tasks \ S : task'[t] = task[t]
          /\ \A t \in S : task'[t] = Moved(t, "failed")
      BY <1>3 DEF CancelJob, WithStatus, Status
    <2> HIDE DEF S
    <2>2. (\A u \in Tasks : QuietRow(u)) /\ InFlight(task') \subseteq InFlight(task)
      BY <2>1, QuietRows
    <2>3. \A t \in Tasks : Status(t) # "verifying" BY <1>3 DEF CancelJob, Pending, Status
    <2> QED BY <1>3, <2>2, <2>3 DEF CancelJob, Quiet, ListInv
  <1>4. ASSUME DetachTerminal PROVE Quiet
    <2>1. /\ Unfinished \in SUBSET Tasks
          /\ \A t \in Unfinished : Status(t) \in {"queued", "running", "retrying"}
          /\ \A t \in Tasks \ Unfinished : task'[t] = task[t]
          /\ \A t \in Unfinished : task'[t] \in {Released(t, "cancelled"), Released(t, "failed")}
      BY <1>4 DEF DetachTerminal, Unfinished, WithStatus, Status
    <2>2. (\A u \in Tasks : QuietRow(u)) /\ InFlight(task') \subseteq InFlight(task)
      BY <2>1, QuietRows
    <2> QED BY <1>4, <2>2 DEF DetachTerminal, Quiet, ListInv, Terminal
  <1>5. ASSUME RescueStuckJob PROVE Quiet
    <2> DEFINE S == WithStatus({"running", "retrying"})
    <2>1. /\ S \in SUBSET Tasks /\ \A t \in S : Status(t) \in {"queued", "running", "retrying"}
          /\ \A t \in Tasks \ S : task'[t] = task[t]
          /\ \A t \in S : task'[t] = Requeued(t, "queued")
      BY <1>5 DEF RescueStuckJob, WithStatus, Status
    <2> HIDE DEF S
    <2>2. (\A u \in Tasks : QuietRow(u)) /\ InFlight(task') \subseteq InFlight(task)
      BY <2>1, QuietRows
    <2> QED BY <1>5, <2>2 DEF RescueStuckJob, Quiet, ListInv, Terminal
  <1>6. ASSUME CancelStuckJob PROVE Quiet
    <2> DEFINE S == WithStatus({"queued", "running", "retrying"})
    <2>1. \A t \in Tasks : Status(t) # "verifying" BY <1>6 DEF CancelStuckJob, Pending, Status
    <2>2. /\ S \in SUBSET Tasks /\ \A t \in S : Status(t) \in {"queued", "running", "retrying"}
          /\ \A t \in Tasks \ S : task'[t] = task[t]
          /\ \A t \in S : task'[t] = Moved(t, "cancelled")
      BY <1>6, <2>1 DEF CancelStuckJob, CancelledRows, WithStatus, Status
    <2> HIDE DEF S
    <2>3. (\A u \in Tasks : QuietRow(u)) /\ InFlight(task') \subseteq InFlight(task)
      BY <2>2, QuietRows
    <2> QED BY <1>6, <2>1, <2>3 DEF CancelStuckJob, Quiet, ListInv
  <1> QED BY <1>1, <1>2, <1>3, <1>4, <1>5, <1>6

\* Moving a pin is quiet: the row was pinned, so it was never executed.
LEMMA QuietReassign ==
    ASSUME TypeOK, ListInv, PinInv, NEW t \in Tasks, NEW w \in Workers, ReassignPinnedTiebreak(t, w)
    PROVE  Quiet
  <1> USE DEF jobVars, workVars, moneyVars, sweepVars
  <1>1. /\ Status(t) \in {"queued", "retrying"} /\ task[t].execBy = Nobody
        /\ UNCHANGED <<openWork, verdicts, charged, clawed, trampled, consumed, noPeerSeen>>
        /\ \A u \in Tasks \ {t} : task'[u] = task[u]
    BY DEF ReassignPinnedTiebreak, PinInv, TypeOK
  <1>2. task'[t].status = Status(t) /\ task'[t].retry = task[t].retry /\ task'[t].execBy = Nobody
    BY <1>1 DEF ReassignPinnedTiebreak, TaskRow, TypeOK
  <1>3. \A u \in Tasks : QuietRow(u) BY SMTT(20), <1>1, <1>2, StoredFacts DEF QuietRow
  <1>4. InFlight(task') \subseteq InFlight(task) BY <1>1, <1>2 DEF InFlight, Status
  <1>5. ~Terminal' BY DEF ReassignPinnedTiebreak, Terminal
  <1> QED BY <1>1, <1>3, <1>4, <1>5 DEF Quiet, ListInv

\* The no-peer requeue of a task that is no longer running.
Trample(t) ==
    /\ t \in noPeerSeen /\ noPeerSeen' = {}
    /\ Status(t) # "cancelled"
    /\ task' = [task EXCEPT ![t] = Requeued(t, "retrying")]
    /\ trampled' = trampled \cup {t}
    /\ UNCHANGED <<consumed, workVars, moneyVars>>

LEMMA NoPeerCases ==
    ASSUME TypeOK, ListInv, RequeueNoPeer
    PROVE  Quiet \/ \E t \in Tasks : Trample(t)
  <1> USE DEF workVars, moneyVars
  <1>1. PICK t \in noPeerSeen :
          /\ noPeerSeen' = {}
          /\ \/ /\ Status(t) # "cancelled" /\ task[t].retry < MaxAttempt
                /\ task' = [task EXCEPT ![t] = Requeued(t, "retrying")]
                /\ jobStatus' = BackToRunning
                /\ trampled' = IF Status(t) = "running" THEN trampled ELSE trampled \cup {t}
             \/ UNCHANGED <<task, jobStatus, trampled>>
          /\ UNCHANGED <<consumed, workVars, moneyVars>>
    BY DEF RequeueNoPeer
  <1>2. t \in Tasks /\ ListInv' BY <1>1 DEF TypeOK, ListInv
  <1>3. CASE UNCHANGED <<task, jobStatus, trampled>>
    BY <1>1, <1>2, <1>3 DEF Quiet, QuietRow, InFlight, Terminal
  <1>4. CASE /\ Status(t) # "cancelled"
             /\ task' = [task EXCEPT ![t] = Requeued(t, "retrying")]
             /\ jobStatus' = BackToRunning
             /\ trampled' = IF Status(t) = "running" THEN trampled ELSE trampled \cup {t}
    <2>1. CASE Status(t) # "running" BY <1>1, <1>2, <1>4, <2>1 DEF Trample
    <2>2. CASE Status(t) = "running"
      <3>1. task'[t] = Requeued(t, "retrying") /\ \A u \in Tasks \ {t} : task'[u] = task[u]
        BY <1>2, <1>4 DEF TypeOK
      <3>2. (\A u \in Tasks : QuietRow(u)) /\ InFlight(task') \subseteq InFlight(task)
        BY <1>2, <2>2, <3>1, QuietRows, {t} \in SUBSET Tasks
      <3>3. Terminal' <=> Terminal BY <1>4 DEF BackToRunning, Terminal
      <3> QED BY <1>1, <1>2, <1>4, <2>2, <3>2, <3>3 DEF Quiet
    <2> QED BY <2>1, <2>2
  <1> QED BY <1>1, <1>3, <1>4

\* Every step is quiet, delivers a result, judges one, inserts a hedge or
\* requeues a task that had left "running".
LEMMA StepCases ==
    ASSUME TypeOK, ListInv, PinInv, [Next]_vars
    PROVE  \/ Quiet
           \/ \E w \in Workers, t \in Tasks, r \in Results : CommitTask(w, t, r)
           \/ \E t \in Tasks : RejectResult(t)
           \/ \E t \in Tasks : \E p \in Plans(t) \ {Decide("fail")}, pin \in Workers \cup {Nobody} :
                 AcceptResult(t, p, pin)
           \/ \E c \in Chunks, w \in Workers : InsertHedgeTask(c, w)
           \/ \E t \in Tasks : Trample(t)
  <1>1. ASSUME UNCHANGED vars PROVE Quiet
    BY <1>1 DEF vars, jobVars, workVars, moneyVars, sweepVars, Quiet, QuietRow, InFlight, Terminal, ListInv
  <1>2. ASSUME AgentStep
        PROVE  Quiet \/ \E w \in Workers, t \in Tasks, r \in Results : CommitTask(w, t, r)
    BY <1>2, QuietClaim, QuietFail DEF AgentStep
  <1>3. ASSUME SweepStep \/ FinalizeJob \/ CancelJob
        PROVE  \/ Quiet
               \/ \E c \in Chunks, w \in Workers : InsertHedgeTask(c, w)
               \/ \E t \in Tasks : Trample(t)
    <2>1. ASSUME RequeueNoPeer PROVE Quiet \/ \E t \in Tasks : Trample(t) BY <2>1, NoPeerCases
    <2>2. ASSUME NEW t \in Tasks, NEW w \in Workers, ReassignPinnedTiebreak(t, w) PROVE Quiet
      BY <2>2, QuietReassign
    <2>3. ASSUME SweepStale \/ \E t \in Tasks : RescueDeadClaim(t) \/ AdminForceRequeue(t) PROVE Quiet
      BY <2>3, QuietSweep
    <2>4. ASSUME \/ FinalizeJob \/ CancelJob \/ DetachTerminal \/ RescueStuckJob \/ CancelStuckJob
                 \/ ReadStale \/ ReadNoPeer \/ ReadStuck \/ SkipStuck
          PROVE Quiet
      BY <2>4, QuietJob
    <2> QED BY <1>3, <2>1, <2>2, <2>3, <2>4 DEF SweepStep
  <1> QED BY <1>1, <1>2, <1>3 DEF Next, Verify
-----------------------------------------------------------------------------
(* The effect of the other steps on the task rows                          *)

\* A delivery finds its task running.
LEMMA CommitFacts ==
    ASSUME TypeOK, PinInv, NEW w \in Workers, NEW t \in Tasks, NEW r \in Results, CommitTask(w, t, r)
    PROVE  /\ Status(t) = "running" /\ task'[t].status = "verifying" /\ task'[t].retry = task[t].retry
           /\ \A u \in Tasks \ {t} : task'[u] = task[u]
           /\ openWork' = openWork \cup {<<t, task[t].retry>>}
           /\ ~Terminal /\ ~Terminal'
           /\ UNCHANGED <<verdicts, charged, clawed, trampled, consumed, noPeerSeen>>
  <1>1. Status(t) = "running" BY LifecycleAssumption DEF CommitTask, PinInv
  <1> QED BY <1>1 DEF CommitTask, TaskRow, TypeOK, Live, Terminal, moneyVars, sweepVars

\* A rejected result goes back to the queue as the next attempt.
LEMMA RejectFacts ==
    ASSUME TypeOK, NEW t \in Tasks, RejectResult(t)
    PROVE  /\ Status(t) = "verifying" /\ <<t, task[t].retry>> \in openWork
           /\ task'[t].status = "retrying" /\ task'[t].retry = task[t].retry + 1
           /\ task'[t].claimedBy = Nobody
           /\ \A u \in Tasks \ {t} : task'[u] = task[u]
           /\ openWork' = openWork \ {<<t, task[t].retry>>}
           /\ verdicts' = verdicts \cup {<<t, task[t].retry, "fail">>}
           /\ ~Terminal /\ ~Terminal'
           /\ UNCHANGED <<charged, clawed, trampled, consumed, noPeerSeen>>
  <1>1. "retrying" \in TaskStatus BY DEF TaskStatus
  <1>2. task'[t] = Requeued(t, "retrying") /\ \A u \in Tasks \ {t} : task'[u] = task[u]
    BY DEF RejectResult, TypeOK
  <1>3. /\ task'[t].status = "retrying" /\ task'[t].retry = task[t].retry + 1
        /\ task'[t].claimedBy = Nobody
    BY SMTT(20), <1>1, <1>2, ChangedFacts
  <1> QED BY <1>2, <1>3
      DEF RejectResult, Verifying, CloseWork, BackToRunning, Live, Terminal, moneyVars, sweepVars

\* An accepted result is complete with the plan's outcome.
LEMMA AcceptFacts ==
    ASSUME TypeOK, NEW t \in Tasks, NEW p \in Plans(t) \ {Decide("fail")},
           NEW pin \in Workers \cup {Nobody}, AcceptResult(t, p, pin)
    PROVE  /\ Status(t) = "verifying" /\ <<t, task[t].retry>> \in openWork
           /\ task'[t].status = "complete" /\ task'[t].retry = task[t].retry
           /\ task'[t].outcome = p.outcome
           /\ p.outcome \in {"pass", "pass_with_penalty", "loss_no_payout"}
           /\ p.tiebreak => p.winners = {} /\ p.losers = {} /\ Status(TiebreakOf(t)) = "absent"
           /\ openWork' = openWork \ {<<t, task[t].retry>>}
           /\ verdicts' = verdicts \cup {<<t, task[t].retry, p.outcome>>}
           /\ ~Terminal /\ ~Terminal'
           /\ UNCHANGED <<trampled, noPeerSeen>>
  <1>1. /\ p.outcome \in {"pass", "pass_with_penalty", "loss_no_payout"}
        /\ p.tiebreak => Status(TiebreakOf(t)) = "absent" /\ p.winners = {} /\ p.losers = {}
    BY PlanFacts
  <1>2. p.outcome \in Outcomes /\ "complete" \in TaskStatus BY <1>1 DEF Outcomes, TaskStatus
  <1>3. task'[t] = Judged(t, "complete", p.outcome) BY DEF AcceptResult, Settled
  <1>4. task'[t].status = "complete" /\ task'[t].retry = task[t].retry /\ task'[t].outcome = p.outcome
    BY SMTT(20), <1>2, <1>3, JudgedFacts
  <1> QED BY <1>1, <1>4
      DEF AcceptResult, Verifying, CloseWork, BackToRunning, Live, Terminal, sweepVars

\* The votes it decided were delivered before and keep their rows but for the
\* outcome.
LEMMA AcceptVote ==
    ASSUME TypeOK, NEW t \in Tasks, NEW p \in Plans(t) \ {Decide("fail")},
           NEW pin \in Workers \cup {Nobody}, AcceptResult(t, p, pin),
           NEW u \in Tasks, u \in p.winners \/ u \in p.losers, u # t
    PROVE  /\ Status(u) = "complete" /\ task'[u].status = "complete"
           /\ task'[u].retry = task[u].retry
           /\ u \in p.winners => task'[u].outcome = "pass"
  <1>1. "pass" \in Outcomes /\ "clawed_back" \in Outcomes /\ "complete" \in TaskStatus
    BY DEF Outcomes, TaskStatus
  <1>2. p.winners \subseteq Peers(t) \cup {t} /\ p.losers \subseteq Peers(t) \cup {t} BY PlanFacts
  <1>3. Status(u) = "complete" BY <1>2 DEF Peers
  <1>4. task' = Settled(t, p, pin) BY DEF AcceptResult
  <1>5. CASE u \in p.winners
    <2>1. task'[u] = Judged(u, "complete", "pass") BY <1>3, <1>4, <1>5 DEF Settled
    <2> QED BY SMTT(20), <1>1, <1>3, <2>1, JudgedFacts
  <1>6. CASE u \notin p.winners
    <2>1. task'[u] = Judged(u, "complete", "clawed_back") BY <1>3, <1>4, <1>6 DEF Settled
    <2> QED BY SMTT(20), <1>1, <1>3, <1>6, <2>1, JudgedFacts
  <1> QED BY <1>5, <1>6

\* Of the other rows, raced siblings fail and a planned third opinion is inserted.
LEMMA AcceptOther ==
    ASSUME TypeOK, NEW t \in Tasks, NEW p \in Plans(t) \ {Decide("fail")},
           NEW pin \in Workers \cup {Nobody}, AcceptResult(t, p, pin),
           NEW u \in Tasks, u \notin p.winners, u \notin p.losers, u # t
    PROVE  \/ /\ Status(u) \in {"queued", "running", "retrying"}
              /\ task'[u].status = "failed" /\ task'[u].retry = task[u].retry
           \/ /\ p.tiebreak /\ u = TiebreakOf(t) /\ Status(u) = "absent"
              /\ task'[u].status = "queued" /\ task'[u].execBy = Nobody
           \/ /\ task'[u] = task[u] /\ ~(p.tiebreak /\ u = TiebreakOf(t))
  <1>1. task' = Settled(t, p, pin) BY DEF AcceptResult
  <1>2. CASE u \in CancelledSiblings(t)
    <2>1. task'[u] = Released(u, "failed") BY <1>1, <1>2 DEF Settled
    <2>2. Status(u) \in {"queued", "running", "retrying"} BY <1>2 DEF CancelledSiblings
    <2>3. "failed" \in TaskStatus BY DEF TaskStatus
    <2> QED BY SMTT(20), <2>1, <2>2, <2>3, ChangedFacts
  <1>3. CASE u \notin CancelledSiblings(t) /\ p.tiebreak /\ u = TiebreakOf(t)
    <2>1. task'[u] = Fresh(pin) BY <1>1, <1>3 DEF Settled
    <2>2. Status(u) = "absent" BY <1>3, PlanFacts
    <2> QED BY <1>3, <2>1, <2>2, FreshFacts
  <1>4. CASE u \notin CancelledSiblings(t) /\ ~(p.tiebreak /\ u = TiebreakOf(t))
    BY <1>1, <1>4 DEF Settled
  <1> QED BY <1>2, <1>3, <1>4

\* A hedge is inserted into a live job as a new row.
LEMMA HedgeFacts ==
    ASSUME TypeOK, NEW c \in Chunks, NEW w \in Workers, InsertHedgeTask(c, w)
    PROVE  LET h == <<"hedge", c>>
           IN /\ h \in Tasks /\ Dynamic(h) /\ Status(h) = "absent"
              /\ task'[h].status = "queued" /\ task'[h].execBy = Nobody
              /\ \A u \in Tasks \ {h} : task'[u] = task[u]
              /\ consumed < Reserved /\ consumed' = consumed + 1
              /\ ~Terminal /\ ~Terminal'
              /\ UNCHANGED <<openWork, verdicts, charged, clawed, trampled, noPeerSeen>>
  <1>1. <<"hedge", c>> \in Tasks /\ Dynamic(<<"hedge", c>>) BY DEF Tasks, Dynamic, Kind
  <1> QED BY <1>1, FreshFacts
      DEF InsertHedgeTask, ReserveLeft, Live, Terminal, workVars, moneyVars, sweepVars, TypeOK

\* A trampled task goes back to the queue as the next attempt.
LEMMA TrampleFacts ==
    ASSUME TypeOK, NEW t \in Tasks, Trample(t)
    PROVE  /\ task'[t].status = "retrying" /\ task'[t].retry = task[t].retry + 1
           /\ task'[t].claimedBy = Nobody
           /\ \A u \in Tasks \ {t} : task'[u] = task[u]
           /\ trampled' # {}
           /\ UNCHANGED <<openWork, verdicts, charged, clawed, consumed>>
  <1>1. "retrying" \in TaskStatus BY DEF TaskStatus
  <1>2. task'[t] = Requeued(t, "retrying") /\ \A u \in Tasks \ {t} : task'[u] = task[u]
    BY DEF Trample, TypeOK
  <1> QED BY SMTT(20), <1>1, <1>2, ChangedFacts DEF Trample, workVars, moneyVars
-----------------------------------------------------------------------------
(* The invariants, one lemma for each                                      *)

LEMMA PinStep ==
    ASSUME TypeOK, ListInv, PinInv, [Next]_vars
    PROVE  PinInv' /\ ListInv'
  <1>1. CASE Quiet BY <1>1 DEF Quiet, QuietRow, PinInv, Status
  <1>2. ASSUME NEW w \in Workers, NEW t \in Tasks, NEW r \in Results, CommitTask(w, t, r)
        PROVE PinInv' /\ ListInv'
    BY <1>2, CommitFacts DEF PinInv, ListInv, Status
  <1>3. ASSUME NEW t \in Tasks, RejectResult(t) PROVE PinInv' /\ ListInv'
    BY <1>3, RejectFacts DEF PinInv, ListInv, Status
  <1>4. ASSUME NEW t \in Tasks, NEW p \in Plans(t) \ {Decide("fail")},
               NEW pin \in Workers \cup {Nobody}, AcceptResult(t, p, pin)
        PROVE PinInv' /\ ListInv'
    <2>1. ASSUME NEW u \in Tasks
          PROVE  \/ task'[u] = task[u] \/ task'[u].status \in {"complete", "failed"}
                 \/ task'[u].execBy = Nobody
      <3>1. CASE u = t BY <1>4, <3>1, AcceptFacts
      <3>2. CASE u # t BY SMTT(20), <1>4, <3>2, AcceptVote, AcceptOther
      <3> QED BY <3>1, <3>2
    <2>2. noPeerSeen' = noPeerSeen BY <1>4, AcceptFacts
    <2> QED BY <2>1, <2>2 DEF PinInv, ListInv, Status
  <1>5. ASSUME NEW c \in Chunks, NEW w \in Workers, InsertHedgeTask(c, w) PROVE PinInv' /\ ListInv'
    BY <1>5, HedgeFacts DEF PinInv, ListInv, Status
  <1>6. ASSUME NEW t \in Tasks, Trample(t) PROVE PinInv' /\ ListInv'
    <2>1. /\ task'[t].claimedBy = Nobody
          /\ \A u \in Tasks \ {t} : task'[u] = task[u]
      BY <1>6, TrampleFacts
    <2>2. PinInv' BY <2>1 DEF PinInv, Status
    <2>3. ListInv' BY <1>6 DEF ListInv, Trample
    <2> QED BY <2>2, <2>3
  <1> QED BY <1>1, <1>2, <1>3, <1>4, <1>5, <1>6, StepCases

\* Cardinalities of sets of tasks.
LEMMA TaskSets ==
    ASSUME NEW A \in SUBSET Tasks
    PROVE  /\ IsFiniteSet(A) /\ Cardinality(A) \in Nat
           /\ \A B \in SUBSET A : Cardinality(B) <= Cardinality(A)
           /\ \A t \in Tasks \ A : Cardinality(A \cup {t}) = Cardinality(A) + 1
           /\ \A t \in A : Cardinality(A \ {t}) = Cardinality(A) - 1
  <1>1. IsFiniteSet(A) BY FiniteTasks, FS_Subset
  <1> QED BY <1>1, FS_Subset, FS_CardinalityType, FS_AddElement, FS_RemoveElement

LEMMA BudgetStep ==
    ASSUME TypeOK, ListInv, PinInv, WithinBudget, [Next]_vars
    PROVE  WithinBudget'
  <1>1. InFlight(task) \in SUBSET Tasks /\ charged \in SUBSET Tasks BY DEF InFlight, TypeOK
  <1>2. ASSUME charged' = charged, InFlight(task') \subseteq InFlight(task) PROVE WithinBudget'
    <2>1. Cardinality(InFlight(task')) <= Cardinality(InFlight(task)) BY <1>1, <1>2, TaskSets
    <2>2. Cardinality(InFlight(task')) \in Nat BY <1>1, <1>2, TaskSets
    <2> QED BY SMTT(20), <1>1, <1>2, <2>1, <2>2, TaskSets, LifecycleAssumption DEF WithinBudget
  <1>3. CASE Quiet BY <1>2, <1>3 DEF Quiet, WithinCap, WithinBudget
  <1>4. ASSUME NEW w \in Workers, NEW t \in Tasks, NEW r \in Results, CommitTask(w, t, r) PROVE WithinBudget'
    BY <1>2, <1>4, CommitFacts DEF InFlight, Status
  <1>5. ASSUME NEW t \in Tasks, RejectResult(t) PROVE WithinBudget'
    BY <1>2, <1>5, RejectFacts DEF InFlight, Status
  <1>6. ASSUME NEW t \in Tasks, NEW p \in Plans(t) \ {Decide("fail")},
               NEW pin \in Workers \cup {Nobody}, AcceptResult(t, p, pin)
        PROVE WithinBudget'
    <2>1. InFlight(task') \subseteq InFlight(task) \ {t}
      <3>1. \A u \in Tasks \ {t} : task'[u] = task[u] \/ task'[u].status \notin {"running", "verifying"}
        BY SMTT(20), <1>6, AcceptVote, AcceptOther
      <3>2. task'[t].status = "complete" BY <1>6, AcceptFacts
      <3> QED BY <3>1, <3>2 DEF InFlight
    <2>2. t \in InFlight(task) BY <1>6, AcceptFacts DEF InFlight, Status
    <2>3. Cardinality(InFlight(task) \ {t}) = Cardinality(InFlight(task)) - 1 BY <1>1, <2>2, TaskSets
    <2>4. Cardinality(InFlight(task')) <= Cardinality(InFlight(task) \ {t})
      BY <1>1, <2>1, TaskSets, InFlight(task) \ {t} \in SUBSET Tasks
    <2>5. charged' = charged \/ (t \notin charged /\ charged' = charged \cup {t})
      BY <1>6 DEF AcceptResult
    <2>6. Cardinality(charged') <= Cardinality(charged) + 1
      BY SMTT(20), <1>1, <2>5, TaskSets
    <2>7. /\ Cardinality(charged) \in Nat /\ Cardinality(charged') \in Nat
          /\ Cardinality(InFlight(task)) \in Nat /\ Cardinality(InFlight(task')) \in Nat
      BY <1>1, <2>1, <2>5, TaskSets, charged \cup {t} \in SUBSET Tasks, InFlight(task') \in SUBSET Tasks
    <2> QED BY SMTT(20), <2>3, <2>4, <2>6, <2>7, LifecycleAssumption DEF WithinBudget
  <1>7. ASSUME NEW c \in Chunks, NEW w \in Workers, InsertHedgeTask(c, w) PROVE WithinBudget'
    BY <1>2, <1>7, HedgeFacts DEF InFlight
  <1>8. ASSUME NEW t \in Tasks, Trample(t) PROVE WithinBudget'
    BY <1>2, <1>8, TrampleFacts DEF InFlight
  <1> QED BY <1>3, <1>4, <1>5, <1>6, <1>7, <1>8, StepCases

LEMMA ReserveStep ==
    ASSUME TypeOK, ListInv, PinInv, ReserveExact, [Next]_vars
    PROVE  ReserveExact'
  <1> DEFINE D(tk) == {t \in Tasks : Dynamic(t) /\ tk[t].status # "absent"}
  <1>1. D(task) \in SUBSET Tasks /\ consumed = Cardinality(D(task)) /\ consumed <= Reserved
    BY DEF ReserveExact, Status
  <1>2. ASSUME consumed' = consumed, D(task') = D(task) PROVE ReserveExact'
    BY <1>1, <1>2 DEF ReserveExact, Status
  <1>3. ASSUME NEW d \in Tasks, d \notin D(task), D(task') = D(task) \cup {d},
               consumed < Reserved, consumed' = consumed + 1
        PROVE  ReserveExact'
    <2>1. Cardinality(D(task) \cup {d}) = Cardinality(D(task)) + 1
      <3> HIDE DEF D
      <3> QED BY <1>1, <1>3, TaskSets
    <2>2. D(task)' = D(task) \cup {d} BY <1>3
    <2>3. D(task) = {t \in Tasks : Dynamic(t) /\ Status(t) # "absent"} BY DEF Status
    <2>4. D(task)' = {t \in Tasks : Dynamic(t) /\ Status(t) # "absent"}' BY DEF Status
    <2> HIDE DEF D
    <2>5. consumed' = Cardinality(D(task)') BY <1>1, <1>3, <2>1, <2>2
    <2>6. consumed' <= Reserved BY SMTT(20), <1>3, LifecycleAssumption DEF TypeOK
    <2> QED BY <2>4, <2>5, <2>6 DEF ReserveExact
  <1>4. CASE Quiet
    <2>1. \A t \in Tasks : (task'[t].status # "absent") <=> (task[t].status # "absent")
      BY <1>4 DEF Quiet, QuietRow, Status
    <2> QED BY <1>2, <1>4, <2>1 DEF Quiet
  <1>5. ASSUME NEW w \in Workers, NEW t \in Tasks, NEW r \in Results, CommitTask(w, t, r) PROVE ReserveExact'
    <2>1. D(task') = D(task) BY <1>5, CommitFacts DEF Status
    <2> QED BY <1>2, <1>5, <2>1, CommitFacts
  <1>6. ASSUME NEW t \in Tasks, RejectResult(t) PROVE ReserveExact'
    <2>1. D(task') = D(task) BY <1>6, RejectFacts DEF Status
    <2> QED BY <1>2, <1>6, <2>1, RejectFacts
  <1>7. ASSUME NEW t \in Tasks, NEW p \in Plans(t) \ {Decide("fail")},
               NEW pin \in Workers \cup {Nobody}, AcceptResult(t, p, pin)
        PROVE ReserveExact'
    <2>1. ASSUME NEW u \in Tasks, ~(p.tiebreak /\ u = TiebreakOf(t))
          PROVE (task'[u].status # "absent") <=> (task[u].status # "absent")
      <3>1. CASE u = t BY <1>7, <3>1, AcceptFacts DEF Status
      <3>2. CASE u # t /\ (u \in p.winners \/ u \in p.losers)
        BY <1>7, <3>2, AcceptVote DEF Status
      <3>3. CASE u # t /\ u \notin p.winners /\ u \notin p.losers
        <4>1. \/ Status(u) \in {"queued", "running", "retrying"} /\ task'[u].status = "failed"
              \/ task'[u] = task[u]
          BY SMTT(20), <1>7, <2>1, <3>3, AcceptOther
        <4> QED BY <4>1 DEF Status
      <3> QED BY <3>1, <3>2, <3>3
    <2>2. CASE ~p.tiebreak
      <3>1. D(task') = D(task) BY <2>1, <2>2
      <3> QED BY <1>2, <1>7, <2>2, <3>1 DEF AcceptResult
    <2>3. CASE p.tiebreak
      <3> DEFINE d == TiebreakOf(t)
      <3>1. d \in Tasks /\ Dynamic(d) BY TaskFacts
      <3>2. Status(d) = "absent" /\ p.winners = {} /\ p.losers = {} /\ d # t
        BY <1>7, <2>3, AcceptFacts
      <3>3. task'[d].status = "queued"
        BY <1>7, <2>3, <3>1, <3>2, AcceptOther
      <3> HIDE DEF d
      <3>4. D(task') = D(task) \cup {d} /\ d \notin D(task)
        BY <2>1, <3>1, <3>2, <3>3 DEF d, Status
      <3>5. consumed < Reserved /\ consumed' = consumed + 1
        BY <1>7, <2>3 DEF AcceptResult, ReserveLeft
      <3> QED BY <1>3, <3>1, <3>4, <3>5
    <2> QED BY <2>2, <2>3
  <1>8. ASSUME NEW c \in Chunks, NEW w \in Workers, InsertHedgeTask(c, w) PROVE ReserveExact'
    <2> DEFINE h == <<"hedge", c>>
    <2>1. /\ h \in Tasks /\ Dynamic(h) /\ Status(h) = "absent" /\ task'[h].status = "queued"
          /\ \A u \in Tasks \ {h} : task'[u] = task[u]
          /\ consumed < Reserved /\ consumed' = consumed + 1
      BY <1>8, HedgeFacts
    <2> HIDE DEF h
    <2>2. D(task') = D(task) \cup {h} /\ h \notin D(task) BY <2>1 DEF Status
    <2> QED BY <1>3, <2>1, <2>2
  <1>9. ASSUME NEW t \in Tasks, Trample(t) PROVE ReserveExact'
    <2>1. ~Dynamic(t) BY <1>9 DEF Trample, ListInv, Dynamic
    <2>2. D(task') = D(task) BY <1>9, <2>1, TrampleFacts
    <2> QED BY <1>2, <1>9, <2>2, TrampleFacts
  <1> QED BY <1>4, <1>5, <1>6, <1>7, <1>8, <1>9, StepCases

\* Both facts about verdicts together: the second rests on the first.
LEMMA VerdictStep ==
    ASSUME TypeOK, ListInv, PinInv, VerdictInv, OneVerdictPerAttempt, [Next]_vars
    PROVE  VerdictInv' /\ OneVerdictPerAttempt'
  <1>1. \A v \in verdicts : v[1] \in Tasks /\ v[2] \in Nat /\ task[v[1]].retry \in Nat
    BY StoredFacts DEF TypeOK
  <1>2. ASSUME verdicts' = verdicts,
               \A u \in Tasks : \/ Status(u) \in {"absent"}
                                \/ task'[u].retry = task[u].retry
                                     /\ task'[u].status # "absent"
                                     /\ (Status(u) = "complete" => task'[u].status = "complete")
                                \/ task'[u].retry \in Nat /\ task'[u].retry > task[u].retry
                                     /\ task'[u].status # "absent"
        PROVE  VerdictInv' /\ OneVerdictPerAttempt'
    <2>1. OneVerdictPerAttempt' BY <1>2 DEF OneVerdictPerAttempt
    <2>2. ASSUME NEW v \in verdicts
          PROVE  /\ v[2] <= task'[v[1]].retry
                 /\ v[2] = task'[v[1]].retry => task'[v[1]].status = "complete"
                 /\ task'[v[1]].status # "absent"
      BY SMTT(20), <1>1, <1>2, <2>2 DEF VerdictInv
    <2> QED BY <1>2, <2>1, <2>2 DEF VerdictInv, Status
  <1>3. CASE Quiet
    <2>1. \A u \in Tasks : task[u].retry \in Nat /\ task'[u].retry \in Nat
      BY NextType, StoredFacts DEF TypeOK, Row
    <2>2. ASSUME NEW u \in Tasks
          PROVE  \/ Status(u) \in {"absent"}
                 \/ task'[u].retry = task[u].retry /\ task'[u].status # "absent"
                      /\ (Status(u) = "complete" => task'[u].status = "complete")
                 \/ task'[u].retry \in Nat /\ task'[u].retry > task[u].retry
                      /\ task'[u].status # "absent"
      <3>1. QuietRow(u) BY <1>3 DEF Quiet
      <3>2. task[u].retry \in Nat /\ task'[u].retry \in Nat BY <2>1
      <3> HIDE <1>1, <1>2, <1>3, <2>1
      <3> QED BY SMTT(20), <3>1, <3>2 DEF QuietRow, Status
    <2> QED BY <1>2, <1>3, <2>2 DEF Quiet
  <1>4. ASSUME NEW w \in Workers, NEW t \in Tasks, NEW r \in Results, CommitTask(w, t, r)
        PROVE  VerdictInv' /\ OneVerdictPerAttempt'
    BY <1>2, <1>4, CommitFacts DEF Status
  \* A verdict on t, whose attempt stays or is followed by the next one.
  <1>5. ASSUME NEW t \in Tasks, Status(t) = "verifying", NEW o,
               verdicts' = verdicts \cup {<<t, task[t].retry, o>>},
               \/ task'[t].status = "complete" /\ task'[t].retry = task[t].retry
               \/ task'[t].status = "retrying" /\ task'[t].retry = task[t].retry + 1,
               \A u \in Tasks \ {t} : \/ Status(u) = "absent"
                                      \/ task'[u].retry = task[u].retry
                                           /\ task'[u].status # "absent"
                                           /\ (Status(u) = "complete" => task'[u].status = "complete")
        PROVE  VerdictInv' /\ OneVerdictPerAttempt'
    <2>1. ASSUME NEW v \in verdicts PROVE v[1] # t \/ v[2] < task[t].retry
      BY SMTT(20), <1>1, <1>5, <2>1 DEF VerdictInv
    <2>2. ASSUME NEW v \in verdicts
          PROVE  /\ v[2] <= task'[v[1]].retry
                 /\ v[2] = task'[v[1]].retry => task'[v[1]].status = "complete"
                 /\ task'[v[1]].status # "absent"
      <3>1. CASE v[1] = t BY SMTT(20), <1>1, <1>5, <2>1, <3>1
      <3>2. CASE v[1] # t
        <4>1. v[1] \in Tasks \ {t} BY <1>1, <3>2
        <4>2. /\ v[2] <= task[v[1]].retry
              /\ v[2] = task[v[1]].retry => Status(v[1]) = "complete"
              /\ Status(v[1]) # "absent"
          BY DEF VerdictInv
        <4> QED BY <1>5, <4>1, <4>2
      <3> QED BY <3>1, <3>2
    <2>3. task[t].retry \in Nat BY StoredFacts
    <2>4. VerdictInv' BY SMTT(20), <1>5, <2>2, <2>3 DEF VerdictInv, Status
    <2>5. OneVerdictPerAttempt' BY SMTT(20), <1>1, <1>5, <2>1, <2>3 DEF OneVerdictPerAttempt
    <2> QED BY <2>4, <2>5
  <1>6. ASSUME NEW t \in Tasks, RejectResult(t) PROVE VerdictInv' /\ OneVerdictPerAttempt'
    <2>1. \A u \in Tasks \ {t} : task'[u] = task[u] BY <1>6, RejectFacts
    <2>2. /\ Status(t) = "verifying" /\ verdicts' = verdicts \cup {<<t, task[t].retry, "fail">>}
          /\ task'[t].status = "retrying" /\ task'[t].retry = task[t].retry + 1
      BY <1>6, RejectFacts
    <2>3. \A u \in Tasks \ {t} : \/ Status(u) = "absent"
                                 \/ task'[u].retry = task[u].retry
                                      /\ task'[u].status # "absent"
                                      /\ (Status(u) = "complete" => task'[u].status = "complete")
      BY <2>1 DEF Status
    <2> QED BY <1>5, <2>2, <2>3
  <1>7. ASSUME NEW t \in Tasks, NEW p \in Plans(t) \ {Decide("fail")},
               NEW pin \in Workers \cup {Nobody}, AcceptResult(t, p, pin)
        PROVE  VerdictInv' /\ OneVerdictPerAttempt'
    <2>1. ASSUME NEW u \in Tasks \ {t}
          PROVE  \/ Status(u) = "absent"
                 \/ task'[u].retry = task[u].retry /\ task'[u].status # "absent"
                      /\ (Status(u) = "complete" => task'[u].status = "complete")
      <3>1. CASE u \in p.winners \/ u \in p.losers BY <1>7, <3>1, AcceptVote
      <3>2. CASE u \notin p.winners /\ u \notin p.losers
        BY SMTT(20), <1>7, <3>2, AcceptOther DEF Status
      <3> QED BY <3>1, <3>2
    <2>2. /\ Status(t) = "verifying" /\ task'[t].status = "complete" /\ task'[t].retry = task[t].retry
          /\ verdicts' = verdicts \cup {<<t, task[t].retry, p.outcome>>}
      BY <1>7, AcceptFacts
    <2> QED BY <1>5, <2>1, <2>2
  <1>8. ASSUME NEW c \in Chunks, NEW w \in Workers, InsertHedgeTask(c, w)
        PROVE  VerdictInv' /\ OneVerdictPerAttempt'
    <2>1. \A u \in Tasks : Status(u) = "absent" \/ task'[u] = task[u] BY <1>8, HedgeFacts
    <2> QED BY <1>2, <1>8, <2>1, HedgeFacts DEF Status
  <1>9. ASSUME NEW t \in Tasks, Trample(t) PROVE VerdictInv' /\ OneVerdictPerAttempt'
    <2>1. \A u \in Tasks : task[u].retry \in Nat BY StoredFacts
    <2>2. /\ task'[t].retry = task[t].retry + 1 /\ task'[t].status = "retrying"
          /\ \A u \in Tasks \ {t} : task'[u] = task[u]
          /\ verdicts' = verdicts
      BY <1>9, TrampleFacts
    <2> QED BY SMTT(20), <1>2, <2>1, <2>2 DEF Status
  <1> QED BY <1>3, <1>4, <1>6, <1>7, <1>8, <1>9, StepCases

LEMMA WorkStep ==
    ASSUME TypeOK, ListInv, PinInv, WorkInv, [Next]_vars
    PROVE  WorkInv'
  <1> SUFFICES ASSUME trampled' = {}
               PROVE  /\ \A u \in Tasks, n \in Nat :
                            <<u, n>> \in openWork' <=> task'[u].status = "verifying" /\ task'[u].retry = n
                      /\ Terminal' => \A u \in Tasks : task'[u].status # "verifying"
    BY DEF WorkInv, Status
  <1> DEFINE Goal == /\ \A u \in Tasks, n \in Nat :
                            <<u, n>> \in openWork' <=> task'[u].status = "verifying" /\ task'[u].retry = n
                     /\ Terminal' => \A u \in Tasks : task'[u].status # "verifying"
             Old == /\ \A u \in Tasks, n \in Nat :
                            <<u, n>> \in openWork <=> task[u].status = "verifying" /\ task[u].retry = n
                    /\ Terminal => \A u \in Tasks : task[u].status # "verifying"
  <1>1. trampled = {} => Old BY DEF WorkInv, Status
  <1>2. CASE Quiet
    <2>1. Old BY <1>1, <1>2 DEF Quiet
    <2>2. ASSUME NEW u \in Tasks
          PROVE  task'[u] = task[u] \/ (task[u].status # "verifying" /\ task'[u].status # "verifying")
      <3>1. QuietRow(u) BY <1>2 DEF Quiet
      <3> QED BY <3>1 DEF QuietRow, Status
    <2>3. Terminal' => \A u \in Tasks : task'[u].status # "verifying"
      <3>1. ~Terminal /\ Terminal' => \A u \in Tasks : task[u].status # "verifying"
        BY <1>2 DEF Quiet, Status
      <3> QED BY <2>1, <2>2, <3>1
    <2>4. openWork' = openWork BY <1>2 DEF Quiet
    <2> QED BY <2>1, <2>2, <2>3, <2>4
  <1>3. ASSUME NEW w \in Workers, NEW t \in Tasks, NEW r \in Results, CommitTask(w, t, r) PROVE Goal
    <2>1. /\ Status(t) = "running" /\ task'[t].status = "verifying" /\ task'[t].retry = task[t].retry
          /\ \A u \in Tasks \ {t} : task'[u] = task[u]
          /\ openWork' = openWork \cup {<<t, task[t].retry>>}
          /\ ~Terminal' /\ trampled' = trampled
      BY <1>3, CommitFacts
    <2>2. task[t].retry \in Nat BY StoredFacts
    <2> QED BY SMTT(20), <1>1, <2>1, <2>2 DEF Status
  <1>4. ASSUME NEW t \in Tasks, RejectResult(t) PROVE Goal
    <2>1. /\ Status(t) = "verifying" /\ task'[t].status = "retrying"
          /\ \A u \in Tasks \ {t} : task'[u] = task[u]
          /\ openWork' = openWork \ {<<t, task[t].retry>>}
          /\ ~Terminal' /\ trampled' = trampled
      BY <1>4, RejectFacts
    <2> QED BY SMTT(20), <1>1, <2>1 DEF Status
  <1>5. ASSUME NEW t \in Tasks, NEW p \in Plans(t) \ {Decide("fail")},
               NEW pin \in Workers \cup {Nobody}, AcceptResult(t, p, pin)
        PROVE  Goal
    <2>1. /\ Status(t) = "verifying" /\ task'[t].status = "complete"
          /\ openWork' = openWork \ {<<t, task[t].retry>>}
          /\ ~Terminal' /\ trampled' = trampled
      BY <1>5, AcceptFacts
    <2>2. ASSUME NEW u \in Tasks, u # t
          PROVE  task'[u] = task[u] \/ (task[u].status # "verifying" /\ task'[u].status # "verifying")
      <3>1. CASE u \in p.winners \/ u \in p.losers BY <1>5, <2>2, <3>1, AcceptVote DEF Status
      <3>2. CASE u \notin p.winners /\ u \notin p.losers
        <4>1. \/ Status(u) \in {"queued", "running", "retrying"} /\ task'[u].status = "failed"
              \/ Status(u) = "absent" /\ task'[u].status = "queued"
              \/ task'[u] = task[u]
          BY <1>5, <2>2, <3>2, AcceptOther
        <4> QED BY <4>1 DEF Status
      <3> QED BY <3>1, <3>2
    <2> QED BY SMTT(20), <1>1, <2>1, <2>2 DEF Status
  <1>6. ASSUME NEW c \in Chunks, NEW w \in Workers, InsertHedgeTask(c, w) PROVE Goal
    <2>1. /\ Status(<<"hedge", c>>) = "absent" /\ task'[<<"hedge", c>>].status = "queued"
          /\ \A u \in Tasks \ {<<"hedge", c>>} : task'[u] = task[u]
          /\ openWork' = openWork /\ ~Terminal' /\ trampled' = trampled
      BY <1>6, HedgeFacts
    <2> QED BY SMTT(20), <1>1, <2>1 DEF Status
  <1>7. ASSUME NEW t \in Tasks, Trample(t) PROVE Goal BY <1>7, TrampleFacts
  <1> QED BY <1>2, <1>3, <1>4, <1>5, <1>6, <1>7, StepCases

LEMMA CreditStep ==
    ASSUME TypeOK, ListInv, PinInv, CreditMatchesVerdict, [Next]_vars
    PROVE  CreditMatchesVerdict'
  <1> DEFINE Paid(row) == row.status = "complete" /\ row.outcome \in {"pass", "pass_with_penalty"}
  <1> SUFFICES ASSUME trampled' = {}, NEW u \in charged' \ clawed' PROVE Paid(task'[u])
    BY DEF CreditMatchesVerdict, Status
  <1>1. ASSUME trampled = {}, u \in charged \ clawed PROVE u \in Tasks /\ Paid(task[u])
    BY <1>1 DEF CreditMatchesVerdict, Status, TypeOK
  <1>2. CASE Quiet BY <1>1, <1>2 DEF Quiet, QuietRow, Status
  <1>3. ASSUME NEW w \in Workers, NEW t \in Tasks, NEW r \in Results, CommitTask(w, t, r)
        PROVE Paid(task'[u])
    BY <1>1, <1>3, CommitFacts DEF Status
  <1>4. ASSUME NEW t \in Tasks, RejectResult(t) PROVE Paid(task'[u])
    BY <1>1, <1>4, RejectFacts DEF Status
  <1>5. ASSUME NEW t \in Tasks, NEW p \in Plans(t) \ {Decide("fail")},
               NEW pin \in Workers \cup {Nobody}, AcceptResult(t, p, pin)
        PROVE  Paid(task'[u])
    <2>1. /\ Status(t) = "verifying" /\ task'[t].status = "complete" /\ task'[t].outcome = p.outcome
          /\ p.outcome \in {"pass", "pass_with_penalty", "loss_no_payout"}
          /\ trampled' = trampled
      BY <1>5, AcceptFacts
    <2>2. /\ charged' = charged \/ (charged' = charged \cup {t} /\ p.outcome # "loss_no_payout")
          /\ clawed' = clawed \cup (p.losers \cap charged)
      BY <1>5 DEF AcceptResult, Clawback
    <2>3. CASE u = t BY <1>1, <2>1, <2>2, <2>3 DEF Status
    <2>4. CASE u # t
      <3>1. u \in charged \ clawed /\ u \notin p.losers BY <2>2, <2>4
      <3>2. u \in Tasks /\ Paid(task[u]) BY <1>1, <2>1, <3>1
      <3>3. CASE u \in p.winners BY <1>5, <2>4, <3>2, <3>3, AcceptVote
      <3>4. CASE u \notin p.winners BY SMTT(20), <1>5, <2>4, <3>1, <3>2, <3>4, AcceptOther DEF Status
      <3> QED BY <3>3, <3>4
    <2> QED BY <2>3, <2>4
  <1>6. ASSUME NEW c \in Chunks, NEW w \in Workers, InsertHedgeTask(c, w) PROVE Paid(task'[u])
    BY <1>1, <1>6, HedgeFacts DEF Status
  <1>7. ASSUME NEW t \in Tasks, Trample(t) PROVE Paid(task'[u]) BY <1>7, TrampleFacts
  <1> QED BY <1>2, <1>3, <1>4, <1>5, <1>6, <1>7, StepCases

\* Only a verdict charges, and its fence looks at the racing sibling.
LEMMA ChargeStep ==
    ASSUME TypeOK, ListInv, PinInv, OneChargePerChunk, [Next]_vars
    PROVE  OneChargePerChunk'
  <1>1. ASSUME charged' = charged PROVE OneChargePerChunk' BY <1>1 DEF OneChargePerChunk
  <1>2. CASE Quiet BY <1>1, <1>2 DEF Quiet
  <1>3. ASSUME NEW w \in Workers, NEW t \in Tasks, NEW r \in Results, CommitTask(w, t, r)
        PROVE OneChargePerChunk'
    BY <1>1, <1>3, CommitFacts
  <1>4. ASSUME NEW t \in Tasks, RejectResult(t) PROVE OneChargePerChunk'
    BY <1>1, <1>4, RejectFacts
  <1>5. ASSUME NEW t \in Tasks, NEW p \in Plans(t) \ {Decide("fail")},
               NEW pin \in Workers \cup {Nobody}, AcceptResult(t, p, pin)
        PROVE  OneChargePerChunk'
    <2> SUFFICES ASSUME NEW c \in Chunks, {<<"primary", c>>, <<"hedge", c>>} \subseteq charged'
                 PROVE  FALSE
      BY DEF OneChargePerChunk
    <2>1. charged' = charged \/ (charged' = charged \cup {t} /\ CountsBuyerChunk(t))
      BY <1>5 DEF AcceptResult
    <2>2. /\ ~({<<"primary", c>>, <<"hedge", c>>} \subseteq charged)
          /\ <<"primary", c>> \in Tasks /\ <<"hedge", c>> \in Tasks
      BY DEF OneChargePerChunk, Tasks
    <2>3. CASE t = <<"primary", c>>
      <3>1. <<"hedge", c>> \in Family(t) \ {t} /\ ~IsRedundancy(t)
        BY <2>2, <2>3 DEF Family, ChunkTasks, Chunk, Kind, IsRedundancy
      <3> QED BY <2>1, <2>2, <2>3, <3>1 DEF CountsBuyerChunk, SiblingSettled
    <2>4. CASE t = <<"hedge", c>>
      <3>1. <<"primary", c>> \in Family(t) \ {t} /\ ~IsRedundancy(t)
        BY <2>2, <2>4 DEF Family, ChunkTasks, Chunk, Kind, IsRedundancy
      <3> QED BY <2>1, <2>2, <2>4, <3>1 DEF CountsBuyerChunk, SiblingSettled
    <2> QED BY <2>1, <2>2, <2>3, <2>4
  <1>6. ASSUME NEW c \in Chunks, NEW w \in Workers, InsertHedgeTask(c, w) PROVE OneChargePerChunk'
    BY <1>1, <1>6, HedgeFacts
  <1>7. ASSUME NEW t \in Tasks, Trample(t) PROVE OneChargePerChunk'
    BY <1>1, <1>7, TrampleFacts
  <1> QED BY <1>2, <1>3, <1>4, <1>5, <1>6, <1>7, StepCases
-----------------------------------------------------------------------------
(* The theorems                                                            *)

IInv == /\ TypeOK /\ ListInv /\ PinInv /\ WithinBudget /\ ReserveExact /\ VerdictInv
        /\ OneVerdictPerAttempt /\ WorkInv /\ CreditMatchesVerdict /\ OneChargePerChunk

LEMMA InitInv == Init => IInv
  <1> SUFFICES ASSUME Init PROVE IInv OBVIOUS
  <1>1. TypeOK BY InitType
  <1>2. \A t \in Tasks : /\ Dynamic(t) => Status(t) = "absent"
                         /\ ~Dynamic(t) => Status(t) = "queued"
                         /\ task[t].execBy = Nobody
    BY FreshFacts DEF Init, Status
  <1>3. WithinBudget
    <2>1. InFlight(task) = {} BY <1>2 DEF InFlight, Status
    <2> QED BY SMTT(20), <2>1, FS_EmptySet, LifecycleAssumption DEF Init, WithinBudget
  <1>4. ReserveExact
    <2>1. {t \in Tasks : Dynamic(t) /\ Status(t) # "absent"} = {} BY <1>2
    <2> QED BY SMTT(20), <2>1, FS_EmptySet, LifecycleAssumption DEF Init, ReserveExact
  <1>5. WorkInv BY <1>2 DEF Init, WorkInv, Terminal
  <1> QED BY <1>1, <1>2, <1>3, <1>4, <1>5
      DEF Init, IInv, ListInv, PinInv, VerdictInv, OneVerdictPerAttempt, CreditMatchesVerdict,
          OneChargePerChunk

LEMMA NextInv == IInv /\ [Next]_vars => IInv'
  BY NextType, PinStep, BudgetStep, ReserveStep, VerdictStep, WorkStep, CreditStep, ChargeStep DEF IInv

\* The inductive invariant holds in every reachable state of a job.
THEOREM Inductive == Spec => []IInv
  BY InitInv, NextInv, PTL DEF Spec

\* The columns keep their types whatever agents, verdicts and sweepers do.
THEOREM TypeCorrect == Spec => []TypeOK
  <1>1. IInv => TypeOK BY DEF IInv
  <1> QED BY <1>1, Inductive, PTL

\* The charges of a job and what is in flight never pass max_usd: the claim-time
\* check counts both, and each charge takes one task out of flight.
THEOREM BudgetKept == Spec => []WithinBudget
  <1>1. IInv => WithinBudget BY DEF IInv
  <1> QED BY <1>1, Inductive, PTL

\* Hedges and third opinions are exactly the units taken from the reserve.
THEOREM ReserveKept == Spec => []ReserveExact
  <1>1. IInv => ReserveExact BY DEF IInv
  <1> QED BY <1>1, Inductive, PTL

\* A primary and its hedge are never both charged to the buyer.
THEOREM ChargedOnce == Spec => []OneChargePerChunk
  <1>1. IInv => OneChargePerChunk BY DEF IInv
  <1> QED BY <1>1, Inductive, PTL

\* No attempt of a task is judged twice.
THEOREM JudgedOnce == Spec => []OneVerdictPerAttempt
  <1>1. IInv => OneVerdictPerAttempt BY DEF IInv
  <1> QED BY <1>1, Inductive, PTL

\* Unless the no-peer watchdog trampled a task, no job ends over an unjudged result.
THEOREM NoOrphans == Spec => []NoOrphanVerification
  <1>1. IInv => NoOrphanVerification
    <2> SUFFICES ASSUME IInv, Terminal, trampled = {}
                 PROVE  openWork = {} /\ WithStatus({"verifying"}) = {}
      BY DEF NoOrphanVerification
    <2>1. /\ \A t \in Tasks, n \in Nat : <<t, n>> \in openWork
                                           <=> Status(t) = "verifying" /\ task[t].retry = n
          /\ \A t \in Tasks : Status(t) # "verifying"
      BY DEF IInv, WorkInv
    <2>2. openWork \subseteq Tasks \X Nat BY DEF IInv, TypeOK
    <2> QED BY SMTT(20), <2>1, <2>2 DEF WithStatus, Status
  <1> QED BY <1>1, Inductive, PTL

\* Same exception: a credit stands only for a result whose last verdict pays.
THEOREM CreditsStand == Spec => []CreditMatchesVerdict
  <1>1. IInv => CreditMatchesVerdict BY DEF IInv
  <1> QED BY <1>1, Inductive, PTL

-----------------------------------------------------------------------------
(* The transactions implement the lifecycle tables: none of them is ever   *)
(* aborted by the triggers on jobs and tasks, whatever the number of        *)
(* chunks, workers and retries.                                             *)

\* A row that is there from the start is never absent.
PresentInv == \A t \in Tasks : ~Dynamic(t) => Status(t) # "absent"

\* The legal changes of one task row.
TaskGuard(t) == \/ task'[t].status = task[t].status
                \/ task[t].status = "absent" /\ task'[t].status = "queued"
                \/ <<task[t].status, task'[t].status>> \in TaskEdges

LEMMA TaskGuardStep ==
    ASSUME TypeOK, ListInv, PinInv, PresentInv, [Next]_vars, NEW u \in Tasks
    PROVE  TaskGuard(u)
  <1>1. task[u].status \in TaskStatus BY StoredFacts
  <1>2. CASE Quiet
    <2>1. QuietRow(u) BY <1>2 DEF Quiet
    <2> QED BY <2>1 DEF QuietRow, Status, TaskGuard, TaskEdges
  <1>3. ASSUME NEW w \in Workers, NEW t \in Tasks, NEW r \in Results, CommitTask(w, t, r)
        PROVE TaskGuard(u)
    BY <1>3, CommitFacts DEF TaskGuard, TaskEdges, Status
  <1>4. ASSUME NEW t \in Tasks, RejectResult(t) PROVE TaskGuard(u)
    BY <1>4, RejectFacts DEF TaskGuard, TaskEdges, Status
  <1>5. ASSUME NEW t \in Tasks, NEW p \in Plans(t) \ {Decide("fail")},
               NEW pin \in Workers \cup {Nobody}, AcceptResult(t, p, pin)
        PROVE  TaskGuard(u)
    <2>1. CASE u = t BY <1>5, <2>1, AcceptFacts DEF TaskGuard, TaskEdges, Status
    <2>2. CASE u # t /\ (u \in p.winners \/ u \in p.losers)
      BY SMTT(20), <1>5, <2>2, AcceptVote DEF TaskGuard, Status
    <2>3. CASE u # t /\ u \notin p.winners /\ u \notin p.losers
      <3>1. \/ Status(u) \in {"queued", "running", "retrying"} /\ task'[u].status = "failed"
            \/ Status(u) = "absent" /\ task'[u].status = "queued"
            \/ task'[u] = task[u]
        BY SMTT(20), <1>5, <2>3, AcceptOther
      <3> QED BY <3>1 DEF TaskGuard, TaskEdges, Status
    <2> QED BY <2>1, <2>2, <2>3
  <1>6. ASSUME NEW c \in Chunks, NEW w \in Workers, InsertHedgeTask(c, w) PROVE TaskGuard(u)
    BY <1>6, HedgeFacts DEF TaskGuard, Status
  <1>7. ASSUME NEW t \in Tasks, Trample(t) PROVE TaskGuard(u)
    <2>1. CASE u = t
      <3>1. Status(t) \notin {"absent", "cancelled"}
        BY <1>7 DEF Trample, ListInv, PresentInv, Dynamic
      <3>2. task'[t].status = "retrying" BY <1>7, TrampleFacts
      <3> QED BY <1>1, <2>1, <3>1, <3>2 DEF TaskGuard, TaskEdges, Status, TaskStatus
    <2>2. CASE u # t BY <1>7, <2>2, TrampleFacts DEF TaskGuard
    <2> QED BY <2>1, <2>2
  <1> QED BY <1>2, <1>3, <1>4, <1>5, <1>6, <1>7, StepCases

\* No edge leads back to "absent".
LEMMA PresentStep ==
    ASSUME PresentInv, \A u \in Tasks : TaskGuard(u)
    PROVE  PresentInv'
  BY DEF PresentInv, TaskGuard, TaskEdges, Status

\* Every status change of a task row, hedges and third opinions inserted later
\* included, is one the trigger on tasks allows.
THEOREM TaskRowsGuarded == Spec => TaskLifecycleGuarded
  <1>1. Init => PresentInv /\ TaskRows!Init
    BY FreshFacts DEF Init, PresentInv, Status, TaskRows!Init
  <1>2. IInv /\ PresentInv /\ [Next]_vars => PresentInv' /\ [TaskRows!Next]_([t \in Tasks |-> task[t].status])
    <2> SUFFICES ASSUME IInv, PresentInv, [Next]_vars
                 PROVE  PresentInv' /\ TaskRows!Next
      OBVIOUS
    <2>1. \A u \in Tasks : TaskGuard(u) BY TaskGuardStep DEF IInv
    <2>2. PresentInv' BY <2>1, PresentStep
    <2>3. TaskRows!Next BY <2>1 DEF TaskRows!Next, TaskRows!Guard, TaskGuard
    <2> QED BY <2>2, <2>3
  <1> QED BY <1>1, <1>2, Inductive, PTL DEF Spec, TaskLifecycleGuarded, TaskRows!Spec
-----------------------------------------------------------------------------
(* The job row                                                             *)

\* A job is queued only as long as nothing was executed, so the delivery of the
\* last open task never moves it from "queued" to "verifying".
QueuedInv == jobStatus = "queued" => \A t \in Tasks : task[t].execBy = Nobody

JobGuard == jobStatus' = jobStatus \/ <<jobStatus, jobStatus'>> \in JobEdges

\* What a step does to the job's status and to execution_worker_id.
LEMMA JobStep ==
    ASSUME TypeOK, QueuedInv, [Next]_vars
    PROVE  /\ JobGuard
           /\ jobStatus' = "queued" => \A u \in Tasks : task'[u].execBy \in {task[u].execBy, Nobody}
  <1> DEFINE Keeps == \A u \in Tasks : task'[u].execBy \in {task[u].execBy, Nobody}
             Goal == JobGuard /\ (jobStatus' = "queued" => Keeps)
  <1> USE DEF jobVars, workVars, moneyVars, sweepVars
  <1>1. \A t \in Tasks, s \in TaskStatus : /\ Released(t, s).execBy = task[t].execBy
                                           /\ Requeued(t, s).execBy = task[t].execBy
                                           /\ Moved(t, s).execBy = task[t].execBy
    BY DEF Released, Requeued, Moved, TaskRow
  <1>2. {"queued", "retrying", "failed", "cancelled"} \subseteq TaskStatus BY DEF TaskStatus
  <1>3. ASSUME NEW t \in Tasks, NEW s \in {"queued", "retrying", "failed", "cancelled"},
               task' \in {[task EXCEPT ![t] = Released(t, s)], [task EXCEPT ![t] = Requeued(t, s)]}
        PROVE  Keeps
    BY SMTT(20), <1>1, <1>2, <1>3 DEF TypeOK
  <1>4. ASSUME NEW w \in Workers, NEW t \in Tasks, ClaimTask(w, t) \/ StartTask(w, t) PROVE Goal
    BY <1>4 DEF ClaimTask, StartTask, Live, JobGuard, JobEdges
  <1>5. ASSUME NEW w \in Workers, NEW t \in Tasks, NEW r \in Results, CommitTask(w, t, r) PROVE Goal
    <2>1. jobStatus # "queued" BY <1>5, LifecycleAssumption DEF CommitTask, QueuedInv
    <2> QED BY <1>5, <2>1 DEF CommitTask, JobGuard, JobEdges
  <1>6. ASSUME NEW w \in Workers, NEW t \in Tasks, FailTaskRetry(w, t) \/ FailTaskTerminal(w, t)
        PROVE Goal
    <2>1. Keeps BY <1>3, <1>6 DEF FailTaskRetry, FailTaskTerminal
    <2>2. JobGuard
      BY <1>6 DEF FailTaskRetry, FailTaskTerminal, FailJobWith, Terminal, JobGuard, JobEdges, TypeOK, JobStatus
    <2> QED BY <2>1, <2>2
  <1>7. ASSUME NEW t \in Tasks, RejectResult(t) PROVE Goal
    <2>1. Keeps BY <1>3, <1>7 DEF RejectResult
    <2>2. JobGuard BY <1>7 DEF RejectResult, BackToRunning, JobGuard, JobEdges
    <2> QED BY <2>1, <2>2
  <1>8. ASSUME NEW t \in Tasks, NEW p \in Plans(t) \ {Decide("fail")},
               NEW pin \in Workers \cup {Nobody}, AcceptResult(t, p, pin)
        PROVE  Goal
    <2>1. JobGuard BY <1>8 DEF AcceptResult, BackToRunning, JobGuard, JobEdges
    <2>2. task' = Settled(t, p, pin) BY <1>8 DEF AcceptResult
    <2>3. \A v \in Tasks : \A s, o : Judged(v, s, o).execBy = task[v].execBy BY DEF Judged, TaskRow
    <2>4. Fresh(pin).execBy = Nobody BY DEF Fresh, TaskRow
    <2>5. Keeps BY SMTT(20), <1>1, <1>2, <2>2, <2>3, <2>4 DEF Settled
    <2> QED BY <2>1, <2>5
  <1>9. ASSUME FinalizeJob PROVE Goal BY <1>9 DEF FinalizeJob, JobGuard, JobEdges
  <1>10. ASSUME CancelJob PROVE Goal BY <1>10 DEF CancelJob, JobGuard, JobEdges
  <1>11. ASSUME ReadStale \/ ReadNoPeer \/ ReadStuck \/ SkipStuck PROVE Goal
    BY <1>11 DEF ReadStale, ReadNoPeer, ReadStuck, SkipStuck, JobGuard
  <1>12. ASSUME SweepStale PROVE Goal
    <2>1. PICK x \in staleSeen : \/ RequeueStaleTask(x[1]) \/ FailTaskAndSettleJob(x[1])
                                 \/ UNCHANGED <<task, jobStatus>>
      BY <1>12 DEF SweepStale
    <2>2. x[1] \in Tasks BY DEF TypeOK
    <2>3. Keeps BY <1>3, <2>1, <2>2 DEF RequeueStaleTask, FailTaskAndSettleJob
    <2>4. JobGuard
      BY <2>1 DEF RequeueStaleTask, FailTaskAndSettleJob, BackToRunning, FailJobWith, Terminal,
                  JobGuard, JobEdges, TypeOK, JobStatus
    <2> QED BY <2>3, <2>4
  <1>13. ASSUME RequeueNoPeer PROVE Goal
    <2>1. PICK t \in noPeerSeen :
            \/ task' = [task EXCEPT ![t] = Requeued(t, "retrying")] /\ jobStatus' = BackToRunning
            \/ UNCHANGED <<task, jobStatus>>
      BY <1>13 DEF RequeueNoPeer
    <2>2. t \in Tasks BY DEF TypeOK
    <2>3. Keeps BY <1>3, <2>1, <2>2
    <2> QED BY <2>1, <2>3 DEF BackToRunning, JobGuard, JobEdges
  <1>14. ASSUME RescueStuckJob \/ CancelStuckJob PROVE Goal
    BY <1>14 DEF RescueStuckJob, CancelStuckJob, JobGuard, JobEdges
  <1>15. ASSUME DetachTerminal PROVE Goal BY <1>15 DEF DetachTerminal, Terminal, JobGuard
  <1>16. ASSUME NEW t \in Tasks, RescueDeadClaim(t) \/ AdminForceRequeue(t) PROVE Goal
    <2>1. Keeps BY <1>3, <1>16 DEF RescueDeadClaim, AdminForceRequeue
    <2> QED BY <1>16, <2>1 DEF RescueDeadClaim, AdminForceRequeue, JobGuard
  <1>17. ASSUME NEW c \in Chunks, NEW w \in Workers, InsertHedgeTask(c, w) PROVE Goal
    <2>1. Keeps BY <1>17, HedgeFacts
    <2> QED BY <1>17, <2>1 DEF InsertHedgeTask, JobGuard
  <1>18. ASSUME NEW t \in Tasks, NEW w \in Workers, ReassignPinnedTiebreak(t, w) PROVE Goal
    BY <1>18 DEF ReassignPinnedTiebreak, JobGuard, JobEdges
  <1>19. ASSUME UNCHANGED vars PROVE Goal BY <1>19 DEF vars, JobGuard
  <1> HIDE DEF Goal
  <1>20. Goal
    BY <1>4, <1>5, <1>6, <1>7, <1>8, <1>9, <1>10, <1>11, <1>12, <1>13, <1>14, <1>15, <1>16, <1>17,
       <1>18, <1>19 DEF Next, AgentStep, SweepStep, Verify
  <1> QED BY <1>20 DEF Goal

\* Every status change of the job is one the trigger on jobs allows.
THEOREM JobRowGuarded == Spec => JobLifecycle
  <1>1. Init => QueuedInv /\ JobRow!Init
    BY FreshFacts DEF Init, QueuedInv, JobRow!Init
  <1>2. IInv /\ QueuedInv /\ [Next]_vars => QueuedInv' /\ [JobRow!Next]_([r \in {"job"} |-> jobStatus])
    <2> SUFFICES ASSUME IInv, QueuedInv, [Next]_vars PROVE QueuedInv' /\ JobRow!Next
      OBVIOUS
    <2>1. /\ JobGuard
          /\ jobStatus' = "queued" => \A u \in Tasks : task'[u].execBy \in {task[u].execBy, Nobody}
      BY JobStep DEF IInv
    <2>2. QueuedInv' BY <2>1 DEF QueuedInv, JobGuard, JobEdges
    <2>3. JobRow!Next BY <2>1 DEF JobRow!Next, JobRow!Guard, JobGuard
    <2> QED BY <2>2, <2>3
  <1> QED BY <1>1, <1>2, Inductive, PTL DEF Spec, JobLifecycle, JobRow!Spec

\* Chunks, attempts and reserved units are paid, judged and spent once, for every number
\* of chunks, workers and retries.
THEOREM ChunksPaidOnce == Spec => []PaidOnce
  <1>1. OneChargePerChunk /\ OneVerdictPerAttempt /\ ReserveExact => PaidOnce BY DEF PaidOnce
  <1> QED BY <1>1, ChargedOnce, JudgedOnce, ReserveKept, PTL
-----------------------------------------------------------------------------
(* What a complete job delivers, and what its counters count               *)

\* The buyer's obligation of a chunk is delivered by its primary or by the hedge.
Delivered(c) == \E k \in {"primary", "hedge"} : Status(<<k, c>>) = "complete"

Accepted(t) == Status(t) = "complete" /\ task[t].outcome \in {"pass", "pass_with_penalty"}

\* The first of the two to be delivered is charged and becomes the chunk's artifact;
\* before it there is no third opinion and no resolution.
DeliverInv ==
    trampled = {} =>
        /\ \A t \in charged : Status(t) = "complete"
        /\ \A c \in Chunks :
             /\ Delivered(c) => /\ \E k \in {"primary", "hedge"} : <<k, c>> \in charged
                                /\ Winner(c) \in ChunkTasks(c) /\ Accepted(Winner(c))
             /\ ~Delivered(c) => /\ Status(<<"tiebreak", c>>) = "absent"
                                 /\ resolution[c] = Resolved(NoTask, NoTask)

LEMMA PairSize ==
    ASSUME NEW a, NEW b, NEW S \in SUBSET {a, b}
    PROVE  IsFiniteSet(S) /\ Cardinality(S) \in 0..2 /\ (S \subseteq {a} => Cardinality(S) \in 0..1)
  <1>1. IsFiniteSet({a}) /\ Cardinality({a}) = 1 BY FS_Singleton
  <1>2. {a, b} = {a} \cup {b} OBVIOUS
  <1>3. IsFiniteSet({a, b}) /\ Cardinality({a, b}) <= 2
    <2>1. /\ IsFiniteSet({a} \cup {b})
          /\ Cardinality({a} \cup {b}) = IF b \in {a} THEN Cardinality({a}) ELSE Cardinality({a}) + 1
      BY <1>1, FS_AddElement
    <2> QED BY SMTT(20), <1>1, <1>2, <2>1
  <1>4. IsFiniteSet(S) /\ Cardinality(S) <= Cardinality({a, b}) BY <1>3, FS_Subset
  <1>5. Cardinality(S) \in Nat /\ Cardinality({a, b}) \in Nat BY <1>3, <1>4, FS_CardinalityType
  <1>6. S \subseteq {a} => Cardinality(S) <= Cardinality({a}) BY <1>1, FS_Subset
  <1>7. Cardinality(S) \in 0..2 BY SMTT(20), <1>3, <1>4, <1>5
  <1>8. S \subseteq {a} => Cardinality(S) \in 0..1 BY SMTT(20), <1>1, <1>5, <1>6
  <1> QED BY <1>4, <1>7, <1>8

\* A ballot holds one vote of each supplier.
LEMMA OneVoteEach ==
    ASSUME TypeOK, NEW t \in Tasks, NEW B \in Ballots(Peers(t) \cup {t})
    PROVE  /\ IsFiniteSet(B)
           /\ \A x, y \in B : task[x].execBy = task[y].execBy => x = y
  <1>1. B \subseteq Tasks BY DEF Ballots, Peers, ChunkTasks
  <1>2. IsFiniteSet(B) BY <1>1, FiniteTasks, FS_Subset
  <1> DEFINE f == [b \in B |-> task[b].execBy]
  <1>3. f \in Surjection(B, Suppliers(B)) BY DEF Surjection, Suppliers
  <1>4. Cardinality(B) = Cardinality(Suppliers(B)) BY DEF Ballots
  <1> HIDE DEF f
  <1>5. f \in Injection(B, Suppliers(B)) BY <1>2, <1>3, <1>4, FS_SurjSameCardinalityImpliesInj
  <1>6. \A x, y \in B : f[x] = f[y] => x = y BY <1>5 DEF Injection, IsInjective
  <1> QED BY <1>2, <1>6 DEF f

\* What a plan that accepts decides about the votes: it names winners only from a ballot
\* of three, never votes against a winner, and asks for a third opinion on a tie of two.
VoteShape(t, p) ==
    /\ p.winners = {} => p.losers = {} /\ p.outcome \in {"pass", "pass_with_penalty"}
    /\ t \in p.winners => p.outcome = "pass"
    /\ p.winners \cap p.losers = {}
    /\ p.winners # {} => ~IsHoneypot(t) /\ \E B \in SUBSET (Peers(t) \cup {t}) : Cardinality(B) >= 3
    /\ p.tiebreak => ~IsHoneypot(t) /\ \E B \in SUBSET (Peers(t) \cup {t}) : Cardinality(B) = 2

LEMMA MajorityShape ==
    ASSUME TypeOK, NEW t \in Tasks, ~IsHoneypot(t), NEW B \in Ballots(Peers(t) \cup {t}), Cardinality(B) >= 3
    PROVE  VoteShape(t, ResolveTiebreak(t, B))
  <1> DEFINE agree(r) == {b \in B : task[b].result = r}
             strict == {r \in {"good", "bad"} : 2 * Cardinality(agree(r)) > Cardinality(B)}
             r == CHOOSE x \in strict : TRUE
             lost == B \ agree(r)
  <1>1. CASE strict = {}
    <2>1. ResolveTiebreak(t, B) = Decide("pass_with_penalty") BY <1>1 DEF ResolveTiebreak
    <2> QED BY SMTT(20), <2>1 DEF VoteShape, Decide, Plan
  <1>2. CASE strict # {}
    <2>1. ResolveTiebreak(t, B) =
            Plan(IF task[t].execBy \in Suppliers(lost) THEN "loss_no_payout" ELSE "pass",
                 agree(r), lost, FALSE)
      BY <1>2 DEF ResolveTiebreak
    <2>2. r \in strict BY <1>2
    <2>3. agree(r) # {}
      <3>1. 2 * Cardinality(agree(r)) > Cardinality(B) BY <2>2
      <3>2. Cardinality(B) \in Nat BY OneVoteEach, FS_CardinalityType
      <3>3. ASSUME agree(r) = {} PROVE FALSE
        <4>1. Cardinality(agree(r)) = 0 BY <3>3, FS_EmptySet
        <4> HIDE DEF agree, r, strict
        <4> QED BY SMTT(20), <3>1, <3>2, <4>1
      <3> QED BY <3>3
    <2>4. t \in agree(r) => task[t].execBy \notin Suppliers(lost)
      BY OneVoteEach DEF Suppliers
    <2>5. B \in SUBSET (Peers(t) \cup {t}) BY DEF Ballots
    <2>6. agree(r) \cap lost = {} OBVIOUS
    <2> HIDE DEF agree, lost, r, strict
    <2> QED BY SMTT(20), <2>1, <2>3, <2>4, <2>5, <2>6 DEF VoteShape, Plan
  <1> QED BY <1>1, <1>2

LEMMA PlanShape ==
    ASSUME TypeOK, NEW t \in Tasks, NEW p \in Plans(t) \ {Decide("fail")}
    PROVE  VoteShape(t, p)
  <1>1. \A o \in {"pass", "pass_with_penalty"} : VoteShape(t, Decide(o))
    BY DEF VoteShape, Decide, Plan
  <1>2. ASSUME ~IsHoneypot(t), NEW B \in Ballots(Peers(t) \cup {t}), NEW q \in BallotPlans(t, B)
        PROVE  VoteShape(t, q)
    <2>1. CASE Cardinality(B) >= 3
      BY <1>2, <2>1, MajorityShape DEF BallotPlans
    <2>2. CASE Cardinality(B) # 2 /\ ~(Cardinality(B) >= 3) BY <1>2, <2>2 DEF BallotPlans
    <2>3. CASE Cardinality(B) = 2
      <3>1. ~(Cardinality(B) >= 3) BY SMTT(20), <2>3
      <3>2. q \in {Decide("pass"), Decide("pass_with_penalty"), Plan("pass_with_penalty", {}, {}, TRUE)}
        BY <1>2, <2>3, <3>1 DEF BallotPlans
      <3>3. B \in SUBSET (Peers(t) \cup {t}) BY DEF Ballots
      <3>4. VoteShape(t, Plan("pass_with_penalty", {}, {}, TRUE))
        BY <1>2, <2>3, <3>3 DEF VoteShape, Plan
      <3> QED BY <1>1, <3>2, <3>4
    <2> QED BY <2>1, <2>2, <2>3
  <1>3. CASE IsHoneypot(t) \/ Peers(t) = {} BY <1>1, <1>3 DEF Plans
  <1>4. CASE ~IsHoneypot(t) /\ Peers(t) # {} BY <1>2, <1>4 DEF Plans
  <1> QED BY <1>3, <1>4

\* The rows of a chunk by kind.
LEMMA ChunkRows ==
    ASSUME NEW t \in Tasks, ~IsHoneypot(t)
    PROVE  LET c == Chunk(t) IN
           /\ c \in Chunks
           /\ t \in {<<"primary", c>>, <<"hedge", c>>, <<"copy", c>>, <<"tiebreak", c>>}
           /\ Peers(t) \subseteq {<<"primary", c>>, <<"hedge", c>>, <<"copy", c>>, <<"tiebreak", c>>}
  BY SMTT(20), LifecycleAssumption DEF Tasks, IsHoneypot, Kind, Chunk, Peers, ChunkTasks

\* Before a chunk is delivered a verdict on it has no majority, pays, and asks for a
\* third opinion only when it delivers the chunk itself.
LEMMA FirstVerdict ==
    ASSUME TypeOK, DeliverInv, trampled = {}, NEW t \in Tasks, Status(t) = "verifying",
           NEW p \in Plans(t) \ {Decide("fail")}, ~Delivered(Chunk(t))
    PROVE  /\ p.winners = {} /\ p.losers = {} /\ p.outcome \in {"pass", "pass_with_penalty"}
           /\ p.tiebreak => Kind(t) \in {"primary", "hedge"}
  <1> DEFINE c == Chunk(t)
  <1>1. VoteShape(t, p) BY PlanShape
  <1>2. c \in Chunks BY TaskFacts
  <1>3. Status(<<"tiebreak", c>>) = "absent" BY <1>2 DEF DeliverInv
  <1>4. ASSUME ~IsHoneypot(t) PROVE Peers(t) \cup {t} \subseteq {<<"copy", c>>, t}
    <2>1. \A u \in Peers(t) : Status(u) = "complete" BY DEF Peers
    <2>2. <<"primary", c>> \notin Peers(t) /\ <<"hedge", c>> \notin Peers(t)
      BY <2>1 DEF Delivered
    <2>3. <<"tiebreak", c>> \notin Peers(t) BY <1>3, <2>1
    <2> QED BY <1>4, <2>2, <2>3, ChunkRows
  <1>5. p.winners = {}
    <2> SUFFICES ASSUME p.winners # {} PROVE FALSE OBVIOUS
    <2>1. PICK B \in SUBSET (Peers(t) \cup {t}) : Cardinality(B) >= 3 BY <1>1 DEF VoteShape
    <2>2. B \in SUBSET {<<"copy", c>>, t} BY <1>1, <1>4 DEF VoteShape
    <2>3. Cardinality(B) \in 0..2 BY <2>2, PairSize
    <2> QED BY SMTT(20), <2>1, <2>3
  <1>6. p.tiebreak => Kind(t) \in {"primary", "hedge"}
    <2> SUFFICES ASSUME p.tiebreak, Kind(t) \notin {"primary", "hedge"} PROVE FALSE OBVIOUS
    <2>1. PICK B \in SUBSET (Peers(t) \cup {t}) : Cardinality(B) = 2 BY <1>1 DEF VoteShape
    <2>2. ~IsHoneypot(t) BY <1>1 DEF VoteShape
    <2>3. t = <<"copy", c>> BY SMTT(20), <1>3, <2>2, ChunkRows DEF Kind
    <2>4. B \in SUBSET {<<"copy", c>>, t} BY <1>4, <2>2
    <2>5. B \subseteq {<<"copy", c>>} BY <2>3, <2>4
    <2>6. Cardinality(B) \in 0..1 BY <2>4, <2>5, PairSize
    <2> QED BY SMTT(20), <2>1, <2>6
  <1> QED BY <1>1, <1>5, <1>6 DEF VoteShape

\* The counters and resolutions change in a verdict only.
LEMMA MoneyStep ==
    ASSUME [Next]_vars
    PROVE  \/ UNCHANGED <<tasksDone, taskCount, resolution>>
           \/ \E t \in Tasks : \E p \in Plans(t) \ {Decide("fail")}, pin \in Workers \cup {Nobody} :
                 AcceptResult(t, p, pin)
  <1> USE DEF jobVars, moneyVars
  <1>1. CASE UNCHANGED vars BY <1>1 DEF vars
  <1>2. CASE AgentStep
    BY <1>2 DEF AgentStep, ClaimTask, StartTask, CommitTask, FailTaskRetry, FailTaskTerminal
  <1>3. CASE SweepStep
    BY <1>3 DEF SweepStep, ReadStale, SweepStale, ReadNoPeer, RequeueNoPeer, ReadStuck, RescueStuckJob,
        CancelStuckJob, SkipStuck, DetachTerminal, RescueDeadClaim, AdminForceRequeue, InsertHedgeTask,
        ReassignPinnedTiebreak
  <1>4. CASE FinalizeJob \/ CancelJob BY <1>4 DEF FinalizeJob, CancelJob
  <1>5. CASE \E t \in Tasks : Verify(t) BY <1>5 DEF Verify, RejectResult
  <1> QED BY <1>1, <1>2, <1>3, <1>4, <1>5 DEF Next

\* A verdict's winners are accepted results, and the resolution it writes names one of them.
LEMMA ResolutionFacts ==
    ASSUME TypeOK, NEW t \in Tasks, NEW p \in Plans(t) \ {Decide("fail")},
           NEW pin \in Workers \cup {Nobody}, AcceptResult(t, p, pin)
    PROVE  /\ \A c \in Chunks \ {Chunk(t)} : resolution'[c] = resolution[c]
           /\ p.winners # {} => Winner(Chunk(t))' \in p.winners /\ Winner(Chunk(t))' # NoTask
           /\ p.winners = {} =>
                IF /\ CountsBuyerChunk(t) /\ ~IsRedundancy(t) /\ ~IsHoneypot(t)
                   /\ resolution[Chunk(t)].provisional = NoTask
                THEN resolution'[Chunk(t)] = Resolved(t, resolution[Chunk(t)].majority)
                ELSE resolution'[Chunk(t)] = resolution[Chunk(t)]
  <1>1. PICK row \in ResolutionRows(t, p) : resolution' = [resolution EXCEPT ![Chunk(t)] = row]
    BY DEF AcceptResult
  <1>2. Chunk(t) \in Chunks BY TaskFacts
  <1>3. resolution'[Chunk(t)] = row /\ \A c \in Chunks \ {Chunk(t)} : resolution'[c] = resolution[c]
    BY <1>1, <1>2 DEF TypeOK
  <1>4. ASSUME p.winners # {} PROVE Winner(Chunk(t))' \in p.winners /\ Winner(Chunk(t))' # NoTask
    <2>1. PICK u \in MajorityWinners(t, p.winners) : row = Resolved(resolution[Chunk(t)].provisional, u)
      BY <1>1, <1>4 DEF ResolutionRows
    <2>2. u \in p.winners BY <2>1 DEF MajorityWinners
    <2>3. u \in Tasks BY SMTT(20), <2>2, PlanFacts DEF Peers, ChunkTasks
    <2>4. u # NoTask BY <2>3, TaskFacts
    <2>5. row.majority = u BY <2>1 DEF Resolved
    <2> QED BY <1>3, <2>2, <2>4, <2>5 DEF Winner
  <1>5. ASSUME p.winners = {}
        PROVE  IF /\ CountsBuyerChunk(t) /\ ~IsRedundancy(t) /\ ~IsHoneypot(t)
                  /\ resolution[Chunk(t)].provisional = NoTask
               THEN row = Resolved(t, resolution[Chunk(t)].majority) ELSE row = resolution[Chunk(t)]
    BY <1>1, <1>5 DEF ResolutionRows
  <1> QED BY <1>3, <1>4, <1>5

\* A step that delivers nothing, undoes no delivery and inserts no third opinion.
LEMMA KeepDelivery ==
    ASSUME TypeOK, DeliverInv, trampled' = {} => trampled = {}, UNCHANGED <<charged, resolution>>,
           \A u \in Tasks : /\ Status(u) = "complete" => task'[u] = task[u]
                            /\ task'[u].status = "complete" => Status(u) = "complete"
                            /\ Kind(u) = "tiebreak" /\ Status(u) = "absent" => task'[u].status = "absent"
    PROVE  DeliverInv'
  <1> SUFFICES ASSUME trampled' = {}, trampled = {} PROVE DeliverInv' BY DEF DeliverInv
  <1>1. \A t \in charged' : task'[t].status = "complete" BY DEF DeliverInv, TypeOK, Status
  <1>2. ASSUME NEW c \in Chunks
        PROVE  /\ Delivered(c)' => /\ \E k \in {"primary", "hedge"} : <<k, c>> \in charged'
                                   /\ Winner(c)' \in ChunkTasks(c) /\ Accepted(Winner(c))'
               /\ ~Delivered(c)' => /\ task'[<<"tiebreak", c>>].status = "absent"
                                    /\ resolution'[c] = Resolved(NoTask, NoTask)
    <2>1. \A k \in {"primary", "hedge", "tiebreak"} : <<k, c>> \in Tasks BY DEF Tasks
    <2>2. Delivered(c)' <=> Delivered(c) BY <2>1 DEF Delivered, Status
    <2>3. CASE Delivered(c)
      <3>1. /\ \E k \in {"primary", "hedge"} : <<k, c>> \in charged
            /\ Winner(c) \in ChunkTasks(c) /\ Accepted(Winner(c))
        BY <1>2, <2>3 DEF DeliverInv
      <3>2. Winner(c)' = Winner(c) BY DEF Winner
      <3>3. task'[Winner(c)] = task[Winner(c)] BY <3>1 DEF Accepted, ChunkTasks
      <3> QED BY <2>2, <2>3, <3>1, <3>2, <3>3 DEF Accepted, Status
    <2>4. CASE ~Delivered(c)
      <3>1. Status(<<"tiebreak", c>>) = "absent" /\ resolution[c] = Resolved(NoTask, NoTask)
        BY <1>2, <2>4 DEF DeliverInv
      <3> QED BY <2>1, <2>2, <2>4, <3>1 DEF Kind
    <2> QED BY <2>3, <2>4
  <1> QED BY <1>1, <1>2 DEF DeliverInv, Status, ChunkTasks

\* A verdict leaves the rows of other chunks alone, undoes no delivery and delivers only
\* the result it is about.
LEMMA AcceptRows ==
    ASSUME TypeOK, NEW t \in Tasks, NEW p \in Plans(t) \ {Decide("fail")},
           NEW pin \in Workers \cup {Nobody}, AcceptResult(t, p, pin), NEW u \in Tasks, u # t
    PROVE  /\ Chunk(u) # Chunk(t) => task'[u] = task[u]
           /\ task'[u].status = "complete" <=> Status(u) = "complete"
           /\ Status(u) = "complete" /\ u \notin p.winners /\ u \notin p.losers => task'[u] = task[u]
           /\ ~p.tiebreak /\ Status(u) = "absent" => task'[u].status = "absent"
  <1>1. Chunk(u) # Chunk(t) => task'[u] = task[u]
    <2> SUFFICES ASSUME Chunk(u) # Chunk(t) PROVE task'[u] = task[u] OBVIOUS
    <2>1. u \notin p.winners /\ u \notin p.losers BY PlanFacts DEF Peers, ChunkTasks
    <2>2. u \notin CancelledSiblings(t) BY DEF CancelledSiblings, ChunkTasks
    <2>3. u # TiebreakOf(t) BY TaskFacts
    <2> QED BY <2>1, <2>2, <2>3 DEF AcceptResult, Settled
  <1>2. CASE u \in p.winners \/ u \in p.losers BY <1>1, <1>2, AcceptVote
  <1>3. CASE u \notin p.winners /\ u \notin p.losers
    <2>1. \/ Status(u) \in {"queued", "running", "retrying"} /\ task'[u].status = "failed"
          \/ p.tiebreak /\ Status(u) = "absent" /\ task'[u].status = "queued"
          \/ task'[u] = task[u]
      BY SMTT(20), <1>3, AcceptOther
    <2> QED BY <1>1, <2>1 DEF Status
  <1> QED BY <1>2, <1>3

\* The winners of a majority are accepted results of the chunk.
LEMMA WinnersAccepted ==
    ASSUME TypeOK, NEW t \in Tasks, NEW p \in Plans(t) \ {Decide("fail")},
           NEW pin \in Workers \cup {Nobody}, AcceptResult(t, p, pin), NEW u \in p.winners
    PROVE  u \in ChunkTasks(Chunk(t)) /\ Accepted(u)'
  <1>1. u \in ChunkTasks(Chunk(t)) BY SMTT(20), PlanFacts DEF Peers, ChunkTasks
  <1>2. CASE u = t
    <2>1. p.outcome = "pass" BY <1>2, PlanShape DEF VoteShape
    <2> QED BY <1>1, <1>2, <2>1, AcceptFacts DEF Accepted, Status
  <1>3. CASE u # t
    <2>1. u \in Tasks BY <1>1 DEF ChunkTasks
    <2> QED BY <1>1, <1>3, <2>1, AcceptVote DEF Accepted, Status
  <1> QED BY <1>2, <1>3

\* A racing row whose sibling is delivered does not count again; the first one does.
LEMMA FirstCounts ==
    ASSUME TypeOK, DeliverInv, trampled = {}, NEW t \in Tasks, Status(t) = "verifying"
    PROVE  /\ Kind(t) \in {"primary", "hedge"} => (CountsBuyerChunk(t) <=> ~Delivered(Chunk(t)))
           /\ Kind(t) \notin {"primary", "hedge"} => CountsBuyerChunk(t)
  <1>1. Chunk(t) \in Chunks /\ t \notin charged BY TaskFacts DEF DeliverInv
  <1>2. ASSUME Kind(t) \in {"primary", "hedge"}, ~Delivered(Chunk(t)) PROVE CountsBuyerChunk(t)
    <2>1. ASSUME NEW u \in Family(t) \ {t}, u \in charged PROVE FALSE
      <3>1. Status(u) = "complete" BY <2>1 DEF DeliverInv
      <3>2. u \in {<<"primary", Chunk(t)>>, <<"hedge", Chunk(t)>>}
        <4>1. u \in Tasks /\ Chunk(u) = Chunk(t) /\ Kind(u) \in {"primary", "hedge"}
          BY <1>2, <2>1 DEF Family, ChunkTasks
        <4> QED BY SMTT(20), <4>1 DEF Tasks, Kind, Chunk
      <3> QED BY <1>2, <3>1, <3>2 DEF Delivered
    <2> QED BY <2>1 DEF CountsBuyerChunk, SiblingSettled
  <1>3. ASSUME Kind(t) \in {"primary", "hedge"}, Delivered(Chunk(t)) PROVE ~CountsBuyerChunk(t)
    <2>1. PICK k \in {"primary", "hedge"} : <<k, Chunk(t)>> \in charged BY <1>1, <1>3 DEF DeliverInv
    <2>2. <<k, Chunk(t)>> \in Family(t) \ {t}
      BY <1>1, <1>3, <2>1 DEF Family, ChunkTasks, Kind, Chunk, TypeOK
    <2> QED BY <1>3, <2>1, <2>2 DEF CountsBuyerChunk, SiblingSettled, IsRedundancy
  <1>4. ASSUME Kind(t) \notin {"primary", "hedge"} PROVE CountsBuyerChunk(t)
    BY <1>4 DEF CountsBuyerChunk, SiblingSettled, Family
  <1> QED BY <1>2, <1>3, <1>4

LEMMA AcceptDelivery ==
    ASSUME TypeOK, DeliverInv, NEW t \in Tasks, NEW p \in Plans(t) \ {Decide("fail")},
           NEW pin \in Workers \cup {Nobody}, AcceptResult(t, p, pin)
    PROVE  DeliverInv'
  <1> DEFINE d == Chunk(t)
             Good(c) == /\ Delivered(c)' => /\ \E k \in {"primary", "hedge"} : <<k, c>> \in charged'
                                            /\ Winner(c)' \in ChunkTasks(c) /\ Accepted(Winner(c))'
                        /\ ~Delivered(c)' => /\ task'[<<"tiebreak", c>>].status = "absent"
                                             /\ resolution'[c] = Resolved(NoTask, NoTask)
  <1>1. trampled' = trampled /\ Status(t) = "verifying" /\ task'[t].status = "complete"
        /\ task'[t].outcome = p.outcome
    BY AcceptFacts
  <1> SUFFICES ASSUME trampled = {} PROVE DeliverInv' BY <1>1 DEF DeliverInv
  <1>2. /\ charged' = charged \/ charged' = charged \cup {t}
        /\ CountsBuyerChunk(t) /\ p.outcome # "loss_no_payout" => t \in charged'
    BY DEF AcceptResult
  <1>3. \A u \in charged' : task'[u].status = "complete"
    <2>1. \A u \in charged : u \in Tasks /\ Status(u) = "complete" BY DEF DeliverInv, TypeOK
    <2> QED BY <1>1, <1>2, <2>1, AcceptRows
  <1>4. d \in Chunks /\ \A c \in Chunks, k \in {"primary", "hedge", "tiebreak"} :
                            <<k, c>> \in Tasks /\ Chunk(<<k, c>>) = c
    BY TaskFacts DEF Tasks, Chunk
  <1>5. ASSUME NEW c \in Chunks \ {d} PROVE Good(c)
    <2>1. \A u \in ChunkTasks(c) : u \in Tasks /\ u # t /\ task'[u] = task[u]
      BY AcceptRows DEF ChunkTasks
    <2>2. \A k \in {"primary", "hedge", "tiebreak"} : task'[<<k, c>>] = task[<<k, c>>]
      BY <1>4, <2>1 DEF ChunkTasks
    <2>3. (Delivered(c)' <=> Delivered(c)) /\ resolution'[c] = resolution[c]
      BY <1>5, <2>2, ResolutionFacts DEF Delivered, Status
    <2>4. Winner(c)' = Winner(c) BY <2>3 DEF Winner
    <2>5. CASE Delivered(c)
      <3>1. /\ \E k \in {"primary", "hedge"} : <<k, c>> \in charged
            /\ Winner(c) \in ChunkTasks(c) /\ Accepted(Winner(c))
        BY <1>5, <2>5 DEF DeliverInv
      <3>2. Accepted(Winner(c))' BY <2>1, <2>4, <3>1 DEF Accepted, Status
      <3> QED BY <1>2, <2>3, <2>4, <2>5, <3>1, <3>2
    <2>6. CASE ~Delivered(c)
      <3>1. Status(<<"tiebreak", c>>) = "absent" /\ resolution[c] = Resolved(NoTask, NoTask)
        BY <1>5, <2>6 DEF DeliverInv
      <3> QED BY <2>2, <2>3, <2>6, <3>1 DEF Status
    <2> QED BY <2>5, <2>6
  <1>6. ASSUME Delivered(d) PROVE Good(d)
    <2>1. /\ \E k \in {"primary", "hedge"} : <<k, d>> \in charged
          /\ Winner(d) \in ChunkTasks(d) /\ Accepted(Winner(d))
      BY <1>4, <1>6 DEF DeliverInv
    <2>2. Delivered(d)' BY <1>1, <1>4, <1>6, AcceptRows DEF Delivered, Status
    <2>3. Winner(d)' \in ChunkTasks(d) /\ Accepted(Winner(d))'
      <3>1. CASE p.winners # {}
        <4>1. Winner(d)' \in p.winners BY <3>1, ResolutionFacts
        <4>2. ASSUME NEW u \in p.winners PROVE u \in ChunkTasks(d) /\ Accepted(u)' BY WinnersAccepted
        <4> QED BY <4>1, <4>2 DEF Accepted, Status
      <3>2. CASE p.winners = {}
        <4>1. p.losers = {} BY <3>2, PlanShape DEF VoteShape
        <4>2. ~(CountsBuyerChunk(t) /\ ~IsRedundancy(t) /\ ~IsHoneypot(t))
          <5>1. Kind(t) \in {"primary", "hedge"} \/ IsRedundancy(t) \/ IsHoneypot(t)
            BY DEF Tasks, Kind, IsRedundancy, IsHoneypot
          <5> QED BY <1>1, <1>6, <5>1, FirstCounts
        <4>3. resolution'[d] = resolution[d] BY <3>2, <4>2, ResolutionFacts
        <4>4. Winner(d)' = Winner(d) BY <4>3 DEF Winner
        <4>5. Winner(d) \in Tasks /\ Winner(d) # t /\ Status(Winner(d)) = "complete"
          BY <1>1, <2>1 DEF Accepted, ChunkTasks
        <4>6. task'[Winner(d)] = task[Winner(d)] BY <3>2, <4>1, <4>5, AcceptRows
        <4> QED BY <2>1, <4>4, <4>6 DEF Accepted, Status
      <3> QED BY <3>1, <3>2
    <2> QED BY <1>2, <2>1, <2>2, <2>3
  <1>7. ASSUME ~Delivered(d) PROVE Good(d)
    <2>1. /\ Status(<<"tiebreak", d>>) = "absent" /\ resolution[d] = Resolved(NoTask, NoTask)
      BY <1>4, <1>7 DEF DeliverInv
    <2>2. /\ p.winners = {} /\ p.losers = {} /\ p.outcome \in {"pass", "pass_with_penalty"}
          /\ p.tiebreak => Kind(t) \in {"primary", "hedge"}
      BY <1>1, <1>7, FirstVerdict
    <2>3. resolution[d].provisional = NoTask /\ resolution[d].majority = NoTask BY SMTT(20), <2>1 DEF Resolved
    <2>4. CASE Kind(t) \in {"primary", "hedge"}
      <3>1. t \in {<<"primary", d>>, <<"hedge", d>>} BY SMTT(20), <2>4 DEF Tasks, Kind, Chunk
      <3>2. CountsBuyerChunk(t) BY <1>1, <1>7, <2>4, FirstCounts
      <3>3. ~IsRedundancy(t) /\ ~IsHoneypot(t) BY <2>4 DEF IsRedundancy, IsHoneypot
      <3>4. resolution'[d] = Resolved(t, NoTask) BY <2>2, <2>3, <3>2, <3>3, ResolutionFacts
      <3>5. Winner(d)' = t BY SMTT(20), <3>4 DEF Winner, Resolved
      <3>6. t \in charged' BY <1>2, <2>2, <3>2
      <3>7. t \in ChunkTasks(d) BY DEF ChunkTasks
      <3>8. Accepted(Winner(d))' BY <1>1, <2>2, <3>5 DEF Accepted, Status
      <3>9. Delivered(d)' BY <1>1, <3>1 DEF Delivered, Status
      <3> QED BY <3>1, <3>5, <3>6, <3>7, <3>8, <3>9
    <2>5. CASE Kind(t) \notin {"primary", "hedge"}
      <3>1. ~Delivered(d)'
        <4>1. \A k \in {"primary", "hedge"} : <<k, d>> # t BY SMTT(20), <2>5 DEF Kind
        <4> QED BY <1>4, <1>7, <4>1, AcceptRows DEF Delivered, Status
      <3>2. task'[<<"tiebreak", d>>].status = "absent" BY <1>1, <1>4, <2>1, <2>2, <2>5, AcceptRows
      <3>3. IsRedundancy(t) \/ IsHoneypot(t) BY <2>5 DEF Tasks, Kind, IsRedundancy, IsHoneypot
      <3>4. resolution'[d] = resolution[d] BY <2>2, <3>3, ResolutionFacts
      <3> QED BY <2>1, <3>1, <3>2, <3>4
    <2> QED BY <2>4, <2>5
  <1>8. \A c \in Chunks : Good(c) BY <1>5, <1>6, <1>7
  <1> QED BY <1>3, <1>8 DEF DeliverInv, Status, ChunkTasks

LEMMA DeliverStep ==
    ASSUME TypeOK, ListInv, PinInv, DeliverInv, [Next]_vars
    PROVE  DeliverInv'
  <1>1. ASSUME NEW t \in Tasks, NEW p \in Plans(t) \ {Decide("fail")},
               NEW pin \in Workers \cup {Nobody}, AcceptResult(t, p, pin)
        PROVE  DeliverInv'
    BY <1>1, AcceptDelivery
  <1>2. CASE UNCHANGED <<tasksDone, taskCount, resolution>>
    <2>1. CASE Quiet
      <3>1. UNCHANGED <<charged, trampled>> BY <2>1 DEF Quiet
      <3>2. ASSUME NEW u \in Tasks
            PROVE  /\ Status(u) = "complete" => task'[u] = task[u]
                   /\ task'[u].status = "complete" => Status(u) = "complete"
                   /\ Kind(u) = "tiebreak" /\ Status(u) = "absent" => task'[u].status = "absent"
        <4>1. QuietRow(u) BY <2>1 DEF Quiet
        <4> QED BY <4>1 DEF QuietRow, Status
      <3> QED BY <1>2, <3>1, <3>2, KeepDelivery
    <2>2. ASSUME NEW w \in Workers, NEW t \in Tasks, NEW r \in Results, CommitTask(w, t, r)
          PROVE DeliverInv'
      BY <1>2, <2>2, CommitFacts, KeepDelivery DEF Status
    <2>3. ASSUME NEW t \in Tasks, RejectResult(t) PROVE DeliverInv'
      BY <1>2, <2>3, RejectFacts, KeepDelivery DEF Status
    <2>4. ASSUME NEW c \in Chunks, NEW w \in Workers, InsertHedgeTask(c, w) PROVE DeliverInv'
      <3>1. /\ Status(<<"hedge", c>>) = "absent" /\ task'[<<"hedge", c>>].status = "queued"
            /\ \A u \in Tasks \ {<<"hedge", c>>} : task'[u] = task[u]
            /\ charged' = charged /\ trampled' = trampled
        BY <2>4, HedgeFacts
      <3>2. Kind(<<"hedge", c>>) # "tiebreak" BY DEF Kind
      <3> QED BY <1>2, <3>1, <3>2, KeepDelivery DEF Status
    <2>5. ASSUME NEW t \in Tasks, Trample(t) PROVE DeliverInv'
      BY <2>5, TrampleFacts DEF DeliverInv
    <2> QED BY <1>1, <2>1, <2>2, <2>3, <2>4, <2>5, StepCases
  <1> QED BY <1>1, <1>2, MoneyStep

\* While the job lives, a primary fails only to a delivered hedge; and a complete job has
\* delivered every chunk.
EndInv ==
    trampled = {} =>
        /\ Live => \A c \in Chunks : Status(<<"primary", c>>) = "failed" => Delivered(c)
        /\ jobStatus = "complete" => \A c \in Chunks : Delivered(c)

\* Only FinalizeJob completes a job.
LEMMA FinalStep ==
    ASSUME [Next]_vars, jobStatus # "complete", jobStatus' = "complete"
    PROVE  FinalizeJob
  <1> USE DEF jobVars, BackToRunning, FailJobWith
  <1>1. CASE UNCHANGED vars BY <1>1 DEF vars
  <1>2. CASE AgentStep
    BY <1>2 DEF AgentStep, ClaimTask, StartTask, CommitTask, FailTaskRetry, FailTaskTerminal
  <1>3. CASE SweepStep
    BY <1>3 DEF SweepStep, ReadStale, SweepStale, RequeueStaleTask, FailTaskAndSettleJob, ReadNoPeer,
        RequeueNoPeer, ReadStuck, RescueStuckJob, CancelStuckJob, SkipStuck, DetachTerminal,
        RescueDeadClaim, AdminForceRequeue, InsertHedgeTask, ReassignPinnedTiebreak
  <1>4. CASE CancelJob BY <1>4 DEF CancelJob
  <1>5. CASE \E t \in Tasks : Verify(t) BY <1>5 DEF Verify, RejectResult, AcceptResult
  <1> QED BY <1>1, <1>2, <1>3, <1>4, <1>5 DEF Next

\* A row of a job that stays alive fails only as the loser of a decided race.
LEMMA FailStep ==
    ASSUME TypeOK, [Next]_vars, Live', NEW u \in Tasks, Status(u) # "failed", task'[u].status = "failed"
    PROVE  \E t \in Tasks : \E p \in Plans(t) \ {Decide("fail")}, pin \in Workers \cup {Nobody} :
              AcceptResult(t, p, pin) /\ u \in CancelledSiblings(t)
  <1> USE DEF jobVars, workVars, moneyVars, sweepVars
  <1>0. {"queued", "retrying", "failed", "cancelled"} \subseteq TaskStatus BY DEF TaskStatus
  <1>1. ASSUME NEW t \in Tasks, NEW s \in {"queued", "retrying"}, task' = [task EXCEPT ![t] = Requeued(t, s)]
        PROVE  FALSE
    <2>1. Requeued(t, s).status = s BY <1>0, ChangedFacts
    <2> QED BY <1>1, <2>1 DEF TypeOK, Status
  <1>2. ~Terminal' BY DEF Live, Terminal
  <1>3. ASSUME NEW tk, FailJobWith(tk) PROVE FALSE
    BY <1>2, <1>3 DEF FailJobWith, Terminal
  <1>4. ASSUME NEW w \in Workers, NEW t \in Tasks, ClaimTask(w, t) \/ StartTask(w, t) PROVE FALSE
    <2>1. task' = Running(w, t) BY <1>4 DEF ClaimTask, StartTask
    <2> QED BY <2>1 DEF Running, TaskRow, TypeOK, Status
  <1>5. ASSUME NEW w \in Workers, NEW t \in Tasks, NEW r \in Results, CommitTask(w, t, r) PROVE FALSE
    BY <1>5 DEF CommitTask, TaskRow, TypeOK, Status
  <1>6. CASE AgentStep
    BY <1>1, <1>3, <1>4, <1>5, <1>6 DEF AgentStep, FailTaskRetry, FailTaskTerminal
  <1>7. ASSUME NEW t \in Tasks, RejectResult(t) PROVE FALSE
    BY <1>1, <1>7 DEF RejectResult
  <1>8. ASSUME NEW t \in Tasks, NEW p \in Plans(t) \ {Decide("fail")},
               NEW pin \in Workers \cup {Nobody}, AcceptResult(t, p, pin)
        PROVE  u \in CancelledSiblings(t)
    <2>1. u # t BY <1>8, AcceptFacts
    <2>2. u \notin p.winners /\ u \notin p.losers BY <1>8, <2>1, AcceptVote
    <2> SUFFICES ASSUME u \notin CancelledSiblings(t) PROVE FALSE OBVIOUS
    <2>3. task'[u] = IF p.tiebreak /\ u = TiebreakOf(t) THEN Fresh(pin) ELSE task[u]
      BY <1>8, <2>1, <2>2 DEF AcceptResult, Settled
    <2> QED BY <2>3, FreshFacts DEF Status
  <1>9. CASE FinalizeJob \/ CancelJob
    BY <1>2, <1>9 DEF FinalizeJob, CancelJob, Terminal
  <1>10. CASE SweepStale
    <2>1. PICK x \in staleSeen : \/ RequeueStaleTask(x[1]) \/ FailTaskAndSettleJob(x[1])
                                 \/ UNCHANGED <<task, jobStatus>>
      BY <1>10 DEF SweepStale
    <2>2. x[1] \in Tasks BY DEF TypeOK
    <2> QED BY <1>1, <1>3, <2>1, <2>2 DEF RequeueStaleTask, FailTaskAndSettleJob, Status
  <1>11. CASE RequeueNoPeer
    <2>1. PICK t \in noPeerSeen :
            task' = [task EXCEPT ![t] = Requeued(t, "retrying")] \/ UNCHANGED <<task, jobStatus>>
      BY <1>11 DEF RequeueNoPeer
    <2>2. t \in Tasks BY DEF TypeOK
    <2> QED BY <1>1, <2>1, <2>2 DEF Status
  <1>12. CASE RescueStuckJob
    <2>1. task'[u] = Requeued(u, "queued") \/ task'[u] = task[u] BY <1>12 DEF RescueStuckJob
    <2>2. Requeued(u, "queued").status = "queued" BY <1>0, ChangedFacts
    <2> QED BY <2>1, <2>2 DEF Status
  <1>13. CASE CancelStuckJob \/ DetachTerminal
    BY <1>2, <1>13 DEF CancelStuckJob, DetachTerminal, Terminal
  <1>14. CASE ReadStale \/ ReadNoPeer \/ ReadStuck \/ SkipStuck
    BY <1>14 DEF ReadStale, ReadNoPeer, ReadStuck, SkipStuck, Status
  <1>15. ASSUME NEW t \in Tasks, RescueDeadClaim(t) \/ AdminForceRequeue(t) PROVE FALSE
    BY <1>1, <1>15 DEF RescueDeadClaim, AdminForceRequeue
  <1>16. ASSUME NEW c \in Chunks, NEW w \in Workers, InsertHedgeTask(c, w) PROVE FALSE
    BY <1>16, HedgeFacts DEF Status
  <1>17. ASSUME NEW t \in Tasks, NEW w \in Workers, ReassignPinnedTiebreak(t, w) PROVE FALSE
    BY <1>17 DEF ReassignPinnedTiebreak, TaskRow, TypeOK, Status
  <1>18. CASE UNCHANGED vars BY <1>18 DEF vars, Status
  <1>19. CASE SweepStep
    BY <1>10, <1>11, <1>12, <1>13, <1>14, <1>15, <1>16, <1>17, <1>19 DEF SweepStep
  <1> QED BY <1>6, <1>7, <1>8, <1>9, <1>18, <1>19 DEF Next, Verify

\* Unless a task is trampled, no step undoes a delivery.
LEMMA CompleteStays ==
    ASSUME TypeOK, ListInv, PinInv, [Next]_vars, trampled' = {}
    PROVE  trampled = {} /\ \A u \in Tasks : Status(u) = "complete" => task'[u].status = "complete"
  <1> DEFINE Goal == trampled = {} /\ \A u \in Tasks : Status(u) = "complete" => task'[u].status = "complete"
  <1>1. CASE Quiet BY <1>1 DEF Quiet, QuietRow, Status
  <1>2. ASSUME NEW w \in Workers, NEW t \in Tasks, NEW r \in Results, CommitTask(w, t, r) PROVE Goal
    BY <1>2, CommitFacts DEF Status
  <1>3. ASSUME NEW t \in Tasks, RejectResult(t) PROVE Goal BY <1>3, RejectFacts DEF Status
  <1>4. ASSUME NEW t \in Tasks, NEW p \in Plans(t) \ {Decide("fail")},
               NEW pin \in Workers \cup {Nobody}, AcceptResult(t, p, pin)
        PROVE  Goal
    BY <1>4, AcceptFacts, AcceptRows
  <1>5. ASSUME NEW c \in Chunks, NEW w \in Workers, InsertHedgeTask(c, w) PROVE Goal
    BY <1>5, HedgeFacts DEF Status
  <1>6. ASSUME NEW t \in Tasks, Trample(t) PROVE Goal BY <1>6, TrampleFacts
  <1> QED BY <1>1, <1>2, <1>3, <1>4, <1>5, <1>6, StepCases

LEMMA EndStep ==
    ASSUME TypeOK, ListInv, PinInv, PresentInv, QueuedInv, EndInv, [Next]_vars
    PROVE  EndInv'
  <1> SUFFICES ASSUME trampled' = {}
               PROVE  /\ Live' => \A c \in Chunks : task'[<<"primary", c>>].status = "failed" => Delivered(c)'
                      /\ jobStatus' = "complete" => \A c \in Chunks : Delivered(c)'
    BY DEF EndInv, Status
  <1>1. trampled = {} /\ \A u \in Tasks : Status(u) = "complete" => task'[u].status = "complete"
    BY CompleteStays
  <1>2. \A c \in Chunks, k \in {"primary", "hedge"} : <<k, c>> \in Tasks BY DEF Tasks
  <1>3. \A c \in Chunks : Delivered(c) => Delivered(c)' BY <1>1, <1>2 DEF Delivered, Status
  <1>4. Live' => Live BY JobStep DEF JobGuard, JobEdges, Live
  <1>5. ASSUME Live', NEW c \in Chunks, task'[<<"primary", c>>].status = "failed" PROVE Delivered(c)'
    <2>1. CASE Status(<<"primary", c>>) = "failed" BY <1>1, <1>3, <1>4, <1>5, <2>1 DEF EndInv
    <2>2. CASE Status(<<"primary", c>>) # "failed"
      <3>1. PICK t \in Tasks : \E p \in Plans(t) \ {Decide("fail")}, pin \in Workers \cup {Nobody} :
                    AcceptResult(t, p, pin) /\ <<"primary", c>> \in CancelledSiblings(t)
        BY <1>2, <1>5, <2>2, FailStep
      <3>2. task'[t].status = "complete" BY <3>1, AcceptFacts
      <3>3. Kind(t) = "hedge" /\ Chunk(t) = c
        BY <3>1 DEF CancelledSiblings, ChunkTasks, Kind, Chunk
      <3>4. t = <<"hedge", c>> BY SMTT(20), <3>3 DEF Tasks, Kind, Chunk
      <3> QED BY <3>2, <3>4 DEF Delivered, Status
    <2> QED BY <2>1, <2>2
  <1>6. ASSUME jobStatus' = "complete", NEW c \in Chunks PROVE Delivered(c)'
    <2>1. CASE jobStatus = "complete" BY <1>1, <1>3, <1>6, <2>1 DEF EndInv
    <2>2. CASE jobStatus # "complete"
      <3>1. FinalizeJob BY <1>6, <2>2, FinalStep
      <3>2. Live /\ Status(<<"primary", c>>) \in {"absent", "complete", "failed"}
        BY <1>2, <3>1 DEF FinalizeJob, Finalizable, Live
      <3>3. Status(<<"primary", c>>) # "absent" BY <1>2 DEF PresentInv, Dynamic, Kind
      <3>4. Delivered(c) BY <1>1, <3>2, <3>3 DEF EndInv, Delivered
      <3> QED BY <1>3, <3>4
    <2> QED BY <2>1, <2>2
  <1> QED BY <1>5, <1>6

\* The rows task_count counts, and those tasks_done has counted: a chunk's two racers
\* together fill the primary's place.
Countable == {t \in Tasks : Kind(t) # "hedge" /\ Status(t) # "absent"}
Counted == {t \in Tasks : \/ /\ Kind(t) = "primary"
                             /\ \E k \in {"primary", "hedge"} : <<k, Chunk(t)>> \in charged
                          \/ Kind(t) \notin {"primary", "hedge"} /\ Status(t) = "complete"}

CountInv == /\ taskCount = Cardinality(Countable)
            /\ trampled = {} => tasksDone = Cardinality(Counted)

\* A step that leaves both sets and both counters alone.
LEMMA KeepCount ==
    ASSUME TypeOK, CountInv, trampled' = {} => trampled = {}, UNCHANGED <<taskCount, tasksDone>>,
           \A u \in Tasks : Kind(u) # "hedge" => (Status(u) = "absent" <=> task'[u].status = "absent"),
           trampled' = {} => /\ charged' = charged
                             /\ \A u \in Tasks : Status(u) = "complete" <=> task'[u].status = "complete"
    PROVE  CountInv'
  <1>1. Countable' = Countable BY DEF Countable, Status
  <1>2. trampled' = {} => Counted' = Counted BY DEF Counted, Status
  <1> QED BY <1>1, <1>2 DEF CountInv

LEMMA AcceptCount ==
    ASSUME TypeOK, DeliverInv, CountInv, NEW t \in Tasks, NEW p \in Plans(t) \ {Decide("fail")},
           NEW pin \in Workers \cup {Nobody}, AcceptResult(t, p, pin)
    PROVE  CountInv'
  <1> DEFINE d == TiebreakOf(t)
             place == <<"primary", Chunk(t)>>
  <1>1. /\ Status(t) = "verifying" /\ task'[t].status = "complete" /\ trampled' = trampled
        /\ p.tiebreak => p.winners = {} /\ p.losers = {} /\ Status(d) = "absent"
        /\ p.tiebreak \in BOOLEAN
    BY AcceptFacts, PlanFacts
  <1>2. d \in Tasks /\ Kind(d) = "tiebreak" /\ place \in Tasks /\ Chunk(t) \in Chunks
    BY TaskFacts DEF TiebreakOf, Kind, Tasks
  <1>3. Countable \in SUBSET Tasks /\ Counted \in SUBSET Tasks BY DEF Countable, Counted
  <1>4. ASSUME NEW u \in Tasks, ~(p.tiebreak /\ u = d)
        PROVE  Status(u) = "absent" <=> task'[u].status = "absent"
    <2>1. CASE u = t BY <1>1, <2>1
    <2>2. CASE u # t /\ (u \in p.winners \/ u \in p.losers) BY <2>2, AcceptVote
    <2>3. CASE u # t /\ u \notin p.winners /\ u \notin p.losers
      <3>1. \/ Status(u) \in {"queued", "running", "retrying"} /\ task'[u].status = "failed"
            \/ task'[u] = task[u]
        BY SMTT(20), <1>4, <2>3, AcceptOther
      <3> QED BY <3>1 DEF Status
    <2> QED BY <2>1, <2>2, <2>3
  <1>5. taskCount' = Cardinality(Countable')
    <2>1. CASE ~p.tiebreak
      <3>1. Countable' = Countable BY <1>4, <2>1 DEF Countable, Status
      <3>2. taskCount' = taskCount BY <2>1 DEF AcceptResult
      <3> QED BY <3>1, <3>2 DEF CountInv
    <2>2. CASE p.tiebreak
      <3>1. task'[d].status = "queued" BY <1>1, <1>2, <2>2, AcceptOther
      <3>2. d \notin Countable /\ Countable' = Countable \cup {d}
        <4> HIDE DEF d
        <4> QED BY <1>1, <1>2, <1>4, <2>2, <3>1 DEF Countable, Status
      <3>3. taskCount' = taskCount + 1 BY <2>2 DEF AcceptResult
      <3>4. Cardinality(Countable \cup {d}) = Cardinality(Countable) + 1
        BY <1>2, <1>3, <3>2, TaskSets
      <3> QED BY <3>2, <3>3, <3>4 DEF CountInv
    <2> QED BY <1>1, <2>1, <2>2
  <1>6. ASSUME trampled = {} PROVE tasksDone' = Cardinality(Counted')
    <2>1. tasksDone = Cardinality(Counted) BY <1>6 DEF CountInv
    <2>2. \A u \in Tasks \ {t} : task'[u].status = "complete" <=> Status(u) = "complete" BY AcceptRows
    <2>3. \A u \in charged : u \in Tasks /\ Status(u) = "complete" BY <1>6 DEF DeliverInv, TypeOK
    <2>4. ASSUME NEW x \in Tasks, x \notin Counted, Counted' = Counted \cup {x}, CountsBuyerChunk(t)
          PROVE  tasksDone' = Cardinality(Counted')
      <3>1. Cardinality(Counted \cup {x}) = Cardinality(Counted) + 1 BY <1>3, <2>4, TaskSets
      <3>2. tasksDone' = tasksDone + 1 BY <2>4 DEF AcceptResult
      <3> QED BY <2>1, <2>4, <3>1, <3>2
    <2>5. CASE Kind(t) \notin {"primary", "hedge"}
      <3>1. CountsBuyerChunk(t) BY <1>1, <1>6, <2>5, FirstCounts
      <3>2. charged' = charged \/ charged' = charged \cup {t} BY DEF AcceptResult
      <3>3. \A c : \A k \in {"primary", "hedge"} : <<k, c>> # t BY SMTT(20), <2>5 DEF Kind
      <3>4. \A c : (\E k \in {"primary", "hedge"} : <<k, c>> \in charged')
                     <=> (\E k \in {"primary", "hedge"} : <<k, c>> \in charged)
        BY SMTT(20), <3>2, <3>3
      <3>5. t \notin Counted BY <1>1, <2>5 DEF Counted
      <3>6. Counted' = Counted \cup {t} BY <1>1, <2>2, <2>5, <3>4 DEF Counted, Status
      <3> QED BY <2>4, <3>1, <3>5, <3>6
    <2>6. CASE Kind(t) \in {"primary", "hedge"} /\ Delivered(Chunk(t))
      <3>1. ~CountsBuyerChunk(t) BY <1>1, <1>6, <2>6, FirstCounts
      <3>2. tasksDone' = tasksDone /\ charged' = charged BY <3>1 DEF AcceptResult
      <3>3. Counted' = Counted BY <2>2, <2>6, <3>2 DEF Counted, Status
      <3> QED BY <2>1, <3>2, <3>3
    <2>7. CASE Kind(t) \in {"primary", "hedge"} /\ ~Delivered(Chunk(t))
      <3>1. CountsBuyerChunk(t) BY <1>1, <1>6, <2>7, FirstCounts
      <3>2. p.outcome # "loss_no_payout" BY <1>1, <1>6, <2>7, FirstVerdict
      <3>3. charged' = charged \cup {t} BY <3>1, <3>2 DEF AcceptResult
      <3>4. t = <<Kind(t), Chunk(t)>> BY SMTT(20) DEF Tasks, Kind, Chunk
      <3>5. Kind(place) = "primary" /\ Chunk(place) = Chunk(t) BY DEF Kind, Chunk
      <3>6. \A k \in {"primary", "hedge"} : <<k, Chunk(t)>> \notin charged
        BY <2>3, <2>7 DEF Delivered
      <3>7. place \notin Counted BY <3>5, <3>6 DEF Counted
      <3>8. ASSUME NEW u \in Tasks PROVE u \in Counted' <=> u \in Counted \/ u = place
        <4>1. CASE Kind(u) = "primary"
          <5>1. u = <<"primary", Chunk(u)>> BY SMTT(20), <4>1 DEF Tasks, Kind, Chunk
          <5>2. CASE u = place
            BY <2>7, <3>3, <3>4, <3>5, <4>1, <5>2 DEF Counted
          <5>3. CASE u # place
            <6>1. \A k : <<k, Chunk(u)>> # t BY SMTT(20), <3>4, <5>1, <5>3
            <6>2. (\E k \in {"primary", "hedge"} : <<k, Chunk(u)>> \in charged')
                    <=> (\E k \in {"primary", "hedge"} : <<k, Chunk(u)>> \in charged)
              BY <3>3, <6>1
            <6> QED BY <4>1, <5>3, <6>2 DEF Counted
          <5> QED BY <5>2, <5>3
        <4>2. CASE Kind(u) # "primary"
          <5>1. u # place BY <3>5, <4>2
          <5>2. Kind(u) \notin {"primary", "hedge"} => u # t BY <2>7
          <5> QED BY <2>2, <4>2, <5>1, <5>2 DEF Counted, Status
        <4> QED BY <4>1, <4>2
      <3>9. Counted' = Counted \cup {place}
        <4>1. Counted' \subseteq Tasks BY DEF Counted
        <4> QED BY <1>2, <1>3, <3>8, <4>1
      <3> QED BY <1>2, <2>4, <3>1, <3>7, <3>9
    <2> QED BY <2>5, <2>6, <2>7
  <1> QED BY <1>1, <1>5, <1>6 DEF CountInv

LEMMA CountStep ==
    ASSUME TypeOK, ListInv, PinInv, PresentInv, DeliverInv, CountInv, [Next]_vars
    PROVE  CountInv'
  <1>1. ASSUME NEW t \in Tasks, NEW p \in Plans(t) \ {Decide("fail")},
               NEW pin \in Workers \cup {Nobody}, AcceptResult(t, p, pin)
        PROVE  CountInv'
    BY <1>1, AcceptCount
  <1>2. CASE UNCHANGED <<tasksDone, taskCount, resolution>>
    <2>1. CASE Quiet
      <3>1. UNCHANGED <<charged, trampled>> BY <2>1 DEF Quiet
      <3>2. ASSUME NEW u \in Tasks
            PROVE  /\ Status(u) = "absent" <=> task'[u].status = "absent"
                   /\ Status(u) = "complete" <=> task'[u].status = "complete"
        <4>1. QuietRow(u) BY <2>1 DEF Quiet
        <4> QED BY <4>1 DEF QuietRow, Status
      <3> QED BY <1>2, <3>1, <3>2, KeepCount
    <2>2. ASSUME NEW w \in Workers, NEW t \in Tasks, NEW r \in Results, CommitTask(w, t, r)
          PROVE CountInv'
      BY <1>2, <2>2, CommitFacts, KeepCount DEF Status
    <2>3. ASSUME NEW t \in Tasks, RejectResult(t) PROVE CountInv'
      BY <1>2, <2>3, RejectFacts, KeepCount DEF Status
    <2>4. ASSUME NEW c \in Chunks, NEW w \in Workers, InsertHedgeTask(c, w) PROVE CountInv'
      <3>1. /\ Status(<<"hedge", c>>) = "absent" /\ task'[<<"hedge", c>>].status = "queued"
            /\ \A u \in Tasks \ {<<"hedge", c>>} : task'[u] = task[u]
            /\ charged' = charged /\ trampled' = trampled
        BY <2>4, HedgeFacts
      <3>2. Kind(<<"hedge", c>>) = "hedge" BY DEF Kind
      <3> QED BY <1>2, <3>1, <3>2, KeepCount DEF Status
    <2>5. ASSUME NEW t \in Tasks, Trample(t) PROVE CountInv'
      <3>1. Kind(t) = "primary" /\ Status(t) # "absent"
        BY <2>5 DEF Trample, ListInv, PresentInv, Dynamic
      <3>2. /\ task'[t].status = "retrying" /\ trampled' # {}
            /\ \A u \in Tasks \ {t} : task'[u] = task[u]
        BY <2>5, TrampleFacts
      <3> QED BY <1>2, <3>1, <3>2, KeepCount DEF Status
    <2> QED BY <1>1, <2>1, <2>2, <2>3, <2>4, <2>5, StepCases
  <1> QED BY <1>1, <1>2, MoneyStep

LEMMA DeliveryInit ==
    ASSUME Init
    PROVE  PresentInv /\ QueuedInv /\ DeliverInv /\ EndInv /\ CountInv
  <1>1. \A t \in Tasks : /\ Dynamic(t) => Status(t) = "absent"
                         /\ ~Dynamic(t) => Status(t) = "queued"
                         /\ task[t].execBy = Nobody
    BY FreshFacts DEF Init, Status
  <1>2. PresentInv /\ QueuedInv BY <1>1 DEF PresentInv, QueuedInv
  <1>3. \A c \in Chunks : ~Delivered(c) /\ Status(<<"tiebreak", c>>) = "absent"
    <2>1. \A c \in Chunks, k \in {"primary", "hedge", "tiebreak"} : <<k, c>> \in Tasks BY DEF Tasks
    <2> QED BY <1>1, <2>1 DEF Delivered, Dynamic, Kind
  <1>4. DeliverInv /\ EndInv
    <2>1. \A c \in Chunks : Status(<<"primary", c>>) = "queued" BY SMTT(20), <1>1 DEF Tasks, Dynamic, Kind
    <2> QED BY <1>3, <2>1 DEF Init, DeliverInv, EndInv
  <1>5. CountInv
    <2>1. Countable = InitialTasks
      <3>1. ASSUME NEW t \in Tasks PROVE (Kind(t) # "hedge" /\ Status(t) # "absent") <=> ~Dynamic(t)
        BY <1>1 DEF Dynamic
      <3> QED BY <3>1 DEF Countable, InitialTasks
    <2>2. Counted = {} BY <1>1 DEF Counted, Init, Dynamic
    <2> QED BY <2>1, <2>2, FS_EmptySet DEF Init, CountInv
  <1> QED BY <1>2, <1>4, <1>5

DInv == IInv /\ PresentInv /\ QueuedInv /\ DeliverInv /\ EndInv /\ CountInv

LEMMA DeliveryNext ==
    ASSUME DInv, [Next]_vars
    PROVE  DInv'
  <1>1. TypeOK /\ ListInv /\ PinInv BY DEF DInv, IInv
  <1>2. IInv' BY NextInv DEF DInv
  <1>3. PresentInv' BY <1>1, TaskGuardStep, PresentStep DEF DInv
  <1>4. QueuedInv'
    <2>1. /\ JobGuard
          /\ jobStatus' = "queued" => \A u \in Tasks : task'[u].execBy \in {task[u].execBy, Nobody}
      BY <1>1, JobStep DEF DInv
    <2> QED BY <2>1 DEF DInv, QueuedInv, JobGuard, JobEdges
  <1>5. DeliverInv' BY <1>1, DeliverStep DEF DInv
  <1>6. EndInv' BY <1>1, EndStep DEF DInv
  <1>7. CountInv' BY <1>1, CountStep DEF DInv
  <1> QED BY <1>2, <1>3, <1>4, <1>5, <1>6, <1>7 DEF DInv

\* The invariant of deliveries and counters holds in every reachable state of a job.
THEOREM DeliveryInductive == Spec => []DInv
  <1>1. Init => DInv BY InitInv, DeliveryInit DEF DInv
  <1>2. DInv /\ [Next]_vars => DInv' BY DeliveryNext
  <1> QED BY <1>1, <1>2, PTL DEF Spec

\* A complete job has an accepted artifact for every chunk, for every number of chunks,
\* workers, copies, hedges, third opinions and retries.
THEOREM CompleteDelivers == Spec => []CompleteIsDeliverable
  <1>1. DInv => CompleteIsDeliverable
    <2> SUFFICES ASSUME DInv, jobStatus = "complete", trampled = {}, NEW c \in Chunks
                 PROVE  /\ Winner(c) # NoTask
                        /\ Status(Winner(c)) = "complete"
                        /\ task[Winner(c)].outcome \in {"pass", "pass_with_penalty"}
      BY DEF CompleteIsDeliverable
    <2>1. Delivered(c) BY DEF DInv, EndInv
    <2>2. Winner(c) \in ChunkTasks(c) /\ Accepted(Winner(c)) BY <2>1 DEF DInv, DeliverInv
    <2>3. Winner(c) # NoTask BY <2>2, TaskFacts DEF ChunkTasks
    <2> QED BY <2>2, <2>3 DEF Accepted
  <1> QED BY <1>1, DeliveryInductive, PTL

\* However a job ends, it ends on decided results, and complete only with a deliverable
\* one for each chunk.
THEOREM JobsEndDeliverable == Spec => []EndsDeliverable
  <1>1. CompleteIsDeliverable /\ NoOrphanVerification => EndsDeliverable BY DEF EndsDeliverable
  <1> QED BY <1>1, CompleteDelivers, NoOrphans, PTL

\* tasks_done never passes task_count, although hedges are settled and not counted in it.
THEOREM DoneCounted == Spec => []DoneWithinCount
  <1>1. DInv => DoneWithinCount
    <2> SUFFICES ASSUME DInv, trampled = {} PROVE tasksDone <= taskCount BY DEF DoneWithinCount
    <2>1. tasksDone = Cardinality(Counted) /\ taskCount = Cardinality(Countable) BY DEF DInv, CountInv
    <2>2. Counted \in SUBSET Countable BY DEF DInv, PresentInv, Counted, Countable, Dynamic
    <2>3. Countable \in SUBSET Tasks BY DEF Countable
    <2>4. Cardinality(Counted) <= Cardinality(Countable) BY <2>2, <2>3, TaskSets
    <2> QED BY <2>1, <2>4
  <1> QED BY <1>1, DeliveryInductive, PTL

\* The counters and the credits of a job follow the verdicts that stand.
THEOREM VotesSettled == Spec => []VotesSettle
  <1>1. DoneWithinCount /\ CreditMatchesVerdict => VotesSettle BY DEF VotesSettle
  <1> QED BY <1>1, DoneCounted, CreditsStand, PTL
=============================================================================
