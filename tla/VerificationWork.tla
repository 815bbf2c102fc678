-------------------------- MODULE VerificationWork --------------------------
(* Durable verification of committed results (verification_work.go,           *)
(* verification_work_plan.go, verification_processor.go and the fence of      *)
(* verification_apply.go).                                                    *)
(*                                                                            *)
(* A commit leaves one verification_work row per task attempt.  Processors,   *)
(* the commit handler's ProcessAttempt and the sweep's Drain, claim a row     *)
(* under a lease and take it through four durable points: the sampling draw   *)
(* is pinned, the result is sealed and pinned, an immutable plan is           *)
(* persisted, and the plan is applied with the verdict in one transaction.    *)
(* Any of them may crash, stall past its lease or lose a race at every        *)
(* statement; the row is then claimed again and resumed.                      *)
(*                                                                            *)
(* A lease token is modelled by the processor run that drew it: a run holds   *)
(* one token, and its name is reused only after it has ended.  Lease time is  *)
(* the flag `live` (lease_expires_at > now()).                                *)
EXTENDS Integers, FiniteSets, Transitions

CONSTANTS Works,            \* verification_work rows, one per (task, attempt)
          Chunks,           \* the (job, chunk) pairs the rows belong to
          ChunkOf,          \* [Works -> Chunks]
          Procs,            \* processor runs that may be active at once
          Contents,         \* possible bodies of a staged result object
          Draws,            \* outcomes of the sampling draw (checkSampled)
          Decisions,        \* what PlanTaskResult may decide, "fail" included
          UnavailableAfter, \* verificationArtifactUnavailableMaxLeaseAttempts
          LockLoss,         \* may an advisory-lock session die under its holder
          TaskLeaves,       \* may the task leave `verifying` by another path
          MaxFaults         \* bound on crashes and on leases lost under a run

None == "none"

Missing == "missing"

Oversized == "oversized"

Unavailable == "unavailable"

Fail == "fail"

ASSUME WorkAssumption ==
  /\ ChunkOf \in [Works -> Chunks]
  /\ UnavailableAfter \in Nat \ {0}
  /\ LockLoss \in BOOLEAN
  /\ TaskLeaves \in BOOLEAN
  /\ MaxFaults \in Nat
  /\ Fail \in Decisions
  /\ None \notin Decisions \cup Draws \cup Contents \cup Works \cup Procs
  /\ {Missing, Oversized, Unavailable} \cap Contents = {}

VARIABLES
  status,    \* verification_work.status
  holder,    \* lease_token: the run whose claim is the latest one
  live,      \* lease_expires_at > now()
  attempts,  \* lease_attempts, saturated at UnavailableAfter
  sampling,  \* sampling_selected, once pinned
  artifact,  \* artifact_key, once pinned
  plan,      \* the row's verification_work_plans entry
  verdict,   \* the task_verdicts row of the attempt
  applied,   \* how often the decision's effects were committed
  current,   \* the task row is still `verifying` this attempt
  staged,    \* the staged object as storage returns it
  lock,      \* pg_advisory_lock of each chunk
  pc, on,    \* where a run is, and the row it claimed
  seen,      \* the run's copy of the row
  draft,     \* what the run computed and has not stored yet
  faults

rowVars == <<status, holder, live, attempts>>

pinVars == <<sampling, artifact, plan, verdict, applied>>

envVars == <<current, staged>>

procVars == <<pc, on, seen, draft>>

vars == <<rowVars, pinVars, envVars, lock, procVars, faults>>

Sealed == Contents \cup {Oversized, Unavailable}

Staged == Contents \cup {Oversized, Missing}

Places == {"idle", "lock", "turn", "sample", "reread", "seal", "pin", "load",
           "decide", "persist", "begin", "apply", "finish", "unlock", "release"}

\* What a run keeps of the row it claimed.
Copy == [sampling : Draws \cup {None}, artifact : Sealed \cup {None}, attempts : Nat]

\* A persisted plan.  `basis` is the set of attempts of the chunk whose verdicts
\* the decision was computed from; `older` orders the plans by created_at.
Plan == [decision : Decisions, artifact : Sealed, sampling : Draws,
         basis : SUBSET Works, older : SUBSET Works]

NoPlan == [decision |-> None, artifact |-> None, sampling |-> None,
           basis |-> {}, older |-> {}]

NoCopy == [sampling |-> None, artifact |-> None, attempts |-> 0]

\* A run's unsaved result: the artifact it sealed, then the plan it computed.
NoDraft == [artifact |-> None, decision |-> None, basis |-> {}]

Draft == [artifact : Sealed \cup {None}, decision : Decisions \cup {None}, basis : SUBSET Works]

TypeOK ==
  /\ status \in [Works -> {"pending", "leased", "terminal"}]
  /\ holder \in [Works -> Procs \cup {None}]
  /\ live \in [Works -> BOOLEAN]
  /\ attempts \in [Works -> 0..UnavailableAfter]
  /\ sampling \in [Works -> Draws \cup {None}]
  /\ artifact \in [Works -> Sealed \cup {None}]
  /\ plan \in [Works -> Plan \cup {NoPlan}]
  /\ verdict \in [Works -> Decisions \cup {None}]
  /\ applied \in [Works -> Nat]
  /\ current \in [Works -> BOOLEAN]
  /\ staged \in [Works -> Staged]
  /\ lock \in [Chunks -> Procs \cup {None}]
  /\ pc \in [Procs -> Places]
  /\ on \in [Procs -> Works \cup {None}]
  /\ seen \in [Procs -> Copy]
  /\ draft \in [Procs -> Draft]
  /\ faults \in 0..MaxFaults

\* The rows exist: completeTaskTx inserted them with the tasks' `verifying`.
Init ==
  /\ status = [w \in Works |-> "pending"]
  /\ holder = [w \in Works |-> None]
  /\ live = [w \in Works |-> FALSE]
  /\ attempts = [w \in Works |-> 0]
  /\ sampling = [w \in Works |-> None]
  /\ artifact = [w \in Works |-> None]
  /\ plan = [w \in Works |-> NoPlan]
  /\ verdict = [w \in Works |-> None]
  /\ applied = [w \in Works |-> 0]
  /\ current = [w \in Works |-> TRUE]
  /\ staged \in [Works -> Staged]
  /\ lock = [c \in Chunks |-> None]
  /\ pc = [p \in Procs |-> "idle"]
  /\ on = [p \in Procs |-> None]
  /\ seen = [p \in Procs |-> NoCopy]
  /\ draft = [p \in Procs |-> NoDraft]
  /\ faults = 0

-----------------------------------------------------------------------------
Planned(w) == plan[w].decision # None

Chunk(p) == ChunkOf[on[p]]

\* status='leased' AND lease_owner=$2 AND lease_token=$3
HasToken(p) == status[on[p]] = "leased" /\ holder[on[p]] = p

\* ... AND lease_expires_at>now(): what every fenced statement requires.
Held(p) == HasToken(p) /\ live[on[p]]

\* The attempts of the run's chunk that have a verdict: what gatherChunkResults,
\* PeerSealedResult and the tiebreak votes are read from.
Judged(c) == {w \in Works : ChunkOf[w] = c /\ verdict[w] # None}

\* The oldest plan of an unfinished row of the chunk is this row's, or there is
\* none: OwnsVerificationChunkPlanTurn.
OwnsTurn(w) ==
  \A v \in Works \ {w} :
    (ChunkOf[v] = ChunkOf[w] /\ Planned(v) /\ status[v] # "terminal")
      => (Planned(w) /\ status[w] # "terminal" /\ w \in plan[v].older)

At(p, place) == pc[p] = place

Goto(p, place) == pc' = [pc EXCEPT ![p] = place]

-----------------------------------------------------------------------------
\* Mutant: only pending rows are claimed, a dead run's lease is never taken over.
Claim_PendingOnly(p, w) ==
  /\ At(p, "idle")
  /\ status[w] = "pending"
  /\ status' = [status EXCEPT ![w] = "leased"]
  /\ holder' = [holder EXCEPT ![w] = p]
  /\ live' = [live EXCEPT ![w] = TRUE]
  /\ attempts' = [attempts EXCEPT
                    ![w] = IF attempts[w] < UnavailableAfter THEN attempts[w] + 1
                                                             ELSE attempts[w]]
  /\ on' = [on EXCEPT ![p] = w]
  /\ seen' = [seen EXCEPT ![p] = [sampling |-> sampling[w], artifact |-> artifact[w],
                                  attempts |-> attempts'[w]]]
  /\ Goto(p, "lock")
  /\ UNCHANGED <<pinVars, envVars, lock, draft, faults>>

\* ClaimVerificationWork / ClaimVerificationWorkForAttempt: a pending row, or a
\* leased one whose lease ran out.  The copy is read in the same transaction.
Claim(p, w) ==
  /\ At(p, "idle")
  /\ \/ status[w] = "pending"
     \/ status[w] = "leased" /\ ~live[w]
  /\ status' = [status EXCEPT ![w] = "leased"]
  /\ holder' = [holder EXCEPT ![w] = p]
  /\ live' = [live EXCEPT ![w] = TRUE]
  /\ attempts' = [attempts EXCEPT
                    ![w] = IF attempts[w] < UnavailableAfter THEN attempts[w] + 1
                                                             ELSE attempts[w]]
  /\ on' = [on EXCEPT ![p] = w]
  /\ seen' = [seen EXCEPT ![p] = [sampling |-> sampling[w], artifact |-> artifact[w],
                                  attempts |-> attempts'[w]]]
  /\ Goto(p, "lock")
  /\ UNCHANGED <<pinVars, envVars, lock, draft, faults>>

\* Mutant: the lock is shared.
LockChunk_Shared(p) ==
  /\ At(p, "lock")
  /\ lock' = [lock EXCEPT ![Chunk(p)] = p]
  /\ Goto(p, "turn")
  /\ UNCHANGED <<rowVars, pinVars, envVars, on, seen, draft, faults>>

\* lockChunk: pg_try_advisory_lock on a connection of its own, or
\* ErrVerificationChunkBusy.
LockChunk(p) ==
  /\ At(p, "lock")
  /\ IF lock[Chunk(p)] = None
       THEN /\ lock' = [lock EXCEPT ![Chunk(p)] = p]
            /\ Goto(p, "turn")
       ELSE /\ UNCHANGED lock
            /\ Goto(p, "release")
  /\ UNCHANGED <<rowVars, pinVars, envVars, on, seen, draft, faults>>

\* OwnsVerificationChunkPlanTurn, then on with the sampling draw unless the copy
\* already has one.
CheckTurn(p) ==
  /\ At(p, "turn")
  /\ Goto(p, IF ~OwnsTurn(on[p]) THEN "unlock"
             ELSE IF seen[p].sampling = None THEN "sample" ELSE "seal")
  /\ UNCHANGED <<rowVars, pinVars, envVars, lock, on, seen, draft, faults>>

\* Mutant: UPDATE ... WHERE id=$1, without the lease and the IS NULL guard.
PinSampling_ById(p, d) ==
  /\ At(p, "sample")
  /\ sampling' = [sampling EXCEPT ![on[p]] = d]
  /\ Goto(p, "reread")
  /\ UNCHANGED <<rowVars, artifact, plan, verdict, applied, envVars, lock, on, seen, draft, faults>>

\* PinVerificationSampling: effectiveCheckProb depends on reputation at the time,
\* so a second draw may differ from the first; the stored one is kept.
PinSampling(p, d) ==
  /\ At(p, "sample")
  /\ IF Held(p) /\ sampling[on[p]] = None
       THEN sampling' = [sampling EXCEPT ![on[p]] = d]
       ELSE UNCHANGED sampling
  /\ Goto(p, IF Held(p) /\ sampling[on[p]] \in {None, d} THEN "reread" ELSE "unlock")
  /\ UNCHANGED <<rowVars, artifact, plan, verdict, applied, envVars, lock, on, seen, draft, faults>>

\* VerificationWorkForAttempt: the row is read again, by attempt and not by lease.
\* After a pin the artifact is the one the run has just sealed.
Reread(p) ==
  /\ At(p, "reread")
  /\ LET pinned == draft[p].artifact IN
     /\ seen' = [seen EXCEPT ![p] =
                   [sampling |-> sampling[on[p]],
                    artifact |-> IF pinned = None THEN artifact[on[p]] ELSE pinned,
                    attempts |-> attempts[on[p]]]]
     /\ Goto(p, IF sampling[on[p]] = None THEN "unlock"
                ELSE IF pinned = None THEN "seal" ELSE "load")
  /\ UNCHANGED <<rowVars, pinVars, envVars, lock, on, draft, faults>>

\* ObjectExists, then sealVerificationArtifactWithLimit or the evidence of an
\* oversized or unavailable object.  A body is stored under its own digest, so a
\* later overwrite of the staged object cannot change what was sealed.  A torn
\* read is ErrVerificationArtifactChanged.
Seal(p, torn) ==
  /\ At(p, "seal")
  /\ torn => staged[on[p]] \in Contents /\ seen[p].artifact = None
  /\ LET gone == torn \/ staged[on[p]] = Missing
         giveUp == seen[p].attempts >= UnavailableAfter
     IN IF seen[p].artifact # None
          THEN Goto(p, "load") /\ UNCHANGED draft
        ELSE IF gone /\ ~giveUp
          THEN Goto(p, "unlock") /\ UNCHANGED draft
        ELSE /\ Goto(p, "pin")
             /\ draft' = [draft EXCEPT ![p] =
                            [artifact |-> IF gone THEN Unavailable ELSE staged[on[p]],
                             decision |-> None, basis |-> {}]]
  /\ UNCHANGED <<rowVars, pinVars, envVars, lock, on, seen, faults>>

\* PinVerificationArtifact: stored once, with the task's result_ref, and only for
\* a task that is still verifying this attempt.
PinArtifact(p) ==
  /\ At(p, "pin")
  /\ LET w == on[p]
         stored == Held(p) /\ artifact[w] = None /\ current[w]
         replay == Held(p) /\ artifact[w] = draft[p].artifact
     IN /\ artifact' = IF stored THEN [artifact EXCEPT ![w] = draft[p].artifact] ELSE artifact
        /\ Goto(p, IF stored \/ replay THEN "reread" ELSE "unlock")
  /\ UNCHANGED <<rowVars, sampling, plan, verdict, applied, envVars, lock, on, seen, draft, faults>>

\* VerificationWorkPlan: an existing plan is resumed after its pins are compared.
LoadPlan(p) ==
  /\ At(p, "load")
  /\ LET w == on[p]
         same == plan[w].artifact = seen[p].artifact /\ plan[w].sampling = seen[p].sampling
     IN IF ~Planned(w)
          THEN Goto(p, "decide") /\ UNCHANGED draft
          ELSE /\ Goto(p, IF same THEN "begin" ELSE "unlock")
               /\ draft' = [draft EXCEPT ![p] = [artifact |-> seen[p].artifact,
                                                 decision |-> plan[w].decision,
                                                 basis |-> plan[w].basis]]
  /\ UNCHANGED <<rowVars, pinVars, envVars, lock, on, seen, faults>>

\* createOversizedArtifactPlan, createUnavailableArtifactPlan, or createPlan: the
\* verdicts of the chunk are read and a decision is computed from them, or refused:
\* the votes are not independent (errNoIndependentSupplier), or a peer's result, the
\* price or the currency of the payout cannot be read.  What refused it may last, so
\* a refusal is not one of the bounded faults.
Decide(p, d) ==
  /\ At(p, "decide")
  /\ \/ /\ seen[p].artifact \in {Oversized, Unavailable} => d = Fail
        /\ draft' = [draft EXCEPT ![p] = [artifact |-> seen[p].artifact, decision |-> d,
                                          basis |-> Judged(Chunk(p))]]
        /\ Goto(p, "persist")
     \/ /\ seen[p].artifact \in Contents
        /\ Goto(p, "unlock") /\ UNCHANGED draft
  /\ UNCHANGED <<rowVars, pinVars, envVars, lock, on, seen, faults>>

\* PersistVerificationWorkPlan: INSERT ... ON CONFLICT DO NOTHING under the lease
\* and the pinned artifact; an equal stored plan is accepted, another is a conflict.
PersistPlan(p) ==
  /\ At(p, "persist")
  /\ LET w == on[p]
         stored == Held(p) /\ ~Planned(w) /\ artifact[w] = seen[p].artifact
         replay == /\ plan[w].decision = draft[p].decision
                   /\ plan[w].artifact = seen[p].artifact
                   /\ plan[w].sampling = seen[p].sampling
     IN /\ plan' = IF stored
                     THEN [plan EXCEPT ![w] =
                             [decision |-> draft[p].decision, artifact |-> artifact[w],
                              sampling |-> seen[p].sampling, basis |-> draft[p].basis,
                              older |-> {v \in Works : Planned(v)}]]
                     ELSE plan
        /\ Goto(p, IF stored \/ replay THEN "begin" ELSE "unlock")
  /\ UNCHANGED <<rowVars, sampling, artifact, verdict, applied, envVars, lock, on, seen, draft, faults>>

\* VerifyJobTx begins its transaction: now() is fixed here, before the row locks
\* are waited for, so this is where the lease must be live.
BeginApply(p) ==
  /\ At(p, "begin")
  /\ Goto(p, IF Held(p) THEN "apply" ELSE "unlock")
  /\ UNCHANGED <<rowVars, pinVars, envVars, lock, on, seen, draft, faults>>

\* applyVerificationDecision: the fence, the verdict, the effects and the
\* terminal row commit together.  A task that has moved on must show this very
\* verdict, otherwise ErrVerificationReplayConflict.  A decision with a tie-break is
\* rolled back while the job has no extra task left (ErrEconomicReserveExhausted).
Apply(p) ==
  /\ At(p, "apply")
  /\ LET w == on[p]
         fenced == /\ HasToken(p)
                   /\ plan[w].decision = draft[p].decision
                   /\ artifact[w] = plan[w].artifact
                   /\ sampling[w] = plan[w].sampling
         exact == verdict[w] = draft[p].decision
     IN \/ /\ fenced /\ current[w]
           /\ verdict' = [verdict EXCEPT ![w] = draft[p].decision]
           /\ applied' = [applied EXCEPT ![w] = applied[w] + 1]
           /\ status' = [status EXCEPT ![w] = "terminal"]
           /\ holder' = [holder EXCEPT ![w] = None]
           /\ live' = [live EXCEPT ![w] = FALSE]
           /\ current' = [current EXCEPT ![w] = FALSE]
           /\ Goto(p, "finish")
        \/ /\ fenced /\ current[w] => draft[p].decision # Fail
           /\ UNCHANGED <<verdict, applied, status, holder, live, current>>
           /\ Goto(p, IF fenced /\ ~current[w] /\ exact THEN "finish" ELSE "unlock")
  /\ UNCHANGED <<attempts, sampling, artifact, plan, staged, lock, on, seen, draft, faults>>

Unlocked(p) == IF lock[Chunk(p)] = p THEN [lock EXCEPT ![Chunk(p)] = None] ELSE lock

Ended(p) ==
  /\ Goto(p, "idle")
  /\ on' = [on EXCEPT ![p] = None]
  /\ seen' = [seen EXCEPT ![p] = NoCopy]
  /\ draft' = [draft EXCEPT ![p] = NoDraft]

\* The deferred unlock on the way out of processLeasedOnce with an error.
Unlock(p) ==
  /\ At(p, "unlock")
  /\ lock' = Unlocked(p)
  /\ Goto(p, "release")
  /\ UNCHANGED <<rowVars, pinVars, envVars, on, seen, draft, faults>>

\* The same on success.
Finish(p) ==
  /\ At(p, "finish")
  /\ lock' = Unlocked(p)
  /\ Ended(p)
  /\ UNCHANGED <<rowVars, pinVars, envVars, faults>>

\* releaseVerificationWorkAfterError: back to pending if the lease is still the
\* run's own and live, otherwise nothing.
Release(p) ==
  /\ At(p, "release")
  /\ LET w == on[p] IN
     IF Held(p)
       THEN /\ status' = [status EXCEPT ![w] = "pending"]
            /\ holder' = [holder EXCEPT ![w] = None]
            /\ live' = [live EXCEPT ![w] = FALSE]
       ELSE UNCHANGED <<status, holder, live>>
  /\ Ended(p)
  /\ UNCHANGED <<attempts, pinVars, envVars, lock, faults>>

Locking == {"turn", "sample", "reread", "seal", "pin", "load", "decide",
            "persist", "begin", "apply"}

\* processLeased's heartbeat: RenewVerificationLease keeps a live lease live; when
\* it finds the lease lost it cancels the run.
LoseHeartbeat(p) ==
  /\ pc[p] \in Locking
  /\ ~Held(p)
  /\ Goto(p, "unlock")
  /\ UNCHANGED <<rowVars, pinVars, envVars, lock, on, seen, draft, faults>>

\* A database or storage error at any step of the run.
StepError(p) ==
  /\ pc[p] \in Locking
  /\ faults < MaxFaults
  /\ faults' = faults + 1
  /\ Goto(p, "unlock")
  /\ UNCHANGED <<rowVars, pinVars, envVars, lock, on, seen, draft>>

\* The process dies: its session's advisory lock goes, its lease stays.
Crash(p) ==
  /\ pc[p] # "idle"
  /\ faults < MaxFaults
  /\ faults' = faults + 1
  /\ lock' = Unlocked(p)
  /\ Ended(p)
  /\ UNCHANGED <<rowVars, pinVars, envVars>>

Abandoned(w) == \A p \in Procs : on[p] = w => holder[w] # p

\* A lease that nobody renews runs out.
ExpireLease(w) ==
  /\ status[w] = "leased" /\ live[w]
  /\ Abandoned(w)
  /\ live' = [live EXCEPT ![w] = FALSE]
  /\ UNCHANGED <<status, holder, attempts, pinVars, envVars, lock, procVars, faults>>

\* A run that stalls for longer than its lease loses it without noticing.
StallPastLease(w) ==
  /\ status[w] = "leased" /\ live[w]
  /\ ~Abandoned(w)
  /\ faults < MaxFaults
  /\ faults' = faults + 1
  /\ live' = [live EXCEPT ![w] = FALSE]
  /\ UNCHANGED <<status, holder, attempts, pinVars, envVars, lock, procVars>>

\* The connection that holds the advisory lock dies while the run goes on.
LoseLock(c) ==
  /\ LockLoss
  /\ lock[c] # None
  /\ faults < MaxFaults
  /\ faults' = faults + 1
  /\ lock' = [lock EXCEPT ![c] = None]
  /\ UNCHANGED <<rowVars, pinVars, envVars, procVars>>

\* The staged object is written again, or disappears, before it is sealed.
Restage(w, s) ==
  /\ faults < MaxFaults
  /\ faults' = faults + 1
  /\ staged[w] # s
  /\ artifact[w] = None
  /\ staged' = [staged EXCEPT ![w] = s]
  /\ UNCHANGED <<rowVars, pinVars, current, lock, procVars>>

\* Something else takes the task out of `verifying` (RequeueTask over a stale
\* list, see TaskLifecycle).
TaskMovesOn(w) ==
  /\ TaskLeaves
  /\ current[w] /\ status[w] # "terminal"
  /\ current' = [current EXCEPT ![w] = FALSE]
  /\ UNCHANGED <<rowVars, pinVars, staged, lock, procVars, faults>>

-----------------------------------------------------------------------------
Resume(p) ==
  \/ LockChunk(p)
  \/ CheckTurn(p)
  \/ \E d \in Draws : PinSampling(p, d)
  \/ Reread(p)
  \/ \E torn \in BOOLEAN : Seal(p, torn)
  \/ PinArtifact(p)
  \/ LoadPlan(p)
  \/ \E d \in Decisions : Decide(p, d)
  \/ PersistPlan(p)
  \/ BeginApply(p)
  \/ Apply(p)
  \/ Unlock(p)
  \/ Finish(p)
  \/ Release(p)

Fault ==
  \/ \E p \in Procs : LoseHeartbeat(p) \/ StepError(p) \/ Crash(p)
  \/ \E w \in Works : ExpireLease(w) \/ StallPastLease(w) \/ TaskMovesOn(w)
  \/ \E w \in Works, s \in Staged : Restage(w, s)
  \/ \E c \in Chunks : LoseLock(c)

Next ==
  \/ \E p \in Procs, w \in Works : Claim(p, w)
  \/ \E p \in Procs : Resume(p)
  \/ Fault

Spec == Init /\ [][Next]_vars

\* Processors keep running, the sweep keeps claiming (every 2 s, oldest first),
\* and an abandoned lease runs out.
WorkFairness ==
  /\ \A p \in Procs : WF_vars(Resume(p))
  /\ \A w \in Works : SF_vars(\E p \in Procs : Claim(p, w))
  /\ \A w \in Works : WF_vars(ExpireLease(w))

-----------------------------------------------------------------------------
\* A verdict is exactly the persisted plan of its row: the plan's decision, over
\* the artifact and the draw that were pinned, with its effects committed once
\* and the row closed.  Whatever crashed, stalled or was claimed twice on the
\* way (lockVerificationWorkFenceTx, terminalizeVerificationWorkTx).
VerdictIsPlan ==
  \A w \in Works :
    /\ applied[w] = IF verdict[w] = None THEN 0 ELSE 1
    /\ (status[w] = "terminal") <=> (verdict[w] # None)
    /\ verdict[w] # None =>
         /\ verdict[w] = plan[w].decision
         /\ artifact[w] = plan[w].artifact
         /\ sampling[w] = plan[w].sampling

\* A plan waiting to be applied was computed from the verdicts its chunk has now:
\* between the reads of createPlan and VerifyJobTx no other attempt of the chunk
\* is judged (lockChunk and OwnsVerificationChunkPlanTurn).
PlanNotStale ==
  \A w \in Works :
    (Planned(w) /\ status[w] # "terminal") => plan[w].basis = Judged(ChunkOf[w])

\* What was pinned is never replaced: a resumed attempt is judged by the first
\* draw, the first sealed body and the first plan, even when reputation or the
\* staged object have changed since (the IS NULL and ON CONFLICT guards).
PinsHold ==
  \A w \in Works :
    /\ sampling[w] # None => sampling'[w] = sampling[w]
    /\ artifact[w] # None => artifact'[w] = artifact[w]
    /\ Planned(w) => plan'[w] = plan[w]

\* The row moves only along lifecycle_transitions, as the trigger demands: a run
\* whose lease was taken over never moves a row that another run has concluded.
WorkRowLifecycle ==
  [][\A w \in Works :
       status'[w] # status[w] => <<status[w], status'[w]>> \in VerificationEdges]_vars

\* An attempt is failed for a missing or torn object only after the retries
\* (work.LeaseAttempts < verificationArtifactUnavailableMaxLeaseAttempts), and
\* evidence of a bad object never leads to anything but a failure.
EvidenceFails ==
  \A w \in Works :
    /\ artifact[w] = Unavailable => attempts[w] >= UnavailableAfter
    /\ Planned(w) /\ artifact[w] \in {Oversized, Unavailable} => plan[w].decision = Fail

\* Two runs that work on the same chunk race for its lock at unrelated times: a
\* row that keeps trying does not lose every race.
RaceFair(w) ==
  []<>(\E p \in Procs : on[p] = w /\ pc[p] = "lock")
    => []<>(\E p \in Procs : on[p] = w /\ pc[p] = "turn")

Reaches(w, place) == []<>(\E p \in Procs : on[p] = w /\ pc[p] = place)

\* createPlan refuses the attempt whenever it is asked.
NeverPlanned(w) == Reaches(w, "decide") /\ ~Reaches(w, "persist")

\* A decision that is not a failure is applied again and again, and rolled back.
RolledBack(w) ==
  []<>(\E p \in Procs : on[p] = w /\ pc[p] = "apply" /\ draft[p].decision # Fail)

\* Every committed attempt is judged in the end, however often its processors
\* crashed or lost their leases before (Drain), unless its own plan is refused for
\* good or, as the oldest plan has the turn, a decision of its chunk is rolled back
\* for good.  Another attempt that cannot be planned holds up nobody.
AllJudged ==
  (\A w \in Works : RaceFair(w)) =>
    \A w \in Works :
      \/ <>(status[w] = "terminal")
      \/ NeverPlanned(w)
      \/ \E v \in Works : ChunkOf[v] = ChunkOf[w] /\ RolledBack(v)

\* Judging is atomic per chunk: AtomicVerdicts, with a verdict's basis read from
\* the plan it applied.
Atomic == INSTANCE AtomicVerdicts WITH
  basis <- [w \in Works |-> IF verdict[w] = None THEN {} ELSE plan[w].basis]

VerdictsAtomic == Atomic!Spec
=============================================================================
