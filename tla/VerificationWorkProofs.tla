----------------------- MODULE VerificationWorkProofs -----------------------
(* Verification of committed results for every number of attempts, chunks,    *)
(* processor runs and faults.                                                 *)
EXTENDS VerificationWork, TLAPS

\* The leaves are set and function reasoning; SMT is cited where one is not.
USE ZenonT(100)

\* What a run has in hand at each place.
LocalInv ==
  \A p \in Procs :
    /\ pc[p] # "idle" => on[p] \in Works
    /\ pc[p] \in {"seal", "pin", "load", "decide", "persist"} => seen[p].sampling \in Draws
    /\ pc[p] = "pin" => draft[p].artifact \in Sealed
    /\ pc[p] \in {"load", "decide", "persist"} => seen[p].artifact \in Sealed
    /\ pc[p] \in {"persist", "begin", "apply"} => draft[p].decision \in Decisions

\* The strings that stand for NULL are not values of the columns.
LEMMA Nulls ==
  /\ None \notin Sealed /\ None \notin Draws /\ None \notin Decisions
  /\ None \notin Procs /\ None \notin Works
  /\ \A x \in Plan : x.decision # None /\ x.artifact # None /\ x.sampling # None
  /\ NoPlan.decision = None
  BY WorkAssumption DEF Sealed, Plan, NoPlan, None, Oversized, Unavailable

LEMMA InitType == Init => TypeOK /\ LocalInv
  BY SMTT(20), WorkAssumption DEF Init, TypeOK, LocalInv, Copy, NoCopy, Draft, NoDraft, NoPlan, Places, Staged, None

USE DEF rowVars, pinVars, envVars, procVars, At, Goto

LEMMA TypeStep ==
  ASSUME TypeOK, LocalInv, [Next]_vars
  PROVE  TypeOK' /\ LocalInv'
  <1>1. ASSUME NEW p \in Procs, NEW w \in Works, Claim(p, w) PROVE TypeOK' /\ LocalInv'
    <2>1. attempts' \in [Works -> 0..UnavailableAfter]
      BY SMTT(20), <1>1, WorkAssumption DEF Claim, TypeOK
    <2>2. seen' \in [Procs -> Copy]
      BY SMTT(20), <1>1, <2>1 DEF Claim, TypeOK, Copy
    <2>3. TypeOK'
      BY <1>1, <2>1, <2>2 DEF Claim, TypeOK, Places
    <2>4. LocalInv'
      BY <1>1 DEF Claim, TypeOK, LocalInv
    <2> QED BY <2>3, <2>4
  <1>2. ASSUME NEW p \in Procs, LockChunk(p) PROVE TypeOK' /\ LocalInv'
    BY SMTT(20), <1>2 DEF LockChunk, TypeOK, LocalInv, Places, Chunk
  <1>3. ASSUME NEW p \in Procs, CheckTurn(p) PROVE TypeOK' /\ LocalInv'
    <2>1. TypeOK' BY <1>3 DEF CheckTurn, TypeOK, Places
    <2>2. LocalInv' BY <1>3 DEF CheckTurn, TypeOK, LocalInv, Copy
    <2> QED BY <2>1, <2>2
  <1>4. ASSUME NEW p \in Procs, NEW d \in Draws, PinSampling(p, d) PROVE TypeOK' /\ LocalInv'
    <2>1. TypeOK' BY <1>4 DEF PinSampling, TypeOK, Places
    <2>2. LocalInv' BY <1>4 DEF PinSampling, TypeOK, LocalInv
    <2> QED BY <2>1, <2>2
  <1>5. ASSUME NEW p \in Procs, Reread(p) PROVE TypeOK' /\ LocalInv'
    <2>1. on[p] \in Works BY <1>5 DEF Reread, LocalInv
    <2>2. draft[p].artifact \in Sealed \cup {None} BY DEF TypeOK, Draft
    <2>3. seen'[p] \in Copy /\ seen' = [seen EXCEPT ![p] = seen'[p]]
      BY SMTT(20), <1>5, <2>1, <2>2, WorkAssumption DEF Reread, TypeOK, Copy
    <2>4. TypeOK' BY <1>5, <2>3 DEF Reread, TypeOK, Places
    <2>5. LocalInv' BY <1>5, <2>1, <2>2 DEF Reread, TypeOK, LocalInv
    <2> QED BY <2>4, <2>5
  <1>6. ASSUME NEW p \in Procs, NEW torn \in BOOLEAN, Seal(p, torn) PROVE TypeOK' /\ LocalInv'
    <2>1. on[p] \in Works BY <1>6 DEF Seal, LocalInv
    <2>2. staged[on[p]] \in Staged BY <2>1 DEF TypeOK
    <2>3. seen[p] \in Copy BY DEF TypeOK
    <2>4. CASE seen[p].artifact # None
      <3>1. UNCHANGED <<rowVars, pinVars, envVars, lock, on, seen, draft, faults>> /\ Goto(p, "load")
        BY <1>6, <2>4 DEF Seal
      <3>2. TypeOK' BY <3>1 DEF TypeOK, Places
      <3>3. seen[p].artifact \in Sealed /\ seen[p].sampling \in Draws
        BY <1>6, <2>3, <2>4 DEF Copy, LocalInv, Seal
      <3>4. LocalInv' BY <2>1, <3>1, <3>3 DEF LocalInv, TypeOK
      <3> QED BY <3>2, <3>4
    <2>5. CASE Goto(p, "unlock") /\ UNCHANGED draft
      <3>1. TypeOK' BY <1>6, <2>5 DEF TypeOK, Places, Seal
      <3>2. LocalInv' BY <1>6, <2>1, <2>5 DEF LocalInv, TypeOK, Seal
      <3> QED BY <3>1, <3>2
    <2>6. CASE Goto(p, "pin") /\ seen[p].artifact = None
      <3>1. PICK s \in Sealed : draft' = [draft EXCEPT ![p] = [artifact |-> s, decision |-> None, basis |-> {}]]
        BY <1>6, <2>2, <2>6 DEF Seal, Staged, Sealed, TypeOK, Places
      <3>2. TypeOK' BY <1>6, <2>6, <3>1 DEF TypeOK, Places, Seal, Draft
      <3>3. LocalInv' BY <1>6, <2>1, <2>6, <3>1 DEF LocalInv, TypeOK, Seal
      <3> QED BY <3>2, <3>3
    <2> QED BY <1>6, <2>4, <2>5, <2>6 DEF Seal
  <1>7. ASSUME NEW p \in Procs, PinArtifact(p) PROVE TypeOK' /\ LocalInv'
    <2>1. TypeOK' BY <1>7 DEF PinArtifact, TypeOK, LocalInv, Places
    <2>2. LocalInv' BY <1>7 DEF PinArtifact, TypeOK, LocalInv
    <2> QED BY <2>1, <2>2
  <1>8. ASSUME NEW p \in Procs, LoadPlan(p) PROVE TypeOK' /\ LocalInv'
    <2>1. on[p] \in Works /\ seen[p].artifact \in Sealed /\ seen[p].sampling \in Draws
      BY <1>8 DEF LoadPlan, LocalInv
    <2>2. plan[on[p]] \in Plan \cup {NoPlan} BY <2>1 DEF TypeOK
    <2>3. CASE ~Planned(on[p])
      BY <1>8, <2>1, <2>3, SMTT(20) DEF LoadPlan, TypeOK, LocalInv, Places
    <2>4. CASE Planned(on[p])
      <3>1. plan[on[p]].decision \in Decisions /\ plan[on[p]].basis \subseteq Works
        BY SMTT(20), <2>2, <2>4 DEF Planned, Plan, NoPlan
      <3> DEFINE loaded == [artifact |-> seen[p].artifact, decision |-> plan[on[p]].decision,
                            basis |-> plan[on[p]].basis]
      <3>a. loaded \in Draft BY SMTT(20), <2>1, <3>1 DEF Draft
      <3>b. draft' = [draft EXCEPT ![p] = loaded] BY <1>8, <2>4 DEF LoadPlan
      <3> HIDE DEF loaded
      <3>2. draft' \in [Procs -> Draft] BY <3>a, <3>b DEF TypeOK
      <3>3. TypeOK' BY <1>8, <2>4, <3>2 DEF LoadPlan, TypeOK, Places
      <3>4. LocalInv' BY SMTT(20), <1>8, <2>1, <2>4, <3>1 DEF LoadPlan, TypeOK, LocalInv
      <3> QED BY <3>3, <3>4
    <2> QED BY <2>3, <2>4
  <1>9. ASSUME NEW p \in Procs, NEW d \in Decisions, Decide(p, d) PROVE TypeOK' /\ LocalInv'
    <2>1. Judged(Chunk(p)) \subseteq Works BY DEF Judged
    <2>2. seen[p].artifact \in Sealed BY <1>9 DEF Decide, LocalInv
    <2>3. \/ Goto(p, "unlock") /\ UNCHANGED draft
          \/ /\ Goto(p, "persist")
             /\ draft' = [draft EXCEPT ![p] = [artifact |-> seen[p].artifact, decision |-> d,
                                               basis |-> Judged(Chunk(p))]]
      BY <1>9 DEF Decide
    <2>4. CASE Goto(p, "unlock") /\ UNCHANGED draft
      BY <1>9, <2>4 DEF Decide, TypeOK, LocalInv, Places
    <2>5. CASE /\ Goto(p, "persist")
               /\ draft' = [draft EXCEPT ![p] = [artifact |-> seen[p].artifact, decision |-> d,
                                                 basis |-> Judged(Chunk(p))]]
      <3>1. draft' \in [Procs -> Draft] BY <2>1, <2>2, <2>5 DEF TypeOK, Draft
      <3>2. TypeOK' BY <1>9, <2>5, <3>1 DEF Decide, TypeOK, Places
      <3>3. LocalInv' BY <1>9, <2>5 DEF Decide, TypeOK, LocalInv
      <3> QED BY <3>2, <3>3
    <2> QED BY <2>3, <2>4, <2>5
  <1>10. ASSUME NEW p \in Procs, PersistPlan(p) PROVE TypeOK' /\ LocalInv'
    <2>1. /\ on[p] \in Works /\ seen[p].artifact \in Sealed /\ seen[p].sampling \in Draws
          /\ draft[p].decision \in Decisions
      BY <1>10 DEF PersistPlan, LocalInv
    <2>2. draft[p].basis \subseteq Works BY DEF TypeOK, Draft
    <2>3. plan' \in [Works -> Plan \cup {NoPlan}]
      BY <1>10, <2>1, <2>2 DEF PersistPlan, TypeOK, Plan
    <2>4. TypeOK' BY <1>10, <2>3 DEF PersistPlan, TypeOK, Places
    <2>5. LocalInv' BY <1>10, <2>1 DEF PersistPlan, TypeOK, LocalInv
    <2> QED BY <2>4, <2>5
  <1>11. ASSUME NEW p \in Procs, BeginApply(p) PROVE TypeOK' /\ LocalInv'
    BY <1>11 DEF BeginApply, TypeOK, LocalInv, Places
  <1>12. ASSUME NEW p \in Procs, Apply(p) PROVE TypeOK' /\ LocalInv'
    <2>1. on[p] \in Works /\ draft[p].decision \in Decisions BY <1>12 DEF Apply, LocalInv
    <2>a. applied' \in [Works -> Nat] BY SMTT(20), <1>12, <2>1 DEF Apply, TypeOK
    <2>b. verdict' \in [Works -> Decisions \cup {None}] BY <1>12, <2>1 DEF Apply, TypeOK
    <2>c. /\ status' \in [Works -> {"pending", "leased", "terminal"}]
          /\ holder' \in [Works -> Procs \cup {None}]
      BY <1>12, <2>1 DEF Apply, TypeOK
    <2>e. live' \in [Works -> BOOLEAN] /\ current' \in [Works -> BOOLEAN]
      BY <1>12, <2>1 DEF Apply, TypeOK
    <2>d. pc' \in [Procs -> Places] BY SMTT(20), <1>12 DEF Apply, TypeOK, Places
    <2>2. TypeOK' BY <1>12, <2>a, <2>b, <2>c, <2>d, <2>e DEF Apply, TypeOK
    <2>3. LocalInv' BY SMTT(20), <1>12, <2>1 DEF Apply, TypeOK, LocalInv
    <2> QED BY <2>2, <2>3
  <1>13. ASSUME NEW p \in Procs, Unlock(p) PROVE TypeOK' /\ LocalInv'
    BY <1>13 DEF Unlock, Unlocked, TypeOK, LocalInv, Places
  <1>14. ASSUME NEW p \in Procs, Ended(p), UNCHANGED <<pinVars, envVars, attempts>>,
                lock' = Unlocked(p) \/ lock' = lock, faults' \in 0..MaxFaults,
                status' \in [Works -> {"pending", "leased", "terminal"}],
                holder' \in [Works -> Procs \cup {None}], live' \in [Works -> BOOLEAN]
         PROVE  TypeOK' /\ LocalInv'
    <2>1. NoCopy \in Copy /\ NoDraft \in Draft BY DEF NoCopy, Copy, NoDraft, Draft
    <2>2. TypeOK' BY <1>14, <2>1 DEF Ended, Unlocked, TypeOK, Places
    <2>3. LocalInv' BY <1>14 DEF Ended, TypeOK, LocalInv
    <2> QED BY <2>2, <2>3
  <1>15. ASSUME NEW p \in Procs, Finish(p) PROVE TypeOK' /\ LocalInv'
    BY <1>14, <1>15 DEF Finish, TypeOK
  <1>16. ASSUME NEW p \in Procs, Release(p) PROVE TypeOK' /\ LocalInv'
    <2>1. /\ status' \in [Works -> {"pending", "leased", "terminal"}]
          /\ holder' \in [Works -> Procs \cup {None}] /\ live' \in [Works -> BOOLEAN]
      BY <1>16 DEF Release, TypeOK
    <2>2. faults' \in 0..MaxFaults BY <1>16 DEF Release, TypeOK
    <2> QED BY <1>14, <1>16, <2>1, <2>2 DEF Release
  <1>17. ASSUME NEW p \in Procs, Crash(p) PROVE TypeOK' /\ LocalInv'
    <2>1. faults' \in 0..MaxFaults BY SMTT(20), <1>17, WorkAssumption DEF Crash, TypeOK
    <2> QED BY <1>14, <1>17, <2>1 DEF Crash, TypeOK
  <1>18. ASSUME NEW p \in Procs, LoseHeartbeat(p) \/ StepError(p) PROVE TypeOK' /\ LocalInv'
    <2>1. faults' \in 0..MaxFaults
      BY SMTT(20), <1>18, WorkAssumption DEF LoseHeartbeat, StepError, TypeOK
    <2>2. TypeOK' BY SMTT(20), <1>18, <2>1 DEF LoseHeartbeat, StepError, TypeOK, Places
    <2>3. LocalInv' BY <1>18 DEF LoseHeartbeat, StepError, TypeOK, LocalInv, Locking
    <2> QED BY <2>2, <2>3
  <1>19. ASSUME NEW w \in Works, ExpireLease(w) \/ StallPastLease(w) \/ TaskMovesOn(w)
         PROVE  TypeOK' /\ LocalInv'
    <2>1. faults' \in 0..MaxFaults
      BY SMTT(20), <1>19, WorkAssumption DEF ExpireLease, StallPastLease, TaskMovesOn, TypeOK
    <2>2. TypeOK' BY <1>19, <2>1 DEF ExpireLease, StallPastLease, TaskMovesOn, TypeOK
    <2>3. LocalInv' BY <1>19 DEF ExpireLease, StallPastLease, TaskMovesOn, LocalInv
    <2> QED BY <2>2, <2>3
  <1>20. ASSUME NEW w \in Works, NEW s \in Staged, Restage(w, s) PROVE TypeOK' /\ LocalInv'
    BY SMTT(20), <1>20, WorkAssumption DEF Restage, TypeOK, LocalInv
  <1>21. ASSUME NEW c \in Chunks, LoseLock(c) PROVE TypeOK' /\ LocalInv'
    BY SMTT(20), <1>21, WorkAssumption DEF LoseLock, TypeOK, LocalInv
  <1>22. ASSUME UNCHANGED vars PROVE TypeOK' /\ LocalInv'
    BY <1>22 DEF vars, TypeOK, LocalInv
  <1> QED
    BY <1>1, <1>2, <1>3, <1>4, <1>5, <1>6, <1>7, <1>8, <1>9, <1>10, <1>11, <1>12, <1>13,
       <1>15, <1>16, <1>17, <1>18, <1>19, <1>20, <1>21, <1>22 DEF Next, Resume, Fault

-----------------------------------------------------------------------------
\* A step that leaves the pins, the plans and the verdicts alone, and closes or
\* reopens no row.
Quiet ==
  /\ UNCHANGED pinVars
  /\ \A w \in Works : (status'[w] = "terminal") <=> (status[w] = "terminal")

LEMMA QuietSteps ==
  ASSUME TypeOK, LocalInv, [Next]_vars
  PROVE  \/ Quiet
         \/ \E p \in Procs : \/ \E d \in Draws : PinSampling(p, d)
                             \/ PinArtifact(p)
                             \/ PersistPlan(p)
                             \/ Apply(p)
  <1>1. ASSUME NEW p \in Procs, NEW w \in Works, Claim(p, w) PROVE Quiet
    BY <1>1 DEF Claim, Quiet, TypeOK
  <1>2. ASSUME NEW p \in Procs, Release(p) PROVE Quiet
    BY SMTT(20), <1>2 DEF Release, Quiet, TypeOK, Held, HasToken, LocalInv
  <1>3. ASSUME NEW p \in Procs,
               \/ LockChunk(p) \/ CheckTurn(p) \/ Reread(p) \/ LoadPlan(p) \/ BeginApply(p)
               \/ Unlock(p) \/ Finish(p) \/ LoseHeartbeat(p) \/ StepError(p) \/ Crash(p)
               \/ (\E torn \in BOOLEAN : Seal(p, torn)) \/ (\E d \in Decisions : Decide(p, d))
        PROVE  Quiet
    BY <1>3 DEF LockChunk, CheckTurn, Reread, LoadPlan, BeginApply, Unlock, Finish,
                LoseHeartbeat, StepError, Crash, Seal, Decide, Quiet
  <1>4. ASSUME \/ \E w \in Works : ExpireLease(w) \/ StallPastLease(w) \/ TaskMovesOn(w)
               \/ \E w \in Works, s \in Staged : Restage(w, s)
               \/ \E c \in Chunks : LoseLock(c)
               \/ UNCHANGED vars
        PROVE  Quiet
    BY <1>4 DEF ExpireLease, StallPastLease, TaskMovesOn, Restage, LoseLock, vars, Quiet
  <1> QED BY <1>1, <1>2, <1>3, <1>4 DEF Next, Resume, Fault

\* A stored plan has the values of its columns.
LEMMA PlanTyped ==
  ASSUME TypeOK, NEW w \in Works, Planned(w)
  PROVE  plan[w].decision # None /\ plan[w].artifact # None /\ plan[w].sampling # None
  BY Nulls DEF TypeOK, Planned

LEMMA VerdictStep ==
  ASSUME TypeOK, LocalInv, VerdictIsPlan, [Next]_vars
  PROVE  VerdictIsPlan'
  <1>1. CASE Quiet
    BY <1>1 DEF Quiet, VerdictIsPlan
  <1>2. ASSUME NEW p \in Procs, NEW d \in Draws, PinSampling(p, d) PROVE VerdictIsPlan'
    <2>1. ASSUME NEW w \in Works, verdict[w] # None PROVE sampling'[w] = sampling[w]
      <3>1. status[w] = "terminal" BY <2>1 DEF VerdictIsPlan
      <3> QED BY <1>2, <3>1 DEF PinSampling, Held, HasToken, TypeOK
    <2> QED BY <1>2, <2>1 DEF PinSampling, VerdictIsPlan
  <1>3. ASSUME NEW p \in Procs, PinArtifact(p) PROVE VerdictIsPlan'
    <2>1. ASSUME NEW w \in Works, verdict[w] # None PROVE artifact'[w] = artifact[w]
      <3>1. status[w] = "terminal" BY <2>1 DEF VerdictIsPlan
      <3> QED BY <1>3, <3>1 DEF PinArtifact, Held, HasToken, TypeOK
    <2> QED BY <1>3, <2>1 DEF PinArtifact, VerdictIsPlan
  <1>4. ASSUME NEW p \in Procs, PersistPlan(p) PROVE VerdictIsPlan'
    <2>1. ASSUME NEW w \in Works, verdict[w] # None PROVE plan'[w] = plan[w]
      <3>1. status[w] = "terminal" BY <2>1 DEF VerdictIsPlan
      <3> QED BY <1>4, <3>1 DEF PersistPlan, Held, HasToken, TypeOK
    <2>2. UNCHANGED <<status, verdict, applied, artifact, sampling>> BY <1>4 DEF PersistPlan, rowVars
    <2> QED BY <2>1, <2>2 DEF VerdictIsPlan
  <1>5. ASSUME NEW p \in Procs, Apply(p) PROVE VerdictIsPlan'
    <2>1. on[p] \in Works /\ draft[p].decision \in Decisions BY <1>5 DEF Apply, LocalInv
    <2>2. draft[p].decision # None BY <2>1, Nulls
    <2>3. CASE UNCHANGED <<verdict, applied, status>>
      BY <1>5, <2>3 DEF Apply, VerdictIsPlan
    <2>4. CASE ~UNCHANGED <<verdict, applied, status>>
      <3>1. /\ HasToken(p)
            /\ plan[on[p]].decision = draft[p].decision
            /\ artifact[on[p]] = plan[on[p]].artifact
            /\ sampling[on[p]] = plan[on[p]].sampling
            /\ verdict' = [verdict EXCEPT ![on[p]] = draft[p].decision]
            /\ applied' = [applied EXCEPT ![on[p]] = applied[on[p]] + 1]
            /\ status' = [status EXCEPT ![on[p]] = "terminal"]
            /\ UNCHANGED <<sampling, artifact, plan>>
        BY <1>5, <2>4 DEF Apply
      <3>2. verdict[on[p]] = None /\ applied[on[p]] = 0
        BY <2>1, <3>1 DEF HasToken, VerdictIsPlan
      <3> QED BY SMTT(20), <2>1, <2>2, <3>1, <3>2 DEF VerdictIsPlan, TypeOK
    <2> QED BY <2>3, <2>4
  <1> QED BY <1>1, <1>2, <1>3, <1>4, <1>5, QuietSteps

LEMMA PinStep ==
  ASSUME TypeOK, LocalInv, [Next]_vars, NEW w \in Works
  PROVE  /\ sampling[w] # None => sampling'[w] = sampling[w]
         /\ artifact[w] # None => artifact'[w] = artifact[w]
         /\ Planned(w) => plan'[w] = plan[w]
  <1>1. CASE Quiet BY <1>1 DEF Quiet
  <1>2. CASE \E p \in Procs, d \in Draws : PinSampling(p, d)
    BY <1>2 DEF PinSampling, TypeOK
  <1>3. CASE \E p \in Procs : PinArtifact(p)
    BY <1>3 DEF PinArtifact, TypeOK
  <1>4. CASE \E p \in Procs : PersistPlan(p)
    BY SMTT(20), <1>4 DEF PersistPlan, TypeOK
  <1>5. CASE \E p \in Procs : Apply(p)
    BY <1>5 DEF Apply
  <1> QED BY <1>1, <1>2, <1>3, <1>4, <1>5, QuietSteps

-----------------------------------------------------------------------------
\* The chunk's advisory lock, and what it protects while no session is lost.
Inside == Locking \cup {"unlock", "finish"}

PastTurn == Locking \ {"turn"}

Unfinished(v) == Planned(v) /\ status[v] # "terminal"

LockHeld == \A p \in Procs : pc[p] \in Inside => lock[Chunk(p)] = p

OneUnfinished ==
  \A v, w \in Works :
    (v # w /\ ChunkOf[v] = ChunkOf[w] /\ Unfinished(v)) => ~Unfinished(w)

AloneInChunk ==
  \A p \in Procs : pc[p] \in PastTurn =>
    \A v \in Works \ {on[p]} : ChunkOf[v] = Chunk(p) => ~Unfinished(v)

DraftFresh ==
  \A p \in Procs : pc[p] = "persist" => draft[p].basis = Judged(Chunk(p))

LEMMA LockStep ==
  ASSUME ~LockLoss, TypeOK, LocalInv, LockHeld, [Next]_vars
  PROVE  LockHeld'
  <1> USE DEF LockHeld, Inside, Locking, Chunk
  <1>1. ASSUME NEW p \in Procs, NEW w \in Works, Claim(p, w) PROVE LockHeld'
    BY <1>1 DEF Claim, TypeOK
  <1>2. ASSUME NEW p \in Procs, LockChunk(p) PROVE LockHeld'
    <2>1. on[p] \in Works /\ ChunkOf[on[p]] \in Chunks
      BY <1>2, WorkAssumption DEF LockChunk, LocalInv
    <2>2. CASE lock[ChunkOf[on[p]]] = None
      <3> SUFFICES ASSUME NEW q \in Procs, pc'[q] \in Inside PROVE lock'[ChunkOf[on'[q]]] = q
        OBVIOUS
      <3>1. /\ lock' = [lock EXCEPT ![ChunkOf[on[p]]] = p]
            /\ pc' = [pc EXCEPT ![p] = "turn"] /\ on' = on
        BY <1>2, <2>2 DEF LockChunk
      <3>2. CASE q = p BY <2>1, <3>1, <3>2 DEF TypeOK
      <3>3. CASE q # p
        <4>1. lock[ChunkOf[on[q]]] = q BY <3>1, <3>3 DEF TypeOK
        <4>2. ChunkOf[on[q]] # ChunkOf[on[p]] BY <2>2, <4>1, Nulls
        <4> QED BY SMTT(20), <3>1, <4>1, <4>2 DEF TypeOK
      <3> QED BY <3>2, <3>3
    <2>3. CASE lock[ChunkOf[on[p]]] # None
      BY <1>2, <2>3 DEF LockChunk, TypeOK
    <2> QED BY <2>2, <2>3
  <1>3. ASSUME NEW p \in Procs, pc[p] \in Locking, UNCHANGED <<lock, on>>,
               NEW x \in Inside, pc' = [pc EXCEPT ![p] = x]
        PROVE  LockHeld'
    BY <1>3 DEF TypeOK
  <1>4. ASSUME NEW p \in Procs,
               \/ CheckTurn(p) \/ (\E d \in Draws : PinSampling(p, d)) \/ Reread(p)
               \/ (\E torn \in BOOLEAN : Seal(p, torn)) \/ PinArtifact(p) \/ LoadPlan(p)
               \/ (\E d \in Decisions : Decide(p, d)) \/ PersistPlan(p) \/ BeginApply(p)
               \/ Apply(p) \/ LoseHeartbeat(p) \/ StepError(p)
        PROVE  LockHeld'
    <2>1. pc[p] \in Locking /\ UNCHANGED <<lock, on>>
      BY <1>4 DEF CheckTurn, PinSampling, Reread, Seal, PinArtifact, LoadPlan, Decide,
                  PersistPlan, BeginApply, Apply, LoseHeartbeat, StepError
    <2>2. \E x \in Inside : pc' = [pc EXCEPT ![p] = x]
      BY <1>4 DEF CheckTurn, PinSampling, Reread, Seal, PinArtifact, LoadPlan, Decide,
                  PersistPlan, BeginApply, Apply, LoseHeartbeat, StepError
    <2> QED BY <1>3, <2>1, <2>2
  <1>5. ASSUME NEW p \in Procs, lock' = Unlocked(p), NEW x \in {"idle", "release"},
               pc' = [pc EXCEPT ![p] = x], on' = on \/ on' = [on EXCEPT ![p] = None]
        PROVE  LockHeld'
    <2> SUFFICES ASSUME NEW q \in Procs, pc'[q] \in Inside PROVE lock'[ChunkOf[on'[q]]] = q
      OBVIOUS
    <2>1. q # p /\ pc[q] \in Inside /\ on'[q] = on[q] BY <1>5 DEF TypeOK
    <2>2. lock[ChunkOf[on[q]]] = q BY <2>1
    <2> QED BY SMTT(20), <1>5, <2>1, <2>2 DEF Unlocked, TypeOK
  <1>6. ASSUME NEW p \in Procs, Unlock(p) \/ Finish(p) \/ Crash(p) PROVE LockHeld'
    BY <1>5, <1>6 DEF Unlock, Finish, Crash, Ended
  <1>7. ASSUME NEW p \in Procs, Release(p) PROVE LockHeld'
    BY <1>7 DEF Release, Ended, TypeOK
  <1>8. ASSUME \/ \E w \in Works : ExpireLease(w) \/ StallPastLease(w) \/ TaskMovesOn(w)
               \/ \E w \in Works, s \in Staged : Restage(w, s)
               \/ UNCHANGED vars
        PROVE  LockHeld'
    BY <1>8 DEF ExpireLease, StallPastLease, TaskMovesOn, Restage, vars
  <1>9. ASSUME NEW c \in Chunks, LoseLock(c) PROVE LockHeld'
    BY <1>9 DEF LoseLock
  <1> QED BY <1>1, <1>2, <1>4, <1>6, <1>7, <1>8, <1>9 DEF Next, Resume, Fault

\* Who else is inside works on another chunk.
LEMMA OtherChunk ==
  ASSUME LockHeld, NEW p \in Procs, NEW q \in Procs, p # q,
         pc[p] \in Inside, pc[q] \in Inside
  PROVE  Chunk(p) # Chunk(q)
  BY DEF LockHeld

\* A step that stores no plan and no verdict.
Calm ==
  /\ UNCHANGED <<plan, verdict>>
  /\ \A w \in Works : (status'[w] = "terminal") <=> (status[w] = "terminal")

\* ... taken by run p: the places past the turn check are entered by CheckTurn
\* only, and "persist" with a basis just read.
Walk(p) ==
  /\ \A q \in Procs \ {p} : pc'[q] = pc[q] /\ on'[q] = on[q] /\ draft'[q] = draft[q]
  /\ pc'[p] \in PastTurn => pc[p] \in Locking /\ on'[p] = on[p]
  /\ (pc'[p] \in PastTurn /\ pc[p] = "turn") => OwnsTurn(on[p])
  /\ pc'[p] = "persist" => draft'[p].basis = Judged(Chunk(p))

LEMMA WalkSteps ==
  ASSUME TypeOK, LocalInv, [Next]_vars
  PROVE  \/ Calm /\ UNCHANGED <<pc, on, draft>>
         \/ Calm /\ \E p \in Procs : Walk(p)
         \/ \E p \in Procs : PersistPlan(p) \/ Apply(p)
  <1> USE DEF Walk, PastTurn, Locking
  <1>1. ASSUME NEW p \in Procs, ~PersistPlan(p), ~Apply(p),
               Resume(p) \/ LoseHeartbeat(p) \/ StepError(p) \/ Crash(p)
                         \/ \E w \in Works : Claim(p, w)
        PROVE  Walk(p)
    <2>1. ASSUME NEW x, pc' = [pc EXCEPT ![p] = x], x \notin PastTurn,
                 \A q \in Procs \ {p} : on'[q] = on[q] /\ draft'[q] = draft[q]
          PROVE  Walk(p)
      BY <2>1 DEF TypeOK
    <2>2. CASE \E w \in Works : Claim(p, w) BY <2>1, <2>2 DEF Claim, TypeOK
    <2>3. CASE LockChunk(p) BY <2>1, <2>3 DEF LockChunk
    <2>4. CASE CheckTurn(p) BY <2>4 DEF CheckTurn, TypeOK
    <2>5. CASE \E d \in Draws : PinSampling(p, d) BY <2>5 DEF PinSampling, TypeOK
    <2>6. CASE Reread(p) BY <2>6 DEF Reread, TypeOK
    <2>7. CASE \E torn \in BOOLEAN : Seal(p, torn) BY <2>7 DEF Seal, TypeOK
    <2>8. CASE PinArtifact(p) BY <2>8 DEF PinArtifact, TypeOK
    <2>9. CASE LoadPlan(p) BY <2>9 DEF LoadPlan, TypeOK
    <2>10. CASE \E d \in Decisions : Decide(p, d)
      <3>1. CASE Goto(p, "unlock") /\ UNCHANGED draft BY <2>1, <2>10, <3>1 DEF Decide
      <3>2. CASE Goto(p, "persist")
        <4>1. pc'[p] # "unlock" BY <3>2 DEF TypeOK
        <4>2. ~Goto(p, "unlock") BY <4>1 DEF TypeOK
        <4>a. PICK d \in Decisions : draft' = [draft EXCEPT ![p] =
                   [artifact |-> seen[p].artifact, decision |-> d, basis |-> Judged(Chunk(p))]]
          BY <2>10, <4>2 DEF Decide
        <4>3. draft'[p].basis = Judged(Chunk(p)) BY <4>a, SMTT(20) DEF TypeOK
        <4> QED BY <2>10, <3>2, <4>2, <4>3 DEF Decide, TypeOK
      <3> QED BY <2>10, <3>1, <3>2 DEF Decide
    <2>11. CASE BeginApply(p) BY <2>11 DEF BeginApply, TypeOK
    <2>12. CASE Unlock(p) \/ LoseHeartbeat(p) \/ StepError(p)
      BY <2>1, <2>12 DEF Unlock, LoseHeartbeat, StepError
    <2>13. CASE Finish(p) \/ Release(p) \/ Crash(p)
      <3>1. Ended(p) BY <2>13 DEF Finish, Release, Crash
      <3> QED BY <2>1, <3>1 DEF Ended, TypeOK
    <2> QED BY <1>1, <2>2, <2>3, <2>4, <2>5, <2>6, <2>7, <2>8, <2>9, <2>10, <2>11, <2>12, <2>13
            DEF Resume
  <1>2. ASSUME \/ \E w \in Works : ExpireLease(w) \/ StallPastLease(w) \/ TaskMovesOn(w)
               \/ \E w \in Works, s \in Staged : Restage(w, s)
               \/ \E c \in Chunks : LoseLock(c)
               \/ UNCHANGED vars
        PROVE  UNCHANGED <<pc, on, draft>>
    BY <1>2 DEF ExpireLease, StallPastLease, TaskMovesOn, Restage, LoseLock, vars
  <1>3. ASSUME NEW p \in Procs, ~PersistPlan(p), ~Apply(p), 
               PinArtifact(p) \/ \E d \in Draws : PinSampling(p, d)
        PROVE  Calm
    BY <1>3 DEF Calm, PinArtifact, PinSampling
  <1>4. Quiet => Calm BY DEF Quiet, Calm
  <1>5. Calm \/ \E p \in Procs : PersistPlan(p) \/ Apply(p)
    BY <1>3, <1>4, QuietSteps
  <1> QED BY <1>1, <1>2, <1>5 DEF Next, Fault

ChunkInv == OneUnfinished /\ AloneInChunk /\ DraftFresh /\ PlanNotStale

LEMMA CalmStep ==
  ASSUME TypeOK, LocalInv, LockHeld, ChunkInv, Calm,
         UNCHANGED <<pc, on, draft>> \/ \E p \in Procs : Walk(p)
  PROVE  ChunkInv'
  <1>1. \A v \in Works : Unfinished(v)' <=> Unfinished(v)
    BY DEF Calm, Unfinished, Planned
  <1>2. \A c : Judged(c)' = Judged(c) BY DEF Calm, Judged
  <1>3. OneUnfinished' BY <1>1 DEF ChunkInv, OneUnfinished
  <1>4. PlanNotStale'
    BY <1>1, <1>2 DEF ChunkInv, PlanNotStale, Calm, Unfinished
  <1>5. CASE UNCHANGED <<pc, on, draft>>
    BY <1>1, <1>2, <1>3, <1>4, <1>5 DEF ChunkInv, AloneInChunk, DraftFresh, Chunk
  <1>6. ASSUME NEW p \in Procs, Walk(p) PROVE AloneInChunk' /\ DraftFresh'
    <2>1. ASSUME NEW q \in Procs, pc'[q] \in PastTurn, NEW v \in Works \ {on'[q]},
                 ChunkOf[v] = Chunk(q)'
          PROVE  ~Unfinished(v)
      <3>1. on'[q] = on[q] BY <1>6, <2>1 DEF Walk
      <3>2. CASE pc[q] \in PastTurn
        BY <2>1, <3>1, <3>2 DEF ChunkInv, AloneInChunk, Chunk
      <3>3. CASE pc[q] \notin PastTurn
        <4>1. q = p /\ pc[p] = "turn" BY <1>6, <2>1, <3>3 DEF Walk, PastTurn
        <4>2. OwnsTurn(on[p]) BY <1>6, <2>1, <4>1 DEF Walk
        <4>3. on[p] \in Works BY <4>1 DEF LocalInv
        <4>4. Unfinished(v) => Unfinished(on[p])
          BY <2>1, <3>1, <4>1, <4>2 DEF OwnsTurn, Unfinished, Chunk
        <4> QED BY <2>1, <3>1, <4>1, <4>3, <4>4 DEF ChunkInv, OneUnfinished, Chunk
      <3> QED BY <3>2, <3>3
    <2>2. AloneInChunk' BY <1>1, <2>1 DEF AloneInChunk
    <2>3. ASSUME NEW q \in Procs, pc'[q] = "persist" PROVE draft'[q].basis = Judged(Chunk(q)')
      <3>1. on'[q] = on[q] BY <1>6, <2>3 DEF Walk, PastTurn, Locking
      <3>2. CASE q = p BY <1>6, <2>3, <3>1, <3>2 DEF Walk, Chunk
      <3>3. CASE q # p BY <1>6, <2>3, <3>1, <3>3 DEF Walk, ChunkInv, DraftFresh, Chunk
      <3> QED BY <3>2, <3>3
    <2>4. DraftFresh' BY <1>2, <2>3 DEF DraftFresh
    <2> QED BY <2>2, <2>4
  <1> QED BY <1>3, <1>4, <1>5, <1>6 DEF ChunkInv

LEMMA PersistStep ==
  ASSUME TypeOK, LocalInv, LockHeld, ChunkInv, NEW p \in Procs, PersistPlan(p)
  PROVE  ChunkInv'
  <1> DEFINE w == on[p]
  <1>1. w \in Works /\ pc[p] = "persist" BY DEF PersistPlan, LocalInv
  <1>2. UNCHANGED <<status, verdict, on, draft>> BY DEF PersistPlan
  <1>3. \A q \in Procs \ {p} : pc'[q] = pc[q] BY DEF PersistPlan, TypeOK
  <1>4. pc'[p] \in {"begin", "unlock"} BY DEF PersistPlan, TypeOK
  <1>5. CASE plan' = plan
    <2>1. Calm BY <1>2, <1>5 DEF Calm
    <2>2. Walk(p) BY <1>1, <1>2, <1>3, <1>4 DEF Walk, PastTurn, Locking
    <2> QED BY <2>1, <2>2, CalmStep
  <1>6. CASE plan' # plan
    <2> DEFINE entry == [decision |-> draft[p].decision, artifact |-> artifact[w],
                         sampling |-> seen[p].sampling, basis |-> draft[p].basis,
                         older |-> {v \in Works : Planned(v)}]
    <2>0. plan' = [plan EXCEPT ![w] = entry] BY <1>6 DEF PersistPlan
    <2>1. plan'[w].basis = draft[p].basis BY <1>1, <2>0 DEF TypeOK
    <2>2. \A v \in Works \ {w} : plan'[v] = plan[v] BY <2>0 DEF TypeOK
    <2>3. plan'[w].basis = Judged(ChunkOf[w])
      BY <1>1, <2>1 DEF TypeOK, ChunkInv, DraftFresh, Chunk
    <2>4. \A v \in Works \ {w} : Unfinished(v)' <=> Unfinished(v)
      BY <1>2, <2>2 DEF Unfinished, Planned
    <2>5. \A c : Judged(c)' = Judged(c) BY <1>2 DEF Judged
    <2>6. \A v \in Works \ {w} : ChunkOf[v] = ChunkOf[w] => ~Unfinished(v)
      BY <1>1 DEF ChunkInv, AloneInChunk, PastTurn, Locking, Chunk
    <2>7. OneUnfinished'
      BY <2>4, <2>6 DEF ChunkInv, OneUnfinished
    <2>8. ASSUME NEW q \in Procs \ {p}, pc[q] \in PastTurn PROVE ChunkOf[on[q]] # ChunkOf[w]
      BY <1>1, <2>8, OtherChunk DEF Inside, PastTurn, Locking, Chunk
    <2>9. AloneInChunk'
      <3> SUFFICES ASSUME NEW q \in Procs, pc'[q] \in PastTurn, NEW v \in Works \ {on[q]},
                          ChunkOf[v] = ChunkOf[on[q]]
                   PROVE  ~Unfinished(v)'
        BY <1>2 DEF AloneInChunk, Chunk
      <3>1. CASE q = p BY <2>4, <2>6, <3>1
      <3>2. CASE q # p
        <4>1. pc[q] \in PastTurn BY <1>3, <3>2
        <4>2. v # w BY <2>8, <3>2, <4>1
        <4>3. ~Unfinished(v) BY <4>1 DEF ChunkInv, AloneInChunk, Chunk
        <4> QED BY <2>4, <4>2, <4>3
      <3> QED BY <3>1, <3>2
    <2>10. DraftFresh'
      BY <1>2, <1>3, <1>4, <2>5 DEF ChunkInv, DraftFresh, Chunk
    <2>11. PlanNotStale'
      <3> SUFFICES ASSUME NEW v \in Works, Unfinished(v)' PROVE plan'[v].basis = Judged(ChunkOf[v])'
        BY DEF PlanNotStale, Unfinished
      <3>1. CASE v = w BY <2>3, <2>5, <3>1
      <3>2. CASE v # w
        BY <2>2, <2>4, <2>5, <3>2 DEF ChunkInv, PlanNotStale, Unfinished
      <3> QED BY <3>1, <3>2
    <2> QED BY <2>7, <2>9, <2>10, <2>11 DEF ChunkInv
  <1> QED BY <1>5, <1>6

\* A successful VerifyJobTx.
Commit(p) ==
  /\ pc[p] = "apply"
  /\ status[on[p]] = "leased"
  /\ plan[on[p]].decision = draft[p].decision
  /\ verdict' = [verdict EXCEPT ![on[p]] = draft[p].decision]
  /\ status' = [status EXCEPT ![on[p]] = "terminal"]
  /\ pc' = [pc EXCEPT ![p] = "finish"]
  /\ UNCHANGED <<plan, on, draft>>

LEMMA ApplyCases ==
  ASSUME TypeOK, LocalInv, NEW p \in Procs, Apply(p)
  PROVE  Commit(p) \/ (Calm /\ Walk(p))
  <1>1. CASE ~Commit(p)
    <2>1. UNCHANGED <<verdict, status, plan, on, draft>> /\ pc[p] = "apply"
      BY <1>1 DEF Apply, Commit, HasToken
    <2>2. /\ \A q \in Procs \ {p} : pc'[q] = pc[q]
          /\ pc'[p] \in {"finish", "unlock"}
      BY DEF Apply, TypeOK
    <2> QED BY <2>1, <2>2 DEF Calm, Walk, PastTurn, Locking
  <1> QED BY <1>1

LEMMA CommitStep ==
  ASSUME TypeOK, LocalInv, LockHeld, ChunkInv, NEW p \in Procs, Commit(p)
  PROVE  ChunkInv'
  <1> DEFINE w == on[p]
  <1>1. w \in Works BY DEF Commit, LocalInv
  <1>2. /\ \A v \in Works \ {w} : verdict'[v] = verdict[v] /\ status'[v] = status[v]
        /\ status'[w] = "terminal"
    BY <1>1 DEF Commit, TypeOK
  <1>3. \A q \in Procs : pc'[q] \in PastTurn => q # p /\ pc[q] = pc'[q]
    BY DEF Commit, TypeOK, PastTurn, Locking
  <1>4. \A v \in Works : Unfinished(v)' => (v # w /\ Unfinished(v))
    BY <1>2 DEF Unfinished, Planned, Commit
  <1>5. \A c : c # ChunkOf[w] => Judged(c)' = Judged(c)
    BY <1>2 DEF Judged
  <1>6. OneUnfinished' BY <1>4 DEF ChunkInv, OneUnfinished
  <1>7. AloneInChunk'
    BY <1>3, <1>4 DEF ChunkInv, AloneInChunk, Commit, Chunk
  <1>8. DraftFresh'
    <2> SUFFICES ASSUME NEW q \in Procs, pc'[q] = "persist"
                 PROVE  draft'[q].basis = Judged(ChunkOf[on[q]])'
      BY DEF DraftFresh, Chunk, Commit
    <2>1. q # p /\ pc[q] = "persist" BY <1>3 DEF PastTurn, Locking
    <2>2. ChunkOf[on[q]] # ChunkOf[w]
      BY <2>1, OtherChunk DEF Commit, Inside, Locking, Chunk
    <2> QED BY <1>5, <2>1, <2>2 DEF ChunkInv, DraftFresh, Commit, Chunk
  <1>9. PlanNotStale'
    <2> SUFFICES ASSUME NEW v \in Works, Unfinished(v)' PROVE plan'[v].basis = Judged(ChunkOf[v])'
      BY DEF PlanNotStale, Unfinished
    <2>1. v # w /\ Unfinished(v) BY <1>4
    <2>2. ChunkOf[v] # ChunkOf[w]
      BY <2>1 DEF ChunkInv, AloneInChunk, PastTurn, Locking, Commit, Chunk
    <2> QED BY <1>5, <2>1, <2>2 DEF ChunkInv, PlanNotStale, Unfinished, Commit
  <1> QED BY <1>6, <1>7, <1>8, <1>9 DEF ChunkInv

LEMMA ChunkStep ==
  ASSUME TypeOK, LocalInv, LockHeld, ChunkInv, [Next]_vars
  PROVE  ChunkInv'
  BY WalkSteps, CalmStep, PersistStep, ApplyCases, CommitStep

-----------------------------------------------------------------------------
\* Type correctness: the columns, the runs' copies and their places keep their
\* types through every claim, step, error, crash and resumption.
THEOREM WorkTyped == Spec => []TypeOK
  <1>1. Spec => [](TypeOK /\ LocalInv)
    BY InitType, TypeStep, PTL DEF Spec
  <1> QED BY <1>1, PTL

\* A verdict is exactly its row's persisted plan over the pinned artifact and
\* draw, and its effects were committed once, for every number of processor
\* runs, crashes, stalls, lost leases and lost locks.
THEOREM VerdictsArePlans == Spec => []VerdictIsPlan
  <1>1. Init => VerdictIsPlan
    BY SMTT(20) DEF Init, VerdictIsPlan, None
  <1> QED BY <1>1, InitType, TypeStep, VerdictStep, PTL DEF Spec

\* The first draw, the first sealed body and the first plan of an attempt are
\* never replaced.
THEOREM PinsStand == Spec => [][PinsHold]_vars
  <1>1. ASSUME TypeOK, LocalInv, [Next]_vars
        PROVE  [\A w \in Works :
                  /\ sampling[w] # None => sampling'[w] = sampling[w]
                  /\ artifact[w] # None => artifact'[w] = artifact[w]
                  /\ Planned(w) => plan'[w] = plan[w]]_vars
    BY <1>1, PinStep
  <1> QED BY <1>1, InitType, TypeStep, PTL DEF Spec, PinsHold

-----------------------------------------------------------------------------
\* Evidence of a bad object.  The copy a run works from may be older than its row,
\* but attempts only grow: what the copy shows of them still holds.
Exhausted(w) == attempts[w] >= UnavailableAfter

GaveUp(p) == seen[p].attempts >= UnavailableAfter

Bad(object) == object \in {Oversized, Unavailable}

RunKnows(p) ==
  /\ pc[p] # "idle" /\ GaveUp(p) => Exhausted(on[p])
  /\ pc[p] = "pin" /\ draft[p].artifact = Unavailable => Exhausted(on[p])
  /\ pc[p] = "persist" /\ Bad(seen[p].artifact) => draft[p].decision = Fail

RunEvidence == \A p \in Procs : RunKnows(p)

RowEvidence ==
  \A w \in Works :
    /\ artifact[w] = Unavailable => Exhausted(w)
    /\ Planned(w) => artifact[w] # None
    /\ Planned(w) /\ Bad(artifact[w]) => plan[w].decision = Fail

LEMMA AttemptsGrow ==
  ASSUME TypeOK, [Next]_vars, NEW w \in Works, Exhausted(w)
  PROVE  Exhausted(w)'
  <1>1. CASE UNCHANGED attempts BY <1>1 DEF Exhausted
  <1>2. ASSUME NEW p \in Procs, NEW v \in Works, Claim(p, v) PROVE Exhausted(w)'
    BY SMTT(20), <1>2, WorkAssumption DEF Claim, Exhausted, TypeOK
  <1>3. ASSUME Fault \/ (\E p \in Procs : Resume(p)) \/ UNCHANGED vars PROVE UNCHANGED attempts
    BY <1>3 DEF Resume, Fault, vars, LockChunk, CheckTurn, PinSampling, Reread, Seal,
       PinArtifact, LoadPlan, Decide, PersistPlan, BeginApply, Apply, Unlock, Finish, Release,
       LoseHeartbeat, StepError, Crash, ExpireLease, StallPastLease, TaskMovesOn, Restage, LoseLock
  <1> QED BY <1>1, <1>2, <1>3 DEF Next

\* A run that keeps its copy and its draft keeps what they show.
LEMMA KnowsOn ==
  ASSUME TypeOK, LocalInv, [Next]_vars, NEW p \in Procs, RunKnows(p),
         on'[p] = on[p], seen'[p] = seen[p], draft'[p] = draft[p],
         \/ pc'[p] = pc[p]
         \/ pc[p] # "idle" /\ pc'[p] \notin {"pin", "persist"}
  PROVE  RunKnows(p)'
  <1>1. pc[p] # "idle" => on[p] \in Works BY DEF LocalInv
  <1>2. ASSUME NEW w \in Works, Exhausted(w) PROVE Exhausted(w)' BY <1>2, AttemptsGrow
  <1>3. pc[p] # "idle" /\ Exhausted(on[p]) => Exhausted(on[p])' BY <1>1, <1>2 DEF Exhausted
  <1>4. GaveUp(p)' => GaveUp(p) BY DEF GaveUp
  <1> HIDE DEF Exhausted, GaveUp, Bad
  <1>5. pc[p] # "idle" /\ Exhausted(on[p]) => attempts'[on'[p]] >= UnavailableAfter
    BY <1>3 DEF Exhausted
  <1>6. pc[p] = "idle" => pc'[p] = "idle" OBVIOUS
  <1>7. pc'[p] # "idle" /\ GaveUp(p)' => attempts'[on'[p]] >= UnavailableAfter
    BY <1>4, <1>5, <1>6 DEF RunKnows
  <1>8. pc'[p] = "pin" => pc[p] = "pin" OBVIOUS
  <1>9. pc'[p] = "persist" => pc[p] = "persist" OBVIOUS
  <1>10. pc'[p] = "pin" /\ draft'[p].artifact = Unavailable => attempts'[on'[p]] >= UnavailableAfter
    BY <1>5, <1>8 DEF RunKnows
  <1>11. pc'[p] = "persist" /\ Bad(seen'[p].artifact) => draft'[p].decision = Fail
    BY <1>9 DEF RunKnows
  <1> QED BY <1>7, <1>10, <1>11 DEF RunKnows, Exhausted, Bad

\* What the runs know of their objects stays true.
LEMMA RunEvidenceStep ==
  ASSUME TypeOK, LocalInv, RunEvidence, [Next]_vars
  PROVE  RunEvidence'
  <1>a. ASSUME NEW p \in Procs, on'[p] = on[p], seen'[p] = seen[p], draft'[p] = draft[p],
               \/ pc'[p] = pc[p]
               \/ pc[p] # "idle" /\ pc'[p] \notin {"pin", "persist"}
        PROVE  RunKnows(p)'
    BY <1>a, KnowsOn DEF RunEvidence
  <1>b. ASSUME NEW w \in Works, Exhausted(w) PROVE Exhausted(w)' BY <1>b, AttemptsGrow
  \* Every action moves one run, or none.
  <1>c. ASSUME NEW p \in Procs, \A q \in Procs \ {p} : /\ on'[q] = on[q] /\ seen'[q] = seen[q]
                                                      /\ draft'[q] = draft[q] /\ pc'[q] = pc[q],
               RunKnows(p)'
        PROVE  RunEvidence'
    <2>1. ASSUME NEW q \in Procs PROVE RunKnows(q)'
      <3>1. CASE q = p BY <1>c, <3>1
      <3>2. CASE q # p BY <1>a, <1>c, <3>2
      <3> QED BY <3>1, <3>2
    <2> QED BY <2>1 DEF RunEvidence
  <1>1. ASSUME NEW p \in Procs, NEW w \in Works, Claim(p, w) PROVE RunEvidence'
    <2>1. /\ on'[p] = w /\ pc'[p] = "lock" /\ attempts' \in [Works -> Nat]
          /\ seen'[p].attempts = attempts'[w]
      BY SMTT(20), <1>1 DEF Claim, TypeOK
    <2>2. RunKnows(p)' BY <2>1 DEF RunKnows, GaveUp, Exhausted
    <2> QED BY <1>1, <1>c, <2>2 DEF Claim, TypeOK
  <1>2. ASSUME NEW p \in Procs,
               \/ LockChunk(p) \/ CheckTurn(p) \/ PinArtifact(p) \/ PersistPlan(p) \/ BeginApply(p)
               \/ Apply(p) \/ Unlock(p) \/ LoseHeartbeat(p) \/ StepError(p)
               \/ \E d \in Draws : PinSampling(p, d)
        PROVE  RunEvidence'
    <2>1. PICK place \in Places \ {"pin", "persist"} :
            pc[p] # "idle" /\ Goto(p, place) /\ UNCHANGED <<on, seen, draft>>
      BY <1>2 DEF LockChunk, CheckTurn, PinArtifact, PersistPlan, BeginApply, Apply, Unlock,
                  LoseHeartbeat, StepError, PinSampling, Places, Locking
    <2>2. pc'[p] = place BY <2>1 DEF TypeOK
    <2>3. RunKnows(p)' BY <1>a, <2>1, <2>2
    <2> QED BY <1>c, <2>1, <2>3 DEF TypeOK
  <1>3. ASSUME NEW p \in Procs, Reread(p) PROVE RunEvidence'
    <2>1. on[p] \in Works BY <1>3 DEF Reread, LocalInv
    <2>2. /\ UNCHANGED <<on, draft, attempts>> /\ seen'[p].attempts = attempts[on[p]]
          /\ pc'[p] \in {"unlock", "seal", "load"}
      BY SMTT(20), <1>3 DEF Reread, TypeOK
    <2>3. RunKnows(p)' BY <2>2 DEF RunKnows, GaveUp, Exhausted
    <2> QED BY <1>3, <1>c, <2>3 DEF Reread, TypeOK
  <1>4. ASSUME NEW p \in Procs, NEW torn \in BOOLEAN, Seal(p, torn) PROVE RunEvidence'
    <2>1. on[p] \in Works BY <1>4 DEF Seal, LocalInv
    <2>2. staged[on[p]] # Unavailable
      BY SMTT(20), <2>1, WorkAssumption DEF TypeOK, Staged, Oversized, Missing, Unavailable
    <2>3. /\ pc[p] = "seal" /\ UNCHANGED <<on, seen, attempts>>
          /\ \A q \in Procs \ {p} : draft'[q] = draft[q] /\ pc'[q] = pc[q]
      BY <1>4 DEF Seal, TypeOK
    <2>4. CASE UNCHANGED draft /\ pc'[p] \in {"load", "unlock"}
      BY <1>a, <1>c, <2>3, <2>4
    <2>5. CASE pc'[p] = "pin"
      <3>0. PICK object \in {Unavailable, staged[on[p]]} :
              /\ object = Unavailable => GaveUp(p) \/ staged[on[p]] = Unavailable
              /\ draft' = [draft EXCEPT ![p] = [artifact |-> object, decision |-> None, basis |-> {}]]
        <4>1. pc'[p] # "load" /\ pc'[p] # "unlock" BY <2>5
        <4>2. ~(Goto(p, "load") \/ Goto(p, "unlock")) BY <4>1 DEF TypeOK
        <4> QED BY <1>4, <4>2 DEF Seal, GaveUp
      <3>1. draft'[p].artifact = Unavailable => GaveUp(p)
        BY <2>2, <3>0 DEF TypeOK
      <3>2. GaveUp(p) => Exhausted(on[p]) BY <2>3 DEF RunEvidence, RunKnows
      <3>3. RunKnows(p)' BY <2>3, <2>5, <3>1, <3>2 DEF RunKnows, GaveUp, Exhausted
      <3> QED BY <1>c, <2>3, <3>3
    <2> QED BY <1>4, <2>4, <2>5 DEF Seal, TypeOK
  <1>5. ASSUME NEW p \in Procs, LoadPlan(p) PROVE RunEvidence'
    <2>1. /\ pc[p] = "load" /\ pc'[p] \in {"decide", "begin", "unlock"}
          /\ UNCHANGED <<on, seen, attempts>>
          /\ \A q \in Procs \ {p} : draft'[q] = draft[q] /\ pc'[q] = pc[q]
      BY <1>5 DEF LoadPlan, TypeOK
    <2>2. RunKnows(p)' BY <2>1 DEF RunEvidence, RunKnows, GaveUp, Exhausted
    <2> QED BY <1>c, <2>1, <2>2
  <1>6. ASSUME NEW p \in Procs, NEW d \in Decisions, Decide(p, d) PROVE RunEvidence'
    <2>1. CASE Goto(p, "unlock") /\ UNCHANGED draft
      <3>1. RunKnows(p)' BY <1>6, <2>1 DEF Decide, TypeOK, RunEvidence, RunKnows, GaveUp, Exhausted
      <3> QED BY <1>c, <1>6, <2>1, <3>1 DEF Decide, TypeOK
    <2>2. CASE Goto(p, "persist")
      <3>1. pc'[p] # "unlock" BY <2>2 DEF TypeOK
      <3>2. ~Goto(p, "unlock") BY <3>1 DEF TypeOK
      <3>a. /\ draft' = [draft EXCEPT ![p] = [artifact |-> seen[p].artifact, decision |-> d,
                                              basis |-> Judged(Chunk(p))]]
            /\ Bad(seen[p].artifact) => d = Fail
        BY <1>6, <3>2 DEF Decide, Bad
      <3>b. draft'[p].decision = d BY <3>a, SMTT(20) DEF TypeOK
      <3>3. /\ pc[p] = "decide" /\ pc'[p] = "persist" /\ UNCHANGED <<on, seen, attempts>>
            /\ draft'[p].decision = d /\ (Bad(seen[p].artifact) => d = Fail)
            /\ \A q \in Procs \ {p} : draft'[q] = draft[q] /\ pc'[q] = pc[q]
        BY <1>6, <2>2, <3>a, <3>b DEF Decide, TypeOK
      <3>4. RunKnows(p)' BY <3>3 DEF RunEvidence, RunKnows, GaveUp, Exhausted
      <3> QED BY <1>c, <3>3, <3>4
    <2> QED BY <1>6, <2>1, <2>2 DEF Decide
  <1>7. ASSUME NEW p \in Procs, Finish(p) \/ Release(p) \/ Crash(p) PROVE RunEvidence'
    <2>1. Ended(p) BY <1>7 DEF Finish, Release, Crash
    <2>2. pc'[p] = "idle" BY <2>1 DEF Ended, TypeOK
    <2>3. RunKnows(p)' BY <2>2 DEF RunKnows
    <2> QED BY <1>c, <2>1, <2>3 DEF Ended, TypeOK
  <1>8. ASSUME UNCHANGED <<pc, on, seen, draft>> PROVE RunEvidence'
    BY <1>a, <1>8 DEF RunEvidence
  <1>9. ASSUME \/ \E w \in Works : ExpireLease(w) \/ StallPastLease(w) \/ TaskMovesOn(w)
               \/ \E w \in Works, s \in Staged : Restage(w, s)
               \/ \E c \in Chunks : LoseLock(c)
               \/ UNCHANGED vars
        PROVE  UNCHANGED <<pc, on, seen, draft>>
    BY <1>9 DEF ExpireLease, StallPastLease, TaskMovesOn, Restage, LoseLock, vars
  <1> QED BY <1>1, <1>2, <1>3, <1>4, <1>5, <1>6, <1>7, <1>8, <1>9 DEF Next, Resume, Fault

LEMMA RowEvidenceStep ==
  ASSUME TypeOK, LocalInv, RunEvidence, RowEvidence, [Next]_vars
  PROVE  RowEvidence'
  <1>1. ASSUME NEW w \in Works, Exhausted(w) PROVE Exhausted(w)' BY <1>1, AttemptsGrow
  <1>2. ASSUME UNCHANGED <<artifact, plan>> PROVE RowEvidence'
    BY <1>1, <1>2 DEF RowEvidence, Planned, Exhausted
  <1>3. CASE Quiet \/ \E p \in Procs : Apply(p) \/ \E d \in Draws : PinSampling(p, d)
    BY <1>2, <1>3 DEF Quiet, Apply, PinSampling
  <1>4. ASSUME NEW p \in Procs, PinArtifact(p) PROVE RowEvidence'
    <2>1. /\ pc[p] = "pin" /\ UNCHANGED <<plan, attempts>>
          /\ \/ UNCHANGED artifact
             \/ artifact[on[p]] = None /\ artifact' = [artifact EXCEPT ![on[p]] = draft[p].artifact]
      BY <1>4 DEF PinArtifact
    <2>2. on[p] \in Works /\ draft[p].artifact # None BY <2>1, Nulls DEF LocalInv
    <2>3. draft[p].artifact = Unavailable => Exhausted(on[p]) BY <2>1 DEF RunEvidence, RunKnows
    <2>4. CASE artifact[on[p]] = None /\ artifact' = [artifact EXCEPT ![on[p]] = draft[p].artifact]
      <3>1. ~Planned(on[p]) BY <2>2, <2>4 DEF RowEvidence
      <3> QED BY <2>1, <2>2, <2>3, <2>4, <3>1 DEF RowEvidence, Planned, Exhausted, TypeOK
    <2> QED BY <1>2, <2>1, <2>4
  <1>5. ASSUME NEW p \in Procs, PersistPlan(p) PROVE RowEvidence'
    <2>1. /\ pc[p] = "persist" /\ UNCHANGED <<artifact, attempts>>
          /\ \/ UNCHANGED plan
             \/ /\ artifact[on[p]] = seen[p].artifact
                /\ plan' = [plan EXCEPT ![on[p]] =
                              [decision |-> draft[p].decision, artifact |-> artifact[on[p]],
                               sampling |-> seen[p].sampling, basis |-> draft[p].basis,
                               older |-> {v \in Works : Planned(v)}]]
      BY <1>5 DEF PersistPlan
    <2>2. on[p] \in Works /\ seen[p].artifact # None BY <2>1, Nulls DEF LocalInv
    <2>3. Bad(seen[p].artifact) => draft[p].decision = Fail BY <2>1 DEF RunEvidence, RunKnows
    <2>4. CASE ~UNCHANGED plan
      <3>1. /\ artifact[on[p]] = seen[p].artifact
            /\ plan'[on[p]].decision = draft[p].decision
            /\ \A w \in Works \ {on[p]} : plan'[w] = plan[w]
        BY SMTT(20), <2>1, <2>2, <2>4 DEF TypeOK
      <3> QED BY <2>1, <2>2, <2>3, <3>1 DEF RowEvidence, Planned, Exhausted, Bad
    <2> QED BY <1>2, <2>1, <2>4
  <1> QED BY <1>3, <1>4, <1>5, QuietSteps

\* An attempt is failed for a missing or torn object only after its retries, and
\* evidence of a bad object leads to nothing but a failure, although a run decides
\* from a copy of its row that others may have changed since.
THEOREM EvidenceStands == Spec => []EvidenceFails
  <1>1. Init => RunEvidence /\ RowEvidence
    <2>1. Init => RunEvidence BY DEF Init, RunEvidence, RunKnows
    <2>2. Init => RowEvidence
      BY SMTT(20) DEF Init, RowEvidence, Planned, NoPlan, None, Unavailable
    <2> QED BY <2>1, <2>2
  <1>2. RowEvidence => EvidenceFails
    BY DEF RowEvidence, EvidenceFails, Exhausted, Bad
  <1> QED BY <1>1, <1>2, InitType, TypeStep, RunEvidenceStep, RowEvidenceStep, PTL DEF Spec

LEMMA RowStep ==
  ASSUME TypeOK, TypeOK', LocalInv, [Next]_vars, NEW w \in Works, status'[w] # status[w]
  PROVE  <<status[w], status'[w]>> \in VerificationEdges
  <1>1. CASE Quiet
    <2>1. /\ status[w] \in {"pending", "leased", "terminal"}
          /\ status'[w] \in {"pending", "leased", "terminal"}
      BY DEF TypeOK
    <2>2. \/ status[w] = "pending" /\ status'[w] = "leased"
          \/ status[w] = "leased" /\ status'[w] = "pending"
      BY <1>1, <2>1 DEF Quiet
    <2> QED BY SMTT(20), <2>2 DEF VerificationEdges
  <1>2. CASE \E p \in Procs, d \in Draws : PinSampling(p, d)
    BY <1>2 DEF PinSampling, rowVars
  <1>3. CASE \E p \in Procs : PinArtifact(p)
    BY <1>3 DEF PinArtifact, rowVars
  <1>4. CASE \E p \in Procs : PersistPlan(p)
    BY <1>4 DEF PersistPlan, rowVars
  <1>5. CASE \E p \in Procs : Apply(p)
    <2>1. PICK p \in Procs : Apply(p) BY <1>5
    <2>2. HasToken(p) /\ status' = [status EXCEPT ![on[p]] = "terminal"]
      BY <2>1 DEF Apply
    <2>3. w = on[p] /\ status[w] = "leased" /\ status'[w] = "terminal"
      BY <2>2 DEF HasToken, TypeOK
    <2> QED BY SMTT(20), <2>3 DEF VerificationEdges
  <1> QED BY <1>1, <1>2, <1>3, <1>4, <1>5, QuietSteps

\* The verification_work row moves only along lifecycle_transitions, whatever
\* leases expire, are taken over, or are released by a run that lost them.
THEOREM WorkRowGuarded == Spec => WorkRowLifecycle
  <1>1. ASSUME TypeOK, TypeOK', LocalInv, [Next]_vars
        PROVE  [\A w \in Works :
                  status'[w] # status[w] => <<status[w], status'[w]>> \in VerificationEdges]_vars
    BY <1>1, RowStep
  <1> QED BY <1>1, InitType, TypeStep, PTL DEF Spec, WorkRowLifecycle

LEMMA InitLock == Init => LockHeld /\ ChunkInv
  <1> SUFFICES ASSUME Init PROVE LockHeld /\ ChunkInv OBVIOUS
  <1>1. LockHeld BY DEF Init, LockHeld, Inside, Locking
  <1>2. \A w \in Works : ~Planned(w) BY DEF Init, Planned, NoPlan
  <1>3. AloneInChunk /\ DraftFresh
    BY DEF Init, AloneInChunk, DraftFresh, PastTurn, Locking
  <1>4. OneUnfinished /\ PlanNotStale
    BY <1>2 DEF OneUnfinished, PlanNotStale, Unfinished
  <1> QED BY <1>1, <1>3, <1>4 DEF ChunkInv

\* As long as no advisory-lock session dies under its holder, a plan that waits
\* to be applied was computed from exactly the verdicts its chunk has now.
THEOREM PlansFresh ==
  ASSUME ~LockLoss
  PROVE  Spec => []PlanNotStale
  <1>1. Spec => [](TypeOK /\ LocalInv /\ LockHeld /\ ChunkInv)
    BY InitType, TypeStep, InitLock, LockStep, ChunkStep, PTL DEF Spec
  <1>2. ChunkInv => PlanNotStale BY DEF ChunkInv
  <1> QED BY <1>1, <1>2, PTL

LEMMA AtomicInit == Init => Atomic!Init
  BY SMTT(20) DEF Init, Atomic!Init, None

LEMMA AtomicStep ==
  ASSUME TypeOK, LocalInv, VerdictIsPlan, LockHeld, ChunkInv, [Next]_vars
  PROVE  [Atomic!Next]_(Atomic!vars)
  <1> DEFINE basis == [w \in Works |-> IF verdict[w] = None THEN {} ELSE plan[w].basis]
  <1>1. ASSUME verdict' = verdict, \A w \in Works : verdict[w] # None => plan'[w] = plan[w]
        PROVE  UNCHANGED Atomic!vars
    <2>1. basis' = basis BY <1>1
    <2> QED BY <1>1, <2>1 DEF Atomic!vars
  <1>2. ASSUME Calm PROVE UNCHANGED Atomic!vars
    BY <1>1, <1>2 DEF Calm
  <1>3. ASSUME NEW p \in Procs, PersistPlan(p) PROVE UNCHANGED Atomic!vars
    <2>1. verdict' = verdict BY <1>3 DEF PersistPlan
    <2>2. ASSUME NEW w \in Works, verdict[w] # None PROVE plan'[w] = plan[w]
      <3>1. status[w] = "terminal" BY <2>2 DEF VerdictIsPlan
      <3> QED BY <1>3, <3>1 DEF PersistPlan, Held, HasToken, TypeOK
    <2> QED BY <1>1, <2>1, <2>2
  <1>4. ASSUME NEW p \in Procs, Apply(p), Commit(p) PROVE Atomic!Next
    <2> DEFINE w == on[p] d == draft[p].decision
    <2>1. w \in Works /\ d \in Decisions /\ d # None
      BY <1>4, Nulls DEF Commit, LocalInv
    <2>2. verdict[w] = None BY <1>4, <2>1 DEF Commit, VerdictIsPlan
    <2>3. plan[w].basis = Judged(ChunkOf[w])
      BY <1>4, <2>1 DEF Commit, ChunkInv, PlanNotStale, Planned
    <2>4. basis' = [basis EXCEPT ![w] = Judged(ChunkOf[w])]
      <3>1. \A v \in Works : basis'[v] = IF v = w THEN Judged(ChunkOf[w]) ELSE basis[v]
        BY <1>4, <2>1, <2>3 DEF Commit, TypeOK
      <3> HIDE DEF w
      <3> QED BY <2>1, <3>1
    <2>5. Judged(ChunkOf[w]) = Atomic!Judged(ChunkOf[w]) BY DEF Judged, Atomic!Judged
    <2>6. Atomic!Judge(w, d)
      BY <1>4, <2>2, <2>4, <2>5 DEF Commit, Atomic!Judge
    <2> HIDE DEF w, d
    <2> QED BY <2>1, <2>6 DEF Atomic!Next, Atomic!Judge
  <1> QED BY <1>2, <1>3, <1>4, WalkSteps, ApplyCases

\* As long as no advisory-lock session dies under its holder, reading a chunk's
\* verdicts, deciding and applying act as one atomic step: verification
\* implements AtomicVerdicts.
THEOREM ImplementsAtomic ==
  ASSUME ~LockLoss
  PROVE  Spec => VerdictsAtomic
  <1>1. Init => VerdictIsPlan
    BY SMTT(20) DEF Init, VerdictIsPlan, None
  <1>2. Spec => [](TypeOK /\ LocalInv /\ VerdictIsPlan /\ LockHeld /\ ChunkInv)
    BY <1>1, InitType, TypeStep, InitLock, LockStep, ChunkStep, VerdictStep, PTL DEF Spec
  <1> QED BY <1>2, AtomicInit, AtomicStep, PTL DEF Spec, VerdictsAtomic, Atomic!Spec
=============================================================================
