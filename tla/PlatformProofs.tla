--------------------------- MODULE PlatformProofs ---------------------------
(***************************************************************************)
(* Proofs about the leader election, for every set of replicas and number  *)
(* of faults, and about the operators' controls, for any operators, calls,  *)
(* processes, controls and suppliers.                                       *)
(***************************************************************************)
EXTENDS WorkerLeader, OperatorControls, TLAPS

-----------------------------------------------------------------------------
(* The leader election.                                                      *)

\* What a replica's own state says about its session and its sweeps: the
\* link from "sweeping" to the lock that the invariant needs.
LeaderInv ==
  /\ LeaderTypeOK
  /\ \A r \in WlReplicas :
       /\ session[r] = "open" => lock = r
       /\ sweeping[r] => session[r] \in {"open", "broken"}
       /\ wlPc[r] \in {"poll", "wait", "down"} =>
            session[r] = "none" /\ ~sweeping[r]
       /\ wlPc[r] = "releasing" => ~sweeping[r]
       /\ wlPc[r] = "lead" => wlStale[r] < StaleSamples
  /\ LockHasLiveSession

\* The initial state, before any replica polls, satisfies LeaderInv.
LEMMA LeaderInitInv == WlInit => LeaderInv
  BY ConstantsAssumption, SMTT(30) DEF WlInit, LeaderInv, LeaderTypeOK, LockHasLiveSession, Phases, StaleSamples

\* Every step of runWorkerLeader and of its environment preserves LeaderInv.
LEMMA LeaderStepInv == LeaderInv /\ [WlNext]_wlVars => LeaderInv'
<1> SUFFICES ASSUME LeaderInv, [WlNext]_wlVars PROVE LeaderInv'
  OBVIOUS
<1> USE ConstantsAssumption DEF LeaderInv, LeaderTypeOK, LockHasLiveSession, Phases, StaleSamples
<1>1. CASE UNCHANGED wlVars
  BY <1>1 DEF wlVars
<1>2. ASSUME NEW r \in WlReplicas, Acquire(r) PROVE LeaderInv'
  BY <1>2 DEF Acquire
<1>3. ASSUME NEW r \in WlReplicas, Standby(r) PROVE LeaderInv'
  BY <1>3 DEF Standby
<1>4. ASSUME NEW r \in WlReplicas, PollError(r) PROVE LeaderInv'
  BY <1>4 DEF PollError
<1>5. ASSUME NEW r \in WlReplicas, RetryTimer(r) PROVE LeaderInv'
  BY <1>5 DEF RetryTimer
<1>6. ASSUME NEW r \in WlReplicas, PingFailed(r) PROVE LeaderInv'
  BY <1>6 DEF PingFailed
<1>7. ASSUME NEW r \in WlReplicas, SweepsLive(r) PROVE LeaderInv'
  BY <1>7 DEF SweepsLive
<1>8. ASSUME NEW r \in WlReplicas, SweepsStale(r) PROVE LeaderInv'
  BY <1>8 DEF SweepsStale
<1>9. ASSUME NEW r \in WlReplicas, SweepsStopped(r) PROVE LeaderInv'
  BY <1>9 DEF SweepsStopped
<1>10. ASSUME NEW r \in WlReplicas, StopTimeout(r) PROVE LeaderInv'
  BY <1>10 DEF StopTimeout, WlDie, EndSession
<1>11. ASSUME NEW r \in WlReplicas, Release(r) PROVE LeaderInv'
  BY <1>11 DEF Release, EndSession
<1>12. ASSUME NEW r \in WlReplicas, StopOnShutdown(r) PROVE LeaderInv'
  BY <1>12 DEF StopOnShutdown
<1>13. ASSUME NEW r \in WlReplicas, ExitOnShutdown(r) PROVE LeaderInv'
  BY <1>13 DEF ExitOnShutdown
<1>14. ASSUME NEW r \in WlReplicas, SessionDropped(r) PROVE LeaderInv'
  BY <1>14 DEF SessionDropped, EndSession
<1>15. ASSUME NEW r \in WlReplicas, Shutdown(r) PROVE LeaderInv'
  BY <1>15 DEF Shutdown
<1>16. ASSUME NEW r \in WlReplicas, WlCrash(r) PROVE LeaderInv'
  BY <1>16 DEF WlCrash, WlDie, EndSession
<1>17. ASSUME NEW r \in WlReplicas, Restart(r) PROVE LeaderInv'
  BY <1>17 DEF Restart
<1> QED
  BY <1>1, <1>2, <1>3, <1>4, <1>5, <1>6, <1>7, <1>8, <1>9, <1>10, <1>11,
     <1>12, <1>13, <1>14, <1>15, <1>16, <1>17, ZenonT(60) DEF WlNext

\* The type invariant and the lock's live session, for every set of replicas.
THEOREM LeaderSafe == WlSpec => [](LeaderTypeOK /\ LockHasLiveSession)
<1>1. LeaderInv => LeaderTypeOK /\ LockHasLiveSession
  BY DEF LeaderInv
<1> QED
  BY <1>1, LeaderInitInv, LeaderStepInv, PTL DEF WlSpec

\* Two replicas sweep together only while one of them has lost its database
\* session: the sweeps stop before the lock is given up.
THEOREM NoOverlap == WlSpec => []NoOverlapWithoutSessionLoss
<1>1. LeaderInv => NoOverlapWithoutSessionLoss
  BY DEF LeaderInv, NoOverlapWithoutSessionLoss
<1> QED
  BY <1>1, LeaderInitInv, LeaderStepInv, PTL DEF WlSpec

-----------------------------------------------------------------------------
(* The operators' controls.                                                  *)
OcTypeOK ==
  /\ ocPaused \in [OcControls -> BOOLEAN] /\ ocVersion \in [OcControls -> Nat]
  /\ ocRep \in [OcSuppliers -> 0 .. OcTop] /\ ocWorth \in [OcSuppliers -> 0 .. OcTop]
  /\ ocRow \in [OcKinds \X OcRefs -> OcRows \cup {OcNone}]
  /\ ocStands \subseteq OcActors
  /\ ocStage \in [OcCalls -> OcStages] /\ ocBefore \in [OcCalls -> OcValues]
  /\ ocAnswer \in [OcCalls -> {"ok", "refused", "failed", OcNone}]
  /\ ocCache \in [OcProcs \X OcControls -> OcEntries \cup {OcNone}]
  /\ ocReading \in [OcProcs \X OcControls -> OcEntries \cup {OcNone}]
  /\ ocApplied \in [OcCalls -> Nat]

\* The locks of an open transaction: nobody else has its reference or its target, its
\* operator stands, its reference is unused, and what it read is still so.
OcTxInv ==
  \A c \in OcCalls : ocStage[c] = "tx" =>
    /\ OcActor[c] \in ocStands
    /\ ocRow[KeyOf(c)] = OcNone
    /\ Adjusts(c) => ocBefore[c] = ocRep[OcTarget[c]]
    /\ ~ Adjusts(c) => ocBefore[c] \in BOOLEAN
    /\ \A d \in OcCalls : ocStage[d] = "tx" /\ d # c =>
         /\ KeyOf(d) # KeyOf(c)
         /\ Adjusts(c) = Adjusts(d) => OcTarget[d] # OcTarget[c]

\* A change that was committed, or confirmed, is the one on record.
OnRecord(c) ==
  /\ ocRow[KeyOf(c)] # OcNone
  /\ ocRow[KeyOf(c)].intent = IntentOf(c) /\ ocRow[KeyOf(c)].actor = OcActor[c]
OcRecordInv ==
  \A c \in OcCalls : ocStage[c] = "committed" \/ ocAnswer[c] = "ok" => OnRecord(c)

\* Versions only grow, and a version is written by a call that sets a control.
Recent(c, e) == e # OcNone /\ e.version < ocApplied[c] => e.overlaps
OcSeenInv ==
  /\ \A c \in OcCalls : ocStage[c] \in {"new", "in", "tx"} =>
       ocApplied[c] = 0 /\ ocAnswer[c] = OcNone
  /\ \A c \in OcCalls : ocStage[c] = "committed" => ocAnswer[c] = OcNone
  /\ \A c \in OcCalls : ocApplied[c] > 0 =>
       ~ Adjusts(c) /\ ocApplied[c] <= ocVersion[OcTarget[c]]
  /\ \A c \in OcCalls : ocAnswer[c] = "ok" /\ ocApplied[c] > 0 =>
       /\ Recent(c, ocCache[<<OcProc[c], OcTarget[c]>>])
       /\ Recent(c, ocReading[<<OcProc[c], OcTarget[c]>>])

\* A record of a control says what a request asked that no replay can tell from it.
SaysWhatWasAsked(c, row) ==
  \E d \in OcCalls :
    /\ KeyOf(d) = KeyOf(c) /\ row.intent = IntentOf(d) /\ row.actor = OcActor[d]
    /\ row.after = OcAsked[d]
OcSaysInv ==
  \A c \in OcCalls : ~ Adjusts(c) /\ ocRow[KeyOf(c)] # OcNone
                       => SaysWhatWasAsked(c, ocRow[KeyOf(c)])

OcInv == OcTypeOK /\ OcTxInv /\ OcRecordInv /\ OcSeenInv /\ NoAdjustmentLost

USE ZenonT(100)

LEMMA OcCallTypes ==
  ASSUME NEW c \in OcCalls
  PROVE  /\ KeyOf(c) \in OcKinds \X OcRefs
         /\ OcActor[c] \in OcActors /\ IntentOf(c) \in OcIntents
         /\ Adjusts(c) => OcTarget[c] \in OcSuppliers /\ OcAsked[c] \in Int
         /\ ~ Adjusts(c) => /\ OcTarget[c] \in OcControls /\ OcAsked[c] \in BOOLEAN
                            /\ <<OcProc[c], OcTarget[c]>> \in OcProcs \X OcControls
  BY OperatorAssumption DEF KeyOf, Adjusts, OcIntents

LEMMA OcClamped == ASSUME NEW n \in Int PROVE Clamp(n) \in 0 .. OcTop
  BY OperatorAssumption, SMTT(20) DEF Clamp

LEMMA OcInitInv == OcInit => OcInv
  <1> SUFFICES ASSUME OcInit PROVE OcInv OBVIOUS
  <1>1. OcTypeOK
    BY OperatorAssumption, SMTT(20) DEF OcInit, OcTypeOK, OcValues, OcStages
  <1>2. OcTxInv /\ OcRecordInv /\ NoAdjustmentLost
    BY OperatorAssumption DEF OcInit, OcTxInv, OcRecordInv, NoAdjustmentLost
  <1>3. OcSeenInv
    BY OperatorAssumption, SMTT(20) DEF OcInit, OcSeenInv
  <1> QED BY <1>1, <1>2, <1>3 DEF OcInv

LEMMA OcTypeStep == OcInv /\ OcNext => OcTypeOK'
  <1> SUFFICES ASSUME OcInv, OcNext PROVE OcTypeOK' OBVIOUS
  <1> USE DEF OcInv, OcTypeOK, OcStages
  <1>1. ASSUME NEW c \in OcCalls, Authenticate(c) PROVE OcTypeOK'
    BY <1>1 DEF Authenticate, Ends
  <1>2. ASSUME NEW c \in OcCalls, Begin(c) PROVE OcTypeOK'
    <2>1. (IF Adjusts(c) THEN ocRep[OcTarget[c]] ELSE ocPaused[OcTarget[c]]) \in OcValues
      BY OcCallTypes DEF OcValues
    <2> QED BY <1>2, <2>1 DEF Begin
  <1>3. ASSUME NEW c \in OcCalls, AnswerRecorded(c) PROVE OcTypeOK'
    BY <1>3 DEF AnswerRecorded, Ends
  <1>4. ASSUME NEW c \in OcCalls, AdjustReputation(c) PROVE OcTypeOK'
    <2>1. /\ OcTarget[c] \in OcSuppliers /\ OcAsked[c] \in Int
          /\ ocBefore[c] = ocRep[OcTarget[c]]
      BY <1>4, OcCallTypes DEF AdjustReputation, OcTxInv
    <2>2. Clamp(ocBefore[c] + OcAsked[c]) \in 0 .. OcTop
      BY <2>1, OcClamped, SMTT(20)
    <2>3. Clamp(ocWorth[OcTarget[c]] + OcAsked[c]) \in 0 .. OcTop
      BY <2>1, OcClamped, SMTT(20)
    <2>4. RowBy(c, Clamp(ocBefore[c] + OcAsked[c])) \in OcRows
      BY <2>1, <2>2, OcCallTypes DEF RowBy, OcRows, OcAdjustRows
    <2> QED BY <1>4, <2>1, <2>2, <2>3, <2>4, OcCallTypes DEF AdjustReputation, Recorded, Ends
  <1>5. ASSUME NEW c \in OcCalls, SetControl(c) PROVE OcTypeOK'
    <2>1. OcTarget[c] \in OcControls /\ OcAsked[c] \in BOOLEAN
      BY <1>5, OcCallTypes DEF SetControl
    <2>2. RowBy(c, OcAsked[c]) \in OcRows
      <3>1. ocBefore[c] \in BOOLEAN BY <1>5 DEF SetControl, OcTxInv
      <3>2. RowBy(c, OcAsked[c]) \in OcControlRows
        BY Zenon, <2>1, <3>1, OcCallTypes DEF RowBy, OcControlRows
      <3> QED BY Zenon, <3>2 DEF OcRows
    <2>3. ocPaused' \in [OcControls -> BOOLEAN]
      BY Zenon, <1>5, <2>1 DEF SetControl
    <2>4. ocVersion' \in [OcControls -> Nat] /\ ocApplied' \in [OcCalls -> Nat]
      BY <1>5, <2>1, SMTT(20) DEF SetControl
    <2>5. ocRow' \in [OcKinds \X OcRefs -> OcRows \cup {OcNone}]
      BY <1>5, <2>2 DEF SetControl, Recorded
    <2> QED BY <1>5, <2>3, <2>4, <2>5 DEF SetControl
  <1>6. ASSUME NEW c \in OcCalls, Invalidate(c) PROVE OcTypeOK'
    <2>1. \A e \in OcEntries : [e EXCEPT !.overlaps = TRUE] \in OcEntries
      BY DEF OcEntries
    <2>2. ocCache' \in [OcProcs \X OcControls -> OcEntries \cup {OcNone}]
      BY <1>6 DEF Invalidate, Dropped
    <2>3. ocReading' \in [OcProcs \X OcControls -> OcEntries \cup {OcNone}]
      BY <1>6, <2>1 DEF Invalidate
    <2> QED BY <1>6, <2>2, <2>3 DEF Invalidate, Ends
  <1>7. ASSUME NEW c \in OcCalls, Rollback(c) PROVE OcTypeOK'
    BY <1>7 DEF Rollback, Ends
  <1>8. ASSUME NEW x \in OcProcs \X OcControls, ReadRow(x) PROVE OcTypeOK'
    <2>1. [paused |-> ocPaused[x[2]], version |-> ocVersion[x[2]], overlaps |-> FALSE] \in OcEntries
      BY DEF OcEntries
    <2> QED BY <1>8, <2>1 DEF ReadRow
  <1>9. ASSUME NEW x \in OcProcs \X OcControls, PutEntry(x) \/ EntryEnds(x) PROVE OcTypeOK'
    BY <1>9 DEF PutEntry, EntryEnds
  <1>10. ASSUME NEW p \in OcProcs, ProcDies(p) PROVE OcTypeOK'
    BY <1>10 DEF ProcDies
  <1>11. ASSUME NEW a \in OcActors, RevokeOperator(a) PROVE OcTypeOK'
    BY <1>11 DEF RevokeOperator
  <1>12. ASSUME NEW s \in OcSuppliers, NEW d \in OcDocks, DockReputation(s, d) PROVE OcTypeOK'
    <2>1. Clamp(ocRep[s] + d) \in 0 .. OcTop /\ Clamp(ocWorth[s] + d) \in 0 .. OcTop
      BY OcClamped, OperatorAssumption, SMTT(20)
    <2> QED BY <1>12, <2>1 DEF DockReputation
  <1> QED BY <1>1, <1>2, <1>3, <1>4, <1>5, <1>6, <1>7, <1>8, <1>9, <1>10, <1>11, <1>12 DEF OcNext

LEMMA OcTxStep == OcInv /\ OcNext => OcTxInv'
  <1> SUFFICES ASSUME OcInv, OcNext, NEW c \in OcCalls, ocStage'[c] = "tx"
               PROVE  /\ OcActor[c] \in ocStands'
                      /\ ocRow'[KeyOf(c)] = OcNone
                      /\ Adjusts(c) => ocBefore'[c] = ocRep'[OcTarget[c]]
                      /\ ~ Adjusts(c) => ocBefore'[c] \in BOOLEAN
                      /\ \A d \in OcCalls : ocStage'[d] = "tx" /\ d # c =>
                           /\ KeyOf(d) # KeyOf(c)
                           /\ Adjusts(c) = Adjusts(d) => OcTarget[d] # OcTarget[c]
    BY DEF OcTxInv
  <1> DEFINE Goal == /\ OcActor[c] \in ocStands'
                     /\ ocRow'[KeyOf(c)] = OcNone
                     /\ Adjusts(c) => ocBefore'[c] = ocRep'[OcTarget[c]]
                     /\ ~ Adjusts(c) => ocBefore'[c] \in BOOLEAN
                     /\ \A d \in OcCalls : ocStage'[d] = "tx" /\ d # c =>
                          /\ KeyOf(d) # KeyOf(c)
                          /\ Adjusts(c) = Adjusts(d) => OcTarget[d] # OcTarget[c]
  <1> USE DEF OcInv, OcTypeOK, OcTxInv
  <1>1. ASSUME NEW b \in OcCalls, Authenticate(b) PROVE Goal
    BY <1>1 DEF Authenticate, Ends
  <1>2. ASSUME NEW b \in OcCalls, Begin(b) PROVE Goal
    <2>1. ~ Adjusts(b) => ocPaused[OcTarget[b]] \in BOOLEAN BY OcCallTypes
    <2> QED BY <1>2, <2>1 DEF Begin, Revalidated, KeyFree, TargetFree, InTx
  <1>3. ASSUME NEW b \in OcCalls, AnswerRecorded(b) PROVE Goal
    BY <1>3 DEF AnswerRecorded, Ends
  <1>4. ASSUME NEW b \in OcCalls, AdjustReputation(b) PROVE Goal
    <2>1. c # b /\ ocStage[c] = "tx" /\ ocStage[b] = "tx"
      BY <1>4 DEF AdjustReputation, Ends
    <2>2. KeyOf(b) # KeyOf(c) /\ (Adjusts(c) => OcTarget[b] # OcTarget[c])
      BY <1>4, <2>1 DEF AdjustReputation
    <2>3. ocRow'[KeyOf(c)] = ocRow[KeyOf(c)]
      BY <1>4, <2>2, OcCallTypes DEF AdjustReputation, Recorded
    <2>4. Adjusts(c) => ocRep'[OcTarget[c]] = ocRep[OcTarget[c]]
      BY <1>4, <2>2, OcCallTypes DEF AdjustReputation
    <2> QED BY <1>4, <2>1, <2>3, <2>4 DEF AdjustReputation, Ends
  <1>5. ASSUME NEW b \in OcCalls, SetControl(b) PROVE Goal
    <2>1. c # b /\ ocStage[c] = "tx" /\ ocStage[b] = "tx"
      BY <1>5 DEF SetControl
    <2>2. ocRow'[KeyOf(c)] = ocRow[KeyOf(c)]
      BY <1>5, <2>1, OcCallTypes DEF SetControl, Recorded
    <2> QED BY <1>5, <2>1, <2>2 DEF SetControl
  <1>6. ASSUME NEW b \in OcCalls, Invalidate(b) \/ Rollback(b) PROVE Goal
    BY <1>6, SMTT(20) DEF Invalidate, Rollback, Ends
  <1>7. ASSUME NEW x \in OcProcs \X OcControls, ReadRow(x) \/ PutEntry(x) \/ EntryEnds(x)
        PROVE  Goal
    BY <1>7, SMTT(20) DEF ReadRow, PutEntry, EntryEnds
  <1>8. ASSUME NEW p \in OcProcs, ProcDies(p) PROVE Goal
    BY <1>8 DEF ProcDies
  <1>9. ASSUME NEW a \in OcActors, RevokeOperator(a) PROVE Goal
    BY <1>9 DEF RevokeOperator, InTx
  <1>10. ASSUME NEW s \in OcSuppliers, NEW d \in OcDocks, DockReputation(s, d) PROVE Goal
    BY <1>10, SMTT(20) DEF DockReputation, InTx
  <1> QED BY <1>1, <1>2, <1>3, <1>4, <1>5, <1>6, <1>7, <1>8, <1>9, <1>10 DEF OcNext

\* What is on record under a reference stays: only a transaction writes, and only under
\* a reference that is unused.
LEMMA OcRowsKept ==
  ASSUME OcInv, OcNext, NEW c \in OcCalls, ocRow[KeyOf(c)] # OcNone
  PROVE  ocRow'[KeyOf(c)] = ocRow[KeyOf(c)]
  <1> USE DEF OcInv, OcTypeOK, OcTxInv
  <1>1. ASSUME NEW b \in OcCalls, AdjustReputation(b) \/ SetControl(b)
        PROVE  ocRow'[KeyOf(c)] = ocRow[KeyOf(c)]
    <2>1. ocRow[KeyOf(b)] = OcNone
      BY <1>1 DEF AdjustReputation, SetControl
    <2> QED BY <1>1, <2>1, OcCallTypes DEF AdjustReputation, SetControl, Recorded
  <1>2. CASE UNCHANGED ocRow BY <1>2
  <1> QED BY <1>1, <1>2 DEF OcNext, Authenticate, Begin, AnswerRecorded, Invalidate, Rollback,
             ReadRow, PutEntry, EntryEnds, ProcDies, RevokeOperator, DockReputation

LEMMA OcRecordStep == OcInv /\ OcNext => OcRecordInv'
  <1> SUFFICES ASSUME OcInv, OcNext, NEW c \in OcCalls,
                      ocStage'[c] = "committed" \/ ocAnswer'[c] = "ok"
               PROVE  OnRecord(c)'
    BY DEF OcRecordInv
  <1> USE DEF OcInv, OcTypeOK
  <1>1. CASE ocStage[c] = "committed" \/ ocAnswer[c] = "ok"
    BY <1>1, OcRowsKept DEF OcRecordInv, OnRecord
  <1>2. CASE AnswerRecorded(c) /\ SameRequest(c, ocRow[KeyOf(c)]) /\ ocRow[KeyOf(c)] # OcNone
    BY <1>2 DEF AnswerRecorded, SameRequest, OnRecord
  <1>3. CASE AdjustReputation(c)
    <2>1. ocRow' = [ocRow EXCEPT ![KeyOf(c)] = RowBy(c, Clamp(ocBefore[c] + OcAsked[c]))]
      BY <1>3 DEF AdjustReputation, Recorded
    <2>2. RowBy(c, Clamp(ocBefore[c] + OcAsked[c])) \in OcRows
      <3>1. /\ OcAsked[c] \in Int /\ ocBefore[c] \in 0 .. OcTop
        BY <1>3, OcCallTypes DEF AdjustReputation, OcTxInv
      <3>2. Clamp(ocBefore[c] + OcAsked[c]) \in 0 .. OcTop BY <3>1, OcClamped, SMTT(20)
      <3> QED BY <3>1, <3>2, OcCallTypes DEF RowBy, OcRows, OcAdjustRows
    <2> QED BY <2>1, <2>2, OcCallTypes, OcNoneAssumption DEF OnRecord, RowBy, OcRows
  <1>4. CASE SetControl(c)
    <2>1. ocRow' = [ocRow EXCEPT ![KeyOf(c)] = RowBy(c, OcAsked[c])]
      BY <1>4 DEF SetControl, Recorded
    <2>2. RowBy(c, OcAsked[c]) \in OcControlRows
      <3>1. ocBefore[c] \in BOOLEAN /\ OcAsked[c] \in BOOLEAN
        BY <1>4, OcCallTypes DEF SetControl, OcTxInv
      <3> QED BY Zenon, <3>1, OcCallTypes DEF RowBy, OcControlRows
    <2> QED BY <2>1, <2>2, OcCallTypes, OcNoneAssumption DEF OnRecord, RowBy
  <1> DEFINE Was == ocStage[c] = "committed" \/ ocAnswer[c] = "ok"
  <1>5. ASSUME NEW b \in OcCalls, Authenticate(b) \/ Begin(b) PROVE Was
    BY <1>5 DEF Authenticate, Begin, Ends
  <1>6. ASSUME NEW b \in OcCalls, AnswerRecorded(b) PROVE OnRecord(c)'
    BY <1>1, <1>2, <1>6 DEF AnswerRecorded, Ends
  <1>7. ASSUME NEW b \in OcCalls, AdjustReputation(b) PROVE OnRecord(c)'
    BY <1>1, <1>3, <1>7 DEF AdjustReputation, Ends
  <1>8. ASSUME NEW b \in OcCalls, SetControl(b) PROVE OnRecord(c)'
    BY <1>1, <1>4, <1>8 DEF SetControl
  <1>9. ASSUME NEW b \in OcCalls, Invalidate(b) \/ Rollback(b) PROVE Was
    BY <1>9 DEF Invalidate, Rollback, Ends
  <1>10. ASSUME NEW x \in OcProcs \X OcControls, ReadRow(x) \/ PutEntry(x) \/ EntryEnds(x)
         PROVE  Was
    BY <1>10 DEF ReadRow, PutEntry, EntryEnds
  <1>11. ASSUME NEW p \in OcProcs, ProcDies(p) PROVE Was
    BY <1>11 DEF ProcDies
  <1>12. ASSUME NEW a \in OcActors, RevokeOperator(a) PROVE Was
    BY <1>12 DEF RevokeOperator
  <1>13. ASSUME NEW s \in OcSuppliers, NEW d \in OcDocks, DockReputation(s, d) PROVE Was
    BY <1>13 DEF DockReputation
  <1> QED BY <1>1, <1>5, <1>6, <1>7, <1>8, <1>9, <1>10, <1>11, <1>12, <1>13 DEF OcNext

LEMMA OcSeenStep == OcInv /\ OcNext => OcSeenInv'
  <1> SUFFICES ASSUME OcInv, OcNext PROVE OcSeenInv' OBVIOUS
  <1> USE DEF OcInv, OcTypeOK
  <1>1. ASSUME NEW b \in OcCalls, Authenticate(b) \/ Begin(b) PROVE OcSeenInv'
    <2>1. CASE Begin(b) BY <2>1 DEF Begin, OcSeenInv, Recent
    <2>2. CASE Authenticate(b)
      <3>1. UNCHANGED <<ocVersion, ocApplied, ocCache, ocReading>>
        BY <2>2 DEF Authenticate
      <3>2. \A c \in OcCalls :
              /\ ocAnswer'[c] = "ok" => ocAnswer[c] = "ok"
              /\ ocStage'[c] = "committed" => ocStage[c] = "committed" /\ c # b
              /\ ocStage'[c] \in {"new", "in", "tx"} =>
                   ocStage[c] \in {"new", "in", "tx"} /\ ocAnswer'[c] = ocAnswer[c]
              /\ c # b => ocAnswer'[c] = ocAnswer[c]
        BY <2>2 DEF Authenticate, Ends
      <3> QED BY <3>1, <3>2 DEF OcSeenInv, Recent
    <2> QED BY <1>1, <2>1, <2>2
  <1>2. ASSUME NEW b \in OcCalls, AnswerRecorded(b) PROVE OcSeenInv'
    <2>1. ocApplied[b] = 0 BY <1>2 DEF AnswerRecorded, OcSeenInv
    <2>2. UNCHANGED <<ocVersion, ocApplied, ocCache, ocReading>>
      BY <1>2 DEF AnswerRecorded
    <2>3. ocStage'[b] = "done" BY <1>2 DEF AnswerRecorded, Ends
    <2>4. \A c \in OcCalls : c # b => ocAnswer'[c] = ocAnswer[c] /\ ocStage'[c] = ocStage[c]
      BY <1>2 DEF AnswerRecorded, Ends
    <2>5. ~(ocApplied'[b] > 0) BY ONLY <2>1, <2>2, SMTT(20)
    <2> QED BY <2>2, <2>3, <2>4, <2>5 DEF OcSeenInv, Recent
  <1>3. ASSUME NEW b \in OcCalls, AdjustReputation(b) PROVE OcSeenInv'
    <2>1. ocApplied[b] = 0 BY <1>3 DEF AdjustReputation, OcSeenInv
    <2> QED BY <1>3, <2>1 DEF AdjustReputation, Ends, OcSeenInv, Recent
  <1>4. ASSUME NEW b \in OcCalls, SetControl(b) PROVE OcSeenInv'
    <2>1. /\ OcTarget[b] \in OcControls /\ ocStage[b] = "tx" /\ ~ Adjusts(b)
          /\ ocAnswer[b] = OcNone
      BY <1>4, OcCallTypes DEF SetControl, OcSeenInv
    <2>2. /\ ocVersion' = [ocVersion EXCEPT ![OcTarget[b]] = @ + 1]
          /\ ocApplied' = [ocApplied EXCEPT ![b] = ocVersion[OcTarget[b]] + 1]
          /\ ocStage' = [ocStage EXCEPT ![b] = "committed"]
          /\ UNCHANGED <<ocAnswer, ocCache, ocReading>>
      BY <1>4 DEF SetControl
    <2>3. \A c \in OcCalls : ocApplied'[c] > 0 =>
            ~ Adjusts(c) /\ ocApplied'[c] <= ocVersion'[OcTarget[c]]
      <3> SUFFICES ASSUME NEW c \in OcCalls, ocApplied'[c] > 0
                   PROVE  ~ Adjusts(c) /\ ocApplied'[c] <= ocVersion'[OcTarget[c]]
        OBVIOUS
      <3>1. CASE c = b BY <2>1, <2>2, <3>1, SMTT(20)
      <3>2. CASE c # b
        <4>1. ~ Adjusts(c) /\ ocApplied[c] <= ocVersion[OcTarget[c]] /\ ocApplied'[c] = ocApplied[c]
          BY <2>2, <3>2 DEF OcSeenInv
        <4>2. OcTarget[c] \in OcControls BY <4>1, OcCallTypes
        <4> QED BY <2>1, <2>2, <4>1, <4>2, SMTT(20)
      <3> QED BY <3>1, <3>2
    <2>4. \A c \in OcCalls : ocAnswer'[c] = "ok" => c # b
      BY <2>1, <2>2, OperatorAssumption
    <2> QED BY <2>1, <2>2, <2>3, <2>4 DEF OcSeenInv, Recent
  <1>5. ASSUME NEW b \in OcCalls, Invalidate(b) PROVE OcSeenInv'
    <2> DEFINE y == <<OcProc[b], OcTarget[b]>>
    <2>1. /\ ocStage[b] = "committed"
          /\ ocStage' = [ocStage EXCEPT ![b] = "done"]
          /\ ocAnswer' = [ocAnswer EXCEPT ![b] = "ok"]
          /\ ocCache' = [ocCache EXCEPT ![y] = OcNone]
          /\ ocReading' = [ocReading EXCEPT ![y] = IF @ = OcNone THEN @
                                                   ELSE [@ EXCEPT !.overlaps = TRUE]]
          /\ UNCHANGED <<ocVersion, ocApplied>>
      BY <1>5 DEF Invalidate, Ends, Dropped
    <2>2. \A c \in OcCalls : ocAnswer'[c] = "ok" /\ ocApplied'[c] > 0 =>
            /\ Recent(c, ocCache[<<OcProc[c], OcTarget[c]>>])'
            /\ Recent(c, ocReading[<<OcProc[c], OcTarget[c]>>])'
      <3> SUFFICES ASSUME NEW c \in OcCalls, ocAnswer'[c] = "ok", ocApplied'[c] > 0
                   PROVE  /\ Recent(c, ocCache[<<OcProc[c], OcTarget[c]>>])'
                          /\ Recent(c, ocReading[<<OcProc[c], OcTarget[c]>>])'
        OBVIOUS
      <3> DEFINE x == <<OcProc[c], OcTarget[c]>>
      <3>1. x \in OcProcs \X OcControls
        BY <2>1, OcCallTypes DEF OcSeenInv
      <3>2. CASE x = y
        <4>1. ocCache'[x] = OcNone BY <2>1, <3>1, <3>2
        <4>2. CASE ocReading[x] = OcNone
          BY <2>1, <3>1, <3>2, <4>1, <4>2 DEF Recent
        <4>3. CASE ocReading[x] # OcNone
          <5>1. ocReading'[x].overlaps = TRUE
            BY <2>1, <3>1, <3>2, <4>3 DEF OcEntries
          <5> QED BY <4>1, <5>1 DEF Recent
        <4> QED BY <4>2, <4>3
      <3>3. CASE x # y
        <4>1. ocCache'[x] = ocCache[x] /\ ocReading'[x] = ocReading[x]
          BY <2>1, <3>1, <3>3
        <4>2. c # b BY <3>3
        <4> QED BY <2>1, <4>1, <4>2 DEF OcSeenInv, Recent
      <3> QED BY <3>2, <3>3
    <2> QED BY <2>1, <2>2 DEF OcSeenInv
  <1>6. ASSUME NEW b \in OcCalls, Rollback(b) PROVE OcSeenInv'
    BY <1>6, OperatorAssumption DEF Rollback, Ends, OcSeenInv, Recent
  <1>7. ASSUME NEW y \in OcProcs \X OcControls, ReadRow(y) PROVE OcSeenInv'
    <2>1. \A c \in OcCalls : ocAnswer[c] = "ok" /\ ocApplied[c] > 0 =>
            Recent(c, ocReading'[<<OcProc[c], OcTarget[c]>>])
      <3> SUFFICES ASSUME NEW c \in OcCalls, ocAnswer[c] = "ok", ocApplied[c] > 0
                   PROVE  Recent(c, ocReading'[<<OcProc[c], OcTarget[c]>>])
        OBVIOUS
      <3>1. CASE <<OcProc[c], OcTarget[c]>> = y
        <4>1. ocReading'[y].version = ocVersion[OcTarget[c]]
          BY <1>7, <3>1 DEF ReadRow
        <4>2. ocApplied[c] <= ocVersion[OcTarget[c]] /\ OcTarget[c] \in OcControls
          BY <3>1, OcCallTypes DEF OcSeenInv
        <4>3. ocApplied[c] \in Nat /\ ocVersion[OcTarget[c]] \in Nat BY <4>2
        <4>4. ~(ocReading'[y].version < ocApplied[c])
          BY ONLY <4>1, <4>2, <4>3, SMTT(20)
        <4> QED BY <3>1, <4>4 DEF Recent
      <3>2. CASE <<OcProc[c], OcTarget[c]>> # y
        <4>1. <<OcProc[c], OcTarget[c]>> \in OcProcs \X OcControls
          BY OcCallTypes DEF OcSeenInv
        <4> QED BY <1>7, <3>2, <4>1 DEF ReadRow, OcSeenInv
      <3> QED BY <3>1, <3>2
    <2> QED BY <1>7, <2>1 DEF ReadRow, OcSeenInv, Recent
  <1>8. ASSUME NEW y \in OcProcs \X OcControls, PutEntry(y) \/ EntryEnds(y) PROVE OcSeenInv'
    <2>1. \A c \in OcCalls : ocAnswer[c] = "ok" /\ ocApplied[c] > 0 =>
            /\ Recent(c, ocCache'[<<OcProc[c], OcTarget[c]>>])
            /\ Recent(c, ocReading'[<<OcProc[c], OcTarget[c]>>])
      <3> SUFFICES ASSUME NEW c \in OcCalls, ocAnswer[c] = "ok", ocApplied[c] > 0
                   PROVE  /\ Recent(c, ocCache'[<<OcProc[c], OcTarget[c]>>])
                          /\ Recent(c, ocReading'[<<OcProc[c], OcTarget[c]>>])
        OBVIOUS
      <3> DEFINE x == <<OcProc[c], OcTarget[c]>>
      <3>1. x \in OcProcs \X OcControls BY OcCallTypes DEF OcSeenInv
      <3>2. /\ ocCache'[x] \in {ocCache[x], ocReading[x], OcNone}
            /\ ocReading'[x] \in {ocReading[x], OcNone}
        BY <1>8, <3>1 DEF PutEntry, EntryEnds
      <3> QED BY <3>2 DEF OcSeenInv, Recent
    <2> QED BY <1>8, <2>1 DEF PutEntry, EntryEnds, OcSeenInv, Recent
  <1>9. ASSUME NEW p \in OcProcs, ProcDies(p) PROVE OcSeenInv'
    <2>1. \A c \in OcCalls : ocAnswer[c] = "ok" /\ ocApplied[c] > 0 =>
            /\ Recent(c, ocCache'[<<OcProc[c], OcTarget[c]>>])
            /\ Recent(c, ocReading'[<<OcProc[c], OcTarget[c]>>])
      <3> SUFFICES ASSUME NEW c \in OcCalls, ocAnswer[c] = "ok", ocApplied[c] > 0
                   PROVE  /\ Recent(c, ocCache'[<<OcProc[c], OcTarget[c]>>])
                          /\ Recent(c, ocReading'[<<OcProc[c], OcTarget[c]>>])
        OBVIOUS
      <3> DEFINE x == <<OcProc[c], OcTarget[c]>>
      <3>1. x \in OcProcs \X OcControls BY OcCallTypes DEF OcSeenInv
      <3>2. ocCache'[x] \in {ocCache[x], OcNone} /\ ocReading'[x] \in {ocReading[x], OcNone}
        BY <1>9, <3>1 DEF ProcDies
      <3> QED BY <3>2 DEF OcSeenInv, Recent
    <2> QED BY <1>9, <2>1 DEF ProcDies, OcSeenInv, Recent
  <1>10. ASSUME NEW a \in OcActors, RevokeOperator(a) PROVE OcSeenInv'
    BY <1>10 DEF RevokeOperator, OcSeenInv, Recent
  <1>11. ASSUME NEW s \in OcSuppliers, NEW d \in OcDocks, DockReputation(s, d) PROVE OcSeenInv'
    BY <1>11 DEF DockReputation, OcSeenInv, Recent
  <1> QED BY <1>1, <1>2, <1>3, <1>4, <1>5, <1>6, <1>7, <1>8, <1>9, <1>10, <1>11 DEF OcNext

LEMMA OcWorthStep == OcInv /\ OcNext => NoAdjustmentLost'
  <1> SUFFICES ASSUME OcInv, OcNext PROVE NoAdjustmentLost' OBVIOUS
  <1> USE DEF OcInv, OcTypeOK, NoAdjustmentLost
  <1>1. ASSUME NEW c \in OcCalls, AdjustReputation(c) PROVE NoAdjustmentLost'
    <2>1. ocBefore[c] = ocWorth[OcTarget[c]]
      BY <1>1 DEF AdjustReputation, OcTxInv
    <2> QED BY <1>1, <2>1 DEF AdjustReputation
  <1>2. ASSUME NEW s \in OcSuppliers, NEW d \in OcDocks, DockReputation(s, d)
        PROVE  NoAdjustmentLost'
    BY <1>2 DEF DockReputation
  <1>3. CASE UNCHANGED <<ocRep, ocWorth>> BY <1>3
  <1> QED BY <1>1, <1>2, <1>3 DEF OcNext, Authenticate, Begin, AnswerRecorded, SetControl,
             Invalidate, Rollback, ReadRow, PutEntry, EntryEnds, ProcDies, RevokeOperator

LEMMA OcInvariant == OcSpec => []OcInv
  <1>1. OcInv /\ UNCHANGED ocVars => OcInv'
    <2> SUFFICES ASSUME OcInv, UNCHANGED ocVars PROVE OcInv' OBVIOUS
    <2>1. OcTypeOK' /\ NoAdjustmentLost' BY DEF OcInv, ocVars, OcTypeOK, NoAdjustmentLost
    <2>2. OcTxInv' BY DEF OcInv, ocVars, OcTxInv
    <2>3. OcRecordInv' BY DEF OcInv, ocVars, OcRecordInv, OnRecord
    <2>4. OcSeenInv' BY DEF OcInv, ocVars, OcSeenInv, Recent
    <2> QED BY <2>1, <2>2, <2>3, <2>4 DEF OcInv
  <1>2. OcInv /\ [OcNext]_ocVars => OcInv'
    BY <1>1, OcTypeStep, OcTxStep, OcRecordStep, OcSeenStep, OcWorthStep DEF OcInv
  <1> QED BY <1>2, OcInitInv, PTL DEF OcSpec

\* Only a request that sets a control writes under a control's reference, and it
\* writes what it asked.
LEMMA OcSaysStep == OcInv /\ OcSaysInv /\ OcNext => OcSaysInv'
  <1> SUFFICES ASSUME OcInv, OcSaysInv, OcNext, NEW c \in OcCalls, ~ Adjusts(c),
                      ocRow'[KeyOf(c)] # OcNone
               PROVE  SaysWhatWasAsked(c, ocRow'[KeyOf(c)])
    BY DEF OcSaysInv, SaysWhatWasAsked
  <1>1. CASE ocRow'[KeyOf(c)] = ocRow[KeyOf(c)]
    BY <1>1 DEF OcSaysInv, SaysWhatWasAsked
  <1>2. ASSUME NEW b \in OcCalls, SetControl(b), KeyOf(b) = KeyOf(c)
        PROVE  SaysWhatWasAsked(c, ocRow'[KeyOf(c)])
    <2>1. ocRow' = [ocRow EXCEPT ![KeyOf(b)] = RowBy(b, OcAsked[b])]
      BY <1>2 DEF SetControl, Recorded
    <2>2. ocRow'[KeyOf(c)] = RowBy(b, OcAsked[b])
      BY <1>2, <2>1, OcCallTypes DEF OcInv, OcTypeOK
    <2>3. /\ RowBy(b, OcAsked[b]).intent = IntentOf(b) /\ RowBy(b, OcAsked[b]).actor = OcActor[b]
          /\ RowBy(b, OcAsked[b]).after = OcAsked[b]
      BY DEF RowBy
    <2> QED BY <1>2, <2>2, <2>3 DEF SaysWhatWasAsked
  <1>3. ASSUME NEW b \in OcCalls, SetControl(b), KeyOf(b) # KeyOf(c)
        PROVE  ocRow'[KeyOf(c)] = ocRow[KeyOf(c)]
    BY <1>3, OcCallTypes DEF SetControl, Recorded, OcInv, OcTypeOK
  <1>4. ASSUME NEW b \in OcCalls, AdjustReputation(b)
        PROVE  ocRow'[KeyOf(c)] = ocRow[KeyOf(c)]
    <2>1. KeyOf(b) # KeyOf(c) BY <1>4 DEF AdjustReputation, Adjusts, KeyOf
    <2> QED BY <1>4, <2>1, OcCallTypes DEF AdjustReputation, Recorded, OcInv, OcTypeOK
  <1>5. CASE UNCHANGED ocRow BY <1>1, <1>5
  <1> QED BY <1>1, <1>2, <1>3, <1>4, <1>5 DEF OcNext, Authenticate, Begin, AnswerRecorded,
             Invalidate, Rollback, ReadRow, PutEntry, EntryEnds, ProcDies, RevokeOperator,
             DockReputation

LEMMA OcSays == OcSpec => []OcSaysInv
  <1>1. ASSUME OcInit PROVE OcSaysInv
    <2>1. \A c \in OcCalls : ocRow[KeyOf(c)] = OcNone BY <1>1, OcCallTypes DEF OcInit
    <2> QED BY <2>1 DEF OcSaysInv
  <1>2. OcSaysInv /\ UNCHANGED ocVars => OcSaysInv'
    BY DEF OcSaysInv, SaysWhatWasAsked, ocVars
  <1>3. OcInv /\ OcSaysInv /\ [OcNext]_ocVars => OcSaysInv'
    BY <1>2, OcSaysStep
  <1> QED BY <1>1, <1>3, OcInvariant, PTL DEF OcSpec

\* Whoever is told a change was made finds it on record; of a control, what they or an
\* indistinct request of theirs asked.
THEOREM OperatorConfirmed == OcSpec => []ConfirmedIsRecorded
  <1>1. OcInv /\ OcSaysInv => ConfirmedIsRecorded
    <2>1. \A c \in OcCalls :
            /\ IntentOf(c).target = OcTarget[c] /\ IntentOf(c).reason = OcReason[c]
            /\ Adjusts(c) => IntentOf(c).delta = OcAsked[c]
      BY DEF IntentOf
    <2> SUFFICES ASSUME OcInv, OcSaysInv, NEW c \in OcCalls, ocAnswer[c] = "ok"
                 PROVE  /\ OnRecord(c)
                        /\ ~ Adjusts(c) => \E d \in Indistinct(c) :
                                               ocRow[KeyOf(c)].after = OcAsked[d]
      BY <2>1 DEF OnRecord, ConfirmedIsRecorded
    <2>2. OnRecord(c) BY DEF OcInv, OcRecordInv
    <2>3. ASSUME ~ Adjusts(c)
          PROVE  \E d \in Indistinct(c) : ocRow[KeyOf(c)].after = OcAsked[d]
      <3>1. /\ ocRow[KeyOf(c)] # OcNone
            /\ ocRow[KeyOf(c)].intent = IntentOf(c) /\ ocRow[KeyOf(c)].actor = OcActor[c]
        BY <2>2 DEF OnRecord
      <3>2. SaysWhatWasAsked(c, ocRow[KeyOf(c)]) BY <2>3, <3>1 DEF OcSaysInv
      <3>3. PICK d \in OcCalls :
              /\ KeyOf(d) = KeyOf(c) /\ ocRow[KeyOf(c)].intent = IntentOf(d)
              /\ ocRow[KeyOf(c)].actor = OcActor[d] /\ ocRow[KeyOf(c)].after = OcAsked[d]
        BY <3>2 DEF SaysWhatWasAsked
      <3>4. d \in Indistinct(c) BY <3>1, <3>3 DEF Indistinct
      <3> QED BY <3>3, <3>4
    <2> QED BY <2>2, <2>3
  <1> QED BY <1>1, OcInvariant, OcSays, PTL

\* No operator's adjustment and no change by verification is lost, whatever
\* transactions overlap.
THEOREM OperatorAdjustments == OcSpec => []NoAdjustmentLost
  BY OcInvariant, PTL DEF OcInv

\* A process that answered a change itself is behind it only through a read that overlaps.
THEOREM OperatorSees == OcSpec => []OwnChangeIsSeen
  <1>1. OcInv => OwnChangeIsSeen
    BY DEF OcInv, OcSeenInv, Recent, OwnChangeIsSeen
  <1> QED BY <1>1, OcInvariant, PTL

\* Nothing is recorded in the name of an operator whose credential was revoked before.
THEOREM OperatorRevoked == OcSpec => [][RevokedChangesNothing]_ocVars
  <1> DEFINE Step == \A c \in OcCalls : OcActor[c] \notin ocStands =>
                       \/ ocRow'[KeyOf(c)] = ocRow[KeyOf(c)]
                       \/ ocRow'[KeyOf(c)].actor # OcActor[c]
  <1>1. OcInv /\ OcNext => Step
    <2> SUFFICES ASSUME OcInv, OcNext, NEW c \in OcCalls, OcActor[c] \notin ocStands
                 PROVE  \/ ocRow'[KeyOf(c)] = ocRow[KeyOf(c)]
                        \/ ocRow'[KeyOf(c)].actor # OcActor[c]
      OBVIOUS
    <2> USE DEF OcInv, OcTypeOK, OcTxInv
    <2>1. ASSUME NEW b \in OcCalls, NEW after, ocStage[b] = "tx", Recorded(b, after)
          PROVE  \/ ocRow'[KeyOf(c)] = ocRow[KeyOf(c)]
                 \/ ocRow'[KeyOf(c)].actor # OcActor[c]
      BY <2>1, OcCallTypes DEF Recorded, RowBy
    <2>2. ASSUME NEW b \in OcCalls, AdjustReputation(b) \/ SetControl(b)
          PROVE  \E after : ocStage[b] = "tx" /\ Recorded(b, after)
      BY <2>2 DEF AdjustReputation, SetControl
    <2>3. CASE UNCHANGED ocRow BY <2>3
    <2> QED BY <2>1, <2>2, <2>3 DEF OcNext, Authenticate, Begin, AnswerRecorded, Invalidate,
               Rollback, ReadRow, PutEntry, EntryEnds, ProcDies, RevokeOperator, DockReputation
  <1>2. ASSUME OcInv, [OcNext]_ocVars
        PROVE  [\A c \in OcCalls : OcActor[c] \notin ocStands => ocRow'[KeyOf(c)] = ocRow[KeyOf(c)]
                  \/ ocRow'[KeyOf(c)].actor # OcActor[c]]_ocVars
    BY <1>1, <1>2
  <1> QED BY <1>2, OcInvariant, PTL DEF OcSpec, RevokedChangesNothing

\* Any number of operators, requests, retries and processes: each confirmed change is on
\* record (of a control: what its operator asked under that ticket, control and reason, be
\* it in this or in another request) and no change of a reputation is lost; a process that
\* confirmed a change caches an older state only from a read that overlapped it.
THEOREM OperatorsSafe == OcSpec => []OperatorsHeard
  <1>1. ConfirmedIsRecorded /\ NoAdjustmentLost /\ OwnChangeIsSeen => OperatorsHeard BY DEF OperatorsHeard
  <1> QED BY <1>1, OperatorConfirmed, OperatorAdjustments, OperatorSees, PTL
=============================================================================
