-------------------------- MODULE OperatorControls --------------------------
(***************************************************************************)
(* Privileged changes by operators (admin_mutation_audit.go,                *)
(* admin_authority.go, operational_controls.go, AdminAdjustReputation): a    *)
(* request names an incident or ticket; the first transaction under that    *)
(* reference changes the state and records who, what and why, and a retry    *)
(* is answered from the record.  Two kinds stand for all: pausing a part of *)
(* the platform, and adjusting a supplier's reputation, which verification   *)
(* changes as well.                                                         *)
(*                                                                         *)
(* Processes cache whether a part is paused.  The lifetime of an entry is    *)
(* abstract: it may end at any moment.                                      *)
(***************************************************************************)
EXTENDS Integers, FiniteSets

CONSTANTS OcCalls, OcProcs, OcControls, OcSuppliers, OcActors, OcRefs,
          OcKind, OcTarget, OcReason, OcRef, OcActor, OcProc,   \* what a call asks, by whom, where
          OcAsked,        \* call -> paused, or the change of reputation
          OcSealed,       \* controls no request may resume (payment authority SEALED)
          OcDocks,        \* changes of reputation verification makes
          OcTop,          \* the highest reputation; the lowest is 0
          OcMaxDocks, OcNone

OcKinds == {"operational_control_changed", "reputation_adjusted"}

ASSUME OperatorAssumption ==
  /\ OcKind \in [OcCalls -> OcKinds] /\ OcRef \in [OcCalls -> OcRefs]
  /\ OcActor \in [OcCalls -> OcActors] /\ OcProc \in [OcCalls -> OcProcs]
  /\ DOMAIN OcTarget = OcCalls /\ DOMAIN OcAsked = OcCalls
  /\ \A c \in OcCalls :
       IF OcKind[c] = "reputation_adjusted"
       THEN OcTarget[c] \in OcSuppliers /\ OcAsked[c] \in Int \ {0}
       ELSE OcTarget[c] \in OcControls /\ OcAsked[c] \in BOOLEAN
  /\ OcTop \in Nat /\ OcDocks \subseteq Int /\ OcMaxDocks \in Nat
  /\ OcNone \notin {"ok", "refused", "failed"}

VARIABLES ocPaused, ocVersion,   \* operational_controls
          ocRep,                 \* suppliers.reputation
          ocRow,                 \* admin_actions, by <<kind, correlation_ref>>
          ocStands,              \* operators whose credential is not revoked
          ocStage, ocBefore,     \* each call, and the row it read under lock
          ocAnswer,              \* what it was told
          ocCache,               \* <<process, control>> -> what it caches
          ocReading,             \* <<process, control>> -> what a reader has read and not yet cached
          ocApplied,             \* call -> the version it wrote (history)
          ocWorth,               \* reputation with every change applied in commit order (history)
          ocDocked               \* number of changes by verification
ocVars == <<ocPaused, ocVersion, ocRep, ocRow, ocStands, ocStage, ocBefore, ocAnswer, ocCache,
            ocReading, ocApplied, ocWorth, ocDocked>>

OcInit ==
  /\ ocPaused = [k \in OcControls |-> FALSE]
  /\ ocVersion = [k \in OcControls |-> 1]
  /\ ocRep \in [OcSuppliers -> {OcTop}] /\ ocWorth = ocRep
  /\ ocRow = [x \in OcKinds \X OcRefs |-> OcNone]
  /\ ocStands = OcActors
  /\ ocStage = [c \in OcCalls |-> "new"]
  /\ ocBefore = [c \in OcCalls |-> OcNone]
  /\ ocAnswer = [c \in OcCalls |-> OcNone]
  /\ ocCache = [x \in OcProcs \X OcControls |-> OcNone]
  /\ ocReading = [x \in OcProcs \X OcControls |-> OcNone]
  /\ ocApplied = [c \in OcCalls |-> 0]
  /\ ocDocked = 0

(***************************************************************************)
(* A privileged request.                                                    *)
(***************************************************************************)
Adjusts(c) == OcKind[c] = "reputation_adjusted"
KeyOf(c) == <<OcKind[c], OcRef[c]>>

\* adminMutationRequestSHA256: what the digest covers.
IntentOf(c) == [target |-> OcTarget[c], reason |-> OcReason[c],
                delta |-> IF Adjusts(c) THEN OcAsked[c] ELSE OcNone]

Ends(c, answer) ==
  /\ ocStage' = [ocStage EXCEPT ![c] = "done"]
  /\ ocAnswer' = [ocAnswer EXCEPT ![c] = answer]

\* authAdmin, and the checks of the handler: a sealed part is not resumed.
Admissible(c) == OcActor[c] \in ocStands /\ (OcTarget[c] \in OcSealed => OcAsked[c])
Authenticate(c) ==
  /\ ocStage[c] = "new"
  /\ IF Admissible(c)
     THEN ocStage' = [ocStage EXCEPT ![c] = "in"] /\ UNCHANGED ocAnswer
     ELSE Ends(c, "refused")
  /\ UNCHANGED <<ocPaused, ocVersion, ocRep, ocRow, ocStands, ocBefore, ocCache, ocReading,
                 ocApplied, ocWorth, ocDocked>>

\* revalidateAdminActor
Revalidated(c) == OcActor[c] \in ocStands

\* The advisory lock of the reference and the row lock of the target.
InTx == {c \in OcCalls : ocStage[c] = "tx"}
TargetFree(c) == \A d \in InTx : Adjusts(c) = Adjusts(d) => OcTarget[d] # OcTarget[c]
KeyFree(c) == \A d \in InTx : KeyOf(d) # KeyOf(c)

\* Mutant: a reference is enough to be answered from the record.
SameRequest_AnyBody(c, row) == row.actor = OcActor[c]
\* acquireAdminMutationReplay: the recorded digest and operator.
SameRequest(c, row) == row.intent = IntentOf(c) /\ row.actor = OcActor[c]

Begin(c) ==
  /\ ocStage[c] = "in" /\ Revalidated(c) /\ KeyFree(c)
  /\ ocRow[KeyOf(c)] = OcNone /\ TargetFree(c)
  /\ ocStage' = [ocStage EXCEPT ![c] = "tx"]
  /\ ocBefore' = [ocBefore EXCEPT ![c] = IF Adjusts(c) THEN ocRep[OcTarget[c]]
                                         ELSE ocPaused[OcTarget[c]]]
  /\ UNCHANGED <<ocPaused, ocVersion, ocRep, ocRow, ocStands, ocAnswer, ocCache, ocReading,
                 ocApplied, ocWorth, ocDocked>>

AnswerRecorded(c) ==
  /\ ocStage[c] = "in"
  /\ \/ ~ Revalidated(c) /\ Ends(c, "refused")
     \/ /\ Revalidated(c) /\ KeyFree(c) /\ ocRow[KeyOf(c)] # OcNone
        /\ Ends(c, IF SameRequest(c, ocRow[KeyOf(c)]) THEN "ok" ELSE "refused")
  /\ UNCHANGED <<ocPaused, ocVersion, ocRep, ocRow, ocStands, ocBefore, ocCache, ocReading,
                 ocApplied, ocWorth, ocDocked>>

Clamp(n) == IF n < 0 THEN 0 ELSE IF n > OcTop THEN OcTop ELSE n

RowBy(c, after) == [intent |-> IntentOf(c), actor |-> OcActor[c], before |-> ocBefore[c],
                    after |-> after]
Recorded(c, after) == ocRow' = [ocRow EXCEPT ![KeyOf(c)] = RowBy(c, after)]

\* AdminAdjustReputation, from the locked row to the commit.
AdjustReputation(c) ==
  LET s == OcTarget[c]
      after == Clamp(ocBefore[c] + OcAsked[c])
  IN  /\ ocStage[c] = "tx" /\ Adjusts(c)
      /\ ocRep' = [ocRep EXCEPT ![s] = after]
      /\ ocWorth' = [ocWorth EXCEPT ![s] = Clamp(@ + OcAsked[c])]
      /\ Recorded(c, after)
      /\ Ends(c, "ok")
      /\ UNCHANGED <<ocPaused, ocVersion, ocStands, ocBefore, ocCache, ocReading, ocApplied, ocDocked>>

\* AdminSetOperationalControl: the commit, and then the process's own cache.
SetControl(c) ==
  LET k == OcTarget[c]
  IN  /\ ocStage[c] = "tx" /\ ~ Adjusts(c)
      /\ ocPaused' = [ocPaused EXCEPT ![k] = OcAsked[c]]
      /\ ocVersion' = [ocVersion EXCEPT ![k] = @ + 1]
      /\ ocApplied' = [ocApplied EXCEPT ![c] = ocVersion[k] + 1]
      /\ Recorded(c, OcAsked[c])
      /\ ocStage' = [ocStage EXCEPT ![c] = "committed"]
      /\ UNCHANGED <<ocRep, ocStands, ocBefore, ocAnswer, ocCache, ocReading, ocWorth, ocDocked>>

Dropped(entry) == OcNone
Invalidate(c) ==
  LET x == <<OcProc[c], OcTarget[c]>>
  IN  /\ ocStage[c] = "committed"
      /\ ocCache' = [ocCache EXCEPT ![x] = Dropped(@)]
      /\ ocReading' = [ocReading EXCEPT ![x] = IF @ = OcNone THEN @ ELSE [@ EXCEPT !.overlaps = TRUE]]
      /\ Ends(c, "ok")
      /\ UNCHANGED <<ocPaused, ocVersion, ocRep, ocRow, ocStands, ocBefore, ocApplied, ocWorth, ocDocked>>

\* A statement fails: the transaction is rolled back and the caller told.
Rollback(c) ==
  /\ ocStage[c] = "tx"
  /\ Ends(c, "failed")
  /\ UNCHANGED <<ocPaused, ocVersion, ocRep, ocRow, ocStands, ocBefore, ocCache, ocReading,
                 ocApplied, ocWorth, ocDocked>>

\* A process dies with what it has in memory; its callers hear nothing.
ProcDies(p) ==
  /\ ocStage' = [c \in OcCalls |-> IF OcProc[c] = p /\ ocStage[c] \in {"in", "tx", "committed"}
                                   THEN "lost" ELSE ocStage[c]]
  /\ ocCache' = [x \in OcProcs \X OcControls |-> IF x[1] = p THEN OcNone ELSE ocCache[x]]
  /\ ocReading' = [x \in OcProcs \X OcControls |-> IF x[1] = p THEN OcNone ELSE ocReading[x]]
  /\ UNCHANGED <<ocPaused, ocVersion, ocRep, ocRow, ocStands, ocBefore, ocAnswer, ocApplied,
                 ocWorth, ocDocked>>

\* An operator's credential is revoked; the share lock of a transaction holds it off.
RevokeOperator(a) ==
  /\ a \in ocStands /\ \A c \in InTx : OcActor[c] # a
  /\ ocStands' = ocStands \ {a}
  /\ UNCHANGED <<ocPaused, ocVersion, ocRep, ocRow, ocStage, ocBefore, ocAnswer, ocCache, ocReading,
                 ocApplied, ocWorth, ocDocked>>

\* DockReputation: verification moves the reputation under the same row lock.
DockReputation(s, d) ==
  /\ ocDocked < OcMaxDocks
  /\ \A c \in InTx : Adjusts(c) => OcTarget[c] # s
  /\ ocRep' = [ocRep EXCEPT ![s] = Clamp(@ + d)]
  /\ ocWorth' = [ocWorth EXCEPT ![s] = Clamp(@ + d)]
  /\ ocDocked' = ocDocked + 1
  /\ UNCHANGED <<ocPaused, ocVersion, ocRow, ocStands, ocStage, ocBefore, ocAnswer, ocCache,
                 ocReading, ocApplied>>

(***************************************************************************)
(* OperationalControlPaused: the cache, or the row, which is then cached.   *)
(***************************************************************************)
ReadRow(x) ==
  /\ ocCache[x] = OcNone /\ ocReading[x] = OcNone
  /\ ocReading' = [ocReading EXCEPT ![x] =
       [paused |-> ocPaused[x[2]], version |-> ocVersion[x[2]], overlaps |-> FALSE]]
  /\ UNCHANGED <<ocPaused, ocVersion, ocRep, ocRow, ocStands, ocStage, ocBefore, ocAnswer, ocCache,
                 ocApplied, ocWorth, ocDocked>>
PutEntry(x) ==
  /\ ocReading[x] # OcNone
  /\ ocCache' = [ocCache EXCEPT ![x] = ocReading[x]]
  /\ ocReading' = [ocReading EXCEPT ![x] = OcNone]
  /\ UNCHANGED <<ocPaused, ocVersion, ocRep, ocRow, ocStands, ocStage, ocBefore, ocAnswer,
                 ocApplied, ocWorth, ocDocked>>
EntryEnds(x) ==
  /\ ocCache[x] # OcNone
  /\ ocCache' = [ocCache EXCEPT ![x] = OcNone]
  /\ UNCHANGED <<ocPaused, ocVersion, ocRep, ocRow, ocStands, ocStage, ocBefore, ocAnswer,
                 ocReading, ocApplied, ocWorth, ocDocked>>

OcNext ==
  \/ \E c \in OcCalls : \/ Authenticate(c) \/ Begin(c) \/ AnswerRecorded(c) \/ AdjustReputation(c)
                        \/ SetControl(c) \/ Invalidate(c) \/ Rollback(c)
  \/ \E x \in OcProcs \X OcControls : ReadRow(x) \/ PutEntry(x) \/ EntryEnds(x)
  \/ \E p \in OcProcs : ProcDies(p)
  \/ \E a \in OcActors : RevokeOperator(a)
  \/ \E s \in OcSuppliers, d \in OcDocks : DockReputation(s, d)

OcSpec == OcInit /\ [][OcNext]_ocVars

(***************************************************************************)
(* Properties                                                               *)
(***************************************************************************)

\* The requests acquireAdminMutationReplay cannot tell from c: the digest has the
\* amount of an adjustment, but not whether a control is to be paused or resumed.
Indistinct(c) ==
  {d \in OcCalls : KeyOf(d) = KeyOf(c) /\ IntentOf(d) = IntentOf(c) /\ OcActor[d] = OcActor[c]}

\* Whoever is told a change was made finds it on record under their reference, in their
\* name and for the target, reason and amount they gave: neither a retry nor a
\* colleague's reuse of the ticket is confirmed by somebody else's change
\* (acquireAdminMutationReplay, insertAdminMutationAction).  Of a control the record
\* says what they asked, or what another request of theirs with the same ticket, control
\* and reason asked: a resume under the ticket of its pause is told ok, with the record
\* of the pause, and changes nothing.
ConfirmedIsRecorded ==
  \A c \in OcCalls : ocAnswer[c] = "ok" =>
    /\ ocRow[KeyOf(c)] # OcNone
    /\ ocRow[KeyOf(c)].actor = OcActor[c]
    /\ ocRow[KeyOf(c)].intent.target = OcTarget[c]
    /\ ocRow[KeyOf(c)].intent.reason = OcReason[c]
    /\ IF Adjusts(c) THEN ocRow[KeyOf(c)].intent.delta = OcAsked[c]
       ELSE \E d \in Indistinct(c) : ocRow[KeyOf(c)].after = OcAsked[d]

\* No adjustment is lost: the reputation is what all committed changes, the operators'
\* and verification's, give when applied one after the other, although an adjustment
\* writes what it computed from an earlier read (AdminAdjustReputation, DockReputation).
NoAdjustmentLost == ocRep = ocWorth

\* Nothing changes in the name of an operator whose credential was revoked before,
\* even when the request was let in while it stood (authAdmin, revalidateAdminActor).
RevokedChangesNothing ==
  \A c \in OcCalls : OcActor[c] \notin ocStands => ocRow'[KeyOf(c)] = ocRow[KeyOf(c)]
                       \/ ocRow'[KeyOf(c)].actor # OcActor[c]

\* A process that answered a change itself caches an older state of the control only
\* when a read that began before the change ended after it: put does not look at the
\* generation that invalidate advances, so that reader's entry stands for its lifetime
\* (invalidate, put).
OwnChangeIsSeen ==
  \A c \in OcCalls : ocAnswer[c] = "ok" /\ ocApplied[c] > 0 =>
    LET e == ocCache[<<OcProc[c], OcTarget[c]>>]
    IN  e # OcNone /\ e.version < ocApplied[c] => e.overlaps

\* Concurrent operators each find their own change, or one of theirs that the record
\* cannot tell from it, on record, in the reputation and, unless a read overlapped it, in
\* what their process enforces.
OperatorsHeard == ConfirmedIsRecorded /\ NoAdjustmentLost /\ OwnChangeIsSeen

-----------------------------------------------------------------------------
\* The values, journal rows, cache entries and stages the proofs type by.
OcValues == (0 .. OcTop) \cup BOOLEAN \cup {OcNone}
OcIntents == {IntentOf(c) : c \in OcCalls}
OcAdjustRows == [intent : OcIntents, actor : OcActors, before : 0 .. OcTop, after : 0 .. OcTop]
OcControlRows == [intent : OcIntents, actor : OcActors, before : BOOLEAN, after : BOOLEAN]
OcRows == OcAdjustRows \cup OcControlRows
OcEntries == [paused : BOOLEAN, version : Nat, overlaps : BOOLEAN]
OcStages == {"new", "in", "tx", "committed", "done", "lost"}

\* "No row" and "no entry" are neither a row nor an entry.
ASSUME OcNoneAssumption ==
  OcNone \notin OcAdjustRows /\ OcNone \notin OcControlRows /\ OcNone \notin OcEntries
=============================================================================
