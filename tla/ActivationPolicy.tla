--------------------------- MODULE ActivationPolicy ---------------------------
(***************************************************************************)
(* The activation policy: which runtime cells may take buyer work today    *)
(* (src/control/activation_policy.go, runtime_profile_sync.go,             *)
(* runtime_cell_promotion.go).                                             *)
(*                                                                         *)
(* Every process carries a capability document compiled into it.  The      *)
(* database holds an append-only table of policy epochs; an epoch states a *)
(* lifecycle for some of the profile and its cells.  A process works from  *)
(* a cached snapshot of the table, read under its own document, and an     *)
(* admission is checked against the newest epoch when it is stored.        *)
(*                                                                         *)
(* One profile is modelled.  A policy write holds the epoch lock to its    *)
(* commit and a migration holds the registry rows every write updates, so  *)
(* each is one step; the snapshot a process keeps is read and installed in *)
(* steps of its own.                                                       *)
(***************************************************************************)
EXTENDS Integers, FiniteSets, Sequences, FiniteSetsExt

CONSTANTS
    ApProcs,     \* control processes
    ApCells,     \* cells of the profile
    ApProfile,   \* the key of the statement about the profile itself
    ApDocs,      \* capability documents in release order
    ApHistory,   \* the policy epochs written by earlier releases
    ApWrites,    \* the operator's statements: pairs <<key, lifecycle>>
    ApMaxEpochs, \* bound on the length of the table
    ApNone

Keys2 == ApCells \cup {ApProfile}
Lifecycles == {"REJECTED_FOR_CONTRACT", "QUARANTINED", "VALIDATED", "CANARY", "ACTIVE"}
Rank == [s \in Lifecycles |-> CASE s = "VALIDATED" -> 2 [] s = "CANARY" -> 4
                                [] s = "ACTIVE" -> 5 [] OTHER -> 0]
RoutableState(s) == s \in {"CANARY", "ACTIVE"}
Capabilities == {ApDocs[d].capability : d \in DOMAIN ApDocs}

VARIABLES
    apTable,    \* runtime_activation_policies, by policy_revision
    apRegistry, \* lifecycle and routable of runtime_profile_models
    apProc,     \* apProc[p]: document, phase and cached snapshot of a process
    apWriter,   \* apWriter[p]: what follows the commit of its policy write
    apAdmit,    \* apAdmit[p]: an admission in progress
    apLast      \* the last admission that was stored

apVars == <<apTable, apRegistry, apProc, apWriter, apAdmit, apLast>>

-----------------------------------------------------------------------------
(* What a table of statements means under a document.                      *)

\* cellLifecycle, EffectiveLifecycle: a cell's own state, floored by its profile.
Effective(doc, overlay, c) ==
    LET of(k) == IF k \in DOMAIN overlay THEN overlay[k] ELSE doc.state[k]
    IN IF Rank[of(c)] <= Rank[of(ApProfile)] THEN of(c) ELSE of(ApProfile)
NoOverlay == [k \in {} |-> "ACTIVE"]

\* cellRoutable: ACTIVE in the policy and bound in the document.
CellRoutable(doc, overlay, c) == Effective(doc, overlay, c) = "ACTIVE" /\ c \in doc.bound

\* documentActivationEntries.
Declared(doc, k) ==
    [capability |-> doc.capability,
     state      |-> IF k = ApProfile THEN doc.state[k] ELSE Effective(doc, NoOverlay, k),
     receipt    |-> doc.receipt[k], source |-> "document", target |-> 0]

\* currentActivationEntries: the newest statement about each key.
Newest(table, k, upto) == Max({0} \cup {i \in 1 .. upto : k \in DOMAIN table[i]})
Restored(table, k, s) ==
    IF s.source # "rollback" THEN s.source
    ELSE LET i == Newest(table, k, s.target) IN IF i = 0 THEN "" ELSE table[i][k].source

\* documentSourcedActivationFallsBackToDocument.
FromDocument(source, restored) == source = "document" \/ (source = "rollback" /\ restored = "document")

\* Mutant: a statement of the document is authority though the document has changed.
HasCurrentAuthority_Once(doc, k, s, restored) ==
    FromDocument(s.source, restored) /\ s.capability = doc.capability
\* storedRoutableEntryHasCurrentGlobalAuthority.
HasCurrentAuthority(doc, k, s, restored) ==
    /\ FromDocument(s.source, restored)
    /\ s.capability = doc.capability /\ s.state = Declared(doc, k).state
    /\ s.receipt = doc.receipt[k]
    /\ s.state = "ACTIVE" =>
        \E c \in IF k = ApProfile THEN ApCells ELSE {k} : CellRoutable(doc, NoOverlay, c)

\* A document seed that no longer equals the document gives way to it.
FallsBack(source, restored) == FromDocument(source, restored)

\* activationSnapshotFrom: statements about another capability are dropped, a
\* routable one without current authority is dropped or read as a quarantine.
Overlay(doc, table) ==
    LET at(k)      == table[Newest(table, k, Len(table))][k]
        lapsed(k)  == /\ RoutableState(at(k).state)
                      /\ ~HasCurrentAuthority(doc, k, at(k), Restored(table, k, at(k)))
        applied(k) == /\ Newest(table, k, Len(table)) # 0
                      /\ at(k).capability = doc.capability
                      /\ ~(lapsed(k) /\ FallsBack(at(k).source, Restored(table, k, at(k))))
    IN [k \in {j \in Keys2 : applied(j)} |-> IF lapsed(k) THEN "QUARANTINED" ELSE at(k).state]
Snapshot(doc, table) == [rev |-> Len(table), overlay |-> Overlay(doc, table)]

-----------------------------------------------------------------------------
(* Transactions on the table.                                              *)

\* The policy a write projects into the registry is the one it leaves.
Projection(doc, before, after) == Overlay(doc, after)

\* projectActivationPolicyIntoRegistry, onto the rows of the document's revision.
Projected(doc, before, after, registry) ==
    [registry EXCEPT ![doc.capability] =
        [c \in ApCells |-> [state    |-> Effective(doc, Projection(doc, before, after), c),
                            routable |-> CellRoutable(doc, Projection(doc, before, after), c)]]]
\* runtime_profile_models_routable_cell_uniq.
CellClaimedOnce(registry) ==
    \A c \in ApCells : Cardinality({k \in Capabilities : registry[k][c].routable}) <= 1
Demoted(doc, registry) ==
    [k \in Capabilities |->
        [c \in ApCells |-> IF k # doc.capability /\ registry[k][c].routable
                           THEN [state |-> "RETIRED", routable |-> FALSE] ELSE registry[k][c]]]

Doc(p) == ApDocs[apProc[p].doc]
Serving(p) == apProc[p].at = "serving"

\* insertActivationPolicyLocked and the projection that follows it.
WritePolicy(p, statements) ==
    /\ apTable' = Append(apTable, statements)
    /\ apRegistry' = Projected(Doc(p), apTable, apTable', apRegistry)
    /\ CellClaimedOnce(apRegistry')

\* documentActivationSeedDrifted.
SeedDrifted(stored, want) == stored.source = "document" /\ [stored EXCEPT !.target = 0] # want

\* syncActivationPolicy: what the table lacks or holds as an outdated seed.
Unseeded(doc, table) ==
    {k \in Keys2 : LET i == Newest(table, k, Len(table))
                   IN i = 0 \/ SeedDrifted(table[i][k], Declared(doc, k))}

\* syncRuntimeProfiles: a process starts on a document, demotes the other
\* revisions, writes its own rows and projects the policy onto them.
Migrate(p, d) ==
    /\ apProc[p].at = "down" /\ d >= apProc[p].doc
    /\ LET doc    == ApDocs[d]
           seeded == Unseeded(doc, apTable)
       IN /\ Len(apTable) < ApMaxEpochs \/ seeded = {}
          /\ apTable' = IF seeded = {} THEN apTable
                        ELSE Append(apTable, [k \in seeded |-> Declared(doc, k)])
          /\ apRegistry' = Projected(doc, apTable, apTable', Demoted(doc, apRegistry))
          /\ CellClaimedOnce(apRegistry')
    /\ apProc' = [apProc EXCEPT ![p] = [doc |-> d, at |-> "migrated", cache |-> ApNone]]
    /\ UNCHANGED <<apWriter, apAdmit, apLast>>

\* loadActivationAtStartup, after the migration lock is released.
LoadActivation(p) ==
    /\ apProc[p].at = "migrated"
    /\ apProc' = [apProc EXCEPT ![p].at = "serving", ![p].cache = Snapshot(Doc(p), apTable)]
    /\ UNCHANGED <<apTable, apRegistry, apWriter, apAdmit, apLast>>

\* requirePromotionGateVerdict: a verdict covers one traffic scope and no statement
\* about a cell is that narrow, so after all its checks it refuses every promotion.
GateRefuses(state) == RoutableState(state)

\* writeActivationPolicy: what the gate and the measurements do not allow.
OperatorMay(p, k, state) ==
    /\ ~GateRefuses(state)
    /\ LET now == Overlay(Doc(p), apTable)
           own == IF k \in DOMAIN now THEN now[k] ELSE Doc(p).state[k]
       IN k # ApProfile /\ own = "REJECTED_FOR_CONTRACT" => state = own

\* ApplyActivationPolicy.
ApplyPolicy(p, k, state) ==
    /\ Serving(p) /\ apWriter[p] = ApNone /\ Len(apTable) < ApMaxEpochs
    /\ OperatorMay(p, k, state)
    /\ WritePolicy(p, [j \in {k} |->
            [capability |-> Doc(p).capability, state |-> state, receipt |-> "reviewed",
             source |-> "operator", target |-> 0]])
    /\ apWriter' = [apWriter EXCEPT ![p] = Snapshot(Doc(p), apTable')]
    /\ UNCHANGED <<apProc, apAdmit, apLast>>

\* RollbackActivationPolicy: the statements of the target written forward, the
\* ones that no longer have authority as a quarantine.
Forward(p, k, t) ==
    LET s == apTable[Newest(apTable, k, t)][k]
        r == [s EXCEPT !.source = "rollback", !.target = t]
    IN IF RoutableState(s.state) /\ ~HasCurrentAuthority(Doc(p), k, r, s.source)
       THEN [r EXCEPT !.state = "QUARANTINED"] ELSE r
RollbackPolicy(p, t) ==
    LET stated == {k \in Keys2 : Newest(apTable, k, t) # 0}
    IN /\ Serving(p) /\ apWriter[p] = ApNone /\ Len(apTable) < ApMaxEpochs
       /\ stated # {}
       /\ \A k \in stated :
            /\ Forward(p, k, t).capability = Doc(p).capability
            /\ RoutableState(Forward(p, k, t).state) \/ OperatorMay(p, k, Forward(p, k, t).state)
       /\ WritePolicy(p, [k \in stated |-> Forward(p, k, t)])
       /\ apWriter' = [apWriter EXCEPT ![p] = Snapshot(Doc(p), apTable')]
       /\ UNCHANGED <<apProc, apAdmit, apLast>>

-----------------------------------------------------------------------------
(* The cached snapshot.                                                    *)

\* adoptActivationIfNewer.
Newer2(cached, candidate) == IF candidate.rev <= cached.rev THEN cached ELSE candidate
Adopt(p, candidate) == apProc' = [apProc EXCEPT ![p].cache = Newer2(@, candidate)]

\* After the commit the writer installs the snapshot of its transaction.
AdoptCommitted(p) ==
    /\ Serving(p) /\ apWriter[p] # ApNone
    /\ Adopt(p, apWriter[p])
    /\ apWriter' = [apWriter EXCEPT ![p] = ApNone]
    /\ UNCHANGED <<apTable, apRegistry, apAdmit, apLast>>

\* activationForNewAdmission: the table is read, then the newer of the two is
\* installed; a cache ahead of what was read is a refusal.
ReadForAdmission(p) ==
    /\ Serving(p) /\ apAdmit[p] = ApNone
    /\ apAdmit' = [apAdmit EXCEPT ![p] = [at |-> "read", snap |-> Snapshot(Doc(p), apTable)]]
    /\ UNCHANGED <<apTable, apRegistry, apProc, apWriter, apLast>>
PolicyAdmissible(p, snap) == {c \in ApCells : CellRoutable(Doc(p), snap.overlay, c)}
InstallForAdmission(p) ==
    /\ Serving(p) /\ apAdmit[p] # ApNone /\ apAdmit[p].at = "read"
    /\ Adopt(p, apAdmit[p].snap)
    /\ IF apProc'[p].cache.rev = apAdmit[p].snap.rev /\ PolicyAdmissible(p, apProc'[p].cache) # {}
       THEN \E c \in PolicyAdmissible(p, apProc'[p].cache) :
                apAdmit' = [apAdmit EXCEPT ![p] = [at |-> "classified", rev |-> @.snap.rev, cell |-> c]]
       ELSE apAdmit' = [apAdmit EXCEPT ![p] = ApNone]
    /\ UNCHANGED <<apTable, apRegistry, apWriter, apLast>>

\* Mutant: the epoch is compared with the process's own snapshot.
EpochCurrent_Cached(p, rev) == apProc[p].cache.rev = rev
\* guardActivationAdmissionTx, under the shared form of the epoch lock.
EpochCurrent(p, rev) == Len(apTable) = rev
Admit(p) ==
    /\ Serving(p) /\ apAdmit[p] # ApNone /\ apAdmit[p].at = "classified"
    /\ apLast' = IF EpochCurrent(p, apAdmit[p].rev)
                 THEN [proc |-> p, rev |-> apAdmit[p].rev, cell |-> apAdmit[p].cell] ELSE apLast
    /\ apAdmit' = [apAdmit EXCEPT ![p] = ApNone]
    /\ UNCHANGED <<apTable, apRegistry, apProc, apWriter>>

\* A process stops, or is replaced by a later release.
Stop(p) ==
    /\ apProc[p].at # "down"
    /\ apProc' = [apProc EXCEPT ![p].at = "down", ![p].cache = ApNone]
    /\ apWriter' = [apWriter EXCEPT ![p] = ApNone] /\ apAdmit' = [apAdmit EXCEPT ![p] = ApNone]
    /\ UNCHANGED <<apTable, apRegistry, apLast>>

ApInit ==
    /\ apTable = ApHistory
    /\ apRegistry = [k \in Capabilities |-> [c \in ApCells |-> [state |-> "RETIRED", routable |-> FALSE]]]
    /\ apProc = [p \in ApProcs |-> [doc |-> 1, at |-> "down", cache |-> ApNone]]
    /\ apWriter = [p \in ApProcs |-> ApNone] /\ apAdmit = [p \in ApProcs |-> ApNone]
    /\ apLast = ApNone

ApNext == \E p \in ApProcs :
    \/ \E d \in DOMAIN ApDocs : Migrate(p, d)
    \/ LoadActivation(p) \/ AdoptCommitted(p) \/ Stop(p)
    \/ \E w \in ApWrites : ApplyPolicy(p, w[1], w[2])
    \/ \E t \in 1 .. Len(apTable) : RollbackPolicy(p, t)
    \/ ReadForAdmission(p) \/ InstallForAdmission(p) \/ Admit(p)
ApSpec == ApInit /\ [][ApNext]_apVars

-----------------------------------------------------------------------------
(* Properties.                                                             *)

\* No sequence of policy writes, rollbacks and rolling releases makes a process
\* route buyers to a cell its own document does not declare ACTIVE: a promotion
\* written under an earlier gate is not revived by restoring it.
AdvertisedIsDeclared ==
    \A p \in ApProcs : Serving(p) =>
        \A c \in ApCells : CellRoutable(Doc(p), apProc[p].cache.overlay, c) =>
            Declared(Doc(p), c).state = "ACTIVE"

\* A cell the document declares ACTIVE and bound, and about which nobody but the
\* document ever stated anything, is served by every process that is up to date,
\* also across releases that only replace the receipt it rests on.
DocumentIsServed ==
    \A p \in ApProcs, c \in ApCells :
        /\ Serving(p) /\ apProc[p].cache.rev = Len(apTable)
        /\ CellRoutable(Doc(p), NoOverlay, c)
        /\ \A i \in 1 .. Len(apTable) : \A k \in {c, ApProfile} \cap DOMAIN apTable[i] :
                apTable[i][k].source = "document"
        => CellRoutable(Doc(p), apProc[p].cache.overlay, c)

\* The registry rows the scheduler reads do not keep a cell open that the newest
\* statement about it, written for the same capability, has closed.
RegistryNotWider ==
    \A k \in Capabilities, c \in ApCells :
        LET i == Newest(apTable, c, Len(apTable))
        IN i # 0 /\ apTable[i][c].capability = k /\ ~RoutableState(apTable[i][c].state)
           => ~apRegistry[k][c].routable

\* A deployment or migration does not take back what an operator or a rollback
\* stated: the document is never written over their statement.
OperatorStands ==
    \A i \in 2 .. Len(apTable) : \A k \in DOMAIN apTable[i] :
        apTable[i][k].source = "document" =>
            LET j == Newest(apTable, k, i - 1) IN j # 0 => apTable[j][k].source = "document"

\* Processes of different releases, the policy table and the registry agree on what is
\* routed, and operators have the last word.
PolicyHolds ==
    /\ AdvertisedIsDeclared /\ DocumentIsServed /\ RegistryNotWider /\ OperatorStands

\* An admission is stored only for a cell that the policy in force at that moment
\* routes: a quarantine committed by any process stops every later admission.
AdmissionIsCurrent ==
    apLast' # apLast =>
     CellRoutable(Doc(apLast'.proc), Overlay(Doc(apLast'.proc), apTable), apLast'.cell)

\* A process never goes back to an older epoch, whatever order its refreshes and
\* its own writes finish in.
CacheAdvances ==
    \A p \in ApProcs : Serving(p) /\ apProc'[p].at = "serving" =>
         apProc[p].cache.rev <= apProc'[p].cache.rev
=============================================================================
