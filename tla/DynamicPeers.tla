---------------------------- MODULE DynamicPeers ----------------------------
(***************************************************************************)
(* Dynamic tasks: a hedge for a straggler, a raced tail, a third opinion   *)
(* for a disputed chunk.  Such a task is born pinned to one chosen peer    *)
(* and paid from a reserve frozen with the job.                            *)
(*                                                                         *)
(* Choosing the peer reads a snapshot (Select...).  The transaction that   *)
(* follows locks the peer's worker row, then the job's reserve             *)
(* (CheckPeer), repeats the eligibility test under those locks, consumes   *)
(* one unit of the reserve and inserts the pinned task (Publish).          *)
(* Registrations, heartbeats, claims and other inserters fall in between.  *)
(*                                                                         *)
(* A started task that is given up (a reported failure, a stale claim, a   *)
(* dead worker, a rejected result) is queued again and its pin is gone:    *)
(* from then on any worker may claim it that the claim admits.  The claim  *)
(* tests independence for third opinions only; a hedge is an ordinary row. *)
(*                                                                         *)
(* Every job here is one chunk with one primary task, executed by Anchor,  *)
(* which keeps its registration.  A build stands for the tuple of hardware *)
(* class, engine, build hash, identity policy and hardware identity; a v3  *)
(* placement froze the build of the anchor for its dynamic tasks as well.  *)
(***************************************************************************)
EXTENDS Integers, FiniteSets

CONSTANTS
    DyWorkers,               \* the possible peers
    Anchor,                  \* the worker that executes every primary
    DySupplier,              \* [DyWorkers \cup {Anchor} -> supplier]
    Builds, AnchorBuild,
    DyJobs,
    PlacedV3,                \* the jobs whose placement froze a build
    Reserved,                \* reserved_tasks of every job
    CapRoom,                 \* how many dynamic tasks fit under its spend cap
    Inserters,               \* leader's sweeps, verification workers
    DyIds,                   \* identities of dynamic tasks, numbers
    DyTries,                 \* bound on how often a task is queued again
    DyNobody

VARIABLES
    dyWorker,   \* worker -> [build, fit]; fit: seen within a minute, contained, not throttled
    dyJob,      \* job -> [live, open]; open: its primary is not yet complete
    dyReserve,  \* job -> consumed_tasks
    dyTask,     \* id -> [job, kind, peer, ran, status, stale, tries, again]; peer: claimed_by,
                \* ran: execution_supplier_id, which a requeue leaves; again: a third opinion
                \* started by who had a part in the chunk already
    dyClaims,   \* job -> the suppliers in the task_execution_history and in the
                \* verification_work of its chunk
    dyTx        \* inserter -> [step, job, kind, peer]

dyVars == <<dyWorker, dyJob, dyReserve, dyTask, dyClaims, dyTx>>

Kinds == {"hedge", "tiebreak"}
IdleTx == [step |-> "idle", job |-> DyNobody, kind |-> "none", peer |-> DyNobody]
NoDynamic == [job |-> DyNobody, kind |-> "none", peer |-> DyNobody, ran |-> DyNobody,
              status |-> "none", stale |-> FALSE, tries |-> 0, again |-> FALSE]

Dynamic(j, k) == {i \in DyIds : dyTask[i].job = j /\ dyTask[i].kind = k}

Pinned(i) == dyTask[i].status = "queued" /\ dyTask[i].peer # DyNobody
Unpinned(i) == dyTask[i].status = "queued" /\ dyTask[i].peer = DyNobody

(***************************************************************************)
(* Choosing a peer.                                                        *)
(***************************************************************************)
\* chunkIndependencePriorsSQL: who holds another task of the chunk, started or only
\* pinned, who was the last to run one, and, for the task itself as well, whoever is in
\* the history or delivered a result.  Of a hedge the history keeps nothing.
Represented(j, but) ==
    LET others == {n \in DyIds \ but : dyTask[n].job = j}
    IN {DySupplier[Anchor]}
       \cup {DySupplier[dyTask[i].peer] : i \in {n \in others : dyTask[n].peer # DyNobody}}
       \cup {dyTask[i].ran : i \in {n \in others : dyTask[n].ran # DyNobody}}
       \cup dyClaims[j]

\* frozenDynamicPeerAnchor: the class the primary was executed in.
MatchesAnchor(w) == dyWorker[w].build = AnchorBuild

\* CandidateWorkers, prunePeers and Match, against the anchor's build.
Peers(excluded) ==
    {w \in DyWorkers :
        /\ dyWorker[w].fit
        /\ DySupplier[w] \notin excluded
        /\ MatchesAnchor(w)}

Busy(w) == \E i \in DyIds : dyTask[i].peer = w /\ dyTask[i].status = "running"

Choose(p, j, k, w) ==
    /\ dyTx[p].step = "idle"
    /\ dyTx' = [dyTx EXCEPT ![p] = [step |-> "chosen", job |-> j, kind |-> k, peer |-> w]]
    /\ UNCHANGED <<dyWorker, dyJob, dyReserve, dyTask, dyClaims>>

\* hedgeStragglers: a slow primary without a live hedge.
SelectStraggler(p, j, w) ==
    /\ dyJob[j].live /\ dyJob[j].open /\ Dynamic(j, "hedge") = {}
    /\ w \in Peers(Represented(j, {}))
    /\ Choose(p, j, "hedge", w)

\* raceEndgameTails: the last running task, and only an idle peer.
SelectTail(p, j, w) ==
    /\ dyJob[j].live /\ dyJob[j].open /\ Dynamic(j, "hedge") = {}
    /\ w \in Peers(Represented(j, {})) /\ ~Busy(w)
    /\ Choose(p, j, "hedge", w)

\* A disputed chunk: resolveDisputes, or a verdict without a majority.  The
\* caller excludes only the anchor's supplier and does not look for an earlier
\* third opinion; the insertion does both.
SelectThirdOpinion(p, j, w) ==
    /\ dyJob[j].live
    /\ w \in Peers({DySupplier[Anchor]})
    /\ Choose(p, j, "tiebreak", w)

(***************************************************************************)
(* The insertion, InsertHedgeTask and InsertTiebreakTask.                  *)
(***************************************************************************)
PeerLocking(p) == dyTx[p].step = "checked"

WorkerLocked(w) == \E p \in Inserters : PeerLocking(p) /\ dyTx[p].peer = w
\* The reserve and the job row, held together from the check on.
JobLocked(j) == \E p \in Inserters : PeerLocking(p) /\ dyTx[p].job = j

\* existingHedgeTaskTx, existingTiebreakTaskTx: a retry returns what is there.
Existing(p) == Dynamic(dyTx[p].job, dyTx[p].kind) # {}

\* Mutant: independence is left to the choice of the peer.
DynamicPeerEligible_Chosen(j, w) ==
    /\ dyJob[j].live
    /\ dyWorker[w].fit
    /\ j \in PlacedV3 => dyWorker[w].build = AnchorBuild

\* dynamicPeerClaimEligibleTx.
DynamicPeerEligible(j, w) ==
    /\ dyJob[j].live
    /\ dyWorker[w].fit
    /\ DySupplier[w] \notin Represented(j, {})
    /\ j \in PlacedV3 => dyWorker[w].build = AnchorBuild

\* The guards of consumeEconomicReserveTx: units left, and room under the cap.
\* The reserve's row is locked with the peer's, so testing them here is the same.
ReserveLeft(j) == dyReserve[j] < Reserved /\ dyReserve[j] < CapRoom

Insertable(p) ==
    LET j == dyTx[p].job IN
    /\ ~Existing(p)
    /\ dyTx[p].kind = "hedge" => dyJob[j].open
    /\ DynamicPeerEligible(j, dyTx[p].peer)
    /\ ReserveLeft(j)

\* The peer's row, the reserve, the anchor and the job are locked; the
\* transaction goes on, or returns the existing task or an error.
CheckPeer(p) ==
    /\ dyTx[p].step = "chosen"
    /\ ~WorkerLocked(dyTx[p].peer) /\ ~JobLocked(dyTx[p].job)
    /\ dyTx' = [dyTx EXCEPT ![p] = IF Insertable(p) THEN [@ EXCEPT !.step = "checked"]
                                   ELSE IdleTx]
    /\ UNCHANGED <<dyWorker, dyJob, dyReserve, dyTask, dyClaims>>

NextId == {i \in DyIds : dyTask[i] = NoDynamic /\ \A n \in DyIds : n < i => dyTask[n] # NoDynamic}

\* One unit is consumed and the pinned task inserted.
Publish(p) ==
    LET j == dyTx[p].job IN
    /\ PeerLocking(p)
    /\ \E i \in NextId :
          dyTask' = [dyTask EXCEPT ![i] =
              [job |-> j, kind |-> dyTx[p].kind, peer |-> dyTx[p].peer,
               ran |-> DyNobody, status |-> "queued", stale |-> FALSE, tries |-> 0, again |-> FALSE]]
    /\ dyReserve' = [dyReserve EXCEPT ![j] = @ + 1]
    /\ dyTx' = [dyTx EXCEPT ![p] = IdleTx]
    /\ UNCHANGED <<dyWorker, dyJob, dyClaims>>

(***************************************************************************)
(* The rest of the fleet.                                                  *)
(***************************************************************************)
LivePinned(w) ==
    \E i \in DyIds : dyTask[i].peer = w /\ Pinned(i) /\ dyTask[i].job \in PlacedV3

\* UpsertWorker waits for the row; a changed identity needs no live v3 pin.
Registrable(w, build) ==
    ~WorkerLocked(w) /\ (dyWorker[w].build # build => ~LivePinned(w))

Register(w, build) ==
    /\ Registrable(w, build)
    /\ dyWorker' = [dyWorker EXCEPT ![w] = [build |-> build, fit |-> TRUE]]
    /\ UNCHANGED <<dyJob, dyReserve, dyTask, dyClaims, dyTx>>

\* Silence, memory pressure, or a registration that only drops the sandbox.
BecomeUnfit(w) ==
    /\ ~WorkerLocked(w)
    /\ dyWorker' = [dyWorker EXCEPT ![w].fit = FALSE]
    /\ UNCHANGED <<dyJob, dyReserve, dyTask, dyClaims, dyTx>>

\* Mutant: a third opinion that lost its pin goes to whoever asks.
ClaimIndependent_Pinned(i, w) ==
    dyTask[i].kind = "tiebreak" /\ Pinned(i) =>
        DySupplier[w] \notin Represented(dyTask[i].job, {i}) /\ (w = Anchor \/ MatchesAnchor(w))
\* The claim's independence terms: redundancy rows only, pinned or not.
ClaimIndependent(i, w) ==
    dyTask[i].kind = "tiebreak" =>
        DySupplier[w] \notin Represented(dyTask[i].job, {i}) /\ (w = Anchor \/ MatchesAnchor(w))

ClaimAdmits(i, w) ==
    LET j == dyTask[i].job
    IN /\ ~JobLocked(j) /\ dyJob[j].live
       /\ w # Anchor => /\ ~WorkerLocked(w) /\ dyWorker[w].fit
                        /\ j \in PlacedV3 => dyWorker[w].build = AnchorBuild
       /\ ClaimIndependent(i, w)

\* ClaimTasksTx starts the task, writes who runs it and, of a third opinion, its history.
Start(i, w) ==
    LET j == dyTask[i].job
        opinion == dyTask[i].kind = "tiebreak"
    IN /\ ClaimAdmits(i, w)
       /\ dyTask' = [dyTask EXCEPT ![i] =
             [@ EXCEPT !.status = "running", !.peer = w, !.ran = DySupplier[w], !.stale = FALSE,
                       !.again = @ \/ (opinion /\ DySupplier[w] \in Represented(j, {i}))]]
       /\ dyClaims' = [dyClaims EXCEPT ![j] = IF opinion THEN @ \cup {DySupplier[w]} ELSE @]
       /\ UNCHANGED <<dyWorker, dyJob, dyReserve, dyTx>>

\* The pinned branch of the claim, for the worker the task waits for, and the
\* branch for rows nobody has claimed.
ClaimPinned(i) == Pinned(i) /\ Start(i, dyTask[i].peer)
ClaimUnpinned(i, w) == Unpinned(i) /\ Start(i, w)

\* A failure, a stale claim, a dead worker or, with delivered, a rejected result: the
\* task is queued again without its pin.
LosePin(i, delivered) ==
    /\ dyTask[i].status = "running" /\ dyTask[i].tries < DyTries
    /\ dyTask' = [dyTask EXCEPT ![i].status = "queued", ![i].peer = DyNobody,
                                ![i].tries = @ + 1]
    /\ dyClaims' = [dyClaims EXCEPT ![dyTask[i].job] =
                        IF delivered THEN @ \cup {dyTask[i].ran} ELSE @]
    /\ UNCHANGED <<dyWorker, dyJob, dyReserve, dyTx>>

\* pinnedTiebreakTimeout passes without a start; a hedge's pin has no timeout.
PinTimesOut(i) ==
    /\ Pinned(i) /\ dyTask[i].kind = "tiebreak" /\ ~dyTask[i].stale
    /\ dyTask' = [dyTask EXCEPT ![i].stale = TRUE]
    /\ UNCHANGED <<dyWorker, dyJob, dyReserve, dyClaims, dyTx>>

\* tiebreakPeerClaimEligibleTx: the class frozen with the tiebreak, containment,
\* and nobody of a supplier that is represented by another task of the chunk.
ReassignEligible(i, w) ==
    /\ dyWorker[w].fit
    /\ MatchesAnchor(w)
    /\ DySupplier[w] \notin Represented(dyTask[i].job, {i})

\* StalePinnedTiebreaks.
StalePin(i) == Pinned(i) /\ dyTask[i].stale

\* ReassignPinnedTiebreak: the compare-and-set is on the pin that was listed.
Repin(i, w) ==
    /\ dyJob[dyTask[i].job].live /\ ~JobLocked(dyTask[i].job)
    /\ ~WorkerLocked(w) /\ ReassignEligible(i, w)
    /\ dyTask' = [dyTask EXCEPT ![i].peer = w, ![i].stale = FALSE]

\* recoverPinnedTiebreaks: the ranked candidates are tried until one stands.
ReassignPinned(i, w) ==
    /\ StalePin(i) /\ w # dyTask[i].peer
    /\ Repin(i, w)
    /\ UNCHANGED <<dyWorker, dyJob, dyReserve, dyClaims, dyTx>>

PrimaryEnds(j) ==
    /\ dyJob[j].open /\ ~JobLocked(j)
    /\ dyJob' = [dyJob EXCEPT ![j].open = FALSE]
    /\ UNCHANGED <<dyWorker, dyReserve, dyTask, dyClaims, dyTx>>

JobEnds(j) ==
    /\ dyJob[j].live /\ ~JobLocked(j)
    /\ dyJob' = [dyJob EXCEPT ![j].live = FALSE]
    /\ UNCHANGED <<dyWorker, dyReserve, dyTask, dyClaims, dyTx>>

DyInit ==
    /\ dyWorker = [w \in DyWorkers |->
            [build |-> AnchorBuild, fit |-> TRUE]]
    /\ dyJob = [j \in DyJobs |-> [live |-> TRUE, open |-> TRUE]]
    /\ dyReserve = [j \in DyJobs |-> 0]
    /\ dyTask = [i \in DyIds |-> NoDynamic]
    /\ dyClaims = [j \in DyJobs |-> {}]
    /\ dyTx = [p \in Inserters |-> IdleTx]

DyNext ==
    \/ \E p \in Inserters :
        \/ \E j \in DyJobs, w \in DyWorkers :
            SelectStraggler(p, j, w) \/ SelectTail(p, j, w) \/ SelectThirdOpinion(p, j, w)
        \/ CheckPeer(p) \/ Publish(p)
    \/ \E w \in DyWorkers :
        BecomeUnfit(w) \/ \E b \in Builds : Register(w, b)
    \/ \E i \in DyIds :
        \/ ClaimPinned(i) \/ PinTimesOut(i) \/ \E d \in BOOLEAN : LosePin(i, d)
        \/ \E w \in DyWorkers : ReassignPinned(i, w)
        \/ \E w \in DyWorkers \cup {Anchor} : ClaimUnpinned(i, w)
    \/ \E j \in DyJobs : PrimaryEnds(j) \/ JobEnds(j)

DySpec == DyInit /\ [][DyNext]_dyVars

(***************************************************************************)
(* Properties.                                                             *)
(***************************************************************************)
\* A peer that re-registers around the insertion cannot strand the task that
\* spent the reserve: whoever an unstarted task of a v3 job is pinned to still
\* has the build the placement froze.
PinKeepsIdentity ==
    \A i \in DyIds : Pinned(i) /\ dyTask[i].job \in PlacedV3
        => dyWorker[dyTask[i].peer].build = AnchorBuild

\* Concurrent sweeps and verdicts buy each extra task once: a chunk has at most
\* one hedge and one third opinion, each paid by one unit of the job's reserve.
ReserveBuysOne ==
    \A j \in DyJobs :
        /\ \A k \in Kinds : Cardinality(Dynamic(j, k)) <= 1
        /\ dyReserve[j] = Cardinality({i \in DyIds : dyTask[i].job = j})
        /\ dyReserve[j] <= Reserved

\* A hedge that lost its pin is claimed like any row of the job: its next holder may
\* be the supplier of the primary or of the third opinion (InsertHedgeTask writes
\* is_redundancy=false, the claim tests independence of redundancy rows).
FreedHedge(i) == dyTask[i].kind = "hedge" /\ dyTask[i].tries > 0

\* Peers chosen at different times, and replacements, stay independent: no two tasks
\* of a chunk are in the hands of one supplier, but for a hedge that lost its pin.
PeersIndependent ==
    LET held == {i \in DyIds : dyTask[i].job # DyNobody /\ dyTask[i].peer # DyNobody
                               /\ ~FreedHedge(i)}
    IN \A i, n \in held :
        /\ DySupplier[dyTask[i].peer] # DySupplier[Anchor]
        /\ i # n /\ dyTask[i].job = dyTask[n].job
              => DySupplier[dyTask[i].peer] # DySupplier[dyTask[n].peer]

\* Every start of a third opinion, the first and those after a requeue that cleared
\* its pin, is by a supplier with no part in the chunk: not the primary's, not one that
\* holds or last ran the hedge or delivered a result of it, not one that started this
\* opinion before (the claim's prior-executor exclusion, on both branches).  A supplier
\* that gave up the hedge without a result is let in once another one runs the hedge.
OpinionsAreFresh == \A i \in DyIds : ~dyTask[i].again

\* The tasks that check a chunk are independent of what they check, are bought once,
\* and stay with a peer that can run them.
PeersStand == PinKeepsIdentity /\ ReserveBuysOne /\ PeersIndependent /\ OpinionsAreFresh
=============================================================================
