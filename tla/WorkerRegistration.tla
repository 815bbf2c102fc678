-------------------------- MODULE WorkerRegistration --------------------------
(***************************************************************************)
(* A worker declares what it can serve (api.go handleWorkerRegister,       *)
(* runtime_matrix.go, runtime_profile_admission.go), and one transaction   *)
(* (store_workers.go UpsertWorker) turns the declaration into the sealed   *)
(* snapshot of the next capability epoch (node_capability.go), the         *)
(* capability rows that claims read, and the rate the scheduler believes   *)
(* (benchmark_corroboration.go).                                           *)
(*                                                                         *)
(* The transaction holds the activation policy's shared lock and its       *)
(* worker's row.  Registrations of different workers overlap, and neither  *)
(* reads the measurements of the other before they are committed.          *)
(*                                                                         *)
(* The cells are the models of one job type, so the scheduler's cache has  *)
(* one row per worker.  A digest is the snapshot it seals.                 *)
(***************************************************************************)
EXTENDS Integers, Sequences

CONSTANTS
    WrWorkers, WrSupplier,  \* workers, whose rows exist since they were enrolled
    WrCells,                \* cells of the capability document for their engine
    WrLanes,                \* policy revision -> [advertised, directed] cells
    WrFloor,                \* cell -> the governed conservative rate
    WrCalls, WrSender,      \* registrations, and the worker that sends each one
    WrDeclarations,         \* what a worker may send: sets of [models, bench]
    WrAges,                 \* how old its measurements are when it sends them
    WrMaxAge, WrSkew,       \* workerBenchmarkMaxAge, workerBenchmarkFutureSkew
    WrHorizon,              \* bound on the clock
    WrNone

FloorRate == 1   \* uncorroboratedBenchmarkFloorTPS

ASSUME RegistrationConstants ==
    /\ WrSupplier \in [WrWorkers -> Nat] /\ WrFloor \in [WrCells -> Nat]
    /\ WrSender \in [WrCalls -> WrWorkers] /\ WrAges \subseteq Int
    /\ \A r \in 1 .. Len(WrLanes) :
        WrLanes[r].advertised \subseteq WrLanes[r].directed /\ WrLanes[r].directed \subseteq WrCells
    /\ \A w \in WrWorkers : \A d \in WrDeclarations[w] :
        d.models \subseteq WrCells /\ d.bench \in Seq([cell : WrCells, rate : Nat])
    /\ WrMaxAge \in Nat /\ WrSkew \in Nat /\ WrHorizon \in Nat

VARIABLES
    wrNow, wrPolicy,   \* the clock, and the activation policy revision in force
    wrEpoch,           \* workers.capability_epoch
    wrSeals,           \* worker_capability_snapshots of a worker, in epoch order
    wrAuth,            \* worker_authorized_capabilities: cell -> [at, routable]
    wrUnder,           \* the policy in force when those rows were written
    wrBench,           \* benchmark_results in the order they were committed
    wrCache,           \* worker_tps_cache
    wrCall             \* registrations in flight

wrStored == <<wrEpoch, wrSeals, wrAuth, wrUnder, wrBench, wrCache>>
wrVars == <<wrNow, wrPolicy, wrStored, wrCall>>

IdleCall == [step |-> "idle"]
EndedCall == [step |-> "ended"]

WrInit ==
    /\ wrNow = WrMaxAge + 1 /\ wrPolicy = 1
    /\ wrEpoch = [w \in WrWorkers |-> 0]
    /\ wrSeals = [w \in WrWorkers |-> <<>>]
    /\ wrAuth = [w \in WrWorkers |-> <<>>]
    /\ wrUnder = [w \in WrWorkers |-> 1]
    /\ wrBench = <<>>
    /\ wrCache = [w \in WrWorkers |-> WrNone]
    /\ wrCall = [c \in WrCalls |-> IdleCall]

-----------------------------------------------------------------------------
(* What a declaration is admitted for.                                     *)

\* The declared cells that the policy routes to at all; the others are only capability.
ProjectedCells(d, rev) == d.models \cap WrLanes[rev].directed

\* Worker benchmark freshness: neither ahead of the clock nor older than the policy allows.
FreshAt(at, now) == at <= now + WrSkew /\ now - at <= WrMaxAge

\* validateWorkerCapabilityShape: no measurement without a positive rate.
ValidateWorkerCapabilityShape(d) == \A i \in 1 .. Len(d.bench) : d.bench[i].rate > 0

\* One measurement per cell, of cells the worker declares.
BenchmarksMatch(d) ==
    \A i, k \in 1 .. Len(d.bench) :
        d.bench[i].cell \in d.models /\ (d.bench[i].cell = d.bench[k].cell => i = k)

\* An advertised cell needs a fresh measurement of its own, at the governed rate or above;
\* a cell that is only directed needs none.
CellAdmitted(d, cell, rev, at, now) ==
    cell \in WrLanes[rev].advertised =>
        \E i \in 1 .. Len(d.bench) :
            /\ d.bench[i].cell = cell /\ d.bench[i].rate >= WrFloor[cell]
            /\ FreshAt(at, now)

\* projectWorkerRuntimeCapabilities: some declared cell is reachable, and all of them hold.
ProjectWorkerRuntimeCapabilities(d, rev, at, now) ==
    /\ ValidateWorkerCapabilityShape(d)
    /\ ProjectedCells(d, rev) # {} /\ BenchmarksMatch(d)
    /\ \A cell \in ProjectedCells(d, rev) : CellAdmitted(d, cell, rev, at, now)

\* ResolveWorkerRuntimeProfile: the engine's one profile must have a reachable cell, and
\* the worker must declare one of the profile's cells.
ResolveWorkerRuntimeProfile(d, rev) == WrLanes[rev].directed # {} /\ d.models # {}

\* handleWorkerRegister: validated under the policy it captures; a refusal changes nothing.
HandleRegister(c, d, at) ==
    /\ wrCall[c] = IdleCall
    /\ ProjectWorkerRuntimeCapabilities(d, wrPolicy, at, wrNow)
    /\ wrCall' = [wrCall EXCEPT ![c] =
        [step |-> "admitted", worker |-> WrSender[c], decl |-> d, at |-> at, rev |-> wrPolicy]]
    /\ UNCHANGED <<wrNow, wrPolicy, wrStored>>
-----------------------------------------------------------------------------
(* The transaction.                                                        *)

\* ratesAgreeWithinTolerance: the difference is at most a quarter of the larger rate.
RatesAgree(a, b) ==
    /\ a > 0 /\ b > 0
    /\ 4 * (IF a > b THEN a - b ELSE b - a) <= (IF a > b THEN a ELSE b)

\* The committed measurements of a cell by other workers, among the first n rows.  The
\* code reads the newest eight; the runs stay below that.
PeerRows(w, cell, n) == {i \in 1 .. n : wrBench[i].worker # w /\ wrBench[i].cell = cell}

\* Mutant: a disputed claim is taken for one without peers.
TryCorroborate_Unpeered(w, cell, rate, n) ==
    [agreed |-> \E i \in PeerRows(w, cell, n) : RatesAgree(rate, wrBench[i].rate), peers |-> FALSE]
\* tryCorroborateBenchmarkTx: another supplier's measurement first, then another worker's.
TryCorroborate(w, cell, rate, n) ==
    LET others == {i \in PeerRows(w, cell, n) : WrSupplier[wrBench[i].worker] # WrSupplier[w]}
    IN  [agreed |-> \/ \E i \in others : RatesAgree(rate, wrBench[i].rate)
                    \/ \E i \in PeerRows(w, cell, n) : RatesAgree(rate, wrBench[i].rate),
         peers |-> others # {} \/ PeerRows(w, cell, n) # {}]

RoutableBenchmarkRate(rate, verdict) ==
    IF verdict.agreed \/ ~verdict.peers THEN rate ELSE FloorRate

\* The tail of UpsertWorker: every measurement is inserted and judged in the order sent,
\* and each overwrites the worker's one row of the cache.
BenchRows(call, n) ==
    [i \in 1 .. Len(call.decl.bench) |->
        [worker |-> call.worker, cell |-> call.decl.bench[i].cell,
         rate |-> call.decl.bench[i].rate, seen |-> n]]
CacheAfter(call, n) ==
    IF call.decl.bench = <<>> THEN wrCache[call.worker]
    ELSE LET last == call.decl.bench[Len(call.decl.bench)]
             verdict == TryCorroborate(call.worker, last.cell, last.rate, n)
         IN  [tps |-> RoutableBenchmarkRate(last.rate, verdict), claimed |-> last.rate,
              corroborated |-> verdict.agreed]

\* workerCapabilityAuthorizedAt: a routable cell carries the time of its measurement.
WorkerCapabilityAuthorizedAt(call, cell, now) ==
    IF /\ cell \in WrLanes[call.rev].advertised
       /\ \E i \in 1 .. Len(call.decl.bench) : call.decl.bench[i].cell = cell
    THEN call.at ELSE now

\* Mutant: a replayed measurement makes the capability older.
Stamp_Replayed(call, cell, now) == WorkerCapabilityAuthorizedAt(call, cell, now)
\* A stamp the worker already holds for the cell is kept when it is newer.
Stamp(call, cell, now) ==
    LET at == WorkerCapabilityAuthorizedAt(call, cell, now)
        held == wrAuth[call.worker]
    IN  IF cell \in DOMAIN held /\ held[cell].at > at THEN held[cell].at ELSE at

\* The cells of a snapshot: what the node is authorized for and since when.  Whether they
\* are routed to is left to the activation policy.
RuntimeCells(call, now) ==
    [cell \in ProjectedCells(call.decl, call.rev) |-> Stamp(call, cell, now)]
BuildNodeCapability(call, now, epoch) ==
    [epoch |-> epoch, captured |-> now, cells |-> RuntimeCells(call, now)]

\* FamilyObservedAt and FamilyFresh for the runtime cells: the latest of their stamps, or
\* the capture when none is set, within the window that claims use.
FamilyFresh(seal, now) ==
    LET stamps == {seal.cells[cell] : cell \in DOMAIN seal.cells} \ {0}
    IN  IF stamps = {} THEN now <= seal.captured + WrMaxAge
        ELSE \E at \in stamps : now <= at + WrMaxAge

\* UpsertWorker up to its writes: the declaration is projected again, the policy is locked
\* and must be the captured one, the worker's row is locked, and the peers are read.
BeginUpsert(c) ==
    LET call == wrCall[c] IN
    /\ call.step = "admitted"
    /\ ProjectWorkerRuntimeCapabilities(call.decl, call.rev, call.at, wrNow)
    /\ ResolveWorkerRuntimeProfile(call.decl, call.rev)
    /\ wrPolicy = call.rev
    /\ \A k \in WrCalls : wrCall[k].step = "writing" => wrCall[k].worker # call.worker
    /\ wrCall' = [wrCall EXCEPT ![c] =
        [step |-> "writing", worker |-> call.worker, decl |-> call.decl, at |-> call.at,
         rev |-> call.rev, now |-> wrNow, seen |-> Len(wrBench)]]
    /\ UNCHANGED <<wrNow, wrPolicy, wrStored>>

\* The writes and the commit, one transaction: nothing else of the worker moves meanwhile.
CommitUpsert(c) ==
    LET call == wrCall[c]
        w == call.worker
        epoch == wrEpoch[w] + 1
        sealed == BuildNodeCapability(call, call.now, epoch)
    IN
    /\ call.step = "writing"
    /\ wrEpoch' = [wrEpoch EXCEPT ![w] = epoch]
    /\ wrSeals' = [wrSeals EXCEPT ![w] = Append(@, sealed)]
    /\ wrAuth' = [wrAuth EXCEPT ![w] =
        [cell \in ProjectedCells(call.decl, call.rev) |->
            [at |-> Stamp(call, cell, call.now),
             routable |-> cell \in WrLanes[call.rev].advertised]]]
    /\ wrUnder' = [wrUnder EXCEPT ![w] = wrPolicy]
    /\ wrBench' = wrBench \o BenchRows(call, call.seen)
    /\ wrCache' = [wrCache EXCEPT ![w] = CacheAfter(call, call.seen)]
    /\ wrCall' = [wrCall EXCEPT ![c] = EndedCall]
    /\ UNCHANGED <<wrNow, wrPolicy>>

\* A refusal or an error before the commit: the transaction leaves nothing.
AbortUpsert(c) ==
    /\ wrCall[c].step \in {"admitted", "writing"}
    /\ wrCall' = [wrCall EXCEPT ![c] = EndedCall]
    /\ UNCHANGED <<wrNow, wrPolicy, wrStored>>

\* A new activation policy takes its lock exclusively.
SetLanes ==
    /\ wrPolicy < Len(WrLanes) /\ \A c \in WrCalls : wrCall[c].step # "writing"
    /\ wrPolicy' = wrPolicy + 1
    /\ UNCHANGED <<wrNow, wrStored, wrCall>>

WrTick ==
    /\ wrNow < WrHorizon /\ wrNow' = wrNow + 1
    /\ UNCHANGED <<wrPolicy, wrStored, wrCall>>

WrNext ==
    \/ \E c \in WrCalls :
        \/ \E d \in WrDeclarations[WrSender[c]], age \in WrAges :
            HandleRegister(c, d, wrNow - age)
        \/ BeginUpsert(c) \/ CommitUpsert(c) \/ AbortUpsert(c)
    \/ SetLanes \/ WrTick

WrSpec == WrInit /\ [][WrNext]_wrVars

-----------------------------------------------------------------------------
(* Properties.                                                             *)

\* The seal of a worker's last registration.
InForce(w) == wrSeals[w][Len(wrSeals[w])]

\* However registrations of a worker overlap, its epochs are the positions of its seals,
\* and the rows that claims read carry the stamps of the last seal: the snapshot and its
\* compatibility rows are one view (store_workers.go:445, "share one authorized_at view").
SealsMatchRows ==
    \A w \in WrWorkers :
        /\ wrEpoch[w] = Len(wrSeals[w])
        /\ \A i \in 1 .. Len(wrSeals[w]) : wrSeals[w][i].epoch = i
        /\ wrSeals[w] # <<>> =>
            /\ DOMAIN wrAuth[w] = DOMAIN InForce(w).cells
            /\ \A cell \in DOMAIN wrAuth[w] : wrAuth[w][cell].at = InForce(w).cells[cell]

\* A cell that a worker keeps over two registrations is never authorized as of an earlier
\* instant: replaying an old measurement does not shorten the window of a pinned task
\* (store_workers.go:439-444).
StampsNeverRecede ==
    \A w \in WrWorkers : \A i \in 2 .. Len(wrSeals[w]) :
        \A cell \in DOMAIN wrSeals[w][i].cells \cap DOMAIN wrSeals[w][i - 1].cells :
            wrSeals[w][i - 1].cells[cell] <= wrSeals[w][i].cells[cell]

\* Two workers are scheduled at rates that nobody corroborated only when their
\* registrations overlapped: of two claims for one cell, one after the other, the later
\* one is corroborated or falls to the floor (benchmark_corroboration.go:15-31).
LastBench(w) == {i \in 1 .. Len(wrBench) : wrBench[i].worker = w
                    /\ \A k \in i + 1 .. Len(wrBench) : wrBench[k].worker # w}
Provisional(w) == wrCache[w] # WrNone /\ ~wrCache[w].corroborated /\ wrCache[w].tps > FloorRate
ProvisionalOverlap ==
    \A u, v \in WrWorkers : \A i \in LastBench(u), k \in LastBench(v) :
        u # v /\ wrBench[i].cell = wrBench[k].cell /\ Provisional(u) /\ Provisional(v)
            => wrBench[i].seen < k /\ wrBench[k].seen < i

\* The rows of a worker are those of the policy in force when they were written, also when
\* the policy changed while the registration was on its way (activation_policy.go:866).
RoutableUnderPolicy ==
    \A w \in WrWorkers : \A cell \in DOMAIN wrAuth[w] :
        /\ cell \in WrLanes[wrUnder[w]].directed
        /\ wrAuth[w][cell].routable <=> cell \in WrLanes[wrUnder[w]].advertised

\* A cell that a claim would accept now belongs to a seal whose runtime cells are fresh
\* now (node_capability.go:75-77, "cannot change who is currently eligible").
ClaimableIsFresh ==
    \A w \in WrWorkers : \A cell \in DOMAIN wrAuth[w] :
        wrAuth[w][cell].at >= wrNow - WrMaxAge => FamilyFresh(InForce(w), wrNow)

RegistrationKept ==
    /\ SealsMatchRows /\ StampsNeverRecede /\ ProvisionalOverlap
    /\ RoutableUnderPolicy /\ ClaimableIsFresh
=============================================================================
