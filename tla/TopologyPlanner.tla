--------------------------- MODULE TopologyPlanner ---------------------------
(***************************************************************************)
(* Where work may run: the execution mode (execution_mode.go), the          *)
(* scheduler shape (topology_planner.go) and the decision frozen when work  *)
(* is accepted (topology_decision.go).  The reasons a plan lists are kept   *)
(* as the set of modes it refuses.                                          *)
(*                                                                         *)
(* One planner answers one request after another; every request of          *)
(* TpRequests is asked.                                                     *)
(***************************************************************************)
EXTENDS Naturals

CONSTANTS TpDegrees,   \* degrees a workload may declare, 0 for none
          TpDevices,   \* candidate device counts, 0 for unknown
          TpNone       \* no request, no decision

VARIABLES tpAsked,     \* the request
          tpDecision,  \* what was frozen for it
          tpEvidence   \* the fabric evaluation it was asked under, if any
tpVars == <<tpAsked, tpDecision, tpEvidence>>

Nothing == "none"
Hyphenated == {"tensor-parallel", "pipeline-parallel", "data-parallel", "expert-parallel"}
Underscored == {"tensor_parallel", "pipeline_parallel", "data_parallel", "expert_parallel"}
Modes == {"", "single_device", "independent_task_fanout", "replica_service", "render_tiles",
          "elsewhere", "tensor_parallel", "tensor-parallel"}

TpRequests ==
  [mode : Modes, degree : TpDegrees, fabric : {"UNKNOWN", "WAN", "LOW_LATENCY_SITE"},
   service : BOOLEAN, community : BOOLEAN, cloud : BOOLEAN, late : BOOLEAN,
   devices : TpDevices]

(***************************************************************************)
(* topologyParallelism: the canonical name and degree, or a refusal of the  *)
(* request's shape.  The hyphenated spellings come back as they were given. *)
(***************************************************************************)
Canonical(mode) ==
  IF mode \in {"", "single_device"} THEN "single_device"
  ELSE IF mode = "render_tiles" THEN "frame_tile_sample" ELSE mode

DegreeOf(r) == IF r.degree = 0 THEN 1 ELSE r.degree

WellShaped(r) ==
  LET kind == Canonical(r.mode) IN
  /\ kind # "elsewhere"
  /\ kind \in {"single_device", "independent_task_fanout", "replica_service"} => DegreeOf(r) = 1
  /\ kind \in Hyphenated \cup Underscored => DegreeOf(r) >= 2

IsTight(kind) == kind \in Underscored

(***************************************************************************)
(* ChooseExecutionMode.                                                     *)
(***************************************************************************)
Coupled(kind, degree) == IsTight(kind) \/ degree > 1

NoMode == [mode |-> Nothing, refused |-> {"POOL", "REPLICA_SERVICE", "LOCAL_CLUSTER", "CLOUD_BACKSTOP"}]

ChooseExecutionMode(r, kind) ==
  LET service == r.service \/ kind = "replica_service" IN
  IF Coupled(kind, DegreeOf(r))
  THEN IF r.fabric = "LOW_LATENCY_SITE"
       THEN [mode |-> "LOCAL_CLUSTER", refused |-> {"POOL", "REPLICA_SERVICE"}]
       ELSE IF r.cloud
            THEN [mode |-> "CLOUD_BACKSTOP", refused |-> {"LOCAL_CLUSTER", "POOL", "REPLICA_SERVICE"}]
            ELSE NoMode
  ELSE IF r.community /\ ~ r.late
       THEN [mode    |-> IF service THEN "REPLICA_SERVICE" ELSE "POOL",
             refused |-> {"LOCAL_CLUSTER", "CLOUD_BACKSTOP",
                          IF service THEN "POOL" ELSE "REPLICA_SERVICE"}]
       ELSE IF r.cloud
            THEN [mode |-> "CLOUD_BACKSTOP", refused |-> {"LOCAL_CLUSTER", "POOL", "REPLICA_SERVICE"}]
            ELSE NoMode

(***************************************************************************)
(* PlanTopology, for a well-shaped request.                                 *)
(***************************************************************************)
ShapeOf(kind, mode) ==
  CASE IsTight(kind) /\ mode = "LOCAL_CLUSTER" -> "LOCAL_GANG"
    [] IsTight(kind) /\ mode # "LOCAL_CLUSTER" -> "CLOUD_BACKSTOP_GANG"
    [] kind = "replica_service" -> "REPLICA_SERVICE"
    [] kind = "frame_tile_sample" -> "FRAME_TILE_SAMPLE"
    [] kind = "single_device" -> "SINGLE_DEVICE"
    [] OTHER -> "INDEPENDENT_CHUNK_SPLIT"

TooFewDevices(r) == r.devices > 0 /\ DegreeOf(r) > r.devices

PlanTopology(r) ==
  LET kind == Canonical(r.mode)
      base == [parallelism |-> kind, degree |-> DegreeOf(r), fabric |-> r.fabric]
      lane == ChooseExecutionMode(r, kind)
  IN  IF TooFewDevices(r)
      THEN [plan |-> base, status |-> "REFUSED", mode |-> Nothing, shape |-> Nothing, refused |-> {}]
      ELSE IF lane.mode = Nothing
      THEN [plan |-> base, status |-> "REFUSED", mode |-> Nothing, shape |-> Nothing,
            refused |-> lane.refused]
      ELSE [plan |-> base, status |-> "ACCEPTED", mode |-> lane.mode,
            shape |-> ShapeOf(kind, lane.mode), refused |-> lane.refused]

(***************************************************************************)
(* TopologyDecision.                                                        *)
(***************************************************************************)
Unmeasured(r) == r.fabric \in {"UNKNOWN", "WAN"}

\* ValidateTopologyDecisionSnapshot.
SnapshotValid(d) ==
  /\ d.status = "ACCEPTED" =>
       d.mode # Nothing /\ d.shape # Nothing /\ d.degree >= 1 /\ d.parallelism # ""
  /\ d.status = "REFUSED" =>
       d.mode = Nothing /\ d.shape = Nothing /\ (d.refused # {} \/ d.construction # {})
  /\ d.status = "NOT_APPLICABLE" =>
       d.mode = Nothing /\ d.shape = Nothing /\ d.construction # {}
  /\ (d.host # Nothing) = (d.hostDigest # Nothing)

\* enforceTopologyDecisionInvariants: the tripwire for coupled work on a fabric
\* nobody measured.
TripwireHolds(d, r) ==
  /\ SnapshotValid(d)
  /\ WellShaped(r) /\ IsTight(Canonical(r.mode)) /\ Unmeasured(r) /\ ~ r.cloud
       => d.status = "REFUSED"

Decision(lane, plan, construction) ==
  [lane |-> lane, status |-> plan.status, mode |-> plan.mode, shape |-> plan.shape,
   parallelism |-> plan.plan.parallelism, degree |-> plan.plan.degree,
   fabric |-> plan.plan.fabric, refused |-> plan.refused, construction |-> construction,
   host |-> Nothing, hostDigest |-> Nothing]

\* topologyDecisionFromPlan.
WanTight(plan, r) ==
  IF plan.status = "REFUSED" /\ IsTight(plan.plan.parallelism) /\ Unmeasured(r) /\ ~ r.cloud
  THEN {"WAN_TIGHT_MULTI_HOST"} ELSE {}
FromPlan(lane, plan, r) == Decision(lane, plan, {"LOCAL_CLUSTER"} \cup WanTight(plan, r))

\* A request of no known shape is recorded as refused, never left without a decision.
Malformed(lane, r) ==
  [lane |-> lane, status |-> "REFUSED", mode |-> Nothing, shape |-> Nothing,
   parallelism |-> r.mode, degree |-> r.degree, fabric |-> r.fabric, refused |-> {},
   construction |-> {"LOCAL_CLUSTER"}, host |-> Nothing, hostDigest |-> Nothing]

DecideTopology(lane, r) ==
  IF WellShaped(r) THEN FromPlan(lane, PlanTopology(r), r) ELSE Malformed(lane, r)

\* buildBatchTopologyDecision fixes the placement facts of the request.
BatchRequest(r) ==
  [r EXCEPT !.fabric = "UNKNOWN", !.community = TRUE, !.cloud = FALSE, !.service = FALSE,
            !.late = FALSE, !.devices = 0]

\* Lanes that choose no topology say so (exact reuse, service lease) ...
NotApplicable(lane, parallelism, what) ==
  [lane |-> lane, status |-> "NOT_APPLICABLE", mode |-> Nothing, shape |-> Nothing,
   parallelism |-> parallelism, degree |-> 0, fabric |-> "UNKNOWN", refused |-> {},
   construction |-> {"LOCAL_CLUSTER", what}, host |-> Nothing, hostDigest |-> Nothing]
ExactReuseDecision == NotApplicable("exact_result_reuse", "single_device", "PHYSICAL_PLACEMENT")
ServiceLeaseDecision == NotApplicable("service_lease", "replica_service", "MULTI_HOST_TOPOLOGY")

\* ... and realtime cites the placement plan of its host.
RealtimeDecision(digest) ==
  [lane |-> "realtime", status |-> "ACCEPTED", mode |-> "REPLICA_SERVICE",
   shape |-> "REPLICA_SERVICE", parallelism |-> "replica_service", degree |-> 1,
   fabric |-> "WAN", refused |-> {"LOCAL_CLUSTER", "POOL"}, construction |-> {"LOCAL_CLUSTER"},
   host |-> "RealtimePlacementPlan", hostDigest |-> digest]

(***************************************************************************)
(* A fabric evaluation as the planner reads it: whether its evidence is     *)
(* still fresh, and of its two directed links and collectives how many are  *)
(* verified.  EvaluateFabricTopology sets no admission bit and always lists  *)
(* reasons against admission; the admitted status is never written.          *)
(***************************************************************************)
Evaluations ==
  {[fresh |-> fresh, links |-> l, collectives |-> c, required |-> 2, workers |-> 2,
    admissible |-> FALSE, reasons |-> TRUE,
    status |-> IF l < 2 THEN "LINK_MESH_REFUSED"
               ELSE IF c < 2 THEN "LINK_MESH_MEASURED" ELSE "COLLECTIVES_MEASURED"] :
   fresh \in BOOLEAN, l \in 0..2, c \in 0..2}

\* fabricClassForTopologyEvaluation.
FabricClass(e) ==
  IF /\ ~ e.reasons /\ e.fresh /\ e.status = "LOCAL_CLUSTER_ADMITTED_V1" /\ e.admissible
     /\ e.required > 0 /\ e.links = e.required /\ e.collectives = e.required
  THEN "LOW_LATENCY_SITE" ELSE "UNKNOWN"

\* The request of handleWorkerFabricTopologyEvaluate and GetFabricTopologyEvaluation:
\* one rank on every measured worker.
MeshRequest(e) ==
  [mode |-> "tensor_parallel", degree |-> e.workers, fabric |-> FabricClass(e), service |-> FALSE,
   community |-> TRUE, cloud |-> FALSE, late |-> FALSE, devices |-> e.workers]

(***************************************************************************)
(* The planner at work.                                                     *)
(***************************************************************************)
TpInit == tpAsked = TpNone /\ tpDecision = TpNone /\ tpEvidence = TpNone

DecidePlanned(r) ==
  /\ tpAsked' = r
  /\ tpDecision' = DecideTopology("planner", r)
  /\ UNCHANGED tpEvidence

DecideBatch(r) ==
  /\ tpAsked' = BatchRequest(r)
  /\ tpDecision' = DecideTopology("batch", BatchRequest(r))
  /\ UNCHANGED tpEvidence

\* PlanTopologyFromFabricEvaluation: the plan attached to the answer.
DecideMeasured(e) ==
  /\ tpAsked' = MeshRequest(e)
  /\ tpDecision' = Decision("fabric_evaluation", PlanTopology(MeshRequest(e)), {})
  /\ tpEvidence' = e

DecideLane ==
  /\ tpAsked' = TpNone
  /\ tpDecision' \in {ExactReuseDecision, ServiceLeaseDecision, RealtimeDecision("sha")}
  /\ UNCHANGED tpEvidence

TpNext == tpAsked = TpNone /\ tpDecision = TpNone /\
          (DecideLane \/ (\E e \in Evaluations : DecideMeasured(e)) \/ \E r \in TpRequests : DecidePlanned(r) \/ DecideBatch(r))

TpSpec == TpInit /\ [][TpNext]_tpVars

(***************************************************************************)
(* Properties                                                               *)
(***************************************************************************)

\* Work of degree above one never runs on machines whose links nobody measured:
\* on an unmeasured fabric it is refused or goes to one provider host, whichever
\* spelling named it (ChooseExecutionMode, behind PlanTopology and the tripwire).
CoupledWorkStaysTogether ==
  tpAsked # TpNone /\ tpAsked.degree > 1 /\ Unmeasured(tpAsked) =>
    tpDecision.status = "REFUSED" \/ (tpDecision.mode = "CLOUD_BACKSTOP" /\ tpAsked.cloud)

\* Measuring a mesh places nothing on it: whatever was verified, and however fresh,
\* the plan attached to an evaluation refuses the gang, on the first answer and on
\* every later read (PlanTopologyFromFabricEvaluation, GetFabricTopologyEvaluation).
MeasurementGrantsNothing ==
  tpEvidence # TpNone => tpDecision.status = "REFUSED" /\ "LOCAL_CLUSTER" \in tpDecision.refused

\* Every lane freezes a decision its own validation accepts: the tripwire and the
\* snapshot rules never refuse what the planner decided, and an accepted plan fits
\* the devices the authority reported.
DecisionsValidate ==
  /\ tpDecision # TpNone => SnapshotValid(tpDecision)
  /\ tpAsked # TpNone => TripwireHolds(tpDecision, tpAsked)
  /\ tpAsked # TpNone /\ tpDecision.status = "ACCEPTED" /\ tpAsked.devices > 0 =>
       tpDecision.degree <= tpAsked.devices
=============================================================================
