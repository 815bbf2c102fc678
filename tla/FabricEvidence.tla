--------------------------- MODULE FabricEvidence ---------------------------
(***************************************************************************)
(* Measurements of the links between a supplier's workers                   *)
(* (fabric_measurement.go), the topology evaluations drawn from them        *)
(* (fabric_topology.go) and the retention pass that ends both (workers.go). *)
(*                                                                         *)
(* An initiator opens a session with a peer, runs rounds with it, and files *)
(* a receipt over them; the peer reports each round it saw on its own.      *)
(* Reports and receipts arrive in any order, late, twice or never.  A round *)
(* is its latency; its transcript is its position in the session; payload   *)
(* sizes and collective digests are kept as "the report agrees with the     *)
(* round or not".  A session measures one kind, links or collectives.       *)
(***************************************************************************)
EXTENDS Integers, Sequences, FiniteSets, FiniteSetsExt, SequencesExt

CONSTANTS FeWorkers, FeStrangers,   \* workers of one supplier, and of another
          FeCerts,                  \* certificates
          FeKinds,                  \* kinds probed: subset of {"link", "collective"}
          FeLatencies, FeMaxP95,    \* round trips, fabricTopologyMaxP95Micros
          FeMinSamples,             \* fabricTopologyMinRoundSamples
          FeRoundLimit,             \* fabricMaxRounds
          FeSessionLife, FeFresh, FeRetention,
          FeAhead,                  \* how far a device's clock may run ahead
          FeErased,                 \* an erased buyer's object waits from the start
          FeMaxSessions, FeMaxReceipts, FeMaxEvals, FeHorizon,
          FeNone

VARIABLES feNow,
          feCert,       \* worker_fabric_identities
          feSessions,   \* fabric_probe_sessions, by number
          feRounds,     \* session -> latencies measured by the initiator
          feReports,    \* fabric_probe_observations: <<session, round, agrees>>
          feReceipts,   \* fabric_link_measurements and fabric_collective_measurements
          feReading,    \* an evaluation between its two reads
          feEvals,      \* fabric_topology_evaluations
          feSeen,       \* <<session, round>> the peer reported as it was (history)
          fePass,       \* where the retention pass stands
          feErasure     \* an object waits in pending_object_deletions
feVars == <<feNow, feCert, feSessions, feRounds, feReports, feReceipts, feReading,
            feEvals, feSeen, fePass, feErasure>>

Enrolled == FeWorkers \cup FeStrangers
Supplier(w) == IF w \in FeWorkers THEN "own" ELSE "other"
Tables == <<"links", "collectives", "sessions", "evaluations", "objects">>

FeInit ==
  /\ feNow = 0
  /\ feCert = [w \in Enrolled |-> FeNone]
  /\ feSessions = <<>> /\ feRounds = <<>>
  /\ feReports = {} /\ feReceipts = {} /\ feReading = FeNone /\ feEvals = {}
  /\ feSeen = {} /\ fePass = 1 /\ feErasure = FeErased

FeTick ==
  /\ feNow < FeHorizon
  /\ feNow' = feNow + 1
  /\ UNCHANGED <<feCert, feSessions, feRounds, feReports, feReceipts, feReading, feEvals,
                 feSeen, fePass, feErasure>>

(***************************************************************************)
(* Identities and sessions.                                                 *)
(***************************************************************************)

\* RegisterFabricWorkerIdentity: the first certificate stays, and a certificate
\* belongs to one worker; anything else is a conflict that changes nothing.
RegisterFabricWorkerIdentity(w, c) ==
  /\ feCert[w] = FeNone /\ \A v \in Enrolled : feCert[v] # c
  /\ feCert' = [feCert EXCEPT ![w] = c]
  /\ UNCHANGED <<feNow, feSessions, feRounds, feReports, feReceipts, feReading, feEvals,
                 feSeen, fePass, feErasure>>

\* CreateFabricProbeSession.
CreateFabricProbeSession(w, peer, kind) ==
  /\ Len(feSessions) < FeMaxSessions
  /\ w # peer /\ Supplier(w) = Supplier(peer)
  /\ feCert[w] # FeNone /\ feCert[peer] # FeNone
  /\ feSessions' = Append(feSessions,
       [from |-> w, to |-> peer, kind |-> kind, fromCert |-> feCert[w], toCert |-> feCert[peer],
        born |-> feNow, gone |-> FALSE])
  /\ feRounds' = Append(feRounds, <<>>)
  /\ UNCHANGED <<feNow, feCert, feReports, feReceipts, feReading, feEvals, feSeen, fePass, feErasure>>

Open(s) == ~ feSessions[s].gone /\ feNow < feSessions[s].born + FeSessionLife

\* The two agents run one more round.
RunRound(s, latency) ==
  /\ Open(s) /\ Len(feRounds[s]) < FeRoundLimit
  /\ \A r \in feReceipts : r.session # s
  /\ feRounds' = [feRounds EXCEPT ![s] = Append(@, latency)]
  /\ UNCHANGED <<feNow, feCert, feSessions, feReports, feReceipts, feReading, feEvals,
                 feSeen, fePass, feErasure>>

(***************************************************************************)
(* RecordFabricProbeObservation: by the reserved peer alone, over the        *)
(* initiator's certificate, while the session is open.  One row per          *)
(* transcript: a repeat changes nothing, a different report is a conflict.   *)
(***************************************************************************)
RecordFabricProbeObservation(s, k, agrees) ==
  /\ Open(s) /\ k \in 1..Len(feRounds[s])
  /\ \A b \in BOOLEAN : <<s, k, b>> \notin feReports
  /\ feReports' = feReports \cup {<<s, k, agrees>>}
  /\ feSeen' = IF agrees THEN feSeen \cup {<<s, k>>} ELSE feSeen
  /\ UNCHANGED <<feNow, feCert, feSessions, feRounds, feReceipts, feReading, feEvals,
                 fePass, feErasure>>

(***************************************************************************)
(* Receipts.                                                                *)
(***************************************************************************)

\* fabricPercentileIndex: the nearest rank of a sorted sample.
PercentileIndex(length, percentile) == (length * percentile + 99) \div 100 - 1
Percentile(sample, percentile) ==
  SortSeq(sample, LAMBDA a, b : a < b)[PercentileIndex(Len(sample), percentile) + 1]

\* The rounds a receipt lists, in their order and no fewer entries than were run: the
\* validators ask for at least one and at most FeRoundLimit.  That of links
\* (validateFabricLinkMeasurement) lets a round be listed again; that of collectives
\* does not.
Listings(s) ==
  {l \in UNION {[1..n -> 1..Len(feRounds[s])] : n \in Max({1, Len(feRounds[s])})..FeRoundLimit} :
     l[1] = 1 /\ \A k \in 2..Len(l) : l[k] \in {l[k - 1], l[k - 1] + 1}}
NoneTwice(l) == \A j, k \in DOMAIN l : l[j] = l[k] => j = k

\* What a receipt claims must be what its rounds reproduce.
Summary(s, l) ==
  LET sample == [k \in DOMAIN l |-> feRounds[s][l[k]]]
  IN  [samples |-> Len(l), p50 |-> Percentile(sample, 50), p95 |-> Percentile(sample, 95)]
\* validateFabricCollectiveMeasurement: a listing without repeats, measured inside the
\* window; the window is the same for links.
InWindow(at) == at <= feNow + FeAhead
CollectiveValid(l, at) == NoneTwice(l) /\ InWindow(at)

Reported(s, k) == \E b \in BOOLEAN : <<s, k, b>> \in feReports
Disputed(s, l) == \E k \in DOMAIN l : <<s, l[k], FALSE>> \in feReports

\* A link receipt is read round by round up to the first one without a report: a
\* disagreement before it refuses the receipt, one after it is not looked at.
FirstSilent(s, l) == Min({k \in 1..Len(l) + 1 : k = Len(l) + 1 \/ ~ Reported(s, l[k])})
DisputedBefore(s, l) == \E k \in 1..(FirstSilent(s, l) - 1) : <<s, l[k], FALSE>> \in feReports

AllObserved(s, l) == \A k \in DOMAIN l : Reported(s, l[k])

Receipt(s, l, at, class) ==
  [session |-> s, kind |-> feSessions[s].kind, from |-> feSessions[s].from,
   to |-> feSessions[s].to, at |-> at, in |-> Max({0} \cup {r.in : r \in feReceipts}) + 1, stored |-> feNow,
   rounds |-> l, sum |-> Summary(s, l), class |-> class]

\* RecordFabricLinkMeasurement: without a report for every round the receipt is
\* kept unqualified.  A receipt id is stored once: filing it again changes nothing,
\* even when the missing reports have arrived.
RecordFabricLinkMeasurement(s, l, at) ==
  /\ Open(s) /\ feSessions[s].kind = "link" /\ InWindow(at) /\ ~ DisputedBefore(s, l)
  /\ Cardinality(feReceipts) < FeMaxReceipts
  /\ feReceipts' = IF \E r \in feReceipts : r.session = s THEN feReceipts
                   ELSE feReceipts \cup
                        {Receipt(s, l, at, IF AllObserved(s, l) THEN "mutual" ELSE "unqualified")}
  /\ UNCHANGED <<feNow, feCert, feSessions, feRounds, feReports, feReading, feEvals,
                 feSeen, fePass, feErasure>>

\* RecordFabricCollectiveMeasurement: every round reported, or nothing is stored.
RecordFabricCollectiveMeasurement(s, l, at) ==
  /\ Open(s) /\ feSessions[s].kind = "collective" /\ CollectiveValid(l, at)
  /\ AllObserved(s, l) /\ ~ Disputed(s, l)
  /\ Cardinality(feReceipts) < FeMaxReceipts
  /\ feReceipts' = IF \E r \in feReceipts : r.session = s THEN feReceipts
                   ELSE feReceipts \cup {Receipt(s, l, at, "mutual")}
  /\ UNCHANGED <<feNow, feCert, feSessions, feRounds, feReports, feReading, feEvals,
                 feSeen, fePass, feErasure>>

(***************************************************************************)
(* EvaluateFabricTopology.                                                  *)
(***************************************************************************)

\* validateFabricTopologyRequest, and the read of owners and identities.
MayEvaluate(w, group) ==
  /\ w \in group /\ Cardinality(group) >= 2
  /\ \A v \in group : Supplier(v) = Supplier(w) /\ feCert[v] # FeNone

\* DISTINCT ON (from, to) ... ORDER BY measured_at DESC, ingested_at DESC.
Later(r, q) == r.at > q.at \/ (r.at = q.at /\ r.in > q.in)
Candidates2(kind, group, since) ==
  {r \in feReceipts : r.kind = kind /\ r.from \in group /\ r.to \in group
                      /\ r.at >= since /\ r.class = "mutual"}
Meets(r) == r.sum.samples >= FeMinSamples /\ r.sum.p95 <= FeMaxP95

\* Mutant: receipts under the threshold are left out before the newest is taken.
NewestOf_Good(kind, group, since) ==
  LET rows == {r \in Candidates2(kind, group, since) : Meets(r)}
  IN  {r \in rows : \A q \in rows : (q.from = r.from /\ q.to = r.to) => q = r \/ Later(r, q)}
NewestOf(kind, group, since) ==
  LET rows == Candidates2(kind, group, since)
  IN  {r \in rows : \A q \in rows : (q.from = r.from /\ q.to = r.to) => q = r \/ Later(r, q)}

ReadLinks(w, group) ==
  /\ feReading = FeNone /\ MayEvaluate(w, group)
  /\ Cardinality(feEvals) < FeMaxEvals
  /\ feReading' = [who |-> w, group |-> group, at |-> feNow,
                   knew |-> Candidates2("link", group, feNow - FeFresh),
                   links |-> NewestOf("link", group, feNow - FeFresh)]
  /\ UNCHANGED <<feNow, feCert, feSessions, feRounds, feReports, feReceipts, feEvals,
                 feSeen, fePass, feErasure>>

Pairs(group) == {p \in group \X group : p[1] # p[2]}
Verified(rows, group) ==
  {p \in Pairs(group) : \E r \in rows : <<r.from, r.to>> = p /\ Meets(r)}
StatusOf(links, collectives, group) ==
  IF Verified(links, group) # Pairs(group) THEN "LINK_MESH_REFUSED"
  ELSE IF Verified(collectives, group) # Pairs(group) THEN "LINK_MESH_MEASURED"
  ELSE "COLLECTIVES_MEASURED"

ReadCollectivesAndRecord ==
  /\ feReading # FeNone
  /\ LET colls == NewestOf("collective", feReading.group, feReading.at - FeFresh)
     IN  feEvals' = feEvals \cup
           {[who |-> feReading.who, group |-> feReading.group, at |-> feReading.at,
             knew |-> feReading.knew, links |-> feReading.links, collectives |-> colls,
             created |-> feNow,
             status |-> StatusOf(feReading.links, colls, feReading.group)]}
  /\ feReading' = FeNone
  /\ UNCHANGED <<feNow, feCert, feSessions, feRounds, feReports, feReceipts, feSeen,
                 fePass, feErasure>>

(***************************************************************************)
(* sweepTelemetryRetention: one table after the other; the first error ends *)
(* the pass.  fabric_topology_evaluations refuses DELETE as well as UPDATE   *)
(* (schema.sql, fabric_topology_evaluations_append_only), so a row past its  *)
(* retention makes its step fail.  The deletion queue comes last.            *)
(***************************************************************************)
Old(born) == born < feNow - FeRetention
AtTable(name) == Tables[fePass] = name
NextTable == IF fePass = Len(Tables) THEN 1 ELSE fePass + 1

\* A pass that finds nothing to do leaves everything alone.
Busy2 == \/ feErasure \/ \E e \in feEvals : Old(e.created)
         \/ \E r \in feReceipts : Old(r.stored)
         \/ \E s \in DOMAIN feSessions : Old(feSessions[s].born) /\ ~ feSessions[s].gone

DropReceipts ==
  /\ Tables[fePass] \in {"links", "collectives"}
  /\ fePass = 1 => Busy2
  /\ feReceipts' = {r \in feReceipts : ~ (Old(r.stored) /\
       r.kind = IF AtTable("links") THEN "link" ELSE "collective")}
  /\ fePass' = NextTable
  /\ UNCHANGED <<feNow, feCert, feSessions, feRounds, feReports, feReading, feEvals, feSeen, feErasure>>

\* Sessions take their reports and their collective receipts along.
DropSessions ==
  /\ AtTable("sessions")
  /\ LET old == {s \in DOMAIN feSessions : Old(feSessions[s].born)}
     IN  /\ feSessions' = [s \in DOMAIN feSessions |->
                             [feSessions[s] EXCEPT !.gone = @ \/ s \in old]]
         /\ feReports' = {o \in feReports : o[1] \notin old}
         /\ feReceipts' = {r \in feReceipts : ~ (r.kind = "collective" /\ r.session \in old)}
  /\ fePass' = NextTable
  /\ UNCHANGED <<feNow, feCert, feRounds, feReading, feEvals, feSeen, feErasure>>

DropEvaluations ==
  /\ AtTable("evaluations")
  /\ fePass' = IF \E e \in feEvals : Old(e.created) THEN 1 ELSE NextTable
  /\ UNCHANGED <<feNow, feCert, feSessions, feRounds, feReports, feReceipts, feReading,
                 feEvals, feSeen, feErasure>>

DrainDeletions ==
  /\ AtTable("objects")
  /\ feErasure' = FALSE
  /\ fePass' = NextTable
  /\ UNCHANGED <<feNow, feCert, feSessions, feRounds, feReports, feReceipts, feReading,
                 feEvals, feSeen>>

RetentionPass == DropReceipts \/ DropSessions \/ DropEvaluations \/ DrainDeletions

FeNext ==
  \/ FeTick \/ ReadCollectivesAndRecord \/ RetentionPass
  \/ \E w \in Enrolled : \E c \in FeCerts : RegisterFabricWorkerIdentity(w, c)
  \/ \E w, peer \in Enrolled : \E kind \in FeKinds : CreateFabricProbeSession(w, peer, kind)
  \/ \E s \in DOMAIN feSessions :
       \/ \E latency \in FeLatencies : RunRound(s, latency)
       \/ \E k \in 1..FeRoundLimit : \E agrees \in BOOLEAN : RecordFabricProbeObservation(s, k, agrees)
       \/ \E l \in Listings(s) : \E at \in feNow..(feNow + FeAhead) :
            RecordFabricLinkMeasurement(s, l, at) \/ RecordFabricCollectiveMeasurement(s, l, at)
  \/ \E w \in Enrolled : \E group \in SUBSET Enrolled : ReadLinks(w, group)

FeSpec == FeInit /\ [][FeNext]_feVars /\ WF_feVars(RetentionPass)

(***************************************************************************)
(* Properties                                                               *)
(***************************************************************************)

\* A direction counts as verified only on rounds the other end saw: every round its
\* receipt lists was reported by the peer as it was, between two workers of the
\* requesting supplier with bound certificates (the classification of
\* RecordFabricLinkMeasurement, EvaluateFabricTopology).  For collectives the samples
\* are that many different rounds; a link's may be one round listed again, which its
\* validator does not look for.
VerifiedIsObserved ==
  \A e \in feEvals : \A rows \in {e.links, e.collectives} : \A p \in Verified(rows, e.group) :
    /\ Supplier(p[1]) = Supplier(e.who) /\ Supplier(p[2]) = Supplier(e.who)
    /\ \E r \in rows :
         LET seen == {k \in Range(r.rounds) : <<r.session, k>> \in feSeen}
         IN  /\ <<r.from, r.to>> = p /\ r.sum.samples >= FeMinSamples
             /\ feSessions[r.session].fromCert = feCert[p[1]]
             /\ feSessions[r.session].toCert = feCert[p[2]]
             /\ seen = Range(r.rounds)
             /\ r.kind = "collective" => Cardinality(seen) >= FeMinSamples

\* A good receipt does not hide a newer, degraded one of its direction: of the
\* qualified receipts the evaluation could read, the one it rests on was measured
\* last (the DISTINCT ON of EvaluateFabricTopology).
NewestLinkDecides ==
  \A e \in feEvals : \A p \in Verified(e.links, e.group) :
    \A r \in e.knew : <<r.from, r.to>> = p =>
      r.at <= Max({l.at : l \in {x \in e.links : <<x.from, x.to>> = p}})

\* An object whose buyer was erased is removed in the end: the pass that prunes
\* telemetry reaches the deletion queue (sweepTelemetryRetention,
\* sweepPendingObjectDeletions).
DeletionQueueDrains == feErasure ~> ~ feErasure
=============================================================================
