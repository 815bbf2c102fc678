------------------------------ MODULE MCWork --------------------------------
(***************************************************************************)
(* One run over how work is placed and judged, in parts that share no      *)
(* state in the models: every behaviour picks one part at the start and    *)
(* only that part moves.                                                   *)
(***************************************************************************)
EXTENDS Dispatch, DynamicPeers, ResultMerge, VerificationWork, FabricEvidence,
        TopologyPlanner, LiveIndex, TLC

CONSTANTS Parts, h1, h2, w1, w2, jb, jp, m1, c1, c2, a0, p1, p3
VARIABLE part

Work == {"dispatch", "families", "peers", "merge", "fence", "fabric", "pruning",
         "topology", "index"}

\* Two tasks of a batch job, one of a priority job of several families of cells
\* (placement version 4), and two machines that differ in
\* class, ask and what they hold warm.
TaskJob == 1 :> jb @@ 2 :> jb @@ 3 :> jp
Pins == 1 :> {NoOne} @@ 2 :> {NoOne, w2} @@ 3 :> {NoOne}
Box == [class |-> "apple_silicon_ultra", links |-> {}, sandboxed |-> TRUE,
        deviceBound |-> TRUE, optIn |-> FALSE,
        cells |-> {[id |-> c1, matrix |-> m1, routable |-> TRUE]},
        identity |-> 0, active |-> TRUE, memory |-> 2, country |-> "x",
        reputation |-> 1, trusted |-> TRUE, ask |-> 2, warm |-> {}]
Machines == w1 :> Box
         @@ w2 :> [Box EXCEPT !.class = "apple_silicon_base", !.ask = 1, !.warm = {jb}]
BatchOrder == [buyer |-> "b", directed |-> FALSE, cells |-> {c1}, legacy |-> FALSE, version |-> 2,
               identity |-> 0, memory |-> 1, classes |-> {}, residency |-> {},
               reputation |-> 1, tier |-> "batch", rate |-> 2, currency |-> "usd",
               charge |-> 2, premium |-> 1, cap |-> 6, slack |-> TRUE]
PlacedOrders == jb :> BatchOrder
             @@ jp :> [BatchOrder EXCEPT !.tier = "priority", !.cap = 0, !.rate = 3, !.version = 4]

\* Two candidate peers, of different suppliers.
PeerSuppliers == a0 :> 0 @@ p1 :> 1 @@ p3 :> 2

\* Results of two chunks, the first one of two records; the second has no usage figure.
Rec(t, n) == [text |-> t, tokens |-> n]
MergeBodies == (0 :> [first |-> <<Rec("a", 2), Rec("b", 1)>>, majority |-> <<Rec("A", 1)>>])
            @@ (1 :> [first |-> <<Rec("c", 1)>>, majority |-> <<Rec("C", RmUnmetered)>>])

\* The workers of the fabric and their certificates are interchangeable: w1 is the
\* one that registers c1 and opens the first session, over a link.
FabricBegins ==
    /\ feCert[w1] \in {FeNone, c1} /\ feCert[w2] \in {FeNone, c2}
    /\ feCert[w2] # FeNone => feCert[w1] # FeNone
    /\ feSessions # <<>> => feSessions[1].from = w1 /\ feSessions[1].kind = "link"

\* One chunk, whose attempts two processes verify.
OneChunk == [w \in Works |-> "c"]

Rest(p) ==
    /\ IF p \in {"dispatch", "families"} THEN TRUE ELSE UNCHANGED dpVars
    /\ IF p = "peers" THEN TRUE ELSE UNCHANGED dyVars
    /\ IF p = "merge" THEN TRUE ELSE UNCHANGED rmVars
    /\ IF p = "fence" THEN TRUE ELSE UNCHANGED vars
    /\ IF p \in {"fabric", "pruning"} THEN TRUE ELSE UNCHANGED feVars
    /\ IF p = "topology" THEN TRUE ELSE UNCHANGED tpVars
    /\ IF p = "index" THEN TRUE ELSE UNCHANGED liVars
    /\ UNCHANGED part

\* Of the two jobs this one gets no task, and does not change.
Unused(j) ==
    UNCHANGED <<dpJob[j], dpSpent[j], dpBudget[j]>> /\ \A t \in TasksIn(j) : UNCHANGED dpTask[t]

\* A part that does not move stays in one of its initial states.
WorkInit ==
    /\ part \in Parts
    /\ part # "fence" => staged = [w \in Works |-> CHOOSE copy \in Staged : TRUE]
    /\ DpInit /\ DyInit /\ RmInit /\ Init /\ FeInit /\ TpInit /\ LIInit

\* Only the leader's sweeps hedge; a verification worker asks third opinions, as they do.
WorkNext ==
    \/ part = "dispatch" /\ DpNext /\ Unused(jp) /\ Rest("dispatch")
    \/ part = "families" /\ DpNext /\ Unused(jb) /\ Rest("families")
    \/ part = "peers" /\ DyNext /\ dyTx'["verifier"].kind # "hedge" /\ Rest("peers")
    \/ part = "merge" /\ RmNext /\ Rest("merge")
    \/ part = "fence" /\ Next /\ Rest("fence")
    \/ part = "fabric" /\ FeNext /\ feNow' < FeHorizon /\ Rest("fabric")
    \/ part = "pruning" /\ FeNext /\ Len(feSessions') < FeMaxSessions /\ Rest("pruning")
    \/ part = "topology" /\ TpNext /\ Rest("topology")
    \/ part = "index" /\ LINext /\ Rest("index")

WorkSpec ==
    WorkInit /\ [][WorkNext]_<<dpVars, dyVars, rmVars, vars, feVars, tpVars, liVars,
                              part>>

\* A topology plan takes from the fabric what was measured last and seen by both ends,
\* and takes no more from it than the tests of the planner allow.
PlacementOnEvidence ==
    /\ VerifiedIsObserved /\ NewestLinkDecides
    /\ MeasurementGrantsNothing /\ CoupledWorkStaysTogether /\ DecisionsValidate

\* Steps no worker, processor or sweep takes: to replace what a verification pinned, to
\* give up on an object before its retries or accept one on bad evidence, to start a task
\* of a job that ended, or to trace a claim by a ladder that goes up.
WorkSteps ==
    [][PinsHold /\ EvidenceFails' /\ NoWorkOnTerminal /\ LadderDescends]_<<vars, dpVars>>
=============================================================================
