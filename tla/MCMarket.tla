------------------------------ MODULE MCMarket ------------------------------
(***************************************************************************)
(* One run over what is sold, in parts that share no state in the          *)
(* models: every behaviour picks one part at the start and only that part  *)
(* moves.                                                                  *)
(***************************************************************************)
EXTENDS RealtimeContracts, Coalescing, ServiceLeases, JobSubmission, QuoteBinding,
        JobEconomics, ProjectOrders, ProjectGraph, TLC

CONSTANTS Parts, r1, r2, r3, h1, h2, l1, l2
VARIABLE part

Trade == {"realtime", "coalescing", "orders", "hosts", "submission", "quotes", "economics",
          "projects", "requotes", "graphs", "receipts"}

\* Two requests under one idempotency key and one under its own.
RequestKeys == r1 :> 1 @@ r2 :> 2 @@ r3 :> 1

\* What the hosts of service leases ask.
HostAsks == [h \in Hosts |-> IF h = h1 THEN 2 ELSE 1]

\* A quoted request with media, a plain one that is copied, and one with a honeypot, whose
\* tasks are not uniform.
Submissions == {[id |-> 1, quoted |-> TRUE, media |-> TRUE, verify |-> "probe"],
                [id |-> 2, quoted |-> FALSE, media |-> FALSE, verify |-> "copy"],
                [id |-> 3, quoted |-> FALSE, media |-> FALSE, verify |-> "probe"]}

\* Releases that differ in a model's receipt, its price board or its economics.
QuoteRelease(tb, board, econ) ==
    [build |-> "x", through |-> [m \in QbModels |-> IF m = "b" THEN tb ELSE "ta"],
     power |-> "pw", board |-> board, econ |-> econ]
BaseRelease == QuoteRelease("tb", "b1", 1)
Releases == {BaseRelease, QuoteRelease("tc", "b2", 2)}
Measured == [r \in {"ta", "tb", "tc", "pw"} |-> "x"]
FreshUntil == [r \in {"ta", "tb", "tc", "pw"} |->
    CASE r = "ta" -> 3 [] r = "tb" -> 4 [] r = "tc" -> 4 [] r = "pw" -> 2]
Boards == [b \in {"b1", "b2"} |-> IF b = "b1" THEN 1 ELSE 4]

\* A project of one root step and two steps that read its output.
Roots == <<"a">>
Upstream == [s \in {"d", "e"} |-> "a"]
Quotings == "a" :> 2 @@ "d" :> 1 @@ "e" :> 1

\* Graphs over three steps, and renders of one or two frames, cameras and tiles.
StepNames == <<"p", "q", "r">>
KindOf == [s \in {"p", "q", "r"} |-> IF s = "r" THEN "media_transcode" ELSE "embeddings"]
SecsOf == [s \in {"p", "q", "r"} |-> IF s = "q" THEN 1 ELSE 2]
Render(w, h, tw, th, fs, cs, ss) ==
    [width |-> w, height |-> h, tileW |-> tw, tileH |-> th, firstFrame |-> 3,
     lastFrame |-> 2 + fs, cameras |-> cs, samples |-> ss]
Shapes == {Render(w, 3, tw, IF tw = 0 THEN 0 ELSE 2, fs, cs, ss) :
             w \in {3, 4}, tw \in {0, 2}, fs \in {1, 2}, cs \in {1, 2}, ss \in {1, 2, 3}}

\* One cell, then two; a worker of the same account and one of another.
CellSets == <<{"x"}, {"x", "y"}>>
Owners == [w \in PrWorkers |-> IF w = "w3" THEN "other" ELSE "one"]

\* One or two records, embeddings (no output cap) or generation, at prices from a
\* fraction of a micro to several micros for the job.
PricedRequests ==
    [price : {2, 7, 46}, records : {1, 2}, bytes : {5, 13}, cap : {0, 3},
     clones : {1, 2}, sla : BOOLEAN, share : {6, 19}]

\* Schedules whose charges ride in a batch, and ones whose charges stand alone.
Sched(percent, batch, fixed, control, margin, least) ==
    [percent |-> percent, fixed |-> fixed, batch |-> batch, control |-> control,
     margin |-> margin, least |-> least, sla |-> 4, storage |-> 9, egress |-> 17, gib |-> 10,
     retained |-> 2, month |-> 3, risk |-> 1]
PricedSchedules ==
    {Sched(1, 60, 5, 1, 2, 1), Sched(1, 12, 5, 1, 5, 0), Sched(0, 9, 2, 2, 1, 1),
     Sched(1, 12, 2, 1, 3, 2)}

Rest(p) ==
    /\ IF p = "realtime" THEN TRUE ELSE UNCHANGED rtVars
    /\ IF p = "coalescing" THEN TRUE ELSE UNCHANGED coVars
    /\ IF p \in {"orders", "hosts"} THEN TRUE ELSE UNCHANGED slVars
    /\ IF p = "submission" THEN TRUE ELSE UNCHANGED jsVars
    /\ IF p = "quotes" THEN TRUE ELSE UNCHANGED qbVars
    /\ IF p \in {"projects", "requotes"} THEN TRUE ELSE UNCHANGED poVars
    /\ IF p = "graphs" THEN TRUE ELSE UNCHANGED pgVars
    /\ IF p = "receipts" THEN TRUE ELSE UNCHANGED prVars
    /\ IF p = "economics" THEN TRUE ELSE UNCHANGED jeVars
    /\ UNCHANGED part

\* A part that does not move stays in one of its initial states.
AnyPricing ==
    CHOOSE p \in {r \in JeRequests : UniformCounts(r) /\ CatalogueGross(r) > 0}
                  \X {s \in JeSchedules : ValidSchedule(s)} : TRUE
MarketInit ==
    /\ part \in Parts
    /\ part # "economics" => jeReq = AnyPricing[1] /\ jeSched = AnyPricing[2]
    /\ part # "graphs" => pgTask = "graph"
    /\ RealtimeInit /\ CoalescingInit /\ SLInit /\ JsInit /\ QbInit
    /\ JeInit /\ PoInit /\ PgInit /\ PrInit

\* The jobs of the last steps of a project are accepted and move no further: nobody reads
\* their outputs.
LeavesWait == \A s \in Dependents : poJobs'[<<1, s>>] \in {"none", "queued"}

\* A lease is ordered from either host, or two leases share one host.  Two clients work
\* on a project whose root is quoted once, or one client on a root quoted twice and one
\* step that reads it.
MarketNext ==
    \/ part = "realtime" /\ RealtimeNext /\ Rest("realtime")
    \/ part = "coalescing" /\ CoalescingNext /\ Rest("coalescing")
    \/ part = "orders" /\ SLNext /\ slPhase'[l2] = "none" /\ Rest("orders")
    \/ part = "hosts" /\ SLNext /\ ~offer'[h2].open /\ Rest("hosts")
    \/ part = "submission" /\ JsNext /\ Rest("submission")
    \/ part = "quotes" /\ QbNext /\ Rest("quotes")
    \/ part = "projects" /\ PoNext /\ poQuotes'[<<2, "a">>] = PoNone /\ LeavesWait /\ Rest("projects")
    \/ part = "requotes" /\ PoNext /\ poCommands'["c2"] = NoCommand /\ poQuotes'[<<1, "e">>] = PoNone /\ Rest("requotes")
    \/ part = "graphs" /\ PgNext /\ Rest("graphs")
    \/ part = "receipts" /\ PrNext /\ Rest("receipts")
    \/ part = "economics" /\ JeNext /\ Rest("economics")

MarketSpec ==
    MarketInit /\ [][MarketNext]_<<rtVars, coVars, slVars, jsVars, qbVars, jeVars, poVars,
                                  pgVars, prVars, part>>
=============================================================================
