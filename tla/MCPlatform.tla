----------------------------- MODULE MCPlatform -----------------------------
(***************************************************************************)
(* One run over the parts of the platform that share no state: every      *)
(* behaviour picks one part at the start and only that part moves.         *)
(***************************************************************************)
EXTENDS WorkerLeader, WorkerCredentials, WorkerRegistration, BuyerAccess, ObjectRetention,
        ProviderEvents, OfferHeartbeats, ActivationPolicy, ArrivalBatch, PrefixBeliefs,
        OperatorControls, TLC

CONSTANT Parts
VARIABLE part

AllParts ==
    {"leader", "credentials", "keys", "guard", "buckets", "retention", "webhooks", "payers", "payees",
     "risk", "heartbeats", "policy", "arrivals", "prefixes", "controls", "adjustments",
     "registrations"}

\* The requests for a card setup or an onboarding link are interchangeable.
AskerSymmetry == Permutations(Askers)

\* Early fraud warnings: a charge named with and without its PaymentIntent.
Warnings == {[id |-> 1, warning |-> "w1", charge |-> "c1", pi |-> "p1"],
             [id |-> 2, warning |-> "w1", charge |-> "c2", pi |-> NoPI],
             [id |-> 1, warning |-> "w1", charge |-> "c1", pi |-> NoPI]}

\* Three activation documents, and what earlier versions of the table left behind.
Document(cap, r, b) ==
    [capability |-> cap, bound |-> {"a", "b"},
     state   |-> [k \in {"a", "b", "*"} |-> IF k = "b" THEN b ELSE "ACTIVE"],
     receipt |-> [k \in {"a", "b", "*"} |-> IF k = "a" THEN r ELSE "r4"]]
Documents == <<Document("c1", "r4", "ACTIVE"), Document("c1", "r6", "VALIDATED"),
               Document("c2", "r6", "ACTIVE")>>
Seeds(doc) == [k \in {"a", "b", "*"} |->
    [capability |-> doc.capability, state |-> doc.state[k], receipt |-> doc.receipt[k],
     source |-> "document", target |-> 0]]
Histories == <<Seeds(Documents[1]),
               [k \in {"b"} |-> [capability |-> "c1", state |-> "ACTIVE", receipt |-> "gate_v2",
                                 source |-> "operator", target |-> 0]]>>
PolicyWrites == {<<"a", "QUARANTINED">>, <<"*", "VALIDATED">>}

\* Two prompts that share their first block, and a worker that reports an old identifier.
Chains == [a |-> <<"x", "y">>, b |-> <<"x", "z">>, old |-> <<>>]
LegacyIds == [a |-> PbNone, b |-> PbNone, old |-> "q"]
Depths == [x |-> 1, y |-> 2, z |-> 2, q |-> 1]

\* 1 pauses, 2 resumes under its ticket and reason, 3 under a ticket of its own; 4 adjusts,
\* 5 is its exact retry, 6 reuses its ticket for another amount.
Pause == [k |-> "c", t |-> "intake", a |-> "ann", r |-> "t1", v |-> TRUE]
Demote == [k |-> "r", t |-> "sup", a |-> "bob", r |-> "t2", v |-> -1]
Asks == <<Pause, [Pause EXCEPT !.v = FALSE], [Pause EXCEPT !.v = FALSE, !.r = "t2"],
          Demote, Demote, [Demote EXCEPT !.v = 1]>>
AskKinds == [c \in OcCalls |->
    IF Asks[c].k = "c" THEN "operational_control_changed" ELSE "reputation_adjusted"]
AskTargets == [c \in OcCalls |-> Asks[c].t]
AskReasons == [c \in OcCalls |-> "drill"]
AskRefs == [c \in OcCalls |-> Asks[c].r]
AskActors == [c \in OcCalls |-> Asks[c].a]
AskProcs == [c \in OcCalls |-> "p1"]
AskValues == [c \in OcCalls |-> Asks[c].v]
DockBy == {-1}

\* Two registrations of one worker and one of another, whose rates agree or do not; the
\* second cell is directed at first and advertised later.
Lanes == <<[advertised |-> {"x"}, directed |-> {"x", "y"}],
           [advertised |-> {"x", "y"}, directed |-> {"x", "y"}]>>
Floors == [c \in WrCells |-> 2]
Result(c, r) == [cell |-> c, rate |-> r]
Sent(ms, bs) == [models |-> ms, bench |-> bs]
Declarations ==
    [w \in WrWorkers |->
        IF w = "u" THEN {Sent({"x", "y"}, <<Result("x", 8)>>),
                         Sent({"x", "y"}, <<Result("y", 3), Result("x", 6)>>)}
        ELSE {Sent({"x"}, <<Result("x", 3)>>), Sent({"x"}, <<Result("x", 6)>>)}]
WorkerSuppliers == [w \in WrWorkers |-> IF w = "u" THEN 1 ELSE 2]
Senders == <<"u", "u", "v">>

Rest(p) ==
    /\ IF p = "leader" THEN TRUE ELSE UNCHANGED wlVars
    /\ IF p = "credentials" THEN TRUE ELSE UNCHANGED wcVars
    /\ IF p = "keys" THEN TRUE ELSE UNCHANGED bkVars
    /\ IF p \in {"guard", "buckets"} THEN TRUE ELSE UNCHANGED alVars
    /\ IF p = "retention" THEN TRUE ELSE UNCHANGED orVars
    /\ IF p = "webhooks" THEN TRUE ELSE UNCHANGED whVars
    /\ IF p \in {"payers", "payees", "risk"} THEN TRUE ELSE UNCHANGED peVars
    /\ IF p = "heartbeats" THEN TRUE ELSE UNCHANGED ohVars
    /\ IF p = "policy" THEN TRUE ELSE UNCHANGED apVars
    /\ IF p = "arrivals" THEN TRUE ELSE UNCHANGED arVars
    /\ IF p = "prefixes" THEN TRUE ELSE UNCHANGED pbVars
    /\ IF p \in {"controls", "adjustments"} THEN TRUE ELSE UNCHANGED ocVars
    /\ IF p = "registrations" THEN TRUE ELSE UNCHANGED wrVars
    /\ UNCHANGED part

PlatformInit ==
    /\ part \in Parts
    /\ WlInit /\ WCInit /\ BKInit /\ ALInit /\ ORInit /\ WHInit /\ PEInit /\ OHInit
    /\ ApInit /\ ArInit /\ PbInit /\ OcInit /\ WrInit
    /\ part # "heartbeats" => ohMode = "sql"
    /\ part # "arrivals" => arJitter = 0

\* Bound: a buyer is deleted with at most one event out, and none is created after.
QuietOnceErased ==
    peErased' # {} => Cardinality(peSent) <= 1 /\ UNCHANGED <<peSent, peWindow>>

\* Requests of operators that are not made: a control and a reputation share no row.
Waits(calls) == \A c \in calls : ocStage'[c] = "new"

PlatformNext ==
    \/ part = "leader" /\ WlNext /\ Rest("leader")
    \/ part = "credentials" /\ WCNext /\ Rest("credentials")
    \/ part = "keys" /\ BKNext /\ Rest("keys")
    \/ part = "guard" /\ GuardNext /\ Rest("guard")
    \/ part = "buckets" /\ BucketNext /\ Rest("buckets")
    \/ part = "retention" /\ ORNext /\ Rest("retention")
    \/ part = "webhooks" /\ WHNext /\ Rest("webhooks")
    \/ part = "payers" /\ (\E b \in Buyers : InboxOf(b)) /\ QuietOnceErased /\ Rest("payers")
    \/ part = "payees" /\ (\E s \in PeSuppliers : InboxOf(s)) /\ Rest("payees")
    \/ part = "risk" /\ RiskNext /\ Rest("risk")
    \/ part = "heartbeats" /\ OHNext /\ Rest("heartbeats")
    \/ part = "policy" /\ ApNext /\ Rest("policy")
    \/ part = "arrivals" /\ ArNext /\ Rest("arrivals")
    \/ part = "prefixes" /\ PbNext /\ Rest("prefixes")
    \/ part = "controls" /\ OcNext /\ Waits({c \in OcCalls : Adjusts(c)}) /\ Rest("controls")
    \/ part = "adjustments" /\ OcNext /\ Waits({c \in OcCalls : ~Adjusts(c)})
        /\ UNCHANGED ocReading /\ Rest("adjustments")
    \/ part = "registrations" /\ WrNext /\ Rest("registrations")

PlatformSpec ==
    PlatformInit /\ [][PlatformNext]_<<wlVars, wcVars, bkVars, alVars, orVars, whVars, peVars,
        ohVars, apVars, arVars, pbVars, ocVars, wrVars, part>>
\* What the outside is told and tells us is neither lost nor out of order: the newest
\* fact of the provider is in force, and a notification is retried within its limit.
EventsKept == FactIsNewest /\ AcknowledgedIsRecorded /\ SeenIdentityHolds /\ AttemptsBounded

\* What the scheduler believes about a worker was reported by it within the window: the
\* prefixes it ranks warm for, the offer it counts as live, and the cells and the rate of
\* its registration.
BeliefsEarned ==
    /\ RankIsEarned /\ MissLeavesNothingOld /\ PrunedFits /\ EligibleWasSeen
    /\ RegistrationKept

\* Steps none of these services takes: to admit against a policy that is no longer in
\* force or go back to an older one, to write an earlier report over a later one, to
\* revive a finished delivery or end one another deliverer has taken over, to lift a
\* suspension or act for a revoked operator.
StepsPermitted ==
    [][/\ AdmissionIsCurrent /\ CacheAdvances /\ ReportsStayInOrder
       /\ DeliveredIsFinal /\ OutcomeIsTheHolders /\ SuspensionLifted /\ RevokedChangesNothing]_<<apVars, ohVars, whVars, wcVars, ocVars>>
=============================================================================
