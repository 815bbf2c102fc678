----------------------------- MODULE Coalescing -----------------------------
(***************************************************************************)
(* Identical deterministic requests of one tenant that are not streamed:    *)
(* served from the exact-result cache (exact_reuse.go, exact_reuse_path.go),*)
(* or collapsed onto one leader's execution (inflight_coalescing.go), or     *)
(* executed alone.  The retention sweep evicts cache rows and their objects *)
(* (exact_result_retention.go), another sweep removes expired inflight rows.*)
(*                                                                         *)
(* One request identity.  A contract is named by its caller.  Time is       *)
(* counted in ticks; a leader that is alive renews its lease before the     *)
(* last tick of it, unless its renewals are lost.                           *)
(***************************************************************************)
EXTENDS Integers, FiniteSets, TLAPS
LOCAL INSTANCE FiniteSetTheorems

CONSTANTS
    CoCallers,
    LeaseTTL,      \* inflightLeaseTTL in ticks
    ResultTTL,     \* inflightResultTTL in ticks
    MaxElections,  \* inflightMaxElections
    MaxLosses,     \* bound: deaths of callers and lapses of renewal
    MaxEvictions,  \* bound: runs of the retention sweep
    NoCaller

ASSUME CoalescingConstants ==
    /\ IsFiniteSet(CoCallers) /\ NoCaller \notin CoCallers
    /\ LeaseTTL \in Nat \ {0} /\ ResultTTL \in Nat /\ ResultTTL >= LeaseTTL
    /\ MaxElections \in Nat \ {0, 1} /\ MaxLosses \in Nat /\ MaxEvictions \in Nat

VARIABLES
    coAt,        \* where the caller's handler is
    leads,     \* callers that hold a coalesceLeaderRef
    verified,  \* callers with a verified physical contract
    reuse,     \* the class a caller was billed under when it executed nothing
    coSource,    \* the contract a coalesced delivery cites
    flight,    \* the row of inflight_executions
    coCached,    \* the row of exact_result_cache is there
    coBytes,     \* the content-addressed object is there
    evictor,   \* where the retention sweep is
    excused,   \* something went wrong that justifies a second execution
    losses, evictions

coVars == <<coAt, leads, verified, reuse, coSource, flight, coCached, coBytes, evictor, excused, losses, evictions>>
billing == <<verified, reuse, coSource>>
store == <<coCached, coBytes, evictor, evictions>>

NoFlight == [state |-> "none", leader |-> NoCaller, lease |-> 0, ttl |-> 0, elections |-> 0, result |-> NoCaller]

CoalescingInit ==
    /\ coAt = [c \in CoCallers |-> "new"]
    /\ leads = {} /\ verified = {}
    /\ reuse = [c \in CoCallers |-> "none"]
    /\ coSource = [c \in CoCallers |-> NoCaller]
    /\ flight = NoFlight
    /\ coCached = FALSE /\ coBytes = FALSE /\ evictor = "idle"
    /\ excused = FALSE /\ losses = 0 /\ evictions = 0

CoGoes(c, where) == coAt' = [coAt EXCEPT ![c] = where]
Loss == losses < MaxLosses /\ losses' = losses + 1
HoldsLease(c) == flight.state = "RUNNING" /\ flight.leader = c

\* SettleRealtimeExactReuse: a coalesced delivery must name a physical
\* contract that is verified.  The buyer is charged, no supplier credited.
Citable(l) == l \in verified
BillReuse(c, class, leader) ==
    /\ reuse' = [reuse EXCEPT ![c] = class]
    /\ coSource' = [coSource EXCEPT ![c] = leader]

-----------------------------------------------------------------------------
(* The cache.                                                                *)

\* tryRealtimeExactReuse: a hit whose bytes load is billed under the reuse
\* class.  A miss, or a fault on the way, falls through.
LookupExactResult(c) ==
    /\ coAt[c] = "new"
    /\ \/ /\ coCached /\ coBytes
          /\ CoGoes(c, "served")
          /\ BillReuse(c, "exact", NoCaller)
       \/ CoGoes(c, "claiming") /\ UNCHANGED <<reuse, coSource>>
    /\ UNCHANGED <<leads, verified, flight, store, excused, losses>>

-----------------------------------------------------------------------------
(* The election.                                                             *)

CoRunning(c, n) == [state |-> "RUNNING", leader |-> c, lease |-> LeaseTTL, ttl |-> ResultTTL, elections |-> n, result |-> NoCaller]

\* Leadership of a running row is taken only when its lease is over.
\* Mutant: a running row can be taken while its lease lasts.
Electable_AnyLease ==
    \/ flight.state = "none"
    \/ flight.state = "RUNNING" /\ flight.elections < MaxElections
Electable ==
    \/ flight.state = "none"
    \/ flight.state = "RUNNING" /\ flight.lease = 0 /\ flight.elections < MaxElections

ClaimInflightExecution(c) ==
    /\ coAt[c] = "claiming"
    /\ IF Electable
       THEN /\ flight' = CoRunning(c, flight.elections + 1)
            /\ leads' = leads \cup {c}
            /\ CoGoes(c, "executing")
       ELSE /\ UNCHANGED <<flight, leads>>
            /\ IF flight.elections >= MaxElections /\ flight.state # "COMPLETE"
               THEN CoGoes(c, "executing") ELSE CoGoes(c, "waiting")
    /\ UNCHANGED <<billing, store, excused, losses>>

\* RenewInflightLease extends the lease, not the expiry of the row.
RenewInflightLease(c) ==
    /\ c \in leads /\ coAt[c] \in {"executing", "putting", "recording", "publishing"}
    /\ HoldsLease(c) /\ flight.lease < LeaseTTL
    /\ flight' = [flight EXCEPT !.lease = LeaseTTL]
    /\ UNCHANGED <<coAt, leads, billing, store, excused, losses>>

-----------------------------------------------------------------------------
(* Following.                                                                *)

\* AwaitInflightResult gives up when the leader failed, its lease is over or
\* the row is gone; the follower then executes alone.  A complete row is
\* followed if the bytes load, and billed against the leader's contract
\* (tryRealtimeCoalescedDelivery).
GivesUp == flight.state \in {"none", "FAILED"} \/ (flight.state = "RUNNING" /\ flight.lease = 0)
AwaitInflightResult(c) ==
    /\ coAt[c] = "waiting"
    /\ \/ /\ GivesUp
          /\ CoGoes(c, "executing") /\ excused' = (excused \/ flight.state = "none") /\ UNCHANGED <<reuse, coSource>>
       \/ /\ flight.state = "COMPLETE" /\ coBytes /\ Citable(flight.result)
          /\ CoGoes(c, "served") /\ UNCHANGED excused
          /\ BillReuse(c, "coalesced", flight.result)
       \/ /\ flight.state = "COMPLETE"
          /\ CoGoes(c, "executing") /\ excused' = TRUE /\ UNCHANGED <<reuse, coSource>>
    /\ UNCHANGED <<leads, verified, flight, store, losses>>

-----------------------------------------------------------------------------
(* Executing and publishing.                                                 *)

\* The contract is verified and the answer delivered, or the request fails.
Execute(c) ==
    /\ coAt[c] = "executing"
    /\ \/ verified' = verified \cup {c} /\ CoGoes(c, "putting") /\ UNCHANGED excused
       \/ CoGoes(c, "releasing") /\ excused' = TRUE /\ UNCHANGED verified
    /\ UNCHANGED <<leads, reuse, coSource, flight, store, losses>>

\* maybeStoreRealtimeExactResult: the object, then the row, then the result
\* for the followers.
PutResult(c) ==
    /\ coAt[c] = "putting"
    /\ \/ coBytes' = TRUE /\ CoGoes(c, "recording") /\ UNCHANGED excused
       \/ CoGoes(c, "releasing") /\ excused' = TRUE /\ UNCHANGED coBytes
    /\ UNCHANGED <<leads, billing, flight, coCached, evictor, losses, evictions>>

RecordExactResult(c) ==
    /\ coAt[c] = "recording"
    /\ coCached' = TRUE
    /\ CoGoes(c, "publishing")
    /\ UNCHANGED <<leads, billing, flight, coBytes, evictor, excused, losses, evictions>>

\* ResolveInflightSuccess: only the leader of a running row publishes.
Publishable(c) == HoldsLease(c)
ResolveInflightSuccess(c) ==
    /\ coAt[c] = "publishing"
    /\ flight' = IF c \in leads /\ Publishable(c)
                 THEN [flight EXCEPT !.state = "COMPLETE", !.result = c, !.ttl = ResultTTL]
                 ELSE flight
    /\ CoGoes(c, "releasing")
    /\ UNCHANGED <<leads, billing, store, excused, losses>>

\* The deferred ResolveInflightFailure of every leader.
ResolveInflightFailure(c) ==
    /\ coAt[c] = "releasing"
    /\ flight' = IF c \in leads /\ HoldsLease(c) THEN [flight EXCEPT !.state = "FAILED", !.ttl = ResultTTL] ELSE flight
    /\ leads' = leads \ {c}
    /\ CoGoes(c, "gone")
    /\ UNCHANGED <<billing, store, excused, losses>>

CallerDies(c) ==
    /\ coAt[c] \in {"executing", "putting", "recording", "publishing", "releasing"} /\ Loss
    /\ leads' = leads \ {c}
    /\ CoGoes(c, "gone")
    /\ excused' = TRUE
    /\ UNCHANGED <<billing, flight, store>>

-----------------------------------------------------------------------------
(* Time and the sweeps.                                                      *)

OneLess(n) == IF n = 0 THEN 0 ELSE n - 1
Renewing == flight.state = "RUNNING" /\ flight.leader \in leads

CoTick ==
    /\ flight.lease + flight.ttl > 0
    /\ flight' = [flight EXCEPT !.lease = OneLess(@), !.ttl = OneLess(@)]
    /\ IF Renewing /\ flight.lease = 1 THEN Loss /\ excused' = TRUE ELSE UNCHANGED <<losses, excused>>
    /\ UNCHANGED <<coAt, leads, billing, store>>

\* sweepExpiredInflight deletes a row past its expiry, running or not.
SweepExpiredInflight ==
    /\ flight.state # "none" /\ flight.ttl = 0
    /\ flight' = NoFlight
    /\ excused' = (excused \/ flight.state = "RUNNING")
    /\ UNCHANGED <<coAt, leads, billing, store, losses>>

\* sweepExactResultCache: the row goes, references are counted, the object
\* goes; each is a statement of its own.
EvictResult ==
    /\ evictor = "idle" /\ coCached /\ evictions < MaxEvictions
    /\ coCached' = FALSE /\ evictor' = "evicted" /\ evictions' = evictions + 1
    /\ UNCHANGED <<coAt, leads, billing, flight, coBytes, excused, losses>>

CheckReferences ==
    /\ evictor = "evicted"
    /\ evictor' = IF coCached THEN "idle" ELSE "unreferenced"
    /\ UNCHANGED <<coAt, leads, billing, flight, coCached, coBytes, excused, losses, evictions>>

RemoveResult ==
    /\ evictor = "unreferenced"
    /\ coBytes' = FALSE /\ evictor' = "idle"
    /\ UNCHANGED <<coAt, leads, billing, flight, coCached, excused, losses, evictions>>

-----------------------------------------------------------------------------
CallerStep(c) ==
    \/ LookupExactResult(c) \/ ClaimInflightExecution(c) \/ AwaitInflightResult(c)
    \/ Execute(c) \/ PutResult(c) \/ RecordExactResult(c)
    \/ ResolveInflightSuccess(c) \/ ResolveInflightFailure(c)

CoalescingNext ==
    \/ \E c \in CoCallers : CallerStep(c) \/ RenewInflightLease(c) \/ CallerDies(c)
    \/ CoTick \/ SweepExpiredInflight
    \/ EvictResult \/ CheckReferences \/ RemoveResult

CoalescingSpec == CoalescingInit /\ [][CoalescingNext]_coVars

-----------------------------------------------------------------------------
(* Properties.                                                               *)

\* Overlapping identical requests run the model once at a time, unless an
\* execution failed, a caller died, a lease lapsed, the bytes could not be
\* loaded, or a row was swept under its leader or its followers (ClaimInflightExecution).
CollapsedUnlessExcused ==
    excused \/ Cardinality({c \in CoCallers : coAt[c] = "executing"}) <= 1

\* A delivery without an execution of its own rests on a verified physical
\* contract of someone else, and a coalesced one cites it: no answer that was
\* never settled is sold again, and no second supplier liability is minted
\* (SettleRealtimeExactReuse, maybeStoreRealtimeExactResult).
ServedIsVerified ==
    \A c \in CoCallers : reuse[c] # "none" =>
        /\ c \notin verified /\ verified # {}
        /\ reuse[c] = "coalesced" => coSource[c] \in verified

\* Identical requests share one execution, and only a verified one is sold again.
ReuseIsVerified == CollapsedUnlessExcused /\ ServedIsVerified

\* What was published for the followers is not replaced while the row lives:
\* a leader that was taken over does not publish (ResolveInflightSuccess).
AnswerIsStable ==
    flight.state = "COMPLETE" /\ flight'.state # "none" =>
        flight'.state = "COMPLETE" /\ flight'.result = flight.result

\* A follower is not stranded by a leader that dies: the lease bounds its
\* wait, whether or not the advisory sweep of expired rows runs.
WaitersLeave == \A c \in CoCallers : []<>(coAt[c] # "waiting")

-----------------------------------------------------------------------------
(* Proofs, for any number of callers, ticks, losses and evictions.           *)

CoFlights ==
    [state : {"none", "RUNNING", "COMPLETE", "FAILED"}, leader : CoCallers \cup {NoCaller},
     lease : Nat, ttl : Nat, elections : Nat, result : CoCallers \cup {NoCaller}]

CoTypeOK ==
    /\ coAt \in [CoCallers -> {"new", "claiming", "waiting", "executing", "putting", "recording",
                               "publishing", "releasing", "served", "gone"}]
    /\ leads \subseteq CoCallers /\ verified \subseteq CoCallers
    /\ reuse \in [CoCallers -> {"none", "exact", "coalesced"}]
    /\ coSource \in [CoCallers -> CoCallers \cup {NoCaller}]
    /\ flight \in CoFlights
    /\ coCached \in BOOLEAN /\ excused \in BOOLEAN

\* What the place of a caller says of its contract, and that a cached answer is
\* somebody's verified one.
CoSoldInv ==
    /\ \A c \in CoCallers :
        /\ coAt[c] \in {"new", "claiming", "waiting", "executing", "served"} => c \notin verified
        /\ coAt[c] \in {"putting", "recording", "publishing"} => c \in verified
        /\ reuse[c] # "none" => coAt[c] = "served" /\ verified # {}
        /\ reuse[c] = "coalesced" => coSource[c] \in verified
    /\ coCached => verified # {}

\* As long as nothing went wrong: whoever executes leads the running row, its first
\* leader still works under a lease that is not over, and nobody is about to fail it.
CoLedInv ==
    excused = FALSE =>
        /\ flight.state # "FAILED"
        /\ flight.state = "none" => flight.elections = 0
        /\ flight.state = "RUNNING" =>
              /\ flight.leader \in leads /\ flight.lease > 0 /\ flight.elections = 1
              /\ coAt[flight.leader] \in {"executing", "putting", "recording", "publishing"}
        /\ \A c \in CoCallers : coAt[c] = "executing" => HoldsLease(c)

CoInv == CoTypeOK /\ CoSoldInv /\ CoLedInv

USE ZenonT(100)

LEMMA CoInitInv == CoalescingInit => CoInv
  <1> SUFFICES ASSUME CoalescingInit PROVE CoInv OBVIOUS
  <1>1. CoTypeOK BY DEF CoalescingInit, CoTypeOK, CoFlights, NoFlight
  <1>2. CoSoldInv BY DEF CoalescingInit, CoSoldInv
  <1>3. CoLedInv BY DEF CoalescingInit, CoLedInv, NoFlight
  <1> QED BY <1>1, <1>2, <1>3 DEF CoInv

LEMMA CoTypeStep ==
  ASSUME CoTypeOK, [CoalescingNext]_coVars
  PROVE  CoTypeOK'
  <1> USE CoalescingConstants DEF CoTypeOK, CoFlights
  <1>1. ASSUME NEW c \in CoCallers, LookupExactResult(c) PROVE CoTypeOK'
    BY <1>1, SMTT(20) DEF LookupExactResult, BillReuse, CoGoes, store
  <1>2. ASSUME NEW c \in CoCallers, ClaimInflightExecution(c) PROVE CoTypeOK'
    BY <1>2, SMTT(30) DEF ClaimInflightExecution, CoRunning, CoGoes, Electable, billing, store
  <1>3. ASSUME NEW c \in CoCallers, AwaitInflightResult(c) PROVE CoTypeOK'
    BY <1>3 DEF AwaitInflightResult, BillReuse, Citable, GivesUp, CoGoes, store
  <1>4. ASSUME NEW c \in CoCallers, Execute(c) PROVE CoTypeOK'
    BY <1>4 DEF Execute, CoGoes, store
  <1>5. ASSUME NEW c \in CoCallers, PutResult(c) PROVE CoTypeOK'
    BY <1>5 DEF PutResult, CoGoes, billing
  <1>6. ASSUME NEW c \in CoCallers, RecordExactResult(c) PROVE CoTypeOK'
    BY <1>6 DEF RecordExactResult, CoGoes, billing
  <1>7. ASSUME NEW c \in CoCallers, ResolveInflightSuccess(c) PROVE CoTypeOK'
    BY <1>7 DEF ResolveInflightSuccess, Publishable, HoldsLease, CoGoes, billing, store
  <1>8. ASSUME NEW c \in CoCallers, ResolveInflightFailure(c) PROVE CoTypeOK'
    BY <1>8 DEF ResolveInflightFailure, HoldsLease, CoGoes, billing, store
  <1>9. ASSUME NEW c \in CoCallers, RenewInflightLease(c) PROVE CoTypeOK'
    BY <1>9 DEF RenewInflightLease, HoldsLease, billing, store
  <1>10. ASSUME NEW c \in CoCallers, CallerDies(c) PROVE CoTypeOK'
    BY <1>10 DEF CallerDies, CoGoes, billing, store
  <1>11. CASE CoTick
    <2>1. flight' \in CoFlights
      <3>1. OneLess(flight.lease) \in Nat /\ OneLess(flight.ttl) \in Nat BY SMTT(30) DEF OneLess
      <3> QED BY <1>11, <3>1 DEF CoTick
    <2>2. excused' \in BOOLEAN BY <1>11 DEF CoTick
    <2> QED BY <1>11, <2>1, <2>2 DEF CoTick, billing, store
  <1>12. CASE SweepExpiredInflight
    BY <1>12 DEF SweepExpiredInflight, NoFlight, billing, store
  <1>13. CASE EvictResult
    BY <1>13 DEF EvictResult, billing
  <1>14. CASE CheckReferences
    BY <1>14 DEF CheckReferences, billing
  <1>15. CASE RemoveResult
    BY <1>15 DEF RemoveResult, billing
  <1>16. CASE UNCHANGED coVars BY <1>16 DEF coVars
  <1> QED BY ONLY [CoalescingNext]_coVars, <1>1, <1>2, <1>3, <1>4, <1>5, <1>6, <1>7, <1>8, <1>9, <1>10, <1>11, <1>12, <1>13, <1>14, <1>15, <1>16, ZenonT(60) DEF CoalescingNext, CallerStep

LEMMA CoSoldStep ==
  ASSUME CoTypeOK, CoSoldInv, [CoalescingNext]_coVars
  PROVE  CoSoldInv'
  <1> USE CoalescingConstants DEF CoTypeOK, CoSoldInv
  <1>1. ASSUME NEW c \in CoCallers, LookupExactResult(c) PROVE CoSoldInv'
    BY <1>1, SMTT(30) DEF LookupExactResult, BillReuse, CoGoes, store
  <1>2. ASSUME NEW c \in CoCallers, ClaimInflightExecution(c) PROVE CoSoldInv'
    BY <1>2, SMTT(30) DEF ClaimInflightExecution, CoRunning, CoGoes, Electable, billing, store
  <1>3. ASSUME NEW c \in CoCallers, AwaitInflightResult(c) PROVE CoSoldInv'
    BY <1>3, SMTT(30) DEF AwaitInflightResult, BillReuse, Citable, GivesUp, CoGoes, store
  <1>4. ASSUME NEW c \in CoCallers, Execute(c) PROVE CoSoldInv'
    BY <1>4, SMTT(30) DEF Execute, CoGoes, store
  <1>5. ASSUME NEW c \in CoCallers, PutResult(c) PROVE CoSoldInv'
    BY <1>5, SMTT(30) DEF PutResult, CoGoes, billing
  <1>6. ASSUME NEW c \in CoCallers, RecordExactResult(c) PROVE CoSoldInv'
    BY <1>6, SMTT(30) DEF RecordExactResult, CoGoes, billing
  <1>7. ASSUME NEW c \in CoCallers, ResolveInflightSuccess(c) PROVE CoSoldInv'
    BY <1>7, SMTT(30) DEF ResolveInflightSuccess, Publishable, HoldsLease, CoGoes, billing, store
  <1>8. ASSUME NEW c \in CoCallers, ResolveInflightFailure(c) PROVE CoSoldInv'
    BY <1>8, SMTT(30) DEF ResolveInflightFailure, HoldsLease, CoGoes, billing, store
  <1>9. ASSUME NEW c \in CoCallers, RenewInflightLease(c) PROVE CoSoldInv'
    BY <1>9 DEF RenewInflightLease, HoldsLease, billing, store
  <1>10. ASSUME NEW c \in CoCallers, CallerDies(c) PROVE CoSoldInv'
    BY <1>10, SMTT(30) DEF CallerDies, CoGoes, billing, store
  <1>11. CASE CoTick
    BY <1>11 DEF CoTick, OneLess, Renewing, Loss, billing, store
  <1>12. CASE SweepExpiredInflight
    BY <1>12 DEF SweepExpiredInflight, NoFlight, billing, store
  <1>13. CASE EvictResult
    BY <1>13 DEF EvictResult, billing
  <1>14. CASE CheckReferences
    BY <1>14 DEF CheckReferences, billing
  <1>15. CASE RemoveResult
    BY <1>15 DEF RemoveResult, billing
  <1>16. CASE UNCHANGED coVars BY <1>16 DEF coVars
  <1> QED BY ONLY [CoalescingNext]_coVars, <1>1, <1>2, <1>3, <1>4, <1>5, <1>6, <1>7, <1>8, <1>9, <1>10, <1>11, <1>12, <1>13, <1>14, <1>15, <1>16, ZenonT(60) DEF CoalescingNext, CallerStep

LEMMA CoLedStep ==
  ASSUME CoTypeOK, CoLedInv, [CoalescingNext]_coVars
  PROVE  CoLedInv'
  <1> USE CoalescingConstants DEF CoTypeOK, CoFlights, CoLedInv, HoldsLease
  <1>1. ASSUME NEW c \in CoCallers, LookupExactResult(c) PROVE CoLedInv'
    BY <1>1, SMTT(20) DEF LookupExactResult, BillReuse, CoGoes, store
  <1>2. ASSUME NEW c \in CoCallers, ClaimInflightExecution(c) PROVE CoLedInv'
    BY <1>2, SMTT(30) DEF ClaimInflightExecution, CoRunning, CoGoes, Electable, billing, store
  <1>3. ASSUME NEW c \in CoCallers, AwaitInflightResult(c) PROVE CoLedInv'
    <2>1. CASE excused' = TRUE BY <2>1
    <2>2. CASE excused' = FALSE
      <3>1. (excused = FALSE /\ flight.state # "none") \/ excused' = excused
        BY <1>3, <2>2 DEF AwaitInflightResult
      <3> QED BY <1>3, <2>2, <3>1, SMTT(30) DEF AwaitInflightResult, GivesUp, CoGoes
    <2> QED BY <1>3, <2>1, <2>2 DEF AwaitInflightResult
  <1>4. ASSUME NEW c \in CoCallers, Execute(c) PROVE CoLedInv'
    BY <1>4 DEF Execute, CoGoes, store
  <1>5. ASSUME NEW c \in CoCallers, PutResult(c) PROVE CoLedInv'
    BY <1>5, SMTT(20) DEF PutResult, CoGoes, billing
  <1>6. ASSUME NEW c \in CoCallers, RecordExactResult(c) PROVE CoLedInv'
    BY <1>6 DEF RecordExactResult, CoGoes, billing
  <1>7. ASSUME NEW c \in CoCallers, ResolveInflightSuccess(c) PROVE CoLedInv'
    BY <1>7 DEF ResolveInflightSuccess, Publishable, HoldsLease, CoGoes, billing, store
  <1>8. ASSUME NEW c \in CoCallers, ResolveInflightFailure(c) PROVE CoLedInv'
    BY <1>8 DEF ResolveInflightFailure, HoldsLease, CoGoes, billing, store
  <1>9. ASSUME NEW c \in CoCallers, RenewInflightLease(c) PROVE CoLedInv'
    BY <1>9, SMTT(30) DEF RenewInflightLease, HoldsLease, billing, store
  <1>10. ASSUME NEW c \in CoCallers, CallerDies(c) PROVE CoLedInv'
    BY <1>10 DEF CallerDies, CoGoes, billing, store
  <1>11. CASE CoTick
    BY <1>11, SMTT(30) DEF CoTick, OneLess, Renewing, Loss, billing, store
  <1>12. CASE SweepExpiredInflight
    BY <1>12 DEF SweepExpiredInflight, NoFlight, billing, store
  <1>13. CASE EvictResult
    BY <1>13 DEF EvictResult, billing
  <1>14. CASE CheckReferences
    BY <1>14 DEF CheckReferences, billing
  <1>15. CASE RemoveResult
    BY <1>15 DEF RemoveResult, billing
  <1>16. CASE UNCHANGED coVars BY <1>16 DEF coVars
  <1> QED BY ONLY [CoalescingNext]_coVars, <1>1, <1>2, <1>3, <1>4, <1>5, <1>6, <1>7, <1>8, <1>9, <1>10, <1>11, <1>12, <1>13, <1>14, <1>15, <1>16, ZenonT(60) DEF CoalescingNext, CallerStep

LEMMA CoInvariant == CoalescingSpec => []CoInv
  <1>1. CoInv /\ [CoalescingNext]_coVars => CoInv'
    BY CoTypeStep, CoSoldStep, CoLedStep DEF CoInv
  <1> QED BY <1>1, CoInitInv, PTL DEF CoalescingSpec

\* No matter how many identical requests overlap, at most one of them runs the model
\* while nothing has gone wrong, and whatever is served without a run of its own rests
\* on a verified contract of another request.
THEOREM CoalescedVerified == CoalescingSpec => []ReuseIsVerified
  <1>1. CoInv => CollapsedUnlessExcused
    <2> SUFFICES ASSUME CoInv, excused = FALSE
                 PROVE  Cardinality({c \in CoCallers : coAt[c] = "executing"}) <= 1
      BY DEF CoInv, CoTypeOK, CollapsedUnlessExcused
    <2> DEFINE X == {c \in CoCallers : coAt[c] = "executing"}
    <2>1. X \subseteq {flight.leader} BY DEF CoInv, CoLedInv, HoldsLease
    <2>2. IsFiniteSet({flight.leader}) /\ Cardinality({flight.leader}) = 1 BY FS_Singleton
    <2>3. Cardinality(X) <= Cardinality({flight.leader}) BY <2>1, <2>2, FS_Subset
    <2> QED BY <2>2, <2>3
  <1>2. CoInv => ServedIsVerified BY DEF CoInv, CoTypeOK, CoSoldInv, ServedIsVerified
  <1>3. CoInv => ReuseIsVerified BY <1>1, <1>2 DEF ReuseIsVerified
  <1> QED BY <1>3, CoInvariant, PTL

\* No caller replaces what was published for the followers, not even a leader that
\* was taken over while it executed.
THEOREM CoalescedStable == CoalescingSpec => [][AnswerIsStable]_coVars
  <1>1. ASSUME CoTypeOK, [CoalescingNext]_coVars PROVE [AnswerIsStable]_coVars
    <2> USE DEF CoTypeOK, CoFlights, AnswerIsStable
    <2>1. ASSUME NEW c \in CoCallers, CallerStep(c) PROVE AnswerIsStable
      BY <2>1 DEF CallerStep, LookupExactResult, ClaimInflightExecution, Electable, AwaitInflightResult,
                  Execute, PutResult, RecordExactResult, ResolveInflightSuccess, Publishable,
                  ResolveInflightFailure, HoldsLease
    <2>2. ASSUME NEW c \in CoCallers, RenewInflightLease(c) \/ CallerDies(c) PROVE AnswerIsStable
      BY <2>2 DEF RenewInflightLease, CallerDies, HoldsLease
    <2>3. CASE CoTick \/ SweepExpiredInflight
      <3>1. CoTick => flight'.state = flight.state /\ flight'.result = flight.result BY SMTT(30) DEF CoTick
      <3> QED BY <2>3, <3>1, SMTT(30) DEF SweepExpiredInflight, NoFlight
    <2>4. CASE EvictResult \/ CheckReferences \/ RemoveResult
      BY <2>4 DEF EvictResult, CheckReferences, RemoveResult
    <2> QED BY <1>1, <2>1, <2>2, <2>3, <2>4 DEF CoalescingNext
  <1> QED BY <1>1, CoInvariant, PTL DEF CoalescingSpec, CoInv
=============================================================================
