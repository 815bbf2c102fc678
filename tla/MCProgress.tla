----------------------------- MODULE MCProgress -----------------------------
(***************************************************************************)
(* What must happen in the end, part by part: every behaviour picks one    *)
(* part at the start, only that part moves, and the fairness of its own    *)
(* specification holds of it.                                              *)
(***************************************************************************)
EXTENDS WorkerLeader, ChargeCollection, PrepaidTopups, RealtimeContracts, Coalescing,
        ObjectRetention, ProviderEvents, OfferHeartbeats, Dispatch, ResultMerge, TLC

CONSTANTS small, large, r1, r2, w1, w2, jb, jp, m1, c1
VARIABLE part

CONSTANT Parts
AllParts == {"leader", "charges", "topups", "realtime", "coalescing", "retention", "webhooks",
          "events", "heartbeats", "dispatch", "merge"}

\* A job below the charge threshold and one above it.
OwedAmounts == small :> 1 @@ large :> 2

\* Requests under keys of their own.
RequestKeys == r1 :> 1 @@ r2 :> 2

NoWarnings == {}

\* A batch task and a priority task; the cheaper machine need not poll.
TaskJob == 2 :> jb @@ 3 :> jp
Pins == 2 :> {NoOne, w2} @@ 3 :> {NoOne}
Box == [class |-> "apple_silicon_ultra", links |-> {}, sandboxed |-> TRUE,
        deviceBound |-> TRUE, optIn |-> FALSE,
        cells |-> {[id |-> c1, matrix |-> m1, routable |-> TRUE]},
        identity |-> 0, active |-> TRUE, memory |-> 2, country |-> "x",
        reputation |-> 1, trusted |-> TRUE, ask |-> 2, warm |-> {}]
Machines == w1 :> Box
         @@ w2 :> [Box EXCEPT !.class = "apple_silicon_base", !.ask = 1, !.warm = {jb}]
BatchOrder == [buyer |-> "b", directed |-> FALSE, cells |-> {c1}, legacy |-> FALSE, version |-> 2,
               identity |-> 0, memory |-> 1, classes |-> {}, residency |-> {},
               reputation |-> 1, tier |-> "batch", rate |-> 2, currency |-> "usd",
               charge |-> 2, premium |-> 1, cap |-> 6, slack |-> TRUE]
PlacedOrders == jb :> BatchOrder
             @@ jp :> [BatchOrder EXCEPT !.tier = "priority", !.cap = 0, !.rate = 3]

Rec(t, n) == [text |-> t, tokens |-> n]
MergeBodies == (0 :> [first |-> <<Rec("a", 2)>>, majority |-> <<Rec("A", 1)>>])
            @@ (1 :> [first |-> <<Rec("c", 1)>>, majority |-> <<Rec("C", 1)>>])

Rest(p) ==
    /\ IF p = "leader" THEN TRUE ELSE UNCHANGED wlVars
    /\ IF p = "charges" THEN TRUE ELSE UNCHANGED ccVars
    /\ IF p = "topups" THEN TRUE ELSE UNCHANGED prepaidVars
    /\ IF p = "realtime" THEN TRUE ELSE UNCHANGED rtVars
    /\ IF p = "coalescing" THEN TRUE ELSE UNCHANGED coVars
    /\ IF p = "retention" THEN TRUE ELSE UNCHANGED orVars
    /\ IF p = "webhooks" THEN TRUE ELSE UNCHANGED whVars
    /\ IF p = "events" THEN TRUE ELSE UNCHANGED peVars
    /\ IF p = "heartbeats" THEN TRUE ELSE UNCHANGED ohVars
    /\ IF p = "dispatch" THEN TRUE ELSE UNCHANGED dpVars
    /\ IF p = "merge" THEN TRUE ELSE UNCHANGED rmVars
    /\ UNCHANGED part

\* A part that does not move stays in one of its initial states.
ProgressInit ==
    /\ part \in Parts
    /\ WlInit /\ CcInit /\ PrepaidInit /\ RealtimeInit /\ CoalescingInit /\ ORInit /\ WHInit
    /\ PEInit /\ OHInit /\ DpInit /\ RmInit
    /\ part # "charges" => card = FALSE
    /\ part # "heartbeats" => ohMode = "sql"

ProgressNext ==
    \/ part = "leader" /\ WlNext /\ Rest("leader")
    \/ part = "charges" /\ CcNext /\ Rest("charges")
    \/ part = "topups" /\ PrepaidNext /\ Rest("topups")
    \/ part = "realtime" /\ RealtimeNext /\ Rest("realtime")
    \/ part = "coalescing" /\ CoalescingNext /\ Rest("coalescing")
    \/ part = "retention" /\ ORNext /\ Rest("retention")
    \/ part = "webhooks" /\ WHNext /\ Rest("webhooks")
    \/ part = "events" /\ PENext /\ Rest("events")
    \/ part = "heartbeats" /\ OHNext /\ Rest("heartbeats")
    \/ part = "dispatch" /\ DpNext /\ Rest("dispatch")
    \/ part = "merge" /\ RmNext /\ Rest("merge")

\* The fairness of the components, each while its part is the one that moves.
PlatformFairness ==
    /\ \A r \in WlReplicas :
        /\ WF_wlVars(part = "leader" /\ (Acquire(r) \/ Standby(r)))
        /\ WF_wlVars(part = "leader" /\ RetryTimer(r))
        /\ WF_wlVars(part = "leader" /\ PingFailed(r))
        /\ WF_wlVars(part = "leader" /\ SweepsStopped(r))
        /\ WF_wlVars(part = "leader" /\ Release(r))
        /\ WF_wlVars(part = "leader" /\ Restart(r))
        /\ WF_wlVars(part = "leader" /\ StopOnShutdown(r))
        /\ WF_wlVars(part = "leader" /\ ExitOnShutdown(r))
    /\ WF_orVars(part = "retention" /\ TimePasses)
    /\ WF_orVars(part = "retention" /\ RetainedJobEnds)
    /\ \A p \in Purgers : /\ WF_orVars(part = "retention" /\ ClaimForRetention(p))
                          /\ WF_orVars(part = "retention" /\ MarkPurged(p))
    /\ \A d \in Deliverers : /\ WF_whVars(part = "webhooks" /\ \E o \in Outcomes(d) : Post(d, o))
                             /\ WF_whVars(part = "webhooks" /\ RecordOutcome(d))
    /\ \A h \in Hooks : /\ WF_whVars(part = "webhooks" /\ BackoffPasses(h))
                        /\ WF_whVars(part = "webhooks" /\ WebhookLeaseLapses(h))
    /\ WF_whVars(part = "webhooks" /\ SetPaused(FALSE))
    /\ \A i \in 1 .. MaxEvents :
        WF_peVars(part = "events" /\ \E e \in peSent : e.id = i /\ e.id \notin peAcked /\ Deliver(e))
    /\ WF_ohVars(part = "heartbeats" /\ TimerFires)
    /\ WF_ohVars(part = "heartbeats" /\ \E f \in ohFlights : FlushCommits(f) \/ FlushReturns(f))

MarketFairness ==
    /\ \A s \in Sources : WF_ccVars(part = "charges" /\ Reconcile(s))
    /\ \A t \in TopUps : WF_prepaidVars(part = "topups" /\ CreditByEvent(t))
    /\ \A w \in Recoverers : /\ WF_prepaidVars(part = "topups" /\ ListPending(w))
                             /\ WF_prepaidVars(part = "topups" /\ WorkOn(w))
    /\ \A s \in Slices : WF_prepaidVars(part = "topups" /\ SettleRefund(s))
    /\ \A r \in RtRequests :
        /\ WF_rtVars(part = "realtime" /\ handler[r] = "gone" /\ PassDeadline(r))
        /\ WF_rtVars(part = "realtime" /\ SweepIntent(r))
        /\ WF_rtVars(part = "realtime"
                     /\ \E S \in SUBSET Stale : r \in S /\ RecoverStaleRealtimeContracts(S))
        /\ WF_rtVars(part = "realtime"
                     /\ (GiveUpIntent(r) \/ StartStream(r) \/ Receive(r) \/ SettleRequest(r)
                         \/ SettleFails(r) \/ ArmIntent(r)))
    /\ \A c \in CoCallers : /\ WF_coVars(part = "coalescing" /\ CallerStep(c))
                            /\ WF_coVars(part = "coalescing" /\ RenewInflightLease(c))
    /\ WF_coVars(part = "coalescing" /\ CoTick)
    /\ \A w \in Steady : WF_dpVars(part = "dispatch" /\ ClaimSelect(w))
    /\ \A w \in DpWorkers : WF_dpVars(part = "dispatch" /\ (ClaimCommit(w) \/ ClaimRollback(w)))
    /\ WF_dpVars(part = "dispatch" /\ Age)
    /\ \A m \in RmMergers : WF_rmVars(part = "merge" /\ MergeStep(m))

progressVars == <<wlVars, ccVars, prepaidVars, rtVars, coVars, orVars, whVars, peVars,
                  ohVars, dpVars, rmVars, part>>

\* What the sweeps of the leader attempt again and again: the one purger removes a
\* prefix, a due hook is claimed, a merger lists the jobs to merge.  Only one part
\* moves, so one strong fairness condition serves the three.
Attempt(m) ==
    \/ part = "retention" /\ (\E p \in Purgers : RemovePrefix(p)) /\ Rest("retention")
    \/ part = "webhooks" /\ (\E d \in Deliverers, h \in Hooks : ClaimWebhook(d, h))
                         /\ Rest("webhooks")
    \/ part = "merge" /\ SweepLists(m) /\ Rest("merge")

ProgressSpec ==
    /\ ProgressInit /\ [][ProgressNext]_progressVars
    /\ PlatformFairness /\ MarketFairness
    /\ \A m \in RmMergers : SF_progressVars(Attempt(m))

\* Some replica leads again after every loss of leadership (runWorkerLeader), in the
\* behaviours in which the replicas move.
Reelected == []<>(part = "leader" => SomeoneLeads)
\* Everything that was begun ends, by the request that began it or by the sweep behind
\* it: leadership is taken again and lame leaders stop, cash is recorded, refunds are
\* decided, contracts and intents end, waiters and handlers return, erased objects go,
\* hooks and events land, batches are served and jobs conclude.
AllConclude ==
    /\ LameLeaderStops /\ Reelected
    /\ CashRecorded /\ SlicesDecided /\ ContractsEnd /\ IntentsEnd /\ WaitersLeave
    /\ ErasedIsGone /\ WebhooksEnd /\ EventsLand /\ HandlersReturn
    /\ BatchIsServed /\ JobsConclude
=============================================================================
