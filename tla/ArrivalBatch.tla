---------------------------- MODULE ArrivalBatch ----------------------------
(***************************************************************************)
(* ArrivalBatcher (arrival_batch.go, batch_policy.go, traffic_class.go):    *)
(* realtime requests for one engine wait a short window for each other and  *)
(* are then released together.                                              *)
(*                                                                         *)
(* Admit reads the clock, then waits for the lock; a timer that has gone    *)
(* off waits for it too, and stopping it no longer helps.  One token of     *)
(* prefill takes one unit of time.  Timers and their callbacks are prompt;  *)
(* the wait of Admit for the lock is at most arJitter.                      *)
(***************************************************************************)
EXTENDS Integers, Sequences, FiniteSets, FiniteSetsExt, SequencesExt

CONSTANTS ArRequests, ArLanes,   \* requests in their order, and lane keys
          ArSizes, ArSpans,      \* prompt tokens; time to the deadline, 0 for none
          ArBudget, ArWindow, ArSafety,  \* token budget, join window, arrivalDeadlineSafety
          ArSlowest,             \* the longest wait for the lock
          ArHorizon, ArNone

VARIABLES arNow, arJitter, arClosed,
          arReq,        \* request -> what it asked and where it stands
          arPending,    \* lane -> the requests held in it, oldest first
          arTimer,      \* lane -> when its timer goes off
          arCallbacks   \* lanes whose timer went off and whose callback waits
arVars == <<arNow, arJitter, arClosed, arReq, arPending, arTimer, arCallbacks>>

Fresh2 == [at |-> "new", lane |-> ArNone, tokens |-> 0, deadline |-> 0, asked |-> 0, hold |-> 0,
           watched |-> FALSE, closes |-> 0, late |-> FALSE]

ArInit ==
  /\ arNow = 0 /\ arJitter \in {0, ArSlowest} /\ arClosed = FALSE
  /\ arReq = [i \in ArRequests |-> Fresh2]
  /\ arPending = [k \in ArLanes |-> <<>>]
  /\ arTimer = [k \in ArLanes |-> ArNone]
  /\ arCallbacks = {}

(***************************************************************************)
(* Packing and deadlines.                                                   *)
(***************************************************************************)
EstimatedTTFT(tokens) == tokens

\* JoinWindowForArrival, for a request of the given deadline (0: none).
JoinWindowForArrival(deadline, now, tokens) ==
  IF deadline = 0 THEN ArWindow
  ELSE Max({0, Min({ArWindow, deadline - now - (EstimatedTTFT(tokens) + ArSafety)})})

HoldWouldMissDeadline(deadline, now, hold, tokens) ==
  deadline # 0 /\ now + hold + EstimatedTTFT(tokens) + ArSafety > deadline

\* ValidateBatchBudget refuses: the class budget alone outlasts the deadline.
BudgetRefused(deadline, now) ==
  deadline # 0 /\ deadline - now > 0 /\ EstimatedTTFT(ArBudget) > deadline - now

Cost(i) == arReq[i].tokens
TokensIn(S) == FoldSet(LAMBDA i, n : n + Cost(i), 0, S)

\* SelectBatch: cheapest first, what fits; a request larger than the budget goes alone.
SelectBatch(queue) ==
  LET order == SortSeq(queue, LAMBDA i, j : Cost(i) < Cost(j) \/ (Cost(i) = Cost(j) /\ i < j))
  IN  IF queue = <<>> THEN {}
      ELSE IF Cost(order[1]) > ArBudget THEN {order[1]}
      ELSE FoldLeft(LAMBDA chosen, i : IF TokensIn(chosen) + Cost(i) > ArBudget THEN chosen
                                       ELSE chosen \cup {i},
                    {}, order)

\* The tightest deadline of a set, 0 when none has one.
Tightest(S) == LET set == {arReq[i].deadline : i \in S} \ {0}
               IN  IF set = {} THEN 0 ELSE Min(set)

\* earliestHold: what is left of the shortest hold, seen from the given moment.
EarliestHold(queue, now) ==
  Min({Max({0, arReq[i].hold - (now - arReq[i].asked)}) : i \in ToSet(queue)})

BudgetFull(queue) ==
  \/ SelectBatch(queue) # ToSet(queue)
  \/ TokensIn(SelectBatch(queue)) >= ArBudget

\* Mutant: deadlines do not force a flush.
DeadlineForceFlush_Never(queue) == "no"

\* deadlineForceFlush: "rest" when the newest tips the others past a deadline, "all"
\* when dispatching or holding on would miss one anyway.
DeadlineForceFlush(queue) ==
  LET chosen == SelectBatch(queue)
      tight  == Tightest(chosen)
      rest   == Front(queue)
      before == Tightest(ToSet(rest))
  IN  CASE HoldWouldMissDeadline(tight, arNow, 0, TokensIn(chosen)) ->
             IF Len(queue) > 1 /\ before # 0
                /\ ~ HoldWouldMissDeadline(before, arNow, 0, TokensIn(SelectBatch(rest)))
             THEN "rest" ELSE "all"
        [] HoldWouldMissDeadline(tight, arNow, EarliestHold(queue, arNow), TokensIn(chosen)) -> "all"
        [] OTHER -> "no"

(***************************************************************************)
(* Releasing.  A request that misses its deadline in the batch it is        *)
(* released with is remembered as late.                                     *)
(***************************************************************************)
Released(reqs, queue) ==
  LET chosen == SelectBatch(queue)
  IN  [i \in ArRequests |->
        IF i \notin ToSet(queue) THEN reqs[i]
        ELSE [reqs[i] EXCEPT !.at = "free", !.closes = @ + 1,
                !.late = i \in chosen /\ reqs[i].deadline # 0
                         /\ arNow + TokensIn(chosen) + ArSafety > reqs[i].deadline]]
Bypass(i, reqs) == [reqs EXCEPT ![i].at = "free", ![i].closes = @ + 1]

FlushLane(k, queue) ==
  /\ arReq' = Released(arReq, queue)
  /\ arPending' = [arPending EXCEPT ![k] = <<>>]
  /\ arTimer' = [arTimer EXCEPT ![k] = ArNone]

(***************************************************************************)
(* Admit.                                                                   *)
(***************************************************************************)
InTurn(i) == \A j \in ArRequests : j < i => arReq[j].at # "new"

\* Up to the lock: the request bypasses the batcher or takes its hold along.
Ask2(i, k, tokens, span) ==
  LET deadline == IF span = 0 THEN 0 ELSE arNow + span
      hold == JoinWindowForArrival(deadline, arNow, tokens)
      asked == [Fresh2 EXCEPT !.at = "asked", !.lane = k, !.tokens = tokens, !.deadline = deadline,
                              !.asked = arNow, !.hold = hold]
  IN  /\ arReq[i].at = "new" /\ InTurn(i)
      /\ arReq' = IF \/ arClosed \/ hold = 0 \/ HoldWouldMissDeadline(deadline, arNow, hold, tokens)
                     \/ BudgetRefused(deadline, arNow)
                  THEN Bypass(i, [arReq EXCEPT ![i] = asked])
                  ELSE [arReq EXCEPT ![i] = asked]
      /\ UNCHANGED <<arNow, arJitter, arClosed, arPending, arTimer, arCallbacks>>

\* armTimerLocked, for the earliest hold seen from the moment the newcomer read the clock.
\* Mutant: the newcomer's own hold.
ArmedFor_Newcomer(queue, i) == arReq[i].hold
ArmedFor(queue, i) == EarliestHold(queue, arReq[i].asked)

StillOpen == ~ arClosed

\* Under the lock.
Join(i) ==
  LET k == arReq[i].lane
      queue == Append(arPending[k], i)
      force == DeadlineForceFlush(queue)
      flushed == force = "all" \/ (force = "no" /\ BudgetFull(queue))
  IN  /\ arReq[i].at = "asked"
      /\ IF ~ StillOpen
         THEN arReq' = Bypass(i, arReq) /\ UNCHANGED <<arPending, arTimer>>
         ELSE IF force = "rest"
         THEN /\ arReq' = [Released(arReq, Front(queue)) EXCEPT ![i].at = "held"]
              /\ arPending' = [arPending EXCEPT ![k] = <<i>>]
              /\ arTimer' = [arTimer EXCEPT ![k] = arNow + arReq[i].hold]
         ELSE IF flushed \/ ArmedFor(queue, i) = 0
         THEN FlushLane(k, queue)
         ELSE /\ arReq' = [arReq EXCEPT ![i].at = "held", ![i].watched = TRUE]
              /\ arPending' = [arPending EXCEPT ![k] = queue]
              /\ arTimer' = [arTimer EXCEPT ![k] = arNow + ArmedFor(queue, i)]
      /\ UNCHANGED <<arNow, arJitter, arClosed, arCallbacks>>

\* The client went away: the watcher may have chosen so before the release it now
\* finds under the lock.
CancelStands(i) == arReq[i].at = "held"
Cancel2(i) ==
  LET k == arReq[i].lane
      left == SelectSeq(arPending[k], LAMBDA j : j # i)
  IN  /\ arReq[i].watched /\ CancelStands(i)
      /\ arReq' = [Bypass(i, arReq) EXCEPT ![i].watched = FALSE]
      /\ arPending' = [arPending EXCEPT ![k] = left]
      /\ arTimer' = [arTimer EXCEPT ![k] = IF left = <<>> THEN ArNone ELSE @]
      /\ UNCHANGED <<arNow, arJitter, arClosed, arCallbacks>>

(***************************************************************************)
(* Timers, closing, the clock.                                              *)
(***************************************************************************)
GoOff(k) ==
  /\ arTimer[k] # ArNone /\ arTimer[k] <= arNow
  /\ arTimer' = [arTimer EXCEPT ![k] = ArNone]
  /\ arCallbacks' = arCallbacks \cup {k}
  /\ UNCHANGED <<arNow, arJitter, arClosed, arReq, arPending>>

\* The callback flushes whatever lane has its key by then.
Callback(k) ==
  /\ k \in arCallbacks
  /\ arCallbacks' = arCallbacks \ {k}
  /\ FlushLane(k, arPending[k])
  /\ UNCHANGED <<arNow, arJitter, arClosed>>

Close2 ==
  /\ ~ arClosed /\ arClosed' = TRUE
  /\ arReq' = [i \in ArRequests |->
       IF arReq[i].at = "held" THEN Released(arReq, arPending[arReq[i].lane])[i] ELSE arReq[i]]
  /\ arPending' = [k \in ArLanes |-> <<>>]
  /\ arTimer' = [k \in ArLanes |-> ArNone]
  /\ UNCHANGED <<arNow, arJitter, arCallbacks>>

ArTick ==
  /\ arNow < ArHorizon
  /\ arCallbacks = {} /\ \A k \in ArLanes : arTimer[k] # ArNone => arTimer[k] > arNow
  /\ \A i \in ArRequests : arReq[i].at = "asked" => arNow - arReq[i].asked < arJitter
  /\ arNow' = arNow + 1
  /\ UNCHANGED <<arJitter, arClosed, arReq, arPending, arTimer, arCallbacks>>

ArNext ==
  \/ ArTick \/ Close2
  \/ \E k \in ArLanes : GoOff(k) \/ Callback(k)
  \/ \E i \in ArRequests :
       \/ Join(i) \/ Cancel2(i)
       \/ \E k \in ArLanes : \E tokens \in ArSizes : \E span \in ArSpans : Ask2(i, k, tokens, span)

ArSpec == ArInit /\ [][ArNext]_arVars

(***************************************************************************)
(* Properties                                                               *)
(***************************************************************************)

\* The channel of a request is closed once, whichever of timer, full batch, deadline,
\* cancellation and Close reach it together; closing it twice panics (cancel,
\* flushLaneLocked).
ReleasedOnce == \A i \in ArRequests : arReq[i].closes <= 1

\* Nobody waits past their own window, however later arrivals re-arm the lane's timer,
\* beyond the time an arrival may have waited for the lock (earliestHold,
\* armTimerLocked).
HeldWithinWindow ==
  \A i \in ArRequests : arReq[i].at = "held" =>
    arNow <= arReq[i].asked + arReq[i].hold + arJitter

\* On a host that gives the lock at once, joining costs no deadline: whoever is
\* packed into a released batch still gets the first token in time, so a large
\* newcomer never makes the ones it joined late (deadlineForceFlush).
JoiningCostsNoDeadline == arJitter = 0 => \A i \in ArRequests : ~ arReq[i].late

\* A closed batcher holds nobody: not even a request that passed the first look at
\* the flag before Close (the second look in Admit).
ClosedHoldsNobody == arClosed => \A i \in ArRequests : arReq[i].at # "held"

\* Whoever joins a batch is released once, in time, and also when the batcher closes.
ArrivalsKept ==
    /\ ReleasedOnce /\ HeldWithinWindow /\ JoiningCostsNoDeadline /\ ClosedHoldsNobody
=============================================================================
