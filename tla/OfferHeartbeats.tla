-------------------------- MODULE OfferHeartbeats ---------------------------
(***************************************************************************)
(* Heartbeats of realtime offers on their way to realtime_worker_offers.   *)
(*                                                                         *)
(* A heartbeat is a status with the device's observation time.  While the  *)
(* SQL predicate is the liveness authority the handler puts it into the    *)
(* pending batch and waits until a flush has committed it.  While the      *)
(* in-process index is the authority the handler stamps the index, drops   *)
(* a repeat of what was last persisted, and otherwise leaves the write to  *)
(* a queue with one consumer.                                              *)
(*                                                                         *)
(* Reports of one offer are numbered; the row remembers the number of the  *)
(* report it shows.  The numbers exist only in the model.                  *)
(***************************************************************************)
EXTENDS Naturals, Sequences, FiniteSets, SequencesExt, FiniteSetsExt

CONSTANTS
    HbOffers,       \* offers, one agent each
    HbStatuses,     \* reported states
    ClockStep,      \* how far a device's clock may step back
    HbWindow,       \* realtimeOfferLivenessWindow
    Refresh,        \* livenessDurableRefreshInterval
    MaxBatch,       \* cfg.MaxBatch
    QueueDepth,     \* detachedLivenessQueueDepth
    MaxReports,     \* bound on heartbeats of one offer
    HbHorizon,      \* bound on the clock
    MaxHbFaults     \* bound on failed flushes, lost waits and restarts

VARIABLES
    ohMode,     \* "sql" or "index": the liveness authority
    ohNow,      \* server clock
    ohRow,      \* offer -> its row [n, status, seen]
    ohSaid,     \* offer -> what its agent has reported [n, status, seen]
    ohIndex,    \* offer -> the epoch the in-process index holds, 0 for none
    ohPersist,  \* offer -> offerPersistCache [known, status, at]
    ohPending,  \* the batch being collected
    ohQueue,    \* detached batches
    ohFlights,  \* flushes under way [batch, detached, done]
    ohWaits,    \* offers whose handler waits for its flush
    ohGaveUp,   \* offers with a report that was abandoned while in flight
    ohFaults

ohVars == <<ohMode, ohNow, ohRow, ohSaid, ohIndex, ohPersist, ohPending, ohQueue,
            ohFlights, ohWaits, ohGaveUp, ohFaults>>

NoRecord == [known |-> FALSE, status |-> "", at |-> 0]

OHInit ==
    /\ ohMode \in {"sql", "index"}
    /\ ohNow = 1
    /\ ohRow = [o \in HbOffers |-> [n |-> 0, status |-> "registered", seen |-> 1]]
    /\ ohSaid = [o \in HbOffers |-> [n |-> 0, status |-> "registered", seen |-> 1]]
    /\ ohIndex = [o \in HbOffers |-> 0]
    /\ ohPersist = [o \in HbOffers |-> NoRecord]
    /\ ohPending = <<>> /\ ohQueue = <<>> /\ ohFlights = {}
    /\ ohWaits = {} /\ ohGaveUp = {}
    /\ ohFaults = 0

HbTick ==
    /\ ohNow < HbHorizon
    /\ ohNow' = ohNow + 1
    /\ UNCHANGED <<ohMode, ohRow, ohSaid, ohIndex, ohPersist, ohPending, ohQueue,
                   ohFlights, ohWaits, ohGaveUp, ohFaults>>

(***************************************************************************)
(* resolveHeartbeatObservation: a clock ahead of the server is clamped, an *)
(* observation older than the window is rejected.                          *)
(***************************************************************************)
Resolved(obs) == Min({obs, ohNow})
Acceptable(obs) == ohNow - Resolved(obs) <= HbWindow

\* durableHeartbeatNeeded.
Needed(o, st) ==
    LET p == ohPersist[o]
    IN  ~p.known \/ p.status # st \/ ohNow - p.at >= Refresh

Flight(batch, detached) ==
    [batch |-> batch, detached |-> detached, done |-> FALSE]

\* enqueue with dispatchLocked: a full batch leaves at once, to its own flush
\* when the caller waits and to the queue otherwise.
EnqueueReport(item) ==
    LET batch == Append(ohPending, item)
    IN  IF Len(batch) < MaxBatch
           THEN ohPending' = batch /\ UNCHANGED <<ohQueue, ohFlights>>
           ELSE /\ ohPending' = <<>>
                /\ IF ohMode = "sql"
                      THEN /\ ohFlights' = ohFlights \cup {Flight(batch, FALSE)}
                           /\ UNCHANGED ohQueue
                      ELSE /\ Len(ohQueue) < QueueDepth
                           /\ ohQueue' = Append(ohQueue, batch)
                           /\ UNCHANGED ohFlights

(***************************************************************************)
(* HeartbeatRealtimeOffer: the agent sends its next report when the last   *)
(* call has returned.                                                      *)
(***************************************************************************)
SendHeartbeat(o, st, obs) ==
    LET item == [o |-> o, n |-> ohSaid[o].n + 1, status |-> st, seen |-> Resolved(obs)]
    IN  /\ o \notin ohWaits
        /\ item.n <= MaxReports
        /\ Acceptable(obs)
        /\ obs + ClockStep >= ohSaid[o].seen
        /\ ohSaid' = [ohSaid EXCEPT ![o] =
                        [n |-> item.n, status |-> st, seen |-> Max({@.seen, item.seen})]]
        /\ IF ohMode = "index"
              THEN /\ ohIndex' = [ohIndex EXCEPT ![o] = item.seen]
                   /\ UNCHANGED ohWaits
                   /\ IF Needed(o, st) THEN EnqueueReport(item)
                      ELSE UNCHANGED <<ohPending, ohQueue, ohFlights>>
              ELSE /\ ohWaits' = ohWaits \cup {o}
                   /\ UNCHANGED ohIndex
                   /\ EnqueueReport(item)
        /\ UNCHANGED <<ohMode, ohNow, ohRow, ohPersist, ohGaveUp, ohFaults>>

\* timerFlush.
TimerFires ==
    /\ ohPending # <<>>
    /\ ohPending' = <<>>
    /\ IF ohMode = "sql"
          THEN ohFlights' = ohFlights \cup {Flight(ohPending, FALSE)} /\ UNCHANGED ohQueue
          ELSE /\ Len(ohQueue) < QueueDepth
               /\ ohQueue' = Append(ohQueue, ohPending)
               /\ UNCHANGED ohFlights
    /\ UNCHANGED <<ohMode, ohNow, ohRow, ohSaid, ohIndex, ohPersist, ohWaits, ohGaveUp,
                   ohFaults>>

\* The single consumer of detachedQ.
FlusherFree == ~\E f \in ohFlights : f.detached

FlusherTakes ==
    /\ ohQueue # <<>>
    /\ FlusherFree
    /\ ohQueue' = Tail(ohQueue)
    /\ ohFlights' = ohFlights \cup {Flight(Head(ohQueue), TRUE)}
    /\ UNCHANGED <<ohMode, ohNow, ohRow, ohSaid, ohIndex, ohPersist, ohPending, ohWaits,
                   ohGaveUp, ohFaults>>

\* The latest observation of an offer in a batch; a tie goes to the later item.
Winner(batch, o) ==
    CHOOSE i \in DOMAIN batch :
        /\ batch[i].o = o
        /\ \A j \in DOMAIN batch :
              batch[j].o = o =>
                  \/ batch[j].seen < batch[i].seen
                  \/ batch[j].seen = batch[i].seen /\ j <= i

OffersIn(batch) == {batch[i].o : i \in DOMAIN batch}

\* last_seen_at is the observation, never the time of the flush.
Stamped(item) == item.seen

(***************************************************************************)
(* flushLivenessHeartbeatBatch commits: one row per offer, whatever the    *)
(* row holds.                                                              *)
(***************************************************************************)
FlushCommits(f) ==
    LET won(o) == f.batch[Winner(f.batch, o)]
    IN  /\ f \in ohFlights /\ ~f.done
        /\ ohRow' = [o \in HbOffers |->
                        IF o \in OffersIn(f.batch)
                           THEN [n |-> won(o).n, status |-> won(o).status,
                                 seen |-> Stamped(won(o))]
                           ELSE ohRow[o]]
        /\ ohFlights' = (ohFlights \ {f}) \cup {[f EXCEPT !.done = TRUE]}
        /\ UNCHANGED <<ohMode, ohNow, ohSaid, ohIndex, ohPersist, ohPending, ohQueue,
                       ohWaits, ohGaveUp, ohFaults>>

\* recordDurableHeartbeat for the winners, the answer to the waiters, and in
\* sql mode the shadow stamp of the index.
FlushReturns(f) ==
    LET won(o) == f.batch[Winner(f.batch, o)]
        waited == {o \in OffersIn(f.batch) \cap ohWaits :
                      \E i \in DOMAIN f.batch : f.batch[i].o = o /\ f.batch[i].n = ohSaid[o].n}
    IN  /\ f \in ohFlights /\ f.done
        /\ ohFlights' = ohFlights \ {f}
        /\ ohPersist' = [o \in HbOffers |->
                           IF o \in OffersIn(f.batch)
                              THEN [known |-> TRUE, status |-> won(o).status, at |-> ohNow]
                              ELSE ohPersist[o]]
        /\ ohWaits' = ohWaits \ waited
        /\ ohIndex' = [o \in HbOffers |-> IF o \in waited THEN won(o).seen ELSE ohIndex[o]]
        /\ UNCHANGED <<ohMode, ohNow, ohRow, ohSaid, ohPending, ohQueue, ohGaveUp, ohFaults>>

\* The transaction fails: nothing is written and nothing recorded.
FlushFails(f) ==
    /\ ohFaults < MaxHbFaults
    /\ f \in ohFlights /\ ~f.done
    /\ ohFlights' = ohFlights \ {f}
    /\ ohWaits' = ohWaits \ OffersIn(f.batch)
    /\ ohFaults' = ohFaults + 1
    /\ UNCHANGED <<ohMode, ohNow, ohRow, ohSaid, ohIndex, ohPersist, ohPending, ohQueue,
                   ohGaveUp>>

\* The waiting handler's context ends; its item stays in the batch.
WaiterLeaves(o) ==
    /\ ohFaults < MaxHbFaults
    /\ o \in ohWaits
    /\ ohWaits' = ohWaits \ {o}
    /\ ohGaveUp' = ohGaveUp \cup {o}
    /\ ohFaults' = ohFaults + 1
    /\ UNCHANGED <<ohMode, ohNow, ohRow, ohSaid, ohIndex, ohPersist, ohPending, ohQueue,
                   ohFlights>>

\* The process dies: batches, caches and the index are gone, rows stay.
ControlRestarts ==
    /\ ohFaults < MaxHbFaults
    /\ ohFaults' = ohFaults + 1
    /\ ohIndex' = [o \in HbOffers |-> 0]
    /\ ohPersist' = [o \in HbOffers |-> NoRecord]
    /\ ohPending' = <<>> /\ ohQueue' = <<>> /\ ohFlights' = {} /\ ohWaits' = {}
    /\ UNCHANGED <<ohMode, ohNow, ohRow, ohSaid, ohGaveUp>>

OHNext ==
    \/ HbTick \/ TimerFires \/ FlusherTakes \/ ControlRestarts
    \/ \E o \in HbOffers : \/ WaiterLeaves(o)
                           \/ \E st \in HbStatuses, obs \in 1 .. ohNow + 1 :
                                 SendHeartbeat(o, st, obs)
    \/ \E f \in ohFlights : FlushCommits(f) \/ FlushReturns(f) \/ FlushFails(f)

(***************************************************************************)
(* The timer, the flusher and the database make progress.                  *)
(***************************************************************************)
OHFairness ==
    /\ WF_ohVars(TimerFires)
    /\ WF_ohVars(\E f \in ohFlights : FlushCommits(f) \/ FlushReturns(f))

OHSpec == OHInit /\ [][OHNext]_ohVars /\ OHFairness

-----------------------------------------------------------------------------
(***************************************************************************)
(* Properties                                                              *)
(***************************************************************************)

\* A row never goes back to an earlier report: an ACTIVE written late would
\* leave a worker that has said DRAINING selectable.  It holds for every
\* offer whose handler never gave up on a write.
ReportsStayInOrder ==
    \A o \in HbOffers : o \notin ohGaveUp => ohRow'[o].n >= ohRow[o].n

\* An offer is inside the SQL liveness window only while its agent's newest
\* accepted observation is: neither batching nor a queue extends its life.
EligibleWasSeen ==
    \A o \in HbOffers :
        ohNow - ohRow[o].seen < HbWindow => ohNow - ohSaid[o].seen < HbWindow

\* A handler that waits for its write gets an answer.
HandlersReturn == \A o \in HbOffers : []<>(o \notin ohWaits)
=============================================================================
