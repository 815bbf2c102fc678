---------------------------- MODULE WorkerLeader ----------------------------
(***************************************************************************)
(* Election of the control replica that runs the background sweeps         *)
(* (src/control/worker_leader.go).  Every replica runs runWorkerLeader; the *)
(* one whose database session holds the advisory lock runs Workers.Run.    *)
(* The lock belongs to the SESSION: when the database drops the session    *)
(* the lock is free at once, while the replica learns of it only at its    *)
(* next health ping and keeps sweeping until then.                         *)
(***************************************************************************)
EXTENDS Naturals

CONSTANTS
  WlReplicas,     \* control-plane processes
  WlNone,         \* not a replica: nobody holds the lock
  WlMaxFaults     \* bound on database errors, dropped sessions, crashes and
                  \* shutdowns

ASSUME ConstantsAssumption == WlMaxFaults \in Nat /\ WlNone \notin WlReplicas

StaleSamples == 2                        \* workerLeaderStaleSamples

VARIABLES
  wlPc,         \* where runWorkerLeader is in each replica
  lock,       \* replica whose session holds the advisory lock, or None
  session,    \* the leader's database session: "none", "open" or "broken"
  sweeping,   \* whether Workers.Run is still running in the replica
  wlStale,      \* monitorWorkerLeadership's staleSamples
  quit,       \* whether the replica's context is cancelled (SIGTERM)
  wlFaults      \* faults injected so far

wlVars == <<wlPc, lock, session, sweeping, wlStale, quit, wlFaults>>

Phases == {"poll", "wait", "lead", "stopping", "releasing", "down"}

LeaderTypeOK ==
  /\ wlPc \in [WlReplicas -> Phases]
  /\ lock \in WlReplicas \cup {WlNone}
  /\ session \in [WlReplicas -> {"none", "open", "broken"}]
  /\ sweeping \in [WlReplicas -> BOOLEAN]
  /\ wlStale \in [WlReplicas -> 0..StaleSamples]
  /\ quit \in [WlReplicas -> BOOLEAN]
  /\ wlFaults \in 0..WlMaxFaults

WlInit ==
  /\ wlPc = [r \in WlReplicas |-> "poll"]
  /\ lock = WlNone
  /\ session = [r \in WlReplicas |-> "none"]
  /\ sweeping = [r \in WlReplicas |-> FALSE]
  /\ wlStale = [r \in WlReplicas |-> 0]
  /\ quit = [r \in WlReplicas |-> FALSE]
  /\ wlFaults = 0

-----------------------------------------------------------------------------
\* tryAcquireWorkerLeadership succeeded: the sweeps start on a new context.
Acquire(r) ==
  /\ wlPc[r] = "poll"
  /\ ~quit[r]
  /\ lock = WlNone
  /\ lock' = r
  /\ session' = [session EXCEPT ![r] = "open"]
  /\ wlPc' = [wlPc EXCEPT ![r] = "lead"]
  /\ sweeping' = [sweeping EXCEPT ![r] = TRUE]
  /\ wlStale' = [wlStale EXCEPT ![r] = 0]
  /\ UNCHANGED <<quit, wlFaults>>

\* The lock is taken: stand by and poll again later.
Standby(r) ==
  /\ wlPc[r] = "poll"
  /\ ~quit[r]
  /\ lock # WlNone
  /\ wlPc' = [wlPc EXCEPT ![r] = "wait"]
  /\ UNCHANGED <<lock, session, sweeping, wlStale, quit, wlFaults>>

\* The attempt failed with a database error: poll again later.
PollError(r) ==
  /\ wlPc[r] = "poll"
  /\ ~quit[r]
  /\ wlFaults < WlMaxFaults
  /\ wlFaults' = wlFaults + 1
  /\ wlPc' = [wlPc EXCEPT ![r] = "wait"]
  /\ UNCHANGED <<lock, session, sweeping, wlStale, quit>>

\* waitWorkerLeaderRetry fired.
RetryTimer(r) ==
  /\ wlPc[r] = "wait"
  /\ wlPc' = [wlPc EXCEPT ![r] = "poll"]
  /\ UNCHANGED <<lock, session, sweeping, wlStale, quit, wlFaults>>

\* Health tick: the ping failed, monitorWorkerLeadership returns.
PingFailed(r) ==
  /\ wlPc[r] = "lead"
  /\ session[r] = "broken"
  /\ wlPc' = [wlPc EXCEPT ![r] = "stopping"]
  /\ UNCHANGED <<lock, session, sweeping, wlStale, quit, wlFaults>>

\* Health tick: the ping answered and every sweep is live.
SweepsLive(r) ==
  /\ wlPc[r] = "lead"
  /\ session[r] = "open"
  /\ wlStale' = [wlStale EXCEPT ![r] = 0]
  /\ UNCHANGED <<wlPc, lock, session, sweeping, quit, wlFaults>>

\* Health tick: some sweep is stale; the second such sample in a row ends
\* the term.
SweepsStale(r) ==
  /\ wlPc[r] = "lead"
  /\ session[r] = "open"
  /\ wlStale' = [wlStale EXCEPT ![r] = @ + 1]
  /\ wlPc' = [wlPc EXCEPT ![r] = IF wlStale[r] + 1 >= StaleSamples
                                 THEN "stopping" ELSE "lead"]
  /\ UNCHANGED <<lock, session, sweeping, quit, wlFaults>>

\* Mutant: the leader does not wait for its sweeps before it moves on.
SweepsStopped_NoWait(r) ==
  /\ wlPc[r] = "stopping"
  /\ wlPc' = [wlPc EXCEPT ![r] = "releasing"]
  /\ UNCHANGED <<lock, session, sweeping, wlStale, quit, wlFaults>>

\* cancel() was called and every sweep has returned within the stop timeout.
SweepsStopped(r) ==
  /\ wlPc[r] = "stopping"
  /\ sweeping' = [sweeping EXCEPT ![r] = FALSE]
  /\ wlPc' = [wlPc EXCEPT ![r] = "releasing"]
  /\ UNCHANGED <<lock, session, wlStale, quit, wlFaults>>

\* The database sees the replica's session end: a lock it held is free.
EndSession(r) == lock' = IF lock = r THEN WlNone ELSE lock

\* A process death closes its session and ends its sweeps.
WlDie(r) ==
  /\ EndSession(r)
  /\ wlPc' = [wlPc EXCEPT ![r] = "down"]
  /\ session' = [session EXCEPT ![r] = "none"]
  /\ sweeping' = [sweeping EXCEPT ![r] = FALSE]
  /\ wlStale' = [wlStale EXCEPT ![r] = 0]
  /\ quit' = [quit EXCEPT ![r] = FALSE]

\* The sweeps did not stop within workerLeaderStopTimeout: log.Fatalf.
StopTimeout(r) ==
  /\ wlPc[r] = "stopping"
  /\ wlFaults < WlMaxFaults
  /\ wlFaults' = wlFaults + 1
  /\ WlDie(r)

\* releaseWorkerLeadership: unlock, or discard the session; either way the
\* session no longer holds the lock.  A cancelled replica then exits.
Release(r) ==
  /\ wlPc[r] = "releasing"
  /\ EndSession(r)
  /\ session' = [session EXCEPT ![r] = "none"]
  /\ wlPc' = [wlPc EXCEPT ![r] = IF quit[r] THEN "down" ELSE "wait"]
  /\ quit' = [quit EXCEPT ![r] = FALSE]
  /\ UNCHANGED <<sweeping, wlStale, wlFaults>>

\* ctx.Done() ends the monitor of a leader ("shutdown") ...
StopOnShutdown(r) ==
  /\ wlPc[r] = "lead"
  /\ quit[r]
  /\ wlPc' = [wlPc EXCEPT ![r] = "stopping"]
  /\ UNCHANGED <<lock, session, sweeping, wlStale, quit, wlFaults>>

\* ... and the retry wait or the poll loop of a follower.
ExitOnShutdown(r) ==
  /\ wlPc[r] \in {"poll", "wait"}
  /\ quit[r]
  /\ wlPc' = [wlPc EXCEPT ![r] = "down"]
  /\ quit' = [quit EXCEPT ![r] = FALSE]
  /\ UNCHANGED <<lock, session, sweeping, wlStale, wlFaults>>

-----------------------------------------------------------------------------
\* The database drops the leader's session (failover, network partition).
SessionDropped(r) ==
  /\ session[r] = "open"
  /\ wlFaults < WlMaxFaults
  /\ wlFaults' = wlFaults + 1
  /\ EndSession(r)
  /\ session' = [session EXCEPT ![r] = "broken"]
  /\ UNCHANGED <<wlPc, sweeping, wlStale, quit>>

\* The process context is cancelled.
Shutdown(r) ==
  /\ wlPc[r] # "down"
  /\ ~quit[r]
  /\ wlFaults < WlMaxFaults
  /\ wlFaults' = wlFaults + 1
  /\ quit' = [quit EXCEPT ![r] = TRUE]
  /\ UNCHANGED <<wlPc, lock, session, sweeping, wlStale>>

WlCrash(r) ==
  /\ wlPc[r] # "down"
  /\ wlFaults < WlMaxFaults
  /\ wlFaults' = wlFaults + 1
  /\ WlDie(r)

Restart(r) ==
  /\ wlPc[r] = "down"
  /\ wlPc' = [wlPc EXCEPT ![r] = "poll"]
  /\ UNCHANGED <<lock, session, sweeping, wlStale, quit, wlFaults>>

WlNext == \E r \in WlReplicas :
  \/ Acquire(r) \/ Standby(r) \/ PollError(r) \/ RetryTimer(r)
  \/ PingFailed(r) \/ SweepsLive(r) \/ SweepsStale(r)
  \/ SweepsStopped(r) \/ StopTimeout(r) \/ Release(r)
  \/ StopOnShutdown(r) \/ ExitOnShutdown(r)
  \/ SessionDropped(r) \/ Shutdown(r) \/ WlCrash(r) \/ Restart(r)

\* The loop of a live replica keeps running and a dead one is restarted by
\* its supervisor; no fairness on faults, nor on what a health tick finds.
Fairness == \A r \in WlReplicas :
  /\ WF_wlVars(Acquire(r) \/ Standby(r)) /\ WF_wlVars(RetryTimer(r))
  /\ WF_wlVars(PingFailed(r)) /\ WF_wlVars(SweepsStopped(r))
  /\ WF_wlVars(Release(r)) /\ WF_wlVars(Restart(r))
  /\ WF_wlVars(StopOnShutdown(r)) /\ WF_wlVars(ExitOnShutdown(r))

WlSpec == WlInit /\ [][WlNext]_wlVars /\ Fairness
-----------------------------------------------------------------------------
\* Two replicas sweep at the same time only if one of them has lost its
\* database session and has not noticed yet: runWorkerLeader waits for the
\* sweeps to stop before it gives the lock up.
NoOverlapWithoutSessionLoss ==
  \A r, s \in WlReplicas :
    (r # s /\ sweeping[r] /\ sweeping[s]) =>
      (session[r] = "broken" \/ session[s] = "broken")

\* The lock is held only by a replica whose session is open, so a dead or
\* disconnected leader never blocks the election.
LockHasLiveSession == lock # WlNone => session[lock] = "open"

\* A replica whose session was dropped stops its sweeps and releases, or
\* dies: it does not stay a lame leader.
LameLeaderStops ==
  \A r \in WlReplicas : []<>(session[r] = "broken" => ~sweeping[r])

SomeoneLeads == \E r \in WlReplicas : wlPc[r] = "lead"
=============================================================================
