--------------------------- MODULE ObjectRetention ---------------------------
(***************************************************************************)
(* What becomes of the objects of a job: ordinary retention                 *)
(* (job_object_retention.go), the erasure of a buyer and its deletion queue *)
(* (data_governance.go), the sweeps of workers.go that serve both, run by   *)
(* processes that crash or lose a claim, and the replay of tombstones after *)
(* the database was restored from a backup.                                 *)
(*                                                                         *)
(* One job.  Its objects: "input", and "result", the key of the current     *)
(* attempt (tasks.result_key), which no row names between a tombstone and   *)
(* the next claim.  Ages are relative and counted in ticks, so that no      *)
(* horizon cuts a behaviour short.                                          *)
(***************************************************************************)
EXTENDS Naturals, FiniteSets

CONSTANTS Erasers,       \* processes that run the deletion sweep
          Purgers,       \* processes that run the retention sweep
          Window,        \* disputeFilingWindow
          Retention,     \* jobObjectRetentionPeriod, above the window
          UrlLife,       \* life of a presigned PUT
          Grace,         \* objectDeletionGrace
          MaxCrashes

ASSUME RetentionOutlastsWindow == Window < Retention /\ UrlLife < Retention

Keys == {"input", "result"}
RunningErasers == Retention + 1          \* age of a job that is not terminal
NoJob == [age |-> RunningErasers, purged |-> FALSE, refs |-> {}]
NoDeletion == [queued |-> FALSE, wait |-> 0, token |-> "none", lapsed |-> FALSE]

VARIABLES orJob,       \* [age, purged, refs]: jobs and tasks rows
          orDispute,   \* an unresolved dispute on the job
          orErased,    \* the buyer's tombstone
          orQueue,     \* pending_object_deletions, by key
          orStore,     \* keys in the bucket
          orTaken,     \* eraser -> keys it claimed and has not finished
          orGone,      \* eraser -> keys it removed and has not completed
          orPurge,     \* purger -> idle | claimed | removed
          orBackup,    \* the database as the backup has it, or "none" / "used"
          orLate,      \* keys uploaded after the tombstone (history)
          orUploaded,  \* keys ever uploaded (history)
          orCrashes
orVars == <<orJob, orDispute, orErased, orQueue, orStore, orTaken, orGone, orPurge,
            orBackup, orLate, orUploaded, orCrashes>>

ORInit ==
  /\ orJob = [age |-> RunningErasers, purged |-> FALSE, refs |-> {"input"}]
  /\ orDispute = FALSE /\ orErased = FALSE
  /\ orQueue = [k \in Keys |-> NoDeletion]
  /\ orStore = {"input"}
  /\ orTaken = [p \in Erasers |-> {}]
  /\ orGone = [p \in Erasers |-> {}]
  /\ orPurge = [p \in Purgers |-> "idle"]
  /\ orBackup = [state |-> "none", job |-> NoJob, dispute |-> FALSE]
  /\ orLate = {} /\ orUploaded = {"input"} /\ orCrashes = 0

Aged(age) == IF age < Retention THEN age + 1 ELSE age
Waited(queue) == [k \in Keys |-> IF queue[k].wait > 0
                                 THEN [queue[k] EXCEPT !.wait = @ - 1] ELSE queue[k]]

\* Timestamps age in the database and in its backup alike.
TimePasses ==
  /\ orJob' = [orJob EXCEPT !.age = Aged(@)]
  /\ orQueue' = Waited(orQueue)
  /\ orBackup' = [orBackup EXCEPT !.job.age = IF orBackup.state = "taken" THEN Aged(@) ELSE @]
  /\ UNCHANGED <<orDispute, orErased, orStore, orTaken, orGone, orPurge, orLate, orUploaded, orCrashes>>

(***************************************************************************)
(* The job and its buyer.                                                   *)
(***************************************************************************)

\* A worker claims the task, which names the attempt's result key ...
AttemptStarts ==
  /\ orJob.age = RunningErasers
  /\ orJob' = [orJob EXCEPT !.refs = @ \cup {"result"}]
  /\ UNCHANGED <<orDispute, orErased, orQueue, orStore, orTaken, orGone, orPurge,
                 orBackup, orLate, orUploaded, orCrashes>>

\* ... and uploads under the URLs it holds, at most UrlLife after the job ended.
UploadObject(k) ==
  /\ orJob.age = RunningErasers \/ orJob.age <= UrlLife
  /\ k = "result"
  /\ "result" \in orJob.refs \/ orErased \/ orBackup.state = "used"
  /\ orUploaded' = orUploaded \cup {k}
  /\ orStore' = orStore \cup {k}
  /\ orLate' = IF orErased THEN orLate \cup {k} ELSE orLate
  /\ UNCHANGED <<orJob, orDispute, orErased, orQueue, orTaken, orGone, orPurge,
                 orBackup, orCrashes>>

RetainedJobEnds ==
  /\ orJob.age = RunningErasers
  /\ orJob' = [orJob EXCEPT !.age = 0]
  /\ UNCHANGED <<orDispute, orErased, orQueue, orStore, orTaken, orGone, orPurge,
                 orBackup, orLate, orUploaded, orCrashes>>

\* FileDispute, inside the filing window, by a buyer whose account is open.
FileDispute ==
  /\ orJob.age <= Window /\ ~ orErased /\ ~ orDispute
  /\ orDispute' = TRUE
  /\ UNCHANGED <<orJob, orErased, orQueue, orStore, orTaken, orGone, orPurge,
                 orBackup, orLate, orUploaded, orCrashes>>

ResolveEvidence ==
  /\ orDispute
  /\ orDispute' = FALSE
  /\ UNCHANGED <<orJob, orErased, orQueue, orStore, orTaken, orGone, orPurge,
                 orBackup, orLate, orUploaded, orCrashes>>

\* enforceBuyerTombstone clears the pointers of the buyer's rows.
Enforced(job) == [job EXCEPT !.refs = {}]

\* TombstoneBuyer: collect the keys, queue them, then clear the pointers.
\* Mutant: the pointers are cleared before the keys are collected.
Collected_AfterEnforce == Enforced(orJob).refs
Collected == orJob.refs
\* enqueueBuyerObjectDeletions: a row for each key, not to be touched before
\* the links handed out for it have ended.
Enqueued(keys) == [k \in Keys |-> IF k \in keys THEN [NoDeletion EXCEPT !.queued = TRUE, !.wait = Grace]
                                 ELSE orQueue[k]]
EraseBuyer ==
  /\ ~ orErased
  /\ orErased' = TRUE
  /\ orQueue' = Enqueued(Collected)
  /\ orJob' = Enforced(orJob)
  /\ UNCHANGED <<orDispute, orStore, orTaken, orGone, orPurge, orBackup, orLate, orUploaded, orCrashes>>

(***************************************************************************)
(* The deletion sweep.                                                      *)
(***************************************************************************)

\* ClaimPendingObjectDeletions: rows past their grace, free or with a lapsed lease.
Ready(k) == /\ orQueue[k].queued /\ orQueue[k].wait = 0
            /\ orQueue[k].token = "none" \/ orQueue[k].lapsed

ClaimDeletions(p) ==
  LET S == {k \in Keys : Ready(k)}
  IN  /\ orTaken[p] = {} /\ orGone[p] = {} /\ S # {}
      /\ orTaken' = [orTaken EXCEPT ![p] = S]
      /\ orQueue' = [k \in Keys |-> IF k \in S
                                    THEN [orQueue[k] EXCEPT !.token = p, !.lapsed = FALSE]
                                    ELSE orQueue[k]]
      /\ UNCHANGED <<orJob, orDispute, orErased, orStore, orGone, orPurge, orBackup,
                     orLate, orUploaded, orCrashes>>

LeaseLapses(k) ==
  /\ orQueue[k].token # "none" /\ ~ orQueue[k].lapsed
  /\ orQueue' = [orQueue EXCEPT ![k].lapsed = TRUE]
  /\ UNCHANGED <<orJob, orDispute, orErased, orStore, orTaken, orGone, orPurge,
                 orBackup, orLate, orUploaded, orCrashes>>

\* RemoveObjects of the next claimed key; a missing key is a success.
RemoveStored(p) ==
  /\ orGone[p] = {}
  /\ \E k \in orTaken[p] :
       /\ orStore' = orStore \ {k}
       /\ orGone' = [orGone EXCEPT ![p] = {k}]
       /\ orTaken' = [orTaken EXCEPT ![p] = @ \ {k}]
  /\ UNCHANGED <<orJob, orDispute, orErased, orQueue, orPurge, orBackup, orLate, orUploaded, orCrashes>>

\* FailPendingObjectDeletion gives the claim back, and the pass ends there.
RemoveObjectFails(p) ==
  /\ orGone[p] = {}
  /\ \E k \in orTaken[p] :
       orQueue' = IF orQueue[k].token = p
                  THEN [orQueue EXCEPT ![k].token = "none", ![k].lapsed = FALSE] ELSE orQueue
  /\ orTaken' = [orTaken EXCEPT ![p] = {}]
  /\ UNCHANGED <<orJob, orDispute, orErased, orStore, orGone, orPurge, orBackup,
                 orLate, orUploaded, orCrashes>>

\* CompletePendingObjectDeletion: with the claim lost the pass ends.
CompleteDeletion(p) ==
  /\ \E k \in orGone[p] :
       IF orQueue[k].queued /\ orQueue[k].token = p
       THEN /\ orQueue' = [orQueue EXCEPT ![k] = NoDeletion]
            /\ UNCHANGED orTaken
       ELSE /\ orTaken' = [orTaken EXCEPT ![p] = {}]
            /\ UNCHANGED orQueue
  /\ orGone' = [orGone EXCEPT ![p] = {}]
  /\ UNCHANGED <<orJob, orDispute, orErased, orStore, orPurge, orBackup, orLate, orUploaded, orCrashes>>

(***************************************************************************)
(* The retention sweep.                                                     *)
(***************************************************************************)

\* ClaimJobsForObjectRetention: the row lock ends with the statement, so what
\* follows works from what was read here.
PurgeDue == orJob.age = Retention /\ ~ orJob.purged /\ ~ orDispute

ClaimForRetention(p) ==
  /\ orPurge[p] = "idle" /\ PurgeDue
  /\ orPurge' = [orPurge EXCEPT ![p] = "claimed"]
  /\ UNCHANGED <<orJob, orDispute, orErased, orQueue, orStore, orTaken, orGone,
                 orBackup, orLate, orUploaded, orCrashes>>

\* RemovePrefix: everything listed goes, or some of it and the pass ends.
PurgeAfterFailure == "idle"
RemovePrefix(p) ==
  /\ orPurge[p] = "claimed"
  /\ orStore' = {}
  /\ orPurge' = [orPurge EXCEPT ![p] = "removed"]
  /\ UNCHANGED <<orJob, orDispute, orErased, orQueue, orTaken, orGone, orBackup,
                 orLate, orUploaded, orCrashes>>

RemovePrefixFails(p) ==
  /\ orPurge[p] = "claimed"
  /\ \E rest \in SUBSET orStore : orStore' = rest
  /\ orPurge' = [orPurge EXCEPT ![p] = PurgeAfterFailure]
  /\ UNCHANGED <<orJob, orDispute, orErased, orQueue, orTaken, orGone, orBackup,
                 orLate, orUploaded, orCrashes>>

MarkPurged(p) ==
  /\ orPurge[p] = "removed"
  /\ orJob' = [orJob EXCEPT !.purged = TRUE]
  /\ orPurge' = [orPurge EXCEPT ![p] = "idle"]
  /\ UNCHANGED <<orDispute, orErased, orQueue, orStore, orTaken, orGone, orBackup,
                 orLate, orUploaded, orCrashes>>

EraserCrashes(p) ==
  /\ orCrashes < MaxCrashes
  /\ orTaken[p] # {} \/ orGone[p] # {}
  /\ orCrashes' = orCrashes + 1
  /\ orTaken' = [orTaken EXCEPT ![p] = {}]
  /\ orGone' = [orGone EXCEPT ![p] = {}]
  /\ UNCHANGED <<orJob, orDispute, orErased, orQueue, orStore, orPurge, orBackup, orLate, orUploaded>>

PurgerCrashes(p) ==
  /\ orCrashes < MaxCrashes
  /\ orPurge[p] # "idle"
  /\ orCrashes' = orCrashes + 1
  /\ orPurge' = [orPurge EXCEPT ![p] = "idle"]
  /\ UNCHANGED <<orJob, orDispute, orErased, orQueue, orStore, orTaken, orGone, orBackup,
                 orLate, orUploaded>>

(***************************************************************************)
(* Backup and restore.                                                      *)
(***************************************************************************)

\* The backups that matter are those taken before the deletion.
TakeBackup ==
  /\ orBackup.state = "none" /\ ~ orErased
  /\ orBackup' = [state |-> "taken", job |-> orJob, dispute |-> orDispute]
  /\ UNCHANGED <<orJob, orDispute, orErased, orQueue, orStore, orTaken, orGone, orPurge,
                 orLate, orUploaded, orCrashes>>

\* The control plane is down while the database is restored; the tombstones are
\* imported from their journal and ApplyBuyerTombstones enforces them.
\* Nothing is queued again.
RestoreAndApplyTombstones ==
  /\ orBackup.state = "taken"
  /\ orJob' = IF orErased THEN Enforced(orBackup.job) ELSE orBackup.job
  /\ orDispute' = orBackup.dispute
  /\ orQueue' = [k \in Keys |-> NoDeletion]
  /\ orBackup' = [state |-> "used", job |-> NoJob, dispute |-> FALSE]
  /\ orTaken' = [p \in Erasers |-> {}]
  /\ orGone' = [p \in Erasers |-> {}]
  /\ orPurge' = [p \in Purgers |-> "idle"]
  /\ UNCHANGED <<orErased, orStore, orLate, orUploaded, orCrashes>>

ORNext ==
  \/ TimePasses \/ AttemptStarts \/ RetainedJobEnds \/ FileDispute \/ ResolveEvidence
  \/ EraseBuyer \/ TakeBackup \/ RestoreAndApplyTombstones
  \/ \E k \in Keys : UploadObject(k) \/ LeaseLapses(k)
  \/ \E p \in Erasers :
       \/ ClaimDeletions(p) \/ RemoveStored(p) \/ RemoveObjectFails(p) \/ CompleteDeletion(p)
       \/ EraserCrashes(p)
  \/ \E p \in Purgers :
       \/ ClaimForRetention(p) \/ RemovePrefix(p) \/ RemovePrefixFails(p) \/ MarkPurged(p)
       \/ PurgerCrashes(p)

\* The tickers run every sweep again and again, the store works from time to
\* time, a job ends (recovery sweeps), and time passes.
ORFairness ==
  /\ WF_orVars(TimePasses) /\ WF_orVars(RetainedJobEnds)
  /\ \A p \in Purgers : /\ WF_orVars(ClaimForRetention(p)) /\ SF_orVars(RemovePrefix(p))
                         /\ WF_orVars(MarkPurged(p))

ORSpec == ORInit /\ [][ORNext]_orVars /\ ORFairness

\* While a dispute is unresolved every object the job's rows name that was ever
\* uploaded is in the bucket, unless the buyer asked for erasure
\* (ClaimJobsForObjectRetention reads disputes once; the window keeps it true
\* until the removal).  A restore can lose the record of a purge.
DisputedEvidenceKept ==
  orDispute /\ ~ orErased /\ orBackup.state # "used" => orJob.refs \cap orUploaded \subseteq orStore

\* Every object left in the bucket is still reachable by a sweep: its job is not
\* marked purged, or it waits in the deletion queue (MarkJobObjectsPurged comes
\* after the removal, whatever failed or crashed before).
StoredIsFindable ==
  orStore # {} => ~ orJob.purged \/ \A k \in orStore : orQueue[k].queued

\* From the tombstone on, what the buyer's rows named is gone or queued, whatever
\* claims lapse and whoever completes them; uploads that arrive later
\* are left to retention.  A restore does not queue again.
ErasureIsQueued ==
  orErased /\ orBackup.state # "used" =>
    \A k \in orStore \ orLate : orQueue[k].queued

\* Objects are kept while a dispute needs them and are on the way out once they must
\* go.
ObjectsAccounted == DisputedEvidenceKept /\ StoredIsFindable /\ ErasureIsQueued

\* An erased buyer's objects all go in the end, those uploaded after the tombstone
\* and those of a restored database included, unless a dispute holds the job.
ErasedIsGone == []<>(orErased => orStore = {} \/ orDispute)
=============================================================================
