----------------------------- MODULE ResultMerge -----------------------------
(***************************************************************************)
(* Merging the chunk results of a job into the one object its buyer        *)
(* downloads (src/control/api.go, workers.go, store_jobs.go, store.go).    *)
(*                                                                         *)
(* Four callers run the same merge for one job and one output key: the     *)
(* handler of the last commit, the finalizing sweep, the watchdog that     *)
(* checkpoints a stuck job before cancelling it, and the stale-task sweep  *)
(* that checkpoints before failing the job.  A merge reads its inputs in   *)
(* one query, then writes, reads back and publishes without any lock.      *)
(***************************************************************************)
EXTENDS Integers, FiniteSets, Sequences, FiniteSetsExt, SequencesExt

CONSTANTS
    RmChunks,    \* number of chunks of the job
    RmMergers,   \* processes that may run a merge
    RmCopied,    \* the chunks with a redundant copy
    RmBody,      \* RmBody[c][basis]: the records of chunk c's artifact
    RmMaxFaults, \* bound on failed writes and crashed processes
    RmUnmetered, \* a completion that carries no token count
    RmNone       \* no object, no value

MergeChunks == 0 .. RmChunks - 1

VARIABLES
    rmTask,    \* rmTask[c]: the primary task of chunk c
    rmSecond,  \* rmSecond[c]: the second and third opinions on it
    rmStatus,  \* jobs.status
    rmObject,  \* the object under output_ref
    rmMark,    \* results_merged_at with the recorded output size
    rmMerger,  \* rmMerger[m]: what the process is doing
    rmFaults

rmVars == <<rmTask, rmSecond, rmStatus, rmObject, rmMark, rmMerger, rmFaults>>

-----------------------------------------------------------------------------
(* The inputs and the merge itself.                                        *)

\* JobMergeInputs: the complete primaries in chunk order, each with the artifact
\* its resolution selects, a majority before a provisional one.
Inputs ==
    [c \in {d \in MergeChunks : rmTask[d] = "complete"} |->
        IF rmSecond[c] = "majority" THEN "majority" ELSE "first"]
InOrder(inputs) == SelectSeq([i \in 1 .. RmChunks |-> i - 1], LAMBDA c : c \in DOMAIN inputs)

\* mergeResultObjectTo: one line for each record, numbered on from the base.
Indexed(base, body) == [i \in 1 .. Len(body) |-> [index |-> base + i - 1, text |-> body[i].text]]

\* batchInferCompletionTokens: a meter only if every completion carries one.
TokensOf(body) ==
    IF \E i \in 1 .. Len(body) : body[i].tokens = RmUnmetered THEN RmUnmetered
    ELSE FoldLeft(LAMBDA n, r : n + r.tokens, 0, body)

\* mergeJSONResultsToFile: chunk after chunk onto the temporary file.
Merged(inputs) ==
    LET add(acc, c) ==
            LET body   == RmBody[c][inputs[c]]
                tokens == TokensOf(body)
            IN [lines   |-> acc.lines \o Indexed(acc.records, body),
                records |-> acc.records + Len(body),
                tokens  |-> IF acc.tokens = RmUnmetered \/ tokens = RmUnmetered
                            THEN RmUnmetered ELSE acc.tokens + tokens]
    IN FoldLeft(add, [lines |-> <<>>, records |-> 0, tokens |-> 0], InOrder(inputs))

-----------------------------------------------------------------------------
(* Who merges when.                                                        *)

\* JobAllTasksDone: every task of the job, copies and third opinions included.
AllDone == (\A c \in MergeChunks : rmTask[c] = "complete")
           /\ (\A c \in MergeChunks : rmSecond[c] \notin {"copy", "disputed"})
Live == rmStatus = "running"
Idle(m) == rmMerger[m] = [at |-> "idle"]
Goes(m, state) == rmMerger' = [rmMerger EXCEPT ![m] = state]
MergerAt(m, at) == rmMerger[m].at = at

\* handleWorkerCommit: the commit and its verification are durable; the handler
\* then looks whether the job is done.
Commit(m, c) ==
    /\ Live /\ Idle(m) /\ rmTask[c] = "open"
    /\ rmTask' = [rmTask EXCEPT ![c] = "complete"]
    /\ Goes(m, [at |-> "check"])
    /\ UNCHANGED <<rmSecond, rmStatus, rmObject, rmMark, rmFaults>>

\* The redundant copy of a chunk is committed and compared with its primary: they
\* agree, or a third opinion is inserted under the job's lock.
CommitCopy(m, c) ==
    /\ Live /\ Idle(m) /\ rmTask[c] = "complete" /\ rmSecond[c] = "copy"
    /\ \E verdict \in {"settled", "disputed"} : rmSecond' = [rmSecond EXCEPT ![c] = verdict]
    /\ Goes(m, [at |-> "check"])
    /\ UNCHANGED <<rmTask, rmStatus, rmObject, rmMark, rmFaults>>
\* The third opinion is committed and settles the chunk by majority.
CommitOpinion(m, c) ==
    /\ Live /\ Idle(m) /\ rmSecond[c] = "disputed"
    /\ rmSecond' = [rmSecond EXCEPT ![c] = "majority"]
    /\ Goes(m, [at |-> "check"])
    /\ UNCHANGED <<rmTask, rmStatus, rmObject, rmMark, rmFaults>>

\* finalizeJobIfDone: the advisory check.
Check(m) ==
    /\ MergerAt(m, "check")
    /\ Goes(m, IF AllDone THEN [at |-> "read", next |-> "finalize"] ELSE [at |-> "idle"])
    /\ UNCHANGED <<rmTask, rmSecond, rmStatus, rmObject, rmMark, rmFaults>>

\* FinalizableJobs.
Finalizable == Live /\ AllDone
SweepLists(m) ==
    /\ Idle(m) /\ Finalizable
    /\ Goes(m, [at |-> "read", next |-> "finalize"])
    /\ UNCHANGED <<rmTask, rmSecond, rmStatus, rmObject, rmMark, rmFaults>>

\* reapStuckJobs on a job with a strike and something to checkpoint.
WatchdogLists(m) ==
    /\ Idle(m) /\ Live /\ \E c \in MergeChunks : rmTask[c] = "complete"
    /\ Goes(m, [at |-> "read", next |-> "cancel"])
    /\ UNCHANGED <<rmTask, rmSecond, rmStatus, rmObject, rmMark, rmFaults>>

\* requeueStaleTasks on a task out of retries: checkpointBeforeFail.
StaleLists(m, c) ==
    /\ Idle(m) /\ Live /\ rmTask[c] = "open"
    /\ Goes(m, [at |-> "read", next |-> "fail"])
    /\ UNCHANGED <<rmTask, rmSecond, rmStatus, rmObject, rmMark, rmFaults>>

-----------------------------------------------------------------------------
(* mergeJobResultsWithProbe.                                               *)

ReadInputs(m) ==
    /\ MergerAt(m, "read")
    /\ Goes(m, [at |-> "put", next |-> rmMerger[m].next, inputs |-> Inputs])
    /\ UNCHANGED <<rmTask, rmSecond, rmStatus, rmObject, rmMark, rmFaults>>

PutObject(m) ==
    /\ MergerAt(m, "put")
    /\ rmObject' = Merged(rmMerger[m].inputs)
    /\ Goes(m, [rmMerger[m] EXCEPT !.at = "verify"])
    /\ UNCHANGED <<rmTask, rmSecond, rmStatus, rmMark, rmFaults>>

\* Mutant: a failed merge does not keep the caller from its next step.
AfterFailure_Any(next) == TRUE
\* Only the caller that fails the job anyway goes on after a failed merge.
AfterFailure(next) == next = "fail"
Failed2(m) == IF AfterFailure(rmMerger[m].next)
              THEN [at |-> "end", next |-> rmMerger[m].next] ELSE [at |-> "idle"]

\* verifyMergedObject: the object read back is the one assembled here.
VerifyObject(m) ==
    /\ MergerAt(m, "verify")
    /\ Goes(m, IF rmObject = Merged(rmMerger[m].inputs)
               THEN [rmMerger[m] EXCEPT !.at = "mark"] ELSE Failed2(m))
    /\ UNCHANGED <<rmTask, rmSecond, rmStatus, rmObject, rmMark, rmFaults>>

\* MarkResultsMerged, for a job of any status.
MarkMerged(m) ==
    /\ MergerAt(m, "mark")
    /\ rmMark' = Merged(rmMerger[m].inputs).records
    /\ Goes(m, [at |-> "end", next |-> rmMerger[m].next])
    /\ UNCHANGED <<rmTask, rmSecond, rmStatus, rmObject, rmFaults>>

\* The object store refuses, or an artifact cannot be read.
MergeFails(m) ==
    /\ rmMerger[m].at \in {"read", "put", "verify"} /\ rmFaults < RmMaxFaults
    /\ rmFaults' = rmFaults + 1
    /\ Goes(m, Failed2(m))
    /\ UNCHANGED <<rmTask, rmSecond, rmStatus, rmObject, rmMark>>

\* FinalizeJobTx, CancelStuckJob and FailTaskAndSettleJob, each under the job's
\* lock and on the state it finds then.
Conclude(m) ==
    /\ MergerAt(m, "end")
    /\ rmStatus' = CASE ~Live -> rmStatus
                     [] Live /\ rmMerger[m].next = "finalize" ->
                            IF AllDone THEN "complete" ELSE rmStatus
                     [] Live /\ rmMerger[m].next = "cancel" -> "cancelled"
                     [] Live /\ rmMerger[m].next = "fail" ->
                            IF \E c \in MergeChunks : rmTask[c] = "open" THEN "failed" ELSE rmStatus
    /\ Goes(m, [at |-> "idle"])
    /\ UNCHANGED <<rmTask, rmSecond, rmObject, rmMark, rmFaults>>

ProcessDies(m) ==
    /\ ~Idle(m) /\ rmFaults < RmMaxFaults
    /\ rmFaults' = rmFaults + 1
    /\ Goes(m, [at |-> "idle"])
    /\ UNCHANGED <<rmTask, rmSecond, rmStatus, rmObject, rmMark>>

RmInit ==
    /\ rmTask = [c \in MergeChunks |-> "open"]
    /\ rmSecond = [c \in MergeChunks |-> IF c \in RmCopied THEN "copy" ELSE "settled"]
    /\ rmStatus = "running" /\ rmObject = RmNone /\ rmMark = RmNone
    /\ rmMerger = [m \in RmMergers |-> [at |-> "idle"]] /\ rmFaults = 0

MergeStep(m) == Check(m) \/ ReadInputs(m) \/ PutObject(m) \/ VerifyObject(m)
                \/ MarkMerged(m) \/ Conclude(m)
RmNext ==
    \/ \E m \in RmMergers :
        \/ MergeStep(m) \/ MergeFails(m) \/ ProcessDies(m)
        \/ SweepLists(m) \/ WatchdogLists(m)
        \/ \E c \in MergeChunks : Commit(m, c) \/ CommitCopy(m, c) \/ CommitOpinion(m, c) \/ StaleLists(m, c)

\* A process that is not killed runs its merge to the end, and the leader's
\* finalizing sweep comes round again and again.
RmFairness ==
    \A m \in RmMergers : WF_rmVars(MergeStep(m)) /\ SF_rmVars(SweepLists(m))
RmSpec == RmInit /\ [][RmNext]_rmVars /\ RmFairness

-----------------------------------------------------------------------------
(* Properties.                                                             *)

Bodies(inputs) ==
    FlattenSeq([i \in 1 .. Len(InOrder(inputs)) |->
                    RmBody[InOrder(inputs)[i]][inputs[InOrder(inputs)[i]]]])
\* What the merge of some of the chunks must be, said of the whole at once: the
\* records in chunk order, the i-th numbered i - 1, and metered only if each is.
Artifact(body) ==
    [lines   |-> [i \in 1 .. Len(body) |-> [index |-> i - 1, text |-> body[i].text]],
     records |-> Len(body),
     tokens  |-> IF \E i \in 1 .. Len(body) : body[i].tokens = RmUnmetered THEN RmUnmetered
                 ELSE FoldFunction(+, 0, [i \in 1 .. Len(body) |-> body[i].tokens])]
Artifacts ==
    {Artifact(Bodies(inputs)) :
        inputs \in UNION {[done -> {"first", "majority"}] : done \in SUBSET MergeChunks}}

\* Whatever object lies under the output key is the artifact of some set of
\* chunks: in order, numbered without gap or repeat, its meter all or nothing.
MergedInOrder == rmObject # RmNone => rmObject \in Artifacts

\* A job is complete only after a merge of it was written, read back and recorded.
CompleteIsPublished ==
    rmStatus = "complete" => rmObject # RmNone /\ rmMark # RmNone

\* Overlapping merges of a job leave a whole artifact, and a complete job has one.
ArtifactKept == MergedInOrder /\ CompleteIsPublished

\* A job with nothing left to do is completed, cancelled or failed: failed
\* merges, dead processes and merges that undo one another's read-back do not
\* leave it running.
JobsConclude == []<>(~(Live /\ AllDone))
=============================================================================
