---------------------------- MODULE PrefixBeliefs ----------------------------
(***************************************************************************)
(* Which prompt prefixes a worker's engine probably still holds             *)
(* (prefix_routing.go, prefix_routing_path.go): rows of worker_prefix_state *)
(* written after each completed task, corrected by what the engine reports, *)
(* read by the claim query, and pruned by the leader.                       *)
(*                                                                         *)
(* None of it runs in a transaction: every statement is a step of its own,  *)
(* and completions of several tasks on one worker and the pruner interleave.*)
(* A prefix is a model value; its identity over the leading tokens is the    *)
(* chain of the job.                                                        *)
(***************************************************************************)
EXTENDS Integers, Sequences, FiniteSets, FiniteSetsExt, SequencesExt

CONSTANTS PbWorkers, PbCommits,   \* workers, and completions in their order
          PbChain,                \* job -> its prefixes, shallow to deep (job_prefix_chain)
          PbLegacy,               \* job -> jobs.prefix_id of a job without a chain, or PbNone
          PbDepth,                \* prefix -> its depth
          PbTTL, PbKeep,          \* prefixWarmTTL; rows are dropped after PbKeep
          PbBudget,               \* prefixRoutingStateBudgetBytes, in tokens
          PbHorizon, PbMaxHits, PbNone

VARIABLES pbNow,
          pbRows,      \* worker_prefix_state: <<worker, prefix>> -> [last, hits, depth]
          pbCommit,    \* completion -> where it stands
          pbPrune,     \* the pruner: the rows it listed for one worker
          pbServed,    \* <<worker, prefix>> -> when a task with it last completed there (history)
          pbWrites     \* number of writes of beliefs so far (history)
pbVars == <<pbNow, pbRows, pbCommit, pbPrune, pbServed, pbWrites>>

PbJobs == DOMAIN PbChain
PbNodes == DOMAIN PbDepth
Chained(j) == ToSet(PbChain[j])
Named(j) == Chained(j) \cup ({PbLegacy[j]} \ {PbNone})
Fresh3 == [at |-> "new", worker |-> PbNone, job |-> PbNone, cached |-> PbNone, deepest |-> 0,
           node |-> 1, missed |-> FALSE, since |-> 0]
NoPrune == [worker |-> PbNone, listed |-> <<>>, total |-> 0, writes |-> 0]

PbInit ==
  /\ pbNow = 0
  /\ pbRows = [x \in {} |-> 0]
  /\ pbCommit = [c \in PbCommits |-> Fresh3]
  /\ pbPrune = NoPrune
  /\ pbServed = [x \in PbWorkers \X PbNodes |-> -1]
  /\ pbWrites = 0

(***************************************************************************)
(* Reading the beliefs.                                                     *)
(***************************************************************************)
\* Mutant: a row counts for as long as it is kept.
WarmRow_Kept(w, p) == <<w, p>> \in DOMAIN pbRows
WarmRow(w, p) == <<w, p>> \in DOMAIN pbRows /\ pbRows[<<w, p>>].last > pbNow - PbTTL

\* DeepestWarmPrefix: over the recorded chain alone.
DeepestWarmPrefix(w, j) == Max({0} \cup {PbDepth[p] : p \in {q \in Chained(j) : WarmRow(w, q)}})

\* warm_prefix_depth of the claim query: the chain, or 1 for the shallow legacy id.
WarmPrefixDepth(w, j) ==
  Max({DeepestWarmPrefix(w, j)} \cup {1 : p \in {q \in Named(j) \ Chained(j) : WarmRow(w, q)}})

(***************************************************************************)
(* observeAndMarkPrefixForCommit, after a task has completed: cached is what *)
(* the engine reported, PbNone when it reports nothing.                     *)
(***************************************************************************)
InTurn2(c) == \A d \in PbCommits : d < c => pbCommit[d].at # "new"

\* CorrectPrefixBeliefFromObservation reads what is believed before the serve counts.
Observe2(c, w, j, cached) ==
  /\ pbCommit[c].at = "new" /\ InTurn2(c)
  /\ pbCommit' = [pbCommit EXCEPT ![c] =
       [Fresh3 EXCEPT !.worker = w, !.job = j, !.cached = cached,
                      !.deepest = DeepestWarmPrefix(w, j),
                      !.at = IF cached = PbNone \/ DeepestWarmPrefix(w, j) = 0
                             THEN "mark" ELSE "correct"]]
  /\ UNCHANGED <<pbNow, pbRows, pbPrune, pbServed, pbWrites>>

\* confirmPrefixBelief: the rows of the chain that are still warm.
Confirmed(w, j) == {x \in DOMAIN pbRows : x[1] = w /\ x[2] \in Chained(j) /\ WarmRow(w, x[2])}

\* invalidatePrefixBelief: every row of the chain, warm or not, and the shallow legacy one.
Invalidated2(w, j) == {x \in DOMAIN pbRows : x[1] = w /\ x[2] \in Named(j)}

Bumped(row) == [row EXCEPT !.last = pbNow, !.hits = Min({PbMaxHits, @ + 1})]

Correct(c) ==
  LET w == pbCommit[c].worker
      j == pbCommit[c].job
      hit == pbCommit[c].cached > 0
  IN  /\ pbCommit[c].at = "correct"
      /\ pbRows' = IF hit THEN [x \in DOMAIN pbRows |-> IF x \in Confirmed(w, j) THEN Bumped(pbRows[x])
                                                        ELSE pbRows[x]]
                   ELSE [x \in DOMAIN pbRows \ Invalidated2(w, j) |-> pbRows[x]]
      /\ pbServed' = IF hit THEN [x \in DOMAIN pbServed |->
                                    IF x[1] = w /\ x[2] \in Chained(j) THEN pbNow ELSE pbServed[x]]
                     ELSE pbServed
      /\ UNCHANGED pbWrites
      /\ pbCommit' = [pbCommit EXCEPT ![c].at = "mark", ![c].missed = ~ hit,
                                           ![c].since = pbWrites]
      /\ UNCHANGED <<pbNow, pbPrune>>

\* markWorkerWarmForJob: one row after the other, shallow first; a job without a chain
\* has its legacy id recorded, without a depth.
ToMark(j) == IF PbChain[j] # <<>> THEN PbChain[j]
             ELSE IF PbLegacy[j] # PbNone THEN <<PbLegacy[j]>> ELSE <<>>
MarkWarm(c) ==
  LET w == pbCommit[c].worker
      j == pbCommit[c].job
      p == ToMark(j)[pbCommit[c].node]
      x == <<w, p>>
      depth == IF PbChain[j] # <<>> THEN PbDepth[p] ELSE 0
      more == pbCommit[c].node < Len(ToMark(j))
  IN  /\ pbCommit[c].at = "mark" /\ ToMark(j) # <<>>
      /\ pbRows' = [y \in DOMAIN pbRows \cup {x} |->
           IF y # x THEN pbRows[y]
           ELSE IF x \in DOMAIN pbRows
           THEN [Bumped(pbRows[x]) EXCEPT !.depth = Max({@, depth}), !.seq = pbWrites + 1]
           ELSE [last |-> pbNow, hits |-> 1, depth |-> depth, seq |-> pbWrites + 1]]
      /\ pbServed' = [pbServed EXCEPT ![x] = pbNow]
      /\ pbWrites' = pbWrites + 1
      /\ pbCommit' = [pbCommit EXCEPT ![c].at = IF more THEN "mark" ELSE "done", ![c].node = @ + 1]
      /\ UNCHANGED <<pbNow, pbPrune>>

\* The database is away, or the process ends: the rest of the bookkeeping is lost.
GiveUpLookup(c) ==
  /\ pbCommit[c].at \in {"correct", "mark"}
  /\ pbCommit' = [pbCommit EXCEPT ![c].at = IF @ = "correct" THEN "mark" ELSE "done"]
  /\ UNCHANGED <<pbNow, pbRows, pbPrune, pbServed, pbWrites>>

(***************************************************************************)
(* sweepStalePrefixState, by the leader.                                    *)
(***************************************************************************)

\* SweepStalePrefixState.
SweepStale ==
  /\ \E x \in DOMAIN pbRows : pbRows[x].last < pbNow - PbKeep
  /\ pbRows' = [x \in {y \in DOMAIN pbRows : pbRows[y].last >= pbNow - PbKeep} |-> pbRows[x]]
  /\ UNCHANGED <<pbNow, pbCommit, pbPrune, pbServed, pbWrites>>

\* PrefixCacheValue: hits halved for every TTL of age.  Cost and size both grow with the
\* depth and almost cancel, leaving it to break ties.
Bytes(row) == Max({1, row.depth})
Value(row) == row.hits * 2^(PbHorizon - (pbNow - row.last) \div PbTTL)
Cheaper(r, s) == Value(r) < Value(s) \/ (Value(r) = Value(s) /\ Bytes(r) < Bytes(s))

RowsOn(w) == {x \in DOMAIN pbRows : x[1] = w}
BytesOn(w) == FoldSet(LAMBDA x, n : n + Bytes(pbRows[x]), 0, RowsOn(w))

\* EvictPrefixCacheToBudget lists the worker's rows, the least valuable first; equal
\* ones come in any order.
ListRows(w) ==
  /\ pbPrune = NoPrune /\ BytesOn(w) > PbBudget
  /\ \E order \in SetToSeqs(RowsOn(w)) :
       /\ \A i, k \in 1..Len(order) : i < k => ~ Cheaper(pbRows[order[k]], pbRows[order[i]])
       /\ pbPrune' = [worker |-> w, total |-> BytesOn(w), writes |-> pbWrites,
                      listed |-> [i \in 1..Len(order) |->
                                    [row |-> order[i], bytes |-> Bytes(pbRows[order[i]])]]]
  /\ UNCHANGED <<pbNow, pbRows, pbCommit, pbServed, pbWrites>>

Fits(total) == total <= PbBudget

\* ... and removes them one by one until the rest fits.  A row somebody else removed
\* meanwhile is not counted.
EvictBelief ==
  LET next == Head(pbPrune.listed)
  IN  /\ pbPrune # NoPrune /\ pbPrune.listed # <<>> /\ ~ Fits(pbPrune.total)
      /\ pbRows' = [x \in DOMAIN pbRows \ {next.row} |-> pbRows[x]]
      /\ pbPrune' = [pbPrune EXCEPT !.listed = Tail(@),
                       !.total = IF next.row \in DOMAIN pbRows THEN @ - next.bytes ELSE @]
      /\ UNCHANGED <<pbNow, pbCommit, pbServed, pbWrites>>

PruneDone == pbPrune # NoPrune /\ (pbPrune.listed = <<>> \/ Fits(pbPrune.total))
NextWorker ==
  /\ PruneDone
  /\ pbPrune' = NoPrune
  /\ UNCHANGED <<pbNow, pbRows, pbCommit, pbServed, pbWrites>>

PbTick ==
  /\ pbNow < PbHorizon
  /\ pbNow' = pbNow + 1
  /\ UNCHANGED <<pbRows, pbCommit, pbPrune, pbServed, pbWrites>>

PbNext ==
  \/ PbTick \/ SweepStale \/ EvictBelief \/ NextWorker
  \/ \E w \in PbWorkers : ListRows(w)
  \/ \E c \in PbCommits :
       \/ Correct(c) \/ MarkWarm(c) \/ GiveUpLookup(c)
       \/ \E w \in PbWorkers : \E j \in PbJobs : \E cached \in {0, 1, PbNone} : Observe2(c, w, j, cached)

PbSpec == PbInit /\ [][PbNext]_pbVars

(***************************************************************************)
(* Properties                                                               *)
(***************************************************************************)

\* A worker ranks warm for a job only down to a prefix that a task completed there
\* within the TTL had as well: refreshing after a hit and marking after a serve never
\* extend a belief to prompts the worker has not seen (confirmPrefixBelief,
\* markWorkerWarmForJob, the claim query).
RankIsEarned ==
  \A w \in PbWorkers : \A j \in PbJobs :
    WarmPrefixDepth(w, j) > 0 =>
      \E p \in Named(j) : /\ pbServed[<<w, p>>] > pbNow - PbTTL /\ pbServed[<<w, p>>] >= 0
                          /\ PbDepth[p] >= WarmPrefixDepth(w, j)

\* After an engine reported a miss where a hit was believed, and before that serve is
\* recorded, no belief older than the correction is left on the prompt: other claims
\* find the worker cold unless a later serve warmed it (invalidatePrefixBelief,
\* observeAndMarkPrefixForCommit).
MissLeavesNothingOld ==
  \A c \in PbCommits :
    pbCommit[c].at = "mark" /\ pbCommit[c].node = 1 /\ pbCommit[c].missed =>
      \A p \in Named(pbCommit[c].job) :
        <<pbCommit[c].worker, p>> \in DOMAIN pbRows =>
          pbRows[<<pbCommit[c].worker, p>>].seq > pbCommit[c].since

\* When the pruner is through with a worker nobody served meanwhile, the beliefs about
\* it fit the budget, whatever was invalidated or swept under its feet
\* (EvictPrefixCacheToBudget).
PrunedFits ==
  PruneDone /\ pbPrune.writes = pbWrites => BytesOn(pbPrune.worker) <= PbBudget
=============================================================================
