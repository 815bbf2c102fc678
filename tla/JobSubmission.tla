---------------------------- MODULE JobSubmission ----------------------------
(***************************************************************************)
(* Submitting a job: handleCreateJob, createJob and SubmitJobTx.           *)
(*                                                                         *)
(* A submission carries an idempotency key; the job's identity is derived  *)
(* from buyer and key, and its objects live under that identity.  The      *)
(* handler looks for an earlier job of the key (LookUpReplay), tests the   *)
(* quote, pause and limits (Preflight), streams the input into the object  *)
(* store (Upload) and only then opens the transaction that accepts the job *)
(* (SubmitJobTx).  A failed submission removes what it stored (Discard).   *)
(* Clients retry, so several requests with one key run at once, with the   *)
(* same body or another one, and the server may crash between any two      *)
(* steps.                                                                  *)
(*                                                                         *)
(* One buyer, every job holds one unit of the buyer's money.  A body is a  *)
(* record: its quote flag, whether it is media (whose tasks read the job's *)
(* canonical input) or JSONL (whose tasks read chunk objects named by      *)
(* random task ids), and the verification it asks for.  Exact              *)
(* reuse of batch results is switched off by a compile-time constant and   *)
(* left out.                                                               *)
(***************************************************************************)
EXTENDS Integers, FiniteSets, FiniteSetTheorems, TLAPS

CONSTANTS
    JsCalls,      \* requests, numbers: a later one starts after an earlier one
    JsKeys,       \* idempotency keys
    JsBodies,     \* request bodies, records [id, quoted, media, verify]
    JsFunds,      \* jobs the buyer can pay for
    JsEpochs,     \* how often the activation policy changes
    JsNone

\* A body's id is its SHA-256 digest: no two bodies share one.
ASSUME SubmissionConstants ==
    /\ JsCalls \subseteq Nat /\ IsFiniteSet(JsKeys) /\ JsFunds \in Nat
    /\ JsNone \notin JsBodies /\ \A a, b \in JsBodies : a.id = b.id => a = b

VARIABLES
    jsJob,      \* key -> the job's row, NoRow before
    jsFunds,    \* units not held by a job
    jsStore,    \* the objects in the store
    jsCall,     \* call -> [pc, key, body, epoch, tasks, reply]
    jsEpoch,    \* revision of the activation policy
    jsExpired,  \* bodies whose quote has expired
    jsPaused    \* intake is paused by the operator

jsVars == <<jsJob, jsFunds, jsStore, jsCall, jsEpoch, jsExpired, jsPaused>>

NoRow == [call |-> 0, body |-> JsNone, input |-> JsNone, tasks |-> {}, epoch |-> 0,
          alive |-> FALSE]
NewCall == [pc |-> "new", key |-> JsNone, body |-> JsNone, epoch |-> 0, tasks |-> {},
            owned |-> {}, reply |-> "none"]

To(c, pc) == jsCall' = [jsCall EXCEPT ![c].pc = pc]
\* The call is answered, with nothing to clean up.
Reply(c, r) == jsCall' = [jsCall EXCEPT ![c].pc = "done", ![c].reply = r]
\* The call will be refused once its deferred cleanup has run.
Refuse(c, r) == jsCall' = [jsCall EXCEPT ![c].pc = "discard", ![c].reply = r]

\* Mutant: one namespace per job, whatever the body.
ObjectPrefix_PerJob(key, body) == <<key, JsNone>>

\* jobRequestObjectPrefix: conflicting bodies have namespaces of their own.
ObjectPrefix(key, body) == <<key, body.id>>

CanonicalInput(c) == <<"input", ObjectPrefix(jsCall[c].key, jsCall[c].body)>>

\* chunkKey: the task id is random, so no two calls build the same key.
ChunkObject(c) == <<"chunk", c>>

\* handleCreateJob.  Calls are symmetric: the first unused one arrives.
Arrive(c, key, body) ==
    /\ jsCall[c].pc = "new" /\ \A d \in JsCalls : d < c => jsCall[d].pc # "new"
    /\ jsCall' = [jsCall EXCEPT ![c].pc = "lookup", ![c].key = key, ![c].body = body]
    /\ UNCHANGED <<jsJob, jsFunds, jsStore, jsEpoch, jsExpired, jsPaused>>

\* JobSubmissionReplay, for a row that exists.
ReplayOf(c) ==
    IF jsJob[jsCall[c].key].body = jsCall[c].body THEN "replayed" ELSE "conflict"

LookUpReplay(c) ==
    /\ jsCall[c].pc = "lookup"
    /\ IF jsJob[jsCall[c].key] # NoRow THEN Reply(c, ReplayOf(c)) ELSE To(c, "preflight")
    /\ UNCHANGED <<jsJob, jsFunds, jsStore, jsEpoch, jsExpired, jsPaused>>

\* Normalization, canary limits, pause, billing, GetBindableQuote; the epoch of
\* the activation policy is captured before the pause is read.
Preflight(c) ==
    /\ jsCall[c].pc = "preflight"
    /\ IF jsPaused \/ jsCall[c].body \in jsExpired
       THEN Reply(c, "refused")
       ELSE jsCall' = [jsCall EXCEPT ![c].pc = "resolve", ![c].epoch = jsEpoch]
    /\ UNCHANGED <<jsJob, jsFunds, jsStore, jsEpoch, jsExpired, jsPaused>>

\* The price authority, the source object and its first bytes, the placement
\* and the split size: nothing is stored yet, and any of them may refuse.
ResolveInput(c) ==
    /\ jsCall[c].pc = "resolve"
    /\ To(c, "upload") \/ Reply(c, "refused")
    /\ UNCHANGED <<jsJob, jsFunds, jsStore, jsEpoch, jsExpired, jsPaused>>

\* streamMediaAndUpload: the tasks read the canonical object itself.
MediaTasks(c) == {CanonicalInput(c)}
\* streamSplitAndUpload.
ChunkTasks(c) == {ChunkObject(c)}

TaskObjects(c) == IF jsCall[c].body.media THEN MediaTasks(c) ELSE ChunkTasks(c)

\* The canonical input and the tasks' inputs are stored.
Upload(c) ==
    /\ jsCall[c].pc = "upload"
    /\ jsStore' = jsStore \cup {CanonicalInput(c)} \cup TaskObjects(c)
    /\ jsCall' = [jsCall EXCEPT ![c].pc = "plan", ![c].tasks = TaskObjects(c),
                                ![c].owned = {CanonicalInput(c)}]
    /\ UNCHANGED <<jsJob, jsFunds, jsEpoch, jsExpired, jsPaused>>

\* A record that does not parse: the chunks so far are known to the cleanup.
\* A failed put: the task list is dropped with the error.
UploadFails(c) ==
    /\ jsCall[c].pc = "upload"
    /\ jsStore' = jsStore \cup {CanonicalInput(c)} \cup TaskObjects(c)
    /\ \E tasks \in {TaskObjects(c), {}} :
          jsCall' = [jsCall EXCEPT ![c].pc = "discard", ![c].reply = "refused",
                        ![c].tasks = tasks, ![c].owned = {CanonicalInput(c)}]
    /\ UNCHANGED <<jsJob, jsFunds, jsEpoch, jsExpired, jsPaused>>

\* The workload that was streamed is classified; a bound quote has to cover its
\* bytes, its records and its placement.
ClassifyWorkload(c) ==
    /\ jsCall[c].pc = "plan"
    /\ To(c, "expand") \/ Refuse(c, "refused")
    /\ UNCHANGED <<jsJob, jsFunds, jsStore, jsEpoch, jsExpired, jsPaused>>

\* A single media object is copied even when no copy is asked for.
HasCopy(body) == body.media \/ body.verify = "copy"

\* Media takes no honeypot of its own, but a body that asks for no verification is
\* given one by the floor, whatever its kind.
HasHoneypot(body) == body.verify = "none" \/ (body.verify = "probe" /\ ~body.media)

\* validateCurrentUniformTaskCounts, for the one primary of a request.
OneTaskShape(body) == HasCopy(body) /\ ~HasHoneypot(body)

\* A copy reads its primary's input, so the expansion stores nothing.
ExpandVerification(c) ==
    /\ jsCall[c].pc = "expand"
    /\ IF OneTaskShape(jsCall[c].body) THEN To(c, "freeze") ELSE Refuse(c, "refused")
    /\ UNCHANGED <<jsJob, jsFunds, jsStore, jsEpoch, jsExpired, jsPaused>>

\* The economic, the compute and the pricing plan and the task-economic proof:
\* any of them may refuse the request.
FreezePlans(c) ==
    /\ jsCall[c].pc = "freeze"
    /\ To(c, "submit") \/ Refuse(c, "refused")
    /\ UNCHANGED <<jsJob, jsFunds, jsStore, jsEpoch, jsExpired, jsPaused>>

\* guardActivationAdmissionTx.
GuardActivation(c) == jsCall[c].epoch = jsEpoch

\* reservePrepaidForJobTx, reserveFreeCreditForJobTx.
Reservable == jsFunds > 0

\* The bound quote's row, read at clock_timestamp() after the locks.
QuoteBinds(c) == jsCall[c].body.quoted => jsCall[c].body \notin jsExpired

\* The row that INSERT INTO jobs and the task copy leave.
RowFor(c) ==
    [call |-> c, body |-> jsCall[c].body, input |-> CanonicalInput(c),
     tasks |-> jsCall[c].tasks, epoch |-> jsEpoch,
     alive |-> jsCall[c].body \notin jsExpired]

Inserts(c) ==
    /\ jsJob' = [jsJob EXCEPT ![jsCall[c].key] = RowFor(c)]
    /\ jsFunds' = jsFunds - 1
    /\ Reply(c, "accepted")

\* The unique index on buyer and key: the cleanup is switched off.
Collides(c) == To(c, "collided") /\ UNCHANGED <<jsJob, jsFunds>>

\* One transaction: the checks in the code's order, then the insertion.
SubmitJobTx(c) ==
    /\ jsCall[c].pc = "submit"
    /\ IF ~(GuardActivation(c) /\ Reservable /\ QuoteBinds(c))
       THEN Refuse(c, "refused") /\ UNCHANGED <<jsJob, jsFunds>>
       ELSE IF jsJob[jsCall[c].key] # NoRow THEN Collides(c)
       ELSE Inserts(c)
    /\ UNCHANGED <<jsStore, jsEpoch, jsExpired, jsPaused>>

\* The second JobSubmissionReplay, for the winner's row.
AnswerLoser(c) ==
    /\ jsCall[c].pc = "collided"
    /\ Reply(c, ReplayOf(c))
    /\ UNCHANGED <<jsJob, jsFunds, jsStore, jsEpoch, jsExpired, jsPaused>>

\* The keys this call built.
Discarded(c) == jsCall[c].owned \cup jsCall[c].tasks

\* discardOrphanedJobObjects, in the deferred function of createJob; best effort.
Discard(c) ==
    /\ jsCall[c].pc = "discard"
    /\ jsStore' = jsStore \ Discarded(c)
    /\ To(c, "done")
    /\ UNCHANGED <<jsJob, jsFunds, jsEpoch, jsExpired, jsPaused>>

\* The server stops: the client sees no answer, stored objects stay.
JsCrash(c) ==
    /\ jsCall[c].pc \notin {"new", "done"}
    /\ jsCall' = [jsCall EXCEPT ![c].pc = "done", ![c].reply = "lost"]
    /\ UNCHANGED <<jsJob, jsFunds, jsStore, jsEpoch, jsExpired, jsPaused>>

ChangePolicy ==
    /\ jsEpoch < JsEpochs /\ jsEpoch' = jsEpoch + 1
    /\ UNCHANGED <<jsJob, jsFunds, jsStore, jsCall, jsExpired, jsPaused>>

QuoteExpires(b) ==
    /\ b.quoted /\ jsExpired' = jsExpired \cup {b}
    /\ UNCHANGED <<jsJob, jsFunds, jsStore, jsCall, jsEpoch, jsPaused>>

PauseIntake ==
    /\ ~jsPaused /\ jsPaused' = TRUE
    /\ UNCHANGED <<jsJob, jsFunds, jsStore, jsCall, jsEpoch, jsExpired>>

JsInit ==
    /\ jsJob = [k \in JsKeys |-> NoRow]
    /\ jsFunds = JsFunds
    /\ jsStore = {}
    /\ jsCall = [c \in JsCalls |-> NewCall]
    /\ jsEpoch = 1
    /\ jsExpired = {}
    /\ jsPaused = FALSE

Handle(c) ==
    \/ LookUpReplay(c) \/ Preflight(c) \/ ResolveInput(c) \/ Upload(c) \/ UploadFails(c)
    \/ ClassifyWorkload(c) \/ ExpandVerification(c) \/ FreezePlans(c)
    \/ SubmitJobTx(c) \/ AnswerLoser(c) \/ Discard(c)

JsNext ==
    \/ \E c \in JsCalls :
        \/ \E k \in JsKeys, b \in JsBodies : Arrive(c, k, b)
        \/ Handle(c) \/ JsCrash(c)
    \/ ChangePolicy \/ PauseIntake
    \/ \E b \in JsBodies : QuoteExpires(b)

JsSpec == JsInit /\ [][JsNext]_jsVars

(***************************************************************************)
(* Properties.                                                             *)
(***************************************************************************)
JsRows == {k \in JsKeys : jsJob[k] # NoRow}

\* Another call ran with the same key and body and was refused.
RefusedTwin(k) ==
    \E c \in JsCalls :
        /\ c # jsJob[k].call
        /\ jsCall[c].key = k /\ jsCall[c].body = jsJob[k].body
        /\ jsCall[c].pc = "done" /\ jsCall[c].reply = "refused"

\* Whatever is refused around it, an accepted job can read its input: a request
\* with another body, another key or a crash takes nothing from it.  A refused twin,
\* the same key with the same body, does: both calls derive one job id and one input
\* key, and a twin refused before the insertion discards the input of the accepted
\* job (discardOrphanedJobObjects).  Its task inputs stay.
AcceptedInputsKept ==
    \A k \in JsRows :
        /\ jsJob[k].tasks \ {jsJob[k].input} \subseteq jsStore
        /\ ~RefusedTwin(k) => jsJob[k].input \in jsStore

\* Concurrent retries submit one job and hold its price once.
HeldOncePerJob == jsFunds = JsFunds - Cardinality(JsRows) /\ jsFunds >= 0

\* A call that is told of a job is told of the one it asked for, however the
\* lookup, the insertion and the loser's second lookup interleave.
AnswersMatchRequest ==
    \A c \in JsCalls : jsCall[c].reply \in {"accepted", "replayed"} =>
        jsJob[jsCall[c].key].body = jsCall[c].body

\* A slow upload cannot carry an expired quote into a job.
QuoteAliveAtAcceptance ==
    \A k \in JsRows : jsJob[k].body.quoted => jsJob[k].alive

\* A policy change during the upload is seen: the plans of an accepted job were
\* made under the policy in force when it was accepted.
AcceptedUnderCurrentPolicy ==
    \A k \in JsRows : jsJob[k].epoch = jsCall[jsJob[k].call].epoch

\* A refused call whose upload completed leaves none of its task inputs behind.
RefusedLeavesNoTasks ==
    \A c \in JsCalls :
        jsCall[c].pc = "done" /\ jsCall[c].reply = "refused" /\ jsCall[c].tasks # {}
            => ChunkObject(c) \notin jsStore

\* Retries, twins and crashes of a submission leave one job that was paid for once, was
\* accepted on what held at that moment, and keeps its task inputs and, unless a twin
\* is refused, its input.
SubmittedOnce ==
    /\ AcceptedInputsKept /\ HeldOncePerJob /\ AnswersMatchRequest
    /\ QuoteAliveAtAcceptance /\ AcceptedUnderCurrentPolicy /\ RefusedLeavesNoTasks

-----------------------------------------------------------------------------
(* Proofs, for every number of requests, keys, bodies and units of money.     *)

USE ZenonT(100)

JsEarly == {"new", "lookup", "preflight", "resolve", "upload"}
JsHeld == {"plan", "expand", "freeze", "submit"}
JsPcs == JsEarly \cup JsHeld \cup {"collided", "discard", "done"}
JsReplies == {"none", "accepted", "replayed", "conflict", "refused", "lost"}
JsObjects == ({"input"} \X (JsKeys \X {b.id : b \in JsBodies})) \cup ({"chunk"} \X JsCalls)
JsSets == SUBSET JsObjects
JsRec == [pc : JsPcs, key : JsKeys \cup {JsNone}, body : JsBodies \cup {JsNone}, epoch : Nat,
          tasks : JsSets, owned : JsSets, reply : JsReplies]

\* A refused call with the key and the body of another call.
JsTwin(c, d) ==
  /\ d # c /\ jsCall[d].key = jsCall[c].key /\ jsCall[d].body = jsCall[c].body
  /\ jsCall[d].pc = "done" /\ jsCall[d].reply = "refused"
JsInputKept(c) == CanonicalInput(c) \in jsStore \/ \E d \in JsCalls : JsTwin(c, d)

\* How far a call is, and what it has stored.
JsPlace(c) ==
  /\ jsCall[c].pc # "new" => jsCall[c].key \in JsKeys /\ jsCall[c].body \in JsBodies
  /\ jsCall[c].pc \in JsEarly => jsCall[c].tasks = {} /\ jsCall[c].owned = {}
  /\ jsCall[c].pc \notin {"discard", "done"} => jsCall[c].reply = "none"
  /\ jsCall[c].pc = "discard" => jsCall[c].reply = "refused"
  /\ jsCall[c].tasks = {} \/ jsCall[c].tasks = TaskObjects(c)
  /\ jsCall[c].owned = {} \/ jsCall[c].owned = {CanonicalInput(c)}
  /\ jsCall[c].pc \in JsHeld \/ jsCall[c].reply = "accepted" => jsCall[c].tasks = TaskObjects(c)

\* The chunk of a call is stored after its upload and until its cleanup.
JsChunkInv(c) ==
  /\ jsCall[c].pc \in JsEarly \/ jsCall[c].body.media => ChunkObject(c) \notin jsStore
  /\ jsCall[c].pc \in JsHeld \/ jsCall[c].reply = "accepted" =>
       jsCall[c].body.media \/ ChunkObject(c) \in jsStore
  /\ jsCall[c].pc = "done" /\ jsCall[c].reply = "refused" /\ jsCall[c].tasks # {} =>
       ChunkObject(c) \notin jsStore

\* The canonical input is there unless a twin's cleanup took it.
JsInputInv(c) == jsCall[c].pc \in JsHeld \/ jsCall[c].reply = "accepted" => JsInputKept(c)

JsAnswerInv(c) ==
  jsCall[c].reply \in {"accepted", "replayed"} => jsJob[jsCall[c].key].body = jsCall[c].body

\* A row is what its call was accepted with.
JsRowInv(k) ==
  jsJob[k] # NoRow =>
    /\ jsJob[k].call \in JsCalls /\ jsCall[jsJob[k].call].pc = "done"
    /\ jsCall[jsJob[k].call].reply = "accepted"
    /\ jsCall[jsJob[k].call].key = k /\ jsCall[jsJob[k].call].body = jsJob[k].body
    /\ jsJob[k].tasks = TaskObjects(jsJob[k].call)
    /\ jsJob[k].input = CanonicalInput(jsJob[k].call)
    /\ jsJob[k].epoch = jsCall[jsJob[k].call].epoch
    /\ jsJob[k].body.quoted => jsJob[k].alive

JsFundInv == jsFunds \in Nat /\ jsFunds = JsFunds - Cardinality(JsRows)

JsInv ==
  /\ jsCall \in [JsCalls -> JsRec] /\ jsEpoch \in Nat
  /\ jsJob = [k \in JsKeys |-> jsJob[k]]
  /\ \A c \in JsCalls : JsPlace(c) /\ JsChunkInv(c) /\ JsInputInv(c) /\ JsAnswerInv(c)
  /\ \A k \in JsKeys : JsRowInv(k)
  /\ JsFundInv

\* One call moves to another place with an answer and keeps the rest.
JsMoved(c, pc, reply) ==
  /\ jsCall' \in [JsCalls -> JsRec]
  /\ \A d \in JsCalls : d # c => jsCall'[d] = jsCall[d]
  /\ jsCall'[c].pc = pc /\ jsCall'[c].reply = reply
  /\ jsCall'[c].key = jsCall[c].key /\ jsCall'[c].body = jsCall[c].body
  /\ jsCall'[c].tasks = jsCall[c].tasks /\ jsCall'[c].owned = jsCall[c].owned

LEMMA JsToMoves ==
  ASSUME jsCall \in [JsCalls -> JsRec], NEW c \in JsCalls, NEW pc \in JsPcs, To(c, pc)
  PROVE  JsMoved(c, pc, jsCall[c].reply)
<1>1. jsCall' = [jsCall EXCEPT ![c].pc = pc]  BY DEF To
<1>2. jsCall[c] \in JsRec /\ jsCall'[c] = [jsCall[c] EXCEPT !.pc = pc]  BY <1>1
<1>3. \A d \in JsCalls : d # c => jsCall'[d] = jsCall[d]  BY <1>1
<1>4. jsCall' \in [JsCalls -> JsRec]  BY <1>1 DEF JsRec
<1>5. jsCall'[c].pc = pc  BY <1>2, SMTT(20) DEF JsRec
<1>6. jsCall'[c].reply = jsCall[c].reply  BY <1>2 DEF JsRec
<1>7. jsCall'[c].key = jsCall[c].key  BY <1>2 DEF JsRec
<1>8. jsCall'[c].body = jsCall[c].body  BY <1>2 DEF JsRec
<1>9. jsCall'[c].tasks = jsCall[c].tasks  BY <1>2 DEF JsRec
<1>10. jsCall'[c].owned = jsCall[c].owned  BY <1>2 DEF JsRec
<1> QED BY <1>3, <1>4, <1>5, <1>6, <1>7, <1>8, <1>9, <1>10 DEF JsMoved

LEMMA JsReplyMoves ==
  ASSUME jsCall \in [JsCalls -> JsRec], NEW c \in JsCalls, NEW pc \in JsPcs, NEW r \in JsReplies,
         jsCall' = [jsCall EXCEPT ![c].pc = pc, ![c].reply = r]
  PROVE  JsMoved(c, pc, r) /\ jsCall'[c].epoch = jsCall[c].epoch
<1>2. jsCall[c] \in JsRec /\ jsCall'[c] = [jsCall[c] EXCEPT !.pc = pc, !.reply = r]  OBVIOUS
<1>3. \A d \in JsCalls : d # c => jsCall'[d] = jsCall[d]  OBVIOUS
<1>4. jsCall' \in [JsCalls -> JsRec]  BY DEF JsRec
<1>5. jsCall'[c].pc = pc  BY <1>2, SMTT(20) DEF JsRec
<1>6. jsCall'[c].reply = r  BY <1>2, SMTT(20) DEF JsRec
<1>7. jsCall'[c].key = jsCall[c].key  BY <1>2 DEF JsRec
<1>8. jsCall'[c].body = jsCall[c].body  BY <1>2 DEF JsRec
<1>9. jsCall'[c].epoch = jsCall[c].epoch  BY <1>2 DEF JsRec
<1>10. jsCall'[c].tasks = jsCall[c].tasks  BY <1>2 DEF JsRec
<1>11. jsCall'[c].owned = jsCall[c].owned  BY <1>2 DEF JsRec
<1> QED BY <1>3, <1>4, <1>5, <1>6, <1>7, <1>8, <1>9, <1>10, <1>11 DEF JsMoved

\* The record of a call that arrives, and of one that has uploaded.
JsArrived(old, pc, k, b) == [old EXCEPT !.pc = pc, !.key = k, !.body = b]
JsUploaded(old, pc, r, tasks, owned) ==
  [old EXCEPT !.pc = pc, !.reply = r, !.tasks = tasks, !.owned = owned]

LEMMA JsArriveRec ==
  ASSUME NEW old \in JsRec, NEW pc \in JsPcs, NEW k \in JsKeys, NEW b \in JsBodies, NEW new,
         new = JsArrived(old, pc, k, b)
  PROVE  /\ new \in JsRec /\ new.pc = pc /\ new.key = k /\ new.body = b
         /\ new.reply = old.reply /\ new.tasks = old.tasks /\ new.owned = old.owned
<1>1. new \in JsRec  BY DEF JsRec, JsArrived
<1>2. new.pc = pc /\ new.key = k /\ new.body = b  BY SMTT(20) DEF JsRec, JsArrived
<1>3. new.reply = old.reply /\ new.tasks = old.tasks /\ new.owned = old.owned
  BY DEF JsRec, JsArrived
<1> QED BY <1>1, <1>2, <1>3

LEMMA JsUploadRec ==
  ASSUME NEW old \in JsRec, NEW pc \in JsPcs, NEW r \in JsReplies, NEW tasks \in JsSets,
         NEW owned \in JsSets, NEW new,
         new = JsUploaded(old, pc, r, tasks, owned)
  PROVE  /\ new \in JsRec /\ new.pc = pc /\ new.reply = r /\ new.tasks = tasks
         /\ new.owned = owned /\ new.key = old.key /\ new.body = old.body
<1>1. new \in JsRec  BY DEF JsRec, JsUploaded
<1>2. new.pc = pc /\ new.reply = r  BY SMTT(20) DEF JsRec, JsUploaded
<1>3. new.tasks = tasks /\ new.owned = owned  BY SMTT(20) DEF JsRec, JsUploaded
<1>4. new.key = old.key /\ new.body = old.body  BY DEF JsRec, JsUploaded
<1> QED BY <1>1, <1>2, <1>3, <1>4

\* Keys are tagged, and an input's key tells its namespace.
LEMMA JsKeysApart ==
  /\ \A c, d : CanonicalInput(c) # ChunkObject(d)
  /\ \A c, d : ChunkObject(c) = ChunkObject(d) => c = d
  /\ \A c, d : CanonicalInput(c) = CanonicalInput(d) =>
       jsCall[c].key = jsCall[d].key /\ jsCall[c].body.id = jsCall[d].body.id
BY SMTT(20) DEF CanonicalInput, ChunkObject, ObjectPrefix

\* A call's objects depend on its key and body only.
LEMMA JsSameObjects ==
  ASSUME NEW c, jsCall'[c].key = jsCall[c].key, jsCall'[c].body = jsCall[c].body
  PROVE  CanonicalInput(c)' = CanonicalInput(c) /\ TaskObjects(c)' = TaskObjects(c)
<1>1. CanonicalInput(c)' = CanonicalInput(c)  BY DEF CanonicalInput, ObjectPrefix
<1> QED BY <1>1 DEF TaskObjects, MediaTasks, ChunkTasks, ChunkObject

\* The other calls are as they were when a step leaves their objects and rows.
LEMMA JsOthers ==
  ASSUME JsInv, NEW c \in JsCalls, NEW d \in JsCalls, d # c,
         \A e \in JsCalls : e # c => jsCall'[e] = jsCall[e],
         jsCall[c].pc # "done",
         ChunkObject(d) \in jsStore' <=> ChunkObject(d) \in jsStore,
         jsCall[d].pc # "new" /\ CanonicalInput(d) \in jsStore => JsInputKept(d)',
         jsCall[d].reply \in {"accepted", "replayed"} =>
           jsJob'[jsCall[d].key] = jsJob[jsCall[d].key]
  PROVE  JsPlace(d)' /\ JsChunkInv(d)' /\ JsInputInv(d)' /\ JsAnswerInv(d)'
<1>1. jsCall'[d] = jsCall[d]  OBVIOUS
<1>2. CanonicalInput(d)' = CanonicalInput(d) /\ TaskObjects(d)' = TaskObjects(d)
  BY <1>1, JsSameObjects
<1>3. JsPlace(d) /\ JsChunkInv(d) /\ JsInputInv(d) /\ JsAnswerInv(d)  BY DEF JsInv
<1>4. JsPlace(d)'  BY <1>1, <1>2, <1>3 DEF JsPlace
<1>5. JsChunkInv(d)'  BY <1>1, <1>3 DEF JsChunkInv, ChunkObject
<1>6. JsAnswerInv(d)'  BY <1>1, <1>3 DEF JsAnswerInv
<1>7. \A x \in JsCalls : JsTwin(d, x) => JsTwin(d, x)'
  BY <1>1 DEF JsTwin
<1>8. jsCall[d].pc # "new" /\ JsInputKept(d) => JsInputKept(d)'  BY <1>7 DEF JsInputKept
<1>9. jsCall[d].pc \in JsHeld \/ jsCall[d].reply = "accepted" => jsCall[d].pc # "new"
  BY <1>3 DEF JsPlace, JsHeld
<1>10. JsInputInv(d)'  BY <1>1, <1>3, <1>8, <1>9 DEF JsInputInv
<1> QED BY <1>4, <1>5, <1>6, <1>10

\* In particular, a step that leaves rows and store alone.
LEMMA JsOthersQuiet ==
  ASSUME JsInv, NEW c \in JsCalls, NEW d \in JsCalls, d # c,
         \A e \in JsCalls : e # c => jsCall'[e] = jsCall[e],
         jsCall[c].pc # "done", jsStore' = jsStore, jsJob' = jsJob
  PROVE  JsPlace(d)' /\ JsChunkInv(d)' /\ JsInputInv(d)' /\ JsAnswerInv(d)'
<1>1. CanonicalInput(d)' = CanonicalInput(d)  BY JsSameObjects
<1>2. CanonicalInput(d) \in jsStore => JsInputKept(d)'  BY <1>1 DEF JsInputKept
<1> QED BY <1>2, JsOthers

\* The rows that are there stay true: their calls are over.
LEMMA JsRowsStay ==
  ASSUME JsInv, NEW c \in JsCalls, NEW k \in JsKeys, jsJob'[k] = jsJob[k],
         \A e \in JsCalls : e # c => jsCall'[e] = jsCall[e],
         jsCall[c].pc # "done"
  PROVE  JsRowInv(k)'
<1> DEFINE x == jsJob[k].call
<1>1. NoRow' = NoRow  BY DEF NoRow
<1> SUFFICES ASSUME jsJob[k] # NoRow  PROVE JsRowInv(k)'
  BY <1>1 DEF JsRowInv
<1>2. JsRowInv(k)  BY DEF JsInv
<1>3. x \in JsCalls /\ x # c /\ jsCall'[x] = jsCall[x]  BY <1>2 DEF JsRowInv
<1>4. CanonicalInput(x)' = CanonicalInput(x) /\ TaskObjects(x)' = TaskObjects(x)
  BY <1>3, JsSameObjects
<1>5. jsJob'[k].call = x  OBVIOUS
<1>6. /\ jsJob'[k].tasks = TaskObjects(x)' /\ jsJob'[k].input = CanonicalInput(x)'
  BY <1>2, <1>4 DEF JsRowInv
<1>7. (TaskObjects(jsJob[k].call))' = TaskObjects(x)' /\ (CanonicalInput(jsJob[k].call))' = CanonicalInput(x)'
  BY <1>5
<1> QED BY <1>2, <1>3, <1>5, <1>6, <1>7 DEF JsRowInv

LEMMA JsFundsStay ==
  ASSUME JsFundInv, jsJob' = jsJob, jsFunds' = jsFunds
  PROVE  JsFundInv'
BY DEF JsFundInv, JsRows, NoRow

\* A step of one call that leaves rows, funds and store alone.
LEMMA JsQuiet ==
  ASSUME JsInv, NEW c \in JsCalls, NEW pc \in JsPcs, NEW r \in JsReplies, JsMoved(c, pc, r),
         jsCall[c].pc \notin {"new", "done"}, pc # "new",
         pc \in JsEarly => jsCall[c].pc \in JsEarly,
         pc \in JsHeld => jsCall[c].pc \in JsHeld,
         pc \notin {"discard", "done"} => r = "none",
         pc = "discard" => r = "refused",
         pc = "done" /\ r = "refused" => jsCall[c].pc \in JsEarly,
         r # "accepted",
         r = "replayed" => jsJob[jsCall[c].key].body = jsCall[c].body,
         jsJob' = jsJob, jsFunds' = jsFunds, jsStore' = jsStore, jsEpoch' = jsEpoch
  PROVE  JsInv'
<1>1. \A e \in JsCalls : e # c => jsCall'[e] = jsCall[e]  BY DEF JsMoved
<1>2. /\ jsCall'[c].pc = pc /\ jsCall'[c].reply = r
      /\ jsCall'[c].key = jsCall[c].key /\ jsCall'[c].body = jsCall[c].body
      /\ jsCall'[c].tasks = jsCall[c].tasks /\ jsCall'[c].owned = jsCall[c].owned
  BY DEF JsMoved
<1>3. CanonicalInput(c)' = CanonicalInput(c) /\ TaskObjects(c)' = TaskObjects(c)
  BY <1>2, JsSameObjects
<1>4. JsPlace(c) /\ JsChunkInv(c) /\ JsInputInv(c) /\ JsAnswerInv(c)  BY DEF JsInv
<1>5. JsPlace(c)'
  <2>1. jsCall'[c].pc # "new" => jsCall'[c].key \in JsKeys /\ jsCall'[c].body \in JsBodies
    BY <1>2, <1>4 DEF JsPlace
  <2>2. jsCall'[c].pc \in JsEarly => jsCall'[c].tasks = {} /\ jsCall'[c].owned = {}
    BY <1>2, <1>4 DEF JsPlace
  <2>3. /\ jsCall'[c].tasks = {} \/ jsCall'[c].tasks = TaskObjects(c)'
        /\ jsCall'[c].owned = {} \/ jsCall'[c].owned = {CanonicalInput(c)'}
    BY <1>2, <1>3, <1>4 DEF JsPlace
  <2>4. jsCall'[c].pc \in JsHeld \/ jsCall'[c].reply = "accepted" => jsCall'[c].tasks = TaskObjects(c)'
    BY <1>2, <1>3, <1>4 DEF JsPlace
  <2> QED BY <1>2, <2>1, <2>2, <2>3, <2>4 DEF JsPlace
<1>6. JsChunkInv(c)'
  <2>1. jsCall'[c].pc \in JsEarly \/ jsCall'[c].body.media => ChunkObject(c) \notin jsStore'
    BY <1>2, <1>4 DEF JsChunkInv
  <2>2. jsCall'[c].pc \in JsHeld \/ jsCall'[c].reply = "accepted" =>
          jsCall'[c].body.media \/ ChunkObject(c) \in jsStore'
    BY <1>2, <1>4 DEF JsChunkInv
  <2>3. ~(jsCall'[c].pc = "done" /\ jsCall'[c].reply = "refused" /\ jsCall'[c].tasks # {})
    BY <1>2, <1>4 DEF JsPlace
  <2> QED BY <2>1, <2>2, <2>3 DEF JsChunkInv, ChunkObject
<1>7. \A x \in JsCalls : JsTwin(c, x) => JsTwin(c, x)'
  BY <1>1, <1>2 DEF JsTwin
<1>8. JsInputKept(c) => JsInputKept(c)'  BY <1>3, <1>7 DEF JsInputKept
<1>9. JsInputInv(c)'  BY <1>2, <1>4, <1>8 DEF JsInputInv
<1>10. JsAnswerInv(c)'  BY <1>2, <1>4 DEF JsAnswerInv
<1>11. \A d \in JsCalls : JsPlace(d)' /\ JsChunkInv(d)' /\ JsInputInv(d)' /\ JsAnswerInv(d)'
  BY <1>1, <1>5, <1>6, <1>9, <1>10, JsOthersQuiet
<1>12. \A k \in JsKeys : JsRowInv(k)'  BY <1>1, JsRowsStay
<1>13. JsFundInv'  BY JsFundsStay DEF JsInv
<1>14. jsCall' \in [JsCalls -> JsRec]  BY DEF JsMoved
<1> QED BY <1>11, <1>12, <1>13, <1>14 DEF JsInv

LEMMA JsLookUp ==
  ASSUME JsInv, NEW c \in JsCalls, LookUpReplay(c)
  PROVE  JsInv'
<1>1. jsCall \in [JsCalls -> JsRec] /\ jsCall[c].pc = "lookup" /\ jsCall[c].reply = "none"
  BY DEF JsInv, LookUpReplay, JsPlace
<1>2. jsJob' = jsJob /\ jsFunds' = jsFunds /\ jsStore' = jsStore /\ jsEpoch' = jsEpoch
  BY DEF LookUpReplay
<1>3. CASE Reply(c, ReplayOf(c))
  <2>1. ReplayOf(c) \in {"replayed", "conflict"}
        /\ (ReplayOf(c) = "replayed" => jsJob[jsCall[c].key].body = jsCall[c].body)
    BY DEF ReplayOf
  <2>2. JsMoved(c, "done", ReplayOf(c))
    BY <1>1, <1>3, <2>1, JsReplyMoves DEF Reply, JsPcs, JsReplies
  <2> QED BY <1>1, <1>2, <2>1, <2>2, JsQuiet DEF JsPcs, JsReplies, JsEarly, JsHeld
<1>4. CASE To(c, "preflight")
  <2>1. JsMoved(c, "preflight", "none")  BY <1>1, <1>4, JsToMoves DEF JsPcs, JsEarly
  <2> QED BY <1>1, <1>2, <2>1, JsQuiet DEF JsPcs, JsReplies, JsEarly, JsHeld
<1> QED BY <1>3, <1>4 DEF LookUpReplay

LEMMA JsResolve ==
  ASSUME JsInv, NEW c \in JsCalls, ResolveInput(c)
  PROVE  JsInv'
<1>1. jsCall \in [JsCalls -> JsRec] /\ jsCall[c].pc = "resolve" /\ jsCall[c].reply = "none"
  BY DEF JsInv, ResolveInput, JsPlace
<1>2. jsJob' = jsJob /\ jsFunds' = jsFunds /\ jsStore' = jsStore /\ jsEpoch' = jsEpoch
  BY DEF ResolveInput
<1>3. CASE Reply(c, "refused")
  <2>1. JsMoved(c, "done", "refused")  BY <1>1, <1>3, JsReplyMoves DEF Reply, JsPcs, JsReplies
  <2> QED BY <1>1, <1>2, <2>1, JsQuiet DEF JsPcs, JsReplies, JsEarly, JsHeld
<1>4. CASE To(c, "upload")
  <2>1. JsMoved(c, "upload", "none")  BY <1>1, <1>4, JsToMoves DEF JsPcs, JsEarly
  <2> QED BY <1>1, <1>2, <2>1, JsQuiet DEF JsPcs, JsReplies, JsEarly, JsHeld
<1> QED BY <1>3, <1>4 DEF ResolveInput

\* A call whose objects are stored goes on or is refused.
LEMMA JsGoesOn ==
  ASSUME JsInv, NEW c \in JsCalls, NEW pc \in JsHeld \cup {"collided"},
         jsCall[c].pc \in JsHeld, To(c, pc) \/ Refuse(c, "refused"),
         jsJob' = jsJob, jsFunds' = jsFunds, jsStore' = jsStore, jsEpoch' = jsEpoch
  PROVE  JsInv'
<1>1. jsCall \in [JsCalls -> JsRec] /\ jsCall[c].reply = "none"
  BY DEF JsInv, JsPlace, JsHeld
<1>2. CASE Refuse(c, "refused")
  <2>1. JsMoved(c, "discard", "refused")  BY <1>1, <1>2, JsReplyMoves DEF Refuse, JsPcs, JsReplies
  <2> QED BY <1>1, <2>1, JsQuiet DEF JsPcs, JsReplies, JsEarly, JsHeld
<1>3. CASE To(c, pc)
  <2>1. pc \in JsPcs /\ pc \notin JsEarly \cup {"discard", "done"}  BY DEF JsPcs, JsHeld, JsEarly
  <2>2. JsMoved(c, pc, "none")  BY <1>1, <1>3, <2>1, JsToMoves
  <2>3. jsCall[c].pc \notin {"new", "done"} /\ "none" \in JsReplies /\ "new" \in JsEarly
    BY DEF JsHeld, JsReplies, JsEarly
  <2> QED BY <2>1, <2>2, <2>3, JsQuiet
<1> QED BY <1>2, <1>3

LEMMA JsAnswer ==
  ASSUME JsInv, NEW c \in JsCalls, AnswerLoser(c)
  PROVE  JsInv'
<1>1. jsCall \in [JsCalls -> JsRec] /\ jsCall[c].pc = "collided"
  BY DEF JsInv, AnswerLoser
<1>2. jsJob' = jsJob /\ jsFunds' = jsFunds /\ jsStore' = jsStore /\ jsEpoch' = jsEpoch
  BY DEF AnswerLoser
<1>3. ReplayOf(c) \in {"replayed", "conflict"}
      /\ (ReplayOf(c) = "replayed" => jsJob[jsCall[c].key].body = jsCall[c].body)
  BY DEF ReplayOf
<1>4. JsMoved(c, "done", ReplayOf(c))
  BY <1>1, <1>3, JsReplyMoves DEF AnswerLoser, Reply, JsPcs, JsReplies
<1> QED BY <1>1, <1>2, <1>3, <1>4, JsQuiet DEF JsPcs, JsReplies, JsEarly, JsHeld

LEMMA JsCrashKeeps ==
  ASSUME JsInv, NEW c \in JsCalls, JsCrash(c)
  PROVE  JsInv'
<1>1. jsCall \in [JsCalls -> JsRec] /\ jsCall[c].pc \notin {"new", "done"}
  BY DEF JsInv, JsCrash
<1>2. jsJob' = jsJob /\ jsFunds' = jsFunds /\ jsStore' = jsStore /\ jsEpoch' = jsEpoch
  BY DEF JsCrash
<1>3. JsMoved(c, "done", "lost")  BY <1>1, JsReplyMoves DEF JsCrash, JsPcs, JsReplies
<1> QED BY <1>1, <1>2, <1>3, JsQuiet DEF JsPcs, JsReplies, JsEarly, JsHeld

LEMMA JsPreflight ==
  ASSUME JsInv, NEW c \in JsCalls, Preflight(c)
  PROVE  JsInv'
<1>1. jsCall \in [JsCalls -> JsRec] /\ jsCall[c].pc = "preflight" /\ jsCall[c].reply = "none"
      /\ jsEpoch \in Nat
  BY DEF JsInv, Preflight, JsPlace
<1>2. jsJob' = jsJob /\ jsFunds' = jsFunds /\ jsStore' = jsStore /\ jsEpoch' = jsEpoch
  BY DEF Preflight
<1>3. CASE Reply(c, "refused")
  <2>1. JsMoved(c, "done", "refused")  BY <1>1, <1>3, JsReplyMoves DEF Reply, JsPcs, JsReplies
  <2> QED BY <1>1, <1>2, <2>1, JsQuiet DEF JsPcs, JsReplies, JsEarly, JsHeld
<1>4. CASE jsCall' = [jsCall EXCEPT ![c].pc = "resolve", ![c].epoch = jsEpoch]
  <2>1. jsCall[c] \in JsRec /\ jsCall'[c] = [jsCall[c] EXCEPT !.pc = "resolve", !.epoch = jsEpoch]
    BY <1>1, <1>4
  <2>2. \A d \in JsCalls : d # c => jsCall'[d] = jsCall[d]  BY <1>1, <1>4
  <2>3. jsCall' \in [JsCalls -> JsRec]  BY <1>1, <1>4 DEF JsRec, JsPcs, JsEarly
  <2>4. jsCall'[c].pc = "resolve"  BY <2>1, SMTT(20) DEF JsRec
  <2>5. jsCall'[c].reply = jsCall[c].reply  BY <2>1 DEF JsRec
  <2>6. jsCall'[c].key = jsCall[c].key  BY <2>1 DEF JsRec
  <2>7. jsCall'[c].body = jsCall[c].body  BY <2>1 DEF JsRec
  <2>8. jsCall'[c].tasks = jsCall[c].tasks  BY <2>1 DEF JsRec
  <2>9. jsCall'[c].owned = jsCall[c].owned  BY <2>1 DEF JsRec
  <2>10. JsMoved(c, "resolve", "none")
    BY <1>1, <2>2, <2>3, <2>4, <2>5, <2>6, <2>7, <2>8, <2>9 DEF JsMoved
  <2> QED BY <1>1, <1>2, <2>10, JsQuiet DEF JsPcs, JsReplies, JsEarly, JsHeld
<1> QED BY <1>3, <1>4 DEF Preflight

LEMMA JsArrive ==
  ASSUME JsInv, NEW c \in JsCalls, NEW k \in JsKeys, NEW b \in JsBodies, Arrive(c, k, b)
  PROVE  JsInv'
<1>1. jsCall \in [JsCalls -> JsRec] /\ jsCall[c].pc = "new"
      /\ jsCall' = [jsCall EXCEPT ![c].pc = "lookup", ![c].key = k, ![c].body = b]
      /\ jsJob' = jsJob /\ jsFunds' = jsFunds /\ jsStore' = jsStore /\ jsEpoch' = jsEpoch
  BY DEF Arrive, JsInv
<1>2. jsCall[c] \in JsRec
      /\ jsCall'[c] = [jsCall[c] EXCEPT !.pc = "lookup", !.key = k, !.body = b]
  BY <1>1
<1>3. \A d \in JsCalls : d # c => jsCall'[d] = jsCall[d]  BY <1>1
<1>4. /\ jsCall'[c] \in JsRec
      /\ jsCall'[c].pc = "lookup" /\ jsCall'[c].key = k /\ jsCall'[c].body = b
      /\ jsCall'[c].reply = jsCall[c].reply /\ jsCall'[c].tasks = jsCall[c].tasks
      /\ jsCall'[c].owned = jsCall[c].owned
  <2>1. "lookup" \in JsPcs  BY DEF JsPcs, JsEarly
  <2>2. jsCall'[c] = JsArrived(jsCall[c], "lookup", k, b)  BY <1>2 DEF JsArrived
  <2>3. jsCall[c] \in JsRec  BY <1>2
  <2> QED BY <2>1, <2>2, <2>3, JsArriveRec, SMTT(20)
<1>5. jsCall' = [jsCall EXCEPT ![c] = jsCall'[c]]  BY <1>1
<1>6. jsCall' \in [JsCalls -> JsRec]  BY <1>1, <1>4, <1>5
<1>9. JsPlace(c) /\ JsChunkInv(c)  BY DEF JsInv
<1>10. jsCall[c].reply = "none" /\ jsCall[c].tasks = {} /\ jsCall[c].owned = {}
       /\ ChunkObject(c) \notin jsStore
  BY <1>1, <1>9 DEF JsPlace, JsChunkInv, JsEarly
<1>11. JsPlace(c)'
  BY <1>4, <1>10 DEF JsPlace, JsHeld
<1>12. JsChunkInv(c)'
  BY <1>1, <1>4, <1>10 DEF JsChunkInv, ChunkObject, JsHeld
<1>13. JsInputInv(c)' /\ JsAnswerInv(c)'
  BY <1>4, <1>10 DEF JsInputInv, JsAnswerInv, JsHeld
<1>14. \A d \in JsCalls : JsPlace(d)' /\ JsChunkInv(d)' /\ JsInputInv(d)' /\ JsAnswerInv(d)'
  BY <1>1, <1>3, <1>11, <1>12, <1>13, JsOthersQuiet
<1>15. \A l \in JsKeys : JsRowInv(l)'  BY <1>1, <1>3, JsRowsStay
<1>16. JsFundInv'  BY <1>1, JsFundsStay DEF JsInv
<1> QED BY <1>1, <1>6, <1>14, <1>15, <1>16 DEF JsInv

\* What a call stores is its own canonical input and at most its own chunk.
LEMMA JsOwnObjects ==
  ASSUME JsInv, NEW c \in JsCalls, jsCall[c].pc # "new"
  PROVE  /\ TaskObjects(c) = IF jsCall[c].body.media THEN {CanonicalInput(c)} ELSE {ChunkObject(c)}
         /\ TaskObjects(c) # {}
         /\ CanonicalInput(c) \in JsObjects /\ ChunkObject(c) \in JsObjects
         /\ TaskObjects(c) \subseteq JsObjects
<1>1. jsCall[c].key \in JsKeys /\ jsCall[c].body \in JsBodies  BY DEF JsInv, JsPlace
<1>2. CanonicalInput(c) \in JsObjects
  <2>1. jsCall[c].body.id \in {b.id : b \in JsBodies}  BY <1>1
  <2> QED BY <1>1, <2>1 DEF CanonicalInput, ObjectPrefix, JsObjects
<1>3. ChunkObject(c) \in JsObjects  BY DEF ChunkObject, JsObjects
<1>4. TaskObjects(c) = IF jsCall[c].body.media THEN {CanonicalInput(c)} ELSE {ChunkObject(c)}
  BY DEF TaskObjects, MediaTasks, ChunkTasks
<1> QED BY <1>2, <1>3, <1>4

\* The upload, complete or not.
LEMMA JsUploads ==
  ASSUME JsInv, NEW c \in JsCalls, jsCall[c].pc = "upload",
         NEW tasks \in {TaskObjects(c), {}}, NEW pc \in {"plan", "discard"},
         NEW r \in {"none", "refused"},
         pc = "plan" => tasks = TaskObjects(c) /\ r = "none",
         pc = "discard" => r = "refused",
         jsCall' = [jsCall EXCEPT ![c] =
                      JsUploaded(jsCall[c], pc, r, tasks, {CanonicalInput(c)})],
         jsStore' = jsStore \cup {CanonicalInput(c)} \cup TaskObjects(c),
         jsJob' = jsJob, jsFunds' = jsFunds, jsEpoch' = jsEpoch
  PROVE  JsInv'
<1>1. /\ TaskObjects(c) = IF jsCall[c].body.media THEN {CanonicalInput(c)} ELSE {ChunkObject(c)}
      /\ TaskObjects(c) # {}
      /\ CanonicalInput(c) \in JsObjects /\ ChunkObject(c) \in JsObjects
      /\ TaskObjects(c) \subseteq JsObjects
  BY JsOwnObjects
<1>2. tasks \in SUBSET JsObjects /\ {CanonicalInput(c)} \in SUBSET JsObjects  BY <1>1
<1>3. jsCall \in [JsCalls -> JsRec]  BY DEF JsInv
<1>4. jsCall[c] \in JsRec
      /\ jsCall'[c] = JsUploaded(jsCall[c], pc, r, tasks, {CanonicalInput(c)})
  BY <1>3
<1>5. \A d \in JsCalls : d # c => jsCall'[d] = jsCall[d]  BY <1>3
<1>6. pc \in JsPcs /\ r \in JsReplies  BY DEF JsPcs, JsHeld, JsReplies
<1>7. /\ jsCall'[c] \in JsRec /\ jsCall'[c].pc = pc /\ jsCall'[c].reply = r
      /\ jsCall'[c].tasks = tasks /\ jsCall'[c].owned = {CanonicalInput(c)}
      /\ jsCall'[c].key = jsCall[c].key /\ jsCall'[c].body = jsCall[c].body
  <2>1. tasks \in JsSets /\ {CanonicalInput(c)} \in JsSets  BY <1>2 DEF JsSets
  <2>2. PICK mine : mine = {CanonicalInput(c)}  OBVIOUS
  <2>3. mine \in JsSets /\ jsCall'[c] = JsUploaded(jsCall[c], pc, r, tasks, mine)
    BY <1>4, <2>1, <2>2
  <2>4. /\ jsCall'[c] \in JsRec /\ jsCall'[c].pc = pc /\ jsCall'[c].reply = r
        /\ jsCall'[c].tasks = tasks /\ jsCall'[c].owned = mine
        /\ jsCall'[c].key = jsCall[c].key /\ jsCall'[c].body = jsCall[c].body
    BY <1>4, <1>6, <2>1, <2>3, JsUploadRec, SMTT(20)
  <2> QED BY <2>2, <2>4
<1>8. jsCall' = [jsCall EXCEPT ![c] = jsCall'[c]]  BY <1>3
<1>9. jsCall' \in [JsCalls -> JsRec]  BY <1>3, <1>7, <1>8
<1>14. CanonicalInput(c)' = CanonicalInput(c) /\ TaskObjects(c)' = TaskObjects(c)
  BY <1>7, JsSameObjects
<1>15. JsPlace(c) /\ JsChunkInv(c)  BY DEF JsInv
<1>16. ChunkObject(c) \notin jsStore  BY <1>15 DEF JsChunkInv, JsEarly
<1>17. pc \notin JsEarly /\ pc # "done" /\ pc # "new" /\ r # "accepted" /\ (pc \in JsHeld => pc = "plan")
  BY DEF JsEarly, JsHeld
<1>18. JsPlace(c)'
  <2>1. jsCall'[c].key \in JsKeys /\ jsCall'[c].body \in JsBodies  BY <1>7, <1>15 DEF JsPlace
  <2>2. tasks = {} \/ tasks = TaskObjects(c)'  BY <1>14
  <2> QED BY <1>7, <1>14, <1>17, <2>1, <2>2 DEF JsPlace
<1>19. JsChunkInv(c)'
  <2>1. CanonicalInput(c) # ChunkObject(c)  BY JsKeysApart
  <2>2. ASSUME jsCall[c].body.media  PROVE ChunkObject(c) \notin jsStore'
    <3>1. jsStore' = jsStore \cup {CanonicalInput(c)}  BY <1>1, <2>2
    <3> QED BY <1>16, <2>1, <3>1
  <2>3. jsCall[c].body.media \/ ChunkObject(c) \in jsStore'  BY <1>1
  <2> QED BY <1>7, <1>17, <2>2, <2>3 DEF JsChunkInv, ChunkObject
<1>20. JsInputInv(c)'  BY <1>14 DEF JsInputInv, JsInputKept
<1>21. JsAnswerInv(c)'  BY <1>7 DEF JsAnswerInv
<1>22. ASSUME NEW d \in JsCalls, d # c
       PROVE  JsPlace(d)' /\ JsChunkInv(d)' /\ JsInputInv(d)' /\ JsAnswerInv(d)'
  <2>1. ChunkObject(d) # CanonicalInput(c) /\ ChunkObject(d) # ChunkObject(c)
    BY <1>22, JsKeysApart
  <2>2. ChunkObject(d) \in jsStore' <=> ChunkObject(d) \in jsStore
    <3>1. TaskObjects(c) = {CanonicalInput(c)} \/ TaskObjects(c) = {ChunkObject(c)}  BY <1>1
    <3> QED BY <2>1, <3>1
  <2>3. CanonicalInput(d)' = CanonicalInput(d)  BY <1>5, <1>22, JsSameObjects
  <2>4. CanonicalInput(d) \in jsStore => JsInputKept(d)'  BY <2>3 DEF JsInputKept
  <2> QED BY <1>5, <1>22, <2>2, <2>4, JsOthers
<1>23. \A d \in JsCalls : JsPlace(d)' /\ JsChunkInv(d)' /\ JsInputInv(d)' /\ JsAnswerInv(d)'
  BY <1>18, <1>19, <1>20, <1>21, <1>22
<1>24. \A k \in JsKeys : JsRowInv(k)'  BY <1>5, JsRowsStay
<1>25. JsFundInv'  BY JsFundsStay DEF JsInv
<1> QED BY <1>9, <1>23, <1>24, <1>25 DEF JsInv

\* A cleanup takes the call's own objects; the canonical input it shares with its
\* twins only, and from then on it is their refused twin.
LEMMA JsDiscard ==
  ASSUME JsInv, NEW c \in JsCalls, Discard(c)
  PROVE  JsInv'
<1>1. jsCall \in [JsCalls -> JsRec] /\ jsCall[c].pc = "discard" /\ jsCall[c].reply = "refused"
  BY DEF JsInv, Discard, JsPlace
<1>2. jsJob' = jsJob /\ jsFunds' = jsFunds /\ jsEpoch' = jsEpoch
      /\ jsStore' = jsStore \ (jsCall[c].owned \cup jsCall[c].tasks)
  BY DEF Discard, Discarded
<1>3. JsMoved(c, "done", "refused")  BY <1>1, JsToMoves DEF Discard, JsPcs
<1>4. /\ jsCall' \in [JsCalls -> JsRec]
      /\ \A e \in JsCalls : e # c => jsCall'[e] = jsCall[e]
      /\ jsCall'[c].pc = "done" /\ jsCall'[c].reply = "refused"
      /\ jsCall'[c].key = jsCall[c].key /\ jsCall'[c].body = jsCall[c].body
      /\ jsCall'[c].tasks = jsCall[c].tasks /\ jsCall'[c].owned = jsCall[c].owned
  BY <1>3 DEF JsMoved
<1>5. CanonicalInput(c)' = CanonicalInput(c) /\ TaskObjects(c)' = TaskObjects(c)
  BY <1>4, JsSameObjects
<1>6. JsPlace(c) /\ JsChunkInv(c)  BY DEF JsInv
<1>7. TaskObjects(c) = IF jsCall[c].body.media THEN {CanonicalInput(c)} ELSE {ChunkObject(c)}
  BY <1>1, JsOwnObjects
<1>8. /\ jsCall[c].tasks = {} \/ jsCall[c].tasks = TaskObjects(c)
      /\ jsCall[c].owned = {} \/ jsCall[c].owned = {CanonicalInput(c)}
      /\ jsCall[c].key \in JsKeys /\ jsCall[c].body \in JsBodies
  BY <1>1, <1>6 DEF JsPlace
<1>9. JsPlace(c)'
  BY <1>4, <1>5, <1>8 DEF JsPlace, JsEarly, JsHeld
<1>10. JsChunkInv(c)'
  <2>1. jsCall[c].body.media => ChunkObject(c) \notin jsStore'  BY <1>2, <1>6 DEF JsChunkInv
  <2>2. jsCall[c].tasks # {} => ChunkObject(c) \notin jsStore'
    <3>1. ASSUME jsCall[c].tasks # {}, ~jsCall[c].body.media  PROVE ChunkObject(c) \in jsCall[c].tasks
      BY <1>7, <1>8, <3>1
    <3> QED BY <1>2, <2>1, <3>1
  <2> QED BY <1>4, <2>1, <2>2 DEF JsChunkInv, ChunkObject, JsEarly, JsHeld
<1>11. JsInputInv(c)' /\ JsAnswerInv(c)'
  BY <1>4 DEF JsInputInv, JsAnswerInv, JsHeld
<1>12. ASSUME NEW d \in JsCalls, d # c
       PROVE  JsPlace(d)' /\ JsChunkInv(d)' /\ JsInputInv(d)' /\ JsAnswerInv(d)'
  <2>1. ChunkObject(d) # CanonicalInput(c) /\ ChunkObject(d) # ChunkObject(c)
    BY <1>12, JsKeysApart
  <2>2. /\ \A x \in jsCall[c].tasks : x = CanonicalInput(c) \/ x = ChunkObject(c)
        /\ \A x \in jsCall[c].owned : x = CanonicalInput(c)
    <3>1. TaskObjects(c) = {CanonicalInput(c)} \/ TaskObjects(c) = {ChunkObject(c)}  BY <1>7
    <3>2. \A x \in TaskObjects(c) : x = CanonicalInput(c) \/ x = ChunkObject(c)  BY <3>1
    <3> QED BY <1>8, <3>2
  <2>3. ChunkObject(d) \notin jsCall[c].owned \cup jsCall[c].tasks  BY <2>1, <2>2
  <2>4. ChunkObject(d) \in jsStore' <=> ChunkObject(d) \in jsStore  BY <1>2, <2>3
  <2>5. CanonicalInput(d)' = CanonicalInput(d)  BY <1>4, <1>12, JsSameObjects
  <2>6. ASSUME jsCall[d].pc # "new", CanonicalInput(d) \in jsStore  PROVE JsInputKept(d)'
    <3>1. CASE CanonicalInput(d) = CanonicalInput(c)
      <4>1. jsCall[d].key = jsCall[c].key /\ jsCall[d].body.id = jsCall[c].body.id
        BY <3>1, JsKeysApart
      <4>2. jsCall[d].body \in JsBodies  BY <2>6 DEF JsInv, JsPlace
      <4>3. jsCall[d].body = jsCall[c].body  BY <1>8, <4>1, <4>2, SubmissionConstants
      <4>4. JsTwin(d, c)'  BY <1>4, <1>12, <4>1, <4>3 DEF JsTwin
      <4> QED BY <4>4 DEF JsInputKept
    <3>2. CASE CanonicalInput(d) # CanonicalInput(c)
      <4>1. CanonicalInput(d) # ChunkObject(c)  BY JsKeysApart
      <4>2. CanonicalInput(d) \notin jsCall[c].owned \cup jsCall[c].tasks
        BY <2>2, <3>2, <4>1
      <4> QED BY <1>2, <2>5, <2>6, <4>2 DEF JsInputKept
    <3> QED BY <3>1, <3>2
  <2> QED BY <1>1, <1>2, <1>4, <1>12, <2>4, <2>6, JsOthers
<1>13. \A d \in JsCalls : JsPlace(d)' /\ JsChunkInv(d)' /\ JsInputInv(d)' /\ JsAnswerInv(d)'
  BY <1>9, <1>10, <1>11, <1>12
<1>14. \A k \in JsKeys : JsRowInv(k)'  BY <1>1, <1>2, <1>4, JsRowsStay
<1>15. JsFundInv'  BY <1>2, JsFundsStay DEF JsInv
<1> QED BY <1>2, <1>4, <1>13, <1>14, <1>15 DEF JsInv

\* A row is inserted once, and takes one unit.
LEMMA JsFundsTaken ==
  ASSUME JsInv, NEW k \in JsKeys, NEW row, row # NoRow, jsJob[k] = NoRow,
         jsJob' = [jsJob EXCEPT ![k] = row], jsFunds > 0, jsFunds' = jsFunds - 1
  PROVE  JsFundInv'
<1>1. NoRow' = NoRow  BY DEF NoRow
<1>2. jsJob = [l \in JsKeys |-> jsJob[l]]  BY DEF JsInv
<1>3. jsJob'[k] = row /\ \A l \in JsKeys : l # k => jsJob'[l] = jsJob[l]  BY <1>2
<1>4. JsRows' = JsRows \cup {k}  BY <1>1, <1>3 DEF JsRows
<1>5. k \notin JsRows  BY DEF JsRows
<1>6. IsFiniteSet(JsRows)
  BY FS_Subset, SubmissionConstants DEF JsRows
<1>7. Cardinality(JsRows') = Cardinality(JsRows) + 1
  BY <1>4, <1>5, <1>6, FS_AddElement
<1>8. Cardinality(JsRows) \in Nat  BY <1>6, FS_CardinalityType
<1> QED BY <1>7, <1>8, SubmissionConstants, SMTT(20) DEF JsInv, JsFundInv

LEMMA JsInsert ==
  ASSUME JsInv, NEW c \in JsCalls, jsCall[c].pc = "submit", Inserts(c),
         GuardActivation(c), Reservable, QuoteBinds(c), jsJob[jsCall[c].key] = NoRow,
         jsStore' = jsStore, jsEpoch' = jsEpoch
  PROVE  JsInv'
<1> DEFINE k == jsCall[c].key
<1>1. jsCall \in [JsCalls -> JsRec] /\ JsPlace(c) /\ JsChunkInv(c) /\ JsInputInv(c)
      /\ jsJob = [l \in JsKeys |-> jsJob[l]]
  BY DEF JsInv
<1>2. k \in JsKeys /\ jsCall[c].body \in JsBodies /\ jsCall[c].tasks = TaskObjects(c)
  BY <1>1 DEF JsPlace, JsHeld
<1>3. JsMoved(c, "done", "accepted") /\ jsCall'[c].epoch = jsCall[c].epoch
  BY <1>1, JsReplyMoves DEF Inserts, Reply, JsPcs, JsReplies
<1>4. /\ jsCall' \in [JsCalls -> JsRec]
      /\ \A e \in JsCalls : e # c => jsCall'[e] = jsCall[e]
      /\ jsCall'[c].pc = "done" /\ jsCall'[c].reply = "accepted"
      /\ jsCall'[c].key = jsCall[c].key /\ jsCall'[c].body = jsCall[c].body
      /\ jsCall'[c].tasks = jsCall[c].tasks /\ jsCall'[c].owned = jsCall[c].owned
  BY <1>3 DEF JsMoved
<1>5. CanonicalInput(c)' = CanonicalInput(c) /\ TaskObjects(c)' = TaskObjects(c)
  BY <1>4, JsSameObjects
<1>6. PICK row : row = RowFor(c)  OBVIOUS
<1>7. /\ row.call = c /\ row.body = jsCall[c].body /\ row.input = CanonicalInput(c)
      /\ row.tasks = jsCall[c].tasks /\ row.epoch = jsEpoch
      /\ row.alive = (jsCall[c].body \notin jsExpired)
  BY <1>6 DEF RowFor
<1>8. jsJob' = [jsJob EXCEPT ![k] = row] /\ jsFunds' = jsFunds - 1  BY <1>6 DEF Inserts
<1>9. jsJob'[k] = row /\ \A l \in JsKeys : l # k => jsJob'[l] = jsJob[l]  BY <1>1, <1>2, <1>8
<1>10. row # NoRow
  <2>1. NoRow.body = JsNone  BY DEF NoRow
  <2> QED BY <1>2, <1>7, <2>1, SubmissionConstants
<1>11. JsPlace(c)'
  BY <1>1, <1>2, <1>4, <1>5 DEF JsPlace, JsEarly
<1>12. JsChunkInv(c)'
  BY <1>1, <1>4 DEF JsChunkInv, ChunkObject, JsEarly, JsHeld
<1>13. JsInputInv(c)'
  <2>1. JsInputKept(c)  BY <1>1 DEF JsInputInv, JsHeld
  <2>2. \A x \in JsCalls : JsTwin(c, x) => JsTwin(c, x)'  BY <1>4 DEF JsTwin
  <2>3. JsInputKept(c)'  BY <1>5, <2>1, <2>2 DEF JsInputKept
  <2> QED BY <2>3 DEF JsInputInv
<1>14. JsAnswerInv(c)'  BY <1>4, <1>7, <1>9 DEF JsAnswerInv
<1>15. ASSUME NEW d \in JsCalls, d # c
       PROVE  JsPlace(d)' /\ JsChunkInv(d)' /\ JsInputInv(d)' /\ JsAnswerInv(d)'
  <2>1. CanonicalInput(d)' = CanonicalInput(d)  BY <1>4, <1>15, JsSameObjects
  <2>2. CanonicalInput(d) \in jsStore => JsInputKept(d)'  BY <2>1 DEF JsInputKept
  <2>3. ASSUME jsCall[d].reply \in {"accepted", "replayed"}
        PROVE  jsJob'[jsCall[d].key] = jsJob[jsCall[d].key]
    <3>1. JsPlace(d) /\ JsAnswerInv(d)  BY DEF JsInv
    <3>2. jsCall[d].pc # "new"  BY <2>3, <3>1 DEF JsPlace
    <3>3. jsCall[d].key \in JsKeys /\ jsCall[d].body \in JsBodies
          /\ jsJob[jsCall[d].key].body = jsCall[d].body
      BY <2>3, <3>1, <3>2 DEF JsPlace, JsAnswerInv
    <3>4. NoRow.body = JsNone  BY DEF NoRow
    <3>5. jsCall[d].key # k  BY <3>3, <3>4, SubmissionConstants
    <3> QED BY <1>9, <3>3, <3>5
  <2> QED BY <1>4, <1>15, <2>2, <2>3, JsOthers
<1>16. \A d \in JsCalls : JsPlace(d)' /\ JsChunkInv(d)' /\ JsInputInv(d)' /\ JsAnswerInv(d)'
  BY <1>11, <1>12, <1>13, <1>14, <1>15
<1>17. ASSUME NEW l \in JsKeys, l # k  PROVE JsRowInv(l)'
  <2>1. jsJob'[l] = jsJob[l]  BY <1>9, <1>17
  <2> QED BY <1>4, <2>1, JsRowsStay
<1>18. ASSUME NEW l \in JsKeys, l = k  PROVE JsRowInv(l)'
  <2>1. jsJob'[l] = row /\ jsJob'[l].call = c  BY <1>7, <1>9, <1>18
  <2>2. jsCall[c].body.quoted => row.alive  BY <1>7 DEF QuoteBinds
  <2>3. jsCall'[c].key = l /\ jsCall'[c].body = row.body /\ row.epoch = jsCall'[c].epoch
    BY <1>3, <1>4, <1>7, <1>18 DEF GuardActivation
  <2>4. row.tasks = TaskObjects(c)' /\ row.input = CanonicalInput(c)'  BY <1>2, <1>5, <1>7
  <2>5. (TaskObjects(jsJob[l].call))' = TaskObjects(c)' /\ (CanonicalInput(jsJob[l].call))' = CanonicalInput(c)'
    BY <2>1
  <2>6. row.body.quoted => row.alive  BY <1>7, <2>2
  <2> QED BY <1>4, <2>1, <2>3, <2>4, <2>5, <2>6 DEF JsRowInv
<1>19. JsFundInv'
  BY <1>2, <1>8, <1>10, JsFundsTaken DEF Reservable
<1>20. jsJob' = [l \in JsKeys |-> jsJob'[l]]  BY <1>1, <1>8
<1>21. jsEpoch' \in Nat  BY DEF JsInv
<1> QED BY <1>4, <1>16, <1>17, <1>18, <1>19, <1>20, <1>21 DEF JsInv

LEMMA JsSubmit ==
  ASSUME JsInv, NEW c \in JsCalls, SubmitJobTx(c)
  PROVE  JsInv'
<1>1. jsCall[c].pc = "submit" /\ jsStore' = jsStore /\ jsEpoch' = jsEpoch  BY DEF SubmitJobTx
<1>2. jsCall[c].pc \in JsHeld  BY <1>1 DEF JsHeld
<1>3. CASE ~(GuardActivation(c) /\ Reservable /\ QuoteBinds(c))
  <2>1. Refuse(c, "refused") /\ jsJob' = jsJob /\ jsFunds' = jsFunds  BY <1>3 DEF SubmitJobTx
  <2> QED BY <1>1, <1>2, <2>1, JsGoesOn
<1>4. CASE GuardActivation(c) /\ Reservable /\ QuoteBinds(c) /\ jsJob[jsCall[c].key] # NoRow
  <2>1. To(c, "collided") /\ jsJob' = jsJob /\ jsFunds' = jsFunds
    BY <1>4 DEF SubmitJobTx, Collides
  <2> QED BY <1>1, <1>2, <2>1, JsGoesOn
<1>5. CASE GuardActivation(c) /\ Reservable /\ QuoteBinds(c) /\ jsJob[jsCall[c].key] = NoRow
  <2>1. Inserts(c)  BY <1>5 DEF SubmitJobTx
  <2> QED BY <1>1, <1>5, <2>1, JsInsert
<1> QED BY <1>3, <1>4, <1>5

LEMMA JsHandle ==
  ASSUME JsInv, NEW c \in JsCalls, Handle(c)
  PROVE  JsInv'
<1>1. CASE LookUpReplay(c)  BY <1>1, JsLookUp
<1>2. CASE Preflight(c)  BY <1>2, JsPreflight
<1>3. CASE ResolveInput(c)  BY <1>3, JsResolve
<1>4. CASE Upload(c)
  <2>1. jsCall[c].reply = "none" /\ jsCall \in [JsCalls -> JsRec] /\ jsCall[c].pc = "upload"
    BY <1>4 DEF JsInv, JsPlace, Upload
  <2>2. jsCall' = [jsCall EXCEPT ![c] =
                     JsUploaded(jsCall[c], "plan", "none", TaskObjects(c), {CanonicalInput(c)})]
    <3>1. PICK old \in JsRec : old = jsCall[c]  BY <2>1
    <3>2. [old EXCEPT !.pc = "plan", !.tasks = TaskObjects(c), !.owned = {CanonicalInput(c)}]
          = [old EXCEPT !.pc = "plan", !.reply = "none", !.tasks = TaskObjects(c),
                        !.owned = {CanonicalInput(c)}]
      BY <2>1, <3>1 DEF JsRec
    <3>3. jsCall' = [jsCall EXCEPT ![c] = [jsCall[c] EXCEPT !.pc = "plan",
                        !.tasks = TaskObjects(c), !.owned = {CanonicalInput(c)}]]
      BY <1>4, <2>1 DEF Upload
    <3> QED BY <3>1, <3>2, <3>3 DEF JsUploaded
  <2>3. jsStore' = jsStore \cup {CanonicalInput(c)} \cup TaskObjects(c)
        /\ jsJob' = jsJob /\ jsFunds' = jsFunds /\ jsEpoch' = jsEpoch
    BY <1>4 DEF Upload
  <2> QED BY <2>1, <2>2, <2>3, JsUploads
<1>5. CASE UploadFails(c)
  <2>1. PICK tasks \in {TaskObjects(c), {}} :
          jsCall' = [jsCall EXCEPT ![c].pc = "discard", ![c].reply = "refused",
                        ![c].tasks = tasks, ![c].owned = {CanonicalInput(c)}]
    BY <1>5 DEF UploadFails
  <2>2. jsCall' = [jsCall EXCEPT ![c] =
                     JsUploaded(jsCall[c], "discard", "refused", tasks, {CanonicalInput(c)})]
    BY <2>1 DEF JsUploaded
  <2>3. jsStore' = jsStore \cup {CanonicalInput(c)} \cup TaskObjects(c) /\ jsCall[c].pc = "upload"
        /\ jsJob' = jsJob /\ jsFunds' = jsFunds /\ jsEpoch' = jsEpoch
    BY <1>5 DEF UploadFails
  <2> QED BY <2>2, <2>3, JsUploads
<1>6. CASE ClassifyWorkload(c)
  <2>1. jsCall[c].pc \in JsHeld /\ "expand" \in JsHeld  BY <1>6 DEF ClassifyWorkload, JsHeld
  <2> QED BY <1>6, <2>1, JsGoesOn DEF ClassifyWorkload
<1>7. CASE ExpandVerification(c)
  <2>1. jsCall[c].pc \in JsHeld /\ "freeze" \in JsHeld  BY <1>7 DEF ExpandVerification, JsHeld
  <2> QED BY <1>7, <2>1, JsGoesOn DEF ExpandVerification
<1>8. CASE FreezePlans(c)
  <2>1. jsCall[c].pc \in JsHeld /\ "submit" \in JsHeld  BY <1>8 DEF FreezePlans, JsHeld
  <2> QED BY <1>8, <2>1, JsGoesOn DEF FreezePlans
<1>9. CASE SubmitJobTx(c)  BY <1>9, JsSubmit
<1>10. CASE AnswerLoser(c)  BY <1>10, JsAnswer
<1>11. CASE Discard(c)  BY <1>11, JsDiscard
<1> QED BY <1>1, <1>2, <1>3, <1>4, <1>5, <1>6, <1>7, <1>8, <1>9, <1>10, <1>11 DEF Handle

\* The policy, the quotes and the pause are read by the calls, not by the invariant.
LEMMA JsAround ==
  ASSUME JsInv, UNCHANGED <<jsJob, jsFunds, jsStore, jsCall>>, jsEpoch' \in Nat
  PROVE  JsInv'
<1>1. ASSUME NEW c \in JsCalls
      PROVE  JsPlace(c)' /\ JsChunkInv(c)' /\ JsInputInv(c)' /\ JsAnswerInv(c)'
  <2>1. JsPlace(c) /\ JsChunkInv(c) /\ JsInputInv(c) /\ JsAnswerInv(c)  BY DEF JsInv
  <2>2. CanonicalInput(c)' = CanonicalInput(c) /\ TaskObjects(c)' = TaskObjects(c)
    BY JsSameObjects
  <2>3. JsPlace(c)'  BY <2>1, <2>2 DEF JsPlace
  <2>4. JsInputInv(c)'  BY <2>1, <2>2 DEF JsInputInv, JsInputKept, JsTwin
  <2> QED BY <2>1, <2>3, <2>4 DEF JsChunkInv, ChunkObject, JsAnswerInv
<1>2. ASSUME NEW k \in JsKeys  PROVE JsRowInv(k)'
  <2>1. JsRowInv(k)  BY DEF JsInv
  <2>2. /\ (TaskObjects(jsJob[k].call))' = TaskObjects(jsJob[k].call)
        /\ (CanonicalInput(jsJob[k].call))' = CanonicalInput(jsJob[k].call)
    BY DEF TaskObjects, MediaTasks, ChunkTasks, ChunkObject, CanonicalInput, ObjectPrefix
  <2> QED BY <2>1, <2>2 DEF JsRowInv, NoRow
<1>3. JsFundInv'  BY JsFundsStay DEF JsInv
<1> QED BY <1>1, <1>2, <1>3 DEF JsInv

LEMMA JsInitial == JsInit => JsInv
<1> SUFFICES ASSUME JsInit  PROVE JsInv  OBVIOUS
<1>1. jsCall = [c \in JsCalls |-> NewCall] /\ jsStore = {} /\ jsJob = [k \in JsKeys |-> NoRow]
      /\ jsFunds = JsFunds /\ jsEpoch = 1
  BY DEF JsInit
<1>2. NewCall \in JsRec  BY SMTT(20) DEF NewCall, JsRec, JsPcs, JsEarly, JsReplies, JsSets
<1>3. jsCall \in [JsCalls -> JsRec]  BY <1>1, <1>2
<1>4. \A c \in JsCalls : jsCall[c].pc = "new" /\ jsCall[c].reply = "none"
                         /\ jsCall[c].tasks = {} /\ jsCall[c].owned = {}
  BY <1>1 DEF NewCall
<1>5. \A c \in JsCalls : JsPlace(c) /\ JsChunkInv(c) /\ JsInputInv(c) /\ JsAnswerInv(c)
  BY <1>1, <1>4 DEF JsPlace, JsChunkInv, JsInputInv, JsAnswerInv, JsHeld
<1>6. \A k \in JsKeys : JsRowInv(k)  BY <1>1 DEF JsRowInv
<1>7. JsFundInv
  <2>1. JsRows = {}  BY <1>1 DEF JsRows
  <2>2. Cardinality(JsRows) = 0  BY <2>1, FS_EmptySet
  <2> QED BY <1>1, <2>2, SubmissionConstants, SMTT(20) DEF JsFundInv
<1>8. jsEpoch \in Nat  BY <1>1, SMTT(20)
<1> QED BY <1>1, <1>3, <1>5, <1>6, <1>7, <1>8 DEF JsInv

LEMMA JsStep == JsInv /\ [JsNext]_jsVars => JsInv'
<1> SUFFICES ASSUME JsInv, [JsNext]_jsVars  PROVE JsInv'  OBVIOUS
<1>0. jsEpoch \in Nat  BY DEF JsInv
<1>1. CASE UNCHANGED jsVars
  BY <1>0, <1>1, JsAround DEF jsVars
<1>2. ASSUME NEW c \in JsCalls, NEW k \in JsKeys, NEW b \in JsBodies, Arrive(c, k, b)  PROVE JsInv'
  BY <1>2, JsArrive
<1>3. ASSUME NEW c \in JsCalls, Handle(c)  PROVE JsInv'  BY <1>3, JsHandle
<1>4. ASSUME NEW c \in JsCalls, JsCrash(c)  PROVE JsInv'  BY <1>4, JsCrashKeeps
<1>5. CASE ChangePolicy
  <2>1. jsEpoch' \in Nat  BY <1>0, <1>5, SMTT(20) DEF ChangePolicy
  <2> QED BY <1>5, <2>1, JsAround DEF ChangePolicy
<1>6. CASE PauseIntake  BY <1>0, <1>6, JsAround DEF PauseIntake
<1>7. ASSUME NEW b \in JsBodies, QuoteExpires(b)  PROVE JsInv'
  BY <1>0, <1>7, JsAround DEF QuoteExpires
<1> QED BY <1>1, <1>2, <1>3, <1>4, <1>5, <1>6, <1>7 DEF JsNext

LEMMA JsImplies == JsInv => SubmittedOnce
<1> SUFFICES ASSUME JsInv  PROVE SubmittedOnce  OBVIOUS
<1>1. ASSUME NEW k \in JsRows
      PROVE  /\ jsJob[k].tasks \ {jsJob[k].input} \subseteq jsStore
             /\ ~RefusedTwin(k) => jsJob[k].input \in jsStore
             /\ jsJob[k].body.quoted => jsJob[k].alive
             /\ jsJob[k].epoch = jsCall[jsJob[k].call].epoch
  <2>1. k \in JsKeys /\ jsJob[k] # NoRow /\ JsRowInv(k)  BY <1>1 DEF JsRows, JsInv
  <2>2. PICK c \in JsCalls : c = jsJob[k].call  BY <2>1 DEF JsRowInv
  <2>3. /\ jsCall[c].pc = "done" /\ jsCall[c].reply = "accepted"
        /\ jsCall[c].key = k /\ jsCall[c].body = jsJob[k].body
        /\ jsJob[k].tasks = TaskObjects(c) /\ jsJob[k].input = CanonicalInput(c)
    BY <2>1, <2>2 DEF JsRowInv
  <2>4. JsChunkInv(c) /\ JsInputInv(c)  BY DEF JsInv
  <2>5. TaskObjects(c) = IF jsCall[c].body.media THEN {CanonicalInput(c)} ELSE {ChunkObject(c)}
    BY <2>3, JsOwnObjects
  <2>6. jsCall[c].body.media \/ ChunkObject(c) \in jsStore  BY <2>3, <2>4 DEF JsChunkInv
  <2>7. jsJob[k].tasks \ {jsJob[k].input} \subseteq jsStore
    <3>1. CASE jsCall[c].body.media  BY <2>3, <2>5, <3>1
    <3>2. CASE ~jsCall[c].body.media  BY <2>3, <2>5, <2>6, <3>2
    <3> QED BY <3>1, <3>2
  <2>8. ~RefusedTwin(k) => jsJob[k].input \in jsStore
    <3>1. JsInputKept(c)  BY <2>3, <2>4 DEF JsInputInv
    <3>2. \A d \in JsCalls : JsTwin(c, d) => RefusedTwin(k)
      BY <2>2, <2>3 DEF JsTwin, RefusedTwin
    <3> QED BY <2>3, <3>1, <3>2 DEF JsInputKept
  <2> QED BY <2>1, <2>7, <2>8 DEF JsRowInv
<1>2. AcceptedInputsKept /\ QuoteAliveAtAcceptance /\ AcceptedUnderCurrentPolicy
  BY <1>1 DEF AcceptedInputsKept, QuoteAliveAtAcceptance, AcceptedUnderCurrentPolicy
<1>3. HeldOncePerJob  BY SMTT(20) DEF JsInv, JsFundInv, HeldOncePerJob
<1>4. AnswersMatchRequest  BY DEF JsInv, JsAnswerInv, AnswersMatchRequest
<1>5. RefusedLeavesNoTasks  BY DEF JsInv, JsChunkInv, RefusedLeavesNoTasks
<1> QED BY <1>2, <1>3, <1>4, <1>5 DEF SubmittedOnce

\* For every number of concurrent requests, keys, bodies and units: whatever retries,
\* conflicting bodies, refusals, crashes, policy changes and expiring quotes interleave
\* with createJob, a key yields one job held once, answered to the requests that asked
\* for it, accepted on what held at SubmitJobTx, with its task inputs kept and, but
\* for a refused twin with the same key and body, its input.
THEOREM JobSubmittedOnce == JsSpec => []SubmittedOnce
<1>1. JsSpec => []JsInv
  BY JsInitial, JsStep, PTL DEF JsSpec
<1> QED BY <1>1, JsImplies, PTL
=============================================================================
