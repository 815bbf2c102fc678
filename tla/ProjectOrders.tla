---------------------------- MODULE ProjectOrders ----------------------------
(***************************************************************************)
(* A project is a graph of steps that a buyer approves under one price     *)
(* ceiling.  Its command line client quotes the dependency-free steps,     *)
(* opens one order on the server, submits the steps as firm jobs, writes   *)
(* each verified result into the project directory, and only then quotes   *)
(* and submits the steps that read it (src/control/project_*.go).          *)
(*                                                                         *)
(* The order and its step rows are the server's; quotes, submissions and   *)
(* hand-off receipts are files the buyer keeps.  Several commands may run  *)
(* at once on one project, a reply may be lost after the server has acted, *)
(* a command may be killed between two of its steps, a quote may expire,   *)
(* and the buyer may edit or delete what a command wrote.  A command that  *)
(* quotes or submits a dependent step reads the upstream output twice:     *)
(* once to check it against its receipt, once to use it.                   *)
(***************************************************************************)
EXTENDS Integers, FiniteSets, Sequences, FiniteSetsExt

CONSTANTS
    PoClients,   \* commands that may run at once
    PoRoots,     \* steps without a dependency, as a sequence of names
    PoUpstream,  \* dependent step -> the step whose output it reads
    PoRounds,    \* step -> how often it may be quoted
    PoPrices,    \* maximum prices a quote may carry
    PoCeiling,   \* the buyer's ceiling for the whole project
    PoEdited,    \* bytes no job produced
    PoNone

ASSUME ProjectAssumption ==
    /\ PoCeiling \in Nat \ {0} /\ PoPrices \subseteq Nat \ {0}
    /\ \A d \in DOMAIN PoUpstream : PoUpstream[d] # d
    /\ \A i, j \in 1 .. Len(PoRoots) : PoRounds[PoRoots[i]] = PoRounds[PoRoots[j]]

RootSet    == {PoRoots[i] : i \in 1 .. Len(PoRoots)}
Dependents == DOMAIN PoUpstream
ProjectSteps == RootSet \cup Dependents
QuoteIds   == UNION {(1 .. PoRounds[s]) \X {s} : s \in ProjectSteps}
Rounds     == 1 .. PoRounds[PoRoots[1]]
StepOf(q)  == q[2]

VARIABLES
    poOrder,     \* whether the server holds the OPEN order of this project
    poSlots,     \* step -> the quote whose job consumed the step's slot
    poJobs,      \* quote -> state of the job submitted under its key
    poQuotes,    \* quote -> [max, input, live]
    poFiles,     \* step -> what its output file holds
    poCommands,  \* client -> the command it runs
    poSubmissions, \* accepted submission artifacts, each a set of quotes
    poReceipts,  \* materialization receipts, each a quote whose output was written
    poSlips      \* history: <<quote, command>> whose file changed after its check

poVars == <<poOrder, poSlots, poJobs, poQuotes, poFiles, poCommands,
            poSubmissions, poReceipts, poSlips>>

\* max: the price a quote-step will be given.
NoCommand == [at |-> "idle", todo |-> <<>>, done |-> {}, max |-> 0]

PoInit ==
    /\ poOrder = FALSE
    /\ poSlots = [s \in ProjectSteps |-> PoNone]
    /\ poJobs = [q \in QuoteIds |-> "none"]
    /\ poQuotes = [q \in QuoteIds |-> PoNone]
    /\ poFiles = [s \in ProjectSteps |-> PoNone]
    /\ poCommands = [c \in PoClients |-> NoCommand]
    /\ poSubmissions = {}
    /\ poReceipts = {} /\ poSlips = {}

-----------------------------------------------------------------------------
(* The server: the order, its reservations and the admission of a step.    *)

Quoted(q) == poQuotes[q] # PoNone
TotalMax(qs) == MapThenSumSet(LAMBDA q : poQuotes[q].max, qs)

\* fillProjectOrderReservation: what the accepted steps have promised.
ReservedNanos ==
    TotalMax({poSlots[s] : s \in {t \in ProjectSteps : poSlots[t] # PoNone}})
RemainingNanos == PoCeiling - ReservedNanos

\* Mutant: each step is held to the ceiling by itself.
ReservesStep_Alone(q) ==
    /\ poOrder
    /\ poSlots[StepOf(q)] = PoNone
    /\ poQuotes[q].max <= PoCeiling
\* reserveProjectStepTx, under the order's row lock.
ReservesStep(q) ==
    /\ poOrder
    /\ poSlots[StepOf(q)] = PoNone
    /\ poQuotes[q].max <= RemainingNanos

\* POST /v1/jobs: the key names the quote, so a known key is replayed; else the
\* firm quote must be alive and the step's slot free.
Answers(q) == poJobs[q] # "none" \/ (poQuotes[q].live /\ ReservesStep(q))

AdmitStep(q) ==
    IF poJobs[q] = "none" /\ Answers(q)
    THEN /\ poJobs' = [poJobs EXCEPT ![q] = "queued"]
         /\ poSlots' = [poSlots EXCEPT ![StepOf(q)] = q]
    ELSE UNCHANGED <<poJobs, poSlots>>

-----------------------------------------------------------------------------
(* The client's commands.                                                  *)

AtStage(c, at) == poCommands[c].at = at
Become(c, command) == poCommands' = [poCommands EXCEPT ![c] = command]

RoundOf(n) == [i \in 1 .. Len(PoRoots) |-> <<n, PoRoots[i]>>]
InRound(n) == {<<n, s>> : s \in RootSet}

\* quoteInitialProjectRoots: every root is priced, the sum within the ceiling.
QuoteRoots(c, n) ==
    /\ AtStage(c, "idle")
    /\ \A q \in InRound(n) : ~Quoted(q)
    /\ n > 1 => \A q \in InRound(n - 1) : Quoted(q)
    /\ \E price \in [RootSet -> PoPrices] :
        /\ MapThenSumSet(LAMBDA s : price[s], RootSet) <= PoCeiling
        /\ poQuotes' = [q \in QuoteIds |->
              IF q \in InRound(n)
              THEN [max |-> price[StepOf(q)], input |-> PoNone, live |-> TRUE]
              ELSE poQuotes[q]]
    /\ UNCHANGED <<poOrder, poSlots, poJobs, poFiles, poCommands, poSubmissions, poReceipts, poSlips>>

\* validateProjectQuoteForSubmit: no quote of the artifact has expired.
SubmitRoots(c, n) ==
    /\ AtStage(c, "idle")
    /\ \A q \in InRound(n) : Quoted(q) /\ poQuotes[q].live
    /\ Become(c, [at |-> "create", todo |-> RoundOf(n), done |-> {}, max |-> 0])
    /\ UNCHANGED <<poOrder, poSlots, poJobs, poQuotes, poFiles, poSubmissions, poReceipts, poSlips>>

\* POST /v1/projects under a key derived from the IR: the order is opened, or
\* the open one is returned.  A lost reply ends the command REFUSED.
CreateProjectOrder(c) ==
    /\ AtStage(c, "create")
    /\ poOrder' = TRUE
    /\ \/ Become(c, [poCommands[c] EXCEPT !.at = "post"])
       \/ Become(c, NoCommand)
    /\ UNCHANGED <<poSlots, poJobs, poQuotes, poFiles, poSubmissions, poReceipts, poSlips>>

\* One POST of submitInitialProjectRoots or submitDependentProjectStep.  An error
\* or a lost reply ends the command PARTIAL or INDETERMINATE and records no
\* acceptance; the last accepted step makes the whole submission ACCEPTED.
PostStep(c) ==
    /\ AtStage(c, "post")
    /\ LET q    == Head(poCommands[c].todo)
           rest == Tail(poCommands[c].todo)
           done == poCommands[c].done \cup {q}
       IN /\ AdmitStep(q)
          /\ \/ /\ Answers(q)
                /\ IF rest = <<>>
                   THEN /\ poSubmissions' = poSubmissions \cup {done}
                        /\ Become(c, NoCommand)
                   ELSE /\ Become(c, [at |-> "post", todo |-> rest, done |-> done, max |-> 0])
                        /\ UNCHANGED poSubmissions
             \/ /\ Become(c, NoCommand)
                /\ UNCHANGED poSubmissions
    /\ UNCHANGED <<poOrder, poQuotes, poFiles, poReceipts, poSlips>>

-----------------------------------------------------------------------------
(* Handing a verified output over to the step that reads it.               *)

Complete(q) == poJobs[q] \in {"complete", "purged"}

\* materializeProjectStep: an accepted submission, a verified receipt, a retained
\* result, and no file yet under the declared output name.
HandsOver(q) == poJobs[q] = "complete" /\ poFiles[StepOf(q)] = PoNone

Materialize(c) ==
    /\ AtStage(c, "idle")
    /\ \E q \in UNION poSubmissions :
        /\ HandsOver(q)
        /\ Become(c, [at |-> "write", todo |-> <<q>>, done |-> {}, max |-> 0])
    /\ UNCHANGED <<poOrder, poSlots, poJobs, poQuotes, poFiles, poSubmissions, poReceipts, poSlips>>

\* writeDeclaredProjectOutput renames the finished temporary file into place,
\* over whatever appeared there since the command looked.
WriteOutput(c) ==
    /\ AtStage(c, "write")
    /\ LET q == Head(poCommands[c].todo)
       IN poFiles' = [poFiles EXCEPT ![StepOf(q)] = q]
    /\ Become(c, [poCommands[c] EXCEPT !.at = "receipt"])
    /\ UNCHANGED <<poOrder, poSlots, poJobs, poQuotes, poSubmissions, poReceipts, poSlips>>

WriteReceipt(c) ==
    /\ AtStage(c, "receipt")
    /\ poReceipts' = poReceipts \cup {Head(poCommands[c].todo)}
    /\ Become(c, NoCommand)
    /\ UNCHANGED <<poOrder, poSlots, poJobs, poQuotes, poFiles, poSubmissions, poSlips>>

\* validateDependentMaterializations: the receipt names the job that holds the
\* upstream slot, that job is complete and verified, and the local bytes are
\* still the ones the receipt hashed.
HandoffHolds(d) ==
    \E r \in poReceipts : /\ StepOf(r) = PoUpstream[d]
                          /\ poSlots[PoUpstream[d]] = r
                          /\ Complete(r)
                          /\ poFiles[PoUpstream[d]] = r

\* quoteDependentProjectStep: the order and the hand-off are checked; the price must be
\* within what the order had left then.
QuoteStep(c, n, d) ==
    LET q == <<n, d>>
    IN /\ AtStage(c, "idle")
       /\ ~Quoted(q) /\ (n > 1 => Quoted(<<n - 1, d>>))
       /\ poOrder /\ HandoffHolds(d)
       /\ \E max \in {p \in PoPrices : p <= RemainingNanos} :
            Become(c, [at |-> "price", todo |-> <<q>>, done |-> {}, max |-> max])
       /\ UNCHANGED <<poOrder, poSlots, poJobs, poQuotes, poFiles, poSubmissions, poReceipts,
                      poSlips>>

InputFile(q) == poFiles[PoUpstream[StepOf(q)]]
\* The file no longer holds what the check before read (history).
Slip(q, command) ==
    poSlips' = IF InputFile(q) = poSlots[PoUpstream[StepOf(q)]] THEN poSlips
               ELSE poSlips \cup {<<q, command>>}

\* quoteCompiledProject reads the file again and has those bytes priced.  A number
\* another command used meanwhile is left to it.
PriceStep(c) ==
    /\ AtStage(c, "price")
    /\ LET q == Head(poCommands[c].todo)
       IN IF InputFile(q) = PoNone \/ Quoted(q)
          THEN UNCHANGED <<poQuotes, poSlips>>
          ELSE /\ poQuotes' = [poQuotes EXCEPT ![q] =
                    [max |-> poCommands[c].max, input |-> InputFile(q), live |-> TRUE]]
               /\ Slip(q, "quote")
    /\ Become(c, NoCommand)
    /\ UNCHANGED <<poOrder, poSlots, poJobs, poFiles, poSubmissions, poReceipts>>

\* validateDependentQuoteForSubmit: the hand-off again, the quote alive, its maximum
\* within what is left.
StepSubmittable(q) ==
    /\ Quoted(q) /\ poQuotes[q].live
    /\ poOrder /\ HandoffHolds(StepOf(q))
    /\ poQuotes[q].max <= RemainingNanos

SubmitStep(c) ==
    /\ AtStage(c, "idle")
    /\ \E q \in QuoteIds :
        /\ StepOf(q) \in Dependents
        /\ StepSubmittable(q)
        /\ Become(c, [at |-> "read", todo |-> <<q>>, done |-> {}, max |-> 0])
    /\ UNCHANGED <<poOrder, poSlots, poJobs, poQuotes, poFiles, poSubmissions, poReceipts, poSlips>>

\* validateProjectQuoteForSubmit reads the file again: the bytes sent are the quoted ones.
BoundToQuote(q) == poQuotes[q].input = InputFile(q)
ReadStep(c) ==
    /\ AtStage(c, "read")
    /\ LET q == Head(poCommands[c].todo)
       IN IF BoundToQuote(q)
          THEN Become(c, [poCommands[c] EXCEPT !.at = "post"]) /\ Slip(q, "submit")
          ELSE Become(c, NoCommand) /\ UNCHANGED poSlips
    /\ UNCHANGED <<poOrder, poSlots, poJobs, poQuotes, poFiles, poSubmissions, poReceipts>>

-----------------------------------------------------------------------------
(* The environment.                                                        *)

\* The command is killed, or its output cannot be written.
KillCommand(c) ==
    /\ ~AtStage(c, "idle")
    /\ Become(c, NoCommand)
    /\ UNCHANGED <<poOrder, poSlots, poJobs, poQuotes, poFiles, poSubmissions, poReceipts, poSlips>>

ExpireQuote(q) ==
    /\ Quoted(q) /\ poQuotes[q].live
    /\ poQuotes' = [poQuotes EXCEPT ![q].live = FALSE]
    /\ UNCHANGED <<poOrder, poSlots, poJobs, poFiles, poCommands, poSubmissions, poReceipts, poSlips>>

\* The job runs to its end, and its result is later purged by retention.
StepJobMoves(q) ==
    /\ \/ poJobs[q] = "queued" /\ poJobs' = [poJobs EXCEPT ![q] = "complete"]
       \/ poJobs[q] = "queued" /\ poJobs' = [poJobs EXCEPT ![q] = "failed"]
       \/ poJobs[q] = "complete" /\ poJobs' = [poJobs EXCEPT ![q] = "purged"]
    /\ UNCHANGED <<poOrder, poSlots, poQuotes, poFiles, poCommands, poSubmissions, poReceipts, poSlips>>

\* The buyer edits or deletes an output in the project directory; one that no step
\* reads matters to nobody.
TouchFile(s) ==
    /\ poFiles[s] # PoNone /\ \E d \in Dependents : PoUpstream[d] = s
    /\ \E body \in {PoEdited, PoNone} : poFiles' = [poFiles EXCEPT ![s] = body]
    /\ UNCHANGED <<poOrder, poSlots, poJobs, poQuotes, poCommands, poSubmissions, poReceipts, poSlips>>

PoNext ==
    \/ \E c \in PoClients :
        \/ \E n \in Rounds : QuoteRoots(c, n) \/ SubmitRoots(c, n)
        \/ CreateProjectOrder(c) \/ PostStep(c)
        \/ Materialize(c) \/ WriteOutput(c) \/ WriteReceipt(c)
        \/ \E d \in Dependents : \E n \in 1 .. PoRounds[d] : QuoteStep(c, n, d)
        \/ PriceStep(c) \/ SubmitStep(c) \/ ReadStep(c) \/ KillCommand(c)
    \/ \E q \in QuoteIds : ExpireQuote(q) \/ StepJobMoves(q)
    \/ \E s \in ProjectSteps : TouchFile(s)

PoSpec == PoInit /\ [][PoNext]_poVars

-----------------------------------------------------------------------------
(* Properties.                                                             *)

\* The maxima of all accepted steps together stay within the one ceiling the
\* buyer approved, however many commands submit at once
\* (project_order.go:203-257, "serializes all step reservations").
CeilingKept == ReservedNanos <= PoCeiling

\* A step is bought once: a lost reply followed by a retry, a second command, or
\* a fresh quote of the same step never leaves two jobs for it, and the job is
\* the one the order names.
StepBoughtOnce ==
    \A q \in QuoteIds : poJobs[q] # "none" => poSlots[StepOf(q)] = q

\* A dependent job reads exactly the bytes its upstream step's accepted job produced,
\* and that job had completed.  Each of the two commands checks the file and then reads
\* it again (project_dependency.go:264-271, project_quote.go:75, project_submit.go:143),
\* so other bytes pass only when the file was swapped after the check of both; a file
\* that changed under one of them, or between them, never does.
ReadsVerifiedOutput ==
    \A q \in QuoteIds :
        poJobs[q] # "none" /\ StepOf(q) \in Dependents =>
            /\ \/ poQuotes[q].input = poSlots[PoUpstream[StepOf(q)]]
               \/ {<<q, "quote">>, <<q, "submit">>} \subseteq poSlips
            /\ Complete(poSlots[PoUpstream[StepOf(q)]])

\* A receipt is only written for the job that holds its step's slot, after that
\* job completed, so no later purge or retry can turn it into someone else's.
ReceiptNamesTheSlot ==
    \A r \in poReceipts : poSlots[StepOf(r)] = r /\ Complete(r)

\* The steps of an order are bought once each, within the one approved ceiling and on
\* the verified outputs of the steps before them.
OrderKept == CeilingKept /\ StepBoughtOnce /\ ReadsVerifiedOutput /\ ReceiptNamesTheSlot

-----------------------------------------------------------------------------
(***************************************************************************)
(* The receipts a project compile leaves behind, and the evidence that is  *)
(* later filed against them (src/control/project_compiler.go,              *)
(* project_compile_api.go, project_compile_receipts.go,                    *)
(* project_contracts.go, render_assembly_receipts.go,                      *)
(* lora_evaluation_receipts.go).                                           *)
(*                                                                         *)
(* A buyer uploads an archive and gets a proposal; with the proposal's     *)
(* digest they may ask for the bounded probe of the same archive.  The     *)
(* probed receipt admits render assembly manifests of that buyer and LoRA  *)
(* evaluations by workers.  Compiles run concurrently, each against the    *)
(* process's activation, which may be replaced at any time.                *)
(***************************************************************************)
CONSTANTS
    PrBuyers,     \* buyer accounts
    PrProjects,   \* archives (their inventory digest)
    PrCompiles,   \* concurrent compile requests
    PrCells,      \* PrCells[a]: routable cells of activation a that match the declaration
    PrManifests,  \* render assembly manifests that cover the step
    PrWorkers,    \* workers that may train or evaluate
    PrAccount,    \* the buyer account that owns a worker's supplier
    PrRuns,       \* LoRA run identities
    PrScores,     \* candidate scores an evaluator may report
    PrBaseline,   \* baseline score, and what an adapter must beat
    PrMaxEvidence,\* bound on the manifests and evaluations that are answered
    PrNone        \* no value

VARIABLES
    prActivation, \* the process's current activation
    prCall,       \* prCall[c]: a compile request
    prReceipts,   \* project_compile_receipts
    prAssemblies, \* project_render_assembly_receipts
    prVerdicts,   \* project_lora_evaluation_receipts
    prAnswers     \* evaluation receipts the workers were answered with

prVars == <<prActivation, prCall, prReceipts, prAssemblies, prVerdicts, prAnswers>>

-----------------------------------------------------------------------------
(* Compiling.                                                              *)

\* resolveDeclaredProjectContracts: a step is bound to a cell only when exactly
\* one routable cell of the current activation matches its contracts.
Resolution(activation) ==
    IF Cardinality(PrCells[activation]) = 1
    THEN CHOOSE cell \in PrCells[activation] : TRUE ELSE PrNone

\* buildProjectIR: what the digest of the graph tells apart.
IR(project, activation, probed, approved) ==
    [project |-> project, cell |-> Resolution(activation), probed |-> probed,
     approved |-> approved]
Proposal(project, activation) == IR(project, activation, FALSE, PrNone)

NoCall == [stage |-> "idle"]
\* An approved digest is one some buyer was shown.
Digests == {r.ir : r \in {q \in prReceipts : ~q.ir.probed}}

\* handleProjectCompile up to the first build.
ApprovalCurrent(project, approved) == approved = Proposal(project, prActivation)

Propose(c) ==
    /\ prCall[c].stage = "idle"
    /\ \E b \in PrBuyers, p \in PrProjects :
        prCall' = [prCall EXCEPT ![c] =
            [stage |-> "record", buyer |-> b, ir |-> Proposal(p, prActivation)]]
    /\ UNCHANGED <<prActivation, prReceipts, prAssemblies, prVerdicts, prAnswers>>

AskProbe(c) ==
    /\ prCall[c].stage = "idle"
    /\ \E b \in PrBuyers, p \in PrProjects, approved \in Digests :
        /\ ApprovalCurrent(p, approved)
        /\ prCall' = [prCall EXCEPT ![c] =
            [stage |-> "probe", buyer |-> b, project |-> p, approved |-> approved]]
    /\ UNCHANGED <<prActivation, prReceipts, prAssemblies, prVerdicts, prAnswers>>

\* compileProject builds the graph a second time, against the activation of then.
Probe(c) ==
    /\ prCall[c].stage = "probe"
    /\ prCall' = [prCall EXCEPT ![c] =
        [stage |-> "record", buyer |-> prCall[c].buyer,
         ir |-> IR(prCall[c].project, prActivation, TRUE, prCall[c].approved)]]
    /\ UNCHANGED <<prActivation, prReceipts, prAssemblies, prVerdicts, prAnswers>>

\* RecordProjectCompileReceipt: a probe follows a proposal receipt of this buyer.
ProposalOnFile(buyer, ir) ==
    \E r \in prReceipts : r.buyer = buyer /\ r.ir = ir.approved /\ r.ir.project = ir.project

\* RecordProjectCompileReceipt: the insert, a no-op for a graph already on file.
RecordCompile(c) ==
    /\ prCall[c].stage = "record"
    /\ LET call == prCall[c]
       IN prReceipts' = IF call.ir.probed /\ ~ProposalOnFile(call.buyer, call.ir)
                        THEN prReceipts
                        ELSE prReceipts \cup {[buyer |-> call.buyer, ir |-> call.ir]}
    /\ prCall' = [prCall EXCEPT ![c] = NoCall]
    /\ UNCHANGED <<prActivation, prAssemblies, prVerdicts, prAnswers>>

ActivationReplaced ==
    /\ prActivation + 1 \in DOMAIN PrCells
    /\ prActivation' = prActivation + 1
    /\ UNCHANGED <<prCall, prReceipts, prAssemblies, prVerdicts, prAnswers>>

-----------------------------------------------------------------------------
(* Evidence against a receipt.                                             *)

Filed == Cardinality(prAssemblies) + Cardinality(prAnswers)

\* The receipt was probed.
Admits(receipt) == receipt.ir.probed

\* handleProjectCompileRenderAssembly and RecordProjectRenderAssemblyReceipt: the
\* receipt is looked up by its buyer; the same manifest is recorded once.
RecordAssembly(b) ==
    /\ Filed < PrMaxEvidence
    /\ \E r \in prReceipts, m \in PrManifests :
        /\ r.buyer = b /\ Admits(r)
        /\ prAssemblies' = prAssemblies \cup {[buyer |-> b, compile |-> r, manifest |-> m]}
    /\ UNCHANGED <<prActivation, prCall, prReceipts, prVerdicts, prAnswers>>

\* validateLoRAIndependence and the worker comparison before it.
Independent2(trainer, evaluator) ==
    trainer # evaluator /\ PrAccount[trainer] # PrAccount[evaluator]

\* The evidence a submission amounts to: who, against which receipt, what outcome.
Evidence(r, run, trainer, evaluator, score) ==
    [compile |-> r, run |-> run, trainer |-> trainer, evaluator |-> evaluator,
     score |-> score, succeeded |-> score >= PrBaseline]
SameKey(v, w) == v.compile = w.compile /\ v.run = w.run /\ v.evaluator = w.evaluator

\* Mutant: a second submission for the run is answered from what it says itself.
Answered_Own(evidence, stored) == evidence
\* The answer is the stored receipt's.
Answered(evidence, stored) == stored

\* handleWorkerLoRAEvaluation and RecordProjectLoRAEvaluation: one row per
\* receipt, evaluator and run; a repeat is answered with the stored row, or
\* refused when its evidence differs.
RecordEvaluation(evaluator) ==
    /\ Filed < PrMaxEvidence
    /\ \E r \in prReceipts, run \in PrRuns, trainer \in PrWorkers, score \in PrScores :
        LET evidence == Evidence(r, run, trainer, evaluator, score)
            earlier  == {v \in prVerdicts : SameKey(v, evidence)}
        IN /\ Admits(r) /\ Independent2(trainer, evaluator)
           /\ \A v \in earlier : Answered(evidence, v) = evidence
           /\ prVerdicts' = IF earlier = {} THEN prVerdicts \cup {evidence} ELSE prVerdicts
           /\ prAnswers' = prAnswers \cup {evidence}
    /\ UNCHANGED <<prActivation, prCall, prReceipts, prAssemblies>>

-----------------------------------------------------------------------------

PrInit ==
    /\ prActivation = 1 /\ prCall = [c \in PrCompiles |-> NoCall]
    /\ prReceipts = {} /\ prAssemblies = {} /\ prVerdicts = {} /\ prAnswers = {}

PrNext ==
    \/ \E c \in PrCompiles : Propose(c) \/ AskProbe(c) \/ Probe(c) \/ RecordCompile(c)
    \/ ActivationReplaced
    \/ \E b \in PrBuyers : RecordAssembly(b)
    \/ \E w \in PrWorkers : RecordEvaluation(w)

PrSpec == PrInit /\ [][PrNext]_prVars

-----------------------------------------------------------------------------
(* Properties.                                                             *)

\* Every piece of render or LoRA evidence rests on a probed receipt, the probed
\* receipt on a proposal the same buyer has on file, and the probe has read the
\* very project that proposal describes.
EvidenceRestsOnApproval ==
    \A r \in {a.compile : a \in prAssemblies} \cup {v.compile : v \in prVerdicts}
                \cup {q \in prReceipts : q.ir.probed} :
        /\ r \in prReceipts /\ r.ir.probed
        /\ \E proposal \in prReceipts :
            /\ proposal.buyer = r.buyer /\ proposal.ir = r.ir.approved
            /\ ~proposal.ir.probed /\ proposal.ir.project = r.ir.project

\* Whatever retries and repeats an evaluator sends, all the receipts it was ever
\* answered for one run state one outcome.
VerdictIsStable ==
    \A v, w \in prAnswers : SameKey(v, w) => v = w

\* What is on record about a compiled project rests on what its buyer approved and is
\* answered alike to every repetition.
ReceiptsStand == EvidenceRestsOnApproval /\ VerdictIsStable
=============================================================================
