---------------------------- MODULE ProjectGraph -----------------------------
(***************************************************************************)
(* What the project compiler computes: which declared step graphs it       *)
(* accepts, how long their critical path is, how a render step is cut into *)
(* work units, which assembly manifests count as complete, and how much of *)
(* a project the bounded probe has measured (src/control/                  *)
(* project_declaration.go, project_compiler.go, project_quote.go,          *)
(* render_work_plan.go, render_assembly.go).                               *)
(*                                                                         *)
(* These are functions, so the machine only builds their inputs: a graph   *)
(* step by step, a manifest attempt by attempt, a file list file by file,  *)
(* and the shapes of a render.  Every property compares what the code      *)
(* computes with an independent definition of what it should mean.         *)
(***************************************************************************)
EXTENDS Integers, FiniteSets, Sequences, FiniteSetsExt, SequencesExt

CONSTANTS
    PgSteps,       \* step ids, declared in this order; a step's output bears its id
    PgFile,        \* a project file no step produces
    PgKind,        \* the workload kind of each step
    PgSecs,        \* the quoted duration of each step
    PgShapes,      \* render declarations that passed validateProjectRendering
    SamplesPerUnit,\* renderSamplesPerUnit
    MaxUnits,      \* projectRenderMaxWorkUnits
    MaxTries,      \* maxRenderAssemblyAttempts
    PgUnits,       \* work units of the assembled step
    PgMaxAttempts, \* length of the manifests that are built
    PgSizes,       \* sizes of project files
    FileLimit,     \* projectMaxFileBytes
    InspectLimit,  \* projectMaxInspectBytes
    ProbeLimit,    \* projectProbeMaxBytes
    PgMaxFiles     \* length of the file lists that are built

VARIABLES
    pgTask,     \* which input is being built
    pgGraph,    \* the declared steps
    pgShape,    \* the declared render
    pgManifest, \* the assembly manifest
    pgList      \* sizes of the project's files

pgVars == <<pgTask, pgGraph, pgShape, pgManifest, pgList>>

-----------------------------------------------------------------------------
(* The declared graph.                                                     *)

Ids(steps) == {steps[i].id : i \in 1 .. Len(steps)}
StepNamed(steps, id) == CHOOSE s \in ToSet(steps) : s.id = id
DepsOf(steps, id) == StepNamed(steps, id).deps

\* validateProjectDeclaration: the checks on one step and on its dependency names.
StepsWellFormed(steps) ==
    /\ steps # <<>>
    /\ \A s \in ToSet(steps) : s.inputs # {} /\ s.outputs # {}
    /\ \A s \in ToSet(steps) : s.deps \subseteq Ids(steps) \ {s.id}

\* Mutant: only a step that depends on itself is found.
Visit_Self(steps, path, id) == id \in DepsOf(steps, id)
\* validateProjectDAG: a depth-first visit meets a step it is still visiting.
Visit(steps, path, id) ==
    LET meets[p \in SUBSET Ids(steps), i \in Ids(steps)] ==
            \/ i \in p
            \/ \E d \in DepsOf(steps, i) : meets[p \cup {i}, d]
    IN meets[path, id]
HasCycle(steps) == \E id \in Ids(steps) : Visit(steps, {}, id)

ProducersOf(steps, artifact) == {s \in ToSet(steps) : artifact \in s.outputs}
Consumed(steps, step, dependency) ==
    \E input \in step.inputs : \E p \in ProducersOf(steps, input) : p.id = dependency

\* An input some step produces comes from a declared dependency, never from the
\* step itself, and never as vectors where text is read.
InputDeclared(steps, step, input) ==
    \A p \in ProducersOf(steps, input) :
        /\ ~(p.kind = "embeddings" /\ step.kind \in {"embeddings", "batch_inference"})
        /\ p.id # step.id
        /\ p.id \in step.deps

\* validateProjectArtifactDataflow.
DataflowValid(steps) ==
    /\ \A s, t \in ToSet(steps) : s # t => s.outputs \cap t.outputs = {}
    /\ \A s \in ToSet(steps) :
        /\ \A input \in s.inputs : InputDeclared(steps, s, input)
        /\ \A d \in s.deps : Consumed(steps, s, d)

GraphAccepted(steps) ==
    StepsWellFormed(steps) /\ ~HasCycle(steps) /\ DataflowValid(steps)

\* projectCriticalPath: the longest chain that ends in the step, memoised.
PathThrough(steps, id) ==
    LET path[i \in Ids(steps)] ==
            StepNamed(steps, i).secs + Max({0} \cup {path[d] : d \in DepsOf(steps, i)})
    IN path[id]
CriticalPath(steps) == Max({PathThrough(steps, id) : id \in Ids(steps)})

\* initialProjectRoots: the steps a project starts with.
InitialRoots(steps) == {s \in ToSet(steps) : s.deps = {}}

-----------------------------------------------------------------------------
(* Cutting a render into work units.                                       *)

Ceil(a, b) == (a + b - 1) \div b
TileW(r) == IF r.tileW = 0 THEN r.width ELSE r.tileW
TileH(r) == IF r.tileW = 0 THEN r.height ELSE r.tileH

\* deriveProjectRenderWorkPlan: the counts, refused when the product is too large.
WorkPlan(r) ==
    [frames     |-> r.lastFrame - r.firstFrame + 1,
     cameras    |-> r.cameras,
     columns    |-> Ceil(r.width, TileW(r)),
     rows       |-> Ceil(r.height, TileH(r)),
     partitions |-> Ceil(r.samples, SamplesPerUnit)]
UnitCount(r) ==
    LET p == WorkPlan(r) IN p.frames * p.cameras * p.columns * p.rows * p.partitions
PlanRefused(r) == UnitCount(r) > MaxUnits

PgLeast(a, b) == IF a <= b THEN a ELSE b

\* projectRenderWorkUnitAt: the ordinal read as digits, least significant first.
UnitAt(r, ordinal) ==
    LET p == WorkPlan(r)
        a == ordinal \div p.partitions
        b == a \div p.columns
        c == b \div p.rows
        x == (a % p.columns) * TileW(r)
        y == (b % p.rows) * TileH(r)
        s == (ordinal % p.partitions) * SamplesPerUnit
    IN [frame |-> r.firstFrame + c \div p.cameras, camera |-> c % p.cameras,
        x |-> x, y |-> y,
        w |-> PgLeast(TileW(r), r.width - x), h |-> PgLeast(TileH(r), r.height - y),
        from |-> s, to |-> PgLeast(s + SamplesPerUnit, r.samples)]

-----------------------------------------------------------------------------
(* Assembling the units.                                                   *)

\* The inner loop of validateOrdinalAssemblyCoverage over one ordinal's
\* observations: attempts count up from 0 and nothing follows a success.
AttemptFollows(attempt, succeeded, unit) ==
    unit.attempt = attempt /\ attempt < MaxTries /\ ~succeeded

StartOf == [ok |-> TRUE, ordinal |-> 0, attempt |-> 0, succeeded |-> FALSE,
            done |-> 0, failed |-> 0, replaced |-> 0]
\* One observation: it continues the present ordinal, or opens the next one once
\* the present one has succeeded.
Observe(acc, unit) ==
    LET opens == unit.ordinal = acc.ordinal + 1 /\ acc.succeeded
        at    == IF opens THEN 0 ELSE acc.attempt
        had   == IF opens THEN FALSE ELSE acc.succeeded
        fails == unit.status = "FAILED"
    IN [ok        |-> /\ acc.ok /\ (opens \/ unit.ordinal = acc.ordinal)
                      /\ unit.ordinal < PgUnits
                      /\ AttemptFollows(at, had, unit),
        ordinal   |-> IF opens THEN acc.ordinal + 1 ELSE acc.ordinal,
        attempt   |-> at + 1,
        succeeded |-> had \/ ~fails,
        done      |-> acc.done + (IF fails THEN 0 ELSE 1),
        failed    |-> acc.failed + (IF fails THEN 1 ELSE 0),
        replaced  |-> acc.replaced + (IF ~fails /\ unit.attempt > 0 THEN 1 ELSE 0)]
Coverage(manifest) == FoldLeft(Observe, StartOf, manifest)
ManifestAccepted(manifest) ==
    LET c == Coverage(manifest)
    IN manifest # <<>> /\ c.ok /\ c.succeeded /\ c.ordinal = PgUnits - 1 /\ c.done = PgUnits

-----------------------------------------------------------------------------
(* The bounded probe.                                                      *)
Total(sizes) == FoldLeft(LAMBDA a, b : a + b, 0, sizes)

\* inspectProject: what of each file's content the inspection keeps.
Kept(sizes) ==
    LET kept[i \in 0 .. Len(sizes)] ==
            IF i = 0 THEN <<>>
            ELSE LET left  == InspectLimit - Total(kept[i - 1])
                     limit == PgLeast(FileLimit, left)
                 IN Append(kept[i - 1], IF limit > 0 THEN PgLeast(sizes[i], limit) ELSE 0)
    IN kept[Len(sizes)]

SampleComplete(sizes, i, read) == read = sizes[i]

\* runBoundedProjectProbe: files in order until the budget is spent; the file at
\* which it is found spent, and all after it, are not sampled.
Sampled(sizes) ==
    LET content == Kept(sizes)
        probe[i \in 0 .. Len(sizes)] ==
            IF i = 0 THEN [left |-> ProbeLimit, seen |-> <<>>]
            ELSE LET last == probe[i - 1]
                     read == PgLeast(content[i], last.left)
                 IN IF last.left <= 0
                    THEN [last EXCEPT !.seen = Append(@, [bytes |-> 0, complete |-> FALSE])]
                    ELSE [left |-> last.left - read,
                          seen |-> Append(last.seen, [bytes |-> read,
                                     complete |-> SampleComplete(sizes, i, read)])]
    IN probe[Len(sizes)].seen

\* The estimate of a step that reads the given files.
StepMeasured(sizes, reads) ==
    reads # {} /\ \A i \in reads : Sampled(sizes)[i].complete
SampledBytes(sizes, reads) == MapThenSumSet(LAMBDA i : Sampled(sizes)[i].bytes, reads)

-----------------------------------------------------------------------------
(* Building the inputs.                                                    *)

PgInit ==
    /\ pgTask \in {"graph", "render", "assembly", "probe"}
    /\ pgGraph = <<>> /\ pgManifest = <<>> /\ pgList = <<>>
    /\ pgShape \in (IF pgTask = "render" THEN PgShapes ELSE {CHOOSE r \in PgShapes : TRUE})

DeclareStep ==
    /\ pgTask = "graph" /\ Len(pgGraph) < Len(PgSteps)
    /\ LET id == PgSteps[Len(pgGraph) + 1]
       IN \E deps \in SUBSET (ToSet(PgSteps) \ {id}),
             inputs \in kSubset(1, ToSet(PgSteps) \cup {PgFile})
                            \cup kSubset(2, ToSet(PgSteps) \cup {PgFile}),
             output \in {id, PgSteps[1]} :
            pgGraph' = Append(pgGraph, [id |-> id, deps |-> deps, inputs |-> inputs,
                                        outputs |-> {output}, kind |-> PgKind[id],
                                        secs |-> PgSecs[id]])
    /\ UNCHANGED <<pgTask, pgShape, pgManifest, pgList>>

AppendAttempt ==
    /\ pgTask = "assembly" /\ Len(pgManifest) < PgMaxAttempts
    /\ \E ordinal \in 0 .. PgUnits, attempt \in 0 .. MaxTries,
          status \in {"FAILED", "SUCCEEDED"} :
        pgManifest' = Append(pgManifest,
            [ordinal |-> ordinal, attempt |-> attempt, status |-> status])
    /\ UNCHANGED <<pgTask, pgGraph, pgShape, pgList>>

AddFile ==
    /\ pgTask = "probe" /\ Len(pgList) < PgMaxFiles
    /\ \E size \in PgSizes : pgList' = Append(pgList, size)
    /\ UNCHANGED <<pgTask, pgGraph, pgShape, pgManifest>>

PgNext == DeclareStep \/ AppendAttempt \/ AddFile
PgSpec == PgInit /\ [][PgNext]_pgVars

-----------------------------------------------------------------------------
(* Properties.                                                             *)

GraphDeclared == pgTask = "graph" /\ Len(pgGraph) = Len(PgSteps)
Done(steps, done) ==
    done \cup {id \in Ids(steps) : DepsOf(steps, id) \subseteq done}
Made(steps, done) == UNION {StepNamed(steps, id).outputs : id \in done}

\* An accepted project can always be carried through: whatever has been run in an
\* order that respects the declared dependencies, every step that is then ready
\* finds all of its produced inputs in place, and some step is ready until all
\* have run.  No producer races its reader, no step waits for ever, and the roots
\* are the steps that are ready first.
AcceptedGraphRuns ==
    GraphDeclared /\ GraphAccepted(pgGraph) =>
      /\ {s.id : s \in InitialRoots(pgGraph)} = Done(pgGraph, {})
      /\ \A done \in SUBSET Ids(pgGraph) :
            (\A id \in done : DepsOf(pgGraph, id) \subseteq done) =>
                /\ done # Ids(pgGraph) => Done(pgGraph, done) \ done # {}
                /\ \A id \in Done(pgGraph, done) \ done :
                    StepNamed(pgGraph, id).inputs \cap Made(pgGraph, Ids(pgGraph))
                        \subseteq Made(pgGraph, done)

Chains(steps) ==
    {chain \in UNION {[1 .. n -> Ids(steps)] : n \in 1 .. Len(steps)} :
        \A i \in 1 .. Len(chain) - 1 : chain[i + 1] \in DepsOf(steps, chain[i])}
\* The critical path a quote states is the longest chain of dependent steps, no
\* shorter and no longer.
CriticalPathIsLongest ==
    GraphDeclared /\ GraphAccepted(pgGraph) =>
        CriticalPath(pgGraph) =
            Max({Total([i \in 1 .. Len(c) |-> StepNamed(pgGraph, c[i]).secs])
                    : c \in Chains(pgGraph)})

\* The units of an admitted plan tile the render: every sample of every pixel of
\* every frame and camera belongs to exactly one ordinal.
WorkUnitsTile ==
    pgTask = "render" /\ ~PlanRefused(pgShape) =>
        \A frame \in pgShape.firstFrame .. pgShape.lastFrame,
           camera \in 0 .. pgShape.cameras - 1,
           x \in 0 .. pgShape.width - 1, y \in 0 .. pgShape.height - 1,
           sample \in 0 .. pgShape.samples - 1 :
            Cardinality({o \in 0 .. UnitCount(pgShape) - 1 :
                LET u == UnitAt(pgShape, o)
                IN /\ u.frame = frame /\ u.camera = camera
                   /\ x \in u.x .. u.x + u.w - 1 /\ y \in u.y .. u.y + u.h - 1
                   /\ sample \in u.from .. u.to - 1
                   /\ u.x + u.w <= pgShape.width /\ u.y + u.h <= pgShape.height}) = 1

\* A manifest is accepted exactly when every ordinal has its attempts in order,
\* numbered from 0, all but the last failed and the last one succeeded; and the
\* receipt counts just those.
Tries(ordinal) == SelectSeq(pgManifest, LAMBDA u : u.ordinal = ordinal)
AssemblyMeansComplete ==
    pgTask = "assembly" =>
        (ManifestAccepted(pgManifest) <=>
            /\ \A i, j \in 1 .. Len(pgManifest) :
                i < j => pgManifest[i].ordinal <= pgManifest[j].ordinal
            /\ \A i \in 1 .. Len(pgManifest) : pgManifest[i].ordinal < PgUnits
            /\ \A o \in 0 .. PgUnits - 1 :
                LET t == Tries(o)
                IN /\ Len(t) \in 1 .. MaxTries
                   /\ \A i \in 1 .. Len(t) :
                        /\ t[i].attempt = i - 1
                        /\ t[i].status = "SUCCEEDED" <=> i = Len(t))

\* A step is reported as measured only if every byte of every file it reads went
\* into the sample, however the three limits of inspection and probe fall.
MeasuredIsWhole ==
    pgTask = "probe" =>
        \A reads \in SUBSET (1 .. Len(pgList)) :
            StepMeasured(pgList, reads) =>
                SampledBytes(pgList, reads) = MapThenSumSet(LAMBDA i : pgList[i], reads)

\* What is promised of an accepted project can be done: it runs to the end in the
\* quoted time, its units tile the work, and it is assembled and measured whole.
GraphPlans ==
    /\ AcceptedGraphRuns /\ CriticalPathIsLongest /\ WorkUnitsTile
    /\ AssemblyMeansComplete /\ MeasuredIsWhole
=============================================================================
