----------------------------- MODULE ProgramAssembler -----------------------------
(***************************************************************************)
(* +[H16GProgramAssembler assembleGraph:...]: scheduled tasks become the   *)
(* artifacts and the dispatch plan of a bundle.  The assembler describes   *)
(* the tasks to the partition planner (ProgramPartition, composed here),   *)
(* then turns each partition into one program, or into several where the   *)
(* composer refuses.                                                       *)
(*                                                                         *)
(* Values are integers: a node of the graph is its position, and graph     *)
(* inputs are negative.  Constants are no values; a node with a constant   *)
(* scalar operand has that operand's magnitude in `scalar`.  Assembly      *)
(* starts from what the description loop (697-727) made of the schedule.   *)
(***************************************************************************)
EXTENDS H16GTargetRows

CONSTANTS
  Graphs,       \* the scheduled graphs
  Problems,     \* what the planner is asked about them
  InputValues,  \* the values that are graph inputs
  NoProgram     \* a nil H16GEncodedTask

(* Magnitudes of a scalar: its double is finite; it has a finite fp16      *)
(* value, and so has its product with log2(e), or only the first, or none. *)
Scalars == {"none", "small", "edge", "large"}

Node ==
  [op : STRING, reads : Seq(Int), scalar : Scalars, straight : BOOLEAN,
   lastAxis : BOOLEAN, shape : Shapes]

(* A task is the sequence of its stages.  Only its last value is read by   *)
(* other tasks: fusion keeps a value with several users out of a region.   *)
Graph ==
  [nodes : Seq(Node), inputs : [InputValues -> Shapes],
   outputs : SUBSET Nat, tasks : Seq(Seq(Nat))]

ASSUME GraphsAssumption ==
  InputValues \subseteq {v \in Int : v < 0} /\ Graphs \subseteq Graph

VARIABLES
  graph,       \* the scheduled graph
  capabilities, leaves,  \* what the tasks of the graph can do, and their programs
  disabled,    \* ANE_DISABLE_PROGRAM_COMPOSITION is set
  problem, start, candidate, bestEnd, lastExtended, pending, records,
  partitions, planning,  \* the planner's state
  at,          \* partition being assembled
  leaf,        \* next task of that partition
  combined,    \* program composed so far, or NoProgram
  programs,    \* encoded programs of the artifacts, in dispatch order
  status       \* "assembling", "assembled" or "declined"

givenVars == <<graph, capabilities, leaves, disabled>>

plannerVars == <<problem, start, candidate, bestEnd, lastExtended, pending,
                 records, partitions, planning>>

vars == <<givenVars, plannerVars, at, leaf, combined, programs, status>>

--------------------------------------------------------------------------------
(* Tasks, their boundary values and their capability rows. *)

NodeOf(g, v) == g.nodes[v]
ShapeOf(g, v) == IF v < 0 THEN g.inputs[v] ELSE NodeOf(g, v).shape
ShapesOf(g, vs) == [i \in DOMAIN vs |-> ShapeOf(g, vs[i])]
OpsOf(g, stages) == [i \in DOMAIN stages |-> NodeOf(g, stages[i]).op]

(* boundaryInputs: values read from outside, each once, in reading order.  *)
BoundaryReads(g, stages) ==
  LET reads == FlattenSeq([i \in DOMAIN stages |-> NodeOf(g, stages[i]).reads])
      fresh == SelectSeq([j \in DOMAIN reads |-> j], LAMBDA j :
                 reads[j] \notin ToSet(stages) \cup ToSet(SubSeq(reads, 1, j - 1)))
  IN [j \in DOMAIN fresh |-> reads[fresh[j]]]

(* scalarOperandForTask: the first stage of one tensor and one scalar.     *)
ScalarNodes(g, stages) ==
  SelectSeq(stages, LAMBDA v : NodeOf(g, v).scalar # "none"
                                 /\ NodeOf(g, v).reads = BoundaryReads(g, stages))

(* validateTaskSemantics. *)
SemanticsHold(g, stages, row) ==
  CASE row.needs = "straight"  -> NodeOf(g, Head(stages)).straight
    [] row.needs = "scalar"    -> ScalarNodes(g, stages) # <<>>
    [] row.needs = "last axis" -> NodeOf(g, Head(stages)).lastAxis
    [] OTHER                   -> TRUE

TaskRowsFor(g, stages, storage) ==
  RowsFor(OpsOf(g, stages), ShapesOf(g, BoundaryReads(g, stages)),
          ShapeOf(g, Last(stages)), storage)

(* taskCapabilityForTask: values the graph returns are external; for the   *)
(* others a row that keeps them in SRAM comes first.                       *)
CapabilityRows(g, stages) ==
  LET sram == IF Last(stages) \in g.outputs THEN {} ELSE TaskRowsFor(g, stages, "SRAM")
      rows == IF sram # {} THEN sram ELSE TaskRowsFor(g, stages, "External")
  IN {r \in rows : SemanticsHold(g, stages, r)}

Capability(g, k) ==
  LET row == CHOOSE r \in CapabilityRows(g, g.tasks[k]) : TRUE IN
  [family |-> row.family, operation |-> OperationOf(row.family, row.ops),
   size |-> Geometry(row), count |-> row.count]

EveryTaskCapable(g) ==
  \A k \in DOMAIN g.tasks : CapabilityRows(g, g.tasks[k]) # {}

(* capabilitiesByIndex: empty when some task has no capability.            *)
Capabilities(g) ==
  IF EveryTaskCapable(g) THEN [k \in DOMAIN g.tasks |-> Capability(g, k)] ELSE <<>>

BridgeTo(caps, k) == BridgesBetween(caps[k - 1], caps[k])

(* reasonedCanCompose; without composition only decoded pairs stay         *)
(* together.                                                               *)
MayCompose(caps, off, k) ==
  \E b \in BridgeTo(caps, k) : off => b.action = "fallback"

Contribution(caps, k) ==
  IF k > 1 /\ BridgeTo(caps, k) # {}
    THEN (CHOOSE b \in BridgeTo(caps, k) : TRUE).contribution
    ELSE caps[k].count

Bytes(shape) == 2 * shape.size * (IF shape.kind = "row" THEN 1 ELSE shape.size)

(* The planner knows a task's value by the task's position.                *)
PlannerName(g, v) ==
  IF v < 0 THEN v ELSE CHOOSE k \in DOMAIN g.tasks : Last(g.tasks[k]) = v

Describe(g, caps, k) ==
  [inputs |-> {PlannerName(g, v) : v \in ToSet(BoundaryReads(g, g.tasks[k]))},
   encoded |-> caps[k].count, contribution |-> Contribution(caps, k),
   bytes |-> Bytes(ShapeOf(g, Last(g.tasks[k])))]

PlanningProblem(g, caps, off) ==
  [tasks |-> [k \in DOMAIN caps |-> Describe(g, caps, k)],
   finals |-> {k \in DOMAIN caps : Last(g.tasks[k]) \in g.outputs},
   composable |-> {k \in DOMAIN caps \ {1} : MayCompose(caps, off, k)},
   taskLimit |-> 8]

ASSUME ProblemsAssumption ==
  Problems = {PlanningProblem(g, Capabilities(g), off) : g \in Graphs, off \in BOOLEAN}

P == INSTANCE ProgramPartition
       WITH MaxInputs <- 3, WorkingSet <- 2097152, MaxUInt <- 2147483647,
            NoLimit <- -1, phase <- planning

--------------------------------------------------------------------------------
(* Encoded programs: the nodes they stand for, their bindings, what they   *)
(* are known as to the composer, and the scalar nodes whose constants      *)
(* their descriptor words hold.                                            *)

Reversed == {"MatrixRowALU", "RowStateALU", "MatrixRowDivision"}

(* encodeRequest: only external rows encode.  `scalars` is empty or holds  *)
(* the node with the scalar operand.                                       *)
Encode(ops, stages, inputs, shapes, output, shape, scalars) ==
  LET rows == RowsFor(ops, shapes, shape, "External") IN
  IF rows = {} THEN NoProgram
  ELSE LET row == CHOOSE r \in rows : TRUE
           scales == row.family = "ScalarScale" IN
       IF scales /\ scalars = <<>> THEN NoProgram
       ELSE [stages |-> stages,
             inputs |-> IF row.family \in Reversed THEN Reverse(inputs) ELSE inputs,
             shapes |-> IF row.family \in Reversed THEN Reverse(shapes) ELSE shapes,
             output |-> output, shape |-> shape,
             family |-> row.family, operation |-> OperationOf(row.family, ops),
             size |-> Geometry(row),
             scalar |-> IF scales THEN Head(scalars) ELSE 0,
             folded |-> IF scales THEN {Head(scalars)} ELSE {}]

(* encodedTaskForTask. *)
Leaf(k) ==
  LET stages == graph.tasks[k]
      inputs == BoundaryReads(graph, stages) IN
  Encode(OpsOf(graph, stages), stages, inputs, ShapesOf(graph, inputs),
         Last(stages), ShapeOf(graph, Last(stages)), ScalarNodes(graph, stages))

(* externalShapeForIdentifier: a reduction is a row outside SRAM, whatever *)
(* type its node declares.                                                 *)
ExternalShape(v) ==
  LET shape == ShapeOf(graph, v) IN
  IF v > 0 /\ NodeOf(graph, v).op \in {"reduce_max", "reduce_sum"}
       /\ shape.kind # "matrix"
    THEN Row(shape.size) ELSE shape

ExternalShapes(vs) == [i \in DOMAIN vs |-> ExternalShape(vs[i])]

Primitive(ops, stages, inputs, output, scalars) ==
  Encode(ops, stages, inputs, ExternalShapes(inputs), output, ExternalShape(output),
         scalars)

FirstTask(i) == partitions[i][1]
LastTask(i) == partitions[i][2]

PartitionStages(i) ==
  FlattenSeq([j \in 1 .. LastTask(i) - FirstTask(i) + 1 |->
                graph.tasks[FirstTask(i) + j - 1]])

(* encodedSRAMProgramForPartition, which goes by the operations' names:    *)
(* the program of partition i, if it has one.                              *)
RegionOutputs(i) ==
  {Last(graph.tasks[k]) : k \in P!BoundaryOutputs(problem, FirstTask(i), LastTask(i))}

RegionProgram(stages, inputs, output) ==
  [stages |-> stages, inputs |-> inputs, shapes |-> ExternalShapes(inputs),
   output |-> output, shape |-> ExternalShape(output),
   family |-> "PrimitiveFallback", operation |-> NodeOf(graph, Last(stages)).op,
   size |-> 128, scalar |-> 0, folded |-> {}]

Regions(i) ==
  {e \in {RegionProgram(PartitionStages(i), BoundaryReads(graph, PartitionStages(i)), v) :
            v \in RegionOutputs(i)} :
     /\ ~ disabled /\ HasFormPlan(OpsOf(graph, e.stages))
     /\ Cardinality(RegionOutputs(i)) = 1
     /\ e.inputs # <<>> /\ Last(e.shapes) = Image(128)}

(* externalArtifactsForPartition: one program per stage, except that a     *)
(* reciprocal and the multiplication next to it become a division.         *)
Division(divisor, product) ==
  LET factors == SelectSeq(NodeOf(graph, product).reads, LAMBDA v : v # divisor)
      denominators == NodeOf(graph, divisor).reads IN
  IF \/ NodeOf(graph, product).op # "mul"
     \/ divisor \notin ToSet(NodeOf(graph, product).reads)
     \/ factors = <<>> \/ Len(denominators) # 1
    THEN NoProgram
    ELSE Primitive(<<"real_div">>, <<divisor, product>>,
                   <<Head(factors), Head(denominators)>>, product, <<>>)

StandaloneStage(stages, j) ==
  LET v == stages[j]
      node == NodeOf(graph, v) IN
  IF node.op = "reciprocal"
    THEN IF j = Len(stages) THEN NoProgram ELSE Division(v, stages[j + 1])
    ELSE Primitive(<<node.op>>, <<v>>, node.reads, v,
                   IF node.scalar # "none" /\ Len(node.reads) = 1 THEN <<v>> ELSE <<>>)

Nth(positions, k) ==
  CHOOSE j \in positions : Cardinality({p \in positions : p <= j}) = k

Standalone(i) ==
  LET stages == PartitionStages(i)
      alone == {j \in DOMAIN stages :
                  j = 1 \/ NodeOf(graph, stages[j - 1]).op # "reciprocal"}
  IN [k \in 1 .. Cardinality(alone) |-> StandaloneStage(stages, Nth(alone, k))]

--------------------------------------------------------------------------------
(* H16GTaskComposer composeProducer:consumer:capability:. *)

Reads(consumer, producer) ==
  \E j \in DOMAIN consumer.inputs :
    consumer.inputs[j] = producer.output /\ consumer.shapes[j] = producer.shape

(* Mutant: the composed program keeps its producer's output.               *)
MutantJoined(words, producer, consumer, folded) ==
  [words EXCEPT !.stages = producer.stages \o consumer.stages,
                !.inputs = producer.inputs, !.shapes = producer.shapes,
                !.output = producer.output, !.shape = producer.shape,
                !.scalar = 0, !.folded = folded]

(* The program with the words of one side and the boundary of both.        *)
Joined(words, producer, consumer, folded) ==
  [words EXCEPT !.stages = producer.stages \o consumer.stages,
                !.inputs = producer.inputs, !.shapes = producer.shapes,
                !.output = consumer.output, !.shape = consumer.shape,
                !.scalar = 0, !.folded = folded]

(* The fold overwrites the plain scale, if the result is finite in fp16.   *)
OutputScale(producer, consumer) ==
  IF \/ consumer.scalar = 0 \/ producer.folded # {}
     \/ NodeOf(graph, consumer.scalar).scalar = "large"
    THEN NoProgram
    ELSE Joined(producer, producer, consumer, {consumer.scalar})

InputScale(producer, consumer) ==
  IF \/ producer.scalar = 0 \/ Len(consumer.inputs) # 1 \/ consumer.folded # {}
     \/ NodeOf(graph, producer.scalar).scalar # "small"
    THEN NoProgram
    ELSE Joined(consumer, producer, consumer, {producer.scalar})

(* The chain and the tiled post operation are encoded anew from the two    *)
(* operations' names.                                                      *)
Chain(producer, consumer) ==
  IF HasFormPlan(<<producer.operation, consumer.operation>>) /\ producer.size = 128
    THEN Joined(consumer, producer, consumer, {})
    ELSE NoProgram

(* previous is the leaf composed last, from which the row is looked up.    *)
Compose(producer, previous, consumer) ==
  LET rows == BridgesBetween(previous, consumer) \cap BridgesBetween(producer, consumer)
  IN IF rows = {} \/ ~ Reads(consumer, producer) THEN NoProgram
     ELSE LET action == (CHOOSE b \in rows : TRUE).action IN
          CASE action = "output scale"   -> OutputScale(producer, consumer)
            [] action = "input scale"    -> InputScale(producer, consumer)
            [] action = "chain"          -> Chain(producer, consumer)
            [] action = "post operation" -> Joined(consumer, producer, consumer, {})
            [] OTHER                     -> NoProgram

--------------------------------------------------------------------------------
(* The assembly. *)

Init ==
  /\ graph \in Graphs /\ disabled \in BOOLEAN
  /\ capabilities = Capabilities(graph)
  /\ leaves = [k \in DOMAIN graph.tasks |-> Leaf(k)]
  /\ problem = PlanningProblem(graph, capabilities, disabled) /\ P!Begin
  /\ at = 1 /\ leaf = 1
  /\ combined = NoProgram
  /\ programs = <<>>
  /\ status = IF Len(capabilities) = Len(graph.tasks) THEN "assembling" ELSE "declined"

Plan ==
  /\ status = "assembling" /\ planning # "done" /\ P!Next
  /\ UNCHANGED <<givenVars, at, leaf, combined, programs, status>>

Ready ==
  status = "assembling" /\ planning = "done" /\ at <= Len(partitions)

Opening == Ready /\ leaf = FirstTask(at)

EveryLeafEncodes ==
  \A k \in FirstTask(at) .. LastTask(at) : leaves[k] # NoProgram

NextPartition == at' = at + 1 /\ leaf' = LastTask(at) + 1 /\ combined' = NoProgram

EmitRegion ==
  /\ Opening
  /\ \E e \in Regions(at) : programs' = Append(programs, e)
  /\ NextPartition
  /\ UNCHANGED <<givenVars, plannerVars, status>>

(* Mutant: the programs of the partition are dispatched backwards.         *)
MutantEmitStandalone ==
  /\ Opening /\ Regions(at) = {} /\ ~ EveryLeafEncodes
  /\ NoProgram \notin ToSet(Standalone(at))
  /\ programs' = programs \o Reverse(Standalone(at))
  /\ NextPartition
  /\ UNCHANGED <<givenVars, plannerVars, status>>

EmitStandalone ==
  /\ Opening /\ Regions(at) = {} /\ ~ EveryLeafEncodes
  /\ NoProgram \notin ToSet(Standalone(at))
  /\ programs' = programs \o Standalone(at)
  /\ NextPartition
  /\ UNCHANGED <<givenVars, plannerVars, status>>

Decline ==
  /\ Opening /\ Regions(at) = {} /\ ~ EveryLeafEncodes
  /\ NoProgram \in ToSet(Standalone(at))
  /\ status' = "declined"
  /\ UNCHANGED <<givenVars, plannerVars, at, leaf, combined, programs>>

FirstLeaf ==
  /\ Opening /\ Regions(at) = {} /\ EveryLeafEncodes
  /\ combined' = leaves[leaf] /\ leaf' = leaf + 1
  /\ UNCHANGED <<givenVars, plannerVars, at, programs, status>>

Inside == Ready /\ leaf \in FirstTask(at) + 1 .. LastTask(at)

Composition == Compose(combined, leaves[leaf - 1], leaves[leaf])

ComposeLeaf ==
  /\ Inside /\ Composition # NoProgram
  /\ combined' = Composition /\ leaf' = leaf + 1
  /\ UNCHANGED <<givenVars, plannerVars, at, programs, status>>

(* Mutant: assembly restarts behind the leaf that was refused.             *)
MutantSplitLeaf ==
  /\ Inside /\ Composition = NoProgram
  /\ programs' = Append(programs, combined)
  /\ combined' = leaves[IF leaf < LastTask(at) THEN leaf + 1 ELSE leaf]
  /\ leaf' = IF leaf < LastTask(at) THEN leaf + 2 ELSE leaf + 1
  /\ UNCHANGED <<givenVars, plannerVars, at, status>>

(* A refusal ends the program; the value at the split becomes an ordinary  *)
(* surface.                                                                *)
SplitLeaf ==
  /\ Inside /\ Composition = NoProgram
  /\ programs' = Append(programs, combined)
  /\ combined' = leaves[leaf] /\ leaf' = leaf + 1
  /\ UNCHANGED <<givenVars, plannerVars, at, status>>

EmitCombined ==
  /\ Ready /\ leaf = LastTask(at) + 1
  /\ programs' = Append(programs, combined)
  /\ NextPartition
  /\ UNCHANGED <<givenVars, plannerVars, status>>

Finish ==
  /\ status = "assembling" /\ planning = "done" /\ at > Len(partitions)
  /\ status' = "assembled"
  /\ UNCHANGED <<givenVars, plannerVars, at, leaf, combined, programs>>

Done == status # "assembling" /\ UNCHANGED vars

Next ==
  \/ Plan \/ EmitRegion \/ EmitStandalone \/ Decline \/ FirstLeaf \/ ComposeLeaf
  \/ SplitLeaf \/ EmitCombined \/ Finish \/ Done

Spec == Init /\ [][Next]_vars

--------------------------------------------------------------------------------
(* The bundle of the artifacts, as the runtime validates it. *)

(* artifactForEncodedTask: inputs from index 0, then the output. *)
Artifact(e) ==
  {[id |-> e.inputs[j], role |-> "Input", layout |-> e.shapes[j], index |-> j - 1] :
     j \in DOMAIN e.inputs}
  \cup
  {[id |-> e.output, role |-> "Output", layout |-> e.shape, index |-> Len(e.inputs)]}

Bundle ==
  [target |-> "H16G", artifacts |-> [i \in DOMAIN programs |-> Artifact(programs[i])],
   plan |-> [i \in DOMAIN programs |-> i], hashes |-> Len(programs)]

D == INSTANCE DispatchBundle
       WITH Ids <- Int, Layouts <- Shapes, SoundLayouts <- Shapes

--------------------------------------------------------------------------------
(* Properties. *)

Emitted ==
  FlattenSeq([i \in DOMAIN programs |-> programs[i].stages])

(* Whatever was composed, split or encoded stage by stage, the programs    *)
(* emitted and the one being composed stand for the scheduled stages up to *)
(* the next leaf, each once and in order (798-887).                        *)
EveryStageOnce ==
  status # "declined" =>
    Emitted \o (IF combined = NoProgram THEN <<>> ELSE combined.stages)
      = FlattenSeq([k \in 1 .. leaf - 1 |-> graph.tasks[k]])

(* Every bundle the assembler makes is one the runtime accepts: surfaces   *)
(* shared by programs of different origin agree in layout, each has one    *)
(* producer, and the dispatch order feeds every program (validations of    *)
(* ANEProvisionedRuntime.mm:73-237).                                       *)
AssembledBundleLoads ==
  status = "assembled" /\ graph.tasks # <<>> => D!BundleValid(Bundle)

(* The bundle asks its caller for no value but inputs of the graph, so no  *)
(* value a program reads is hidden inside another; every returned value is *)
(* written, and what is left unread is returned (comment at 837-840).      *)
InterfaceIsGraphs ==
  status = "assembled" =>
    /\ D!GraphInputs(Bundle) \subseteq DOMAIN graph.inputs
    /\ graph.outputs \subseteq D!Produced(Bundle)
    /\ D!GraphOutputs(Bundle) \subseteq graph.outputs

(* The words of a program hold the constant of every scaling it stands     *)
(* for, as the fold promises for those the composer removes ("The          *)
(* producer's scalar multiplies the consumer's table input-scale word",    *)
(* H16GTaskComposer.mm:136).  The code breaks it: the chain encoder        *)
(* replaces the words a fold has changed.                                  *)
ScalarsApplied ==
  \A i \in DOMAIN programs : \A v \in ToSet(programs[i].stages) :
    NodeOf(graph, v).scalar # "none" => v \in programs[i].folded

================================================================================
