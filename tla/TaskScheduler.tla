------------------------------ MODULE TaskScheduler ------------------------------
(***************************************************************************)
(* +[ANETaskScheduler scheduleGraph:target:diagnostics:], up to its memory *)
(* plan: nodes are grouped into tasks by five merging passes, unsupported  *)
(* pairs are split again, and one task is emitted per group with the       *)
(* transfers, dependencies and surface lifetimes it needs.                 *)
(*                                                                         *)
(* A problem is a legalised graph with its planned regions (`region` maps  *)
(* a node to its region) and what the target's capability table answers:   *)
(* `pairRows` holds the lookup nodes whose ALU + LUT pair has a row,       *)
(* `stageRows` the nodes that have one alone.  `blobs` holds the constants *)
(* whose data is in the weight file.                                       *)
(***************************************************************************)
EXTENDS OperationGraph

CONSTANTS Problems  \* the graphs the staged compiler may hand over

IsProblem(p) ==
  /\ IsGraph(p)
  /\ DOMAIN p.region = Nodes(p)
  /\ p.materialized \subseteq Nodes(p)
  /\ p.blobs \cup p.pairRows \cup p.stageRows \subseteq Nodes(p)

ASSUME ProblemsAssumption == \A p \in Problems : IsProblem(p)

(* isConstantNode *)
ConstantIn(p, n) ==
  \/ Kind(p, n) = "constant"
  \/ p.op[n] = "constexpr_affine_dequantize"

FoldedIn(p, n) == Kind(p, n) \in {"quantize", "dequantize"}

(* A quantisation boundary has one computed operand: MIL's scale and zero  *)
(* point are constants.                                                    *)
BoundariesReadOne(p) ==
  \A n \in Nodes(p) :
    FoldedIn(p, n) /\ ~ ConstantIn(p, n) =>
      \A i, j \in {m \in Reads(p, n) : ~ ConstantIn(p, m)} : i = j

ASSUME BoundariesAssumption == \A p \in Problems : BoundariesReadOne(p)

VARIABLES
  problem,   \* the graph being scheduled
  node,      \* next node to be given a group of its own
  pass,      \* which of formTaskGroups' five loops is running, 0 before them
  queue,     \* pairs of nodes that loop has still to merge
  groups,    \* groups of nodes, by their least node; in "splitting", the rest
  split,     \* groups splitUnsupportedTaskGroups has passed on
  surfaces,  \* surfaceByName: role and first and last task
  tasks,     \* tasks emitted so far
  phase      \* "grouping", "splitting", "emitting", "done" or "rejected"

vars == <<problem, node, pass, queue, groups, split, surfaces, tasks, phase>>

--------------------------------------------------------------------------------
(* Classification of nodes. *)

N == Nodes(problem)
Inputs(n) == problem.inputs[n]
SameRegion(a, b) == problem.region[a] = problem.region[b]

(* Legalisation folds every (de)quantize node that is not a constant.      *)
IsConstant(n) == ConstantIn(problem, n)
Folded(n) == FoldedIn(problem, n)

NonConstantInputs(n) == SelectSeq(Inputs(n), LAMBDA i : ~ IsConstant(i))

(* The operands effectiveProducer may follow from n; it takes the first.   *)
Followed(n) ==
  {k \in DOMAIN Inputs(n) : Folded(n) /\ ~ IsConstant(n) /\ ~ IsConstant(Inputs(n)[k])}

(* effectiveProducer *)
EffectiveProducer(n) ==
  LET P[m \in N] ==
        IF Followed(m) = {} THEN m ELSE P[Inputs(m)[Min(Followed(m))]]
  IN P[n]

(* foldedEpilogues, with supportsFusedEpilogue                             *)
IsEpilogue(n) ==
  /\ problem.op[n] = "relu" /\ Len(Inputs(n)) = 1 /\ problem.externals[n] = {}
  /\ LET producer == Inputs(n)[1]
     IN /\ Kind(problem, producer) \in {"conv", "matmul"}
        /\ SameRegion(producer, n)
        /\ UserCount(problem, producer) = 1

(* epilogueForProducer[n] ?: n                                             *)
Result(n) ==
  IF \E e \in N : IsEpilogue(e) /\ Inputs(e)[1] = n
    THEN CHOOSE e \in N : IsEpilogue(e) /\ Inputs(e)[1] = n
    ELSE n

Active == {n \in N : ~ IsConstant(n) /\ ~ Folded(n) /\ ~ IsEpilogue(n)}

--------------------------------------------------------------------------------
(* formTaskGroups: what each loop merges.  A triple is the node the loop   *)
(* visits and the pair it merges there.                                    *)

IsLayout(n) == Kind(problem, n) = "layout"

SlicePairs ==
  {t \in {<<i, i, j>> : i, j \in {n \in Active : problem.op[n] = "slice_by_size"}} :
     /\ t[2] < t[3] /\ SameRegion(t[2], t[3])
     /\ problem.externals[t[2]] \cap problem.externals[t[3]] # {}}

LayoutPairs ==
  {t \in {<<i, i, j>> : i, j \in {n \in Active : IsLayout(n)}} :
     /\ t[2] < t[3] /\ SameRegion(t[2], t[3])
     /\ \E m \in N : /\ Kind(problem, m) = "matmul"
                     /\ SoleUser(problem, t[2], m) /\ SoleUser(problem, t[3], m)}

LookupPairs ==
  {<<n, Inputs(n)[1], n>> :
     n \in {l \in Active :
              /\ Kind(problem, l) = "lut" /\ Len(Inputs(l)) = 1
              /\ LET producer == Inputs(l)[1]
                 IN /\ Kind(problem, producer) = "alu"
                    /\ UserCount(problem, producer) = 1
                    /\ SameRegion(producer, l)}}

Matmuls == {n \in Active : Kind(problem, n) = "matmul"}

OperandPairs ==
  {t \in Matmuls \X N \X N :
     /\ Len(NonConstantInputs(t[1])) = 2
     /\ {t[2], t[3]} = ToSet(NonConstantInputs(t[1]))
     /\ Kind(problem, t[2]) = "alu" /\ IsLayout(t[3])
     /\ SameRegion(t[2], t[3])}

(* The chain of sole users after n that are layouts of its region.         *)
TailOf(n) ==
  LET Chain[m \in N] ==
        UNION {{u} \cup Chain[u] :
                 u \in {v \in N : /\ SoleUser(problem, m, v)
                                  /\ IsLayout(v) /\ SameRegion(n, v)}}
  IN Chain[n]

TailPairs == UNION {{<<m, m, t>> : t \in TailOf(m)} : m \in Matmuls}

Earlier(s, t) ==
  \/ s[1] < t[1]
  \/ s[1] = t[1] /\ s[2] < t[2]
  \/ s[1] = t[1] /\ s[2] = t[2] /\ s[3] < t[3]

PairsOfPass(k) ==
  SetToSortSeq(CASE k = 1 -> SlicePairs
                 [] k = 2 -> LayoutPairs
                 [] k = 3 -> LookupPairs
                 [] k = 4 -> OperandPairs
                 [] OTHER -> TailPairs, Earlier)

--------------------------------------------------------------------------------
(* Grouping. *)

(* groupIndexContaining, 0 for NSNotFound                                  *)
GroupOf(n) ==
  IF \E i \in DOMAIN groups : n \in groups[i]
    THEN CHOOSE i \in DOMAIN groups : n \in groups[i]
    ELSE 0

Init ==
  /\ problem \in Problems
  /\ node = 1 /\ pass = 0 /\ queue = <<>>
  /\ groups = <<>> /\ split = <<>> /\ surfaces = <<>> /\ tasks = <<>>
  /\ phase = "grouping"

(* A graph without nodes has no fusion regions. *)
NoRegions ==
  /\ phase = "grouping" /\ N = {}
  /\ phase' = "rejected"
  /\ UNCHANGED <<problem, node, pass, queue, groups, split, surfaces, tasks>>

(* The lists of active nodes and of their groups. *)
ListNode ==
  /\ phase = "grouping" /\ node \in N
  /\ groups' = IF node \in Active THEN Append(groups, {node}) ELSE groups
  /\ node' = node + 1
  /\ UNCHANGED <<problem, pass, queue, split, surfaces, tasks, phase>>

(* Mutant: the later group is left behind.                                 *)
MutantMergedKeeping(into, from) ==
  [groups EXCEPT ![into] = groups[into] \cup groups[from]]

(* The group at from joins the one at into; the later ones move up.        *)
MergedAt(into, from) ==
  [k \in 1 .. Len(groups) - 1 |->
     (IF k < from THEN groups[k] ELSE groups[k + 1])
       \cup (IF k = into THEN groups[from] ELSE {})]

(* mergeTaskGroups *)
Merge ==
  /\ phase = "grouping" /\ queue # <<>>
  /\ LET a == GroupOf(Head(queue)[2])
         b == GroupOf(Head(queue)[3])
     IN groups' = IF a = 0 \/ b = 0 \/ a = b THEN groups
                  ELSE IF a < b THEN MergedAt(a, b) ELSE MergedAt(b, a)
  /\ queue' = Tail(queue)
  /\ UNCHANGED <<problem, node, pass, split, surfaces, tasks, phase>>

NextPass ==
  /\ phase = "grouping" /\ N # {} /\ node \notin N /\ queue = <<>>
  /\ pass' = pass + 1
  /\ IF pass < 5 THEN queue' = PairsOfPass(pass + 1) /\ phase' = phase
                 ELSE queue' = queue /\ phase' = "splitting"
  /\ UNCHANGED <<problem, node, groups, split, surfaces, tasks>>

--------------------------------------------------------------------------------
(* splitUnsupportedTaskGroups *)

(* An ALU + LUT pair without a capability row whose stages have one each.  *)
Splits(group) ==
  /\ Cardinality(group) = 2
  /\ Kind(problem, Min(group)) = "alu" /\ Kind(problem, Max(group)) = "lut"
  /\ Max(group) \notin problem.pairRows
  /\ group \subseteq problem.stageRows

PiecesOf(group) ==
  IF Splits(group) THEN <<{Min(group)}, {Max(group)}>> ELSE <<group>>

SplitGroup ==
  /\ phase = "splitting" /\ groups # <<>>
  /\ split' = split \o PiecesOf(Head(groups))
  /\ groups' = Tail(groups)
  /\ UNCHANGED <<problem, node, pass, queue, surfaces, tasks, phase>>

(* Mutant: taskForNode has no entry for folded epilogues.                  *)
MutantTaskOf(n) ==
  IF \E t \in DOMAIN split : n \in split[t]
    THEN CHOOSE t \in DOMAIN split : n \in split[t]
    ELSE 0

(* taskForNode, 0 for no entry                                             *)
TaskOf(n) ==
  LET Computes(t) == \E m \in split[t] : n \in {m, Result(m)}
  IN IF \E t \in DOMAIN split : Computes(t)
       THEN CHOOSE t \in DOMAIN split : Computes(t)
       ELSE 0

Surface(role, task) == [role |-> role, first |-> task, last |-> task]

(* The surfaces of the results, before the first task.                     *)
CreateSurfaces ==
  /\ phase = "splitting" /\ groups = <<>>
  /\ surfaces' =
       [v \in {Result(n) : n \in Active} |->
          Surface(IF v \in problem.outputs THEN "output" ELSE "intermediate",
                  TaskOf(v))]
  /\ phase' = "emitting"
  /\ UNCHANGED <<problem, node, pass, queue, groups, split, tasks>>

--------------------------------------------------------------------------------
(* The task loop. *)

(* Values the nodes of group t read from other tasks or from constants.    *)
ReadByTask(t) ==
  {v \in {EffectiveProducer(i) : i \in
            {j \in UNION {Reads(problem, n) : n \in split[t]} :
               IsConstant(j) => j \in problem.blobs}} :
     TaskOf(v) # t}

ExternalsOfTask(t) == UNION {problem.externals[n] : n \in split[t]}

ResultOfTask(t) == Result(Max(split[t]))
RegionOfTask(t) == problem.region[Min(split[t])]

(* Mutant: only reads inside the region extend a lifetime.                 *)
MutantProlongs(t, v) ==
  v \in ReadByTask(t) /\ TaskOf(v) # 0 /\ problem.region[v] = RegionOfTask(t)

(* extendLifetimeThroughTask is called for v.                              *)
Prolongs(t, v) == v \in ReadByTask(t) /\ TaskOf(v) # 0

(* Other surfaces appear at their first read. *)
SurfacesAfter(t) ==
  [v \in DOMAIN surfaces \cup ReadByTask(t) \cup ExternalsOfTask(t) |->
     IF v \notin DOMAIN surfaces
       THEN Surface(IF v < 0 THEN "external" ELSE "constant", t)
       ELSE IF Prolongs(t, v) THEN [surfaces[v] EXCEPT !.last = Max({@, t})]
                              ELSE surfaces[v]]

(* Dependencies on tasks that are not emitted yet do not count.            *)
Wave(dependencies) ==
  Max({0} \cup {tasks[d].wave + 1 : d \in dependencies \cap DOMAIN tasks})

Stored(t) ==
  {v \in {ResultOfTask(t)} :
     \/ v \in problem.outputs
     \/ v \in problem.materialized /\ SameRegion(v, Min(split[t]))}

EmitTask ==
  /\ phase = "emitting" /\ Len(tasks) < Len(split)
  /\ LET t == Len(tasks) + 1
         dependencies == {TaskOf(v) : v \in ReadByTask(t)} \ {0}
     IN /\ surfaces' = SurfacesAfter(t)
        /\ tasks' = Append(tasks,
             [loads |-> ReadByTask(t) \cup ExternalsOfTask(t),
              dependencies |-> dependencies, wave |-> Wave(dependencies),
              stores |-> Stored(t)])
  /\ UNCHANGED <<problem, node, pass, queue, groups, split, phase>>

Finish ==
  /\ phase = "emitting" /\ Len(tasks) = Len(split)
  /\ phase' = "done"
  /\ UNCHANGED <<problem, node, pass, queue, groups, split, surfaces, tasks>>

Done == phase \in {"done", "rejected"} /\ UNCHANGED vars

Next ==
  \/ NoRegions \/ ListNode \/ Merge \/ NextPass \/ SplitGroup \/ CreateSurfaces
  \/ EmitTask \/ Finish \/ Done

Spec == Init /\ [][Next]_vars

--------------------------------------------------------------------------------
(* Properties. *)

(* Every active node is in exactly one group through all the merging and   *)
(* splitting, so the schedule computes every node once                     *)
(* (mergeTaskGroups, ANETaskScheduler.mm:147-163, and 294-318).            *)
EveryNodeOnce ==
  /\ \A i \in DOMAIN groups : groups[i] # {} /\ groups[i] \subseteq Active
  /\ \A i \in DOMAIN split : split[i] # {} /\ split[i] \subseteq Active
  /\ \A i, j \in DOMAIN groups : i # j => groups[i] \cap groups[j] = {}
  /\ \A i, j \in DOMAIN split : i # j => split[i] \cap split[j] = {}
  /\ \A i \in DOMAIN groups, j \in DOMAIN split : groups[i] \cap split[j] = {}
  /\ \A n \in Active :
       n < node => \/ \E i \in DOMAIN groups : n \in groups[i]
                  \/ \E i \in DOMAIN split : n \in split[i]

(* Groups stay in the order of their first nodes whatever is merged: the   *)
(* destination of a merge is the earlier group (lines 153-162).            *)
GroupsByFirstNode ==
  \A i, j \in DOMAIN groups :
    i < j => \E a \in groups[i] : \A b \in groups[j] : a < b

(* Reference: the computed values that node n needs, through the folded    *)
(* quantisation boundaries.                                                *)
Sources(n) ==
  LET S[m \in N] ==
        UNION {IF IsConstant(i) THEN {} ELSE IF Folded(i) THEN S[i] ELSE {i} :
                 i \in Reads(problem, m)}
  IN S[n]

(* The tasks whose group computes v, by itself or as a folded epilogue.    *)
Producers(v) ==
  {t \in DOMAIN split :
     v \in split[t] \/ \E n \in split[t] : v = Result(n)}

(* A task knows every other task whose value it needs, also when the value *)
(* comes through folded boundaries or out of a folded epilogue, and it     *)
(* loads that value (lines 411-440).                                       *)
DependenciesComplete ==
  \A t \in DOMAIN tasks : \A n \in split[t] : \A v \in Sources(n) :
    /\ Producers(v) # {}
    /\ Producers(v) \subseteq {t} \cup tasks[t].dependencies
    /\ t \notin Producers(v) => v \in tasks[t].loads

(* The memory planner reuses a result's space outside its lifetime: the    *)
(* lifetime starts at the task that writes the value and lasts through     *)
(* every later task that reads it (lines 381-384 and 438).                 *)
LifetimesCoverReads ==
  \A t \in DOMAIN tasks : \A n \in split[t] : \A v \in Sources(n) :
    t \notin Producers(v) =>
      /\ v \in DOMAIN surfaces
      /\ surfaces[v].first \in Producers(v)
      /\ surfaces[v].first < t => t <= surfaces[v].last

================================================================================
