------------------------------- MODULE FusionPass -------------------------------
(***************************************************************************)
(* +[ANEFusionPass runOnGraph:target:diagnostics:]: a union-find over the  *)
(* fusible edges, visited node by node and operand by operand, whose       *)
(* classes become regions when their live values fit the working set and   *)
(* single nodes otherwise.                                                 *)
(***************************************************************************)
EXTENDS FusionRegions

CONSTANTS
  Graphs,     \* the graphs the pass may be given
  WorkingSet  \* workingSetBytes

ASSUME GraphsAssumption == \A g \in Graphs : IsGraph(g)

(* Legalisation rejects a graph with an unsupported node that is not a     *)
(* constant; a constant has no operands.                                   *)
Legalised(g) ==
  \A n \in Nodes(g) :
    Supported(g, n) \/ (Kind(g, n) = "constant" /\ g.inputs[n] = <<>>)

ASSUME LegalisedAssumption == \A g \in Graphs : Legalised(g)
ASSUME BytesAssumption == \A g \in Graphs : g.bytes \in [Nodes(g) -> Nat]
ASSUME WorkingSetAssumption == WorkingSet \in Nat

VARIABLES
  graph,    \* the graph being partitioned
  parents,  \* the union-find forest
  node,     \* node being visited, or root whose region is formed next
  slot,     \* operand of node to visit next
  regions,  \* regions formed so far
  phase     \* "uniting", "forming" or "done"

vars == <<graph, parents, node, slot, regions, phase>>

--------------------------------------------------------------------------------
(* findRoot's path from v, and the forest after it compressed that path. *)

Path(p, v) ==
  LET P[k \in DOMAIN p] == IF p[k] = k THEN {k} ELSE {k} \cup P[p[k]] IN P[v]

Root(p, v) == CHOOSE r \in Path(p, v) : p[r] = r

Compress(p, v) ==
  [k \in DOMAIN p |-> IF k \in Path(p, v) THEN Root(p, v) ELSE p[k]]

(* Mutant: the node itself is linked, not the root of its class.           *)
MutantUnite(p, a, b) ==
  LET q == Compress(Compress(p, a), b)
      ra == Root(q, a)
      rb == Root(q, b)
  IN IF ra < rb THEN [q EXCEPT ![b] = ra] ELSE [q EXCEPT ![a] = rb]

Unite(p, a, b) ==
  LET q == Compress(Compress(p, a), b)
      ra == Root(q, a)
      rb == Root(q, b)
  IN IF ra = rb THEN q
     ELSE IF ra < rb THEN [q EXCEPT ![rb] = ra] ELSE [q EXCEPT ![ra] = rb]

Init ==
  /\ graph \in Graphs
  /\ parents = [n \in Nodes(graph) |-> n]
  /\ node = 1 /\ slot = 1
  /\ regions = <<>>
  /\ phase = "uniting"

VisitOperand ==
  /\ phase = "uniting" /\ node \in Nodes(graph)
  /\ slot <= Len(graph.inputs[node])
  /\ parents' = IF MayFuse(graph, graph.inputs[node][slot], node)
                  THEN Unite(parents, graph.inputs[node][slot], node)
                  ELSE parents
  /\ slot' = slot + 1
  /\ UNCHANGED <<graph, node, regions, phase>>

NextNode ==
  /\ phase = "uniting" /\ node \in Nodes(graph)
  /\ slot > Len(graph.inputs[node])
  /\ node' = node + 1 /\ slot' = 1
  /\ UNCHANGED <<graph, parents, regions, phase>>

(* Every node is filed under its root; roots are then taken in order.      *)
GroupNodes ==
  /\ phase = "uniting" /\ node \notin Nodes(graph)
  /\ parents' = [n \in Nodes(graph) |-> Root(parents, n)]
  /\ node' = 1
  /\ phase' = "forming"
  /\ UNCHANGED <<graph, slot, regions>>

Rank(members, n) == Cardinality({m \in members : m <= n})

(* Mutant: a component that fills the working set exactly is split.        *)
MutantPieces(members) ==
  IF PeakLiveBytes(graph, members) < WorkingSet
    THEN <<members>>
    ELSE [k \in 1 .. Cardinality(members) |-> {n \in members : Rank(members, n) = k}]

Pieces(members) ==
  IF PeakLiveBytes(graph, members) <= WorkingSet
    THEN <<members>>
    ELSE [k \in 1 .. Cardinality(members) |-> {n \in members : Rank(members, n) = k}]

FormRegion ==
  /\ phase = "forming" /\ node \in Nodes(graph)
  /\ LET members == {n \in Nodes(graph) : parents[n] = node}
         pieces == Pieces(members)
     IN regions' = IF members = {} THEN regions
                   ELSE regions \o [k \in DOMAIN pieces |-> Region(graph, pieces[k])]
  /\ node' = node + 1
  /\ UNCHANGED <<graph, parents, slot, phase>>

(* setPlannedRegions *)
SetRegions ==
  /\ phase = "forming" /\ node \notin Nodes(graph)
  /\ phase' = "done"
  /\ UNCHANGED <<graph, parents, node, slot, regions>>

Done == phase = "done" /\ UNCHANGED vars

Next ==
  VisitOperand \/ NextNode \/ GroupNodes \/ FormRegion \/ SetRegions \/ Done

Spec == Init /\ [][Next]_vars

--------------------------------------------------------------------------------
(* Properties. *)

RegionsDone == phase = "done"
NodesOf(r) == regions[r].nodes

(* Whatever order the edges are visited in and however paths were          *)
(* compressed, a region is a connected component of the fusible edges or   *)
(* one node of a component too large for the working set; no node is lost  *)
(* or in two regions (unite and findRoot, ANEFusionPass.mm:41-55).         *)
RegionsAreComponents ==
  RegionsDone =>
    /\ UNION {NodesOf(r) : r \in DOMAIN regions} = Nodes(graph)
    /\ \A r, s \in DOMAIN regions : r # s => NodesOf(r) \cap NodesOf(s) = {}
    /\ \A r \in DOMAIN regions :
         Cardinality(NodesOf(r)) # 1 => NodesOf(r) \in Components(graph)

(* Values that leave a region and come back would have to be written out   *)
(* and read again inside one scheduled region.  The fan-out test at line   *)
(* 103 looks at one edge at a time, yet it keeps every region convex once  *)
(* legalisation has accepted the graph: no path between two nodes of a     *)
(* region leaves it.                                                       *)
RegionsConvex ==
  RegionsDone =>
    \A r \in DOMAIN regions : \A a, b \in NodesOf(r) :
      \A n \in Below(graph, a) : b \in Below(graph, n) => n \in NodesOf(r)

(* A region of several nodes fits the working set at every one of its      *)
(* nodes, by the set of values really live there, not by the pass's        *)
(* running count of remaining uses (peakLiveBytes, lines 57-84).           *)
FusedRegionsFit ==
  \A r \in DOMAIN regions :
    Cardinality(NodesOf(r)) > 1 => Fits(graph, NodesOf(r), WorkingSet)

(* What stays together fits, and a component is taken apart only when its  *)
(* values really do not: the running count may not overestimate either, at *)
(* a component that fills the working set or uses one value several times  *)
(* (lines 57-84, 119-126).                                                 *)
SplitOnlyWhenTooLarge ==
  /\ FusedRegionsFit
  /\ RegionsDone =>
       \A c \in Components(graph) :
         Fits(graph, c, WorkingSet) => \E r \in DOMAIN regions : NodesOf(r) = c

================================================================================
