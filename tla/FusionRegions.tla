------------------------------ MODULE FusionRegions ------------------------------
(***************************************************************************)
(* What ANEFusionPass computes of a graph, without how: which edges it may *)
(* fuse, the live bytes of a group of nodes, and the regions that result.  *)
(* FusionPass is the algorithm; the scheduler's instances take regions     *)
(* from here.                                                              *)
(***************************************************************************)
EXTENDS OperationGraph

(* -[H16GTarget supportsOperationKind:]                                    *)
Supported(g, n) ==
  Kind(g, n) \in {"conv", "matmul", "alu", "lut", "reduce", "layout",
                  "quantize", "dequantize"}

(* reachableOutputCount *)
ReachableOutputs(g, n) ==
  LET Outputs[m \in Nodes(g)] ==
        (g.outputs \cap {m}) \cup UNION {Outputs[u] : u \in Users(g, m)}
  IN Outputs[n]

(* Mutant: the outputs are counted from the consumer.                      *)
MutantMayFuse(g, i, n) ==
  /\ Supported(g, n) /\ Supported(g, i)
  /\ UserCount(g, i) > 1 => Cardinality(ReachableOutputs(g, n)) <= 1

(* The edge from i to n joins their regions. *)
MayFuse(g, i, n) ==
  /\ Supported(g, n) /\ Supported(g, i)
  /\ UserCount(g, i) > 1 => Cardinality(ReachableOutputs(g, i)) <= 1

UsesWithin(g, members, n) ==
  Cardinality({use \in UseList(g, n) : use[1] \in members})
    + (IF n \in g.outputs THEN 1 ELSE 0)

(* peakLiveBytes: the nodes run in order; a value dies at its last use.    *)
Consume(g, members, s, i) ==
  IF i \notin members \/ s.remaining[i] = 0 THEN s
  ELSE [live |-> IF s.remaining[i] = 1 THEN s.live - g.bytes[i] ELSE s.live,
        peak |-> s.peak, remaining |-> [s.remaining EXCEPT ![i] = @ - 1]]

Produce(g, s, n) ==
  LET live == s.live + g.bytes[n]
  IN [live |-> live, peak |-> IF live > s.peak THEN live ELSE s.peak,
      remaining |-> s.remaining]

RunNode(g, members, s, n) ==
  LET after[k \in 0 .. Len(g.inputs[n])] ==
        IF k = 0 THEN Produce(g, s, n) ELSE Consume(g, members, after[k - 1], g.inputs[n][k])
  IN after[Len(g.inputs[n])]

PeakLiveBytes(g, members) ==
  LET after[n \in 0 .. Len(g.op)] ==
        IF n = 0 THEN [live |-> 0, peak |-> 0,
                       remaining |-> [v \in members |-> UsesWithin(g, members, v)]]
        ELSE IF n \in members THEN RunNode(g, members, after[n - 1], n)
        ELSE after[n - 1]
  IN after[Len(g.op)].peak

(* Values of a piece that outputs or other pieces need. *)
Escaping(g, piece) ==
  {n \in piece : n \in g.outputs \/ Users(g, n) \ piece # {}}

Region(g, piece) == [nodes |-> piece, materialized |-> Escaping(g, piece)]

--------------------------------------------------------------------------------
(* Reference definitions. *)

Fusible(g) ==
  {e \in Nodes(g) \X Nodes(g) : e[1] \in Reads(g, e[2]) /\ MayFuse(g, e[1], e[2])}

(* Sets of nodes that no fusible edge enters or leaves.                    *)
Closed(g) ==
  LET fusible == Fusible(g)
  IN {set \in SUBSET Nodes(g) : \A e \in fusible : e[1] \in set <=> e[2] \in set}

(* The sets of nodes that fusible edges connect, whatever their direction. *)
Components(g) ==
  LET closed == Closed(g)
  IN {{m \in Nodes(g) : \A set \in closed : n \in set => m \in set} : n \in Nodes(g)}

(* The nodes that need n's result, and n.                                  *)
Below(g, n) ==
  LET B[m \in Nodes(g)] == {m} \cup UNION {B[u] : u \in Users(g, m)} IN B[n]

(* The values of members that occupy memory while n runs: produced by then *)
(* and still to be used by n or later, returned, or without a use inside.  *)
LiveAt(g, members, n) ==
  {v \in members :
     /\ v <= n
     /\ \/ v \in g.outputs
        \/ Users(g, v) \cap members = {}
        \/ \E m \in Users(g, v) \cap members : m >= n}

BytesOf(g, values) ==
  LET sum[n \in 0 .. Len(g.op)] ==
        IF n = 0 THEN 0 ELSE sum[n - 1] + (IF n \in values THEN g.bytes[n] ELSE 0)
  IN sum[Len(g.op)]

Fits(g, members, size) ==
  \A n \in members : BytesOf(g, LiveAt(g, members, n)) <= size

================================================================================
