---------------------------- MODULE MCProgramAssembler ----------------------------
(* Bounded instance of ProgramAssembler: graphs of up to Depth operations    *)
(* on the measured shapes, as fusion schedules them: a matrix product with   *)
(* its reshape, a softmax as its six primitives, everything else alone.     *)
EXTENDS ProgramAssembler

CONSTANT Depth

MCInputValues == -7 .. -1

Inputs ==
  [v \in MCInputValues |->
     CASE v \in {-1, -2} -> Matrix(128)
       [] v \in {-3, -4} -> Image(128)
       [] v = -5         -> Row(128)
       [] OTHER          -> Matrix(256)]

(* `named` holds the values the source program has a name for.              *)
Empty == [nodes |-> <<>>, tasks |-> <<>>, named |-> {}]

Fits(g, v, shape) ==
  (IF v < 0 THEN Inputs[v] ELSE g.nodes[v].shape) = shape

(* The newest value or an input first; second, an input or any value.       *)
FirstOperands(g, shape) ==
  {v \in {-3, -5} \cup (g.named \cap {Len(g.nodes)}) :
     Fits(g, v, shape)}

SecondOperands(g, shape) == {v \in {-4, -5} \cup g.named : Fits(g, v, shape)}

N(op, reads, shape) ==
  [op |-> op, reads |-> reads, scalar |-> "none", straight |-> TRUE,
   lastAxis |-> TRUE, shape |-> shape]

(* g with the nodes of ns, scheduled as tasks of the given lengths.         *)
With(g, ns, lengths) ==
  LET n == Len(g.nodes)
      ends == [j \in DOMAIN lengths |-> FoldLeft(LAMBDA a, b : a + b, 0, SubSeq(lengths, 1, j))]
  IN [nodes |-> g.nodes \o ns, named |-> g.named \cup {n + Len(ns)},
      tasks |-> g.tasks \o
        [j \in DOMAIN lengths |->
           [i \in 1 .. lengths[j] |-> n + ends[j] - lengths[j] + i]]]

One(g, node) == With(g, <<node>>, <<1>>)

Product(g, n, a, b) ==
  With(g, <<N("matmul", <<a, b>>, Matrix(n)), N("reshape", <<Len(g.nodes) + 1>>, Image(n))>>,
       <<2>>)

(* ANEDecomposePass: every node has the type of the softmax.                *)
Softmax(g, x) ==
  LET n == Len(g.nodes)  m == Image(128) IN
  With(g, <<N("reduce_max", <<x>>, m), N("sub", <<x, n + 1>>, m), N("exp", <<n + 2>>, m),
            N("reduce_sum", <<n + 3>>, m), N("reciprocal", <<n + 4>>, m),
            N("mul", <<n + 3, n + 5>>, m)>>,
       <<1, 2, 1, 1, 1>>)

Unary(g, x) ==
  LET m == Image(128) IN
  {One(g, N(o, <<x>>, m)) : o \in {"gelu", "exp", "reciprocal"}}
  \cup {One(g, [N("mul", <<x>>, m) EXCEPT !.scalar = s]) : s \in Scalars \ {"none"}}
  \cup {One(g, N("reduce_sum", <<x>>, Row(128))), Softmax(g, x),
        One(g, [N("reduce_max", <<x>>, Row(128)) EXCEPT !.lastAxis = FALSE])}

Extensions(g) ==
  LET m == Image(128)  r == Row(128) IN
  UNION {Unary(g, x) : x \in FirstOperands(g, m)}
  \cup {One(g, N(o, <<x, y>>, m)) :
          o \in {"matmul", "mul"}, x \in FirstOperands(g, m), y \in SecondOperands(g, m)}
  \cup {One(g, N("sub", <<x, y>>, m)) :
          x \in FirstOperands(g, m), y \in SecondOperands(g, r)}
  \cup {One(g, N("add", <<x, y>>, r)) :
          x \in FirstOperands(g, r), y \in SecondOperands(g, r)}
  \cup (IF g.tasks = <<>> THEN {Product(g, 128, -1, -2), Product(g, 256, -6, -7)} ELSE {})
  \cup {One(g, N("gelu", <<Len(g.nodes)>>, Image(256))) :
          v \in {w \in g.named : w = Len(g.nodes) /\ Fits(g, w, Image(256))}}

Skeletons == LET S[d \in 0 .. Depth] ==
                   IF d = 0 THEN {Empty} ELSE UNION {Extensions(g) : g \in S[d - 1]}
             IN S[Depth]

Scaled(g, x, s) == One(g, [N("mul", <<x>>, Image(128)) EXCEPT !.scalar = s])

(* A scaling, an exponential and a sum, of a matrix product or of an input. *)
ScaledSum(g, x, s) ==
  LET e == One(Scaled(g, x, s), N("exp", <<Len(g.nodes) + 1>>, Image(128)))
  IN One(e, N("reduce_sum", <<Len(e.nodes)>>, Row(128)))

ScaledSums ==
  {ScaledSum(Product(Empty, 128, -1, -2), 2, s) : s \in Scalars \ {"none"}}
  \cup {ScaledSum(Empty, -3, s) : s \in Scalars \ {"none"}}

(* The FlashAttention-2 fixture of the end-to-end test.                     *)
AttentionGraph ==
  LET s == Scaled(Product(Empty, 128, -1, -2), 2, "small")
      x == Softmax(s, Len(s.nodes))
  IN One(x, N("matmul", <<Len(x.nodes), -4>>, Image(128)))

Unread(g) == g.named \ UNION {ToSet(g.nodes[v].reads) : v \in DOMAIN g.nodes}

Returning(g, extra) ==
  [nodes |-> g.nodes, inputs |-> Inputs, tasks |-> g.tasks,
   outputs |-> Unread(g) \cup extra]

MCGraphs ==
  {Returning(g, {}) : g \in Skeletons \cup ScaledSums \cup {AttentionGraph}}
  \cup {Returning(g, {Min(g.named)}) : g \in Skeletons}

MCProblems ==
  {PlanningProblem(g, Capabilities(g), off) : g \in MCGraphs, off \in BOOLEAN}

================================================================================
