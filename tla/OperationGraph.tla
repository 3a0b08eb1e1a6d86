----------------------------- MODULE OperationGraph -----------------------------
(***************************************************************************)
(* ANEOperationGraph, the graph the transform passes and the scheduler     *)
(* work on.  Nodes are numbered from 1 in program order, one more than     *)
(* their ordinal; a node's identifier is its number.  An operand is either *)
(* the result of a node (inputs) or a graph input (externals), which is    *)
(* named by a negative number.                                             *)
(***************************************************************************)
EXTENDS Integers, Sequences, FiniteSetsExt, SequencesExt

(* classifyOperation, over one or two operation names of each kind.        *)
KindOf(op) ==
  CASE op = "const"                       -> "constant"
    [] op = "conv"                        -> "conv"
    [] op = "matmul"                      -> "matmul"
    [] op \in {"relu", "add"}             -> "alu"
    [] op = "exp"                         -> "lut"
    [] op = "reduce_max"                  -> "reduce"
    [] op \in {"reshape", "slice_by_size"} -> "layout"
    [] op = "quantize"                    -> "quantize"
    [] op \in {"dequantize", "constexpr_affine_dequantize"} -> "dequantize"
    [] op = "softmax"                     -> "high-level"
    [] OTHER                              -> "unsupported"

Operations ==
  {"const", "conv", "matmul", "relu", "add", "exp", "reduce_max", "reshape",
   "slice_by_size", "quantize", "dequantize", "constexpr_affine_dequantize",
   "softmax", "unknown"}

Nodes(g) == DOMAIN g.op
Kind(g, n) == KindOf(g.op[n])

(* What the importer, normalisation and SSA form guarantee of a graph:     *)
(* operands are earlier results, and every node reaches an output.         *)
IsGraph(g) ==
  /\ g.op \in Seq(Operations)
  /\ DOMAIN g.inputs = Nodes(g) /\ DOMAIN g.externals = Nodes(g)
  /\ g.outputs \subseteq Nodes(g)
  /\ \A n \in Nodes(g) : g.inputs[n] \in Seq(1 .. n - 1)

Reads(g, n) == ToSet(g.inputs[n])

(* rebuildUseLists: a node is listed once for every operand that uses it.  *)
Users(g, n) == {m \in Nodes(g) : n \in Reads(g, m)}

UseList(g, n) ==
  UNION {{m} \X {k \in DOMAIN g.inputs[m] : g.inputs[m][k] = n} : m \in Nodes(g)}

UserCount(g, n) == Cardinality(UseList(g, n))

(* node.users.count == 1 && node.users[0] == m                             *)
SoleUser(g, n, m) == UserCount(g, n) = 1 /\ n \in Reads(g, m)

================================================================================
