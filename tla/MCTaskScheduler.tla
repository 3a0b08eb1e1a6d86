----------------------------- MODULE MCTaskScheduler -----------------------------
(* Graphs of four nodes of the kinds the merging loops look at, connected  *)
(* in every way, with the regions the fusion pass gives them, and a few    *)
(* longer graphs, also with one region per node.                           *)
EXTENDS TaskScheduler

FR == INSTANCE FusionRegions

(* A node: its operation, the nodes it reads, the graph inputs it reads.   *)
Unary(op, n) == {<<op, <<a>>, {}>> : a \in 1 .. n - 1} \cup {<<op, <<>>, {-1}>>}

Binary(op, n) ==
  {<<op, <<e[1], e[2]>>, {}>> :
     e \in {p \in (1 .. n - 1) \X (1 .. n - 1) : p[1] < p[2]}}
  \cup {<<op, <<a>>, {-1}>> : a \in 1 .. n - 1}

Slice(x) == <<"slice_by_size", <<>>, {x}>>

First == {<<"relu", <<>>, {-1}>>, <<"matmul", <<>>, {-1, -2}>>, Slice(-1)}
Second == UNION {Unary(op, 2) : op \in {"relu", "exp", "reshape"}}
            \cup {Slice(-1)}
Third == Unary("relu", 3) \cup Unary("reshape", 3) \cup Binary("matmul", 3)
           \cup {Slice(-1), Slice(-2)}
Fourth == Unary("exp", 4) \cup Unary("reshape", 4) \cup Binary("matmul", 4)

Connected(nodes) ==
  [op |-> [n \in DOMAIN nodes |-> nodes[n][1]],
   inputs |-> [n \in DOMAIN nodes |-> nodes[n][2]],
   externals |-> [n \in DOMAIN nodes |-> nodes[n][3]],
   outputs |-> {}]

(* Nodes without users are outputs, and so are the extra ones.             *)
Returning(g, extra) ==
  [g EXCEPT !.outputs = {n \in Nodes(g) : n \in extra \/ Users(g, n) = {}}]

With(g, classes, pairRows, blobs) ==
  [op |-> g.op, inputs |-> g.inputs, externals |-> g.externals,
   outputs |-> g.outputs,
   region |-> [n \in Nodes(g) |-> Min(CHOOSE c \in classes : n \in c)],
   materialized |-> UNION {FR!Escaping(g, c) : c \in classes},
   blobs |-> blobs, pairRows |-> pairRows, stageRows |-> Nodes(g)]

(* FR!Components, grown edge by edge. *)
Classes(g) ==
  LET fusible == FR!Fusible(g)
      Grow(set, step) ==
        set \cup {m \in Nodes(g) : \E v \in set : {<<v, m>>, <<m, v>>} \cap fusible # {}}
  IN {FoldLeft(Grow, {n}, g.op) : n \in Nodes(g)}

Fused(g, pairRows, blobs) ==
  LET classes == Classes(g) IN With(g, classes, pairRows, blobs)

Single(g, pairRows, blobs) ==
  LET classes == {{n} : n \in Nodes(g)} IN With(g, classes, pairRows, blobs)

SmallGraphs(lasts, extra) ==
  {Returning(Connected(<<a, b, c, d>>), extra) :
     a \in First, b \in Second, c \in Third, d \in lasts}

(* A convolution chain with int8 boundaries, as tests/fixtures/            *)
(* w8a8_conv_chain.mil has it, and one whose input is already quantised.   *)
QuantizedChain ==
  <<<<"constexpr_affine_dequantize", <<>>, {}>>, <<"conv", <<1>>, {-1}>>,
    <<"quantize", <<2>>, {}>>, <<"dequantize", <<3>>, {}>>,
    <<"conv", <<1, 4>>, {}>>, <<"relu", <<5>>, {}>>>>

QuantizedInput ==
  <<<<"constexpr_affine_dequantize", <<>>, {}>>, <<"dequantize", <<>>, {-1}>>,
    <<"conv", <<1, 2>>, {}>>>>

(* matmul, relu epilogue, the epilogue read twice. *)
EpilogueFork ==
  <<<<"matmul", <<>>, {-1, -2}>>, <<"relu", <<1>>, {}>>, <<"exp", <<2>>, {}>>,
    <<"add", <<2, 3>>, {}>>>>

(* matmul, decomposed softmax, matmul, as tests/fixtures/attention.mil.    *)
Attention ==
  <<<<"reshape", <<>>, {-1}>>, <<"matmul", <<1>>, {-2}>>, <<"const", <<>>, {}>>,
    <<"add", <<2, 3>>, {}>>, <<"reduce_max", <<4>>, {}>>, <<"add", <<4, 5>>, {}>>,
    <<"exp", <<6>>, {}>>, <<"reduce_max", <<7>>, {}>>, <<"add", <<8>>, {}>>,
    <<"add", <<7, 9>>, {}>>, <<"matmul", <<10>>, {-3}>>, <<"reshape", <<11>>, {}>>>>

LongGraphs ==
  {Returning(Connected(nodes), {}) :
     nodes \in {QuantizedChain, QuantizedInput, EpilogueFork, Attention}}

MCProblems ==
  {Fused(g, {}, {}) : g \in SmallGraphs(Fourth, {}) \cup SmallGraphs(Fourth, {1})}
  \cup {Fused(g, {4}, {}) : g \in SmallGraphs(Unary("exp", 4), {})}
  \cup {Fused(g, {}, blobs) : g \in LongGraphs, blobs \in {{}, {1}}}
  \cup {Single(g, {}, blobs) : g \in LongGraphs, blobs \in {{}, {1}}}
  \cup {Single(Connected(<<>>), {}, {})}

================================================================================
