------------------------------ MODULE ChainPrograms ------------------------------
(***************************************************************************)
(* The programs of research/mint_chain_probes.py.  A program is given as   *)
(* its calls of Chain's methods, in order: what is called, the variables   *)
(* of the Python code it is called on, and the one that takes its result.  *)
(* A chain under construction is [body, declared, shapes, counter, value,  *)
(* names]: the statements so far, the shared constants already declared,   *)
(* the shapes of the weights, the number of the last name made up, the     *)
(* name last emitted, and the names the variables hold.  Each weight has a *)
(* chunk header and a payload of its own in the weight file.               *)
(***************************************************************************)
EXTENDS ProbePrograms

CONSTANT Deepest    \* blocks of the deepest stack that is built

(***************************************************************************)
(* The weight file: room for the headers, then the payloads.               *)
(***************************************************************************)
RecordOffset(index) == 64 + 24 * index
RecordCapacity == 4096
DataStart == ((RecordOffset(RecordCapacity) + 63) \div 64) * 64

PayloadStart(shapes, k) ==
  DataStart + FoldLeft(LAMBDA a, b : a + b, 0, [j \in 1..(k - 1) |-> Halfwords(shapes[j])])

WeightBlob(shapes) ==
  IF shapes = <<>> THEN NoFile
  ELSE [container |-> "chain", bytes |-> PayloadStart(shapes, Len(shapes) + 1),
        words |-> [offset \in {RecordOffset(k - 1) : k \in DOMAIN shapes} |->
                     LET k == CHOOSE j \in DOMAIN shapes : RecordOffset(j - 1) = offset
                     IN <<Magic, 1, Halfwords(shapes[k]), 0, PayloadStart(shapes, k), 0>>]]

(***************************************************************************)
(* class Chain.                                                            *)
(***************************************************************************)
EmptyChain == [body |-> <<>>, declared |-> {}, shapes |-> <<>>, counter |-> 0, value |-> X,
               names |-> <<>>]

Fresh(chain, stem) == <<stem, chain.counter + 1>>

Once(chain, constant) ==
  IF constant.result \in chain.declared THEN chain
  ELSE [chain EXCEPT !.body = Append(@, constant), !.declared = @ \cup {constant.result}]

FlagOf(value) == Const(Named(IF value THEN "t" ELSE "f"), <<>>, Flag(value))
Axis == Const(Named("ax"), <<>>, Number(-1))
Axes == Const(Named("axs"), <<1>>, Ints(<<-1>>))
Scale == Const(Named("sc"), <<>>, Filled(1))

Constant(chain, shape) ==
  LET name == Fresh(chain, "c")
  IN [chain EXCEPT !.body = Append(@, Const(name, shape, Stored(RecordOffset(Len(chain.shapes))))),
                   !.shapes = Append(@, shape), !.counter = @ + 1, !.value = name]

Emit(chain, stem, shape, op, in) ==
  LET name == Fresh(chain, stem)
  IN [chain EXCEPT !.body = Append(@, Apply(name, shape, op, in)), !.counter = @ + 1, !.value = name]

ChainMatmul(chain, x, shape, y, ty) ==
  Emit(Once(Once(chain, FlagOf(FALSE)), FlagOf(ty)), "m", shape, "matmul",
       [transpose_x |-> Named("f"), transpose_y |-> Named(IF ty THEN "t" ELSE "f"), x |-> x, y |-> y])

Project(chain, x, shape, columns) ==
  LET weighted == Constant(chain, <<columns, Last(shape)>>)
  IN ChainMatmul(weighted, x, Append(Front(shape), columns), weighted.value, TRUE)

(* The stem is the operation's first letter.                               *)
Stem(operation) == IF operation = "relu" THEN "r" ELSE IF operation = "gelu" THEN "g" ELSE "s"
ChainUnary(chain, operation, x, shape) == Emit(chain, Stem(operation), shape, operation, [x |-> x])
ChainBinary(chain, operation, x, y, shape) ==
  Emit(chain, IF operation = "add" THEN "a" ELSE "p", shape, operation, [x |-> x, y |-> y])
Scaled(chain, x, shape) == ChainBinary(Once(chain, Scale), "mul", x, Scale.result, shape)

BiasAdded(chain, x, shape, form) ==
  LET biased == Constant(chain, IF form = "full" THEN shape
                                ELSE [k \in DOMAIN shape |-> IF k = Len(shape) THEN shape[k] ELSE 1])
  IN ChainBinary(biased, "add", x, biased.value, shape)

Softmax(chain, x, shape) == Emit(Once(chain, Axis), "s", shape, "softmax", [x |-> x, axis |-> Axis.result])
LayerNorm(chain, x, shape) == Emit(Once(chain, Axes), "n", shape, "layer_norm", [x |-> x, axes |-> Axes.result])

(***************************************************************************)
(* Calls.  Variables nothing was assigned to are the program's inputs.     *)
(***************************************************************************)
Call(as, method, on, shape, argument) ==
  [as |-> as, method |-> method, on |-> on, shape |-> shape, argument |-> argument]

Holds(chain, variable) ==
  IF variable \in DOMAIN chain.names THEN chain.names[variable] ELSE Named(variable)

Perform(chain, call) ==
  LET x == Holds(chain, call.on[1])
      y == Holds(chain, call.on[2])
  IN CASE call.method = "matmul" -> ChainMatmul(chain, x, call.shape, y, call.argument)
       [] call.method = "project" -> Project(chain, x, call.shape, call.argument)
       [] call.method = "bias" -> BiasAdded(chain, x, call.shape, call.argument)
       [] call.method = "scale" -> Scaled(chain, x, call.shape)
       [] call.method = "softmax" -> Softmax(chain, x, call.shape)
       [] call.method = "layer_norm" -> LayerNorm(chain, x, call.shape)
       [] call.method = "add" -> ChainBinary(chain, "add", x, y, call.shape)
       [] OTHER -> ChainUnary(chain, call.method, x, call.shape)

Assigned(chain, variable) == [chain EXCEPT !.names = (variable :> chain.value) @@ @]

Built(calls) ==
  LET to[n \in 0..Len(calls)] ==
        IF n = 0 THEN EmptyChain ELSE Assigned(Perform(to[n - 1], calls[n]), calls[n].as)
  IN to[Len(calls)]

FeedForward(as, x, shape, hidden, bias, activation) ==
  LET inner == Append(Front(shape), hidden)
      Biased(variable, s) == IF bias = "" THEN <<>> ELSE <<Call(variable, "bias", <<variable>>, s, bias)>>
  IN <<Call("h", "project", <<x>>, shape, hidden)>> \o Biased("h", inner)
     \o <<Call("h", activation, <<"h">>, inner, 0), Call(as, "project", <<"h">>, inner, Last(shape))>>
     \o Biased(as, shape)

(* Mutant: the scores are as wide as the heads.                            *)
MutantScoresShape(shape) == shape

ScoresShape(shape) == Append(Front(shape), shape[Len(shape) - 1])

Attention(as, q, k, v, shape, scale) ==
  LET scores == ScoresShape(shape)
  IN <<Call("s", "matmul", <<q, k>>, scores, TRUE)>>
     \o (IF scale THEN <<Call("s", "scale", <<"s">>, scores, 0)>> ELSE <<>>)
     \o <<Call("s", "softmax", <<"s">>, scores, 0), Call(as, "matmul", <<"s", v>>, shape, FALSE)>>

(* From "x" to "x", as is a unit without weights.                          *)
Block(shape, projections) ==
  LET width == Last(shape)
      Projected(as, of) == Call(as, "project", <<of>>, shape, width)
  IN <<Call("n", "layer_norm", <<"x">>, shape, 0)>>
     \o (IF projections
           THEN <<Projected("q", "n"), Projected("k", "n"), Projected("v", "n")>>
                \o Attention("a", "q", "k", "v", shape, TRUE) \o <<Projected("a", "a")>>
           ELSE Attention("a", "n", "n", "n", shape, TRUE))
     \o <<Call("x", "add", <<"x", "a">>, shape, 0), Call("n", "layer_norm", <<"x">>, shape, 0)>>
     \o FeedForward("f", "n", shape, 4 * width, "", "gelu")
     \o <<Call("x", "add", <<"x", "f">>, shape, 0)>>

WeightlessUnit(shape) ==
  <<Call("n", "layer_norm", <<"x">>, shape, 0)>>
  \o Attention("a", "n", "n", "n", shape, TRUE)
  \o <<Call("x", "add", <<"x", "a">>, shape, 0), Call("n", "layer_norm", <<"x">>, shape, 0),
       Call("g", "gelu", <<"n">>, shape, 0), Call("x", "add", <<"x", "g">>, shape, 0)>>

Repeated(calls, times) == FlattenSeq([n \in 1..times |-> calls])

(* chain_case: the result is the value last emitted.                       *)
BuiltCase(name, arguments, chain) == Case(name, arguments, chain.body, chain.value, WeightBlob(chain.shapes))
ChainCase(name, arguments, calls) == BuiltCase(name, arguments, Built(calls))

(***************************************************************************)
(* Cases.                                                                  *)
(***************************************************************************)
Ffn(width, sequence, bias, activation) ==
  LET shape == <<1, sequence, width>>
  IN ChainCase(<<"chain_ffn", width, sequence, activation, bias>>, Input(shape),
               FeedForward("f", "x", shape, 4 * width, bias, activation))

Small3 == <<1, 64, 256>>
On3(method, argument) == Call("x", method, <<"x">>, Small3, argument)

Baseline(operation) ==
  ChainCase(<<"chain_base", operation>>, Input(Small3) \o (IF operation = "add" THEN <<<<Z, Small3>>>> ELSE <<>>),
            <<CASE operation = "matmul" -> On3("project", 256)
                [] operation = "add" -> Call("x", "add", <<"x", "z">>, Small3, 0)
                [] operation = "mul_scalar" -> On3("scale", 0)
                [] operation = "bias" -> On3("bias", "bcast")
                [] OTHER -> On3(operation, 0)>>)

Branches(independent) ==
  ChainCase(<<IF independent THEN "chain_branch" ELSE "chain_serial", 256, 64>>, Input(Small3),
            <<Call("l", "project", <<"x">>, Small3, 256),
              Call("r", "project", <<IF independent THEN "x" ELSE "l">>, Small3, 256),
              Call("o", "add", <<"l", "r">>, Small3, 0)>>)

NormProjection(width, sequence) ==
  LET shape == <<1, sequence, width>>
  IN ChainCase(<<"chain_lnproj", width, sequence>>, Input(shape),
               <<Call("n", "layer_norm", <<"x">>, shape, 0), Call("p", "project", <<"n">>, shape, width)>>)

AttentionCase(sequence, depth, heads, scale) ==
  LET shape == <<heads, sequence, depth>>
  IN ChainCase(<<"chain_attn", sequence, depth, heads, scale>>,
               [k \in 1..3 |-> <<Named(<<"q", "k", "v">>[k]), shape>>],
               Attention("a", "q", "k", "v", shape, scale))

(* x + f(x).                                                               *)
Residual(name, shape, calls) ==
  ChainCase(name, Input(shape), calls \o <<Call("o", "add", <<"x", "f">>, shape, 0)>>)

ResidualUnary(operation, width) ==
  Residual(<<"chain_res", operation, width>>, Flat(width), <<Call("f", operation, <<"x">>, Flat(width), 0)>>)
ResidualFfn(width, sequence) ==
  LET shape == <<1, sequence, width>>
  IN Residual(<<"chain_resffn", width, sequence>>, shape, FeedForward("f", "x", shape, 4 * width, "", "gelu"))
ResidualAttention(sequence, width) ==
  LET shape == <<1, sequence, width>>
  IN Residual(<<"chain_resattn", sequence, width>>, shape, Attention("f", "x", "x", "x", shape, TRUE))

(* Stacks of blocks, and of units without weights.                         *)
BlockCase(width, sequence, projections, depth) ==
  LET shape == <<1, sequence, width>>
  IN ChainCase(<<"chain_block", depth, width, sequence, projections>>, Input(shape),
               Repeated(Block(shape, projections), depth))

Deep(depth) ==
  ChainCase(<<"chain_deep", depth>>, Input(Small3), Repeated(WeightlessUnit(Small3), depth))

WeightCeiling(depth, width) ==
  LET shape == <<1, 64, width>>
  IN ChainCase(<<"chain_ceiling_weights", depth, width>>, Input(shape), Repeated(Block(shape, TRUE), depth))

EnvelopeBound(rows, inner, columns, ty) ==
  LET x == <<rows, inner>>
      hidden == <<rows, columns>>
      first == Constant(EmptyChain, IF ty THEN <<columns, inner>> ELSE <<inner, columns>>)
      h == ChainMatmul(first, X, hidden, first.value, ty)
      a == ChainUnary(h, "gelu", h.value, hidden)
      second == Constant(a, <<inner, columns>>)
  IN BuiltCase(<<"chain_ceiling_mlp", rows, inner, columns, ty>>, Input(x),
               ChainMatmul(second, a.value, x, second.value, TRUE))

(* An adjacent pair: the operations in order, and what the last one adds.  *)
PairOps ==
  [mm_relu |-> <<"mm", "relu">>, mm_gelu |-> <<"mm", "gelu">>, mm_silu |-> <<"mm", "silu">>, mm_bias |-> <<"mm", "bias">>,
   mm_bias_relu |-> <<"mm", "bias", "relu">>, mm_add |-> <<"mm", "add">>, mm_mm |-> <<"mm", "mm">>,
   gelu_mm |-> <<"gelu", "mm">>, ln_gelu |-> <<"ln", "gelu">>, ln_ln |-> <<"ln", "ln">>, add_ln |-> <<"mm", "add", "ln">>,
   mm_softmax |-> <<"mm", "softmax">>, softmax_mm |-> <<"softmax", "mm">>, mul_mm |-> <<"mul", "mm">>,
   mm_mul |-> <<"mm", "mul">>]

PairStep(operation, from) ==
  CASE operation = "mm" -> Call("y", "project", <<from>>, Small3, 256)
    [] operation = "bias" -> Call("y", "bias", <<from>>, Small3, "bcast")
    [] operation = "add" -> Call("y", "add", <<"x", from>>, Small3, 0)
    [] operation = "mul" -> Call("y", "scale", <<from>>, Small3, 0)
    [] operation = "ln" -> Call("y", "layer_norm", <<from>>, Small3, 0)
    [] OTHER -> Call("y", operation, <<from>>, Small3, 0)

Pair(label) ==
  LET ops == PairOps[label]
  IN ChainCase(<<"chain_pair", label>>, Input(Small3),
               [n \in DOMAIN ops |-> PairStep(ops[n], IF n = 1 THEN "x" ELSE "y")])

(* Depths, the deeper ones cut to the deepest that is built.               *)
Cut(depths) == {IF d < Deepest THEN d ELSE Deepest : d \in depths}

ChainCampaign ==
  {Baseline(op) : op \in {"matmul", "add", "mul_scalar", "bias", "relu", "gelu", "silu", "layer_norm", "softmax"}}
  \cup {Branches(independent) : independent \in BOOLEAN}
  \cup {Pair(label) : label \in DOMAIN PairOps}
  \cup {Ffn(width, sequence, "", "gelu") : width \in {256, 512, 768, 1024}, sequence \in {64, 128}}
  \cup {Ffn(256, 256, "", "gelu"), Ffn(256, 512, "", "gelu"), Ffn(512, 256, "", "gelu"),
        Ffn(768, 128, "bcast", "gelu"), Ffn(256, 64, "", "silu"), Ffn(256, 64, "", "relu")}
  \cup {Ffn(s[1], s[2], bias, "gelu") : s \in {<<256, 64>>, <<512, 128>>}, bias \in {"bcast", "full"}}
  \cup {NormProjection(width, sequence) : width \in {256, 512, 768, 1024}, sequence \in {64, 128}}
  \cup {NormProjection(512, sequence) : sequence \in {256, 512}}
  \cup {AttentionCase(sequence, depth, 1, TRUE) : sequence \in {64, 128, 256, 512}, depth \in {64, 96}}
  \cup {AttentionCase(128, 64, heads, TRUE) : heads \in {4, 8, 12}}
  \cup {AttentionCase(sequence, 64, 1, FALSE) : sequence \in {128, 256}}
  \cup {ResidualUnary(operation, width) : operation \in {"relu", "gelu", "silu"}, width \in {256, 1024}}
  \cup {ResidualFfn(width, sequence) : width \in {256, 512}, sequence \in {64, 128}}
  \cup {ResidualAttention(64, 256), ResidualAttention(128, 256)}
  \cup {BlockCase(width, sequence, TRUE, 1) : width \in {256, 512, 768}, sequence \in {64, 128}}
  \cup {BlockCase(256, 64, FALSE, 1), BlockCase(512, 128, FALSE, 1)}
  \cup {BlockCase(width, sequence, TRUE, depth) : width \in {256, 512}, sequence \in {64, 128}, depth \in Cut({2})}
  \cup {BlockCase(256, 64, TRUE, depth) : depth \in Cut({3, 4, 6, 8, 12, 16, 24, 32, 48, 64})}
  \cup {BlockCase(256, 64, FALSE, depth) : depth \in Cut({48, 64, 96, 128})}
  \cup {BlockCase(128, 64, FALSE, depth) : depth \in Cut({128, 192, 256, 384, 512})}
  \cup {Deep(depth) : depth \in Cut({64, 128, 256, 512, 1024, 2048, 4096, 8192, 16384})}
  \cup {WeightCeiling(depth, 512) : depth \in Cut({32, 64})} \cup {WeightCeiling(depth, 1024) : depth \in Cut({16})}
  \cup {EnvelopeBound(rows, 256, 256, FALSE) : rows \in {64}}
  \cup {EnvelopeBound(rows, 2048, 2048, FALSE) : rows \in {32, 128}}
  \cup {EnvelopeBound(rows, 8192, 8192, TRUE) : rows \in {128, 256}}
=============================================================================
