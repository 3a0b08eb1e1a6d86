------------------------------ MODULE ProbePrograms ------------------------------
(***************************************************************************)
(* The programs the minting drivers of research/ compile: what each case   *)
(* builder writes, and the grid of cases each driver runs.  A case is      *)
(* [name, arguments, body, result, file], its name the tuple of the parts  *)
(* the code joins with letters and underscores; family, parameters and     *)
(* descriptions are left out.                                              *)
(***************************************************************************)
EXTENDS MilPrograms

Case(name, arguments, body, result, file) ==
  [name |-> name, arguments |-> arguments, body |-> body, result |-> result, file |-> file]

(* A uniform payload of so many elements, none at all for 0.               *)
Uniform(elements) == IF elements = 0 THEN NoFile ELSE Blob(2 * elements)

X == Named("x")
Y == Named("y")
Z == Named("z")
W == Named("w")
B == Named("b")
Input(shape) == <<<<X, shape>>>>
BlobFile(name, shape) == Const(name, shape, Stored(64))
Spatial(channels, side) == <<1, channels, side, side>>
Flat(channels) == Spatial(channels, 1)
Widest(counts) == CHOOSE n \in counts : \A m \in counts : m <= n
Switch(name, value) == Const(Named(name), <<>>, Flag(value))
OnAxes(axes) == Const(Named("axes"), <<Len(axes)>>, Ints(axes))

(***************************************************************************)
(* mint_oracles: the shipped campaign.                                     *)
(***************************************************************************)
Binary(operation, shape) == Apply(Y, shape, operation, [x |-> X, y |-> Z])
Unary(operation, shape) == Apply(Y, shape, operation, [x |-> X])

BinaryRuntime(operation, shape) ==
  Case(<<"binary", operation, shape>>, <<<<X, shape>>, <<Z, shape>>>>, <<Binary(operation, shape)>>, Y, NoFile)

BinaryConstant(operation, channels, storage) ==
  LET shape == Flat(channels)
      constant == IF storage = "scalar" THEN Const(Z, <<>>, Filled(1))
                  ELSE IF storage = "inline" THEN Const(Z, shape, Filled(channels))
                  ELSE BlobFile(Z, shape)
  IN Case(<<"binary_constant", operation, channels, storage>>, Input(shape), <<constant, Binary(operation, shape)>>, Y,
          Uniform(IF storage = "blob" THEN channels ELSE 0))

UnaryCase(operation, channels) ==
  Case(<<"unary", operation, channels>>, Input(Flat(channels)), <<Unary(operation, Flat(channels))>>, Y, NoFile)

Reduced(shape, axes, keep) ==
  LET left == SelectSeq([k \in DOMAIN shape |-> k], LAMBDA k : k - 1 \notin ToSet(axes))
  IN IF keep THEN [k \in DOMAIN shape |-> IF k - 1 \in ToSet(axes) THEN 1 ELSE shape[k]]
     ELSE [k \in DOMAIN left |-> shape[left[k]]]

ReduceOver(operation, shape, axes, keep) ==
  <<OnAxes(axes),
    Apply(Y, Reduced(shape, axes, keep), operation, [x |-> X, axes |-> Named("axes"), keep_dims |-> Literal(keep)])>>

Reduction(operation, axes) ==
  Case(<<"axes", operation, axes>>, Input(Spatial(64, 8)), ReduceOver(operation, Spatial(64, 8), axes, TRUE), Y, NoFile)

SoftmaxOver(shape, axis) ==
  <<Const(Named("axis"), <<>>, Number(axis)), Apply(Y, shape, "softmax", [x |-> X, axis |-> Named("axis")])>>
LayerNormOver(result, shape, axes) ==
  <<OnAxes(axes), Apply(result, shape, "layer_norm", [x |-> X, axes |-> Named("axes")])>>

Normalization(operation, shape) ==
  Case(<<"normalization", operation, shape>>, Input(shape),
       IF operation = "softmax" THEN SoftmaxOver(shape, -1)
       ELSE LayerNormOver(Y, shape, [k \in 1..(Len(shape) - 1) |-> k]), Y, NoFile)

(* The attributes of a convolution, and the convolution.                   *)
ConvAttributes(pad, stride, groups) ==
  <<Const(Named("pt"), <<>>, Text(pad)), Const(Named("st"), <<2>>, Ints(<<stride, stride>>)),
    Const(Named("pd"), <<4>>, Ints(<<0, 0, 0, 0>>)), Const(Named("dl"), <<2>>, Ints(<<1, 1>>)),
    Const(Named("gp"), <<>>, Number(groups))>>

Conv(result, shape, biased) ==
  LET in == [dilations |-> Named("dl"), groups |-> Named("gp"), pad |-> Named("pd"), pad_type |-> Named("pt"),
             strides |-> Named("st"), weight |-> W, x |-> X]
  IN Apply(result, shape, "conv", IF biased THEN in @@ [bias |-> B] ELSE in)

Convolution(kernel, inputs, outputs, side, bias, relu) ==
  LET weight == <<outputs, inputs, kernel, kernel>>
      result == IF relu THEN Named("c") ELSE Y
  IN Case(<<"conv", kernel, inputs, outputs, side, bias, relu>>, Input(Spatial(inputs, side)),
          ConvAttributes("same", 1, 1) \o <<BlobFile(W, weight)>>
          \o (IF bias THEN <<Const(B, <<outputs>>, Filled(outputs))>> ELSE <<>>)
          \o <<Conv(result, Spatial(outputs, side), bias)>>
          \o (IF relu THEN <<Apply(Y, Spatial(outputs, side), "relu", [x |-> Named("c")])>> ELSE <<>>),
          Y, Uniform(Product(weight)))

Product2(result, shape, x, y, tx, ty) ==
  Apply(result, shape, "matmul", [transpose_x |-> Named(tx), transpose_y |-> Named(ty), x |-> x, y |-> y])
ZeroBias(columns) == Const(B, <<columns>>, Filled(columns))

MatmulCase(inner, columns, rows, transpose, chained) ==
  LET shape == <<rows, columns>>
      product == Named("product")
      biased == Named("biased")
  IN Case(<<"matmul", rows, inner, columns, transpose, chained>>, Input(<<rows, inner>>),
          <<Switch("f", FALSE), Switch("ty", transpose),
            BlobFile(W, IF transpose THEN <<columns, inner>> ELSE <<inner, columns>>),
            Product2(product, shape, X, W, "f", "ty")>>
          \o (IF chained THEN <<ZeroBias(columns), Apply(biased, shape, "add", [x |-> product, y |-> B]),
                                Apply(Y, shape, "relu", [x |-> biased])>> ELSE <<>>),
          IF chained THEN Y ELSE product, Uniform(columns * inner))

Linear(inner, columns) ==
  Case(<<"linear", inner, columns>>, Input(<<1, inner>>),
       <<BlobFile(W, <<columns, inner>>), ZeroBias(columns),
         Apply(Y, <<1, columns>>, "linear", [x |-> X, weight |-> W, bias |-> B])>>, Y, Uniform(columns * inner))

AddReluChain ==
  Case(<<"chain_add_relu_c512">>, <<<<X, Flat(512)>>, <<Z, Flat(512)>>>>,
       <<Apply(Named("added"), Flat(512), "add", [x |-> X, y |-> Z]),
         Apply(Y, Flat(512), "relu", [x |-> Named("added")])>>, Y, NoFile)

ExpScaledChain(channels) ==
  LET shape == Flat(channels)
      Scalar(name) == Const(Named(name), <<>>, Filled(1))
      Of(result, operation, x, y) == Apply(Named(result), shape, operation, [x |-> Named(x), y |-> Named(y)])
  IN Case(<<"chain_exp_d4", channels>>, Input(shape),
          <<Scalar("k16"), Scalar("sixteen"), Scalar("sixteenth"), Apply(Named("e"), shape, "exp", [x |-> X]),
            Of("c", "mul", "x", "k16"), Of("g", "add", "c", "sixteen"), Of("p", "mul", "e", "g"),
            Of("y", "mul", "p", "sixteenth")>>, Y, NoFile)

(* The shipped campaign's grid.                                            *)
ShippedShapes == {Flat(c) : c \in {64, 128, 256, 512, 1024, 2048, 4096}}
                   \cup {Spatial(64, 8), Spatial(128, 16), Spatial(3, 224)}

Shipped ==
  {BinaryRuntime(operation, shape) :
     operation \in {"add", "mul", "maximum", "minimum", "sub", "real_div", "pow"}, shape \in ShippedShapes}
  \cup {UnaryCase("abs", channels) : channels \in {64, 128, 256, 512, 1024, 2048, 4096}}
  \cup {BinaryConstant(operation, channels, storage) : operation \in Elementwise, channels \in {64, 512},
          storage \in {"inline", "blob", "scalar"}}
  \cup {UnaryCase(operation, channels) : channels \in {64, 512},
          operation \in {"relu", "sigmoid", "tanh", "gelu", "silu", "exp", "log", "sqrt", "rsqrt", "clip", "leaky_relu"}}
  \cup {Reduction(operation, axes) : operation \in Reductions, axes \in {<<1>>, <<2, 3>>}}
  \cup {Normalization(operation, shape) : operation \in {"softmax", "layer_norm"}, shape \in {Flat(512), Spatial(64, 8)}}
  \cup {Convolution(1, inputs, outputs, 1, bias, FALSE) :
          inputs \in {256, 512, 1024}, outputs \in {512, 1024}, bias \in BOOLEAN}
  \cup {MatmulCase(inner, columns, rows, transpose, FALSE) : rows \in {1, 2, 8, 64},
          inner \in {256, 512, 1024}, columns \in {256, 512, 1024}, transpose \in BOOLEAN}
  \cup {Linear(256, 512), Linear(512, 1024), AddReluChain, MatmulCase(512, 512, 1, FALSE, TRUE),
        Convolution(3, 64, 64, 8, FALSE, FALSE), Convolution(1, 64, 64, 8, FALSE, TRUE)}
  \cup {ExpScaledChain(channels) : channels \in {64, 512}}

(***************************************************************************)
(* mint_oracles: the envelope of what Apple's compiler accepts.            *)
(***************************************************************************)
(* zip over the shapes: the builder's, not the evaluator's, broadcasting.  *)
EnvBroadcast(operation, x, z, mode) ==
  LET shape == [k \in DOMAIN x |-> Widest({x[k], z[k]})]
      constant == IF mode = "scalar" THEN <<Const(Z, <<>>, Filled(1))>>
                  ELSE IF mode = "blob" THEN <<BlobFile(Z, z)>> ELSE <<>>
  IN Case(<<"env_bcast", operation, x, mode, IF mode = "scalar" THEN <<>> ELSE z>>,
          Input(x) \o (IF mode = "runtime" THEN <<<<Z, z>>>> ELSE <<>>),
          constant \o <<Binary(operation, shape)>>, Y, Uniform(IF mode = "blob" THEN Product(z) ELSE 0))

(* batch is <<>> or <<extent>>; either operand may be a constant.          *)
EnvMatmul(m, batch, tx, ty, xStored, wStored) ==
  LET x == batch \o (IF tx THEN <<m.inner, m.rows>> ELSE <<m.rows, m.inner>>)
      matrix == IF ty THEN <<m.columns, m.inner>> ELSE <<m.inner, m.columns>>
      w == (IF wStored THEN <<>> ELSE batch) \o matrix
      Argument(name, shape, stored) == IF stored THEN <<>> ELSE <<<<name, shape>>>>
      Constant(name, shape, stored) == IF stored THEN <<BlobFile(name, shape)>> ELSE <<>>
  IN Case(<<"env_mm", batch, xStored, wStored, m.rows, m.inner, m.columns, tx, ty>>,
          Argument(X, x, xStored) \o Argument(W, w, wStored),
          <<Switch("tx", tx), Switch("ty", ty)>> \o Constant(X, x, xStored) \o Constant(W, w, wStored)
          \o <<Product2(Named("product"), batch \o <<m.rows, m.columns>>, X, W, "tx", "ty")>>,
          Named("product"),
          Uniform(Widest({0} \cup (IF xStored THEN {Product(x)} ELSE {}) \cup (IF wStored THEN {Product(w)} ELSE {}))))

EnvConv(kernel, inputs, outputs, side, stride, groups, bias) ==
  LET weight == <<outputs, inputs \div groups, kernel, kernel>>
  IN Case(<<"env_conv", kernel, inputs, outputs, side, stride, groups, bias>>, Input(Spatial(inputs, side)),
          ConvAttributes("same", stride, groups) \o <<BlobFile(W, weight)>>
          \o (IF bias THEN <<BlobFile(B, <<outputs>>)>> ELSE <<>>)
          \o <<Conv(Y, Spatial(outputs, (side + stride - 1) \div stride), bias)>>,
          Y, Uniform(IF bias THEN Widest({Product(weight), outputs}) ELSE Product(weight)))

EnvActivation(operation, shape, mode) ==
  Case(<<"env_act", operation, shape, mode>>, Input(shape), <<Unary(operation, shape)>>, Y, NoFile)

FalseTrue == <<Switch("f", FALSE), Switch("t", TRUE)>>

EnvChainMlp(rows, inner, hidden, batch) ==
  LET x == batch \o <<rows, inner>>
      h == batch \o <<rows, hidden>>
  IN Case(<<"env_chain_mlp", rows, inner, hidden, batch>>, Input(x),
          FalseTrue \o <<BlobFile(Named("w1"), <<hidden, inner>>), Product2(Named("h"), h, X, Named("w1"), "f", "t"),
            Apply(Named("a"), h, "gelu", [x |-> Named("h")]),
            BlobFile(Named("w2"), <<inner, hidden>>), Product2(Y, x, Named("a"), Named("w2"), "f", "t")>>,
          Y, Uniform(hidden * inner))

EnvChainSoftmax(heads, sequence) ==
  LET shape == <<1, heads, sequence, sequence>>
  IN Case(<<"env_chain_softmax", heads, sequence>>, Input(shape), SoftmaxOver(shape, -1), Y, NoFile)

EnvChainLayerNormMatmul(inner, columns, rows, batch) ==
  LET x == batch \o <<rows, inner>>
  IN Case(<<"env_chain_ln_matmul", rows, inner, columns, batch>>, Input(x),
          FalseTrue \o LayerNormOver(Named("n"), x, <<-1>>)
          \o <<BlobFile(W, <<columns, inner>>), Product2(Y, batch \o <<rows, columns>>, Named("n"), W, "f", "t")>>,
          Y, Uniform(columns * inner))

EnvChainResidual(operation, shape) ==
  Case(<<"env_chain_residual", operation, shape>>, Input(shape),
       <<Apply(Named("f"), shape, operation, [x |-> X]), Apply(Y, shape, "add", [x |-> X, y |-> Named("f")])>>, Y, NoFile)

EnvChainAttention(sequence, depth) ==
  LET operand == <<1, sequence, depth>>
      scores == <<1, sequence, sequence>>
  IN Case(<<"env_chain_attention", sequence, depth>>, [k \in 1..3 |-> <<Named(<<"q", "k", "v">>[k]), operand>>],
          FalseTrue \o <<Const(Named("axis"), <<>>, Number(-1)),
            Product2(Named("s"), scores, Named("q"), Named("k"), "f", "t"),
            Apply(Named("p"), scores, "softmax", [x |-> Named("s"), axis |-> Named("axis")]),
            Product2(Y, operand, Named("p"), Named("v"), "f", "f")>>, Y, NoFile)

(* The envelope's grid, in the order of the code.                          *)
Matrices(rows, inners, columns) == [rows : rows, inner : inners, columns : columns]
Square(rows, sizes) == {m \in Matrices(rows, sizes, sizes) : m.inner = m.columns}

EnvelopeBroadcasts ==
  UNION {{EnvBroadcast(operation, Spatial(channels, side), z, "runtime") :
            z \in {Flat(channels), <<1, 1, side, side>>, <<1, 1, 1, 1>>}} :
           operation \in {"add", "mul"}, channels \in {64, 96, 768}, side \in {8, 16}}
  \cup UNION {{EnvBroadcast(operation, Spatial(channels, side), Flat(channels), "blob"),
               EnvBroadcast(operation, Spatial(channels, side), <<1, 1, 1, 1>>, "scalar")} :
                operation \in {"add", "mul"}, channels \in {64, 768}, side \in {8, 16}}
  \cup {EnvBroadcast(operation, <<batch, channels, 1, 1>>, <<batch, channels, 1, 1>>, "runtime") :
          operation \in {"add", "mul"}, batch \in {2, 8}, channels \in {64, 512, 1024}}
  \cup {EnvBroadcast(operation, <<batch, 64, 8, 8>>, Flat(64), "runtime") :
          operation \in {"add", "mul"}, batch \in {2, 8}}
  \cup {EnvBroadcast(operation, <<batch, 64, 8, 8>>, <<batch, 64, 8, 8>>, "runtime") :
          operation \in {"add", "mul"}, batch \in {2, 8}}
  \cup {EnvBroadcast(operation, Flat(channels), Flat(channels), "runtime") :
          operation \in {"add", "mul", "sub"}, channels \in {96, 200, 300, 768, 3072, 8192, 16384}}

Large == {2048, 4096, 8192}

EnvelopeMatmuls ==
  {EnvMatmul(m, <<>>, FALSE, TRUE, FALSE, TRUE) : m \in Matrices({1, 16, 32, 128, 256, 512}, Large, Large)}
  \cup {EnvMatmul(m, <<1>>, FALSE, TRUE, FALSE, TRUE) : m \in Matrices({1, 32, 256}, Large, Large)}
  \cup {EnvMatmul(m, <<>>, TRUE, TRUE, FALSE, TRUE) : m \in Square({1, 32, 256}, {2048, 4096})}
  \cup {EnvMatmul(m, <<>>, FALSE, TRUE, TRUE, FALSE) : m \in Square({1, 32}, {2048, 4096})}
  \cup {EnvMatmul(m, <<>>, FALSE, ty, FALSE, FALSE) : m \in Square({16, 128}, {2048, 4096}), ty \in BOOLEAN}
  \cup {EnvMatmul(m, <<>>, TRUE, ty, FALSE, FALSE) : m \in Square({128}, {2048}), ty \in BOOLEAN}
  \cup {EnvMatmul([rows |-> sequence, inner |-> depth, columns |-> sequence], <<1>>, FALSE, TRUE, FALSE, FALSE) :
          sequence \in {64, 128, 256, 512}, depth \in {64, 128}}
  \cup {EnvMatmul([rows |-> sequence, inner |-> sequence, columns |-> depth], <<1>>, FALSE, FALSE, FALSE, FALSE) :
          sequence \in {64, 128, 256, 512}, depth \in {64, 128}}

Envelope ==
  EnvelopeBroadcasts \cup EnvelopeMatmuls
  \cup {EnvConv(kernel, 64, 64, 16, stride, groups, bias) :
          kernel \in {1, 3}, stride \in {1, 2}, bias \in BOOLEAN, groups \in {1, 4}}
  \cup {EnvConv(1, 256, 256, 8, 1, 1, TRUE), EnvConv(1, 768, 768, 1, 1, 1, TRUE), EnvConv(1, 64, 256, 8, 1, 1, FALSE),
        EnvConv(3, 128, 128, 16, 2, 1, TRUE), EnvConv(3, 64, 64, 16, 1, 64, FALSE), EnvConv(3, 64, 64, 16, 1, 64, TRUE)}
  \cup {EnvActivation(operation, shape, IF operation = "gelu" THEN "EXACT" ELSE "") : operation \in {"gelu", "silu"},
          shape \in {Spatial(64, 8), Spatial(128, 16), Spatial(256, 32), Spatial(768, 16), Flat(3072)}}
  \cup {EnvActivation("gelu", Flat(768), mode) : mode \in {"EXACT", "TANH_APPROXIMATION", "SIGMOID_APPROXIMATION"}}
  \cup {EnvChainMlp(rows, 2048, 4096, <<>>) : rows \in {1, 32, 128}}
  \cup {EnvChainMlp(32, 4096, 4096, <<>>), EnvChainMlp(1, 2048, 2048, <<1>>)}
  \cup {EnvChainSoftmax(heads, sequence) : heads \in {1, 8, 12}, sequence \in {64, 128, 256}}
  \cup {EnvChainLayerNormMatmul(inner, columns, 1, <<>>) : inner \in {2048, 4096}, columns \in {2048, 4096}}
  \cup {EnvChainLayerNormMatmul(2048, 2048, 32, <<1>>)}
  \cup {EnvChainResidual(operation, shape) : operation \in {"gelu", "silu", "relu"}, shape \in {Flat(768), Spatial(64, 8)}}
  \cup {EnvChainAttention(sequence, 64) : sequence \in {64, 128, 256}} \cup {EnvChainAttention(128, 128)}

(***************************************************************************)
(* mint_conv_probes.                                                       *)
(***************************************************************************)
OutputSpatial(side, kernel, stride, pad) ==
  IF pad = "same" THEN (side + stride - 1) \div stride ELSE (side - kernel) \div stride + 1

Fits(kernel, side, stride, pad) == OutputSpatial(side, kernel, stride, pad) >= 1

(* Mutant: the name does not tell the padding.                             *)
MutantConvName(prefix, c) == <<prefix, c.kernel, c.inputs, c.outputs, c.side, c.stride, c.groups, c.bias>>

ConvName(prefix, c) == <<prefix, c.kernel, c.inputs, c.outputs, c.side, c.stride, c.groups, c.bias, c.pad>>

ConvCase(c, prefix) ==
  LET weight == <<c.outputs, c.inputs \div c.groups, c.kernel, c.kernel>>
  IN Case(ConvName(prefix, c), Input(Spatial(c.inputs, c.side)),
          ConvAttributes(c.pad, c.stride, c.groups) \o <<BlobFile(W, weight)>>
          \o (IF c.bias THEN <<BlobFile(B, <<c.outputs>>)>> ELSE <<>>)
          \o <<Conv(Y, Spatial(c.outputs, OutputSpatial(c.side, c.kernel, c.stride, c.pad)), c.bias)>>,
          Y, Uniform(IF c.bias THEN Widest({Product(weight), c.outputs}) ELSE Product(weight)))

KnownWeightCase(c) == ConvCase(c, "conv_known")

Pads == {"same", "valid"}
Counts == {64, 128, 256, 512, 1024}
ConvGrid(kernels, inputs, outputs, sides, strides, groups, biases, pads) ==
  [kernel : kernels, inputs : inputs, outputs : outputs, side : sides, stride : strides,
   groups : groups, bias : biases, pad : pads]

(* Depthwise, or in four groups.                                           *)
Grouped(kernels, counts, strides, biases) ==
  UNION {ConvGrid(kernels, {count}, {count}, {16}, strides, {4, count}, biases, {"same"}) : count \in counts}

ConvProbes ==
  {c \in ConvGrid({1, 3}, Counts, Counts, {16}, {1, 2}, {1}, {FALSE}, Pads) :
     Fits(c.kernel, 16, c.stride, c.pad) /\ c.inputs * c.outputs * c.kernel * c.kernel * 2 <= 67108864}
  \cup {c \in UNION {ConvGrid({1, 3}, {count}, {count}, {1, 8, 16, 32, 64}, {1, 2}, {1}, BOOLEAN, Pads) : count \in {64, 256}} :
        Fits(c.kernel, c.side, c.stride, c.pad)}
  \cup Grouped({1, 3}, Counts, {1, 2}, BOOLEAN)
  \cup ConvGrid({1, 3}, {64}, Counts, {16}, {1}, {1}, {TRUE}, {"same"})

KnownProbes ==
  UNION {ConvGrid({1, 3}, {pair[1]}, {pair[2]}, {16}, {1, 2}, {1, 4}, BOOLEAN, {"same"}) :
           pair \in {<<64, 64>>, <<64, 128>>, <<128, 64>>, <<64, 256>>, <<256, 64>>}}
  \cup ConvGrid({1, 3}, {64}, {512, 768, 1024}, {16}, {1}, {1}, BOOLEAN, {"same"})
  \cup UNION {ConvGrid({1, 3}, {count}, {count}, {16}, {s[1]}, {count}, {s[2]}, {"same"}) :
              count \in {64, 128}, s \in {<<1, FALSE>>, <<2, TRUE>>}}

ConvCampaign == {ConvCase(c, "conv_probe") : c \in ConvProbes} \cup {KnownWeightCase(c) : c \in KnownProbes}

(***************************************************************************)
(* mint_norm_probes, and mint_h14_norm_probes, which renames its cases.    *)
(***************************************************************************)
SoftmaxProbe(shape, axis) == Case(<<"norm_softmax", axis, shape>>, Input(shape), SoftmaxOver(shape, axis), Y, NoFile)

LayerNormProbe(shape, axes, affine) ==
  LET normalized == [k \in DOMAIN axes |-> shape[axes[k] + 1]]
      Affine(name) == Const(Named(name), normalized, Filled(Product(normalized)))
      norm == Apply(Y, shape, "layer_norm", [x |-> X, axes |-> Named("axes")])
  IN Case(<<"norm_layer_norm", axes, shape, affine>>, Input(shape),
          <<OnAxes(axes)>>
          \o (IF affine THEN <<Affine("gamma"), Affine("beta"),
                               [norm EXCEPT !.in = @ @@ [beta |-> Named("beta"), gamma |-> Named("gamma")]]>>
              ELSE <<norm>>), Y, NoFile)

ReduceProbe(operation, shape, axes, keep) ==
  Case(<<"reduce_probe", operation, axes, shape, keep>>, Input(shape), ReduceOver(operation, shape, axes, keep), Y, NoFile)

NormChannels == {64, 128, 256, 512, 1024, 2048, 4096}
Sequences6 == {<<1, 1, 1, 64>>, <<1, 1, 1, 128>>, <<1, 1, 1, 512>>, <<1, 8, 1, 64>>, <<1, 8, 1, 128>>, <<1, 64, 1, 64>>}
Sequences4 == Sequences6 \ {<<1, 8, 1, 128>>, <<1, 64, 1, 64>>}
Sequences8 == Sequences6 \cup {<<1, 32, 1, 32>>, <<1, 64, 1, 128>>}
Spatials == {Spatial(64, 8), Spatial(128, 16), Spatial(32, 4)}
Scores == {<<1, 1, 64, 64>>, <<1, 8, 64, 64>>, <<1, 12, 64, 64>>, <<1, 8, 128, 128>>, <<1, 1, 256, 256>>}
NormFlats == {Flat(channels) : channels \in NormChannels}

NormCampaign ==
  {SoftmaxProbe(shape, axis) : shape \in NormFlats \cup Sequences8, axis \in {1, -1, 3}}
  \cup {SoftmaxProbe(shape, axis) : shape \in Spatials, axis \in {1, 2, 3, -1}}
  \cup {SoftmaxProbe(shape, axis) : shape \in Scores, axis \in {-1, 3}}
  \cup {LayerNormProbe(shape, axes, affine) : shape \in NormFlats, axes \in {<<1>>, <<1, 2, 3>>}, affine \in BOOLEAN}
  \cup {LayerNormProbe(shape, axes, FALSE) : shape \in Spatials, axes \in {<<1>>, <<3>>, <<2, 3>>, <<1, 2, 3>>}}
  \cup {LayerNormProbe(shape, <<1, 2, 3>>, TRUE) : shape \in Spatials}
  \cup {LayerNormProbe(shape, axes, FALSE) : shape \in Sequences4, axes \in {<<3>>, <<1, 2, 3>>}}
  \cup {ReduceProbe(operation, shape, <<1>>, TRUE) : operation \in Reductions, shape \in NormFlats}
  \cup {ReduceProbe(operation, shape, axes, TRUE) : operation \in Reductions, shape \in Spatials,
          axes \in {<<1>>, <<2>>, <<3>>, <<2, 3>>, <<1, 2, 3>>}}
  \cup {ReduceProbe(operation, shape, axes, TRUE) : operation \in Reductions, shape \in Sequences6, axes \in {<<3>>, <<1>>}}
  \cup {ReduceProbe(operation, Spatial(64, 8), <<2, 3>>, FALSE) : operation \in Reductions}
  \cup {ReduceProbe(operation, Flat(512), <<1>>, FALSE) : operation \in Reductions}

Rename(case) == [case EXCEPT !.name = <<"h14norm">> \o @]
H14NormCampaign == {Rename(case) : case \in NormCampaign}

(***************************************************************************)
(* mint_matvec_probes and mint_h14_matvec_probes: a pattern is <<kind>> or *)
(* <<kind, number>>, a stain or a mark at a place of the file.             *)
(***************************************************************************)
HeaderHalfwords == 64

(* Where in the payload of so many halfwords a onehot pattern writes its   *)
(* mark: struct.pack_into counts a negative offset from the end.           *)
MarkAt(logical, elements) == LET at == logical - HeaderHalfwords IN IF at < 0 THEN elements + at ELSE at

(* The halfwords of the payload that a pattern marks.                      *)
MarkedBy(pattern, elements) ==
  [marks |-> IF pattern[1] = "onehot" THEN {MarkAt(pattern[2], elements)} ELSE {}]

(* The blob container keeps its header, pad has zeros there, raw has none. *)
WeightFile(elements, container) ==
  IF container = "blob" THEN Blob(2 * elements)
  ELSE [container |-> container, bytes |-> 2 * elements + (IF container = "pad" THEN 128 ELSE 0),
        words |-> [offset \in {IF container = "pad" THEN 64 ELSE 0} |-> [k \in 1..6 |-> 0]]]

MatvecBody(inner, columns, rows, offset) ==
  <<Switch("f", FALSE), Switch("ty", TRUE), Const(W, <<columns, inner>>, Stored(offset)),
    Product2(Named("product"), <<rows, columns>>, X, W, "f", "ty")>>

MatvecProbe(inner, columns, rows, pattern, container) ==
  Case(<<"matvec_probe", pattern, container, rows, inner, columns>>, Input(<<rows, inner>>),
       MatvecBody(inner, columns, rows, IF container = "raw" THEN 0 ELSE 64), Named("product"),
       WeightFile(inner * columns, container) @@ MarkedBy(pattern, inner * columns))

H14MatvecProbe(inner, columns, rows, pattern) ==
  Case(<<"h14mv", pattern, rows, inner, columns>>, Input(<<rows, inner>>),
       MatvecBody(inner, columns, rows, 64), Named("product"),
       Blob(2 * inner * columns) @@ MarkedBy(pattern, inner * columns))

(* onehot marks that lie in the weight.                                    *)
Marks(sizes, logicals, container) ==
  UNION {{MatvecProbe(size[1], size[2], 1, <<"onehot", logical>>, container) :
            logical \in {l \in logicals : l < size[1] * size[2]}} : size \in sizes}
Patterned(sizes, kinds, container) ==
  {MatvecProbe(size[1], size[2], 1, <<kind>>, container) : size \in sizes, kind \in kinds}

Small256 == {<<16, 8>>, <<32, 4>>, <<64, 2>>, <<8, 16>>, <<128, 1>>, <<16, 4>>, <<64, 1>>}
Medium == {<<256, 32>>, <<256, 64>>, <<512, 32>>, <<1024, 16>>, <<256, 128>>, <<128, 256>>}
Wide == {<<32, 512>>, <<64, 512>>, <<32, 1024>>, <<16, 1024>>}
Sides == {256, 512, 1024}

MatvecCampaign ==
  Patterned(Small256, {"index"}, "blob")
  \cup Patterned(Medium \cup {<<64, 64>>, <<32, 256>>}, {"mask", "zero"}, "blob")
  \cup Patterned(Sides \X Sides, {"mask"}, "blob")
  \cup {MatvecProbe(256, 1024, 64, <<"mask">>, "blob"), MatvecProbe(512, 512, 8, <<"mask">>, "blob")}
  \cup Marks(Medium, {64, 65, 66, 79, 80, 95, 96, 127, 128, 129, 130, 159, 160, 255, 256, 257, 288, 320,
                      512, 1023, 1024, 2048, 4096, 8191}, "blob")
  \cup UNION {{MatvecProbe(size[1], size[2], 1, <<"rowstain", row>>, "blob") :
                 row \in {r \in {0, 1, 2, 3, 7, 8, 15, 16, 31, 32, 63} : r < size[2]}} :
                size \in {<<256, 32>>, <<256, 64>>, <<512, 32>>}}
  \cup UNION {{MatvecProbe(size[1], size[2], 1, <<"colstain", column>>, "blob") :
                 column \in {0, 1, 2, 7, 8, 15, 16, 31, 32, 63, 64, 127, 128, 255}} :
                size \in {<<256, 32>>, <<256, 64>>, <<512, 32>>}}
  \cup UNION {Patterned({<<256, 32>>, <<1024, 16>>}, {"zero", "mask"}, container)
              \cup {MatvecProbe(size[1], size[2], 1, <<"onehot", l + HeaderHalfwords>>, container) :
                    size \in {<<256, 32>>, <<1024, 16>>},
                    l \in {0, 1, 2, 31, 32, 63, 64, 65, 127, 128, 255, 256, 257, 511, 512, 1023, 1024, 2048, 4096, 8191}} :
              container \in {"pad", "raw"}}
  \cup Patterned(Wide, {"zero", "mask"}, "blob")
  \cup Marks(Wide, {64, 65, 66, 79, 80, 95, 96, 127, 128, 129, 255, 256, 512, 1024, 2048, 4096, 8191}, "blob")
  \cup {MatvecProbe(64, 512, 1, <<"onehot", row * 64>>, "blob") : row \in 0..71}
  \cup {MatvecProbe(64, 512, 1, <<"onehot", row * 64 + column>>, "blob") :
          row \in {0, 1, 2, 3, 4, 8, 15, 16, 17, 31, 32, 33, 63, 64, 65, 127, 128, 255, 256, 257, 383, 384, 511},
          column \in {0, 1, 15, 16, 31, 63}}

H14MatvecCampaign ==
  {H14MatvecProbe(inner, 16, 1, <<"index">>) : inner \in {2, 4, 8, 16}}
  \cup {H14MatvecProbe(inner, columns, 1, <<"mask">>) : inner \in Sides, columns \in Sides}
  \cup {H14MatvecProbe(256, 256, rows, <<"mask">>) : rows \in {2, 8, 64}}
  \cup {H14MatvecProbe(256, 1024, 64, <<"mask">>), H14MatvecProbe(1024, 256, 8, <<"mask">>)}
  \cup {H14MatvecProbe(size[1], size[2], 1, <<kind>>) : kind \in {"zero", "mask"},
          size \in {<<256, 32>>, <<256, 64>>, <<1024, 16>>, <<128, 256>>, <<64, 512>>, <<32, 1024>>}}
  \cup {H14MatvecProbe(size[1], size[2], 1, <<"onehot", logical>>) :
          size \in {<<256, 64>>, <<1024, 16>>, <<128, 256>>, <<64, 512>>, <<32, 1024>>},
          logical \in {64, 65, 66, 79, 80, 95, 96, 127, 128, 129, 130, 255, 256, 257, 512, 1024, 2048, 4096, 8191}}
=============================================================================
