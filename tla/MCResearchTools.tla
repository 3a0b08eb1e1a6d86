---------------------------- MODULE MCResearchTools ----------------------------
(***************************************************************************)
(* Small inputs for every tool of ResearchTools: task streams of a few     *)
(* words with every way to be refused, records over shapes that share      *)
(* surfaces, convolutions around the sizes at which the packing changes,   *)
(* and tensors of up to three axes.                                        *)
(***************************************************************************)
EXTENDS ResearchTools

MCUnary == {"relu"}
MCBinary == {"add", "real_div"}
MCRuntime == {"add"}

(***************************************************************************)
(* Tasks, with every payload of up to four words and both header sizes,    *)
(* and what may be wrong with their ends.                                  *)
(***************************************************************************)
Packed == {0, 1, 2, 4, 20, 24, 28, 29}    \* headers: a run, or a mask with its base

MCTasks ==
  <<{[target |-> "h13", words |-> <<0, 0, flags>> \o p] : flags \in {0, 3}, p \in BoundedSeq(0..7, 4)},
    {[target |-> "h14", words |-> <<0, flags>> \o p] : flags \in {0, 3}, p \in BoundedSeq(Packed, 4)},
    {[target |-> t, words |-> <<0>>] : t \in {"h13", "h14"}}>>

(* An H13 section: two tasks, the place of the second, its link and the    *)
(* padding between them.                                                   *)
Payloads == {<<>>, <<0, 5>>, <<4, 5, 6>>}
H13Sections ==
  {[target |-> "h13", first |-> first, count |-> count,
    words |-> <<size, link, 0>> \o a \o pad \o <<0, last, 3>> \o <<7>> \o b] :
     size \in 4..6, link \in {0, 3, 5, 6, 7, 20}, a \in Payloads, b \in Payloads,
     pad \in {<<>>, <<0>>, <<9>>}, last \in {0, 9}, first \in {1, 3, 5, 6}, count \in 1..2}

(* Three tasks, padded or not.                                             *)
H13Threes ==
  {[target |-> "h13", first |-> 3, count |-> 3,
    words |-> <<size, a, 0>> \o pad \o <<2, b, 0>> \o payload \o end \o <<0, 0, 0>>] :
     a \in 3..4, b \in 6..9, size \in {2, 4}, payload \in {<<>>, <<0, 5>>}, pad \in {<<>>, <<0>>}, end \in {<<>>, <<0>>}}

(* An H14 section: pieces at frame boundaries or not.                      *)
Piece(payload, pad) == <<Len(payload) + 2, 0>> \o payload \o pad
Pieces == {<<0, 0>>, <<8, 0>>, <<0, 1>>, <<1>>}
            \cup {Piece(p, pad) : p \in {<<>>, <<0, 5>>, <<0>>, <<4, 5, 6>>}, pad \in {<<>>, <<0>>, <<9>>}}
H14Sections ==
  {[target |-> "h14", first |-> 0, count |-> 0, words |-> FlattenSeq(s)] : s \in BoundedSeq(Pieces, 3) \ {<<>>}}

(***************************************************************************)
(* Objects with one descriptor or two.                                     *)
(***************************************************************************)
Program(start, first, count) == [start |-> start, first |-> first, count |-> count]
Texts == {<<2, l, 0>> \o a \o <<2, 0, 0>> \o b :
            l \in {0, 3, 4}, a \in {<<>>, <<0>>, <<9>>}, b \in {<<>>, <<0, 3>>, <<2, 0, 0>>}}
Starts == {0, 3, 4, 6, 20}
ProgramLists ==
  {<<>>} \cup {<<Program(s, f, c)>> : s \in Starts, f \in {2, 3, 5}, c \in 1..3}
  \cup {<<Program(s, 3, c), Program(t, 3, d)>> : s \in Starts, t \in Starts, c \in 1..2, d \in 1..2}

Object(text, programs, commands, declared, constants) ==
  [target |-> "h13", text |-> text, programs |-> programs, commands |-> commands,
   declared |-> declared, constants |-> constants]
Following(text) == [offset |-> Len(text), address |-> Len(text)]

MCObjects ==
  <<{Object(text, programs, <<[bytes |-> 2]>>, 2, Following(text)) : text \in Texts, programs \in ProgramLists},
    {Object(<<2, 0, 0>>, <<Program(0, 3, 1)>>, commands, declared, constants) :
       commands \in BoundedSeq({[bytes |-> 0], [bytes |-> 2]}, 2), declared \in {0, 2, 4},
       constants \in [offset : {2, 3, 4}, address : {3, 4}]}>>

Contents == {<<>>, <<0, 1>>, <<0, 2>>, <<1, 2>>, <<4, 1, 2>>}
MCComparisons ==
  {[tasks |-> tasks] :
     tasks \in UNION {kSubset(n, {w \in {<<0, flags>> \o p : flags \in {0, 3}, p \in Contents} :
                                    T!Decodable("h14", w)}) : n \in 1..3}}

(***************************************************************************)
(* Records.  Apple's compiler emits one program for one surface, mask and  *)
(* rank-keeping; what it does with an elementwise operation is arbitrary.  *)
(***************************************************************************)
Norm(operation, shape, axes, kept, good) ==
  LET record == [family |-> IF operation = "softmax" THEN "normalization" ELSE "reduction",
                 operation |-> operation, shape |-> shape, axes |-> axes, kept |-> kept,
                 operand |-> <<>>, output |-> shape, program |-> <<>>]
  IN IF good THEN [record EXCEPT !.program =
                     <<operation, Table!CanonicalShape(shape), Table!CanonicalShape(Table!ResultShape(record)),
                       {axis + 3 - Len(shape) : axis \in axes}, kept>>]
     ELSE record

Shapes == {<<2, 2>>, <<1, 2, 2>>, <<1, 1, 2, 2>>, <<2, 1, 2, 2>>, <<1, 1, 1, 2, 2>>}
NormInputs ==
  {Norm(operation, shape, axes, kept, good) :
     operation \in {"softmax", "reduce_sum"}, shape \in Shapes,
     axes \in {{0}, {1}, {2}, {3}, {1, 2}}, kept \in BOOLEAN, good \in BOOLEAN}
Legal(r) == /\ \A axis \in r.axes : axis < Len(r.shape)
            /\ r.operation = "softmax" => Cardinality(r.axes) = 1 /\ r.kept
NormLegal == {r \in NormInputs : Legal(r)}

Elementwise(family, operation, shape, operand, output, program) ==
  [family |-> family, operation |-> operation, shape |-> shape, axes |-> {}, kept |-> TRUE,
   operand |-> operand, output |-> output, program |-> program]
Surfaces == {<<1, 2, 1, 2>>, <<1, 4, 1, 1>>, <<2, 2, 1, 2>>}
Emitted == {<<"a">>, <<"b">>, <<>>}
ElementwiseInputs ==
  {Elementwise(family, operation, shape, <<>>, shape, program) :
     family \in {"unary", "env_activation"}, operation \in {"relu", "erf"}, shape \in Surfaces, program \in Emitted}
  \cup {Elementwise("binary_runtime", operation, shape, <<>>, shape, program) :
          operation \in {"add", "real_div"}, shape \in Surfaces, program \in Emitted}
  \cup {Elementwise("binary_constant", operation, shape, operand, shape, program) :
          operation \in {"real_div", "erf"}, shape \in Surfaces, operand \in {<<"scalar">>, <<"blob">>}, program \in Emitted}
  \cup {Elementwise("env_broadcast", operation, shape, operand, output, program) :
          operation \in {"add", "real_div"}, shape \in Surfaces, output \in Surfaces, program \in Emitted,
          operand \in {<<"scalar">>, <<"blob">>, <<1, 1, 1, 2>>, <<1, 2, 1, 1>>, <<2, 2, 1, 1>>}}

MCRecords ==
  <<[records : {<<a, b>> : a \in NormLegal, b \in NormLegal}],
    [records : {<<a, b>> : a \in {r \in ElementwiseInputs : r.program = <<"a">>}, b \in ElementwiseInputs}]>>

(***************************************************************************)
(* Directories of records for the report on chains.  A task has a header   *)
(* word and two registers, one of which it may lack or write twice.        *)
(***************************************************************************)
Task(header, blocks, size) == [decoded |-> TRUE, header |-> <<header>>, blocks |-> blocks, size |-> size]
Reg0 == <<"register", 0>>
Reg1 == <<"register", 1>>
Words == {<<(Reg0 :> a) @@ (Reg1 :> b)>> : a \in 0..1, b \in 0..1} \cup {<<(Reg0 :> 1)>>, <<(Reg0 :> 0) @@ (Reg1 :> 1), (Reg0 :> 1)>>}
Undecoded == [decoded |-> FALSE, header |-> <<>>, blocks |-> <<>>, size |-> 1]

Recorded(case, family, operation, tasks) ==
  [case |-> case, family |-> family, operation |-> operation, fused |-> FALSE, runtime |-> FALSE,
   shape |-> <<1>>, operand |-> <<1>>, error |-> FALSE, accepted |-> TRUE, status |-> "", tasks |-> tasks]
Lone(operation, shape, words) ==
  [Recorded(<<operation>>, "unary", operation, <<Task(IF operation = "gelu" THEN 1 ELSE 0, words, 1)>>)
   EXCEPT !.shape = shape]
Based(operation, tasks) == Recorded(<<"chain", "base", operation>>, "chain_base", operation, tasks)

(* Two observations of an operation, one of another at the first's shape,  *)
(* and a chain that repeats, by its sizes or its words, or does not.       *)
Deep(tasks) == Recorded(<<"chain", "deep">>, "chain_deep", "", tasks)
DeepTasks == [1..3 -> {Task(0, <<(Reg0 :> a) @@ (Reg1 :> a)>>, n) : a \in 0..1, n \in 1..2}]
               \cup {<<s, t, s, t>> : s \in {Task(0, <<(Reg0 :> 0)>>, 1)}, t \in {Task(1, w, n) : w \in Words, n \in 1..2}}
               \cup {<<Task(0, <<(Reg0 :> 0) @@ (Reg1 :> b)>>, 1), Task(0, <<(Reg0 :> 1) @@ (Reg1 :> b)>>, 1)>> : b \in 0..1}
Measured ==
  {[records |-> <<Lone("relu", <<1>>, x), Lone("relu", <<2>>, y), Lone("gelu", <<1>>, z), Deep(tasks)>>] :
     x \in Words, y \in Words, z \in {<<(Reg0 :> 0) @@ (Reg1 :> 0)>>, <<(Reg0 :> 1)>>}, tasks \in DeepTasks}

(* A pair, its operations alone, and a corpus record of the second.        *)
Fusions ==
  {[records |-> <<Based("matmul", <<Task(0, m, 1)>>), Based("relu", [k \in 1..n |-> Task(1, r, 1)]),
                  Lone("relu", <<2>>, r), Recorded(<<"chain", "pair", "mm_relu">>, "chain_pair", "mm_relu", fused)>>] :
     m \in Words, r \in Words, n \in 1..2, fused \in BoundedSeq({Task(h, w, 1) : h \in 0..1, w \in Words}, 2) \ {<<>>}}

(* Records of every family, among them those that are nobody's.            *)
Families ==
  {[records |-> <<[Recorded(<<"x">>, family, operation, <<t>>) EXCEPT !.fused = fused, !.runtime = runtime, !.error = error,
                                                                       !.operand = operand],
                  Lone("gelu", <<1>>, <<(Reg0 :> 0)>>), Based("gelu", <<Task(1, <<(Reg0 :> 1) @@ (Reg1 :> 1)>>, 1)>>),
                  [Recorded(<<"chain", "ceiling">>, "chain_ceiling", "", <<>>) EXCEPT !.accepted = runtime, !.status = status]>>] :
     family \in (L!SINGLE_OP_FAMILIES \ {"chain_base"}) \cup {"linear"}, operation \in {"add", ""},
     t \in {Task(1, <<(Reg0 :> 1)>>, 1), Undecoded}, fused \in BOOLEAN, runtime \in BOOLEAN, error \in BOOLEAN,
     operand \in {<<1>>, <<2>>}, status \in {"timed out", "no"}}

(***************************************************************************)
(* Convolutions, strided weights, captured orders, bytes of a section.     *)
(***************************************************************************)
MCConvolutions ==
  {c \in [inputs : {1, 2, 4, 6, 8, 16}, outputs : 1..16, groups : {1, 2, 4, 6, 16}, kernel : {<<1, 1>>, <<1, 2>>, <<2, 1>>},
          stride : 1..2, bias : BOOLEAN, spatial : {2, 5}, width : {2, 5}, padded : BOOLEAN] :
     /\ c.inputs % c.groups = 0 /\ c.outputs % c.groups = 0 /\ c.inputs \div c.groups <= 4
     /\ c.padded => c.groups > 1 /\ c.stride = 1
     /\ c.stride = 2 => ~c.padded /\ c.width = c.spatial}

MCStrided ==
  <<[target : {"h13", "h14"}, lanes : {1}, rows : {3}, weights : [{0} \X (0..2) -> {"+0", "-0", "a"}]],
    [target : {"h13", "h14"}, lanes : {2}, rows : {2}, weights : [(0..1) \X (0..1) -> {"+0", "-0", "a", "b"}]],
    {[target |-> t, lanes |-> 8, rows |-> 2,
      weights |-> [p \in (0..7) \X (0..1) |-> IF p \in zeros THEN "-0" ELSE "a"]] :
       t \in {"h13", "h14"}, zeros \in {{}, (0..7) \X {0}, {0, 3} \X {1}}}>>

MCContents == {<<"fixed", b>> : b \in {0, 1, 56, 130}} \cup ({"element"} \X (0..7) \X {1, 2})
MCLayouts == {l \in [content : MCContents, elements : 1..6, header : 0..2] :
                l.content[1] = "fixed" \/ l.content[2] < l.elements + l.header}

(* Short sections of any content, and longer ones, of reciprocals or not.  *)
Halves == {"+0", "-0", "nan", "other nan", "two"}
MCSections ==
  <<[content : BoundedSeq(Halves \cup {"a"}, 3), elements : {1}],
    {[content |-> [k \in 1..4 |-> IF k - 1 \in at THEN v ELSE "+0"], elements |-> n] :
       at \in SUBSET (0..3), v \in Halves, n \in 1..3}>>

(***************************************************************************)
(* Tensors.                                                                *)
(***************************************************************************)
Small == BoundedSeq({1, 2, 3}, 3)
Conv2D ==
  {c \in [channels : {2, 4}, height : {1, 2, 4, 5}, width : {3}, outputs : {2, 4}, groups : {1, 2},
          kernel : (1..3) \X {1, 3}, stride : (1..3) \X {1, 2}, pad : {"same", "valid"}] :
     c.pad = "valid" => c.kernel[1] <= c.height}

(* Everything the drivers compile, stacks of blocks cut to Deepest.        *)
MCPrograms ==
  <<P!Shipped, P!Envelope, P!ConvCampaign, P!NormCampaign, P!H14NormCampaign, P!MatvecCampaign,
    P!H14MatvecCampaign, P!ChainCampaign>>

MCInputs ==
  [task |-> MCTasks,
   section |-> <<H13Sections, H13Threes, H14Sections>>,
   object |-> MCObjects,
   tasks |-> <<MCComparisons>>,
   records |-> MCRecords,
   chains |-> <<Measured, Fusions, Families>>,
   conv |-> <<MCConvolutions>>,
   strided |-> MCStrided,
   captured |-> <<[outputs : {512, 1024, 2048}]>>,
   layout |-> <<MCLayouts>>,
   runs |-> MCSections,
   broadcast |-> <<[left : Small, right : Small]>>,
   matmul |-> <<[left : Small \ {<<>>}, right : Small \ {<<>>}, tx : BOOLEAN, ty : BOOLEAN]>>,
   reduce |-> <<[shape : Small \ {<<>>}, axes : BoundedSeq(-2..2, 2), keep : BOOLEAN]>>,
   reshape |-> <<[shape : Small, axes : BoundedSeq(-1..2, 2)]>>,
   convolve |-> <<Conv2D>>,
   program |-> MCPrograms,
   drivers |-> <<{DOMAIN MCPrograms}>>]
=============================================================================
