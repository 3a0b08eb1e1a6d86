------------------------------- MODULE MilPrograms -------------------------------
(***************************************************************************)
(* A MIL function as a list of statements, and tools/h13_reference.py's    *)
(* evaluate over it: the checks each statement passes before its values    *)
(* are computed.  The values are left out, as in ReferenceTensors, but for *)
(* the constants that are attributes of other operations and the place of  *)
(* the weight file a BLOBFILE constant is read from.                       *)
(*                                                                         *)
(* A name is <<stem, number>>, number 0 when it has none; a statement is   *)
(* [result, shape, op, in, data], in a function from argument names to the *)
(* names or literals given, data the val of a constant.                    *)
(***************************************************************************)
EXTENDS ReferenceTensors

Named(stem) == <<stem, 0>>
Literal(value) == <<"literal", value>>

Apply(result, shape, op, in) == [result |-> result, shape |-> shape, op |-> op, in |-> in, data |-> <<>>]
Const(result, shape, data) == [result |-> result, shape |-> shape, op |-> "const", in |-> <<>>, data |-> data]

Number(value) == <<"number", value>>
Ints(values) == <<"ints", values>>        \* a tensor of int32
Flag(value) == <<"flag", value>>
Text(value) == <<"text", value>>
Filled(count) == <<"filled", count>>      \* fp16, so many equal values written out
Stored(offset) == <<"stored", offset>>    \* BLOBFILE at offset

(***************************************************************************)
(* Weight files: the six 32-bit words at each offset a program names, and  *)
(* the length in bytes.  A chunk header is the magic, a kind, and two      *)
(* 64-bit fields, the payload's length and its offset in the file.         *)
(***************************************************************************)
Magic == -559038737    \* 0xDEADBEEF
NoFile == [container |-> "none", bytes |-> 0, words |-> [offset \in {} |-> <<>>]]

(* mint_oracles.blob leaves no room for the kind: the length takes its     *)
(* place and the offset the length's, four bytes early.                    *)
BlobWords(bytes) == <<Magic, bytes, 0, 128, 0, 0>>
Blob(bytes) == [container |-> "blob", bytes |-> 128 + bytes, words |-> [offset \in {64} |-> BlobWords(bytes)]]

Halfwords(shape) == 2 * Product(shape)

(* _blob: whether the chunk can be read, and the first byte that is.       *)
Readable(file, offset, shape) ==
  LET words == file.words[offset]
  IN /\ offset + 24 <= file.bytes
     /\ words[1] = Magic
     /\ words[4] > 0 \/ words[3] >= Halfwords(shape)
     /\ words[6] = 0 /\ words[5] + Halfwords(shape) <= file.bytes

PayloadOffset(file, offset) == file.words[offset][5]

(***************************************************************************)
(* The environment before statement k: what each bound name stands for.    *)
(* An executed statement has the shape it declares.                        *)
(***************************************************************************)
Arguments(program) == {program.arguments[k][1] : k \in DOMAIN program.arguments}
Results(program, k) == {program.body[j].result : j \in 1..(k - 1)}
Bound(program, k) == Arguments(program) \cup Results(program, k)

Binding(program, name) ==
  IF name \in Arguments(program)
  THEN [shape |-> (CHOOSE a \in ToSet(program.arguments) : a[1] = name)[2], data |-> <<"input">>]
  ELSE LET s == CHOOSE s \in ToSet(program.body) : s.result = name
       IN [shape |-> s.shape, data |-> s.data]

Operands(s) == {s.in[role] : role \in DOMAIN s.in}
IsLiteral(operand) == operand[1] = "literal"

ShapeOf(program, operand) == IF IsLiteral(operand) THEN <<>> ELSE Binding(program, operand).shape
ValueOf(program, operand) == IF IsLiteral(operand) THEN operand[2] ELSE Binding(program, operand).data[2]

(***************************************************************************)
(* The shape of what an operation computes.                                *)
(***************************************************************************)
Elementwise == {"add", "mul", "maximum", "minimum", "sub", "real_div"}
Reductions == {"reduce_sum", "reduce_max", "reduce_mean"}
Supported == Elementwise \cup Reductions
  \cup {"const", "relu", "clip", "matmul", "linear", "softmax", "layer_norm", "conv"}

ConstShape(program, s) ==
  IF s.shape = <<>> THEN s.shape
  ELSE IF s.data[1] = "stored" THEN IF Readable(program.file, s.data[2], s.shape) THEN s.shape ELSE Refused
  ELSE IF (IF s.data[1] = "ints" THEN Len(s.data[2]) ELSE s.data[2]) = Product(s.shape) THEN s.shape ELSE Refused

LinearShape(program, s) ==
  LET projected == MatmulShape(ShapeOf(program, s.in.x), ShapeOf(program, s.in.weight), FALSE, TRUE)
  IN IF projected # s.shape THEN Refused ELSE BroadcastShape(projected, ShapeOf(program, s.in.bias))

(* layer_norm takes neither gamma nor beta; softmax has one axis.          *)
NormShape(program, s) ==
  LET x == ShapeOf(program, s.in.x)
      axes == IF s.op = "softmax" THEN <<ValueOf(program, s.in.axis)>> ELSE ValueOf(program, s.in.axes)
  IN IF "gamma" \in DOMAIN s.in \/ ResolvedAxes(Len(x), axes) = Unresolved THEN Refused ELSE x

ReducedShape(program, s) ==
  LET x == ShapeOf(program, s.in.x)
      resolved == ResolvedAxes(Len(x), ValueOf(program, s.in.axes))
  IN IF resolved = Unresolved THEN Refused ELSE ReduceShape(x, resolved, ValueOf(program, s.in.keep_dims))

ConvShape(program, s) ==
  LET x == ShapeOf(program, s.in.x)
      w == ShapeOf(program, s.in.weight)
      groups == ValueOf(program, s.in.groups)
      strides == ValueOf(program, s.in.strides)
      pad == ValueOf(program, s.in.pad_type)
  IN IF \/ Len(x) # 4 \/ Len(w) # 4
        \/ x[1] # 1
        \/ \E d \in ToSet(ValueOf(program, s.in.dilations)) : d # 1
        \/ \E p \in ToSet(ValueOf(program, s.in.pad)) : p # 0
        \/ groups < 1
        \/ x[2] % groups # 0 \/ w[1] % groups # 0 \/ w[2] # x[2] \div groups
        \/ pad = "valid" /\ (x[3] < w[3] \/ x[4] < w[4])
        \/ "bias" \in DOMAIN s.in /\ Product(ShapeOf(program, s.in.bias)) # w[1]
     THEN Refused
     ELSE <<1, w[1], ConvOutput(x[3], w[3], strides[1], pad), ConvOutput(x[4], w[4], strides[2], pad)>>

(* _execute                                                                *)
Computed(program, s) ==
  CASE s.op = "const" -> ConstShape(program, s)
    [] s.op \in Elementwise -> BroadcastShape(ShapeOf(program, s.in.x), ShapeOf(program, s.in.y))
    [] s.op \in {"relu", "clip"} -> ShapeOf(program, s.in.x)
    [] s.op = "matmul" -> MatmulShape(ShapeOf(program, s.in.x), ShapeOf(program, s.in.y),
                                      ValueOf(program, s.in.transpose_x), ValueOf(program, s.in.transpose_y))
    [] s.op = "linear" -> LinearShape(program, s)
    [] s.op \in {"softmax", "layer_norm"} -> NormShape(program, s)
    [] s.op \in Reductions -> ReducedShape(program, s)
    [] s.op = "conv" -> ConvShape(program, s)

(***************************************************************************)
(* evaluate: why statement k is not executed, "none" when it is.           *)
(***************************************************************************)
Failure(program, k) ==
  LET s == program.body[k]
  IN IF s.result \in Bound(program, k) THEN "duplicate"
     ELSE IF \E operand \in Operands(s) : ~IsLiteral(operand) /\ operand \notin Bound(program, k) THEN "unknown"
     ELSE IF s.op \notin Supported THEN "unsupported"
     ELSE IF Computed(program, s) # s.shape THEN "shape"
     ELSE "none"

Failing(program) == {k \in DOMAIN program.body : Failure(program, k) # "none"}

(* Where evaluation stops and why, <<0, "none">> when it returns values.   *)
Evaluate(program) ==
  LET failing == Failing(program)
      first == CHOOSE k \in failing : \A j \in failing : k <= j
  IN IF failing # {} THEN <<first, Failure(program, first)>>
     ELSE IF \/ program.result \notin Bound(program, Len(program.body) + 1)
             \/ ShapeOf(program, program.result) = <<>> THEN <<0, "output">>
     ELSE <<0, "none">>

(* The bytes of the file each BLOBFILE constant of the program takes.      *)
Reads(program) ==
  LET stored == {s \in ToSet(program.body) :
                   s.op = "const" /\ s.data[1] = "stored" /\ Readable(program.file, s.data[2], s.shape)}
  IN {<<s.result, PayloadOffset(program.file, s.data[2]), Halfwords(s.shape)>> : s \in stored}
=============================================================================
