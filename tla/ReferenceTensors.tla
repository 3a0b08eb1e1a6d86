----------------------------- MODULE ReferenceTensors -----------------------------
(***************************************************************************)
(* tools/h13_reference.py: which elements of its operands each element of  *)
(* a result is made of.  A shape is a sequence of extents, a tensor a      *)
(* row-major sequence, an index counts from 0 as in the code; arithmetic   *)
(* on the values is left out.  Refused, which no shape is, stands for a    *)
(* ValueError.                                                             *)
(***************************************************************************)
EXTENDS Integers, Sequences, FiniteSets, SequencesExt

Refused == <<0>>

Product(shape) == FoldLeft(LAMBDA a, b : a * b, 1, shape)
Stride(shape, k) == Product(SubSeq(shape, k + 1, Len(shape)))
Larger(a, b) == IF a > b THEN a ELSE b

(***************************************************************************)
(* Elementwise operands.                                                   *)
(***************************************************************************)
Padded(shape, rank) == [k \in 1..(rank - Len(shape)) |-> 1] \o shape

BroadcastShape(left, right) ==
  LET rank == Larger(Len(left), Len(right))
      a == Padded(left, rank)
      b == Padded(right, rank)
  IN IF left = <<>> THEN right
     ELSE IF right = <<>> THEN left
     ELSE IF \E k \in 1..rank : a[k] # b[k] /\ a[k] # 1 /\ b[k] # 1 THEN Refused
     ELSE [k \in 1..rank |-> Larger(a[k], b[k])]

(* Mutant: the extent of the result is taken for the stride's.             *)
MutantBroadcastIndex(source, shape, flat) ==
  LET padded == Padded(source, Len(shape))
      Part(k) == IF padded[k] = 1 THEN 0 ELSE ((flat \div Stride(shape, k)) % shape[k]) * Stride(shape, k)
  IN FoldLeft(LAMBDA a, b : a + b, 0, [k \in DOMAIN shape |-> Part(k)]) % Product(source)

(* _broadcast_values: where the element of the result comes from.          *)
BroadcastIndex(source, shape, flat) ==
  LET padded == Padded(source, Len(shape))
      Part(k) == IF padded[k] = 1 THEN 0 ELSE ((flat \div Stride(shape, k)) % shape[k]) * Stride(padded, k)
  IN FoldLeft(LAMBDA a, b : a + b, 0, [k \in DOMAIN shape |-> Part(k)])

(***************************************************************************)
(* matmul: the pairs summed for one element, in order.  Of y only the last *)
(* two extents count; what leads them must multiply to one.                *)
(***************************************************************************)
Matrix(y) == SubSeq(y, Len(y) - 1, Len(y))

MatmulRows(x, transposed) ==
  IF Len(x) = 1 THEN 1
  ELSE IF transposed THEN Product(SubSeq(x, 1, Len(x) - 2)) * x[Len(x)]
  ELSE Product(SubSeq(x, 1, Len(x) - 1))

MatmulReduction(x, transposed) == IF transposed THEN x[Len(x) - 1] ELSE x[Len(x)]
MatmulColumns(y, transposed) == IF transposed THEN Matrix(y)[1] ELSE Matrix(y)[2]

MatmulShape(x, y, tx, ty) ==
  IF \/ Len(y) < 2
     \/ Product(SubSeq(y, 1, Len(y) - 2)) # 1
     \/ Len(x) = 1 /\ tx
     \/ MatmulReduction(x, tx) # (IF ty THEN Matrix(y)[2] ELSE Matrix(y)[1])
  THEN Refused
  ELSE (IF Len(x) = 1 THEN <<>>
        ELSE IF tx THEN Append(SubSeq(x, 1, Len(x) - 2), x[Len(x)])
        ELSE SubSeq(x, 1, Len(x) - 1)) \o <<MatmulColumns(y, ty)>>

MatmulTerms(x, y, tx, ty, row, column) ==
  LET reduction == MatmulReduction(x, tx)
      columns == MatmulColumns(y, ty)
      rows == IF tx THEN x[Len(x)] ELSE 1
      Left(k) == IF tx THEN (row \div rows) * reduction * rows + k * rows + (row % rows)
                 ELSE row * reduction + k
      Right(k) == IF ty THEN column * reduction + k ELSE k * columns + column
  IN [k \in 1..reduction |-> <<Left(k - 1), Right(k - 1)>>]

(***************************************************************************)
(* Reductions, softmax and layer_norm: the elements that contribute to     *)
(* each element of the result.                                             *)
(***************************************************************************)
Unresolved == {-1}

(* The axes as a set, Unresolved when two are one or one is out of range.  *)
ResolvedAxes(rank, axes) ==
  LET Index(axis) == IF axis >= 0 THEN axis ELSE axis + rank
      resolved == {Index(axes[k]) : k \in DOMAIN axes}
  IN IF axes = <<>> \/ Cardinality(resolved) # Len(axes) \/ ~(resolved \subseteq 0..(rank - 1))
     THEN Unresolved ELSE resolved

KeptShape(shape, resolved) == [k \in DOMAIN shape |-> IF k - 1 \in resolved THEN 1 ELSE shape[k]]

ReductionGroup(shape, resolved, target) ==
  LET kept == KeptShape(shape, resolved)
      Part(flat, k) == IF k - 1 \in resolved THEN 0 ELSE ((flat \div Stride(shape, k)) % shape[k]) * Stride(kept, k)
      Target(flat) == FoldLeft(LAMBDA a, b : a + b, 0, [k \in DOMAIN shape |-> Part(flat, k)])
  IN {flat \in 0..(Product(shape) - 1) : Target(flat) = target}

(* The shape the declaration must have.  Without keep_dims, what differs   *)
(* from the kept shape is dropped.                                         *)
ReduceShape(shape, resolved, keep) ==
  LET kept == KeptShape(shape, resolved)
      left == SetToSortSeq({k \in DOMAIN shape : shape[k] = kept[k]}, <)
  IN IF keep THEN kept ELSE [k \in DOMAIN left |-> shape[left[k]]]

(***************************************************************************)
(* squeeze and expand_dims: the shape the declaration must have.           *)
(***************************************************************************)
SqueezeShape(shape, axes) ==
  LET dropped == {IF axes[k] >= 0 THEN axes[k] ELSE axes[k] + Len(shape) : k \in DOMAIN axes}
      left == SetToSortSeq({k \in DOMAIN shape : k - 1 \notin dropped}, <)
  IN IF \A k \in DOMAIN axes : LET i == IF axes[k] >= 0 THEN axes[k] ELSE axes[k] + Len(shape)
                               IN i \in 0..(Len(shape) - 1) /\ shape[i + 1] = 1
     THEN [k \in DOMAIN left |-> shape[left[k]]] ELSE Refused

(* Mutant: the axes are inserted in the order they are listed.             *)
MutantExpandShape(shape, axes) ==
  LET rank == Len(shape) + Len(axes)
      order == [k \in DOMAIN axes |-> IF axes[k] >= 0 THEN axes[k] ELSE axes[k] + rank]
      to[k \in 0..Len(axes)] == IF k = 0 THEN shape
        ELSE LET at == IF order[k] < Len(to[k - 1]) THEN order[k] ELSE Len(to[k - 1])
             IN InsertAt(to[k - 1], at + 1, 1)
  IN to[Len(axes)]

ExpandShape(shape, axes) ==
  LET rank == Len(shape) + Len(axes)
      order == SortSeq([k \in DOMAIN axes |-> IF axes[k] >= 0 THEN axes[k] ELSE axes[k] + rank], <)
      to[k \in 0..Len(axes)] == IF k = 0 THEN shape
        ELSE LET at == IF order[k] < Len(to[k - 1]) THEN order[k] ELSE Len(to[k - 1])
             IN InsertAt(to[k - 1], at + 1, 1)
  IN to[Len(axes)]

(***************************************************************************)
(* conv: one spatial axis, and the elements summed for one output element. *)
(***************************************************************************)
ConvOutput(extent, kernel, stride, padType) ==
  IF padType = "same" THEN (extent + stride - 1) \div stride ELSE (extent - kernel) \div stride + 1

ConvPadding(extent, kernel, stride, padType) ==
  LET total == (ConvOutput(extent, kernel, stride, padType) - 1) * stride + kernel - extent
  IN IF padType = "valid" THEN 0 ELSE Larger(0, total) \div 2

(* Places of an axis read for one output position, as <<tap, place>>.      *)
ConvReads(extent, kernel, stride, padType, position) ==
  LET place == [tap \in 0..(kernel - 1) |-> position * stride + tap - ConvPadding(extent, kernel, stride, padType)]
  IN {<<tap, place[tap]>> : tap \in {t \in 0..(kernel - 1) : place[t] \in 0..(extent - 1)}}

(* Mutant: output channels are dealt out to the groups in turn.            *)
MutantConvTerms(c, channel, row, column) ==
  LET groupChannels == c.channels \div c.groups
      group == channel % c.groups
      Sample(offset, v, h) == (((group * groupChannels + offset) * c.height) + v[2]) * c.width + h[2]
      Tap(offset, v, h) == (((channel * groupChannels + offset) * c.kernel[1]) + v[1]) * c.kernel[2] + h[1]
  IN {<<Sample(offset, v, h), Tap(offset, v, h)>> :
        offset \in 0..(groupChannels - 1),
        v \in ConvReads(c.height, c.kernel[1], c.stride[1], c.pad, row),
        h \in ConvReads(c.width, c.kernel[2], c.stride[2], c.pad, column)}

(* c is [channels, height, width, outputs, groups, kernel, stride, pad],   *)
(* kernel and stride having one extent for each axis.                      *)
ConvTerms(c, channel, row, column) ==
  LET groupChannels == c.channels \div c.groups
      group == channel \div (c.outputs \div c.groups)
      Sample(offset, v, h) == (((group * groupChannels + offset) * c.height) + v[2]) * c.width + h[2]
      Tap(offset, v, h) == (((channel * groupChannels + offset) * c.kernel[1]) + v[1]) * c.kernel[2] + h[1]
  IN {<<Sample(offset, v, h), Tap(offset, v, h)>> :
        offset \in 0..(groupChannels - 1),
        v \in ConvReads(c.height, c.kernel[1], c.stride[1], c.pad, row),
        h \in ConvReads(c.width, c.kernel[2], c.stride[2], c.pad, column)}
=============================================================================
