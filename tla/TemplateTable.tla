------------------------------ MODULE TemplateTable ------------------------------
(***************************************************************************)
(* How decoded oracle records become the encoders' template tables, and    *)
(* what the compiler then finds there: mint_norm_probes.py and its H14     *)
(* variant for softmax, layer_norm and the reductions, and                 *)
(* generate_h14_templates.py for the elementwise programs.                 *)
(*                                                                         *)
(* A record is [family, operation, shape, axes, kept, operand, output,     *)
(* program]; axes are the resolved MIL axes, operand is <<>>,              *)
(* <<"scalar">>, <<"blob">> or a shape, output the shape an elementwise    *)
(* operation is recorded to have, and program stands for all that Apple's  *)
(* compiler emitted, <<>> for an error.  Each mode of gelu is an operation *)
(* of its own.                                                             *)
(* Record files are read in the order of their names, here a sequence.     *)
(***************************************************************************)
EXTENDS Integers, Sequences, FiniteSets, SequencesExt

CONSTANTS
  UNARY, BINARY_OPERATIONS,   \* elementwise operations the encoder has an enumerator for
  RUNTIME_BINARY              \* those it has for two tensors

Ones(n) == [k \in 1..n |-> 1]

(***************************************************************************)
(* Surfaces: leading units are dropped, short ranks padded on the left.    *)
(***************************************************************************)
Droppable(shape, n) == (n = 0 \/ Len(shape) - n >= 3) /\ \A k \in 1..n : shape[k] = 1

LeadingUnits(shape) ==
  CHOOSE n \in 0..Len(shape) : Droppable(shape, n) /\ \A m \in 0..Len(shape) : Droppable(shape, m) => m <= n

HasSurface(shape) == shape # <<>> /\ Len(shape) - LeadingUnits(shape) <= 3

CanonicalShape(shape) ==
  IF Len(shape) < 3 THEN Ones(3 - Len(shape)) \o shape
  ELSE SubSeq(shape, LeadingUnits(shape) + 1, Len(shape))

AxisShift(shape) == 3 - Len(shape)

AxisMask(axes, shape) == {axis + AxisShift(shape) + 1 : axis \in axes}

ResultShape(record) ==
  IF record.operation \in {"softmax", "layer_norm"} THEN record.shape
  ELSE LET Extent(k) == IF k - 1 \in record.axes THEN 1 ELSE record.shape[k]
           left == SetToSortSeq({k \in DOMAIN record.shape : k - 1 \notin record.axes}, <)
       IN IF record.kept THEN [k \in DOMAIN record.shape |-> Extent(k)]
          ELSE [k \in DOMAIN left |-> record.shape[left[k]]]

(***************************************************************************)
(* Normalizations and reductions.                                          *)
(***************************************************************************)
Covered(record) == record.program # <<>> /\ record.family \in {"normalization", "reduction"}

TemplateKey(record) == <<record.operation, CanonicalShape(record.shape), record.axes, record.kept>>

NormRow(record) ==
  [operation |-> record.operation, input |-> CanonicalShape(record.shape),
   output |-> CanonicalShape(ResultShape(record)),
   mask |-> AxisMask(record.axes, record.shape), kept |-> record.kept, program |-> record.program]

(***************************************************************************)
(* Elementwise programs.  A key is <<kind, operation, surface, operand>>.  *)
(***************************************************************************)
Unkeyed == <<>>

Channels(shape) == SubSeq(shape, 2, Len(shape))

ElementwiseFamilies == {"binary_runtime", "binary_constant", "unary", "env_activation", "env_broadcast"}

(* Errors, batches and other families are passed over before all else.     *)
Considered(record) == record.program # <<>> /\ record.family \in ElementwiseFamilies /\ record.shape[1] = 1

Kind(record) ==
  IF record.family \in {"unary", "env_activation"} THEN "Unary"
  ELSE IF record.family = "binary_constant" \/ record.operand = <<"scalar">> THEN "BinaryScalar"
  ELSE "BinaryRuntime"

(* What Classify returns rather than None.                                 *)
Keyed(record) ==
  /\ Considered(record)
  /\ \/ Kind(record) = "Unary" /\ record.operation \in UNARY
     \/ record.family = "binary_constant" /\ record.operand = <<"scalar">> /\ record.operation \in BINARY_OPERATIONS
     \/ record.family = "binary_runtime" /\ record.operation \in RUNTIME_BINARY
     \/ /\ record.family = "env_broadcast"
        /\ record.operation \in RUNTIME_BINARY
        /\ \/ record.operand = <<"scalar">>
           \/ record.operand \notin {<<>>, <<"blob">>} /\ record.operand[1] = 1

Classify(record) ==
  IF ~Keyed(record) THEN Unkeyed
  ELSE <<Kind(record), record.operation, Channels(record.shape),
         IF record.family = "env_broadcast" /\ Kind(record) = "BinaryRuntime"
         THEN Channels(record.operand) ELSE Channels(record.shape)>>

(* A broadcast that is not to the first operand's shape stops the          *)
(* generator, whatever the second operand is.                              *)
Classifiable(record) ==
  (Considered(record) /\ record.family = "env_broadcast" /\ record.operation \in RUNTIME_BINARY)
    => record.output = record.shape

(***************************************************************************)
(* One row for each key, from the first record that has it.  Two programs  *)
(* for one key stop the generator.                                         *)
(***************************************************************************)
KeysOf(records) == [k \in DOMAIN records |-> Classify(records[k])]
TemplateKeys(records) == [k \in DOMAIN records |-> TemplateKey(records[k])]

First(keys, key) == CHOOSE k \in DOMAIN keys : keys[k] = key /\ \A j \in 1..(k - 1) : keys[j] # key

(* Mutant: a second record of a key is passed over unread.                 *)
MutantConflict(records, keys) == FALSE

Conflict(records, keys) ==
  \E k \in DOMAIN records : records[k].program # records[First(keys, keys[k])].program

Selected(records, keys) == {records[First(keys, key)] : key \in {keys[k] : k \in DOMAIN keys}}

NormRecords(records) == SelectSeq(records, Covered)

(* Shapes without a surface stop the generator, and so does an axis too    *)
(* far in front for a mask to be made by shifting.                         *)
Emittable(record) ==
  /\ HasSurface(record.shape)
  /\ HasSurface(ResultShape(record))
  /\ \A bit \in AxisMask(record.axes, record.shape) : bit >= 0

NormRows(records) ==
  {NormRow(r) : r \in Selected(NormRecords(records), TemplateKeys(NormRecords(records)))}

ElementwiseRecords(records) == SelectSeq(records, LAMBDA r : Classify(r) # Unkeyed)
ElementwiseRows(records) ==
  {<<Classify(r), r.program>> :
     r \in Selected(ElementwiseRecords(records), KeysOf(ElementwiseRecords(records)))}

(***************************************************************************)
(* The compiler's side: normParityPlan and normTemplate.  Only the axes of *)
(* the surface make a mask; the first matching row is taken, whichever of  *)
(* several that is.  For an elementwise operation parityShapes gives the   *)
(* surfaces to ask for: a tensor's own, unless it is of points, and then   *)
(* all its elements as channels.                                           *)
(***************************************************************************)
Askable(record) ==
  /\ HasSurface(record.shape)
  /\ HasSurface(ResultShape(record))
  /\ \A axis \in record.axes : axis + AxisShift(record.shape) + 1 \in 1..3

NormTemplates(rows, record) ==
  {row \in rows :
     /\ row.operation = record.operation
     /\ row.mask = {axis + AxisShift(record.shape) + 1 : axis \in record.axes}
     /\ row.kept = record.kept
     /\ row.input = CanonicalShape(record.shape)
     /\ row.output = CanonicalShape(ResultShape(record))}

Elements(shape) == FoldLeft(LAMBDA a, b : a * b, 1, shape)
Spatial(shape) == Len(shape) = 4 /\ shape[1] = 1 /\ (shape[3] # 1 \/ shape[4] # 1)
Flat(shape) == <<Elements(shape), 1, 1>>

(* Mutant: the form that any tensor has is asked for first.                *)
MutantParityShapes(shape) == <<Flat(shape)>> \o (IF Spatial(shape) THEN <<Channels(shape)>> ELSE <<>>)

ParityShapes(shape) == (IF Spatial(shape) THEN <<Channels(shape)>> ELSE <<>>) \o <<Flat(shape)>>

(* What is asked for the operation of a record, on tensors of shapes x and *)
(* y; a scalar stands for itself.                                          *)
ParityKind(record) ==
  IF record.operation \in UNARY THEN "Unary" ELSE IF record.operand = <<"scalar">> THEN "BinaryScalar" ELSE "BinaryRuntime"

ParityKeys(record) ==
  LET xs == ParityShapes(record.shape)
      ys == ParityShapes(IF record.operand = <<>> THEN record.shape ELSE record.operand)
  IN IF ParityKind(record) = "BinaryRuntime"
     THEN FlattenSeq([i \in DOMAIN xs |-> [j \in DOMAIN ys |-> <<"BinaryRuntime", record.operation, xs[i], ys[j]>>]])
     ELSE [i \in DOMAIN xs |-> <<ParityKind(record), record.operation, xs[i], xs[i]>>]

ElementwiseTemplates(rows, record) ==
  LET keys == ParityKeys(record)
      hits == {k \in DOMAIN keys : \E row \in rows : row[1] = keys[k]}
  IN {row \in rows : hits # {} /\ row[1] = keys[CHOOSE k \in hits : \A j \in hits : k <= j]}
=============================================================================
