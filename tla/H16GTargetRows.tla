------------------------------ MODULE H16GTargetRows ------------------------------
(***************************************************************************)
(* The measured rows of the H16G target (H16GTarget.mm) and the task forms *)
(* of the SRAM chain encoder: which stage sequences a task may have, which *)
(* pairs of tasks may share a program, and which runs of operations have a *)
(* program of their own.                                                   *)
(***************************************************************************)
EXTENDS Integers, SequencesExt

(* Shapes: a rank-3 matrix [1,n,n], the image [1,1,n,n] every later task   *)
(* works on, and a row [1,1,n,1].                                          *)
Matrix(n) == [kind |-> "matrix", size |-> n]
Image(n) == [kind |-> "image", size |-> n]
Row(n) == [kind |-> "row", size |-> n]

Sizes == {128, 256}
Shapes == {Matrix(n) : n \in Sizes} \cup {Image(n) : n \in Sizes} \cup {Row(128)}

(* H16GTaskCapability.  `needs` is the semantic constraint; every row is   *)
(* FP16.                                                                   *)
TaskRow(ops, inputs, output, storage, family, count, needs) ==
  [ops |-> ops, inputs |-> inputs, output |-> output, storage |-> storage,
   family |-> family, count |-> count, needs |-> needs]

External(ops, inputs, output, family, count, needs) ==
  TaskRow(ops, inputs, output, "External", family, count, needs)

(* Tasks that only exist as steps of a longer program.                     *)
Fallback(ops, inputs, count, needs) ==
  TaskRow(ops, inputs, Image(128), "SRAM", "PrimitiveFallback", count, needs)

SizedRows(n) ==
  {TaskRow(<<"matmul", "reshape">>, <<Matrix(n), Matrix(n)>>, Image(n), s,
           "SquareMatmul", 2, "straight") : s \in {"External", "SRAM"}}
  \cup
  {External(<<"gelu">>, <<Image(n)>>, Image(n), "UnaryLUT", 1, "none")}

TaskRows ==
  LET m == Image(128)  r == Row(128) IN
  UNION {SizedRows(n) : n \in Sizes}
  \cup
  {External(<<"matmul">>, <<m, m>>, m, "SquareMatmul", 2, "straight"),
   External(<<"exp">>, <<m>>, m, "UnaryLUT", 1, "none"),
   External(<<"mul">>, <<m>>, m, "ScalarScale", 1, "scalar"),
   External(<<"real_div">>, <<m, r>>, m, "MatrixRowDivision", 2, "none"),
   Fallback(<<"sub", "exp">>, <<m, m>>, 2, "none"),
   Fallback(<<"reciprocal">>, <<m>>, 2, "none")}
  \cup {External(<<o>>, <<m, r>>, m, "MatrixRowALU", 1, "none") :
          o \in {"sub", "mul"}}
  \cup {External(<<o>>, <<r, r>>, r, "RowStateALU", 1, "none") :
          o \in {"add", "mul", "max"}}
  \cup {External(<<o>>, <<m, m>>, m, "SquareALU", 1, "none") :
          o \in {"add", "mul"}}
  \cup {External(<<o>>, <<m>>, r, "Reduction", 1, "last axis") :
          o \in {"reduce_max", "reduce_sum"}}
  \cup {Fallback(<<o>>, <<m>>, 1, "last axis") : o \in {"reduce_max", "reduce_sum"}}

(* taskCapabilityForStageOperations:...  At most one row has the key.      *)
RowsFor(ops, inputs, output, storage) ==
  {r \in TaskRows : r.ops = ops /\ r.inputs = inputs /\ r.output = output
                      /\ r.storage = storage}

Geometry(row) == row.output.size

(* The operation a task is known by when it is composed.                   *)
OperationOf(family, ops) == IF family = "SquareMatmul" THEN Head(ops) ELSE Last(ops)

--------------------------------------------------------------------------------
(* H16GProgramCompositionCapability: both ends have the same geometry.     *)

Bridge(from, producer, to, consumer, size, action, contribution) ==
  [from |-> from, producer |-> producer, to |-> to, consumer |-> consumer,
   size |-> size, action |-> action, contribution |-> contribution]

CompositionRows ==
  {Bridge("SquareMatmul", "matmul", "UnaryLUT", "gelu", n, "post operation", 0) :
     n \in Sizes}
  \cup
  {Bridge("PrimitiveFallback", "reciprocal", "SquareALU", "mul", 128, "fallback", 0),
   Bridge("SquareMatmul", "matmul", "ScalarScale", "mul", 128, "output scale", 0),
   Bridge("ScalarScale", "mul", "UnaryLUT", "exp", 128, "input scale", 1),
   Bridge("UnaryLUT", "exp", "Reduction", "reduce_sum", 128, "chain", 1)}
  \cup
  {Bridge("PrimitiveFallback", b[1], "PrimitiveFallback", b[2], 128, "chain", b[3]) :
     b \in {<<"reduce_max", "exp", 2>>, <<"exp", "reduce_sum", 1>>,
            <<"reduce_sum", "reciprocal", 2>>}}

(* programCompositionCapabilityFrom:... for two descriptions with fields   *)
(* family, operation and size.                                             *)
BridgesBetween(p, c) ==
  {b \in CompositionRows :
     /\ b.from = p.family /\ b.producer = p.operation
     /\ b.to = c.family /\ b.consumer = c.operation
     /\ b.size = p.size /\ b.size = c.size}

--------------------------------------------------------------------------------
(* H16GSRAMTaskForm: what an operation finds in SRAM, what it leaves       *)
(* there, whether its result leaves the program, and what it does with the *)
(* value an earlier form retained.                                         *)
Form(operation, finds, leaves, egress, retained) ==
  [operation |-> operation, finds |-> finds, leaves |-> leaves,
   egress |-> egress, retained |-> retained]

TaskForms ==
  {Form("exp", "nothing", "tiles", "SRAM", "drops"),
   Form("reduce_sum", "tiles", "nothing", "External", "drops"),
   Form("reduce_max", "nothing", "maximum", "SRAM", "drops"),
   Form("sub", "maximum", "centered", "SRAM", "drops"),
   Form("exp", "centered", "exponential", "SRAM", "retains"),
   Form("reduce_sum", "exponential", "sum", "SRAM", "keeps"),
   Form("reciprocal", "sum", "inverse", "SRAM", "keeps"),
   Form("mul", "inverse", "nothing", "External", "requires")}

(* taskFormPlan: the state of SRAM after the operations so far.            *)
NoPlan == [bridge |-> "none selected", retained |-> FALSE]

Selectable(sram, operation, egress) ==
  {f \in TaskForms :
     /\ f.operation = operation /\ f.finds = sram.bridge /\ f.egress = egress
     /\ f.retained = "requires" => sram.retained}

AfterForm(sram, operation, egress) ==
  LET fits == Selectable(sram, operation, egress) IN
  IF fits = {} THEN NoPlan
  ELSE LET f == CHOOSE f \in fits : TRUE IN
       [bridge |-> f.leaves,
        retained |-> f.retained = "retains" \/ (f.retained = "keeps" /\ sram.retained)]

HasFormPlan(ops) ==
  LET after[i \in 0 .. Len(ops)] ==
        IF i = 0 THEN [bridge |-> "nothing", retained |-> FALSE]
        ELSE LET sram == after[i - 1] IN
             AfterForm(sram, ops[i], IF i = Len(ops) THEN "External" ELSE "SRAM")
  IN Len(ops) >= 2 /\ after[Len(ops)].bridge = "nothing"

================================================================================
