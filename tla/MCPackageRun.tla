------------------------------ MODULE MCPackageRun ------------------------------
(***************************************************************************)
(* Small packages for PackageRun: lanes of two elements and rows of four   *)
(* bytes.  The sliced packages have an intermediate of three elements,     *)
(* written by two programs and read by a third, with every slice, every    *)
(* padding and every dispatch order; those in halves have two readers; the *)
(* others have one program or two and vary the routing of the tasks, the   *)
(* roles and the element width.                                            *)
(***************************************************************************)
EXTENDS PackageRun

T(role, elements) == [role |-> role, elements |-> elements, bool |-> FALSE, aliasOf |-> NoName, chunked |-> FALSE]
Alias(role, elements, of) == [T(role, elements) EXCEPT !.aliasOf = of]

Whole(tensor, elements, role) ==
  [tensor |-> tensor, slice |-> FALSE, first |-> 0, count |-> elements, held |-> elements,
   nchw |-> <<1, 1, 1, elements>>, role |-> role, constant |-> FALSE]
Slice(tensor, i, role, nchw) ==
  [tensor |-> tensor, slice |-> TRUE, first |-> i.first, count |-> i.count, held |-> i.held,
   nchw |-> nchw, role |-> role, constant |-> FALSE]

Row4(n) == <<1, 1, 1, n>>
Lanes(n) == <<1, 1, n, 1>>
Channels(n) == <<1, n, 1, 1>>

Off == [state |-> "off", channel |-> 0]
PlainTask == [src1 |-> Off, src2 |-> Off, dst |-> Off, clamp |-> FALSE]
P(inputs, output) ==
  [operation |-> "add", encoder |-> "parity", inputs |-> inputs, output |-> output, outputChannel |-> 4,
   constants |-> FALSE, tiles |-> {0, 4} \cup 5..(4 + Len(inputs)), tasks |-> <<PlainTask>>]
Package(tensors, programs, dispatch, results) ==
  [tensors |-> tensors, programs |-> programs, dispatch |-> dispatch, chain |-> FALSE,
   physical |-> {r.tensor : r \in results}, results |-> results]
Result(tensor, elements) == [tensor |-> tensor, first |-> 0, count |-> elements]

Half(first) == Slice("m", [first |-> first, count |-> 1, held |-> 1], "intermediate", Row4(1))

Orders == {o \in [1..3 -> 1..3] : {o[k] : k \in 1..3} = 1..3}

Slices == {i \in [first : 0..2, count : 1..3, held : 1..4] :
             i.first + i.count <= 4 /\ i.count <= i.held /\ i.held <= i.count + 1}

(* m is written by programs 1 and 2 and read by program 3, which may read  *)
(* all of it through two bindings.                                         *)
Sliced ==
  {Package([x |-> T("input", 3), m |-> [T("intermediate", 3) EXCEPT !.chunked = c], y |-> T("output", 3)],
           <<P(<<Whole("x", 3, "none")>>, Slice("m", a, "intermediate", Row4(a.held))),
             P(<<Whole("x", 3, "none")>>, Slice("m", b, "intermediate", Channels(b.held))),
             P(<<Slice("m", r, "intermediate", Lanes(r.held))>>, Whole("y", 3, "none"))>>,
           order, {Result("y", 3)}) :
     a, b \in Slices, r \in {i \in Slices : i.first = 0 /\ i.count = 3}, order \in Orders, c \in BOOLEAN}

(* Two programs in sequence, in one order or the other, the first value    *)
(* split between two readers.                                              *)
Chained ==
  {Package([x |-> [T("input", 2) EXCEPT !.chunked = c], m |-> T("intermediate", 2),
            w |-> [T("intermediate", 4) EXCEPT !.role = role], y |-> T("output", 2)],
           <<P(<<Whole("x", 2, "none")>>, Whole("m", 2, "intermediate")),
             P(<<Slice("m", [first |-> 0, count |-> 1, held |-> h], "intermediate", Lanes(h)),
                 Slice("m", [first |-> 1, count |-> 1, held |-> h], "intermediate", Row4(h))>>,
               [Whole("w", 4, IF role = "output" THEN "none" ELSE role) EXCEPT !.nchw = <<1, 2, 1, 2>>]),
             P(<<[Whole("w", 4, IF role = "output" THEN "none" ELSE role) EXCEPT !.nchw = <<2, 1, 2, 1>>]>>,
               Whole("y", 2, "none"))>>,
           order, {Result("y", 2)} \cup (IF role = "output" THEN {Result("w", 4)} ELSE {})) :
     h \in 1..3, order \in Orders, role \in {"intermediate", "output"}, c \in BOOLEAN}

(* Two writers and two readers, each half of m for one of them, in every    *)
(* dispatch order: only what the second program computes is chunked.       *)
Halves ==
  {Package([x |-> T("input", 1), u |-> [T("input", 1) EXCEPT !.chunked = TRUE], m |-> T("intermediate", 2),
            y |-> T("output", 1), z |-> T("output", 1)],
           <<P(<<Whole("x", 1, "none")>>, Half(0)), P(<<Whole("u", 1, "none")>>, Half(1)),
             P(<<Half(0)>>, Whole("y", 1, "none")), P(<<Half(1)>>, Whole("z", 1, "none"))>>,
           order, {Result("y", 1), Result("z", 1)}) :
     order \in {o \in [1..4 -> 1..4] : {o[k] : k \in 1..4} = 1..4}}

(* Rows longer than the smallest stride, in two layouts.                   *)
Wide ==
  {Package([x |-> T("input", 6), m |-> T("intermediate", 6), y |-> T("output", 6)],
           <<P(<<Whole("x", 6, "none")>>, [Whole("m", 6, "intermediate") EXCEPT !.nchw = a]),
             P(<<[Whole("m", 6, "intermediate") EXCEPT !.nchw = b]>>, Whole("y", 6, "none"))>>,
           <<1, 2>>, {Result("y", 6)}) :
     a, b \in {<<1, 1, 2, 3>>, <<1, 2, 1, 3>>, <<2, 1, 3, 1>>, <<3, 2, 1, 1>>}}

(* One program with a second name for its output, or for its input.        *)
Aliased ==
  {Package([x |-> T("input", 2), y |-> T("output", 2), z |-> Alias("output", 2, of)],
           <<P(<<Whole("x", 2, "none")>>, Whole("y", 2, "none"))>>, <<1>>, {Result("y", 2)}) :
     of \in {"x", "y", "z"}}

(* A mask, of one byte for each element, between two programs; the same    *)
(* written by two of them, in every order, between programs or returned;   *)
(* and one the request gives, read whole or in parts beside a constant.    *)
Mask(role, elements) == [T(role, elements) EXCEPT !.bool = TRUE]

Masked ==
  {Package([x |-> T("input", n), m |-> Mask("intermediate", n), y |-> T("output", n)],
           <<P(<<Whole("x", n, "none")>>, [Whole("m", n, "intermediate") EXCEPT !.nchw = nchw[n]]),
             P(<<[Whole("m", n, "intermediate") EXCEPT !.nchw = nchw[n]]>>, Whole("y", n, "none"))>>,
           <<1, 2>>, {Result("y", n)}) :
     n \in 1..5, nchw \in {[n \in 1..5 |-> Row4(n)], [n \in 1..5 |-> Lanes(n)]}}

MaskParts ==
  {LET bound == IF role = "output" THEN "none" ELSE role
       Part(first, count) == Slice("m", [first |-> first, count |-> count, held |-> count], bound, Row4(count))
   IN Package([x |-> T("input", 1), m |-> Mask(role, n), y |-> T("output", 1)],
              <<P(<<Whole("x", 1, "none")>>, Part(0, cut)), P(<<Whole("x", 1, "none")>>, Part(cut, n - cut)),
                P(IF role = "output" THEN <<Whole("x", 1, "none")>> ELSE <<Whole("m", n, bound)>>,
                  Whole("y", 1, "none"))>>,
              order, {Result("y", 1)} \cup (IF role = "output" THEN {Result("m", n)} ELSE {})) :
     n \in 2..4, cut \in 1..3, role \in {"intermediate", "output"}, order \in Orders}

MaskInputs ==
  {Package([x |-> Mask("input", n), c |-> Mask("constant", n), y |-> T("output", 1)],
           <<P(<<Slice("x", [first |-> first, count |-> count, held |-> count], "none", Row4(count)),
                 [Whole("c", n, "none") EXCEPT !.constant = TRUE]>>, Whole("y", 1, "none"))>>,
           <<1>>, {Result("y", 1)}) :
     n \in 1..3, first \in 0..2, count \in 1..3}

Dma(state, channel) == [state |-> state, channel |-> channel]
Tasks == {[PlainTask EXCEPT !.src1 = a, !.dst = d] :
            a \in {Off} \cup {Dma("surface", k) : k \in {1, 3, 4, 5, 6}},
            d \in {Off, Dma("staged", 0), Dma("surface", 4), Dma("surface", 7), Dma("other", 0)}}

(* One program and its routing.                                            *)
Routed ==
  {Package([x |-> T("input", 1), y |-> T("output", 1)],
           <<[P(<<Whole("x", 1, "none")>>, Whole("y", 1, "none")) EXCEPT
                !.encoder = encoder, !.constants = constants, !.tiles = tiles, !.tasks = <<task>>]>>,
           <<1>>, {Result("y", 1)}) :
     encoder \in {"boolean", "broadcast", "oracle", "batched-matmul"}, constants \in BOOLEAN,
     tiles \in {{0, 4, 5}, {0, 3, 4, 5}, {0, 4}, {0, 4, 5, 6}}, task \in Tasks}

ChainOf(tasks, constants) ==
  [Package([x |-> T("input", 1), s |-> T("intermediate", 1), y |-> T("output", 1)],
           <<[P(<<Whole("x", 1, "none")>>, Whole("y", 1, "none")) EXCEPT
                !.operation = "chain", !.encoder = "composed-chain", !.constants = constants, !.tasks = tasks]>>,
           <<1>>, {Result("y", 1)}) EXCEPT !.chain = TRUE]

ChainTasks == {[t EXCEPT !.clamp = clamp] : clamp \in BOOLEAN,
                 t \in {[PlainTask EXCEPT !.src1 = a, !.dst = d] : a \in {Off, Dma("surface", 5)},
                          d \in {Off, Dma("surface", 4), Dma("other", 0)}}}

Chains == {ChainOf(<<a, b>>, FALSE) : a, b \in ChainTasks}

MCPackages == Sliced \cup Halves \cup Chained \cup Wide \cup Aliased \cup Masked \cup MaskParts \cup MaskInputs \cup Routed \cup Chains
=============================================================================
