----------------------------- MODULE ConstantPacking -----------------------------
(***************************************************************************)
(* The constant sections of convolutions, as research/mint_conv_probes.py  *)
(* packs them, and the bit-plane probes the packings were read off.        *)
(*                                                                         *)
(* A section is a sequence of halfwords, each known by what it is a copy   *)
(* of: <<column, row>> for the weight of an output column and a reduction  *)
(* row, <<column, Bias>> for a bias, Blank for zero.  The captured         *)
(* sections, whose places never meet, are sets of pairs <<position,        *)
(* source>>.  The sixteen plane groups, the 64-byte alignment and the      *)
(* interleave cap are constants, so that small sections show what the      *)
(* large ones do; the captured permutations keep their real numbers.       *)
(***************************************************************************)
EXTENDS Integers, Sequences, FiniteSets, SequencesExt

CONSTANTS
  Planes,   \* plane groups of a section
  Line,     \* halfwords to which planes are aligned
  Cap,      \* widest interleave of a large surface; twice that for a small
            \* one, half of it for a strided section
  Narrow,   \* largest side of a small surface
  Longest   \* halfwords of a section whose values are recorded

Bias == -1   \* the row in front of a column's first
One(flag) == IF flag THEN 1 ELSE 0
Lined(n) == ((n + Line - 1) \div Line) * Line
Total(counts) == FoldLeft(LAMBDA a, b : a + b, 0, counts)
Before(counts, k) == Total(SubSeq(counts, 1, k - 1))

Blank == <<>>
Blanks(count) == [k \in 1..count |-> Blank]

(* data[from:to] = values, which may change the length.                    *)
Assign(data, from, to, values) ==
  LET kept == IF from < Len(data) THEN from ELSE Len(data)
  IN SubSeq(data, 1, kept) \o values \o SubSeq(data, to + 1, Len(data))

(* A column has its bias, if there is one, in front of its weights.        *)
Source(column, place, biased) == <<column, place - One(biased)>>

(***************************************************************************)
(* Dense sections.                                                         *)
(***************************************************************************)
LaneCap(spatial) == IF spatial <= Narrow THEN 2 * Cap ELSE Cap

PowerBelow(n) == CHOOSE p \in {2^k : k \in 0..n} : p <= n /\ 2 * p > n

(* Mutant: the remainder takes as many lanes as the first chunk.           *)
MutantLaneChunks(outputs, cap) ==
  LET lanes == IF outputs >= Planes THEN PowerBelow(outputs \div Planes) ELSE 1
  IN [k \in 1..((outputs + Planes * lanes - 1) \div (Planes * lanes)) |-> lanes]

LaneChunks(outputs, cap) ==
  LET from[left \in 0..outputs] ==
        IF left = 0 THEN <<>>
        ELSE LET power == IF left >= Planes THEN PowerBelow(left \div Planes) ELSE 1
                 lanes == IF power < cap THEN power ELSE cap
             IN <<lanes>> \o (IF Planes * lanes < left THEN from[left - Planes * lanes] ELSE <<>>)
  IN from[outputs]

(* A grouped convolution interleaves by a quarter of what fits, whatever   *)
(* is left over.                                                           *)
GroupedChunks(outputs) ==
  LET quarter == outputs \div (4 * Planes)
      lanes == IF quarter >= 1 THEN quarter ELSE 1
  IN [k \in 1..((outputs \div lanes) \div Planes) |-> lanes]

(* Column by column, a halfword at a time.  Of a column there is not, an   *)
(* empty slice is taken: the halfword it is assigned to is deleted, and    *)
(* what follows moves up.                                                  *)
PackDense(reduction, outputs, chunks, biased, padded) ==
  LET rows == reduction + One(biased)
      plane == [k \in DOMAIN chunks |-> IF padded THEN Lined(rows * chunks[k]) ELSE rows * chunks[k]]
      group == Lined(Total(plane))
      Base(k, n) == (n \div chunks[k]) * group + Before(plane, k) + (n % chunks[k])
      Writes(k) ==
        FlattenSeq([n \in 1..(Planes * chunks[k]) |->
          [row \in 1..rows |->
            [at |-> Base(k, n - 1) + (row - 1) * chunks[k],
             column |-> Planes * Before(chunks, k) + n - 1, place |-> row - 1]]])
      Halfword(w) == IF w.column < outputs THEN <<Source(w.column, w.place, biased)>> ELSE <<>>
  IN FoldLeft(LAMBDA data, w : Assign(data, w.at, w.at + 1, Halfword(w)),
              Blanks(Planes * group), FlattenSeq([k \in DOMAIN chunks |-> Writes(k)]))

(***************************************************************************)
(* Depthwise sections: lanes of channels back to back.                     *)
(***************************************************************************)
PackDepthwise(taps, outputs, biased) ==
  LET lanes == IF outputs < Planes THEN outputs ELSE Planes
      rows == taps + One(biased)
      lane == Lined((outputs \div lanes) * rows)
      Cursor(column) == (column % lanes) * lane + (column \div lanes) * rows
  IN FoldLeft(LAMBDA data, column :
                Assign(data, Cursor(column), Cursor(column) + rows,
                       [place \in 1..rows |-> Source(column, place - 1, biased)]),
              Blanks(lanes * lane), [k \in 1..outputs |-> k - 1])

(* The slotted sections, 64 lanes: the bias twice, then the taps in the    *)
(* decoded order, -1 being a structural zero.                              *)
SlotOrder == <<0, -1, 2, 1, 4, 3, 6, 5, 8, 7, 1, 0, 3, 2, 5, 4, 7, 6, -1, 8>>

SlotColumn(slot) == 16 * (slot % 64) + slot \div 64

SlotsReadable(outputs) ==
  /\ outputs % 64 = 0
  /\ \A slot \in 0..(outputs - 1) : SlotColumn(slot) < outputs

PackDepthwiseSlots(outputs) ==
  LET width == Len(SlotOrder) + 2
      slots == 0..(64 * (outputs \div 64) - 1)
  IN {<<slot * width + j, <<SlotColumn(slot), Bias>>>> : slot \in slots, j \in {0, 1}}
     \cup {<<slot * width + j + 1, <<SlotColumn(slot), SlotOrder[j]>>>> :
             slot \in slots, j \in {i \in DOMAIN SlotOrder : SlotOrder[i] >= 0}}

(* Three chunks of eight lanes; the third holds the weights.               *)
PackPadconvColumns == {<<(2 * 8 + lane) * 32, <<lane, 0>>>> : lane \in 0..7}

(***************************************************************************)
(* The captured permutations of two dense geometries: the block of sixteen *)
(* columns a slot carries.                                                 *)
(***************************************************************************)
Colgroup(region, slot) ==
  8 * (4 * (3 - region \div 4) + ((region \div 2) % 2) + 2 * (slot % 2)) + 4 * (region % 2) + slot \div 2

BitOf(n, k) == (n \div 2^k) % 2

WriteoutInverse(slot) ==
  BitOf(slot, 5) + 2 * BitOf(slot, 0) + 4 * BitOf(slot, 1) + 8 * BitOf(slot, 2)
    + 16 * BitOf(slot, 4) + 32 * (1 - BitOf(slot, 3))

(* Where the device shows the run a slot carries, as it was measured.      *)
Writeout(run) ==
  BitOf(run, 1) + 2 * BitOf(run, 2) + 4 * BitOf(run, 3) + 16 * BitOf(run, 4)
    + 8 * (1 - BitOf(run, 5)) + 32 * BitOf(run, 0)

(***************************************************************************)
(* Which packing a convolution takes; kernel is <<height, width>>.  The    *)
(* two dense geometries of the captured permutations are left out.         *)
(***************************************************************************)
Taps(c) == c.kernel[1] * c.kernel[2]
Reduction(c) == (c.inputs \div c.groups) * Taps(c)
Depthwise(c) == c.groups = c.inputs /\ c.groups = c.outputs
Widest(c) == IF c.spatial > c.width THEN c.spatial ELSE c.width

ConvPacking(c) ==
  IF Depthwise(c)
  THEN IF ~c.bias /\ Taps(c) = 1 /\ c.padded THEN "columns"
       ELSE IF c.bias /\ c.kernel[1] = 1 /\ c.kernel[2] > 1 THEN "slots" ELSE "depthwise"
  ELSE IF c.stride > 1
  THEN IF c.groups # 1 \/ Taps(c) # 1 \/ \E lanes \in ToSet(LaneChunks(c.outputs, LaneCap(c.spatial))) : 2 * lanes > Cap
       THEN "refused" ELSE "strided"
  ELSE IF c.groups > 1 THEN "grouped" ELSE "dense"

ConvSection(c) ==
  IF ConvPacking(c) = "depthwise" THEN PackDepthwise(Taps(c), c.outputs, c.bias)
  ELSE IF ConvPacking(c) = "grouped" THEN PackDense(Reduction(c), c.outputs, GroupedChunks(c.outputs), c.bias, TRUE)
  ELSE PackDense(Reduction(c), c.outputs, LaneChunks(c.outputs, LaneCap(Widest(c))), c.bias, FALSE)

(***************************************************************************)
(* Strided sections skip zero weights.  A plane's body is a sequence of    *)
(* bytes: a mask is the set of lanes it marks, a weight is two bytes, and  *)
(* Zero is a zero byte.  weights is a function of <<lane, row>>; both      *)
(* zeros of fp16 count as zero.                                            *)
(***************************************************************************)
Zero == <<"zero">>
Mask(marked) == <<"mask", marked>>
Half(value) == <<<<"low", value>>, <<"high", value>>>>
IsZero(value) == value \in {"+0", "-0"}

RowPadding(lanes) == IF lanes \div 2 > 2 THEN lanes \div 2 - 2 ELSE 0

Marked(weights, lanes, row) == {lane \in 0..(lanes - 1) : ~IsZero(weights[lane, row])}

Values(weights, lanes, row) ==
  FlattenSeq([k \in 1..lanes |->
    IF k - 1 \in Marked(weights, lanes, row) THEN Half(weights[k - 1, row]) ELSE <<>>])

StridedRow(target, weights, lanes, row) ==
  (IF target = "h13" THEN <<Zero, Mask(Marked(weights, lanes, row))>>
   ELSE <<Mask(Marked(weights, lanes, row)), Zero>>)
  \o Values(weights, lanes, row) \o [k \in 1..RowPadding(lanes) |-> Zero]

StridedBody(target, weights, lanes, reduction) ==
  (IF target = "h14" THEN <<Zero>> ELSE <<>>)
  \o FlattenSeq([k \in 1..reduction |-> StridedRow(target, weights, lanes, k - 1)])

StridedCount(weights, lanes, reduction) ==
  Total([k \in 1..reduction |-> 2 + 2 * Cardinality(Marked(weights, lanes, k - 1)) + RowPadding(lanes)])

(***************************************************************************)
(* The probes.  Payload element n of the plane probes is High where bit    *)
(* plane of n is set; the baseline is all Low, the saturated probe all     *)
(* High.  A constant's first HeaderElements are the blob's own header, so  *)
(* its element e is the payload's element e - HeaderElements.              *)
(***************************************************************************)
Low == <<1, 56>>
High == <<130, 60>>

BitPlanes(elements) == CHOOSE n \in 1..elements : 2^n >= elements /\ \A m \in 1..(n - 1) : 2^m < elements

KnownWeight(probe, n) ==
  IF probe = <<"saturated">> \/ (probe[1] = "plane" /\ BitOf(n, probe[2]) = 1) THEN High ELSE Low

(* What a probe leaves at a position of the section: content is what the   *)
(* packing put there, <<"element", e, half>> or <<"fixed", byte>>.         *)
Image(content, probe, header) ==
  IF content[1] = "fixed" THEN content[2]
  ELSE IF content[2] < header THEN content[2]
  ELSE KnownWeight(probe, content[2] - header)[content[3]]

(* layout_report at one position: what it says of the byte there.          *)
LayoutReport(content, elements, header) ==
  LET baseline == Image(content, <<"baseline">>, header)
      saturated == Image(content, <<"saturated">>, header)
      set == {plane \in 0..(BitPlanes(elements) - 1) : Image(content, <<"plane", plane>>, header) # baseline}
      halves == {h \in 1..2 : Low[h] = baseline}
      half == CHOOSE h \in 1..2 : Low[h] = baseline /\ \A g \in 1..(h - 1) : Low[g] # baseline
  IN IF saturated = baseline THEN <<"fixed", baseline>>
     ELSE IF halves = {} THEN <<"unknown", baseline>>
     ELSE IF saturated # High[half] THEN <<"unknown", baseline>>
     ELSE <<"element", FoldSet(LAMBDA plane, sum : sum + 2^plane, 0, set), half>>

(***************************************************************************)
(* Sections of the elementwise templates.  A record keeps the size, a hash *)
(* and, of a short section, the values of the halfwords that are not zero, *)
(* either zero and one NaN like another; content is a sequence of those.   *)
(***************************************************************************)
Unrecorded == {<<"unrecorded">>}
NaN(value) == value \in {"nan", "other nan"}

SectionSummary(content) ==
  [size |-> Len(content), hash |-> content, blank |-> ToSet(content) \subseteq {"+0"},
   words |-> IF Len(content) > Longest THEN Unrecorded
             ELSE {<<k - 1, IF NaN(content[k]) THEN "nan" ELSE content[k]>> :
                     k \in {j \in DOMAIN content : ~IsZero(content[j])}}]

(* The one long section that is rebuilt holds a reciprocal for each        *)
(* element, behind as many zeros.                                          *)
Halfwords(summary, elements) ==
  IF summary.blank THEN {}
  ELSE IF summary.words = Unrecorded THEN (elements..(2 * elements - 1)) \X {"two"}
  ELSE summary.words

(* Runs <<index, value, count>> of a section that is rebuilt as it was,    *)
(* in a sequence of one; nothing of any other.                             *)
SectionRuns(summary, elements) ==
  LET halfwords == SetToSortSeq(Halfwords(summary, elements), LAMBDA v, w : v[1] < w[1])
      Rebuilt(k) == \/ \E w \in ToSet(halfwords) : w = <<k - 1, summary.hash[k]>>
                    \/ summary.hash[k] = "+0" /\ \A w \in ToSet(halfwords) : w[1] # k - 1
      Follows(runs, w) == runs # <<>> /\ Last(runs)[2] = w[2] /\ Last(runs)[1] + Last(runs)[3] = w[1]
  IN IF \E w \in ToSet(halfwords) : w[1] >= summary.size THEN <<>>
     ELSE IF ~\A k \in 1..summary.size : Rebuilt(k) THEN <<>>
     ELSE <<FoldLeft(LAMBDA runs, w : IF Follows(runs, w) THEN [runs EXCEPT ![Len(runs)] = [@ EXCEPT ![3] = @ + 1]]
                                      ELSE Append(runs, <<w[1], w[2], 1>>),
                     <<>>, halfwords)>>
=============================================================================
