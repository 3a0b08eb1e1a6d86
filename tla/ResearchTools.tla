------------------------------ MODULE ResearchTools ------------------------------
(***************************************************************************)
(* The tools that turn what Apple's compiler emits into the encoders' own  *)
(* tables, and the reference the results are compared with, each applied   *)
(* to one input: task streams are taken apart and put together, template   *)
(* tables built and looked up, constants packed, tensor operations         *)
(* unrolled, probe programs evaluated.  A behavior picks a tool and an     *)
(* input, runs it and stops.                                               *)
(***************************************************************************)
EXTENDS Integers, Sequences, FiniteSets, SequencesExt

CONSTANTS
  Bases, Unit, Masks, Dense, Sizes, Frame,   \* bit fields, for TaskStream
  UNARY, BINARY_OPERATIONS, RUNTIME_BINARY,  \* for TemplateTable
  Planes, Line, Cap, Narrow, Longest,        \* for ConstantPacking
  Deepest,                                   \* for ChainPrograms
  Thin,                                      \* for TaskLabels
  Inputs                                     \* for each tool, a sequence of sets it may be given from

ASSUME ToolsAssumption ==
  {Bases, Unit, Masks, Dense, Sizes, Frame, Planes, Line, Cap, Narrow, Longest, Deepest, Thin} \subseteq Nat \ {0}

VARIABLES
  tool,
  input,
  result,    \* what the tool gave, as a sequence of one; empty for a refusal
  ran

vars == <<tool, input, result, ran>>

T == INSTANCE TaskStream
Table == INSTANCE TemplateTable
C == INSTANCE ConstantPacking
R == INSTANCE ReferenceTensors
P == INSTANCE ChainPrograms
L == INSTANCE TaskLabels

Refusal == <<>>

Init ==
  /\ tool \in DOMAIN Inputs
  /\ \E k \in DOMAIN Inputs[tool] : input \in Inputs[tool][k]
  /\ result = Refusal
  /\ ran = FALSE

Run(kind, outcome) ==
  /\ tool = kind
  /\ ran = FALSE
  /\ result' = outcome
  /\ ran' = TRUE
  /\ UNCHANGED <<tool, input>>

(***************************************************************************)
(* Streams.                                                                *)
(***************************************************************************)
RebuildTask ==
  Run("task", IF ~T!Decodable(input.target, input.words) THEN Refusal
              ELSE LET task == T!DecodeTask(input.target, input.words)
                   IN <<[words |-> T!Rebuild(input.target, task), trips |-> T!RoundTrips(input.target, task)]>>)

Places == IF input.target = "h13" THEN T!SplitH13(input.words, input.first, input.count) ELSE T!SplitH14(input.words)

AssembleStream ==
  Run("section",
      IF Places = T!Refused THEN Refusal
      ELSE IF \E k \in DOMAIN Places : ~T!Decodable(input.target, T!Words(input.words, Places[k])) THEN Refusal
      ELSE LET tasks == [k \in DOMAIN Places |-> T!DecodeTask(input.target, T!Words(input.words, Places[k]))]
               stream == IF input.target = "h13" THEN T!StreamH13(tasks) ELSE T!StreamH14(tasks)
           IN IF input.target = "h14" /\ Len(stream) # Len(input.words) THEN Refusal
              ELSE <<stream>>)

ReadObject ==
  Run("object", <<[parsed |-> IF T!ParseValid(input) THEN <<T!ParsedTasks(input)>> ELSE Refusal,
                   extracted |-> IF T!ExtractValid(input) THEN <<T!ExtractedTasks(input)>> ELSE Refusal]>>)

CompareTasks ==
  Run("tasks", <<T!VaryingWords({T!DecodeTask("h14", words) : words \in input.tasks})>>)

(***************************************************************************)
(* Tables and constants.                                                   *)
(***************************************************************************)
BuildTables ==
  Run("records",
      LET norm == Table!NormRecords(input.records)
          elementwise == Table!ElementwiseRecords(input.records)
      IN <<[norm |-> IF \/ \E k \in DOMAIN norm : ~Table!Emittable(norm[k])
                        \/ Table!Conflict(norm, Table!TemplateKeys(norm))
                     THEN Refusal ELSE <<Table!NormRows(input.records)>>,
            elementwise |-> IF \/ \E k \in DOMAIN input.records : ~Table!Classifiable(input.records[k])
                               \/ Table!Conflict(elementwise, Table!KeysOf(elementwise))
                            THEN Refusal ELSE <<Table!ElementwiseRows(input.records)>>]>>)

(* The other packings are those of the next two tools.                     *)
PackSection ==
  Run("conv", IF C!ConvPacking(input) \in {"depthwise", "grouped", "dense"} THEN <<C!ConvSection(input)>> ELSE Refusal)

PackStrided ==
  Run("strided", <<[body |-> C!StridedBody(input.target, input.weights, input.lanes, input.rows),
                    count |-> C!StridedCount(input.weights, input.lanes, input.rows)]>>)

PackCaptured ==
  Run("captured", <<[slots |-> IF C!SlotsReadable(input.outputs) THEN <<C!PackDepthwiseSlots(input.outputs)>> ELSE Refusal,
                     columns |-> {s[2][1] : s \in C!PackPadconvColumns},
                     groups |-> [r \in 0..15 |-> [j \in 0..7 |-> C!Colgroup(r, j)]],
                     runs |-> [slot \in 0..63 |-> C!WriteoutInverse(slot)]]>>)

ReportLayout == Run("layout", <<C!LayoutReport(input.content, input.elements, input.header)>>)

RebuildSection == Run("runs", C!SectionRuns(C!SectionSummary(input.content), input.elements))

(***************************************************************************)
(* Tensors.                                                                *)
(***************************************************************************)
Elements(shape) == 0..(R!Product(shape) - 1)

Broadcast ==
  Run("broadcast",
      LET shape == R!BroadcastShape(input.left, input.right)
      IN IF shape = R!Refused THEN Refusal
         ELSE <<[shape |-> shape, left |-> [e \in Elements(shape) |-> R!BroadcastIndex(input.left, shape, e)]]>>)

Matmul ==
  Run("matmul",
      LET shape == R!MatmulShape(input.left, input.right, input.tx, input.ty)
          columns == R!MatmulColumns(input.right, input.ty)
      IN IF shape = R!Refused THEN Refusal
         ELSE <<[shape |-> shape,
                 terms |-> [e \in Elements(shape) |->
                   R!MatmulTerms(input.left, input.right, input.tx, input.ty, e \div columns, e % columns)]]>>)

Reduce ==
  Run("reduce",
      LET resolved == R!ResolvedAxes(Len(input.shape), input.axes)
      IN IF resolved = R!Unresolved THEN Refusal
         ELSE <<[shape |-> R!ReduceShape(input.shape, resolved, input.keep),
                 groups |-> [e \in Elements(R!KeptShape(input.shape, resolved)) |->
                               R!ReductionGroup(input.shape, resolved, e)]]>>)

Reshape ==
  Run("reshape", <<[squeezed |-> R!SqueezeShape(input.shape, input.axes),
                    expanded |-> R!ExpandShape(input.shape, input.axes)]>>)

Convolve ==
  Run("convolve",
      LET height == R!ConvOutput(input.height, input.kernel[1], input.stride[1], input.pad)
          width == R!ConvOutput(input.width, input.kernel[2], input.stride[2], input.pad)
      IN <<[shape |-> <<input.outputs, height, width>>,
            terms |-> [e \in (0..(input.outputs - 1)) \X (0..(height - 1)) \X (0..(width - 1)) |->
                         R!ConvTerms(input, e[1], e[2], e[3])]]>>)

(* What a minting driver compiles, computed by the reference.              *)
EvaluateProgram ==
  Run("program", <<[stopped |-> P!Evaluate(input), reads |-> P!Reads(input)]>>)

(* The names under which the drivers in input keep their cases' records.   *)
CollectCases == Run("drivers", <<[k \in input |-> {case.name : case \in Inputs.program[k]}]>>)

(* What the report says of the records of a directory.                     *)
ReportChains ==
  /\ tool = "chains"
  /\ \E reference \in {L!BuildReference(input.records)} :
       Run("chains", IF ~L!Reportable(input.records, reference) THEN Refusal
                     ELSE <<[report |-> L!Analyze(input.records, reference),
                             fusion |-> L!FusionRows(input.records, reference)]>>)

Done == ran /\ UNCHANGED vars

Next ==
  \/ RebuildTask \/ AssembleStream \/ ReadObject \/ CompareTasks
  \/ BuildTables \/ PackSection \/ PackStrided \/ PackCaptured \/ ReportLayout \/ RebuildSection
  \/ Broadcast \/ Matmul \/ Reduce \/ Reshape \/ Convolve
  \/ EvaluateProgram \/ CollectCases \/ ReportChains
  \/ Done

Spec == Init /\ [][Next]_vars

(***************************************************************************)
(* Properties of the streams.                                              *)
(***************************************************************************)
Answered(kind) == ran /\ tool = kind /\ result # Refusal
Answer == result[1]

(* A register that two records of a task write with different values.      *)
WrittenTwice(target, words) ==
  \E v, w \in T!Writes(target, words) : v[2] = w[2] /\ words[v[1]] # words[w[1]]

(* A rebuilt task always decodes to what it was rebuilt from, so the check *)
(* that it does can refuse nothing: the words are those of the object      *)
(* exactly when no register is written twice with different values, which  *)
(* the decoded form forgets.                                               *)
TaskExact ==
  Answered("task") =>
    /\ Answer.trips
    /\ (Answer.words = input.words) <=> ~WrittenTwice(input.target, input.words)

(* The stream a template carries is the section it was decoded from, word  *)
(* for word, padding and links included.  An H14 stream opens with a zero  *)
(* frame because the sections do; its length alone is compared, so one     *)
(* with the frame elsewhere passes, shifted.                               *)
SectionExact ==
  Answered("section") =>
    \/ Answer = input.words
    \/ \E k \in DOMAIN Places : WrittenTwice(input.target, T!Words(input.words, Places[k]))
    \/ input.target = "h14" /\ \E k \in 1..Frame : k > Len(input.words) \/ input.words[k] # 0

(* inspect_hwx.py extracts the tasks mint_oracles.py reports: splitting    *)
(* the whole text by the last descriptor gives what splitting each         *)
(* program's part gives, when the text begins with the first program.      *)
ExtractAgrees ==
  (Answered("object") /\ Answer.parsed # Refusal /\ Answer.extracted # Refusal) =>
    Answer.extracted = Answer.parsed \/ input.programs[1].start # 0

(* The locations that vary over several tasks are those some two of them   *)
(* differ in, one that a task lacks included.                              *)
VaryingIsPairwise ==
  Answered("tasks") =>
    LET tasks == {T!DecodeTask("h14", words) : words \in input.tasks}
    IN Answer = UNION {T!DiffTasks(a, b) : a \in tasks, b \in tasks}

(* What is written into the templates, by H13's tools and H14's, is what   *)
(* Apple's objects hold, and both readers of an object agree.              *)
StreamExact == TaskExact /\ SectionExact /\ ExtractAgrees /\ VaryingIsPairwise

(***************************************************************************)
(* Properties of the tables and the constants.                             *)
(***************************************************************************)
(* The compiler, asking for what a record was made of, finds the record's  *)
(* program and no other.  It fails to, or the generator stops, only for    *)
(* shapes of different rank that share a surface, the key holding the axes *)
(* of the MIL and the row those of the surface, for an axis two places in  *)
(* front of the surface, and for a shape that has none.                    *)
RowsAnswer ==
  Answered("records") =>
    LET norm == Table!NormRecords(input.records)
        elementwise == Table!ElementwiseRecords(input.records)
        ranks == {Len(norm[k].shape) : k \in DOMAIN norm}
        Far(record) == \E axis \in record.axes : axis + 4 < Len(record.shape)
        Flat(record) == \A k \in 1..(Len(record.shape) - 3) : record.shape[k] = 1
        Found(record) == {row.program : row \in Table!NormTemplates(Answer.norm[1], record)}
        Elementwise(record) == {row[2] : row \in Table!ElementwiseTemplates(Answer.elementwise[1], record)}
    IN /\ Answer.norm = Refusal => Cardinality(ranks) > 1 \/ \E k \in DOMAIN norm : Far(norm[k]) \/ ~Flat(norm[k])
       /\ Answer.norm # Refusal =>
            \A k \in DOMAIN norm : Table!Askable(norm[k]) =>
              \/ Found(norm[k]) = {norm[k].program}
              \/ Cardinality(ranks) > 1 /\ Found(norm[k]) = {}
       /\ Answer.elementwise # Refusal =>
            \A k \in DOMAIN elementwise : Elementwise(elementwise[k]) = {elementwise[k].program}

(* A report gives a task of a lone operation that operation's label,       *)
(* exactly, when the reference has a signature for it.  Every task has the *)
(* label it would be given by itself, whichever tasks shared it.  What is  *)
(* printed reads back as the labels in their order when the labels repeat  *)
(* as the sizes do, and says as many tasks in any case.  A word that a     *)
(* fused task has of its second operation is known to be that operation's, *)
(* if operations differ in it at all.                                      *)
LabelsTell ==
  Answered("chains") =>
    LET report == Answer.report
        Record(k) == input.records[k]
        lone == {k \in DOMAIN input.records : ~Record(k).error /\ L!SingleOpLabel(Record(k)) # L!NoLabel}
        Signed(k, j) ==
          [label |-> L!SingleOpLabel(Record(k)), count |-> Len(Record(k).tasks), index |-> j,
           baseline |-> Record(k).family = "chain_base"] \in DOMAIN report.reference.signatures
        Reads(shown) == FlattenSeq([r \in 1..shown.repeats |->
                          FlattenSeq([k \in DOMAIN shown.parts |-> [n \in 1..shown.parts[k][2] |-> shown.parts[k][1]]])])
    IN /\ \A k \in lone : \A j \in DOMAIN Record(k).tasks :
            (Record(k).tasks[j].decoded /\ Signed(k, j)) =>
              LET label == L!LabelTask(Record(k).tasks[j], report.reference)
              IN label.exact /\ L!SingleOpLabel(Record(k)) \in label.labels
       /\ \A k \in DOMAIN report.chains :
            LET chain == report.chains[k]
                texts == [j \in DOMAIN chain.labels |-> L!Text(chain.labels[j])]
                repeating == \A j \in DOMAIN texts : chain.period < j => texts[j] = texts[j - chain.period]
            IN /\ \A j \in DOMAIN chain.labels :
                    [chain.labels[j] EXCEPT !.size = Record(k).tasks[j].size] =
                      L!LabelTask(Record(k).tasks[j], report.reference)
               /\ Len(Reads(chain.shown)) = Len(texts)
               /\ (Reads(chain.shown) = texts) <=> repeating
       /\ \A row \in Answer.fusion :
            (row.adopted /\ row.word \in report.reference.varying) =>
              L!BASELINE_LABELS[L!PAIR_PARTS[row.pair][2]] \in row.belongsTo

(* The compiler and the report find in the records what was recorded.      *)
TablesAnswer == RowsAnswer /\ LabelsTell

(* A dense section holds every weight and every bias once, and zeros, when *)
(* the channels fill whole plane groups; when they do not, it is shorter   *)
(* than its planes, so that no recorded size it is held against can be     *)
(* that of whole planes.  A grouped section, whose chunks never go beyond  *)
(* the channels, loses some unless they fill its groups.  A depthwise      *)
(* section holds all of them just when the channels left over fit behind   *)
(* the others of their lane, and so does not spill into the next.  The     *)
(* captured orders lose no channel either: the groups of the in-projection *)
(* and the runs of the out-projection are permutations, the runs the       *)
(* inverse of what the device does, and the slots of the depthwise section *)
(* hold each channel's bias and taps for 1024 channels and no other count. *)
PlacedOnce ==
  /\ Answered("conv") =>
       LET outputs == input.outputs
           rows == (IF input.bias THEN {C!Bias} ELSE {})
                     \cup 0..((input.inputs \div input.groups) * input.kernel[1] * input.kernel[2] - 1)
           height == Cardinality(rows)
           once == /\ ToSet(Answer) \ {C!Blank} = (0..(outputs - 1)) \X rows
                   /\ Cardinality({k \in DOMAIN Answer : Answer[k] # C!Blank}) = outputs * height
           quarter == IF outputs \div (4 * Planes) > 1 THEN outputs \div (4 * Planes) ELSE 1
           slots == outputs \div Planes
           spread == (outputs + Planes - 1) \div Planes
       IN IF input.groups = input.inputs /\ input.groups = outputs
          THEN once <=> \/ outputs < Planes \/ outputs % Planes = 0
                        \/ (slots + 1) * height <= C!Lined(slots * height)
          ELSE IF input.groups > 1 THEN once <=> outputs % (Planes * quarter) = 0
          ELSE /\ (outputs % Planes = 0) => once
               /\ (outputs % Planes = 0) <=> Len(Answer) = Planes * C!Lined(height * spread)
  /\ Answered("captured") =>
       /\ UNION {{Answer.groups[r][j] : j \in 0..7} : r \in 0..15} = 0..127
       /\ \A run \in 0..63 : Answer.runs[C!Writeout(run)] = run
       /\ Answer.columns = 0..7
       /\ (input.outputs = 1024) <=>
            (Answer.slots # Refusal /\ {s[2] : s \in Answer.slots[1]} = (0..(input.outputs - 1)) \X (-1..8))

(* What is packed reads back.  A reader that follows the masks of a        *)
(* strided section finds every weight that is not zero, and the count it   *)
(* is given ends the body, one byte earlier on H14, whose first byte is    *)
(* not counted.  The bit planes name each byte the packing moved: the      *)
(* element of the payload and its half, and never an element for what the  *)
(* compiler wrote itself or took from the blob's header.  The runs of a    *)
(* template's section lay its content out again, none to be joined to the  *)
(* next; only a negative zero, a NaN that is not the first, or a long      *)
(* section of anything but reciprocals stops the generator.                *)
SectionsReadBack ==
  /\ Answered("strided") =>
       LET marks == IF input.target = "h13" THEN 1 ELSE 0
           width == IF input.lanes \div 2 > 2 THEN input.lanes \div 2 - 2 ELSE 0
           at[row \in 0..input.rows] ==
             IF row = 0 THEN (IF input.target = "h14" THEN 2 ELSE 1)
             ELSE at[row - 1] + 2 + 2 * Cardinality(Answer.body[at[row - 1] + marks][2]) + width
           Found(lane, row) ==
             LET marked == Answer.body[at[row] + marks][2]
                 place == at[row] + 2 + 2 * Cardinality({l \in marked : l < lane})
             IN IF lane \in marked THEN SubSeq(Answer.body, place, place + 1) ELSE <<>>
       IN /\ \A lane \in 0..(input.lanes - 1), row \in 0..(input.rows - 1) :
               Found(lane, row) = IF input.weights[lane, row] \in {"+0", "-0"} THEN <<>>
                                  ELSE C!Half(input.weights[lane, row])
          /\ at[input.rows] = Len(Answer.body) + 1
          /\ Answer.count = Len(Answer.body) - (IF input.target = "h14" THEN 1 ELSE 0)
  /\ Answered("layout") =>
       Answer = IF input.content[1] = "fixed" THEN input.content
                ELSE IF input.content[2] < input.header THEN <<"fixed", input.content[2]>>
                ELSE <<"element", input.content[2] - input.header, input.content[3]>>

RunsReadBack ==
  /\ Answered("runs") =>
       LET At(k) == {r[2] : r \in {q \in ToSet(Answer) : q[1] <= k - 1 /\ k - 1 < q[1] + q[3]}}
       IN /\ \A r \in ToSet(Answer) : r[1] + r[3] <= Len(input.content)
          /\ \A k \in DOMAIN input.content : At(k) = {input.content[k]} \ {"+0"}
          /\ \A j \in 1..(Len(Answer) - 1) : Answer[j][1] + Answer[j][3] = Answer[j + 1][1] => Answer[j][2] # Answer[j + 1][2]
  /\ (ran /\ tool = "runs" /\ result = Refusal) =>
       \/ Len(input.content) <= Longest /\ {"-0", "other nan"} \cap ToSet(input.content) # {}
       \/ Len(input.content) > Longest /\ {k - 1 : k \in {j \in DOMAIN input.content : input.content[j] = "two"}}
                                            # input.elements..(2 * input.elements - 1)
       \/ Len(input.content) > Longest /\ ~(ToSet(input.content) \subseteq {"two", "+0"})

(* Packing loses nothing, and a reader finds what was packed.              *)
WeightsOnce == PlacedOnce /\ SectionsReadBack /\ RunsReadBack

(***************************************************************************)
(* Properties of the reference.                                            *)
(***************************************************************************)
(* The coordinates of a shape's elements, and the place of an element.     *)
Coordinates(shape) == {c \in [DOMAIN shape -> 0..2] : \A k \in DOMAIN shape : c[k] < shape[k]}
Place(shape, c) == FoldLeft(LAMBDA a, b : a + b, 0, [k \in DOMAIN shape |-> c[k] * R!Stride(shape, k)])
Suffix(c, n) == SubSeq(c, Len(c) - n + 1, Len(c))

(* Every element of a result is made of the elements the operation's       *)
(* definition gives it, by coordinates: broadcasting, products with either *)
(* operand transposed, and reductions over any axes.  A reduction is taken *)
(* for legal when its declaration drops the reduced axes or keeps them as  *)
(* ones, unless a dropped axis has one element: that axis the code keeps,  *)
(* and refuses the legal declaration.                                      *)
ElementsExact ==
  /\ (Answered("broadcast") /\ input.left # <<>>) =>
       \A c \in Coordinates(Answer.shape) :
         LET own == Suffix(c, Len(input.left))
         IN Answer.left[Place(Answer.shape, c)] =
              Place(input.left, [k \in DOMAIN own |-> IF input.left[k] = 1 THEN 0 ELSE own[k]])
  /\ (Answered("matmul") /\ Len(input.left) > 1) =>
       \A c \in Coordinates(Answer.shape) : \A k \in DOMAIN Answer.terms[0] :
         LET batch == SubSeq(c, 1, Len(c) - 2)
             row == c[Len(c) - 1]
             column == c[Len(c)]
         IN Answer.terms[Place(Answer.shape, c)][k] =
              <<Place(input.left, batch \o (IF input.tx THEN <<k - 1, row>> ELSE <<row, k - 1>>)),
                Place(R!Matrix(input.right), IF input.ty THEN <<column, k - 1>> ELSE <<k - 1, column>>)>>
  /\ Answered("reduce") =>
       \A c \in Coordinates(input.shape) :
         LET axes == R!ResolvedAxes(Len(input.shape), input.axes)
             kept == [k \in DOMAIN c |-> IF k - 1 \in axes THEN 0 ELSE c[k]]
         IN Place(input.shape, c) \in Answer.groups[Place(R!KeptShape(input.shape, axes), kept)]
  /\ Answered("reduce") =>
       LET axes == R!ResolvedAxes(Len(input.shape), input.axes)
           left == SetToSortSeq({k \in DOMAIN input.shape : k - 1 \notin axes}, <)
           legal == IF input.keep THEN [k \in DOMAIN input.shape |-> IF k - 1 \in axes THEN 1 ELSE input.shape[k]]
                    ELSE [k \in DOMAIN left |-> input.shape[left[k]]]
       IN (Answer.shape = legal) <=> (input.keep \/ \A k \in DOMAIN input.shape : k - 1 \in axes => input.shape[k] # 1)

(* A convolution's windows sit where its padding says: none leaves the     *)
(* padded input, the padding behind is that in front or one more, every    *)
(* window sees the input, and a valid one sees nothing else.               *)
WindowsPlaced ==
  Answered("convolve") =>
    LET height == Answer.shape[2]
        Rows(row) == {t[1] \div input.width % input.height : t \in Answer.terms[0, row, 0]}
        span == (height - 1) * input.stride[1] + input.kernel[1]
        front == input.kernel[1] - Cardinality(Rows(0))
        behind == span - input.height - front
    IN /\ \A e \in DOMAIN Answer.terms : Answer.terms[e] # {}
       /\ input.pad = "valid" =>
            /\ \A e \in DOMAIN Answer.terms :
                 Cardinality(Answer.terms[e]) = (input.channels \div input.groups) * input.kernel[1] * input.kernel[2]
            /\ span <= input.height /\ span + input.stride[1] > input.height
       /\ input.pad = "same" =>
            /\ height = (input.height + input.stride[1] - 1) \div input.stride[1]
            /\ input.height >= input.kernel[1] => behind - front \in {0, 1} \/ (front = 0 /\ behind <= 0)

(* The terms of a convolution, by coordinates: an element of an output     *)
(* channel is made of the weights of that channel, each with the sample of *)
(* its own input channel among those of the group, and one padding shifts  *)
(* every window; no weight whose sample lies in the input is left out.     *)
TermsPaired ==
  Answered("convolve") =>
    LET share == input.channels \div input.groups
        Sample(t) == <<t[1] \div (input.height * input.width), (t[1] \div input.width) % input.height, t[1] % input.width>>
        Weight(t) ==
          LET taps == input.kernel[1] * input.kernel[2]
          IN <<t[2] \div (taps * share), (t[2] \div taps) % share, (t[2] \div input.kernel[2]) % input.kernel[1],
               t[2] % input.kernel[2]>>
        Shift(e, t) == [axis \in 1..2 |-> e[axis + 1] * input.stride[axis] + Weight(t)[axis + 2] - Sample(t)[axis + 1]]
        shift == Shift(<<0, 0, 0>>, CHOOSE t \in Answer.terms[0, 0, 0] : TRUE)
        Seen(e, tap) ==
          /\ e[2] * input.stride[1] + tap[1] - shift[1] \in 0..(input.height - 1)
          /\ e[3] * input.stride[2] + tap[2] - shift[2] \in 0..(input.width - 1)
    IN \A e \in DOMAIN Answer.terms :
         /\ \A t \in Answer.terms[e] :
              /\ Weight(t)[1] = e[1]
              /\ Sample(t)[1] = share * (e[1] \div (input.outputs \div input.groups)) + Weight(t)[2]
              /\ Shift(e, t) = shift
         /\ {<<Weight(t)[2], <<Weight(t)[3], Weight(t)[4]>>>> : t \in Answer.terms[e]} =
              (0..(share - 1)) \X {tap \in (0..(input.kernel[1] - 1)) \X (0..(input.kernel[2] - 1)) : Seen(e, tap)}

(* Axes put into a shape are ones where they were asked for, in any order  *)
(* and counted from either end, and squeezing them gives the shape back;   *)
(* what a squeeze takes out, an expansion at the same axes puts back.  Two *)
(* names for one axis the code takes for one.                              *)
AxesReturn ==
  Answered("reshape") =>
    LET Axes(rank) == {IF input.axes[k] >= 0 THEN input.axes[k] ELSE input.axes[k] + rank : k \in DOMAIN input.axes}
        grown == Len(input.shape) + Len(input.axes)
        Apart(rank) == Cardinality(Axes(rank)) = Len(input.axes) /\ Axes(rank) \subseteq 0..(rank - 1)
    IN /\ Apart(grown) =>
            /\ Len(Answer.expanded) = grown
            /\ \A axis \in Axes(grown) : Answer.expanded[axis + 1] = 1
            /\ R!SqueezeShape(Answer.expanded, input.axes) = input.shape
       /\ Answer.squeezed # R!Refused =>
            /\ Len(Answer.squeezed) = Len(input.shape) - Cardinality(Axes(Len(input.shape)))
            /\ Apart(Len(input.shape)) => R!ExpandShape(Answer.squeezed, input.axes) = input.shape

(* What the reference computes of an operation is what MIL defines of it,  *)
(* element by element and window by window.                                *)
ReferenceExact == ElementsExact /\ WindowsPlaced /\ TermsPaired /\ AxesReturn

(***************************************************************************)
(* Properties of the probe programs.                                       *)
(***************************************************************************)
Statement == input.body[Answer.stopped[1]]

(* The reference computes every program the drivers compile, each name     *)
(* bound once and each shape the one declared, up to an operation it does  *)
(* not have, a layer_norm with gamma and beta, a product with a stack of   *)
(* matrices, or weights in a container that is no weight file.  What the   *)
(* constants of a chain read are the payloads, each its own, behind all    *)
(* the headers and up to the end of the file.  The one payload of the      *)
(* other drivers is read from the start of the file, header and all: their *)
(* header is four bytes short, so its offset is a zero.  The halfword a    *)
(* onehot probe marks is the one its number names, counted from the start  *)
(* of the file, unless it names one of the header: packed at a negative    *)
(* offset, that mark is counted from the end of the payload.               *)
ProgramsRun ==
  Answered("program") =>
    LET chained == input.file.container = "chain"
        HeadStack(shape) == Len(shape) > 2 /\ P!Product(SubSeq(shape, 1, Len(shape) - 2)) > 1
        Inside(r) == r[2] + r[3] <= input.file.bytes
    IN /\ \/ Answer.stopped = <<0, "none">>
          \/ Answer.stopped[2] = "unsupported" /\ Statement.op \notin P!Supported
          \/ Answer.stopped[2] = "shape" /\ Statement.op = "layer_norm" /\ "gamma" \in DOMAIN Statement.in
          \/ Answer.stopped[2] = "shape" /\ Statement.op = "matmul" /\ HeadStack(P!ShapeOf(input, Statement.in.y))
          \/ Answer.stopped[2] = "shape" /\ input.file.container \in {"pad", "raw"}
       /\ input.file.container = "blob" => \A r \in Answer.reads : r[2] = 0 /\ Inside(r)
       /\ chained =>
            /\ Cardinality(Answer.reads) = Cardinality(DOMAIN input.file.words)
            /\ \A r \in Answer.reads : Inside(r) /\ \A at \in DOMAIN input.file.words : at + 24 <= r[2]
            /\ \A r, q \in Answer.reads : r # q => r[2] + r[3] <= q[2] \/ q[2] + q[3] <= r[2]
            /\ \E r \in Answer.reads : r[2] + r[3] = input.file.bytes
       /\ "marks" \in DOMAIN input.file =>
            \A at \in input.file.marks :
              LET logical == input.name[2][2]
              IN 0 <= at /\ 2 * at < input.file.bytes /\ (at + 64 = logical \/ logical < 64)

(* A case's name is its key in the record directory all the drivers write, *)
(* and a grid that meets a name again drops the case: no two cases, of one *)
(* driver or of two, have one name.                                        *)
NamesDistinct ==
  Answered("drivers") =>
    \A k \in input :
      /\ Cardinality(Answer[k]) = Cardinality(Inputs.program[k])
      /\ \A j \in input \ {k} : Answer[k] \cap Answer[j] = {}

(* What a driver mints is what it says: the reference computes the program *)
(* the probe is named for, and no other probe has that name.               *)
ProbesEvaluate == ProgramsRun /\ NamesDistinct
=============================================================================
