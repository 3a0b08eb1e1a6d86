------------------------------- MODULE TaskLabels -------------------------------
(***************************************************************************)
(* The report of mint_chain_probes.py: what each task of a chain does, by  *)
(* the words its decoded form shares with tasks of programs of a single    *)
(* operation; how often a chain repeats; what fusing adds to an operation. *)
(*                                                                         *)
(* A record is [case, family, operation, fused, runtime, shape, operand,   *)
(* error, accepted, status, tasks]: fused for a relu or a bias among its   *)
(* parameters, runtime for a weight that is an input.  A case of the       *)
(* campaign is a name of parts, the first "chain".  A task is [decoded,    *)
(* header, blocks, size], each block the words of a range of registers.    *)
(* Records are read in the order of their names, here a sequence.          *)
(***************************************************************************)
EXTENDS Integers, Sequences, FiniteSets, SequencesExt

CONSTANT Thin   \* MIN_SIGNATURE_WORDS

NoLabel == <<>>
Missing == -1   \* what a slot holds that a task does not have

(***************************************************************************)
(* Lone operations.  A label is a name of one part or two.                 *)
(***************************************************************************)
Matmuls == {"matmul", "env_matmul", "rrmm_matmul", "rrmm_matvec"}
Convolutions == {"env_conv", "convolution"}
Broadcasts == {"env_broadcast", "rrmm_broadcast"}
SINGLE_OP_FAMILIES ==
  Matmuls \cup Convolutions \cup Broadcasts \cup
  {"binary_runtime", "binary_constant", "unary", "normalization", "reduction", "env_activation", "chain_base"}

BASELINE_LABELS ==
  [matmul |-> <<"matmul", "const">>, add |-> <<"add">>, mul_scalar |-> <<"mul", "bcast">>,
   bias |-> <<"add", "bcast">>, relu |-> <<"relu">>, gelu |-> <<"gelu">>, silu |-> <<"silu">>,
   layer_norm |-> <<"layer_norm">>, softmax |-> <<"softmax">>]

SingleOpLabel(record) ==
  IF record.family = "chain_base" THEN BASELINE_LABELS[record.operation]
  ELSE IF record.family \notin SINGLE_OP_FAMILIES \/ record.fused THEN NoLabel
  ELSE IF record.family \in Matmuls THEN <<"matmul", IF record.runtime THEN "rt" ELSE "const">>
  ELSE IF record.family \in Convolutions THEN <<"conv">>
  ELSE IF record.operation = "" THEN NoLabel
  ELSE IF record.family \in Broadcasts /\ record.shape # record.operand THEN <<record.operation, "bcast">>
  ELSE IF record.family = "binary_constant" THEN <<record.operation, "const">>
  ELSE <<record.operation>>

(* A register that two blocks write holds what the later one wrote.        *)
TaskSlots(task) ==
  FoldLeft(LAMBDA slots, block : block @@ slots,
           [a \in {"header"} \X DOMAIN task.header |-> task.header[a[2]]], task.blocks)

Slot(slots, address) == IF address \in DOMAIN slots THEN slots[address] ELSE Missing

SingleOpTasks(records) ==
  LET Tasks(record) ==
        [k \in DOMAIN record.tasks |->
           [label |-> SingleOpLabel(record), count |-> Len(record.tasks), index |-> k, shape |-> record.shape,
            baseline |-> record.family = "chain_base", decoded |-> record.tasks[k].decoded,
            slots |-> TaskSlots(record.tasks[k])]]
      Lone(record) == ~record.error /\ SingleOpLabel(record) # NoLabel
      Decoded(task) == task.decoded
      lone == SelectSeq(records, Lone)
  IN SelectSeq(FlattenSeq([k \in DOMAIN lone |-> Tasks(lone[k])]), Decoded)

(***************************************************************************)
(* The reference: what sets operations apart, and the values it has in     *)
(* every task of an operation, count and index.                            *)
(***************************************************************************)
(* Of the tasks of an operation at one shape only the first is looked at.  *)
OperationVaryingSlots(tasks) ==
  LET Place(i) == <<tasks[i].shape, tasks[i].count, tasks[i].index>>
      first == {i \in DOMAIN tasks :
                  \A h \in 1..(i - 1) : Place(h) = Place(i) => tasks[h].label # tasks[i].label}
  IN {a \in UNION {DOMAIN tasks[i].slots : i \in first} :
        \E i, j \in first : Place(i) = Place(j) /\ Slot(tasks[i].slots, a) # Slot(tasks[j].slots, a)}

Key(task) == [label |-> task.label, count |-> task.count, index |-> task.index, baseline |-> task.baseline]

(* Mutant: the first observation is taken for all of them.                 *)
MutantAgreed(observed, varying) == varying

Agreed(observed, varying) ==
  {a \in varying : \A s, t \in observed : Slot(s, a) = Slot(t, a)}

(* A corpus operation seen once, or with few words in common, tells        *)
(* nothing; one task at the chains' own geometry does.                     *)
BuildReference(records) ==
  LET tasks == SingleOpTasks(records)
      varying == OperationVaryingSlots(tasks)
      With(key) == {i \in DOMAIN tasks : Key(tasks[i]) = key}
      agreed == [key \in {Key(tasks[i]) : i \in DOMAIN tasks} |->
                   Agreed({tasks[i].slots : i \in With(key)}, varying)]
      kept == {key \in DOMAIN agreed :
                 (Cardinality(With(key)) >= 2 \/ key.baseline) /\ Cardinality(agreed[key]) >= Thin}
      First(key) == CHOOSE i \in With(key) : \A j \in With(key) : i <= j
  IN [varying |-> varying,
      signatures |-> [key \in kept |-> [a \in agreed[key] |-> Slot(tasks[First(key)].slots, a)]],
      owners |-> {<<a, Slot(tasks[i].slots, a), tasks[i].label>> : a \in varying, i \in DOMAIN tasks}]

BelongsTo(reference, address, value) == {o[3] : o \in {p \in reference.owners : p[1] = address /\ p[2] = value}}

(***************************************************************************)
(* A task's label: every operation whose signature fits best, the words    *)
(* that the closest of those misses, and the next best operation.  Where   *)
(* several are as close, the names decide, which are left out.             *)
(***************************************************************************)
LabelTask(task, reference) ==
  LET slots == TaskSlots(task)
      signatures == reference.signatures
      Size(key) == Cardinality(DOMAIN signatures[key])
      missed == [key \in DOMAIN signatures |->
                   {a \in DOMAIN signatures[key] : Slot(slots, a) # signatures[key][a]}]
      Matched(key) == Size(key) - Cardinality(missed[key])
      Best(keys) == {key \in keys : \A other \in keys : Matched(key) * Size(other) >= Matched(other) * Size(key)}
      best == Best(DOMAIN signatures)
      labels == {key.label : key \in best}
      after == Best({key \in DOMAIN signatures : key.label \notin labels})
      closest == {missed[key] : key \in {k \in best : \A other \in best :
                                            Cardinality(missed[k]) <= Cardinality(missed[other])}}
  IN [labels |-> labels,
      score |-> LET key == CHOOSE k \in best : TRUE IN (2000 * Matched(key) + Size(key)) \div (2 * Size(key)),
      exact |-> \E key \in best : missed[key] = {},
      size |-> task.size,
      runnerUp |-> {key.label : key \in {k \in after : \A other \in after : Matched(k) >= Matched(other)}},
      fused |-> {[a \in words |-> <<Slot(slots, a), BelongsTo(reference, a, Slot(slots, a))>>] : words \in closest}]

(* Tasks that agree in all that varies share the label of the first.       *)
LabelAll(tasks, reference) ==
  LET role == [k \in DOMAIN tasks |-> [a \in reference.varying |-> Slot(TaskSlots(tasks[k]), a)]]
      First(k) == CHOOSE i \in 1..k : role[i] = role[k] /\ \A h \in 1..(i - 1) : role[h] # role[k]
  IN [k \in DOMAIN tasks |-> LabelTask(tasks[First(k)], reference)]

(***************************************************************************)
(* What is printed of a chain: its labels, run by run, one period of them  *)
(* when the sizes of its tasks repeat.                                     *)
(***************************************************************************)
NoPeriod == 0
RolePeriod(roles) ==
  LET periods == {p \in 1..(Len(roles) \div 2) :
                    Len(roles) % p = 0 /\ \A k \in DOMAIN roles : roles[k] = roles[((k - 1) % p) + 1]}
  IN IF periods = {} THEN NoPeriod ELSE CHOOSE p \in periods : \A q \in periods : p <= q

Text(label) == IF label.exact THEN <<label.labels>> ELSE <<label.labels, label.score>>

Runs(texts) ==
  FoldLeft(LAMBDA parts, text :
             IF parts # <<>> /\ Last(parts)[1] = text
             THEN [parts EXCEPT ![Len(parts)] = <<text, @[2] + 1>>] ELSE Append(parts, <<text, 1>>),
           <<>>, texts)

LabelSequence(labels, period) ==
  LET shown == IF period = NoPeriod THEN labels ELSE SubSeq(labels, 1, period)
  IN [parts |-> Runs([k \in DOMAIN shown |-> Text(shown[k])]),
      repeats |-> IF period = NoPeriod THEN 1 ELSE Len(labels) \div period]

CeilingVerdict(record) ==
  IF record.accepted THEN "accepted" ELSE IF record.status = "timed out" THEN "timed out here" ELSE "refused"

(***************************************************************************)
(* The report, by the reference BuildReference makes of the same records.  *)
(* A label needs a decoded task and a signature to compare it with, or the *)
(* report ends with an error.                                              *)
(***************************************************************************)
Chains(records) ==
  {k \in DOMAIN records : /\ records[k].case[1] = "chain" /\ records[k].family # "chain"
                          /\ records[k].family # "chain_ceiling"}
Ceilings(records) == {k \in DOMAIN records : records[k].case[1] = "chain" /\ records[k].family = "chain_ceiling"}

Reportable(records, reference) ==
  LET tasks == UNION {ToSet(records[k].tasks) : k \in {c \in Chains(records) : ~records[c].error}}
  IN /\ \A task \in tasks : task.decoded
     /\ tasks # {} => DOMAIN reference.signatures # {}

Analyze(records, reference) ==
  LET Entry(record) ==
        LET labels == LabelAll(record.tasks, reference)
            period == RolePeriod([k \in DOMAIN record.tasks |-> record.tasks[k].size])
        IN [labels |-> labels, period |-> period, shown |-> LabelSequence(labels, period)]
  IN [reference |-> reference,
      chains |-> [k \in {c \in Chains(records) : ~records[c].error} |-> Entry(records[k])],
      ceilings |-> [k \in Ceilings(records) |-> CeilingVerdict(records[k])]]

(***************************************************************************)
(* Fusion: the words of a pair's tasks that are not those of its first     *)
(* operation alone, and whether the second has them.                       *)
(***************************************************************************)
PAIR_PARTS ==
  [mm_relu |-> <<"matmul", "relu">>, mm_gelu |-> <<"matmul", "gelu">>, mm_silu |-> <<"matmul", "silu">>,
   mm_bias |-> <<"matmul", "bias">>, mm_bias_relu |-> <<"matmul", "relu">>, mm_add |-> <<"matmul", "add">>,
   mm_mm |-> <<"matmul", "matmul">>, gelu_mm |-> <<"gelu", "matmul">>, ln_gelu |-> <<"layer_norm", "gelu">>,
   ln_ln |-> <<"layer_norm", "layer_norm">>, add_ln |-> <<"matmul", "layer_norm">>,
   mm_softmax |-> <<"matmul", "softmax">>, softmax_mm |-> <<"softmax", "matmul">>,
   mul_mm |-> <<"mul_scalar", "matmul">>, mm_mul |-> <<"matmul", "mul_scalar">>]

FusionRows(records, reference) ==
  LET Tasks(case) == {records[k].tasks : k \in {j \in DOMAIN records : records[j].case = case /\ ~records[j].error}}
      Base(operation) == Tasks(<<"chain", "base", operation>>)
      Row(pair, k, a, task, was, other) ==
        [pair |-> pair, task |-> k, word |-> a, was |-> Slot(was, a), fused |-> Slot(task, a),
         adopted |-> Slot(task, a) = Slot(other, a), belongsTo |-> BelongsTo(reference, a, Slot(task, a))]
      TaskRows(pair, k, task, was, other) ==
        {Row(pair, k, a, task, was, other) :
           a \in {b \in DOMAIN task \cup DOMAIN was : Slot(task, b) # Slot(was, b)}}
      Rows(pair, fused, lone, other) ==
        UNION {TaskRows(pair, k, TaskSlots(fused[k]), TaskSlots(lone[k]),
                        TaskSlots(other[IF k < Len(other) THEN k ELSE Len(other)])) :
                 k \in DOMAIN fused \cap DOMAIN lone}
  IN UNION {UNION {Rows(pair, fused, lone, other) :
                     fused \in Tasks(<<"chain", "pair", pair>>),
                     lone \in Base(PAIR_PARTS[pair][1]), other \in Base(PAIR_PARTS[pair][2])} :
              pair \in DOMAIN PAIR_PARTS}
=============================================================================
