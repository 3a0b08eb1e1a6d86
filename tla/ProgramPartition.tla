---------------------------- MODULE ProgramPartition ----------------------------
(***************************************************************************)
(* +[ANEProgramPartitionPlanner partitionsForTasks:...transitions:], the   *)
(* greedy planner that groups adjacent scheduled tasks into one program.   *)
(*                                                                         *)
(* A problem lists the tasks in schedule order.  Task k produces exactly   *)
(* one value, and that value is named k; every other value is external.    *)
(* What the target predicate answers for a pair is part of the problem:    *)
(* `composable` holds the consumer positions it accepts.                   *)
(*                                                                         *)
(* One step is one iteration of the candidate loop, or the epilogue that   *)
(* settles the records and emits the partition.                            *)
(***************************************************************************)
EXTENDS Integers, Sequences, FiniteSetsExt

CONSTANTS
  Problems,    \* the planning problems the assembler may hand over
  MaxInputs,   \* maximumInputCount
  WorkingSet,  \* workingSetBytes
  MaxUInt,     \* NSUIntegerMax
  NoLimit      \* a nil maximumTaskCount

(* ANEProgramTaskDescriptor; the values a task reads are task positions or *)
(* names of external values.                                               *)
Descriptor ==
  [inputs : SUBSET Int, encoded : Nat, contribution : Nat, bytes : Nat]

Problem ==
  [tasks : Seq(Descriptor), finals : SUBSET Nat, composable : SUBSET Nat,
   taskLimit : Nat \cup {NoLimit}]

(* A merged task may come before one of its producers (TaskScheduler), but *)
(* no task reads a value computed from its own, here over a run of tasks   *)
(* that each read the one before; normalisation has removed dead tasks.    *)
WellFormed(p) ==
  \A k \in 1 .. Len(p.tasks) :
    /\ \A b \in k .. Len(p.tasks) :
         (\A j \in k + 1 .. b : j - 1 \in p.tasks[j].inputs)
           => b \notin p.tasks[k].inputs
    /\ k \in p.finals \/ \E c \in 1 .. Len(p.tasks) : k \in p.tasks[c].inputs

ASSUME PlannerAssumption ==
  /\ MaxInputs \in Nat /\ WorkingSet \in Nat /\ MaxUInt \in Nat
  /\ WorkingSet < MaxUInt
  /\ NoLimit \notin Nat

(* The limits are small constants of the target, far from NSUIntegerMax.   *)
ASSUME ProblemsAssumption ==
  /\ Problems \subseteq Problem
  /\ \A p \in Problems :
       WellFormed(p) /\ (p.taskLimit = NoLimit \/ p.taskLimit < MaxUInt)

VARIABLES
  problem,       \* the problem being planned
  start,         \* partitionStart
  candidate,     \* candidateEnd of the next trial
  bestEnd,       \* end of the best partition found from start
  lastExtended,  \* last position the trial partition reached
  pending,       \* end of the trial pendingBoundaryReason describes, 0 for nil
  records,       \* position of the consumer -> its transition record
  partitions,    \* emitted partitions, each a pair of first and last position
  phase          \* "extending", "settling" or "done"

vars == <<problem, start, candidate, bestEnd, lastExtended, pending, records,
          partitions, phase>>

--------------------------------------------------------------------------------
(* makePartition: the partition of the tasks at positions a .. b. *)

Count == Len(problem.tasks)
Task(k) == problem.tasks[k]

BoundaryInputs(p, a, b) ==
  {v \in UNION {p.tasks[k].inputs : k \in a .. b} :
     \E k \in a .. b : v \in p.tasks[k].inputs /\ v \notin a .. k - 1}

(* Mutant: the addition wraps at NSUIntegerMax.                            *)
MutantSaturate(n) == n % (MaxUInt + 1)

Saturate(n) == IF n > MaxUInt THEN MaxUInt ELSE n

EncodedSum(p, a, b) ==
  p.tasks[a].encoded + MapThenSumSet(LAMBDA k : p.tasks[k].contribution, a + 1 .. b)

EncodedCount(p, a, b) == Saturate(EncodedSum(p, a, b))

ReadOutside(p, v, a, b) ==
  \E k \in (1 .. Len(p.tasks)) \ (a .. b) : v \in p.tasks[k].inputs

ReadInside(p, v, a, b) == \E k \in a .. b : v \in p.tasks[k].inputs

(* Mutant: a value counts as internal as soon as one consumer is inside.   *)
MutantBoundaryOutputs(p, a, b) ==
  {v \in a .. b : v \in p.finals
                    \/ (ReadOutside(p, v, a, b) /\ ~ ReadInside(p, v, a, b))}

BoundaryOutputs(p, a, b) ==
  {v \in a .. b : v \in p.finals \/ ReadOutside(p, v, a, b)}

BytesSum(p, S) == MapThenSumSet(LAMBDA v : p.tasks[v].bytes, S)

InternalBytes(p, a, b) ==
  Saturate(BytesSum(p, {v \in (a .. b) \ BoundaryOutputs(p, a, b) : ReadInside(p, v, a, b)}))

(* partitionLimitFailure returned nil. *)
WithinLimits(p, a, b) ==
  /\ Cardinality(BoundaryInputs(p, a, b)) <= MaxInputs
  /\ p.taskLimit # NoLimit => EncodedCount(p, a, b) <= p.taskLimit
  /\ InternalBytes(p, a, b) <= WorkingSet

OneOutput(p, a, b) == Cardinality(BoundaryOutputs(p, a, b)) = 1

--------------------------------------------------------------------------------
(* The greedy scan. *)

(* A transition record: the decision, the kind of its reason, and the end  *)
(* of the trial partition a boundary-output reason was computed for.       *)
Composed == [accepted |-> TRUE, reason |-> "composed", end |-> 0]
Rejected(reason, end) == [accepted |-> FALSE, reason |-> reason, end |-> end]

Reasons ==
  {"composed", "no task limit", "no edge", "target", "limit", "outputs",
   "fallback"}

Record == [accepted : BOOLEAN, reason : Reasons, end : Nat]

Begin ==
  /\ start = 1 /\ candidate = 2 /\ bestEnd = 1 /\ lastExtended = 1
  /\ pending = 0
  /\ records = <<>>
  /\ partitions = <<>>
  /\ phase = IF Count = 0 THEN "done" ELSE "extending"

Init == problem \in Problems /\ Begin

Trying == phase = "extending" /\ candidate <= Count

(* record(candidateEnd, NO, ...); break *)
Stop(reason) ==
  /\ records' = [k \in DOMAIN records \cup {candidate} |->
                   IF k = candidate THEN Rejected(reason, 0) ELSE records[k]]
  /\ phase' = "settling"
  /\ UNCHANGED <<problem, start, candidate, bestEnd, lastExtended, pending,
                 partitions>>

DirectEdge(k) == k - 1 \in Task(k).inputs

NoTaskLimit ==
  Trying /\ problem.taskLimit = NoLimit /\ Stop("no task limit")

NoDirectEdge ==
  /\ Trying /\ problem.taskLimit # NoLimit
  /\ ~ DirectEdge(candidate)
  /\ Stop("no edge")

TargetDeclines ==
  /\ Trying /\ problem.taskLimit # NoLimit
  /\ DirectEdge(candidate)
  /\ candidate \notin problem.composable
  /\ Stop("target")

Composable(k) ==
  problem.taskLimit # NoLimit /\ DirectEdge(k) /\ k \in problem.composable

OverLimit ==
  /\ Trying
  /\ Composable(candidate)
  /\ ~ WithinLimits(problem, start, candidate)
  /\ Stop("limit")

(* Mutant: the scan gives up at the first trial with several outputs.      *)
MutantExtend ==
  /\ Trying
  /\ Composable(candidate)
  /\ WithinLimits(problem, start, candidate)
  /\ lastExtended' = candidate
  /\ IF OneOutput(problem, start, candidate)
       THEN bestEnd' = candidate /\ pending' = 0 /\ phase' = phase
       ELSE bestEnd' = bestEnd /\ pending' = candidate /\ phase' = "settling"
  /\ candidate' = candidate + 1
  /\ UNCHANGED <<problem, start, records, partitions>>

Extend ==
  /\ Trying
  /\ Composable(candidate)
  /\ WithinLimits(problem, start, candidate)
  /\ lastExtended' = candidate
  /\ IF OneOutput(problem, start, candidate)
       THEN bestEnd' = candidate /\ pending' = 0
       ELSE bestEnd' = bestEnd /\ pending' = candidate
  /\ candidate' = candidate + 1
  /\ UNCHANGED <<problem, start, records, partitions, phase>>

Exhausted ==
  /\ phase = "extending" /\ candidate > Count
  /\ phase' = "settling"
  /\ UNCHANGED <<problem, start, candidate, bestEnd, lastExtended, pending,
                 records, partitions>>

BoundaryReason ==
  IF pending = 0 THEN Rejected("fallback", 0) ELSE Rejected("outputs", pending)

(* Mutant: transitions past bestEnd keep what the scan recorded for them.  *)
MutantSettledRecords ==
  [k \in DOMAIN records \cup (start + 1 .. bestEnd) |->
     IF k \in start + 1 .. bestEnd THEN Composed ELSE records[k]]

SettledRecords ==
  [k \in DOMAIN records \cup (start + 1 .. lastExtended) |->
     CASE k \in start + 1 .. bestEnd        -> Composed
       [] k \in bestEnd + 1 .. lastExtended -> BoundaryReason
       [] OTHER                            -> records[k]]

(* Mutant: the next partition starts past everything the scan reached.     *)
MutantSettle ==
  /\ phase = "settling"
  /\ records' = SettledRecords
  /\ partitions' = Append(partitions, <<start, bestEnd>>)
  /\ start' = lastExtended + 1 /\ candidate' = lastExtended + 2
  /\ bestEnd' = lastExtended + 1 /\ lastExtended' = lastExtended + 1
  /\ pending' = 0
  /\ phase' = IF lastExtended = Count THEN "done" ELSE "extending"
  /\ UNCHANGED problem

Settle ==
  /\ phase = "settling"
  /\ records' = SettledRecords
  /\ partitions' = Append(partitions, <<start, bestEnd>>)
  /\ start' = bestEnd + 1 /\ candidate' = bestEnd + 2
  /\ bestEnd' = bestEnd + 1 /\ lastExtended' = bestEnd + 1
  /\ pending' = 0
  /\ phase' = IF bestEnd = Count THEN "done" ELSE "extending"
  /\ UNCHANGED problem

Done == phase = "done" /\ UNCHANGED vars

Next ==
  \/ NoTaskLimit \/ NoDirectEdge \/ TargetDeclines \/ OverLimit
  \/ Extend \/ Exhausted \/ Settle \/ Done

(* The planner is a sequential loop: it runs whenever it can.              *)
Spec == Init /\ [][Next]_vars /\ WF_vars(Next)

--------------------------------------------------------------------------------
(* Properties. *)

First(i) == partitions[i][1]
Last(i) == partitions[i][2]

TypeOK ==
  /\ problem \in Problem /\ WellFormed(problem)
  /\ start \in 1 .. Count + 1
  /\ candidate \in start + 1 .. Count + 2
  /\ bestEnd \in start .. Count + 1
  /\ lastExtended \in bestEnd .. Count + 1
  /\ pending \in 0 .. Count
  /\ DOMAIN records \subseteq 2 .. Count
  /\ \A k \in DOMAIN records : records[k] \in Record
  /\ partitions \in Seq((1 .. Count) \X (1 .. Count))
  /\ phase \in {"extending", "settling", "done"}

(* The partitions are consecutive, non-empty ranges from the first task,   *)
(* and at the end they cover the schedule: no task is dropped, repeated or *)
(* moved (ANEProgramPartition.mm:260-319).                                 *)
Tiling ==
  /\ \A i \in 1 .. Len(partitions) :
       /\ First(i) = (IF i = 1 THEN 1 ELSE Last(i - 1) + 1)
       /\ First(i) <= Last(i)
  /\ start = (IF partitions = <<>> THEN 1 ELSE Last(Len(partitions)) + 1)
  /\ phase = "done" => start = Count + 1

(* A program exposes only its last task's output, so every value that      *)
(* another program reads or the graph returns must be one: an internal     *)
(* value that escapes would be read from a surface nobody writes           *)
(* (makePartition:153-163 and the test on the trial's outputs at 300).     *)
EveryUseExposed ==
  \A i \in 1 .. Len(partitions) : \A v \in First(i) .. Last(i) :
    \/ v = Last(i)
    \/ /\ v \notin problem.finals
       /\ \A k \in 1 .. Count :
            v \in Task(k).inputs => k \in First(i) .. Last(i)

(* A partition of several tasks respects the target's limits with the true *)
(* sums, whatever NSUInteger makes of them: it reads no more external      *)
(* values than a program takes, holds no more tasks, and keeps its         *)
(* internal values in the working set (partitionLimitFailure:181-202).     *)
ComposedWithinLimits ==
  \A i \in 1 .. Len(partitions) : First(i) < Last(i) =>
    /\ Cardinality({v \in UNION {Task(k).inputs : k \in First(i) .. Last(i)} :
                      v \notin First(i) .. Last(i)}) <= MaxInputs
    /\ problem.taskLimit # NoLimit
    /\ EncodedSum(problem, First(i), Last(i)) <= problem.taskLimit
    /\ BytesSum(problem, First(i) .. Last(i) - 1) <= WorkingSet
    /\ \A k \in First(i) + 1 .. Last(i) :
         DirectEdge(k) /\ k \in problem.composable

(* The trial partitions a .. k stay extensible up to e.                    *)
Reaches(a, e) ==
  \A k \in a + 1 .. e : Composable(k) /\ WithinLimits(problem, a, k)

(* Each partition is the longest one its start allows: the scan goes on    *)
(* past trials with several outputs, and falls back to the last one that   *)
(* had a single output (lines 265-306; the design's "longest valid         *)
(* prefix").                                                               *)
LongestPrefix ==
  \A i \in 1 .. Len(partitions) : \A e \in Last(i) + 1 .. Count :
    ~ (Reaches(First(i), e) /\ OneOutput(problem, First(i), e))

(* What a declined record claims is true of the pair in its final context: *)
(* the partition that ends before the consumer.                            *)
Truthful(r, a, k) ==
  CASE r.reason = "no task limit" -> problem.taskLimit = NoLimit
    [] r.reason = "no edge"       -> ~ DirectEdge(k)
    [] r.reason = "target"        -> k \notin problem.composable
    [] r.reason = "limit"         -> ~ WithinLimits(problem, a, k)
    [] r.reason = "outputs"       -> ~ OneOutput(problem, a, k) /\ ~ OneOutput(problem, a, r.end)
    [] OTHER                      -> FALSE

(* At the end every adjacent pair has one record; it is accepted exactly   *)
(* when both tasks are in one program, and a rejection is justified by the *)
(* partition finally emitted, not by a provisional trial from an earlier   *)
(* start.  In particular the fallback text of line 313 is never used       *)
(* (ANEProgramPartition.h:45-47, lines 248-259 and 307-313).               *)
RecordsExact ==
  phase = "done" =>
    /\ DOMAIN records = 2 .. Count
    /\ \A i \in 1 .. Len(partitions) :
         /\ \A k \in First(i) + 1 .. Last(i) : records[k].accepted
         /\ i > 1 => /\ ~ records[First(i)].accepted
                     /\ Truthful(records[First(i)], First(i - 1), First(i))

================================================================================
