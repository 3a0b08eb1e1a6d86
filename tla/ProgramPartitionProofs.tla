------------------------- MODULE ProgramPartitionProofs -------------------------
(* Proofs about ProgramPartition for every planning problem the assumptions *)
(* of that module allow.  Sums and limits stay opaque: what is proved does  *)
(* not depend on what the limits are.  The second part is about the other   *)
(* planner, MemoryPlanner, whose names are different throughout.            *)
EXTENDS ProgramPartition, MemoryPlanner, FiniteSetTheorems, TLAPS

--------------------------------------------------------------------------------
(* The inductive invariant.                                                 *)

Justified(r, a, k) == ~ r.accepted /\ Truthful(r, a, k)

(* What the scan knows about the trial partitions that begin at start.      *)
Scan ==
  /\ candidate = lastExtended + 1
  /\ pending = IF lastExtended = bestEnd THEN 0 ELSE lastExtended
  /\ phase # "done" => lastExtended <= Count
  /\ bestEnd > start => OneOutput(problem, start, bestEnd)
  /\ \A e \in bestEnd + 1 .. lastExtended : ~ OneOutput(problem, start, e)

(* Why the scan stopped, and what it recorded there.                        *)
Stopped ==
  phase = "settling" /\ lastExtended < Count =>
    /\ ~ (Composable(lastExtended + 1)
            /\ WithinLimits(problem, start, lastExtended + 1))
    /\ lastExtended + 1 \in DOMAIN records
    /\ Justified(records[lastExtended + 1], start, lastExtended + 1)

(* Emitted partitions lie before start and expose one output.               *)
Emitted ==
  \A i \in 1 .. Len(partitions) :
    /\ Last(i) < start
    /\ First(i) < Last(i) => OneOutput(problem, First(i), Last(i))

(* The records up to start are final.                                       *)
Recorded ==
  /\ \A k \in 2 .. Count : k <= start => k \in DOMAIN records
  /\ \A i \in 1 .. Len(partitions) : \A k \in First(i) + 1 .. Last(i) :
       records[k].accepted
  /\ \A i \in 2 .. Len(partitions) :
       Justified(records[First(i)], First(i - 1), First(i))
  /\ partitions # <<>> /\ start <= Count =>
       Justified(records[start], First(Len(partitions)), start)

IInv ==
  /\ TypeOK /\ Tiling /\ Scan /\ Stopped /\ Emitted /\ Recorded /\ LongestPrefix

--------------------------------------------------------------------------------
(* The task positions are natural numbers.                                  *)
LEMMA CountType == problem \in Problem => Count \in Nat
BY DEF Problem, Count

(* The initial state satisfies the invariant: nothing is emitted, and the   *)
(* trial is the first task.                                                 *)
LEMMA InitInv == Init => IInv
<1> SUFFICES ASSUME Init PROVE IInv
  OBVIOUS
<1>1. problem \in Problem /\ WellFormed(problem) /\ Count \in Nat
  BY ProblemsAssumption, CountType DEF Init, Begin
<1>2. TypeOK
  BY <1>1 DEF Init, Begin, TypeOK
<1>3. Tiling /\ Scan /\ Stopped /\ Emitted /\ Recorded /\ LongestPrefix
  BY <1>1 DEF Init, Begin, Tiling, Scan, Stopped, Emitted, Recorded, LongestPrefix
<1> QED
  BY <1>2, <1>3 DEF IInv

(* The ends of an emitted partition are positions before start.             *)
LEMMA Positions ==
  ASSUME IInv, NEW i \in 1 .. Len(partitions)
  PROVE  /\ First(i) \in 1 .. Count /\ Last(i) \in 1 .. Count
         /\ First(i) <= Last(i) /\ Last(i) < start
<1>1. partitions[i] \in (1 .. Count) \X (1 .. Count)
  BY DEF IInv, TypeOK
<1> QED
  BY <1>1 DEF IInv, Tiling, Emitted, First, Last

(* A step that changes neither problem, start nor the emitted partitions    *)
(* and leaves the records up to start alone keeps what was emitted.         *)
LEMMA EmittedKept ==
  ASSUME IInv, UNCHANGED <<problem, start, partitions>>,
         \A k \in DOMAIN records : k <= start =>
           k \in DOMAIN records' /\ records'[k] = records[k],
         phase' # "done"
  PROVE  Tiling' /\ Emitted' /\ Recorded' /\ LongestPrefix'
<1>1. Tiling'
  BY DEF IInv, Tiling, First, Last, Count
<1>2. Emitted'
  BY DEF IInv, Emitted, First, Last
<1>3. LongestPrefix'
  BY DEF IInv, LongestPrefix, First, Last, Count, Reaches, Composable,
         DirectEdge, Task
<1>4. Recorded'
  <2> DEFINE P(i) == partitions[i]
  <2>0. /\ Count \in Nat /\ start \in Nat /\ Len(partitions) \in Nat
        /\ Count' = Count /\ partitions' = partitions /\ problem' = problem
        /\ start' = start
    BY CountType DEF IInv, TypeOK, Count
  <2>1. \A k \in 2 .. Count : k <= start =>
          k \in DOMAIN records' /\ records'[k] = records[k]
    BY DEF IInv, Recorded
  <2>2. \A k \in 2 .. Count' : k <= start' => k \in DOMAIN records'
    BY <2>0, <2>1
  <2>3. ASSUME NEW i \in 1 .. Len(partitions),
               NEW k \in P(i)[1] + 1 .. P(i)[2]
        PROVE  records'[k].accepted
    <3>1. /\ P(i)[1] \in 1 .. Count /\ P(i)[2] \in 1 .. Count
          /\ P(i)[2] < start
      BY Positions DEF First, Last
    <3>2. k \in 2 .. Count /\ k <= start
      BY <3>1, <2>0
    <3>3. records[k].accepted
      BY DEF IInv, Recorded, First, Last
    <3> QED
      BY <2>1, <3>2, <3>3
  <2>4. ASSUME NEW i \in 2 .. Len(partitions)
        PROVE  Justified(records'[P(i)[1]], P(i - 1)[1], P(i)[1])
    <3>1. /\ P(i)[1] \in 1 .. Count /\ P(i)[1] < start
          /\ P(i)[1] = P(i - 1)[2] + 1
          /\ P(i - 1)[2] \in 1 .. Count
      <4>1. i \in 1 .. Len(partitions) /\ i - 1 \in 1 .. Len(partitions)
              /\ i # 1
        BY <2>0
      <4>2. /\ P(i)[1] \in 1 .. Count /\ P(i)[2] < start
            /\ P(i)[1] <= P(i)[2] /\ P(i)[2] \in 1 .. Count
            /\ P(i - 1)[2] \in 1 .. Count
        BY <4>1, Positions DEF First, Last
      <4>3. P(i)[1] = P(i - 1)[2] + 1
        BY <4>1 DEF IInv, Tiling, First, Last
      <4> QED
        BY <4>2, <4>3, <2>0
    <3>2. records'[P(i)[1]] = records[P(i)[1]]
      BY <3>1, <2>0, <2>1
    <3>3. Justified(records[P(i)[1]], P(i - 1)[1], P(i)[1])
      BY DEF IInv, Recorded, First
    <3> QED
      BY <3>2, <3>3
  <2>5. ASSUME partitions # <<>>, start <= Count
        PROVE  Justified(records'[start], P(Len(partitions))[1], start)
    <3>1. start >= 2
      <4>1. Len(partitions) \in 1 .. Len(partitions)
        BY <2>5, <2>0 DEF IInv, TypeOK
      <4> QED
        BY <4>1, <2>0, Positions
    <3>2. records'[start] = records[start]
      BY <3>1, <2>0, <2>1, <2>5
    <3>3. Justified(records[start], P(Len(partitions))[1], start)
      BY <2>5 DEF IInv, Recorded, First
    <3> QED
      BY <3>2, <3>3
  <2> QED
    BY <2>0, <2>2, <2>3, <2>4, <2>5
    DEF Recorded, Justified, Truthful, DirectEdge, Task, First, Last
<1> QED
  BY <1>1, <1>2, <1>3, <1>4

--------------------------------------------------------------------------------
(* The type facts the step lemmas use.                                      *)
LEMMA Ranges ==
  ASSUME IInv
  PROVE  /\ Count \in Nat /\ start \in 1 .. Count + 1
         /\ bestEnd \in start .. Count + 1 /\ lastExtended \in bestEnd .. Count + 1
         /\ candidate = lastExtended + 1
         /\ phase # "done" => lastExtended <= Count
BY CountType DEF IInv, TypeOK, Scan

(* Leaving the loop with a reason that is true of the candidate.            *)
LEMMA StopStep ==
  ASSUME IInv, Trying, NEW reason \in Reasons, Stop(reason),
         Truthful(Rejected(reason, 0), start, candidate),
         ~ (Composable(candidate) /\ WithinLimits(problem, start, candidate))
  PROVE  IInv'
<1>1. \A k \in DOMAIN records : k <= start =>
        k \in DOMAIN records' /\ records'[k] = records[k]
  BY Ranges DEF Stop
<1>2. Tiling' /\ Emitted' /\ Recorded' /\ LongestPrefix'
  BY <1>1, EmittedKept DEF Stop
<1>3. TypeOK'
  <2>1. Rejected(reason, 0) \in Record
    BY DEF Rejected, Record
  <2>2. candidate \in 2 .. Count
    BY Ranges DEF Trying
  <2>3. DOMAIN records' = DOMAIN records \cup {candidate}
    BY DEF Stop
  <2>4. \A k \in DOMAIN records' : records'[k] \in Record
    BY <2>1 DEF Stop, IInv, TypeOK
  <2>5. phase' = "settling" /\ Count' = Count
    BY DEF Stop, Count
  <2>6. DOMAIN records' \subseteq 2 .. Count
    BY <2>2, <2>3 DEF IInv, TypeOK
  <2> QED
    BY <2>4, <2>5, <2>6 DEF Stop, IInv, TypeOK
<1>4. Scan'
  BY DEF Stop, IInv, Scan, Count, Trying
<1>5. Stopped'
  <2>1. records'[candidate] = Rejected(reason, 0) /\ candidate \in DOMAIN records'
    BY DEF Stop
  <2>2. candidate = lastExtended + 1 /\ lastExtended' = lastExtended
          /\ start' = start /\ problem' = problem
    BY Ranges DEF Stop
  <2>3. /\ ~ (Composable(candidate) /\ WithinLimits(problem, start, candidate))
        /\ Justified(Rejected(reason, 0), start, candidate)
    BY DEF Justified, Rejected
  <2> DEFINE R == Rejected(reason, 0)
  <2>4. R = R'
    BY DEF Rejected
  <2>5. lastExtended' + 1 = candidate /\ records'[candidate] = R
    BY <2>1, <2>2
  <2> HIDE DEF R
  <2>6. Justified(R, start, candidate)
    BY <2>3 DEF R
  <2>7. Stopped'
    BY <2>1, <2>2, <2>3, <2>5, <2>6 DEF Stopped, Justified, Truthful, DirectEdge,
       Task, Composable
  <2> QED
    BY <2>7
<1> QED
  BY <1>2, <1>3, <1>4, <1>5 DEF IInv

(* A trial within the limits extends the scan.                              *)
LEMMA ExtendStep == ASSUME IInv, Extend PROVE IInv'
<1>1. Tiling' /\ Emitted' /\ Recorded' /\ LongestPrefix'
  BY EmittedKept DEF Extend, Trying
<1>2. /\ Count' = Count /\ candidate <= Count /\ problem' = problem
      /\ start' = start /\ phase' = "extending" /\ records' = records
      /\ lastExtended' = candidate /\ candidate' = candidate + 1
      /\ partitions' = partitions
  BY DEF Extend, Trying, Count
<1>3. TypeOK' /\ Scan'
  <2>1. CASE OneOutput(problem, start, candidate)
    <3>1. bestEnd' = candidate /\ pending' = 0
      BY <2>1 DEF Extend
    <3>2. TypeOK'
      BY <1>2, <3>1, Ranges DEF IInv, TypeOK
    <3>3. Scan'
      BY <1>2, <3>1, <2>1, Ranges DEF Scan
    <3> QED
      BY <3>2, <3>3
  <2>2. CASE ~ OneOutput(problem, start, candidate)
    <3>1. bestEnd' = bestEnd /\ pending' = candidate
      BY <2>2 DEF Extend
    <3>2. TypeOK'
      BY <1>2, <3>1, Ranges DEF IInv, TypeOK
    <3>3. \A e \in bestEnd + 1 .. candidate : ~ OneOutput(problem, start, e)
      BY <2>2, Ranges DEF IInv, Scan
    <3>4. Scan'
      BY <1>2, <3>1, <3>3, Ranges DEF IInv, Scan
    <3> QED
      BY <3>2, <3>4
  <2> QED
    BY <2>1, <2>2
<1>4. Stopped'
  BY <1>2 DEF Stopped
<1> QED
  BY <1>1, <1>3, <1>4 DEF IInv

(* Running out of tasks.                                                    *)
LEMMA ExhaustedStep == ASSUME IInv, Exhausted PROVE IInv'
<1>1. Tiling' /\ Emitted' /\ Recorded' /\ LongestPrefix'
  BY EmittedKept DEF Exhausted
<1>2. TypeOK' /\ Scan' /\ Stopped'
  BY Ranges DEF Exhausted, IInv, TypeOK, Scan, Stopped, Count
<1> QED
  BY <1>1, <1>2 DEF IInv

--------------------------------------------------------------------------------
(* Emitting a partition.                                                    *)

(* What Settle makes of the records.                                        *)
LEMMA SettleRecords ==
  ASSUME IInv, Settle
  PROVE  /\ \A k \in DOMAIN records : k <= start =>
              k \in DOMAIN records' /\ records'[k] = records[k]
         /\ \A k \in start + 1 .. bestEnd :
              k \in DOMAIN records' /\ records'[k] = Composed
         /\ \A k \in bestEnd + 1 .. lastExtended :
              /\ k \in DOMAIN records'
              /\ records'[k] = Rejected("outputs", lastExtended)
         /\ \A k \in DOMAIN records : k > lastExtended =>
              k \in DOMAIN records' /\ records'[k] = records[k]
         /\ DOMAIN records' = DOMAIN records \cup (start + 1 .. lastExtended)
<1>1. records' = SettledRecords
  BY DEF Settle
<1>2. \A k \in DOMAIN records : k \in Nat
  BY Ranges DEF IInv, TypeOK
<1>3. ASSUME bestEnd < lastExtended PROVE BoundaryReason = Rejected("outputs", lastExtended)
  BY <1>3, Ranges DEF IInv, Scan, BoundaryReason
<1>4. ASSUME NEW k \in start + 1 .. lastExtended
      PROVE  k \in DOMAIN records' /\ records'[k] = IF k <= bestEnd THEN Composed ELSE BoundaryReason
  BY <1>1, Ranges DEF SettledRecords
<1>5. ASSUME NEW k \in DOMAIN records, k <= start \/ k > lastExtended
      PROVE  k \in DOMAIN records' /\ records'[k] = records[k]
  BY <1>1, <1>2, <1>5, Ranges DEF SettledRecords
<1>6. DOMAIN records' = DOMAIN records \cup (start + 1 .. lastExtended)
  BY <1>1 DEF SettledRecords
<1> QED
  BY <1>3, <1>4, <1>5, <1>6, Ranges

(* The emitted sequence grows by the pair of start and bestEnd.             *)
LEMMA SettlePartitions ==
  ASSUME IInv, Settle
  PROVE  /\ Len(partitions) \in Nat /\ Len(partitions)' = Len(partitions) + 1
         /\ \A i \in 1 .. Len(partitions) : partitions'[i] = partitions[i]
         /\ partitions'[Len(partitions) + 1] = <<start, bestEnd>>
         /\ partitions' \in Seq((1 .. Count) \X (1 .. Count))
         /\ start <= bestEnd /\ bestEnd <= Count
<1>1. start \in 1 .. Count /\ bestEnd \in 1 .. Count /\ start <= bestEnd
  BY Ranges DEF Settle
<1>2. <<start, bestEnd>> \in (1 .. Count) \X (1 .. Count)
  BY <1>1
<1> QED
  BY <1>1, <1>2, Ranges DEF Settle, IInv, TypeOK

LEMMA SettleStep == ASSUME IInv, Settle PROVE IInv'
<1> DEFINE n == Len(partitions)
<1>0. /\ problem' = problem /\ Count' = Count /\ Count \in Nat
      /\ start' = bestEnd + 1 /\ candidate' = bestEnd + 2
      /\ bestEnd' = bestEnd + 1 /\ lastExtended' = bestEnd + 1 /\ pending' = 0
      /\ phase' = (IF bestEnd = Count THEN "done" ELSE "extending")
      /\ start \in 1 .. Count /\ bestEnd \in start .. Count
      /\ lastExtended \in bestEnd .. Count /\ phase = "settling"
  BY Ranges DEF Settle, Count
<1>1. /\ n \in Nat /\ Len(partitions') = n + 1
      /\ \A i \in 1 .. n : partitions'[i] = partitions[i]
      /\ partitions'[n + 1] = <<start, bestEnd>>
      /\ partitions'[n + 1][1] = start /\ partitions'[n + 1][2] = bestEnd
  <2>1. /\ n \in Nat /\ Len(partitions') = n + 1
        /\ \A i \in 1 .. n : partitions'[i] = partitions[i]
        /\ partitions'[n + 1] = <<start, bestEnd>>
    BY SettlePartitions
  <2> QED
    BY <2>1
<1>2. \A i \in 1 .. n + 1 : i \in 1 .. n \/ i = n + 1
  BY <1>1
<1>3. partitions' # <<>>
  BY <1>1
<1>4. TypeOK'
  <2>1. Composed \in Record /\ Rejected("outputs", lastExtended) \in Record
    BY <1>0 DEF Composed, Rejected, Record, Reasons
  <2>2. DOMAIN records' \subseteq 2 .. Count
    BY <1>0, SettleRecords DEF IInv, TypeOK
  <2>3. ASSUME NEW k \in DOMAIN records' PROVE records'[k] \in Record
    <3>1. /\ k \in 2 .. Count
          /\ k \in DOMAIN records \/ k \in start + 1 .. lastExtended
      BY <2>2, SettleRecords
    <3>2. CASE k \in start + 1 .. bestEnd
      BY <3>2, <2>1, SettleRecords
    <3>3. CASE k \in bestEnd + 1 .. lastExtended
      BY <3>3, <2>1, SettleRecords
    <3>4. CASE k <= start \/ k > lastExtended
      <4>1. k \in DOMAIN records
        BY <3>1, <3>4, <1>0
      <4>2. records'[k] = records[k]
        BY <4>1, <3>4, SettleRecords
      <4> QED
        BY <4>1, <4>2 DEF IInv, TypeOK
    <3> QED
      BY <3>1, <3>2, <3>3, <3>4, <1>0
  <2> QED
    BY <2>2, <2>3, <1>0, SettlePartitions DEF IInv, TypeOK
<1>5. Tiling'
  <2>1. start = IF partitions = <<>> THEN 1 ELSE Last(n) + 1
    BY DEF IInv, Tiling
  <2>2. partitions = <<>> <=> n = 0
    BY DEF IInv, TypeOK
  <2>3. ASSUME NEW i \in 1 .. n + 1
        PROVE  /\ partitions'[i][1] = (IF i = 1 THEN 1 ELSE partitions'[i - 1][2] + 1)
               /\ partitions'[i][1] <= partitions'[i][2]
    <3>1. CASE i \in 1 .. n
      BY <3>1, <1>1 DEF IInv, Tiling, First, Last
    <3>2. CASE i = n + 1
      BY <3>2, <1>0, <1>1, <2>1, <2>2 DEF Last
    <3> QED
      BY <3>1, <3>2, <1>2
  <2> QED
    BY <2>3, <1>0, <1>1, <1>3 DEF Tiling, First, Last
<1>6. Scan' /\ Stopped'
  BY <1>0 DEF Scan, Stopped
<1>7. Emitted'
  <2>1. ASSUME NEW i \in 1 .. n + 1
        PROVE  /\ partitions'[i][2] < bestEnd + 1
               /\ partitions'[i][1] < partitions'[i][2] =>
                    OneOutput(problem, partitions'[i][1], partitions'[i][2])
    <3>1. CASE i \in 1 .. n
      <4>1. Last(i) \in 1 .. Count /\ Last(i) < start
        BY <3>1, Positions
      <4> QED
        BY <3>1, <4>1, <1>0, <1>1 DEF IInv, Emitted, First, Last
    <3>2. CASE i = n + 1
      BY <3>2, <1>0, <1>1 DEF IInv, Scan
    <3> QED
      BY <3>1, <3>2, <1>2
  <2> QED
    BY <2>1, <1>0, <1>1 DEF Emitted, First, Last
<1>8. LongestPrefix'
  <2>1. ASSUME NEW e \in bestEnd + 1 .. Count, Reaches(start, e),
               OneOutput(problem, start, e)
        PROVE  FALSE
    <3>1. e > lastExtended
      BY <2>1, <1>0 DEF IInv, Scan
    <3>2. lastExtended + 1 \in start + 1 .. e /\ lastExtended < Count
      BY <3>1, <1>0
    <3>3. Composable(lastExtended + 1) /\ WithinLimits(problem, start, lastExtended + 1)
      BY <2>1, <3>2 DEF Reaches
    <3> QED
      BY <3>2, <3>3, <1>0 DEF IInv, Stopped
  <2>2. ASSUME NEW i \in 1 .. n + 1, NEW e \in partitions'[i][2] + 1 .. Count
        PROVE  ~ (/\ Reaches(partitions'[i][1], e)
                  /\ OneOutput(problem, partitions'[i][1], e))
    <3>1. CASE i \in 1 .. n
      BY <3>1, <1>1 DEF IInv, LongestPrefix, First, Last
    <3>2. CASE i = n + 1
      BY <3>2, <1>1, <2>1
    <3> QED
      BY <3>1, <3>2, <1>2
  <2> QED
    BY <2>2, <1>0, <1>1 DEF LongestPrefix, First, Last, Reaches, Composable,
       DirectEdge, Task
<1>9. Recorded'
  <2> DEFINE P(i) == partitions'[i]
  <2>1. ASSUME NEW k \in 2 .. Count, k <= bestEnd + 1
        PROVE  k \in DOMAIN records'
    <3>1. CASE k <= start
      BY <3>1, SettleRecords DEF IInv, Recorded
    <3>2. CASE k \in start + 1 .. lastExtended
      BY <3>2, SettleRecords
    <3>3. CASE k = lastExtended + 1
      BY <3>3, <1>0, SettleRecords DEF IInv, Stopped
    <3> QED
      BY <2>1, <3>1, <3>2, <3>3, <1>0
  <2>2. ASSUME NEW i \in 1 .. n + 1, NEW k \in P(i)[1] + 1 .. P(i)[2]
        PROVE  records'[k].accepted
    <3>1. CASE i \in 1 .. n
      <4>1. /\ First(i) \in 1 .. Count /\ Last(i) \in 1 .. Count
            /\ Last(i) < start /\ P(i)[1] = First(i) /\ P(i)[2] = Last(i)
        BY <3>1, <1>1, Positions DEF First, Last
      <4>2. k \in 2 .. Count /\ k <= start
        BY <4>1, <1>0
      <4>3. records[k].accepted
        BY <3>1, <4>1 DEF IInv, Recorded
      <4>4. k \in DOMAIN records
        BY <4>2 DEF IInv, Recorded
      <4> QED
        BY <4>2, <4>3, <4>4, SettleRecords
    <3>2. CASE i = n + 1
      <4>1. records'[k] = Composed
        BY <3>2, <1>1, SettleRecords
      <4> QED
        BY <4>1 DEF Composed
    <3> QED
      BY <3>1, <3>2, <1>2
  <2>3. ASSUME NEW i \in 2 .. n + 1
        PROVE  Justified(records'[P(i)[1]], P(i - 1)[1], P(i)[1])
    <3>1. CASE i \in 2 .. n
      <4>1. i \in 1 .. n /\ i - 1 \in 1 .. n /\ i # 1
        BY <3>1, <1>1
      <4>2. /\ First(i) \in 1 .. Count /\ First(i) < start
            /\ First(i) = Last(i - 1) + 1 /\ Last(i - 1) \in 1 .. Count
            /\ P(i)[1] = First(i) /\ P(i - 1)[1] = First(i - 1)
        <5>1. /\ First(i) \in 1 .. Count /\ Last(i) \in 1 .. Count
              /\ First(i) <= Last(i) /\ Last(i) < start
          BY <4>1, Positions
        <5>2. Last(i - 1) \in 1 .. Count
          BY <4>1, Positions
        <5>3. First(i) = Last(i - 1) + 1
          BY <4>1 DEF IInv, Tiling
        <5> QED
          BY <4>1, <5>1, <5>2, <5>3, <1>0, <1>1 DEF First
      <4>3. First(i) \in 2 .. Count /\ First(i) <= start
        BY <4>2, <1>0
      <4>4. records'[First(i)] = records[First(i)]
        <5>1. First(i) \in DOMAIN records
          BY <4>3 DEF IInv, Recorded
        <5> QED
          BY <5>1, <4>3, SettleRecords
      <4>5. Justified(records[First(i)], First(i - 1), First(i))
        BY <3>1 DEF IInv, Recorded
      <4> QED
        BY <4>2, <4>4, <4>5
    <3>2. CASE i = n + 1
      <4>1. n \in 1 .. n /\ n >= 1 /\ i - 1 = n /\ partitions # <<>>
        BY <3>2, <1>1 DEF IInv, TypeOK
      <4>2. Last(n) \in 1 .. Count /\ Last(n) < start /\ P(n)[1] = First(n)
        BY <4>1, <1>1, Positions DEF First
      <4>3. start \in 2 .. Count
        BY <4>2, <1>0
      <4>4. records'[start] = records[start]
        <5>1. start \in DOMAIN records
          BY <4>3 DEF IInv, Recorded
        <5> QED
          BY <5>1, <4>3, SettleRecords
      <4>5. Justified(records[start], First(n), start)
        BY <4>1, <1>0 DEF IInv, Recorded
      <4> QED
        BY <3>2, <4>1, <4>2, <4>4, <4>5, <1>1
    <3> QED
      BY <3>1, <3>2, <1>1
  <2>4. ASSUME bestEnd + 1 <= Count
        PROVE  Justified(records'[bestEnd + 1], start, bestEnd + 1)
    <3>1. CASE bestEnd < lastExtended
      <4>1. records'[bestEnd + 1] = Rejected("outputs", lastExtended)
        BY <3>1, <1>0, SettleRecords
      <4>2. /\ ~ OneOutput(problem, start, bestEnd + 1)
            /\ ~ OneOutput(problem, start, lastExtended)
        BY <3>1, <1>0 DEF IInv, Scan
      <4> QED
        BY <4>1, <4>2 DEF Justified, Truthful, Rejected
    <3>2. CASE bestEnd = lastExtended
      <4>1. /\ lastExtended + 1 \in DOMAIN records
            /\ Justified(records[lastExtended + 1], start, lastExtended + 1)
        BY <2>4, <3>2, <1>0 DEF IInv, Stopped
      <4>2. records'[lastExtended + 1] = records[lastExtended + 1]
        BY <4>1, <1>0, SettleRecords
      <4> QED
        BY <3>2, <4>1, <4>2
    <3> QED
      BY <3>1, <3>2, <1>0
  <2> QED
    BY <1>0, <1>1, <2>1, <2>2, <2>3, <2>4
    DEF Recorded, Justified, Truthful, DirectEdge, Task, First, Last
<1> QED
  BY <1>4, <1>5, <1>6, <1>7, <1>8, <1>9 DEF IInv

--------------------------------------------------------------------------------
(* Theorems.                                                                *)

(* Every step of the planner preserves the invariant, one action at a time. *)
THEOREM Inductive == Spec => []IInv
<1>1. ASSUME IInv, [Next]_vars PROVE IInv'
  <2>NoTaskLimit. CASE NoTaskLimit
    <3>1. /\ Truthful(Rejected("no task limit", 0), start, candidate)
          /\ ~ Composable(candidate)
      BY <2>NoTaskLimit DEF NoTaskLimit, Truthful, Rejected, Composable
    <3> QED
      BY <1>1, <2>NoTaskLimit, <3>1, StopStep DEF NoTaskLimit, Reasons
  <2>NoDirectEdge. CASE NoDirectEdge
    <3>1. /\ Truthful(Rejected("no edge", 0), start, candidate)
          /\ ~ Composable(candidate)
      BY <2>NoDirectEdge DEF NoDirectEdge, Truthful, Rejected, Composable
    <3> QED
      BY <1>1, <2>NoDirectEdge, <3>1, StopStep DEF NoDirectEdge, Reasons
  <2>TargetDeclines. CASE TargetDeclines
    <3>1. /\ Truthful(Rejected("target", 0), start, candidate)
          /\ ~ Composable(candidate)
      BY <2>TargetDeclines DEF TargetDeclines, Truthful, Rejected, Composable
    <3> QED
      BY <1>1, <2>TargetDeclines, <3>1, StopStep DEF TargetDeclines, Reasons
  <2>OverLimit. CASE OverLimit
    <3>1. /\ Truthful(Rejected("limit", 0), start, candidate)
          /\ ~ WithinLimits(problem, start, candidate)
      BY <2>OverLimit DEF OverLimit, Truthful, Rejected
    <3> QED
      BY <1>1, <2>OverLimit, <3>1, StopStep DEF OverLimit, Reasons
  <2>Extend. CASE Extend
    BY <1>1, <2>Extend, ExtendStep
  <2>Exhausted. CASE Exhausted
    BY <1>1, <2>Exhausted, ExhaustedStep
  <2>Settle. CASE Settle
    BY <1>1, <2>Settle, SettleStep
  <2>Stutter. CASE UNCHANGED vars
    BY <1>1, <2>Stutter DEF vars, IInv, TypeOK, Tiling, Scan, Stopped, Emitted, Recorded,
       LongestPrefix, Count, Task, First, Last, Reaches, Composable, DirectEdge,
       Justified, Truthful
  <2> QED
    BY <1>1, <2>NoTaskLimit, <2>NoDirectEdge, <2>TargetDeclines, <2>OverLimit,
       <2>Extend, <2>Exhausted, <2>Settle, <2>Stutter DEF Next, Done
<1> QED
  BY <1>1, InitInv, PTL DEF Spec

(* The planner's variables keep their types.                                *)
THEOREM TypeCorrect == Spec => []TypeOK
<1>1. IInv => TypeOK
  BY DEF IInv
<1> QED
  BY <1>1, Inductive, PTL

(* The emitted partitions tile the schedule, for every problem.             *)
THEOREM TilingHolds == Spec => []Tiling
<1>1. IInv => Tiling
  BY DEF IInv
<1> QED
  BY <1>1, Inductive, PTL

(* Every partition is the longest its start allows.                         *)
THEOREM LongestPrefixHolds == Spec => []LongestPrefix
<1>1. IInv => LongestPrefix
  BY DEF IInv
<1> QED
  BY <1>1, Inductive, PTL

(* Every trial within the present one and within an emitted partition was  *)
(* accepted: its tasks compose and it keeps the limits.                     *)
Reached ==
  /\ Reaches(start, lastExtended)
  /\ \A i \in 1 .. Len(partitions) : Reaches(First(i), Last(i))

(* So each task in them reads the one before it.                            *)
Chained ==
  /\ \A k \in start + 1 .. lastExtended : DirectEdge(k)
  /\ \A i \in 1 .. Len(partitions) : \A k \in First(i) + 1 .. Last(i) : DirectEdge(k)

(* What is reached depends on the problem and the ranges.                   *)
LEMMA ReachesKept ==
  ASSUME problem' = problem, NEW a, NEW e, Reaches(a, e)
  PROVE  \A k \in a + 1 .. e :
           Composable(k)' /\ WithinLimits(problem', a, k)
  BY DEF Reaches, Composable, DirectEdge, Task

LEMMA ReachedKept ==
  ASSUME problem' = problem, partitions' = partitions,
         start' = start, NEW e, lastExtended' = e, Reaches(start, e), Reached
  PROVE  Reached'
<1>1. \A i : First(i)' = First(i) /\ Last(i)' = Last(i)
  BY DEF First, Last
<1>2. Reaches(start, lastExtended)'
  BY ReachesKept DEF Reaches
<1>3. \A i \in 1 .. Len(partitions) : Reaches(First(i), Last(i))'
  BY <1>1, ReachesKept DEF Reached, Reaches
<1> QED
  BY <1>2, <1>3 DEF Reached

(* A new trial has no pair of tasks in it yet.                              *)
LEMMA EmptyRun == \A x \in Nat : x + 1 .. x = {}
OBVIOUS

(* Only Extend lengthens the trial, with a candidate it has accepted; a     *)
(* partition is emitted from the trial.                                     *)
LEMMA ReachedStep == ASSUME IInv, Reached, [Next]_vars PROVE Reached'
<1>1. CASE Extend
  <2>1. /\ lastExtended' = candidate /\ start' = start /\ problem' = problem
        /\ partitions' = partitions /\ Composable(candidate)
        /\ WithinLimits(problem, start, candidate)
        /\ candidate = lastExtended + 1
    BY <1>1 DEF Extend, IInv, Scan
  <2>2. ASSUME NEW k \in start + 1 .. candidate
        PROVE  Composable(k) /\ WithinLimits(problem, start, k)
    <3>1. CASE k = candidate
      BY <2>1, <3>1
    <3>2. CASE k # candidate
      BY <2>1, <3>2, Ranges DEF Reached, Reaches
    <3> QED
      BY <3>1, <3>2
  <2>3. Reaches(start, candidate)
    BY <2>2 DEF Reaches
  <2> QED
    BY <2>1, <2>3, ReachedKept
<1>2. CASE Settle
  <2>1. /\ Len(partitions) \in Nat /\ Len(partitions') = Len(partitions) + 1
        /\ \A i \in 1 .. Len(partitions) : partitions'[i] = partitions[i]
        /\ partitions'[Len(partitions) + 1] = <<start, bestEnd>>
    BY <1>2, SettlePartitions
  <2>2. /\ lastExtended' = start' /\ problem' = problem /\ start' \in Nat
    BY <1>2, Ranges DEF Settle
  <2>3. Reaches(start, lastExtended)'
    BY <2>2, EmptyRun DEF Reaches
  <2>4. Reaches(start, bestEnd)
    BY Ranges DEF Reached, Reaches
  <2>5. ASSUME NEW i \in 1 .. Len(partitions') PROVE Reaches(First(i), Last(i))'
    <3>1. CASE i \in 1 .. Len(partitions)
      <4>1. First(i)' = First(i) /\ Last(i)' = Last(i) /\ Reaches(First(i), Last(i))
        BY <3>1, <2>1 DEF Reached, First, Last
      <4> QED
        BY <4>1, <2>2, ReachesKept DEF Reaches
    <3>2. CASE i = Len(partitions) + 1
      <4>1. First(i)' = start /\ Last(i)' = bestEnd
        BY <3>2, <2>1 DEF First, Last
      <4> QED
        BY <4>1, <2>2, <2>4, ReachesKept DEF Reaches
    <3> QED
      BY <3>1, <3>2, <2>1
  <2> QED
    BY <2>3, <2>5 DEF Reached
<1>3. CASE UNCHANGED <<problem, start, lastExtended, partitions>>
  <2>1. Reaches(start, lastExtended)
    BY DEF Reached
  <2> QED
    BY <1>3, <2>1, ReachedKept
<1> QED
  BY <1>1, <1>2, <1>3 DEF Next, Done, vars, NoTaskLimit, NoDirectEdge, TargetDeclines,
     OverLimit, Exhausted, Stop

LEMMA ReachedHolds == Spec => []Reached
<1>1. Init => Reached
  BY DEF Init, Begin, Reached, Reaches
<1>2. IInv /\ Reached /\ [Next]_vars => Reached'
  BY ReachedStep
<1> QED
  BY <1>1, <1>2, Inductive, PTL DEF Spec

LEMMA ChainedHolds == Spec => []Chained
<1>1. Reached => Chained
  BY DEF Reached, Reaches, Chained, Composable
<1> QED
  BY <1>1, ReachedHolds, PTL

(* A chain of live tasks whose boundary is one output has its last task's   *)
(* output there: no task of the chain can read that value, so it is read    *)
(* outside, or returned.                                                    *)
LEMMA OnlyLastEscapes ==
  ASSUME NEW p \in Problem, WellFormed(p),
         NEW a \in 1 .. Len(p.tasks), NEW b \in a .. Len(p.tasks),
         \A k \in a + 1 .. b : k - 1 \in p.tasks[k].inputs,
         OneOutput(p, a, b), NEW v \in a .. b, v # b
  PROVE  /\ v \notin p.finals
         /\ \A k \in 1 .. Len(p.tasks) : v \in p.tasks[k].inputs => k \in a .. b
<1>0. Len(p.tasks) \in Nat
  BY DEF Problem
<1>1. b \in BoundaryOutputs(p, a, b)
  <2>1. b \in 1 .. Len(p.tasks) /\ b \in a .. b
    BY <1>0
  <2>2. ASSUME NEW c \in 1 .. Len(p.tasks), b \in p.tasks[c].inputs
        PROVE  ReadOutside(p, b, a, b)
    <3>1. ASSUME c \in a .. b PROVE FALSE
      <4>1. b \in c .. Len(p.tasks) /\ \A j \in c + 1 .. b : j - 1 \in p.tasks[j].inputs
        BY <3>1, <1>0
      <4> QED
        BY <4>1, <2>2 DEF WellFormed
    <3> QED
      BY <2>2, <3>1 DEF ReadOutside
  <2> QED
    BY <2>1, <2>2 DEF WellFormed, BoundaryOutputs
<1>2. v \notin BoundaryOutputs(p, a, b)
  <2>1. IsFiniteSet(BoundaryOutputs(p, a, b))
    <3>1. IsFiniteSet(a .. b)
      BY <1>0, FS_Interval
    <3> QED
      BY <3>1, FS_Subset DEF BoundaryOutputs
  <2>2. PICK x : BoundaryOutputs(p, a, b) = {x}
    BY <2>1, FS_Singleton DEF OneOutput
  <2> QED
    BY <2>2, <1>1
<1> QED
  BY <1>2, <1>0 DEF BoundaryOutputs, ReadOutside

(* Values used outside a partition, or returned, are its last output.       *)
THEOREM UsesExposed == Spec => []EveryUseExposed
<1>1. IInv /\ Chained => EveryUseExposed
  <2> SUFFICES ASSUME IInv, Chained, NEW i \in 1 .. Len(partitions),
                      NEW v \in First(i) .. Last(i), v # Last(i)
               PROVE  /\ v \notin problem.finals
                      /\ \A k \in 1 .. Count :
                           v \in Task(k).inputs => k \in First(i) .. Last(i)
    BY DEF EveryUseExposed
  <2>1. /\ problem \in Problem /\ WellFormed(problem) /\ Count \in Nat
        /\ First(i) \in 1 .. Count /\ Last(i) \in First(i) .. Count
    <3>1. problem \in Problem /\ WellFormed(problem) /\ Count \in Nat
      BY Ranges DEF IInv, TypeOK
    <3>2. First(i) \in 1 .. Count /\ Last(i) \in 1 .. Count /\ First(i) <= Last(i)
      BY Positions
    <3> QED
      BY <3>1, <3>2
  <2>2. OneOutput(problem, First(i), Last(i))
    BY <2>1 DEF IInv, Emitted
  <2>3. /\ First(i) \in 1 .. Len(problem.tasks)
        /\ Last(i) \in First(i) .. Len(problem.tasks)
    BY <2>1 DEF Count
  <2>4. \A k \in First(i) + 1 .. Last(i) : k - 1 \in problem.tasks[k].inputs
    BY DEF Chained, DirectEdge, Task
  <2>5. /\ v \notin problem.finals
        /\ \A k \in 1 .. Len(problem.tasks) :
             v \in problem.tasks[k].inputs => k \in First(i) .. Last(i)
    BY OnlyLastEscapes, <2>1, <2>2, <2>3, <2>4
  <2> QED
    BY <2>5 DEF Count, Task
<1> QED
  BY <1>1, Inductive, ChainedHolds, PTL

(* A chain reads inside of it nothing it has not yet written, so its        *)
(* boundary inputs are the values of others that it reads, and what is      *)
(* written out is its last value.                                           *)
LEMMA ChainBoundary ==
  ASSUME NEW p \in Problem, WellFormed(p),
         NEW a \in 1 .. Len(p.tasks), NEW b \in a .. Len(p.tasks),
         \A k \in a + 1 .. b : k - 1 \in p.tasks[k].inputs,
         OneOutput(p, a, b)
  PROVE  /\ BoundaryInputs(p, a, b) =
               {v \in UNION {p.tasks[k].inputs : k \in a .. b} : v \notin a .. b}
         /\ {v \in (a .. b) \ BoundaryOutputs(p, a, b) : ReadInside(p, v, a, b)} = a .. b - 1
<1>0. Len(p.tasks) \in Nat
  BY DEF Problem
<1>1. ASSUME NEW k \in a .. b, NEW v \in p.tasks[k].inputs, v \notin a .. k - 1
      PROVE  v \notin a .. b
  <2>1. SUFFICES ASSUME v \in a .. b PROVE FALSE
    OBVIOUS
  <2>2. /\ k \in 1 .. Len(p.tasks) /\ v \in k .. Len(p.tasks)
        /\ \A j \in k + 1 .. v : j - 1 \in p.tasks[j].inputs
    BY <1>0, <1>1, <2>1
  <2> QED
    BY <2>2 DEF WellFormed
<1>2. ASSUME NEW k \in a .. b, NEW v \in p.tasks[k].inputs, v \notin a .. b
      PROVE  v \notin a .. k - 1
  BY <1>0, <1>2
<1>3. BoundaryInputs(p, a, b) =
        {v \in UNION {p.tasks[k].inputs : k \in a .. b} : v \notin a .. b}
  BY <1>1, <1>2 DEF BoundaryInputs
<1>4. ASSUME NEW v \in a .. b, v # b
      PROVE  v \notin BoundaryOutputs(p, a, b) /\ ReadInside(p, v, a, b)
  <2>1. v \notin BoundaryOutputs(p, a, b)
    BY <1>0, <1>4, OnlyLastEscapes DEF BoundaryOutputs, ReadOutside
  <2>2. v + 1 \in a + 1 .. b /\ v + 1 \in a .. b /\ v + 1 - 1 = v
    BY <1>0, <1>4
  <2>3. (v + 1) - 1 \in p.tasks[v + 1].inputs
    BY <2>2
  <2>4. v \in p.tasks[v + 1].inputs
    BY <2>2, <2>3
  <2>5. \E k \in a .. b : v \in p.tasks[k].inputs
    BY <2>2, <2>4
  <2> QED
    BY <2>1, <2>5 DEF ReadInside
<1>5. ~ ReadInside(p, b, a, b)
  <2>1. ASSUME NEW k \in a .. b, b \in p.tasks[k].inputs PROVE FALSE
    <3>1. b \notin a .. k - 1
      BY <1>0, <2>1
    <3>2. b \notin a .. b
      BY <1>1, <2>1, <3>1
    <3> QED
      BY <1>0, <3>2
  <2> QED
    BY <2>1 DEF ReadInside
<1> QED
  BY <1>0, <1>3, <1>4, <1>5

(* A limit that a saturated sum keeps below the greatest number is kept by  *)
(* the sum itself.                                                          *)
LEMMA SaturateExact ==
  ASSUME NEW n, NEW limit \in Nat, limit < MaxUInt, Saturate(n) <= limit
  PROVE  n <= limit
<1>1. MaxUInt \in Nat
  BY PlannerAssumption
<1>2. CASE n > MaxUInt
  BY <1>1, <1>2 DEF Saturate
<1>3. CASE ~ (n > MaxUInt)
  BY <1>3 DEF Saturate
<1> QED
  BY <1>2, <1>3

LEMMA ProblemKept == Spec => [](problem \in Problems)
<1>1. Init => problem \in Problems
  BY DEF Init
<1>2. problem \in Problems /\ [Next]_vars => (problem \in Problems)'
  BY DEF Next, vars, NoTaskLimit, NoDirectEdge, TargetDeclines, OverLimit, Extend,
     Exhausted, Settle, Done, Stop
<1> QED
  BY <1>1, <1>2, PTL DEF Spec

(* A partition of several tasks keeps the limits of the target with the     *)
(* true sums: no addition has wrapped (partitionLimitFailure).              *)
THEOREM LimitsHold == Spec => []ComposedWithinLimits
<1>1. problem \in Problems /\ IInv /\ Reached /\ Chained => ComposedWithinLimits
  <2> SUFFICES ASSUME problem \in Problems, IInv, Reached, Chained,
                      NEW i \in 1 .. Len(partitions), First(i) < Last(i)
               PROVE
                 /\ Cardinality({v \in UNION {Task(k).inputs : k \in First(i) .. Last(i)} :
                                   v \notin First(i) .. Last(i)}) <= MaxInputs
                 /\ problem.taskLimit # NoLimit
                 /\ EncodedSum(problem, First(i), Last(i)) <= problem.taskLimit
                 /\ BytesSum(problem, First(i) .. Last(i) - 1) <= WorkingSet
                 /\ \A k \in First(i) + 1 .. Last(i) :
                      DirectEdge(k) /\ k \in problem.composable
    BY DEF ComposedWithinLimits
  <2>1. /\ problem \in Problem /\ WellFormed(problem) /\ Len(problem.tasks) \in Nat
        /\ First(i) \in 1 .. Len(problem.tasks)
        /\ Last(i) \in First(i) .. Len(problem.tasks)
    <3>1. problem \in Problem /\ WellFormed(problem) /\ Count \in Nat
      BY Ranges DEF IInv, TypeOK
    <3>2. First(i) \in 1 .. Count /\ Last(i) \in 1 .. Count /\ First(i) <= Last(i)
      BY Positions
    <3> QED
      BY <3>1, <3>2 DEF Count
  <2>2. /\ WithinLimits(problem, First(i), Last(i))
        /\ \A k \in First(i) + 1 .. Last(i) : Composable(k)
        /\ problem.taskLimit # NoLimit
    <3>1. Last(i) \in First(i) + 1 .. Last(i)
      BY <2>1
    <3> QED
      BY <3>1 DEF Reached, Reaches, Composable
  <2>3. OneOutput(problem, First(i), Last(i))
    BY <2>1 DEF IInv, Emitted
  <2>4. \A k \in First(i) + 1 .. Last(i) : k - 1 \in problem.tasks[k].inputs
    BY DEF Chained, DirectEdge, Task
  <2>5. /\ BoundaryInputs(problem, First(i), Last(i)) =
              {v \in UNION {problem.tasks[k].inputs : k \in First(i) .. Last(i)} :
                 v \notin First(i) .. Last(i)}
        /\ {v \in (First(i) .. Last(i)) \ BoundaryOutputs(problem, First(i), Last(i)) :
               ReadInside(problem, v, First(i), Last(i))} = First(i) .. Last(i) - 1
    BY <2>1, <2>3, <2>4, ChainBoundary
  <2>6. Cardinality({v \in UNION {Task(k).inputs : k \in First(i) .. Last(i)} :
                       v \notin First(i) .. Last(i)}) <= MaxInputs
    BY <2>2, <2>5 DEF WithinLimits, Task
  <2>7. EncodedSum(problem, First(i), Last(i)) <= problem.taskLimit
    <3>1. problem.taskLimit \in Nat /\ problem.taskLimit < MaxUInt
      BY <2>1, <2>2, ProblemsAssumption DEF Problem
    <3>2. Saturate(EncodedSum(problem, First(i), Last(i))) <= problem.taskLimit
      BY <2>2 DEF WithinLimits, EncodedCount
    <3> QED
      BY <3>1, <3>2, SaturateExact
  <2>8. BytesSum(problem, First(i) .. Last(i) - 1) <= WorkingSet
    <3>1. Saturate(BytesSum(problem, First(i) .. Last(i) - 1)) <= WorkingSet
      BY <2>2, <2>5 DEF WithinLimits, InternalBytes
    <3> QED
      BY <3>1, SaturateExact, PlannerAssumption
  <2>9. \A k \in First(i) + 1 .. Last(i) : DirectEdge(k) /\ k \in problem.composable
    BY <2>2 DEF Composable
  <2> QED
    BY <2>2, <2>6, <2>7, <2>8, <2>9
<1> QED
  BY <1>1, Inductive, ReachedHolds, ChainedHolds, ProblemKept, PTL

(* One justified record per adjacent pair when the planner is done.         *)
THEOREM RecordsExactHolds == Spec => []RecordsExact
<1>1. IInv => RecordsExact
  <2> SUFFICES ASSUME IInv, phase = "done"
               PROVE  /\ DOMAIN records = 2 .. Count
                      /\ \A i \in 1 .. Len(partitions) :
                           /\ \A k \in First(i) + 1 .. Last(i) : records[k].accepted
                           /\ i > 1 =>
                                Justified(records[First(i)], First(i - 1), First(i))
    BY DEF RecordsExact, Justified
  <2>1. start = Count + 1 /\ Count \in Nat
    BY Ranges DEF IInv, Tiling
  <2>2. DOMAIN records = 2 .. Count
    <3>1. DOMAIN records \subseteq 2 .. Count
      BY DEF IInv, TypeOK
    <3>2. \A k \in 2 .. Count : k \in DOMAIN records
      BY <2>1 DEF IInv, Recorded
    <3> QED
      BY <3>1, <3>2
  <2>3. ASSUME NEW i \in 1 .. Len(partitions)
        PROVE  /\ \A k \in First(i) + 1 .. Last(i) : records[k].accepted
               /\ i > 1 =>
                    Justified(records[First(i)], First(i - 1), First(i))
    <3>1. i > 1 => i \in 2 .. Len(partitions)
      OBVIOUS
    <3> QED
      BY <3>1 DEF IInv, Recorded
  <2> QED
    BY <2>2, <2>3
<1> QED
  BY <1>1, Inductive, PTL

--------------------------------------------------------------------------------
(* The SRAM planner: every surface list, granule, bank count and working    *)
(* set the assumptions of MemoryPlanner allow.                              *)

(* alignUp returns a natural number and never less than its argument.       *)
LEMMA AlignUpBounds ==
  ASSUME NEW v \in Nat, NEW a \in Nat \ {0}
  PROVE  /\ AlignUp(v, a) \in Nat
         /\ AlignUp(v, a) >= v
<1> DEFINE q == (v + a - 1) \div a
           r == (v + a - 1) % a
<1>1. /\ q \in Nat
      /\ r \in 0 .. a - 1
      /\ v + a - 1 = q * a + r
  OBVIOUS
<1>2. q * a \in Nat
  BY <1>1
<1>3. q * a >= v
  BY <1>1, <1>2
<1> QED
  BY <1>2, <1>3 DEF AlignUp

(* A multiple of the alignment is left alone.                                *)
LEMMA AlignUpIdentity ==
  ASSUME NEW k \in Nat, NEW a \in Nat \ {0}
  PROVE  AlignUp(k * a, a) = k * a
<1> DEFINE v == k * a
           q == (v + a - 1) \div a
           r == (v + a - 1) % a
<1>1. v \in Nat
  OBVIOUS
<1>2. /\ q \in Nat
      /\ r \in 0 .. a - 1
      /\ v + a - 1 = q * a + r
  BY <1>1
<1>3. q = k
  <2>1. ~ (q < k)
    <3> SUFFICES ASSUME q < k PROVE FALSE
      OBVIOUS
    <3>1. q + 1 <= k
      BY <1>2
    <3>2. (q + 1) * a <= k * a
      BY <1>2, <3>1
    <3> QED
      BY <1>1, <1>2, <3>2
  <2>2. ~ (q > k)
    <3> SUFFICES ASSUME q > k PROVE FALSE
      OBVIOUS
    <3>1. k + 1 <= q
      BY <1>2
    <3>2. (k + 1) * a <= q * a
      BY <1>2, <3>1
    <3> QED
      BY <1>1, <1>2, <3>2
  <2> QED
    BY <1>2, <2>1, <2>2
<1> QED
  BY <1>3 DEF AlignUp

--------------------------------------------------------------------------------
(* Facts about sizes.  The surface list never changes, so neither do they.  *)

Multiple(n) == \E k \in Nat : n = k * Granule

LEMMA AlignUpMultiple ==
  ASSUME NEW n \in Nat, Multiple(n)
  PROVE  AlignUp(n, Granule) = n
<1>1. PICK k \in Nat : n = k * Granule
  BY DEF Multiple
<1> QED
  BY <1>1, AlignUpIdentity, TargetAssumption

LEMMA MultipleSum ==
  ASSUME NEW m \in Nat, NEW n \in Nat, Multiple(m), Multiple(n)
  PROVE  Multiple(m + n)
<1>1. PICK k \in Nat : m = k * Granule
  BY DEF Multiple
<1>2. PICK l \in Nat : n = l * Granule
  BY DEF Multiple
<1>3. m + n = (k + l) * Granule
  BY <1>1, <1>2, TargetAssumption
<1> QED
  BY <1>3 DEF Multiple

LEMMA SizeFacts ==
  ASSUME MemoryTypeOK, NEW i \in 1 .. Len(surfaces)
  PROVE  /\ Size(i) \in Nat \ {0}
         /\ Multiple(Size(i))
<1> DEFINE b == IF surfaces[i].bytes = 0 THEN 1 ELSE surfaces[i].bytes
<1>1. surfaces[i] \in Surface
  BY DEF MemoryTypeOK
<1>2. b \in Nat \ {0}
  BY <1>1 DEF Surface
<1> HIDE DEF b
<1>3. AlignUp(b, Granule) \in Nat /\ AlignUp(b, Granule) >= b
  BY <1>2, AlignUpBounds, TargetAssumption
<1>4. Size(i) = AlignUp(b, Granule)
  BY DEF Size, b
<1>5. Multiple(Size(i))
  <2>1. (b + Granule - 1) \div Granule \in Nat
    BY <1>2, TargetAssumption
  <2> QED
    BY <1>4, <2>1 DEF Multiple, AlignUp
<1> QED
  BY <1>2, <1>3, <1>4, <1>5

(* The planned size covers the surface's bytes.                             *)
LEMMA SizeCovers ==
  ASSUME MemoryTypeOK, NEW i \in 1 .. Len(surfaces)
  PROVE  Size(i) >= surfaces[i].bytes
<1> DEFINE b == IF surfaces[i].bytes = 0 THEN 1 ELSE surfaces[i].bytes
<1>1. surfaces[i] \in Surface
  BY DEF MemoryTypeOK
<1>2. b \in Nat \ {0} /\ surfaces[i].bytes \in Nat /\ b >= surfaces[i].bytes
  BY <1>1 DEF Surface
<1>3. Size(i) = AlignUp(b, Granule)
  BY DEF Size
<1> HIDE DEF b
<1>4. AlignUp(b, Granule) \in Nat /\ AlignUp(b, Granule) >= b
  BY <1>2, AlignUpBounds, TargetAssumption
<1> QED
  BY <1>2, <1>3, <1>4

--------------------------------------------------------------------------------
(* The inductive invariant.                                                 *)

(* Offsets, and the offset under trial, are granule addresses.              *)
Aligned ==
  /\ Multiple(trial)
  /\ \A i \in 1 .. Len(surfaces) : Multiple(offset[i])

(* Placed surfaces whose lifetimes meet, by the planner's own tests, are    *)
(* apart: whole granules, not only the bytes in use.                        *)
Separated ==
  \A i, j \in Allocated :
    i # j /\ LifetimesOverlap(i, j)
      => ~ RangesOverlap(offset[i], Size(i), offset[j], Size(j))

(* Every position below the candidate has already been ruled out for the    *)
(* surface being placed, and the candidate is 0 when none is.               *)
CandidateLowest ==
  /\ trial > 0 => Placing /\ InSRAM(next)
  /\ \A lower \in 0 .. trial - 1 :
       \E j \in Allocated :
         /\ LifetimesOverlap(next, j)
         /\ RangesOverlap(lower, Size(next), offset[j], Size(j))

(* The peak is the highest end, attained unless nothing is placed.          *)
PeakExact ==
  /\ \A i \in Allocated : offset[i] + Size(i) <= peak
  /\ peak = 0 \/ \E i \in Allocated : offset[i] + Size(i) = peak

(* The verdict is drawn from the final peak.                                *)
VerdictFromPeak ==
  status # "planning" =>
    /\ next > Len(surfaces)
    /\ status = IF peak > WorkingSetBytes THEN "overflow" ELSE "scheduled"

MemoryInv ==
  /\ MemoryTypeOK
  /\ Aligned
  /\ Separated
  /\ CandidateLowest
  /\ LowestFit
  /\ PeakExact
  /\ VerdictFromPeak

--------------------------------------------------------------------------------

LEMMA InitMemory == MemoryInit => MemoryInv
<1> SUFFICES ASSUME MemoryInit PROVE MemoryInv
  OBVIOUS
<1>1. surfaces \in Seq(Surface)
  BY SurfacesAssumption DEF MemoryInit
<1>2. Len(surfaces) \in Nat
  BY <1>1
<1>3. MemoryTypeOK
  BY <1>1, <1>2, TargetAssumption DEF MemoryInit, MemoryTypeOK
<1>4. Allocated = {}
  BY DEF MemoryInit, Allocated
<1>5. Multiple(0)
  BY TargetAssumption DEF Multiple
<1>6. Aligned
  BY <1>5 DEF MemoryInit, Aligned
<1>7. Separated /\ LowestFit
  BY <1>4 DEF Separated, LowestFit
<1>8. CandidateLowest
  BY DEF MemoryInit, CandidateLowest
<1>9. PeakExact
  BY <1>4 DEF MemoryInit, PeakExact
<1>10. VerdictFromPeak
  BY DEF MemoryInit, VerdictFromPeak
<1> QED
  BY <1>3, <1>6, <1>7, <1>8, <1>9, <1>10 DEF MemoryInv

(* Operators over the fixed surface list keep their value in every step.    *)
LEMMA SurfacesKept ==
  ASSUME surfaces' = surfaces
  PROVE  /\ \A i : Size(i)' = Size(i)
         /\ \A i : InSRAM(i)' = InSRAM(i)
         /\ \A i, j : LifetimesOverlap(i, j)' = LifetimesOverlap(i, j)
BY DEF Size, InSRAM, LifetimesOverlap

LEMMA SkipStep == MemoryInv /\ Skip => MemoryInv'
<1> SUFFICES ASSUME MemoryInv, Skip PROVE MemoryInv'
  OBVIOUS
<1> USE DEF MemoryInv
<1>1. /\ surfaces' = surfaces /\ trial' = trial /\ offset' = offset
      /\ bank' = bank /\ peak' = peak /\ status' = status
      /\ next' = next + 1
      /\ next \in 1 .. Len(surfaces) /\ ~ InSRAM(next)
      /\ status = "planning"
  BY DEF Skip, Placing
<1>2. Len(surfaces) \in Nat /\ next \in Nat /\ trial \in Nat
  BY DEF MemoryTypeOK
<1>3. Allocated' = Allocated
  BY <1>1, <1>2, SurfacesKept DEF Allocated
<1>4. trial = 0
  BY <1>1, <1>2 DEF CandidateLowest
<1>5. MemoryTypeOK'
  BY <1>1, <1>2 DEF MemoryTypeOK
<1>6. Aligned'
  BY <1>1 DEF Aligned, Multiple
<1>7. Separated'
  BY <1>1, <1>3, SurfacesKept DEF Separated, RangesOverlap
<1>8. CandidateLowest'
  BY <1>1, <1>4 DEF CandidateLowest
<1>9. LowestFit'
  BY <1>1, <1>3, SurfacesKept DEF LowestFit, RangesOverlap
<1>10. PeakExact'
  BY <1>1, <1>3, SurfacesKept DEF PeakExact
<1>11. VerdictFromPeak'
  BY <1>1 DEF VerdictFromPeak
<1> QED
  BY <1>5, <1>6, <1>7, <1>8, <1>9, <1>10, <1>11

LEMMA BumpStep == MemoryInv /\ Bump => MemoryInv'
<1> SUFFICES ASSUME MemoryInv, Bump PROVE MemoryInv'
  OBVIOUS
<1> USE DEF MemoryInv
<1>1. /\ surfaces' = surfaces /\ next' = next /\ offset' = offset
      /\ bank' = bank /\ peak' = peak /\ status' = status
      /\ next \in 1 .. Len(surfaces) /\ InSRAM(next)
      /\ status = "planning"
  BY DEF Bump, Placing
<1>2. PICK other \in Allocated :
        /\ Conflicts(other)
        /\ trial' = AlignUp(offset[other] + Size(other), Granule)
  BY DEF Bump
<1>3. /\ Len(surfaces) \in Nat /\ next \in Nat /\ trial \in Nat
      /\ other \in 1 .. Len(surfaces)
  BY <1>1 DEF MemoryTypeOK, Allocated
<1>4. Allocated' = Allocated
  BY <1>1, SurfacesKept DEF Allocated
<1>5. /\ offset[other] \in Nat
      /\ Size(other) \in Nat \ {0}
      /\ Size(next) \in Nat \ {0}
      /\ Multiple(offset[other] + Size(other))
  BY <1>1, <1>3, SizeFacts, MultipleSum DEF MemoryTypeOK, Aligned
<1>6. /\ trial' = offset[other] + Size(other)
      /\ trial' \in Nat
  BY <1>2, <1>5, AlignUpMultiple
<1>7. MemoryTypeOK'
  BY <1>1, <1>6 DEF MemoryTypeOK
<1>8. Aligned'
  BY <1>1, <1>5, <1>6 DEF Aligned, Multiple
<1>9. Separated'
  BY <1>1, <1>4, SurfacesKept DEF Separated, RangesOverlap
<1>10. LowestFit'
  BY <1>1, <1>4, SurfacesKept DEF LowestFit, RangesOverlap
<1>11. CandidateLowest'
  <2>1. (trial > 0 => Placing /\ InSRAM(next))'
    BY <1>1, SurfacesKept DEF Placing
  <2>2. ASSUME NEW lower \in 0 .. trial' - 1
        PROVE  \E j \in Allocated :
                 /\ LifetimesOverlap(next, j)
                 /\ RangesOverlap(lower, Size(next), offset[j], Size(j))
    <3>1. CASE lower < trial
      BY <1>3, <1>6, <2>2, <3>1 DEF CandidateLowest
    <3>2. CASE lower >= trial
      <4>1. RangesOverlap(lower, Size(next), offset[other], Size(other))
        BY <1>2, <1>3, <1>5, <1>6, <2>2, <3>2 DEF Conflicts, RangesOverlap
      <4>2. LifetimesOverlap(next, other)
        BY <1>2 DEF Conflicts
      <4> QED
        BY <4>1, <4>2
    <3> QED
      BY <1>3, <1>6, <2>2, <3>1, <3>2
  <2> QED
    BY <1>1, <1>4, <2>1, <2>2, SurfacesKept DEF CandidateLowest, RangesOverlap
<1>12. PeakExact'
  BY <1>1, <1>4, SurfacesKept DEF PeakExact
<1>13. VerdictFromPeak'
  BY <1>1 DEF VerdictFromPeak
<1> QED
  BY <1>7, <1>8, <1>9, <1>10, <1>11, <1>12, <1>13

(* The end of the placed surface, and the peak that accounts for it.        *)
LEMMA PlaceStep == MemoryInv /\ Place => MemoryInv'
<1> SUFFICES ASSUME MemoryInv, Place PROVE MemoryInv'
  OBVIOUS
<1> USE DEF MemoryInv
<1>1. /\ surfaces' = surfaces /\ next' = next + 1 /\ trial' = 0
      /\ offset' = [offset EXCEPT ![next] = trial]
      /\ bank' = [bank EXCEPT ![next] = (trial \div Granule) % BankCount]
      /\ peak' = IF trial + Size(next) > peak
                   THEN trial + Size(next) ELSE peak
      /\ status' = status
      /\ next \in 1 .. Len(surfaces) /\ InSRAM(next)
      /\ status = "planning"
      /\ \A other \in Allocated : ~ Conflicts(other)
  BY DEF Place, Fixing, End, Placing
<1>2. /\ Len(surfaces) \in Nat /\ next \in Nat
      /\ trial \in Nat /\ peak \in Nat
      /\ offset \in [1 .. Len(surfaces) -> Nat]
  BY DEF MemoryTypeOK
<1>3. Allocated' = Allocated \cup {next}
  BY <1>1, <1>2, SurfacesKept DEF Allocated
<1>4. /\ Allocated \subseteq 1 .. Len(surfaces)
      /\ \A i \in Allocated : i < next
  BY <1>2 DEF Allocated, MemoryTypeOK
<1>5. Size(next) \in Nat \ {0} /\ \A i \in Allocated : Size(i) \in Nat \ {0}
  BY <1>1, <1>4, SizeFacts
<1>6. /\ offset'[next] = trial
      /\ \A i \in Allocated : offset'[i] = offset[i]
      /\ \A i \in Allocated : offset[i] \in Nat
  BY <1>1, <1>2, <1>4
<1>7. MemoryTypeOK'
  <2>1. (trial \div Granule) % BankCount \in 0 .. BankCount - 1
    BY <1>2, TargetAssumption
  <2>2. bank' \in [1 .. Len(surfaces) -> 0 .. BankCount - 1]
    BY <1>1, <2>1 DEF MemoryTypeOK
  <2> QED
    BY <1>1, <1>2, <1>5, <2>2 DEF MemoryTypeOK
<1>8. Aligned'
  <2>1. Multiple(0)
    BY TargetAssumption DEF Multiple
  <2>2. \A i \in 1 .. Len(surfaces) : Multiple(offset'[i])
    BY <1>1, <1>2 DEF Aligned
  <2> QED
    BY <1>1, <2>1, <2>2 DEF Aligned, Multiple
<1>9. Separated'
  <2> SUFFICES ASSUME NEW i \in Allocated', NEW j \in Allocated', i # j,
                      LifetimesOverlap(i, j)
               PROVE  ~ RangesOverlap(offset'[i], Size(i), offset'[j], Size(j))
    BY <1>1, SurfacesKept DEF Separated, RangesOverlap
  <2>1. CASE i \in Allocated /\ j \in Allocated
    BY <1>6, <2>1 DEF Separated
  <2>2. CASE i = next /\ j \in Allocated
    BY <1>1, <1>6, <2>2 DEF Conflicts
  <2>3. CASE i \in Allocated /\ j = next
    <3>1. LifetimesOverlap(next, i)
      BY <2>3 DEF LifetimesOverlap
    <3>2. ~ RangesOverlap(trial, Size(next), offset[i], Size(i))
      BY <1>1, <2>3, <3>1 DEF Conflicts
    <3> QED
      BY <1>6, <2>3, <3>2 DEF RangesOverlap
  <2> QED
    BY <1>3, <2>1, <2>2, <2>3
<1>10. CandidateLowest'
  BY <1>1 DEF CandidateLowest
<1>11. LowestFit'
  <2> SUFFICES ASSUME NEW i \in Allocated', NEW lower \in 0 .. offset'[i] - 1
               PROVE  \E j \in Allocated' :
                        /\ j < i
                        /\ LifetimesOverlap(i, j)
                        /\ RangesOverlap(lower, Size(i), offset'[j], Size(j))
    BY <1>1, SurfacesKept DEF LowestFit, RangesOverlap
  <2>1. CASE i \in Allocated
    BY <1>3, <1>6, <2>1 DEF LowestFit
  <2>2. CASE i = next
    BY <1>3, <1>4, <1>6, <2>2 DEF CandidateLowest
  <2> QED
    BY <1>3, <2>1, <2>2
<1>12. PeakExact'
  <2>1. ASSUME NEW i \in Allocated'
        PROVE  offset'[i] + Size(i) <= peak'
    <3>1. CASE i \in Allocated
      <4>1. offset[i] + Size(i) <= peak
        BY <3>1 DEF PeakExact
      <4> QED
        BY <1>1, <1>2, <1>5, <1>6, <3>1, <4>1
    <3>2. CASE i = next
      BY <1>1, <1>2, <1>5, <1>6, <3>2
    <3> QED
      BY <1>3, <2>1, <3>1, <3>2
  <2>2. peak' = 0 \/ \E i \in Allocated' : offset'[i] + Size(i) = peak'
    <3>1. CASE trial + Size(next) > peak
      BY <1>1, <1>3, <1>6, <3>1
    <3>2. CASE ~ (trial + Size(next) > peak)
      BY <1>1, <1>3, <1>6, <3>2 DEF PeakExact
    <3> QED
      BY <3>1, <3>2
  <2> QED
    BY <1>1, <2>1, <2>2, SurfacesKept DEF PeakExact
<1>13. VerdictFromPeak'
  BY <1>1 DEF VerdictFromPeak
<1> QED
  BY <1>7, <1>8, <1>9, <1>10, <1>11, <1>12, <1>13

LEMMA JudgeStep == MemoryInv /\ Judge => MemoryInv'
<1> SUFFICES ASSUME MemoryInv, Judge PROVE MemoryInv'
  OBVIOUS
<1> USE DEF MemoryInv
<1>1. /\ surfaces' = surfaces /\ next' = next /\ trial' = trial
      /\ offset' = offset /\ bank' = bank /\ peak' = peak
      /\ status = "planning" /\ next > Len(surfaces)
      /\ status' = IF peak > WorkingSetBytes THEN "overflow" ELSE "scheduled"
  BY DEF Judge
<1>2. Len(surfaces) \in Nat /\ next \in Nat /\ trial \in Nat
  BY DEF MemoryTypeOK
<1>3. Allocated' = Allocated
  BY <1>1, SurfacesKept DEF Allocated
<1>4. ~ Placing
  BY <1>1, <1>2 DEF Placing
<1>5. MemoryTypeOK' /\ Aligned' /\ VerdictFromPeak'
  BY <1>1 DEF MemoryTypeOK, Aligned, Multiple, VerdictFromPeak
<1>6. Separated' /\ LowestFit' /\ PeakExact'
  BY <1>1, <1>3, SurfacesKept DEF Separated, LowestFit, PeakExact, RangesOverlap
<1>7. CandidateLowest'
  BY <1>1, <1>2, <1>4 DEF CandidateLowest
<1> QED
  BY <1>5, <1>6, <1>7

LEMMA MemoryKept == MemoryInv /\ UNCHANGED memoryVars => MemoryInv'
<1> SUFFICES ASSUME MemoryInv, UNCHANGED memoryVars PROVE MemoryInv'
  OBVIOUS
<1> USE DEF MemoryInv, memoryVars
<1>1. Allocated' = Allocated
  BY SurfacesKept DEF Allocated
<1>2. MemoryTypeOK' /\ Aligned' /\ VerdictFromPeak'
  BY DEF MemoryTypeOK, Aligned, Multiple, VerdictFromPeak
<1>3. Separated' /\ LowestFit' /\ PeakExact'
  BY <1>1, SurfacesKept DEF Separated, LowestFit, PeakExact, RangesOverlap
<1>4. CandidateLowest'
  BY <1>1, SurfacesKept DEF CandidateLowest, RangesOverlap, Placing
<1> QED
  BY <1>2, <1>3, <1>4

(* The strengthened invariant holds in every reachable state of the         *)
(* restart scan, whatever list of surfaces the scheduler hands over.        *)
THEOREM MemoryInductive == MemorySpec => []MemoryInv
<1>1. MemoryInv /\ [MemoryNext]_memoryVars => MemoryInv'
  BY SkipStep, BumpStep, PlaceStep, JudgeStep, MemoryKept DEF MemoryNext, Planned
<1> QED
  BY <1>1, InitMemory, PTL DEF MemorySpec

--------------------------------------------------------------------------------

(* Type correctness of the planner, for every surface list and target.      *)
THEOREM MemoryTypeCorrect == MemorySpec => []MemoryTypeOK
BY MemoryInductive, PTL DEF MemoryInv

(* No two surfaces live at a common task share SRAM bytes: the placement    *)
(* made by allocateSurfaces is sound whatever the sizes and the lifetimes.  *)
THEOREM NoLiveOverlapHolds == MemorySpec => []NoLiveOverlap
<1>1. MemoryInv => NoLiveOverlap
  <2> SUFFICES ASSUME MemoryInv,
                      NEW i \in Allocated, NEW j \in Allocated, i # j,
                      NEW t \in Lifetime(i) \cap Lifetime(j),
                      NEW b \in Footprint(i) \cap Footprint(j)
               PROVE  FALSE
    BY DEF NoLiveOverlap
  <2>1. /\ i \in 1 .. Len(surfaces) /\ j \in 1 .. Len(surfaces)
        /\ surfaces[i] \in Surface /\ surfaces[j] \in Surface
        /\ offset[i] \in Nat /\ offset[j] \in Nat
    BY DEF MemoryInv, MemoryTypeOK, Allocated
  <2>2. LifetimesOverlap(i, j)
    BY <2>1 DEF Lifetime, LifetimesOverlap, Surface
  <2>3. ~ RangesOverlap(offset[i], Size(i), offset[j], Size(j))
    BY <2>2 DEF MemoryInv, Separated
  <2>4. Size(i) \in Nat /\ Size(j) \in Nat
    BY <2>1, SizeFacts DEF MemoryInv
  <2>5. Size(i) >= surfaces[i].bytes /\ Size(j) >= surfaces[j].bytes
    BY <2>1, SizeCovers DEF MemoryInv
  <2>6. surfaces[i].bytes \in Nat /\ surfaces[j].bytes \in Nat
    BY <2>1 DEF Surface
  <2>7. /\ b \in Int
        /\ offset[i] <= b /\ b < offset[i] + surfaces[i].bytes
        /\ offset[j] <= b /\ b < offset[j] + surfaces[j].bytes
    <3>1. /\ b \in offset[i] .. offset[i] + surfaces[i].bytes - 1
          /\ b \in offset[j] .. offset[j] + surfaces[j].bytes - 1
      BY DEF Footprint
    <3>2. \A o, n \in Nat : \A x \in o .. o + n - 1 : x \in Int /\ o <= x /\ x < o + n
      OBVIOUS
    <3> QED
      BY <2>1, <2>6, <3>1, <3>2
  <2>8. \A o, n, m \in Nat : m >= n /\ b < o + n => b < o + m
    BY <2>7
  <2>9. b < offset[i] + Size(i) /\ b < offset[j] + Size(j)
    BY <2>1, <2>4, <2>5, <2>6, <2>7, <2>8
  <2>10. \A o, p, m \in Nat : o <= b /\ b < p + m => o < p + m
    BY <2>7
  <2>11. offset[i] < offset[j] + Size(j) /\ offset[j] < offset[i] + Size(i)
    BY <2>1, <2>4, <2>7, <2>9, <2>10
  <2> QED
    BY <2>3, <2>11 DEF RangesOverlap
<1> QED
  BY <1>1, MemoryInductive, PTL

(* The restart scan implements first fit: no lower position was free.       *)
THEOREM FirstFit == MemorySpec => []LowestFit
BY MemoryInductive, PTL DEF MemoryInv

(* The scheduler's sram-overflow verdict is exact: a plan is accepted if    *)
(* and only if every surface kept in SRAM ends inside the working set.      *)
THEOREM OverflowExact == MemorySpec => []VerdictExact
<1>1. MemoryInv => VerdictExact
  <2> SUFFICES ASSUME MemoryInv, status # "planning"
               PROVE  status = "scheduled"
                        <=> \A i \in Allocated : offset[i] + Size(i) <= WorkingSetBytes
    BY DEF VerdictExact
  <2>1. \A i \in Allocated : offset[i] + Size(i) \in Nat
    BY SizeFacts DEF MemoryInv, MemoryTypeOK, Allocated
  <2>2. peak \in Nat
    BY DEF MemoryInv, MemoryTypeOK
  <2>3. status = "scheduled" <=> ~ (peak > WorkingSetBytes)
    BY DEF MemoryInv, VerdictFromPeak
  <2>4. CASE peak > WorkingSetBytes
    <3>1. \E i \in Allocated : offset[i] + Size(i) = peak
      BY <2>2, <2>4, TargetAssumption DEF MemoryInv, PeakExact
    <3> QED
      BY <3>1, TargetAssumption, <2>1, <2>2, <2>3, <2>4
  <2>5. CASE ~ (peak > WorkingSetBytes)
    <3>1. \A i \in Allocated : offset[i] + Size(i) <= peak
      BY DEF MemoryInv, PeakExact
    <3> QED
      BY <2>1, <2>2, <2>3, <2>5, <3>1, TargetAssumption
  <2> QED
    BY <2>4, <2>5
<1> QED
  BY <1>1, MemoryInductive, PTL

================================================================================
