---------------------------- MODULE StagedDriverProofs ----------------------------
(***************************************************************************)
(* Proofs about the command mil-hwxc, whatever the text, the graph and the *)
(* number of kills and failed writes.                                      *)
(*                                                                         *)
(* The assembly: the planner's partitions are consecutive ranges of tasks  *)
(* (Planned), assembly is at a task of one of them (Placed), and an encoded *)
(* program stands for the stages it was encoded from (Encoded).  Each step *)
(* then appends the stages of the tasks it passes.                         *)
(*                                                                         *)
(* The output directory: it is always what was there before with the first *)
(* k programs of this command laid over it, and its manifest is the earlier *)
(* one until all of them are there.  What the reader makes of it, and what *)
(* the exit code tells, follows.                                           *)
(***************************************************************************)
EXTENDS StagedDriver, FiniteSetTheorems, SequenceTheorems, WellFoundedInduction, TLAPS
--------------------------------------------------------------------------------
(* Concatenation.                                                           *)

(* A set of naturals that has an element has a least one.                  *)
LEMMA Least ==
  ASSUME NEW T \in SUBSET Nat, T # {}
  PROVE  \E x \in T : \A y \in T : x <= y
<1> DEFINE R == {ss \in Nat \X Nat : ss[1] < ss[2]}
<1>1. IsWellFoundedOn(R, Nat)
  BY NatLessThanWellFounded DEF OpToRel
<1>2. \E x \in T : \A y \in T : ~ (<<y, x>> \in R)
  <2> HIDE DEF R
  <2> QED
    BY <1>1, WFMin
<1>3. PICK x \in T : \A y \in T : ~ (<<y, x>> \in R)
  BY <1>2
<1>4. \A y \in T : ~ (y < x)
  BY <1>3
<1> QED
  BY <1>4

(* f is FlattenSeq's recursion over the first n members of ss.              *)
Flattens(ss, n, f) ==
  f = [i \in 1 .. n |-> IF i = 1 THEN ss[i] ELSE f[i - 1] \o ss[i]]

LEMMA FlattensExists ==
  ASSUME NEW ss, NEW n \in Nat
  PROVE  \E f : Flattens(ss, n, f)
<1> DEFINE Bad == {m \in Nat : ~ \E f : Flattens(ss, m, f)}
<1> SUFFICES ASSUME Bad # {} PROVE FALSE
  OBVIOUS
<1>1. PICK m \in Bad : \A k \in Bad : m <= k
  <2>1. Bad \in SUBSET Nat
    OBVIOUS
  <2> HIDE DEF Bad
  <2> QED BY <2>1, Least
<1>2. m \in Nat /\ ~ \E f : Flattens(ss, m, f)
  BY <1>1
<1>3. m # 0
  <2> SUFFICES ASSUME m = 0 PROVE FALSE
    OBVIOUS
  <2> DEFINE f == [i \in {} |-> i]
  <2>1. 1 .. 0 = {}
    OBVIOUS
  <2>2. Flattens(ss, 0, f)
    BY <2>1 DEF Flattens
  <2> QED BY <1>2, <2>2
<1>4. m - 1 \in Nat /\ m - 1 \notin Bad
  BY <1>1, <1>2, <1>3
<1>5. PICK g : Flattens(ss, m - 1, g)
  BY <1>4
<1> DEFINE f == [i \in 1 .. m |-> IF i = 1 THEN ss[i] ELSE g[i - 1] \o ss[i]]
<1>6. \A j \in 1 .. m - 1 : f[j] = g[j]
  <2>1. \A j \in 1 .. m - 1 : g[j] = IF j = 1 THEN ss[j] ELSE g[j - 1] \o ss[j]
    BY <1>5 DEF Flattens
  <2> QED BY <1>2, <2>1
<1>7. \A i \in 1 .. m : i # 1 => i - 1 \in 1 .. m - 1
  BY <1>2
<1>8. f = [i \in 1 .. m |-> IF i = 1 THEN ss[i] ELSE f[i - 1] \o ss[i]]
  <2>1. \A i \in 1 .. m : (IF i = 1 THEN ss[i] ELSE g[i - 1] \o ss[i])
                            = (IF i = 1 THEN ss[i] ELSE f[i - 1] \o ss[i])
    <3> HIDE DEF f
    <3> QED BY <1>6, <1>7
  <2> QED BY <2>1
<1>9. Flattens(ss, m, f)
  <2> HIDE DEF f
  <2> QED BY <1>8 DEF Flattens
<1> QED BY <1>2, <1>9

(* The recursion's values are sequences, and they depend on the members so  *)
(* far only.                                                                *)
LEMMA FlattensValues ==
  ASSUME NEW S, NEW ss, NEW n \in Nat, \A i \in 1 .. n : ss[i] \in Seq(S),
         NEW f, Flattens(ss, n, f)
  PROVE  \A i \in 1 .. n : f[i] \in Seq(S)
<1> DEFINE Bad == {i \in 1 .. n : f[i] \notin Seq(S)}
<1> SUFFICES ASSUME Bad # {} PROVE FALSE
  OBVIOUS
<1>1. PICK m \in Bad : \A k \in Bad : m <= k
  <2>1. Bad \in SUBSET Nat
    OBVIOUS
  <2> HIDE DEF Bad
  <2> QED BY <2>1, Least
<1>2. m \in 1 .. n /\ f[m] \notin Seq(S)
  BY <1>1
<1>3. f[m] = IF m = 1 THEN ss[m] ELSE f[m - 1] \o ss[m]
  BY <1>2 DEF Flattens
<1>4. CASE m = 1
  BY <1>2, <1>3, <1>4
<1>5. CASE m # 1
  <2>1. m - 1 \in 1 .. n /\ ~ m <= m - 1
    BY <1>2, <1>5
  <2>2. f[m - 1] \in Seq(S)
    BY <1>1, <2>1
  <2> QED BY <1>2, <1>3, <1>5, <2>2
<1> QED BY <1>4, <1>5

SameStart(ss, tt, n) == \A i \in 1 .. n : ss[i] = tt[i]

LEMMA FlattensAgree ==
  ASSUME NEW ss, NEW tt, NEW n \in Nat, NEW m \in Nat, n <= m,
         SameStart(ss, tt, n),
         NEW f, Flattens(ss, n, f), NEW g, Flattens(tt, m, g)
  PROVE  SameStart(f, g, n)
<1> DEFINE Bad == {i \in 1 .. n : f[i] # g[i]}
<1> SUFFICES ASSUME Bad # {} PROVE FALSE
  BY DEF SameStart
<1>1. PICK k \in Bad : \A j \in Bad : k <= j
  <2>1. Bad \in SUBSET Nat
    OBVIOUS
  <2> HIDE DEF Bad
  <2> QED BY <2>1, Least
<1>2. k \in 1 .. n /\ k \in 1 .. m /\ f[k] # g[k]
  BY <1>1
<1>3. f[k] = IF k = 1 THEN ss[k] ELSE f[k - 1] \o ss[k]
  BY <1>2 DEF Flattens
<1>4. g[k] = IF k = 1 THEN tt[k] ELSE g[k - 1] \o tt[k]
  BY <1>2 DEF Flattens
<1>5. k # 1
  BY <1>2, <1>3, <1>4 DEF SameStart
<1>6. k - 1 \in 1 .. n /\ ~ k <= k - 1
  BY <1>2, <1>5
<1>7. f[k - 1] = g[k - 1]
  BY <1>1, <1>6
<1>8. ss[k] = tt[k]
  BY <1>2 DEF SameStart
<1> QED BY <1>2, <1>3, <1>4, <1>5, <1>7, <1>8

LEMMA FlattenIs ==
  ASSUME NEW S, NEW ss \in Seq(Seq(S)), ss # <<>>
  PROVE  \E f : Flattens(ss, Len(ss), f) /\ FlattenSeq(ss) = f[Len(ss)]
<1> DEFINE Eq(f) == f = [i \in 1 .. Len(ss) |-> IF i = 1 THEN ss[i] ELSE f[i - 1] \o ss[i]]
           F == CHOOSE f : Eq(f)
<1>1. \E f : Eq(f)
  <2> Len(ss) \in Nat
    BY LenProperties
  <2>1. PICK f : Flattens(ss, Len(ss), f)
    BY FlattensExists
  <2> QED BY <2>1 DEF Flattens
<1>2. Eq(F)
  <2> HIDE DEF Eq
  <2> QED BY <1>1
<1>3. FlattenSeq(ss) = F[Len(ss)]
  BY EmptySeq DEF FlattenSeq
<1>4. Flattens(ss, Len(ss), F)
  <2> HIDE DEF F
  <2> QED BY <1>2 DEF Flattens
<1> QED BY <1>3, <1>4

LEMMA FlattenEmpty == FlattenSeq(<<>>) = <<>>
BY DEF FlattenSeq

LEMMA FlattenType ==
  ASSUME NEW S, NEW ss \in Seq(Seq(S))
  PROVE  FlattenSeq(ss) \in Seq(S)
<1>1. CASE ss = <<>>
  <2>1. FlattenSeq(ss) = <<>>
    BY <1>1, FlattenEmpty
  <2> QED BY <2>1
<1>2. CASE ss # <<>>
  <2>1. PICK f : Flattens(ss, Len(ss), f) /\ FlattenSeq(ss) = f[Len(ss)]
    BY <1>2, FlattenIs
  <2>2. \A i \in 1 .. Len(ss) : ss[i] \in Seq(S)
    OBVIOUS
  <2>3. Len(ss) \in 1 .. Len(ss)
    BY <1>2
  <2> QED BY <2>1, <2>2, <2>3, FlattensValues
<1> QED BY <1>1, <1>2

LEMMA FlattenAppend ==
  ASSUME NEW S, NEW ss \in Seq(Seq(S)), NEW s \in Seq(S)
  PROVE  FlattenSeq(Append(ss, s)) = FlattenSeq(ss) \o s
<1> DEFINE tt == Append(ss, s)
           n == Len(ss)
<1>1. /\ tt \in Seq(Seq(S)) /\ tt # <<>> /\ Len(tt) = n + 1 /\ n \in Nat
      /\ \A i \in 1 .. n : tt[i] = ss[i]
      /\ tt[n + 1] = s
  BY AppendProperties, LenProperties
<1> HIDE DEF tt, n
<1>2. PICK g : Flattens(tt, n + 1, g) /\ FlattenSeq(tt) = g[n + 1]
  BY <1>1, FlattenIs
<1>3. n + 1 \in 1 .. n + 1
  BY <1>1
<1>4. g[n + 1] = IF n + 1 = 1 THEN tt[n + 1] ELSE g[n + 1 - 1] \o tt[n + 1]
  <2>1. \A i \in 1 .. n + 1 : g[i] = IF i = 1 THEN tt[i] ELSE g[i - 1] \o tt[i]
    BY <1>2 DEF Flattens
  <2> QED BY <1>1, <1>3, <2>1
<1>5. CASE n = 0
  <2>1. ss = <<>>
    BY <1>5 DEF n
  <2>2. FlattenSeq(tt) = s
    BY <1>1, <1>2, <1>4, <1>5
  <2> QED BY <2>1, <2>2, FlattenEmpty DEF tt
<1>6. CASE n # 0
  <2>1. PICK f : Flattens(ss, n, f) /\ FlattenSeq(ss) = f[n]
    BY <1>6, FlattenIs DEF n
  <2>2. f[n] = g[n]
    <3>1. n \in 1 .. n /\ n <= n + 1 /\ n + 1 \in Nat
      BY <1>1, <1>6
    <3>2. SameStart(ss, tt, n)
      BY <1>1 DEF SameStart
    <3>3. SameStart(f, g, n)
      <4>1. Flattens(tt, n + 1, g) /\ Flattens(ss, n, f)
        BY <1>2, <2>1
      <4> DEFINE m == n + 1
      <4>2. m \in Nat /\ n <= m /\ n \in Nat /\ Flattens(tt, m, g)
        BY <1>1, <3>1, <4>1
      <4> HIDE DEF m
      <4> QED BY <3>2, <4>1, <4>2, FlattensAgree
    <3> QED BY <3>1, <3>3 DEF SameStart
  <2>3. FlattenSeq(tt) = g[n] \o s
    BY <1>1, <1>2, <1>4, <1>6
  <2> QED BY <2>1, <2>2, <2>3 DEF tt
<1> QED BY <1>1, <1>5, <1>6

Associates(s, t, u) == (s \o t) \o u = s \o (t \o u)

LEMMA Associative ==
  ASSUME NEW S, NEW s \in Seq(S), NEW t \in Seq(S), NEW u \in Seq(S)
  PROVE  Associates(s, t, u)
BY ConcatAssociative DEF Associates

(* Concatenation of two lists of sequences.                                 *)
LEMMA FlattenConcat ==
  ASSUME NEW S, NEW ss \in Seq(Seq(S)), NEW tt \in Seq(Seq(S))
  PROVE  FlattenSeq(ss \o tt) = FlattenSeq(ss) \o FlattenSeq(tt)
<1> DEFINE Bad == {n \in 0 .. Len(tt) :
                     FlattenSeq(ss \o SubSeq(tt, 1, n))
                       # FlattenSeq(ss) \o FlattenSeq(SubSeq(tt, 1, n))}
<1>1. ASSUME Bad # {} PROVE FALSE
  <2>1. PICK m \in Bad : \A k \in Bad : m <= k
    <3>1. Bad \in SUBSET Nat
      OBVIOUS
    <3> HIDE DEF Bad
    <3> QED BY <1>1, <3>1, Least
  <2>2. m \in 0 .. Len(tt) /\ FlattenSeq(ss \o SubSeq(tt, 1, m))
                       # FlattenSeq(ss) \o FlattenSeq(SubSeq(tt, 1, m))
    BY <2>1
  <2>3. m # 0
    <3>1. SubSeq(tt, 1, 0) = <<>>
      OBVIOUS
    <3>2. ss \o <<>> = ss /\ FlattenSeq(ss) \o <<>> = FlattenSeq(ss)
      BY FlattenType
    <3> QED BY <2>2, <3>1, <3>2, FlattenEmpty
  <2> DEFINE p == SubSeq(tt, 1, m - 1)
  <2>4. m - 1 \in 0 .. Len(tt) /\ ~ m <= m - 1
    BY <2>2, <2>3
  <2>5. FlattenSeq(ss \o p) = FlattenSeq(ss) \o FlattenSeq(p)
    BY <2>1, <2>4
  <2>6. p \in Seq(Seq(S)) /\ tt[m] \in Seq(S)
    BY <2>2, <2>3, <2>4
  <2>7. SubSeq(tt, 1, m) = Append(p, tt[m])
    BY <2>2, <2>3
  <2> HIDE DEF p
  <2>8. ss \o Append(p, tt[m]) = Append(ss \o p, tt[m]) /\ ss \o p \in Seq(Seq(S))
    <3>1. ss \o p \in Seq(Seq(S)) /\ <<tt[m]>> \in Seq(Seq(S))
      BY <2>6, ConcatProperties
    <3>2. Append(p, tt[m]) = p \o <<tt[m]>>
      BY <2>6, AppendIsConcat
    <3>3. Append(ss \o p, tt[m]) = (ss \o p) \o <<tt[m]>>
      BY <2>6, <3>1, AppendIsConcat
    <3>4. (ss \o p) \o <<tt[m]>> = ss \o (p \o <<tt[m]>>)
      <4> DEFINE e == <<tt[m]>>
      <4>1. ss \in Seq(Seq(S)) /\ p \in Seq(Seq(S)) /\ e \in Seq(Seq(S))
        BY <2>6, <3>1
      <4> HIDE DEF e
      <4>2. Associates(ss, p, e)
        BY <4>1, Associative
      <4> QED BY <4>2 DEF Associates, e
    <3> QED BY <3>1, <3>2, <3>3, <3>4
  <2>9. /\ FlattenSeq(Append(ss \o p, tt[m])) = FlattenSeq(ss \o p) \o tt[m]
        /\ FlattenSeq(Append(p, tt[m])) = FlattenSeq(p) \o tt[m]
    BY <2>6, <2>8, FlattenAppend
  <2>10. /\ FlattenSeq(ss) \in Seq(S) /\ FlattenSeq(p) \in Seq(S)
    BY <2>6, FlattenType
  <2>11. (FlattenSeq(ss) \o FlattenSeq(p)) \o tt[m]
           = FlattenSeq(ss) \o (FlattenSeq(p) \o tt[m])
    <3> DEFINE a == FlattenSeq(ss)
               b == FlattenSeq(p)
               c == tt[m]
    <3>1. a \in Seq(S) /\ b \in Seq(S) /\ c \in Seq(S)
      BY <2>6, <2>10
    <3> HIDE DEF a, b, c
    <3>2. Associates(a, b, c)
      BY <3>1, Associative
    <3> QED BY <3>2 DEF a, b, c, Associates
  <2> QED BY <2>2, <2>5, <2>7, <2>8, <2>9, <2>11
<1>2. Len(tt) \notin Bad /\ Len(tt) \in 0 .. Len(tt)
  BY <1>1
<1>3. SubSeq(tt, 1, Len(tt)) = tt
  OBVIOUS
<1> QED BY <1>2, <1>3
--------------------------------------------------------------------------------
(* The assembly. *)

(* The planner's partitions are consecutive ranges of tasks, from the first *)
(* one on, and the next one starts behind them.                             *)
Behind(i) == IF i = 1 THEN 0 ELSE LastTask(i - 1)

Planned ==
  /\ start \in Nat /\ candidate \in Nat /\ bestEnd \in Nat
  /\ start <= bestEnd /\ bestEnd < candidate
  /\ planning # "done" => bestEnd <= Len(problem.tasks)
  /\ partitions \in Seq(Nat \X Nat)
  /\ \A i \in 1 .. Len(partitions) :
       /\ FirstTask(i) = Behind(i) + 1 /\ FirstTask(i) <= LastTask(i)
       /\ LastTask(i) <= Len(problem.tasks)
  /\ start = Behind(Len(partitions) + 1) + 1

(* Assembly starts when planning is over, and is somewhere in partition at. *)
(* A program is being composed when it is past the partition's first task,  *)
(* and then every task of the partition has a program of its own.           *)
InPartition ==
  /\ planning = "done" /\ at <= Len(partitions)
  /\ leaf \in Behind(at) + 2 .. LastTask(at) + 1
  /\ combined # NoProgram /\ EveryLeafEncodes

BetweenPartitions == leaf = Behind(at) + 1 /\ combined = NoProgram

Placed ==
  status = "assembling" =>
    /\ Len(problem.tasks) = Len(graph.tasks)
    /\ at \in 1 .. Len(partitions) + 1
    /\ planning # "done" => at = 1
    /\ InPartition \/ BetweenPartitions

Encoded ==
  /\ graph \in Graphs
  /\ \A k \in DOMAIN graph.tasks :
       leaves[k] # NoProgram =>
         leaves[k].stages = graph.tasks[k] /\ "stages" \in DOMAIN leaves[k]
  /\ programs \in Seq(ToSet(programs))
  /\ \A i \in DOMAIN programs : programs[i].stages \in Seq(Nat)
  /\ combined # NoProgram => combined.stages \in Seq(Nat) /\ "stages" \in DOMAIN combined

AInv == Planned /\ Placed /\ Encoded /\ EveryStageOnce

(* The planner keeps Planned: the trial partition only grows, and an        *)
(* emitted one begins where the last one ended.                             *)
PlannerStays == <<problem, start, candidate, bestEnd, partitions, planning>>

LEMMA PlannedInit ==
  ASSUME Init
  PROVE  Planned
<1>1. graph.tasks \in Seq(Seq(Nat))
  BY GraphsAssumption DEF Init, Graph
<1>2. Len(problem.tasks) \in Nat
  <2>1. capabilities = <<>> \/ DOMAIN capabilities = 1 .. Len(graph.tasks)
    BY <1>1 DEF Init, Capabilities
  <2>2. \E n \in Nat : DOMAIN capabilities = 1 .. n
    <3>1. capabilities = <<>> => DOMAIN capabilities = 1 .. 0
      OBVIOUS
    <3>2. Len(graph.tasks) \in Nat /\ 0 \in Nat
      BY <1>1
    <3> QED BY <2>1, <3>1, <3>2
  <2>3. problem.tasks = [k \in DOMAIN capabilities |-> Describe(graph, capabilities, k)]
    BY DEF Init, PlanningProblem
  <2> QED BY <2>2, <2>3
<1>3. /\ start = 1 /\ candidate = 2 /\ bestEnd = 1 /\ partitions = <<>>
      /\ planning = IF Len(problem.tasks) = 0 THEN "done" ELSE "extending"
  BY DEF Init, P!Begin, P!Count
<1> QED BY <1>2, <1>3 DEF Planned, Behind

LEMMA PlannedKept ==
  ASSUME Planned, UNCHANGED PlannerStays
  PROVE  Planned'
BY DEF Planned, PlannerStays, Behind, FirstTask, LastTask

LEMMA PlannedNext ==
  ASSUME Planned, Len(problem.tasks) \in Nat, P!Next
  PROVE  Planned' /\ problem' = problem
<1> USE DEF P!Count
<1>1. ASSUME NEW reason, P!Trying, P!Stop(reason)
      PROVE  Planned' /\ problem' = problem
  BY <1>1 DEF Planned, Behind, FirstTask, LastTask, P!Stop, P!Trying
<1>2. CASE P!Extend
  BY <1>2 DEF Planned, Behind, FirstTask, LastTask, P!Extend, P!Trying
<1>3. CASE P!Exhausted
  BY <1>3 DEF Planned, Behind, FirstTask, LastTask, P!Exhausted
<1>4. CASE P!Settle
  <2> PICK n \in Nat : n = Len(partitions)
    BY DEF Planned
  <2> PICK last : last = <<start, bestEnd>>
    OBVIOUS
  <2>1. /\ n \in Nat /\ last \in Nat \X Nat /\ last[1] = start /\ last[2] = bestEnd
        /\ partitions \in Seq(Nat \X Nat) /\ partitions' = Append(partitions, last)
        /\ start \in Nat /\ bestEnd \in Nat /\ bestEnd <= Len(problem.tasks)
        /\ start <= bestEnd
    BY <1>4 DEF Planned, P!Settle
  <2>2. /\ partitions' \in Seq(Nat \X Nat) /\ Len(partitions') = n + 1
        /\ \A i \in 1 .. n : partitions'[i] = partitions[i]
        /\ partitions'[n + 1] = last
    BY <2>1, AppendProperties
  <2>3. /\ problem' = problem /\ start' = bestEnd + 1 /\ bestEnd' = bestEnd + 1
        /\ candidate' = bestEnd + 2
        /\ planning' # "done" => bestEnd # Len(problem.tasks)
    BY <1>4 DEF P!Settle
  <2>4. \A i \in 1 .. n : Behind(i)' = Behind(i)
    BY <2>1, <2>2 DEF Behind, LastTask
  <2>5. Behind(n + 1)' = Behind(n + 1)
    BY <2>1, <2>2 DEF Behind, LastTask
  <2>6. Behind(n + 2)' = bestEnd
    BY <2>1, <2>2 DEF Behind, LastTask
  <2>7. \A i \in 1 .. n + 1 :
          /\ FirstTask(i)' = Behind(i)' + 1 /\ FirstTask(i)' <= LastTask(i)'
          /\ LastTask(i)' <= Len(problem.tasks)
    <3>1. \A i \in 1 .. n :
          /\ FirstTask(i) = Behind(i) + 1 /\ FirstTask(i) <= LastTask(i)
          /\ LastTask(i) <= Len(problem.tasks)
      BY DEF Planned
    <3>2. \A i \in 1 .. n : FirstTask(i)' = FirstTask(i) /\ LastTask(i)' = LastTask(i)
      BY <2>2 DEF FirstTask, LastTask
    <3>3. FirstTask(n + 1)' = start /\ LastTask(n + 1)' = bestEnd
      BY <2>1, <2>2 DEF FirstTask, LastTask
    <3>4. start = Behind(n + 1) + 1
      BY DEF Planned
    <3>5. CASE n + 1 \in 1 .. n + 1
      <4> SUFFICES ASSUME NEW i \in 1 .. n + 1
                   PROVE  /\ FirstTask(i)' = Behind(i)' + 1 /\ FirstTask(i)' <= LastTask(i)'
                          /\ LastTask(i)' <= Len(problem.tasks)
        OBVIOUS
      <4>1. CASE i \in 1 .. n
        BY <2>4, <3>1, <3>2, <4>1
      <4>2. CASE i = n + 1
        BY <2>1, <2>5, <3>3, <3>4, <4>2
      <4> QED BY <2>1, <4>1, <4>2
    <3> QED BY <2>1, <3>5
  <2>8. Behind(Len(partitions) + 1)' = bestEnd
    <3>1. Behind(Len(partitions) + 1)' = Behind(n + 2)'
      BY <2>1, <2>2 DEF Behind, LastTask
    <3> QED BY <2>6, <3>1
  <2> QED BY <2>1, <2>2, <2>3, <2>7, <2>8 DEF Planned
<1>5. CASE P!Done
  BY <1>5, PlannedKept DEF P!Done, P!vars, PlannerStays
<1> QED
  BY <1>1, <1>2, <1>3, <1>4, <1>5
     DEF P!Next, P!NoTaskLimit, P!NoDirectEdge, P!TargetDeclines, P!OverLimit

--------------------------------------------------------------------------------
(* The stages that tasks and programs stand for.                            *)

Upto(n) == [k \in 1 .. n |-> graph.tasks[k]]
StagesOf(ps) == [i \in DOMAIN ps |-> ps[i].stages]

LEMMA TasksType ==
  ASSUME graph \in Graphs
  PROVE  graph.tasks \in Seq(Seq(Nat))
BY GraphsAssumption DEF Graph

LEMMA UptoType ==
  ASSUME graph \in Graphs, NEW n \in 0 .. Len(graph.tasks)
  PROVE  Upto(n) \in Seq(Seq(Nat)) /\ Len(Upto(n)) = n
BY TasksType DEF Upto

LEMMA UptoStep ==
  ASSUME graph \in Graphs, NEW n \in Nat, n < Len(graph.tasks)
  PROVE  FlattenSeq(Upto(n + 1)) = FlattenSeq(Upto(n)) \o graph.tasks[n + 1]
<1>1. graph.tasks \in Seq(Seq(Nat)) /\ n + 1 \in 1 .. Len(graph.tasks)
  BY TasksType
<1>2. graph.tasks[n + 1] \in Seq(Nat) /\ Upto(n) \in Seq(Seq(Nat)) /\ Len(Upto(n)) = n
  BY <1>1, UptoType
<1>3. Upto(n + 1) = Append(Upto(n), graph.tasks[n + 1])
  BY <1>1 DEF Upto
<1> QED BY <1>2, <1>3, FlattenAppend

Concatenates(S, s, t, m, n) ==
  /\ s \o t \in Seq(S)
  /\ Len(s \o t) = m + n
  /\ \A i \in 1 .. m + n : (s \o t)[i] = IF i <= m THEN s[i] ELSE t[i - m]

LEMMA ConcatFacts ==
  ASSUME NEW S, NEW s \in Seq(S), NEW t \in Seq(S), NEW m \in Nat, NEW n \in Nat,
         Len(s) = m, Len(t) = n
  PROVE  Concatenates(S, s, t, m, n)
BY ConcatProperties DEF Concatenates

(* Tasks a to b follow the tasks before a.                                  *)
LEMMA UptoPartition ==
  ASSUME graph \in Graphs, NEW a \in 1 .. Len(graph.tasks), NEW b \in a .. Len(graph.tasks)
  PROVE  LET part == [j \in 1 .. b - a + 1 |-> graph.tasks[a + j - 1]]
         IN /\ part \in Seq(Seq(Nat))
            /\ FlattenSeq(Upto(b)) = FlattenSeq(Upto(a - 1)) \o FlattenSeq(part)
<1> DEFINE part == [j \in 1 .. b - a + 1 |-> graph.tasks[a + j - 1]]
<1>1. graph.tasks \in Seq(Seq(Nat)) /\ Len(graph.tasks) \in Nat
  BY TasksType
<1>2. part \in Seq(Seq(Nat)) /\ Len(part) = b - a + 1
  BY <1>1
<1> DEFINE before == Upto(a - 1)
<1>3. before \in Seq(Seq(Nat)) /\ Len(before) = a - 1
  <2>1. a - 1 \in 0 .. Len(graph.tasks)
    BY <1>1
  <2> QED BY <2>1, UptoType
<1>6. Upto(b) \in Seq(Seq(Nat)) /\ Len(Upto(b)) = b
  <2>1. b \in 0 .. Len(graph.tasks)
    BY <1>1
  <2> QED BY <2>1, UptoType
<1>4. Upto(b) = before \o part
  <2>1. /\ before \o part \in Seq(Seq(Nat))
        /\ Len(before \o part) = b
        /\ \A i \in 1 .. b : (before \o part)[i] =
             IF i <= a - 1 THEN before[i] ELSE part[i - (a - 1)]
    <3> HIDE DEF before, part
    <3>1. (a - 1) + (b - a + 1) = b
      BY <1>1
    <3>2. a - 1 \in Nat /\ b - a + 1 \in Nat
      BY <1>1
    <3>3. Concatenates(Seq(Nat), before, part, a - 1, b - a + 1)
      BY <1>2, <1>3, <3>2, ConcatFacts
    <3> QED BY <3>1, <3>3 DEF Concatenates
  <2>2. \A i \in 1 .. b : Upto(b)[i] = (before \o part)[i]
    <3> SUFFICES ASSUME NEW i \in 1 .. b
                 PROVE  Upto(b)[i] = (before \o part)[i]
      OBVIOUS
    <3>2. i <= a - 1 => before[i] = graph.tasks[i]
      BY <1>1 DEF Upto
    <3>3. ~ i <= a - 1 => part[i - (a - 1)] = graph.tasks[i]
      BY <1>1
    <3>4. Upto(b)[i] = graph.tasks[i]
      BY DEF Upto
    <3> HIDE DEF before, part
    <3> QED BY <2>1, <3>2, <3>3, <3>4
  <2> HIDE DEF part, before
  <2> QED BY <1>6, <2>1, <2>2, SeqEqual
<1> HIDE DEF part
<1>5. FlattenSeq(Upto(b)) = FlattenSeq(Upto(a - 1)) \o FlattenSeq(part)
  <2> HIDE DEF before
  <2>1. FlattenSeq(before \o part) = FlattenSeq(before) \o FlattenSeq(part)
    BY <1>2, <1>3, FlattenConcat
  <2> QED BY <1>4, <2>1 DEF before
<1> QED BY <1>2, <1>5 DEF part

LEMMA StagesAppend ==
  ASSUME NEW S, NEW ps \in Seq(S), \A i \in DOMAIN ps : ps[i].stages \in Seq(Nat),
         NEW e, e.stages \in Seq(Nat)
  PROVE  /\ StagesOf(ps) \in Seq(Seq(Nat))
         /\ FlattenSeq(StagesOf(Append(ps, e))) = FlattenSeq(StagesOf(ps)) \o e.stages
         /\ \A i \in DOMAIN Append(ps, e) : Append(ps, e)[i].stages \in Seq(Nat)
         /\ Append(ps, e) \in Seq(ToSet(Append(ps, e)))
<1>1. Len(ps) \in Nat /\ DOMAIN ps = 1 .. Len(ps)
  OBVIOUS
<1>2. /\ DOMAIN Append(ps, e) = 1 .. Len(ps) + 1
      /\ \A i \in 1 .. Len(ps) : Append(ps, e)[i] = ps[i]
      /\ Append(ps, e)[Len(ps) + 1] = e
  OBVIOUS
<1>3. StagesOf(ps) \in Seq(Seq(Nat)) /\ Len(StagesOf(ps)) = Len(ps)
  BY <1>1 DEF StagesOf
<1>4. StagesOf(Append(ps, e)) = Append(StagesOf(ps), e.stages)
  BY <1>1, <1>2, <1>3 DEF StagesOf
<1>5. Append(ps, e) \in Seq(ToSet(Append(ps, e)))
  <2>1. Append(ps, e) = [i \in 1 .. Len(ps) + 1 |-> Append(ps, e)[i]]
    <3>1. ps \in Seq(S \cup {e}) /\ e \in S \cup {e}
      OBVIOUS
    <3>2. Append(ps, e) \in Seq(S \cup {e})
      BY <3>1, AppendProperties
    <3> DEFINE x == Append(ps, e)
    <3>3. x \in Seq(S \cup {e}) /\ DOMAIN x = 1 .. Len(ps) + 1
      BY <1>2, <3>2
    <3> HIDE DEF x
    <3>4. x = [i \in 1 .. Len(ps) + 1 |-> x[i]]
      BY <3>3
    <3> QED BY <3>4 DEF x
  <2>2. \A i \in 1 .. Len(ps) + 1 : Append(ps, e)[i] \in ToSet(Append(ps, e))
    BY <1>2 DEF ToSet
  <2> QED BY <1>1, <2>1, <2>2
<1>6. \A i \in DOMAIN Append(ps, e) : Append(ps, e)[i].stages \in Seq(Nat)
  BY <1>1, <1>2
<1> QED BY <1>3, <1>4, <1>5, <1>6, FlattenAppend

LEMMA StagesConcat ==
  ASSUME NEW S, NEW ps \in Seq(S), \A i \in DOMAIN ps : ps[i].stages \in Seq(Nat),
         NEW T, NEW qs \in Seq(T), \A i \in DOMAIN qs : qs[i].stages \in Seq(Nat)
  PROVE  /\ FlattenSeq(StagesOf(ps \o qs))
              = FlattenSeq(StagesOf(ps)) \o FlattenSeq(StagesOf(qs))
         /\ \A i \in DOMAIN (ps \o qs) : (ps \o qs)[i].stages \in Seq(Nat)
         /\ ps \o qs \in Seq(ToSet(ps \o qs))
<1>1. /\ Len(ps) \in Nat /\ DOMAIN ps = 1 .. Len(ps)
      /\ Len(qs) \in Nat /\ DOMAIN qs = 1 .. Len(qs)
  OBVIOUS
<1> DEFINE both == ps \o qs
<1>2. /\ DOMAIN both = 1 .. Len(ps) + Len(qs)
      /\ both = [i \in 1 .. Len(ps) + Len(qs) |-> both[i]]
      /\ \A i \in 1 .. Len(ps) + Len(qs) :
           both[i] = IF i <= Len(ps) THEN ps[i] ELSE qs[i - Len(ps)]
  <2>1. ps \in Seq(S \cup T) /\ qs \in Seq(S \cup T)
    OBVIOUS
  <2>2. /\ both \in Seq(S \cup T) /\ Len(both) = Len(ps) + Len(qs)
        /\ \A i \in 1 .. Len(ps) + Len(qs) :
             both[i] = IF i <= Len(ps) THEN ps[i] ELSE qs[i - Len(ps)]
    <3> HIDE DEF both
    <3>1. Concatenates(S \cup T, ps, qs, Len(ps), Len(qs))
      BY <1>1, <2>1, ConcatFacts
    <3> QED BY <3>1 DEF Concatenates, both
  <2> HIDE DEF both
  <2> QED BY <2>2
<1> HIDE DEF both
<1>3. /\ StagesOf(ps) \in Seq(Seq(Nat)) /\ Len(StagesOf(ps)) = Len(ps)
      /\ StagesOf(qs) \in Seq(Seq(Nat)) /\ Len(StagesOf(qs)) = Len(qs)
  BY <1>1 DEF StagesOf
<1>4. \A i \in DOMAIN both : both[i].stages \in Seq(Nat)
  BY <1>1, <1>2
<1>5. StagesOf(both) = StagesOf(ps) \o StagesOf(qs)
  <2>1. StagesOf(both) \in Seq(Seq(Nat)) /\ Len(StagesOf(both)) = Len(ps) + Len(qs)
    BY <1>1, <1>2, <1>4 DEF StagesOf
  <2>2. /\ StagesOf(ps) \o StagesOf(qs) \in Seq(Seq(Nat))
        /\ Len(StagesOf(ps) \o StagesOf(qs)) = Len(ps) + Len(qs)
        /\ \A i \in 1 .. Len(ps) + Len(qs) : (StagesOf(ps) \o StagesOf(qs))[i] =
             IF i <= Len(ps) THEN StagesOf(ps)[i] ELSE StagesOf(qs)[i - Len(ps)]
    <3>1. Concatenates(Seq(Nat), StagesOf(ps), StagesOf(qs), Len(ps), Len(qs))
      BY <1>1, <1>3, ConcatFacts
    <3> QED BY <3>1 DEF Concatenates
  <2>3. \A i \in 1 .. Len(ps) + Len(qs) :
          StagesOf(both)[i] = (StagesOf(ps) \o StagesOf(qs))[i]
    <3> SUFFICES ASSUME NEW i \in 1 .. Len(ps) + Len(qs)
                 PROVE  StagesOf(both)[i] = (StagesOf(ps) \o StagesOf(qs))[i]
      OBVIOUS
    <3>1. StagesOf(both)[i] = both[i].stages
      BY <1>2 DEF StagesOf
    <3>2. i <= Len(ps) => StagesOf(ps)[i] = ps[i].stages
      BY <1>1 DEF StagesOf
    <3>3. ~ i <= Len(ps) => StagesOf(qs)[i - Len(ps)] = qs[i - Len(ps)].stages
      BY <1>1 DEF StagesOf
    <3> QED BY <1>2, <2>2, <3>1, <3>2, <3>3
  <2> QED BY <2>1, <2>2, <2>3, SeqEqual
<1>6. both \in Seq(ToSet(both))
  <2>1. \A i \in 1 .. Len(ps) + Len(qs) : both[i] \in ToSet(both)
    BY <1>2 DEF ToSet
  <2> QED BY <1>1, <1>2, <2>1
<1>7. FlattenSeq(StagesOf(both)) = FlattenSeq(StagesOf(ps)) \o FlattenSeq(StagesOf(qs))
  BY <1>3, <1>5, FlattenConcat
<1> QED BY <1>4, <1>6, <1>7 DEF both

LEMMA EncodeStages ==
  ASSUME NEW ops, NEW stages, NEW inputs, NEW shapes, NEW output, NEW shape, NEW scalars,
         Encode(ops, stages, inputs, shapes, output, shape, scalars) # NoProgram
  PROVE  /\ Encode(ops, stages, inputs, shapes, output, shape, scalars).stages = stages
         /\ "stages" \in DOMAIN Encode(ops, stages, inputs, shapes, output, shape, scalars)
BY DEF Encode

LEMMA ComposeStages ==
  ASSUME NEW p, NEW previous, NEW c, Compose(p, previous, c) # NoProgram,
         "stages" \in DOMAIN p, "stages" \in DOMAIN c
  PROVE  /\ Compose(p, previous, c).stages = p.stages \o c.stages
         /\ "stages" \in DOMAIN Compose(p, previous, c)
BY DEF Compose, OutputScale, InputScale, Chain, Joined

--------------------------------------------------------------------------------
(* Standalone programs: one for each stage, but one for a reciprocal and    *)
(* the multiplication behind it.                                            *)

Position(members, n) == Cardinality({m \in members : m <= n})

LEMMA RankFacts ==
  ASSUME NEW members, members \subseteq Nat, IsFiniteSet(members)
  PROVE  /\ Cardinality(members) \in Nat
         /\ \A n \in members : Position(members, n) \in 1 .. Cardinality(members)
         /\ \A k \in 1 .. Cardinality(members) : \E n \in members : Position(members, n) = k
         /\ \A m, n \in members : Position(members, m) = Position(members, n) => m = n
<1> DEFINE low(n) == {m \in members : m <= n}
           c == Cardinality(members)
           rank == [n \in members |-> Position(members, n)]
<1>1. c \in Nat
  BY FS_CardinalityType
<1>2. \A n \in members : /\ IsFiniteSet(low(n)) /\ Cardinality(low(n)) \in Nat
                         /\ Cardinality(low(n)) <= c
                         /\ Position(members, n) = Cardinality(low(n))
  <2> TAKE n \in members
  <2>1. low(n) \subseteq members
    OBVIOUS
  <2> HIDE DEF low
  <2>2. IsFiniteSet(low(n)) /\ Cardinality(low(n)) <= c
    BY <2>1, FS_Subset
  <2> QED BY <2>2, FS_CardinalityType DEF Position, low
<1>3. \A n \in members : Cardinality(low(n)) >= 1
  <2> TAKE n \in members
  <2>1. n \in low(n)
    OBVIOUS
  <2>2. low(n) # {}
    BY <2>1
  <2> HIDE DEF low
  <2> QED BY <1>2, <2>2, FS_EmptySet
<1>4. \A n \in members : Position(members, n) \in 1 .. c
  <2> HIDE DEF c, low
  <2> QED BY <1>1, <1>2, <1>3
<1>5. \A m, n \in members : m < n => Cardinality(low(m)) < Cardinality(low(n))
  <2> SUFFICES ASSUME NEW m \in members, NEW n \in members, m < n
               PROVE  Cardinality(low(m)) < Cardinality(low(n))
    OBVIOUS
  <2>0. m \in Nat /\ n \in Nat /\ \A x \in members : x \in Nat
    OBVIOUS
  <2>1. low(m) \subseteq low(n) /\ n \in low(n) /\ n \notin low(m)
    <3>1. \A x \in members : x <= m => x <= n
      BY <2>0
    <3>2. ~ n <= m /\ n <= n
      BY <2>0
    <3> QED BY <3>1, <3>2
  <2>2. IsFiniteSet(low(n))
    BY <1>2
  <2> HIDE DEF low
  <2> QED BY <1>2, <2>1, <2>2, FS_Subset
<1>6. \A m, n \in members : Position(members, m) = Position(members, n) => m = n
  <2> SUFFICES ASSUME NEW m \in members, NEW n \in members, m # n
               PROVE  Position(members, m) # Position(members, n)
    OBVIOUS
  <2>1. m < n \/ n < m
    OBVIOUS
  <2> QED
    <3> HIDE DEF low
    <3> QED BY <2>1, <1>2, <1>5
<1>7. rank \in Injection(members, 1 .. c)
  BY <1>4, <1>6 DEF Injection, IsInjective
<1>8. IsFiniteSet(1 .. c) /\ Cardinality(1 .. c) = c
  BY <1>1, FS_Interval
<1>9. rank \in Surjection(members, 1 .. c)
  <2> HIDE DEF rank
  <2> QED BY <1>7, <1>8, FS_Injection
<1>10. \A k \in 1 .. c : \E n \in members : rank[n] = k
  <2> HIDE DEF rank
  <2> QED BY <1>9 DEF Surjection
<1> QED BY <1>1, <1>4, <1>6, <1>10

LEMMA NthFacts ==
  ASSUME NEW members, members \subseteq Nat, IsFiniteSet(members)
  PROVE  /\ \A k \in 1 .. Cardinality(members) : Nth(members, k) \in members
         /\ \A n \in members : /\ Position(members, n) \in 1 .. Cardinality(members)
                              /\ Nth(members, Position(members, n)) = n
<1>1. /\ \A n \in members : Position(members, n) \in 1 .. Cardinality(members)
      /\ \A k \in 1 .. Cardinality(members) : \E n \in members : Position(members, n) = k
      /\ \A m, n \in members : Position(members, m) = Position(members, n) => m = n
  BY RankFacts
<1>2. \A k : Nth(members, k) = CHOOSE n \in members : Position(members, n) = k
  BY DEF Nth, Position
<1>3. \A k \in 1 .. Cardinality(members) :
        Nth(members, k) \in members /\ Position(members, Nth(members, k)) = k
  <2> TAKE k \in 1 .. Cardinality(members)
  <2>1. \E n \in members : Position(members, n) = k
    BY <1>1
  <2> DEFINE x == CHOOSE n \in members : Position(members, n) = k
  <2>2. x \in members /\ Position(members, x) = k
    BY <2>1
  <2>3. Nth(members, k) = x
    BY <1>2
  <2> HIDE DEF x
  <2> QED BY <2>2, <2>3
<1> QED BY <1>1, <1>3

LEMMA PositionStep ==
  ASSUME NEW members, members \subseteq Nat, IsFiniteSet(members), NEW m \in Nat, m # 0
  PROVE  /\ Position(members, m) \in Nat /\ Position(members, m - 1) \in Nat
         /\ Position(members, m) = Position(members, m - 1) + (IF m \in members THEN 1 ELSE 0)
<1> DEFINE low == {p \in members : p <= m - 1}
           upto == {p \in members : p <= m}
<1>1. low \subseteq members /\ upto \subseteq members
  OBVIOUS
<1>2. IsFiniteSet(low) /\ IsFiniteSet(upto)
  BY <1>1, FS_Subset
<1>3. Cardinality(low) \in Nat /\ Cardinality(upto) \in Nat
  BY <1>2, FS_CardinalityType
<1>4. \A p \in members : p <= m <=> (p <= m - 1 \/ p = m)
  OBVIOUS
<1>5. CASE m \in members
  <2>1. upto = low \cup {m} /\ m \notin low
    <3>1. ~ m <= m - 1 /\ m <= m
      OBVIOUS
    <3> QED BY <1>4, <1>5, <3>1
  <2> HIDE DEF low, upto
  <2>2. Cardinality(upto) = Cardinality(low) + 1
    BY <1>2, <2>1, FS_AddElement
  <2> QED BY <1>3, <1>5, <2>2 DEF Position, low, upto
<1>6. CASE m \notin members
  <2>1. upto = low
    BY <1>4, <1>6
  <2> QED BY <1>3, <1>6, <2>1 DEF Position
<1> QED BY <1>5, <1>6

(* The piece at a position, where pairs are the positions taken together    *)
(* with the next one.                                                       *)
Piece(stages, pairs, j) ==
  IF j \in pairs THEN <<stages[j], stages[j + 1]>> ELSE <<stages[j]>>

Extends(s, k, S) ==
  /\ SubSeq(s, 1, k - 1) \in Seq(S)
  /\ SubSeq(s, 1, k) = Append(SubSeq(s, 1, k - 1), s[k])

LEMMA TakeOne ==
  ASSUME NEW S, NEW s \in Seq(S), NEW k \in 1 .. Len(s)
  PROVE  Extends(s, k, S)
BY DEF Extends

LEMMA AppendTwice ==
  ASSUME NEW s \in Seq(Nat), NEW a \in Nat, NEW b \in Nat
  PROVE  Append(Append(s, a), b) = s \o <<a, b>>
OBVIOUS

(* alone are the positions where a piece starts, and q are the pieces.      *)
Pieces(stages, alone, pairs, q) ==
  /\ alone = {j \in 1 .. Len(stages) : j = 1 \/ j - 1 \notin pairs}
  /\ pairs \subseteq 1 .. Len(stages)
  /\ \A j \in alone : j \in pairs => j < Len(stages) /\ j + 1 \notin pairs
  /\ q = [k \in 1 .. Cardinality(alone) |-> Piece(stages, pairs, Nth(alone, k))]

LEMMA PiecesCover ==
  ASSUME NEW stages \in Seq(Nat), NEW alone, NEW pairs, NEW q,
         Pieces(stages, alone, pairs, q)
  PROVE  q \in Seq(Seq(Nat)) /\ FlattenSeq(q) = stages
<1> DEFINE n == Len(stages)
           c == Cardinality(alone)
<1>0. /\ alone = {j \in 1 .. Len(stages) : j = 1 \/ j - 1 \notin pairs}
      /\ pairs \subseteq 1 .. Len(stages)
      /\ \A j \in alone : j \in pairs => j < Len(stages) /\ j + 1 \notin pairs
      /\ q = [k \in 1 .. Cardinality(alone) |-> Piece(stages, pairs, Nth(alone, k))]
  BY DEF Pieces
<1> USE <1>0
<1>1. n \in Nat /\ alone \subseteq 1 .. n /\ alone \subseteq Nat
  OBVIOUS
<1>2. IsFiniteSet(alone)
  <2>1. IsFiniteSet(1 .. n)
    BY <1>1, FS_Interval
  <2> QED BY <1>1, <2>1, FS_Subset
<1>3. c \in Nat
  BY <1>2, FS_CardinalityType
<1>4. \A j \in alone : Piece(stages, pairs, j) \in Seq(Nat)
  <2> TAKE j \in alone
  <2>1. stages[j] \in Nat
    BY <1>1
  <2>2. j \in pairs => stages[j + 1] \in Nat
    BY <1>1
  <2> QED BY <2>1, <2>2 DEF Piece
<1>5. \A k \in 1 .. c : Nth(alone, k) \in alone
  BY <1>1, <1>2, NthFacts
<1>12. \A j \in alone : Position(alone, j) \in 1 .. c /\ Nth(alone, Position(alone, j)) = j
  BY <1>1, <1>2, NthFacts
<1>6. q \in Seq(Seq(Nat)) /\ Len(q) = c
  <2> HIDE DEF c
  <2>1. \A k \in 1 .. c : Piece(stages, pairs, Nth(alone, k)) \in Seq(Nat)
    BY <1>4, <1>5
  <2> QED BY <1>3, <2>1 DEF c
<1> DEFINE To(m) == IF m \in alone /\ m \in pairs THEN m + 1 ELSE m
           Good(m) == /\ Position(alone, m) \in 0 .. c
                      /\ m \in pairs => m \in alone
                      /\ FlattenSeq(SubSeq(q, 1, Position(alone, m))) = SubSeq(stages, 1, To(m))
           Bad == {m \in 0 .. n : ~ Good(m)}
<1>7. ASSUME Bad # {} PROVE FALSE
  <2>1. PICK m \in Bad : \A j \in Bad : m <= j
    <3>1. Bad \in SUBSET Nat
      OBVIOUS
    <3> HIDE DEF Bad
    <3> QED BY <1>7, <3>1, Least
  <2>2. m \in 0 .. n /\ ~ Good(m)
    BY <2>1
  <2>3. m # 0
    <3> SUFFICES ASSUME m = 0 PROVE FALSE
      OBVIOUS
    <3>1. 0 \notin alone /\ 0 \notin pairs
      BY <1>1
    <3>2. {p \in alone : p <= 0} = {}
      BY <1>1
    <3>3. Position(alone, 0) = 0
      BY <3>2, FS_EmptySet DEF Position
    <3>4. SubSeq(q, 1, 0) = <<>> /\ SubSeq(stages, 1, 0) = <<>>
      BY SubSeqEmpty
    <3>5. Good(0)
      <4>1. To(0) = 0 /\ 0 \in 0 .. c
        BY <1>3, <3>1
      <4>2. FlattenSeq(SubSeq(q, 1, Position(alone, 0))) = SubSeq(stages, 1, To(0))
        BY <3>3, <3>4, <4>1, FlattenEmpty
      <4> HIDE DEF To, c
      <4> QED BY <3>1, <3>3, <4>1, <4>2
    <3> QED BY <2>2, <3>5
  <2>4. m \in Nat /\ m - 1 \in 0 .. n /\ ~ m <= m - 1
    BY <1>1, <2>2, <2>3
  <2>5. Good(m - 1)
    BY <2>1, <2>4
  <2>6. /\ Position(alone, m) \in Nat /\ Position(alone, m - 1) \in Nat
        /\ Position(alone, m) = Position(alone, m - 1) + (IF m \in alone THEN 1 ELSE 0)
    BY <1>1, <1>2, <2>3, <2>4, PositionStep, SMTT(60)
  <2>7. CASE m \in alone
    <3> DEFINE k == Position(alone, m)
               p == SubSeq(q, 1, k - 1)
               s == Piece(stages, pairs, m)
    <3>1. k \in 1 .. c /\ Nth(alone, k) = m /\ k - 1 = Position(alone, m - 1)
      <4>1. k \in 1 .. c /\ Nth(alone, k) = m
        BY <1>12, <2>7
      <4>2. k = Position(alone, m - 1) + 1
        BY <2>6, <2>7
      <4> HIDE DEF k, c
      <4> QED BY <2>6, <4>1, <4>2
    <3>2. q[k] = s
      BY <3>1
    <3>3. ~ (m - 1 \in alone /\ m - 1 \in pairs)
      BY <1>1, <2>3, <2>7
    <3>4. FlattenSeq(p) = SubSeq(stages, 1, m - 1)
      BY <2>5, <3>1, <3>3
    <3>5. SubSeq(q, 1, k) = Append(p, s) /\ p \in Seq(Seq(Nat)) /\ s \in Seq(Nat)
      <4>1. s \in Seq(Nat)
        BY <1>4, <2>7
      <4> HIDE DEF s, k
      <4>2. k \in 1 .. Len(q) /\ q[k] = s
        BY <1>6, <3>1, <3>2
      <4>3. Extends(q, k, Seq(Nat))
        BY <1>6, <4>2, TakeOne
      <4> QED BY <4>1, <4>2, <4>3 DEF Extends
    <3>6. FlattenSeq(SubSeq(q, 1, k)) = SubSeq(stages, 1, m - 1) \o s
      <4> HIDE DEF s, p, k
      <4> QED BY <3>4, <3>5, FlattenAppend
    <3>7. SubSeq(stages, 1, m - 1) \o s = SubSeq(stages, 1, To(m))
      <4>1. CASE m \in pairs
        <5>1. m < n /\ s = <<stages[m], stages[m + 1]>> /\ To(m) = m + 1
          BY <2>7, <4>1 DEF Piece
        <5>2. m \in 1 .. n /\ m + 1 \in 1 .. n /\ (m + 1) - 1 = m
          BY <1>1, <2>7, <5>1
        <5>3. Extends(stages, m, Nat) /\ Extends(stages, m + 1, Nat)
          BY <5>2, TakeOne
        <5>4. SubSeq(stages, 1, m + 1)
                = Append(Append(SubSeq(stages, 1, m - 1), stages[m]), stages[m + 1])
          BY <5>2, <5>3 DEF Extends
        <5>5. SubSeq(stages, 1, m - 1) \in Seq(Nat)
          BY <5>3 DEF Extends
        <5>6. stages[m] \in Nat /\ stages[m + 1] \in Nat
          BY <5>2
        <5> QED BY <5>1, <5>4, <5>5, <5>6, AppendTwice
      <4>2. CASE m \notin pairs
        <5>1. s = <<stages[m]>> /\ To(m) = m
          BY <4>2 DEF Piece
        <5> QED BY <1>1, <2>4, <2>7, <5>1
      <4> QED BY <4>1, <4>2
    <3>8. Good(m)
      <4>1. Position(alone, m) \in 0 .. c
        BY <1>3, <3>1
      <4>2. FlattenSeq(SubSeq(q, 1, Position(alone, m))) = SubSeq(stages, 1, To(m))
        BY <3>6, <3>7
      <4> HIDE DEF To, c
      <4> QED BY <2>7, <4>1, <4>2
    <3> QED BY <2>2, <3>8
  <2>8. CASE m \notin alone
    <3>1. m # 1 /\ m - 1 \in pairs
      BY <2>2, <2>3, <2>8
    <3>2. m - 1 \in alone
      BY <2>5, <3>1
    <3>3. m \notin pairs
      BY <2>4, <3>1, <3>2
    <3>4. To(m - 1) = m /\ To(m) = m /\ Position(alone, m) = Position(alone, m - 1)
      BY <2>4, <2>6, <2>8, <3>1, <3>2, <3>3
    <3>5. Good(m)
      BY <2>5, <3>3, <3>4
    <3> QED BY <2>2, <3>5
  <2> QED BY <2>7, <2>8
<1>8. Good(n)
  <2>1. n \in 0 .. n
    BY <1>1
  <2> QED BY <1>7, <2>1
<1>9. n \notin pairs
  BY <1>1, <1>8
<1>10. Position(alone, n) = c
  <2>1. {p \in alone : p <= n} = alone
    BY <1>1
  <2> QED BY <2>1 DEF Position
<1>11. SubSeq(q, 1, c) = q /\ SubSeq(stages, 1, n) = stages
  BY <1>6, SubSeqFull
<1> QED BY <1>6, <1>8, <1>9, <1>10, <1>11

(* A reciprocal without a multiplication behind it has no program.          *)
LEMMA StandaloneStages ==
  ASSUME NEW stages \in Seq(Nat), NEW j \in 1 .. Len(stages),
         StandaloneStage(stages, j) # NoProgram
  PROVE  IF NodeOf(graph, stages[j]).op = "reciprocal"
           THEN /\ j < Len(stages) /\ NodeOf(graph, stages[j + 1]).op = "mul"
                /\ StandaloneStage(stages, j).stages = <<stages[j], stages[j + 1]>>
           ELSE StandaloneStage(stages, j).stages = <<stages[j]>>
<1>1. \A ops, st, inputs, output, scalars :
        Primitive(ops, st, inputs, output, scalars) # NoProgram =>
          Primitive(ops, st, inputs, output, scalars).stages = st
  BY EncodeStages DEF Primitive
<1>2. CASE NodeOf(graph, stages[j]).op = "reciprocal"
  <2>1. j # Len(stages) /\ StandaloneStage(stages, j) = Division(stages[j], stages[j + 1])
    BY <1>2 DEF StandaloneStage
  <2>2. NodeOf(graph, stages[j + 1]).op = "mul"
    BY <2>1 DEF Division
  <2>3. \E inputs : Division(stages[j], stages[j + 1])
          = Primitive(<<"real_div">>, <<stages[j], stages[j + 1]>>, inputs, stages[j + 1], <<>>)
    BY <2>1 DEF Division
  <2> QED BY <1>1, <1>2, <2>1, <2>2, <2>3
<1>3. CASE NodeOf(graph, stages[j]).op # "reciprocal"
  <2>1. \E inputs, scalars : StandaloneStage(stages, j)
          = Primitive(<<NodeOf(graph, stages[j]).op>>, <<stages[j]>>, inputs, stages[j], scalars)
    BY <1>3 DEF StandaloneStage
  <2> QED BY <1>1, <1>3, <2>1
<1> QED BY <1>2, <1>3

--------------------------------------------------------------------------------
(* The assembly keeps AInv. *)

LEMMA EncodedInit ==
  ASSUME Init
  PROVE  AInv
<1>1. Planned
  BY PlannedInit
<1>2. graph \in Graphs /\ graph.tasks \in Seq(Seq(Nat))
  BY TasksType DEF Init
<1>3. Placed
  <2>1. SUFFICES ASSUME status = "assembling" PROVE Placed
    BY DEF Placed
  <2>2. Len(capabilities) = Len(graph.tasks)
    BY <2>1 DEF Init
  <2>3. DOMAIN capabilities = 1 .. Len(graph.tasks)
    <3>1. CASE EveryTaskCapable(graph)
      BY <1>2, <3>1 DEF Init, Capabilities
    <3>2. CASE ~ EveryTaskCapable(graph)
      <4>1. capabilities = <<>>
        BY <3>2 DEF Init, Capabilities
      <4>2. Len(graph.tasks) = 0
        BY <2>2, <4>1
      <4> QED BY <4>1, <4>2
    <3> QED BY <3>1, <3>2
  <2>4. problem.tasks = [k \in DOMAIN capabilities |-> Describe(graph, capabilities, k)]
    BY DEF Init, PlanningProblem
  <2>5. Len(problem.tasks) = Len(graph.tasks)
    BY <1>2, <2>3, <2>4
  <2>6. partitions = <<>> /\ at = 1 /\ leaf = 1 /\ combined = NoProgram
    BY DEF Init, P!Begin
  <2> QED BY <2>5, <2>6 DEF Placed, BetweenPartitions, Behind
<1>4. Encoded
  <2>1. \A k \in DOMAIN graph.tasks :
          leaves[k] # NoProgram =>
            leaves[k].stages = graph.tasks[k] /\ "stages" \in DOMAIN leaves[k]
    <3> SUFFICES ASSUME NEW k \in DOMAIN graph.tasks, leaves[k] # NoProgram
                 PROVE  leaves[k].stages = graph.tasks[k] /\ "stages" \in DOMAIN leaves[k]
      OBVIOUS
    <3>1. leaves[k] = Leaf(k)
      BY DEF Init
    <3>2. \E ops, inputs, shapes, output, shape, scalars :
            Leaf(k) = Encode(ops, graph.tasks[k], inputs, shapes, output, shape, scalars)
      BY DEF Leaf
    <3> QED BY <3>1, <3>2, EncodeStages
  <2>2. programs = <<>> /\ combined = NoProgram
    BY DEF Init
  <2> QED BY <1>2, <2>1, <2>2 DEF Encoded
<1>5. EveryStageOnce
  <2>1. programs = <<>> /\ combined = NoProgram /\ leaf = 1
    BY DEF Init
  <2>2. StagesOf(programs) = <<>> /\ Upto(0) = <<>> /\ leaf - 1 = 0
    BY <2>1 DEF StagesOf, Upto
  <2>3. Emitted = <<>> /\ FlattenSeq(Upto(leaf - 1)) = <<>>
    BY <2>2, FlattenEmpty DEF Emitted, StagesOf
  <2> QED BY <2>1, <2>3 DEF EveryStageOnce, Upto
<1> QED BY <1>1, <1>3, <1>4, <1>5 DEF AInv

LEMMA AInvKept ==
  ASSUME AInv, UNCHANGED compilerVars
  PROVE  AInv'
<1>1. /\ UNCHANGED PlannerStays
      /\ graph' = graph /\ leaves' = leaves /\ at' = at /\ leaf' = leaf
      /\ combined' = combined /\ programs' = programs /\ status' = status
  BY DEF compilerVars, PlannerStays
<1>2. partitions' = partitions /\ planning' = planning /\ problem' = problem
  BY <1>1 DEF PlannerStays
<1>3. Planned'
  BY <1>1, PlannedKept DEF AInv
<1>4. Placed'
  BY <1>1, <1>2
     DEF AInv, Placed, InPartition, BetweenPartitions, Behind, FirstTask, LastTask,
         EveryLeafEncodes
<1>5. Encoded'
  BY <1>1 DEF AInv, Encoded
<1>6. EveryStageOnce'
  BY <1>1 DEF AInv, EveryStageOnce, Emitted
<1> QED BY <1>3, <1>4, <1>5, <1>6 DEF AInv

(* What partition at holds, while it is being assembled.                    *)
LEMMA PartitionFacts ==
  ASSUME AInv, Ready
  PROVE  /\ at \in 1 .. Len(partitions) /\ Len(partitions) \in Nat
         /\ FirstTask(at) \in 1 .. Len(graph.tasks)
         /\ LastTask(at) \in FirstTask(at) .. Len(graph.tasks)
         /\ FirstTask(at) = Behind(at) + 1 /\ Behind(at) \in Nat
         /\ PartitionStages(at) \in Seq(Nat)
         /\ FlattenSeq(Upto(LastTask(at)))
              = FlattenSeq(Upto(FirstTask(at) - 1)) \o PartitionStages(at)
<1>1. /\ Planned /\ Placed /\ Encoded /\ status = "assembling" /\ planning = "done"
      /\ graph \in Graphs
  BY DEF AInv, Ready, Encoded
<1>2. /\ at \in 1 .. Len(partitions) /\ Len(partitions) \in Nat
      /\ Len(problem.tasks) = Len(graph.tasks)
  BY <1>1 DEF Placed, Ready, Planned
<1>3. \A i \in 1 .. Len(partitions) : FirstTask(i) \in Nat /\ LastTask(i) \in Nat
  BY <1>1 DEF Planned, FirstTask, LastTask
<1>4. Behind(at) \in Nat
  BY <1>2, <1>3 DEF Behind
<1>5. /\ FirstTask(at) = Behind(at) + 1 /\ FirstTask(at) <= LastTask(at)
      /\ LastTask(at) <= Len(graph.tasks)
  BY <1>1, <1>2 DEF Planned
<1>6. Len(graph.tasks) \in Nat
  BY <1>1, TasksType
<1>7. /\ FirstTask(at) \in 1 .. Len(graph.tasks)
      /\ LastTask(at) \in FirstTask(at) .. Len(graph.tasks)
  BY <1>2, <1>3, <1>4, <1>5, <1>6
<1> DEFINE part == [j \in 1 .. LastTask(at) - FirstTask(at) + 1 |->
                      graph.tasks[FirstTask(at) + j - 1]]
<1>8. /\ part \in Seq(Seq(Nat))
      /\ FlattenSeq(Upto(LastTask(at)))
           = FlattenSeq(Upto(FirstTask(at) - 1)) \o FlattenSeq(part)
  BY <1>1, <1>7, UptoPartition
<1>9. PartitionStages(at) = FlattenSeq(part)
  BY DEF PartitionStages
<1>10. PartitionStages(at) \in Seq(Nat)
  <2> HIDE DEF part
  <2> QED BY <1>8, <1>9, FlattenType
<1> QED BY <1>2, <1>4, <1>5, <1>7, <1>8, <1>9, <1>10

LEMMA StandaloneCovers ==
  ASSUME NEW i, PartitionStages(i) \in Seq(Nat), NoProgram \notin ToSet(Standalone(i))
  PROVE  /\ \E S : Standalone(i) \in Seq(S)
         /\ \A k \in DOMAIN Standalone(i) : Standalone(i)[k].stages \in Seq(Nat)
         /\ FlattenSeq(StagesOf(Standalone(i))) = PartitionStages(i)
<1> PICK stages \in Seq(Nat) : stages = PartitionStages(i)
  OBVIOUS
<1> DEFINE alone == {j \in DOMAIN stages :
                       j = 1 \/ NodeOf(graph, stages[j - 1]).op # "reciprocal"}
           pairs == {j \in 1 .. Len(stages) : NodeOf(graph, stages[j]).op = "reciprocal"}
           c == Cardinality(alone)
           ps == [k \in 1 .. c |-> StandaloneStage(stages, Nth(alone, k))]
           q == [k \in 1 .. c |-> Piece(stages, pairs, Nth(alone, k))]
<1>1. Standalone(i) = ps
  BY DEF Standalone
<1>2. DOMAIN stages = 1 .. Len(stages) /\ Len(stages) \in Nat
  OBVIOUS
<1>3. alone = {j \in 1 .. Len(stages) : j = 1 \/ j - 1 \notin pairs}
  <2>1. \A j \in 1 .. Len(stages) : j # 1 => j - 1 \in 1 .. Len(stages)
    BY <1>2
  <2> QED BY <1>2, <2>1
<1>4. alone \subseteq Nat /\ alone \subseteq 1 .. Len(stages) /\ IsFiniteSet(alone)
  <2>1. alone \subseteq 1 .. Len(stages) /\ alone \subseteq Nat
    BY <1>2
  <2>2. IsFiniteSet(1 .. Len(stages))
    BY <1>2, FS_Interval
  <2> HIDE DEF alone
  <2> QED BY <2>1, <2>2, FS_Subset
<1>5. c \in Nat
  BY <1>4, FS_CardinalityType
<1>6. /\ \A k \in 1 .. c : Nth(alone, k) \in alone
      /\ \A j \in alone : Position(alone, j) \in 1 .. c /\ Nth(alone, Position(alone, j)) = j
  <2> HIDE DEF alone
  <2> QED BY <1>4, NthFacts
<1>7. \A k \in 1 .. c : StandaloneStage(stages, Nth(alone, k)) # NoProgram
  <2> SUFFICES ASSUME NEW k \in 1 .. c,
                      StandaloneStage(stages, Nth(alone, k)) = NoProgram
               PROVE  FALSE
    OBVIOUS
  <2>1. ps[k] = NoProgram /\ k \in DOMAIN ps
    OBVIOUS
  <2> HIDE DEF ps
  <2>2. NoProgram \in ToSet(ps)
    BY <2>1 DEF ToSet
  <2> QED BY <1>1, <2>2
<1>8. \A j \in alone : StandaloneStage(stages, j) # NoProgram
  <2> TAKE j \in alone
  <2> HIDE DEF alone, c
  <2> QED BY <1>6, <1>7
<1>9. \A j \in alone :
        /\ StandaloneStage(stages, j).stages = Piece(stages, pairs, j)
        /\ j \in pairs => j < Len(stages) /\ j + 1 \notin pairs
  <2> TAKE j \in alone
  <2>1. /\ j \in 1 .. Len(stages) /\ StandaloneStage(stages, j) # NoProgram
    BY <1>4, <1>8
  <2>2. IF NodeOf(graph, stages[j]).op = "reciprocal"
          THEN /\ j < Len(stages) /\ NodeOf(graph, stages[j + 1]).op = "mul"
               /\ StandaloneStage(stages, j).stages = <<stages[j], stages[j + 1]>>
          ELSE StandaloneStage(stages, j).stages = <<stages[j]>>
    BY <2>1, StandaloneStages
  <2> HIDE DEF alone
  <2> QED BY <2>1, <2>2 DEF Piece
<1>10. q \in Seq(Seq(Nat)) /\ FlattenSeq(q) = stages
  <2>1. pairs \subseteq 1 .. Len(stages)
    OBVIOUS
  <2>2. q = [k \in 1 .. Cardinality(alone) |-> Piece(stages, pairs, Nth(alone, k))]
    OBVIOUS
  <2>3. \A j \in alone : j \in pairs => j < Len(stages) /\ j + 1 \notin pairs
    BY <1>9
  <2> HIDE DEF alone, pairs, q
  <2>4. Pieces(stages, alone, pairs, q)
    BY <1>3, <2>1, <2>2, <2>3 DEF Pieces
  <2> QED BY <2>4, PiecesCover
<1>11. StagesOf(ps) = q
  <2>1. \A k \in 1 .. c : ps[k].stages = Piece(stages, pairs, Nth(alone, k))
    <3> HIDE DEF alone, pairs, c
    <3> QED BY <1>6, <1>9
  <2> HIDE DEF alone, pairs, c
  <2> QED BY <2>1 DEF StagesOf
<1>12. \A k \in 1 .. c : q[k] \in Seq(Nat)
  <2>1. DOMAIN q = 1 .. c
    OBVIOUS
  <2> HIDE DEF q, c
  <2>2. q \in Seq(Seq(Nat)) /\ DOMAIN q = 1 .. Len(q)
    BY <1>10, LenProperties
  <2> QED BY <2>1, <2>2, ElementOfSeq
<1>13. \A k \in DOMAIN ps : ps[k].stages \in Seq(Nat)
  <2>1. \A k \in 1 .. c : StagesOf(ps)[k] = ps[k].stages
    <3> HIDE DEF alone, c
    <3> QED BY DEF StagesOf
  <2>2. DOMAIN ps = 1 .. c
    OBVIOUS
  <2> HIDE DEF ps, q, c
  <2> QED BY <1>11, <1>12, <2>1, <2>2
<1>14. \E S : ps \in Seq(S)
  <2> DEFINE S == {StandaloneStage(stages, Nth(alone, k)) : k \in 1 .. c}
  <2>1. ps \in Seq(S)
    <3>1. \A k \in 1 .. c : StandaloneStage(stages, Nth(alone, k)) \in S
      OBVIOUS
    <3> HIDE DEF S, alone, c
    <3> QED BY <1>5, <3>1
  <2> QED BY <2>1
<1> HIDE DEF ps, q
<1> QED BY <1>1, <1>10, <1>11, <1>13, <1>14

LEMMA AssembleStep ==
  ASSUME AInv, Assemble
  PROVE  AInv'
<1> DEFINE a == FirstTask(at)
           b == LastTask(at)
           T(n) == FlattenSeq(Upto(n))
           E == FlattenSeq(StagesOf(programs))
<1>1. /\ status = "assembling" /\ graph' = graph /\ leaves' = leaves
      /\ Planned /\ Placed /\ Encoded /\ graph \in Graphs
      /\ graph.tasks \in Seq(Seq(Nat)) /\ Len(graph.tasks) \in Nat
  <2>1. status = "assembling"
    BY DEF Assemble, Plan, EmitRegion, EmitStandalone, Decline, FirstLeaf, ComposeLeaf,
           SplitLeaf, EmitCombined, Finish, Opening, Inside, Ready
  <2>2. UNCHANGED <<graph, leaves>>
    BY DEF Assemble, Plan, EmitRegion, EmitStandalone, Decline, FirstLeaf, ComposeLeaf,
           SplitLeaf, EmitCombined, Finish, givenVars
  <2> QED BY <2>1, <2>2, TasksType DEF AInv, Encoded
<1>2. E \o (IF combined = NoProgram THEN <<>> ELSE combined.stages) = T(leaf - 1)
  BY <1>1 DEF AInv, EveryStageOnce, Emitted, StagesOf, Upto
<1>3. ASSUME FlattenSeq(StagesOf(programs'))
                 \o (IF combined' = NoProgram THEN <<>> ELSE combined'.stages)
               = FlattenSeq(Upto(leaf' - 1))
      PROVE  EveryStageOnce'
  BY <1>1, <1>3 DEF EveryStageOnce, Emitted, StagesOf, Upto
<1>4. /\ programs \in Seq(ToSet(programs))
      /\ \A i \in DOMAIN programs : programs[i].stages \in Seq(Nat)
  BY <1>1 DEF Encoded
<1>5. StagesOf(programs) \in Seq(Seq(Nat)) /\ E \in Seq(Nat)
  <2>1. StagesOf(programs) \in Seq(Seq(Nat))
    BY <1>4 DEF StagesOf
  <2> QED BY <2>1, FlattenType
<1>6. ASSUME UNCHANGED plannerVars
      PROVE  /\ Planned' /\ planning' = planning /\ problem' = problem
             /\ partitions' = partitions
  BY <1>1, <1>6, PlannedKept DEF plannerVars, PlannerStays
<1>7. CASE Plan
  <2>1. /\ at' = at /\ leaf' = leaf /\ combined' = combined /\ programs' = programs
        /\ status' = status /\ planning # "done" /\ P!Next
    BY <1>7 DEF Plan
  <2>2. Len(problem.tasks) = Len(graph.tasks) /\ at = 1 /\ BetweenPartitions
    BY <1>1, <2>1 DEF Placed, InPartition
  <2>3. Planned' /\ problem' = problem
    BY <1>1, <2>1, <2>2, PlannedNext
  <2>4. Placed'
    BY <1>1, <2>1, <2>2, <2>3 DEF Placed, BetweenPartitions, Behind, Planned
  <2>5. Encoded' /\ EveryStageOnce'
    BY <1>1, <2>1 DEF AInv, Encoded, EveryStageOnce, Emitted
  <2> QED BY <2>3, <2>4, <2>5 DEF AInv
<1>8. ASSUME Ready
      PROVE  /\ at \in 1 .. Len(partitions) /\ Len(partitions) \in Nat
             /\ a \in 1 .. Len(graph.tasks) /\ b \in a .. Len(graph.tasks)
             /\ a = Behind(at) + 1 /\ Behind(at) \in Nat
             /\ PartitionStages(at) \in Seq(Nat)
             /\ T(b) = T(a - 1) \o PartitionStages(at)
             /\ planning = "done"
             /\ Len(problem.tasks) = Len(graph.tasks)
  BY <1>1, <1>8, PartitionFacts DEF Ready, Placed
<1>9. ASSUME NEW n \in 0 .. Len(graph.tasks)
      PROVE  T(n) \in Seq(Nat)
  BY <1>1, <1>9, UptoType, FlattenType
<1>10. ASSUME Ready, NextPartition, UNCHANGED plannerVars, UNCHANGED status
       PROVE  Placed'
  <2>1. at' = at + 1 /\ leaf' = b + 1 /\ combined' = NoProgram
    BY <1>10 DEF NextPartition
  <2>2. /\ planning' = "done" /\ problem' = problem /\ partitions' = partitions
        /\ at \in 1 .. Len(partitions) /\ Len(partitions) \in Nat
        /\ Len(problem.tasks) = Len(graph.tasks)
    BY <1>6, <1>8, <1>10
  <2>3. Behind(at)' = b
    BY <2>1, <2>2 DEF Behind, LastTask
  <2> HIDE DEF b
  <2> QED BY <1>1, <2>1, <2>2, <2>3 DEF Placed, BetweenPartitions
<1>11. ASSUME Opening
       PROVE  /\ combined = NoProgram /\ E = T(a - 1) /\ leaf = a
  <2>1. leaf = a /\ Ready
    BY <1>11 DEF Opening
  <2>2. combined = NoProgram
    <3>1. Behind(at) \in Nat /\ a = Behind(at) + 1
      BY <1>8, <2>1
    <3> HIDE DEF a, b
    <3> QED BY <1>1, <2>1, <3>1 DEF Placed, InPartition, BetweenPartitions
  <2>3. E \o <<>> = E
    <3> HIDE DEF E
    <3> QED BY <1>5
  <2> HIDE DEF E, a, T
  <2> QED BY <1>2, <2>1, <2>2, <2>3
<1>12. CASE EmitRegion
  <2>1. /\ Opening /\ NextPartition /\ UNCHANGED plannerVars /\ UNCHANGED status /\ Ready
    BY <1>12 DEF EmitRegion, Opening
  <2>2. PICK e \in Regions(at) : programs' = Append(programs, e)
    BY <1>12 DEF EmitRegion
  <2>3. e.stages = PartitionStages(at)
    <3>1. \E inputs, v : e = RegionProgram(PartitionStages(at), inputs, v)
      BY DEF Regions
    <3> QED BY <3>1 DEF RegionProgram
  <2>4. /\ FlattenSeq(StagesOf(programs')) = E \o PartitionStages(at)
        /\ \A i \in DOMAIN programs' : programs'[i].stages \in Seq(Nat)
        /\ programs' \in Seq(ToSet(programs'))
    BY <1>4, <1>8, <2>1, <2>2, <2>3, StagesAppend
  <2>5. leaf' = b + 1 /\ combined' = NoProgram
    BY <2>1 DEF NextPartition
  <2>6. FlattenSeq(StagesOf(programs')) = T(leaf' - 1) /\ T(leaf' - 1) \in Seq(Nat)
    <3>1. b + 1 - 1 = b /\ b \in 0 .. Len(graph.tasks)
      BY <1>1, <1>8, <2>1
    <3>2. E = T(a - 1) /\ T(b) = T(a - 1) \o PartitionStages(at)
      BY <1>8, <1>11, <2>1
    <3>3. T(b) \in Seq(Nat)
      BY <1>9, <3>1
    <3> HIDE DEF T, E, a, b
    <3>4. T(leaf' - 1) = T(b)
      BY <2>5, <3>1
    <3> QED BY <2>4, <3>2, <3>3, <3>4
  <2>7. EveryStageOnce'
    BY <1>3, <2>5, <2>6
  <2>8. Encoded'
    BY <1>1, <2>4, <2>5 DEF Encoded
  <2> QED BY <1>6, <1>10, <2>1, <2>7, <2>8 DEF AInv
<1>13. CASE EmitStandalone
  <2>1. /\ Opening /\ NextPartition /\ UNCHANGED plannerVars /\ UNCHANGED status /\ Ready
        /\ NoProgram \notin ToSet(Standalone(at)) /\ programs' = programs \o Standalone(at)
    BY <1>13 DEF EmitStandalone, Opening
  <2>2. /\ \E S : Standalone(at) \in Seq(S)
        /\ \A k \in DOMAIN Standalone(at) : Standalone(at)[k].stages \in Seq(Nat)
        /\ FlattenSeq(StagesOf(Standalone(at))) = PartitionStages(at)
    BY <1>8, <2>1, StandaloneCovers
  <2>4. /\ FlattenSeq(StagesOf(programs')) = E \o PartitionStages(at)
        /\ \A i \in DOMAIN programs' : programs'[i].stages \in Seq(Nat)
        /\ programs' \in Seq(ToSet(programs'))
    <3> PICK S : Standalone(at) \in Seq(S)
      BY <2>2
    <3> QED BY <1>4, <2>1, <2>2, StagesConcat
  <2>5. leaf' = b + 1 /\ combined' = NoProgram
    BY <2>1 DEF NextPartition
  <2>6. FlattenSeq(StagesOf(programs')) = T(leaf' - 1) /\ T(leaf' - 1) \in Seq(Nat)
    <3>1. b + 1 - 1 = b /\ b \in 0 .. Len(graph.tasks)
      BY <1>1, <1>8, <2>1
    <3>2. E = T(a - 1) /\ T(b) = T(a - 1) \o PartitionStages(at)
      BY <1>8, <1>11, <2>1
    <3>3. T(b) \in Seq(Nat)
      BY <1>9, <3>1
    <3> HIDE DEF T, E, a, b
    <3>4. T(leaf' - 1) = T(b)
      BY <2>5, <3>1
    <3> QED BY <2>4, <3>2, <3>3, <3>4
  <2>7. EveryStageOnce'
    BY <1>3, <2>5, <2>6
  <2>8. Encoded'
    BY <1>1, <2>4, <2>5 DEF Encoded
  <2> QED BY <1>6, <1>10, <2>1, <2>7, <2>8 DEF AInv
<1>14. CASE Decline
  <2>1. /\ UNCHANGED plannerVars /\ combined' = combined /\ programs' = programs
        /\ status' = "declined"
    BY <1>14 DEF Decline
  <2> QED BY <1>1, <1>6, <2>1 DEF AInv, Placed, Encoded, EveryStageOnce
<1>15. CASE Finish
  <2>1. /\ UNCHANGED plannerVars /\ combined' = combined /\ programs' = programs
        /\ status' = "assembled" /\ leaf' = leaf
    BY <1>15 DEF Finish
  <2>2. EveryStageOnce'
    BY <1>1, <1>2, <1>3, <2>1 DEF StagesOf
  <2> QED BY <1>1, <1>6, <2>1, <2>2 DEF AInv, Placed, Encoded
(* The step from leaf to leaf + 1 inside partition at.                      *)
<1>16. ASSUME Ready, leaf \in a .. b, UNCHANGED plannerVars, UNCHANGED <<at, status>>,
              leaf' = leaf + 1, combined' # NoProgram, EveryLeafEncodes
       PROVE  Placed' /\ T(leaf' - 1) = T(leaf - 1) \o graph.tasks[leaf]
              /\ T(leaf - 1) \in Seq(Nat) /\ graph.tasks[leaf] \in Seq(Nat)
              /\ leaf \in DOMAIN graph.tasks
  <2>1. /\ planning' = "done" /\ problem' = problem /\ partitions' = partitions
        /\ planning = "done" /\ at \in 1 .. Len(partitions)
        /\ a \in Nat /\ b \in Nat /\ a = Behind(at) + 1 /\ b <= Len(graph.tasks) /\ 1 <= a
        /\ Len(problem.tasks) = Len(graph.tasks)
    BY <1>1, <1>6, <1>8, <1>16
  <2>2. /\ Behind(at)' = Behind(at) /\ FirstTask(at)' = a /\ LastTask(at)' = b
        /\ EveryLeafEncodes'
    BY <1>1, <1>16, <2>1 DEF Behind, FirstTask, LastTask, EveryLeafEncodes
  <2>3. Placed'
    <3>1. Behind(at) \in Nat
      BY <1>8, <1>16
    <3>2. leaf' \in Behind(at)' + 2 .. LastTask(at)' + 1
      <4> HIDE DEF a, b
      <4> QED BY <1>16, <2>1, <2>2, <3>1
    <3> QED BY <1>1, <1>16, <2>1, <2>2, <3>2 DEF Placed, InPartition
  <2>4. leaf \in 1 .. Len(graph.tasks) /\ leaf - 1 \in Nat /\ leaf - 1 < Len(graph.tasks)
        /\ (leaf - 1) + 1 = leaf /\ leaf' - 1 = leaf /\ leaf - 1 \in 0 .. Len(graph.tasks)
    <3> HIDE DEF a, b
    <3> QED BY <1>1, <1>16, <2>1
  <2>5. T(leaf) = T(leaf - 1) \o graph.tasks[leaf]
    <3> DEFINE n == leaf - 1
    <3>1. n \in Nat /\ n < Len(graph.tasks) /\ n + 1 = leaf
      BY <2>4
    <3> HIDE DEF n
    <3>2. FlattenSeq(Upto(n + 1)) = FlattenSeq(Upto(n)) \o graph.tasks[n + 1]
      BY <1>1, <3>1, UptoStep
    <3> QED BY <3>1, <3>2 DEF n
  <2>6. T(leaf - 1) \in Seq(Nat)
    BY <1>9, <2>4
  <2>7. leaf \in DOMAIN graph.tasks /\ graph.tasks[leaf] \in Seq(Nat)
    BY <1>1, <2>4
  <2> HIDE DEF T
  <2> QED BY <2>3, <2>4, <2>5, <2>6, <2>7
<1>17. ASSUME leaf \in a .. b, EveryLeafEncodes, leaf \in DOMAIN graph.tasks
       PROVE  /\ leaves[leaf] # NoProgram /\ leaves[leaf].stages = graph.tasks[leaf]
              /\ "stages" \in DOMAIN leaves[leaf]
  BY <1>1, <1>17 DEF Encoded, EveryLeafEncodes
<1>18. CASE FirstLeaf
  <2>1. /\ Opening /\ Ready /\ EveryLeafEncodes /\ UNCHANGED plannerVars
        /\ UNCHANGED <<at, status>> /\ programs' = programs
        /\ combined' = leaves[leaf] /\ leaf' = leaf + 1
    BY <1>18 DEF FirstLeaf, Opening
  <2>2. leaf \in a .. b
    BY <1>8, <1>11, <2>1
  <2>3. combined' # NoProgram
    BY <2>1, <2>2 DEF EveryLeafEncodes
  <2>4. Placed' /\ T(leaf' - 1) = T(leaf - 1) \o graph.tasks[leaf]
        /\ graph.tasks[leaf] \in Seq(Nat) /\ leaf \in DOMAIN graph.tasks
    BY <1>16, <2>1, <2>2, <2>3
  <2>5. combined'.stages = graph.tasks[leaf] /\ "stages" \in DOMAIN combined'
    BY <1>17, <2>1, <2>2, <2>4
  <2>6. E = T(leaf - 1)
    BY <1>11, <2>1
  <2>7. EveryStageOnce'
    BY <1>3, <2>1, <2>3, <2>4, <2>5, <2>6
  <2>8. Encoded'
    BY <1>1, <2>1, <2>4, <2>5 DEF Encoded
  <2> QED BY <1>6, <2>1, <2>4, <2>7, <2>8 DEF AInv
<1>19. ASSUME Inside
       PROVE  /\ Ready /\ leaf \in a .. b /\ EveryLeafEncodes /\ combined # NoProgram
              /\ E \o combined.stages = T(leaf - 1)
              /\ combined.stages \in Seq(Nat) /\ "stages" \in DOMAIN combined
  <2>1. Ready /\ leaf \in a + 1 .. b
    BY <1>19 DEF Inside
  <2>2. a \in Nat /\ b \in Nat /\ a = Behind(at) + 1 /\ Behind(at) \in Nat
    BY <1>1, <1>8, <2>1
  <2>3. leaf \in a .. b /\ leaf # a
    <3> HIDE DEF a, b
    <3> QED BY <2>1, <2>2
  <2>4. EveryLeafEncodes /\ combined # NoProgram
    <3> HIDE DEF a, b
    <3> QED BY <1>1, <2>2, <2>3 DEF Placed, InPartition, BetweenPartitions
  <2>5. combined.stages \in Seq(Nat) /\ "stages" \in DOMAIN combined
    BY <1>1, <2>4 DEF Encoded
  <2> HIDE DEF E, T
  <2> QED BY <1>2, <2>1, <2>3, <2>4, <2>5
<1>20. CASE ComposeLeaf
  <2>1. /\ Inside /\ Composition # NoProgram /\ UNCHANGED plannerVars
        /\ UNCHANGED <<at, status>> /\ programs' = programs
        /\ combined' = Composition /\ leaf' = leaf + 1
    BY <1>20 DEF ComposeLeaf
  <2>2. /\ Ready /\ leaf \in a .. b /\ EveryLeafEncodes /\ combined # NoProgram
        /\ E \o combined.stages = T(leaf - 1)
        /\ combined.stages \in Seq(Nat) /\ "stages" \in DOMAIN combined
    BY <1>19, <2>1
  <2>3. Placed' /\ T(leaf' - 1) = T(leaf - 1) \o graph.tasks[leaf]
        /\ graph.tasks[leaf] \in Seq(Nat) /\ leaf \in DOMAIN graph.tasks
    BY <1>16, <2>1, <2>2
  <2>4. leaves[leaf].stages = graph.tasks[leaf] /\ "stages" \in DOMAIN leaves[leaf]
    BY <1>17, <2>2, <2>3
  <2>5. /\ combined'.stages = combined.stages \o graph.tasks[leaf]
        /\ "stages" \in DOMAIN combined'
    <3> PICK p, previous, c :
               /\ p = combined /\ previous = leaves[leaf - 1] /\ c = leaves[leaf]
               /\ combined' = Compose(p, previous, c) /\ Compose(p, previous, c) # NoProgram
      BY <2>1 DEF Composition
    <3>1. "stages" \in DOMAIN p /\ "stages" \in DOMAIN c
      BY <2>2, <2>4
    <3>2. /\ Compose(p, previous, c).stages = p.stages \o c.stages
          /\ "stages" \in DOMAIN Compose(p, previous, c)
      BY <3>1, ComposeStages
    <3> QED BY <2>4, <3>2
  <2>6. combined'.stages \in Seq(Nat)
    BY <2>2, <2>3, <2>5, ConcatProperties
  <2>7. E \o combined'.stages = T(leaf' - 1)
    <3>1. Associates(E, combined.stages, graph.tasks[leaf])
      <4> HIDE DEF E
      <4> QED BY <1>5, <2>2, <2>3, Associative
    <3> HIDE DEF E, T
    <3> QED BY <2>2, <2>3, <2>5, <3>1 DEF Associates
  <2>8. EveryStageOnce'
    BY <1>3, <2>1, <2>7
  <2>9. Encoded'
    BY <1>1, <2>1, <2>5, <2>6 DEF Encoded
  <2> QED BY <1>6, <2>1, <2>3, <2>8, <2>9 DEF AInv
<1>21. CASE SplitLeaf
  <2>1. /\ Inside /\ UNCHANGED plannerVars
        /\ UNCHANGED <<at, status>> /\ programs' = Append(programs, combined)
        /\ combined' = leaves[leaf] /\ leaf' = leaf + 1
    BY <1>21 DEF SplitLeaf
  <2>2. /\ Ready /\ leaf \in a .. b /\ EveryLeafEncodes /\ combined # NoProgram
        /\ E \o combined.stages = T(leaf - 1)
        /\ combined.stages \in Seq(Nat) /\ "stages" \in DOMAIN combined
    BY <1>19, <2>1
  <2>3. combined' # NoProgram
    BY <2>1, <2>2 DEF EveryLeafEncodes
  <2>4. Placed' /\ T(leaf' - 1) = T(leaf - 1) \o graph.tasks[leaf]
        /\ graph.tasks[leaf] \in Seq(Nat) /\ leaf \in DOMAIN graph.tasks
    BY <1>16, <2>1, <2>2, <2>3
  <2>5. combined'.stages = graph.tasks[leaf] /\ "stages" \in DOMAIN combined'
    BY <1>17, <2>1, <2>2, <2>4
  <2>6. /\ FlattenSeq(StagesOf(programs')) = E \o combined.stages
        /\ \A i \in DOMAIN programs' : programs'[i].stages \in Seq(Nat)
        /\ programs' \in Seq(ToSet(programs'))
    BY <1>4, <2>1, <2>2, StagesAppend
  <2>7. EveryStageOnce'
    BY <1>3, <2>2, <2>3, <2>4, <2>5, <2>6
  <2>8. Encoded'
    BY <1>1, <2>4, <2>5, <2>6 DEF Encoded
  <2> QED BY <1>6, <2>1, <2>4, <2>7, <2>8 DEF AInv
<1>22. CASE EmitCombined
  <2>1. /\ Ready /\ leaf = b + 1 /\ NextPartition /\ UNCHANGED plannerVars /\ UNCHANGED status
        /\ programs' = Append(programs, combined)
    BY <1>22 DEF EmitCombined
  <2>2. /\ a \in Nat /\ b \in Nat /\ a = Behind(at) + 1 /\ a <= b /\ Behind(at) \in Nat
        /\ b <= Len(graph.tasks)
    BY <1>1, <1>8, <2>1
  <2>3. combined # NoProgram /\ leaf # a
    <3>1. leaf # a
      <4> HIDE DEF a, b
      <4> QED BY <2>1, <2>2
    <3> HIDE DEF a, b
    <3> QED BY <1>1, <2>2, <3>1 DEF Placed, InPartition, BetweenPartitions
  <2>4. combined.stages \in Seq(Nat)
    BY <1>1, <2>3 DEF Encoded
  <2>5. E \o combined.stages = T(b)
    <3>1. leaf - 1 = b
      <4> HIDE DEF b
      <4> QED BY <2>1, <2>2
    <3> HIDE DEF E, T, b
    <3> QED BY <1>2, <2>3, <3>1
  <2>6. /\ FlattenSeq(StagesOf(programs')) = E \o combined.stages
        /\ \A i \in DOMAIN programs' : programs'[i].stages \in Seq(Nat)
        /\ programs' \in Seq(ToSet(programs'))
    BY <1>4, <2>1, <2>4, StagesAppend
  <2>7. leaf' = b + 1 /\ combined' = NoProgram
    BY <2>1 DEF NextPartition
  <2>8. FlattenSeq(StagesOf(programs')) = T(leaf' - 1) /\ T(leaf' - 1) \in Seq(Nat)
    <3>1. b + 1 - 1 = b /\ b \in 0 .. Len(graph.tasks)
      <4> HIDE DEF a, b
      <4> QED BY <1>1, <2>2
    <3> QED BY <1>9, <2>5, <2>6, <2>7, <3>1
  <2>9. EveryStageOnce'
    BY <1>3, <2>7, <2>8
  <2>10. Encoded'
    BY <1>1, <2>6, <2>7 DEF Encoded
  <2> QED BY <1>6, <1>10, <2>1, <2>9, <2>10 DEF AInv
<1> QED
  BY <1>7, <1>12, <1>13, <1>14, <1>15, <1>18, <1>20, <1>21, <1>22 DEF Assemble

LEMMA AssemblyStep ==
  ASSUME AInv, [DriverNext]_driverVars
  PROVE  AInv'
<1>1. CASE Assemble
  BY <1>1, AssembleStep
<1>2. CASE ObjectRefused
  <2>1. /\ UNCHANGED PlannerStays /\ status' = "declined"
        /\ graph' = graph /\ leaves' = leaves /\ combined' = combined /\ programs' = programs
    BY <1>2 DEF ObjectRefused, plannerVars, givenVars, PlannerStays
  <2>2. Planned'
    BY <2>1, PlannedKept DEF AInv
  <2> QED BY <2>1, <2>2 DEF AInv, Placed, Encoded, EveryStageOnce
<1>3. CASE UNCHANGED compilerVars
  BY <1>3, AInvKept
<1>4. Assemble \/ ObjectRefused \/ UNCHANGED compilerVars
  BY
     DEF DriverNext, driverVars, UnsupportedTarget, Lex, LexErrorStops, Refused,
         NotOneFunction,
         Scheduled, Packed, Assembled, SingleProgram, SingleRefused, Open, RefuseDirectory,
         WriteProgram, WriteManifest, Report, WriteFails, Killed, Repeat, Exited, Compiling,
         Writing, Fault
<1> QED BY <1>1, <1>2, <1>3, <1>4

(* Whatever was composed, split, encoded stage by stage or refused, the     *)
(* programs stand for the scheduled stages, each once and in order          *)
(* (H16GProgramAssembler.mm:798-887).                                       *)
THEOREM StagesOnce == DriverSpec => []EveryStageOnce
<1>1. DriverInit => AInv
  BY EncodedInit DEF DriverInit
<1>2. AInv /\ [DriverNext]_driverVars => AInv'
  BY AssemblyStep
<1>3. AInv => EveryStageOnce
  BY DEF AInv
<1> QED BY <1>1, <1>2, <1>3, PTL DEF DriverSpec
--------------------------------------------------------------------------------
(* The output directory. *)

(* The earlier directory with the first k images laid over it.              *)
Laid(k) ==
  /\ DOMAIN directory.files = DOMAIN earlier.files \cup (1 .. k)
  /\ \A i \in 1 .. k : directory.files[i] = images[i]
  /\ \A i \in DOMAIN earlier.files \ (1 .. k) : directory.files[i] = earlier.files[i]

ManifestLast(k) ==
  directory.manifest = earlier.manifest \/ (k = Len(images) /\ directory.manifest = images)

Overlaid == \E k \in written .. Len(images) : Laid(k) /\ ManifestLast(k)

Shaped ==
  /\ errors \in Nat
  /\ images \in Seq(ProgramFile) /\ written \in 0 .. Len(images)
  /\ command \in Commands /\ earlier \in Earlier
  /\ directory = Contents(directory.there, directory.files, directory.manifest,
                          directory.litter)
  /\ directory.there \/ directory = Nowhere

Compiled == {"lexing", "front end", "assembling"}
AtDirectory == {"opening", "writing", "reporting", "stopped"}

Steps ==
  /\ step \in Compiled \cup AtDirectory \cup {"exited"}
  /\ step \in Compiled \cup {"opening"} => written = 0
  /\ step \in Compiled => directory = earlier
  /\ step = "assembling" => command.target = "H16G"
  /\ step \in AtDirectory => command.target \in Packaged \cup {"H16G"}
  /\ step \in {"writing", "reporting"} => directory.there
  /\ step = "reporting" => written = Len(images) /\ directory.manifest = images

Ended ==
  step = "exited" =>
    /\ exit \in {0, 65, 74}
    /\ exit = 0 => written = Len(images) /\ directory.manifest = images
    /\ exit = 65 =>
         directory = earlier /\ (errors > 0 \/ command.front = "no function")
    /\ exit = 74 => command.target \in Packaged /\ directory.there /\ ~ IsEmpty(directory)

WritingOrDone == step \in {"writing", "reporting"} \/ (step = "exited" /\ exit = 0)

(* The H13 and H14 compilers start from an empty directory.                 *)
PackagedClean ==
  command.target \in Packaged =>
    /\ step \in AtDirectory \/ (step = "exited" /\ exit = 0) => errors = 0
    /\ WritingOrDone => /\ DOMAIN directory.files = 1 .. written
                        /\ ~ directory.litter /\ earlier.manifest = <<>>
    /\ directory = earlier \/ earlier.manifest = <<>>

DInv == Shaped /\ Steps /\ Overlaid /\ Ended /\ PackagedClean

--------------------------------------------------------------------------------
(* The command keeps DInv. *)

LEMMA EarlierFacts ==
  ASSUME NEW d \in Earlier
  PROVE  /\ d = Contents(d.there, d.files, d.manifest, d.litter)
         /\ d.there \/ d = Nowhere
         /\ d.manifest \in Seq(ProgramFile)
         /\ \A i \in DOMAIN d.manifest :
              File(d, i).length = d.manifest[i].length => File(d, i) = d.manifest[i]
BY EarlierAssumption

(* Nothing is written yet.                                                  *)
LEMMA NothingLaid ==
  ASSUME directory = earlier, written = 0, images \in Seq(ProgramFile)
  PROVE  Overlaid
<1>1. 1 .. 0 = {} /\ Len(images) \in Nat
  OBVIOUS
<1>2. Laid(0) /\ ManifestLast(0) /\ 0 \in written .. Len(images)
  BY <1>1 DEF Laid, ManifestLast
<1> QED BY <1>2 DEF Overlaid

LEMMA DInvInit ==
  ASSUME DriverInit
  PROVE  DInv
<1>1. /\ earlier \in Earlier /\ directory = earlier /\ step = "lexing" /\ errors = 0
      /\ images = <<>> /\ written = 0 /\ command \in Commands
  BY DEF DriverInit
<1>2. images \in Seq(ProgramFile) /\ Len(images) = 0
  BY <1>1
<1>3. Overlaid
  BY <1>1, <1>2, NothingLaid
<1>4. Shaped
  BY <1>1, <1>2, EarlierFacts DEF Shaped
<1> QED
  BY <1>1, <1>3, <1>4
     DEF DInv, Steps, Ended, PackagedClean, WritingOrDone, Compiled, AtDirectory

(* The directory and the images stay as they are.                           *)
LEMMA OutputsKept ==
  ASSUME DInv, UNCHANGED <<givens, outputVars>>, errors' \in Nat
  PROVE  Shaped' /\ Overlaid'
BY DEF DInv, Shaped, Overlaid, Laid, ManifestLast, givens, outputVars

(* Compiling goes on, or stops with an error or a program of no function.   *)
GoesOn == step' \in Compiled /\ (step' = "assembling" => command.target = "H16G")

Stops ==
  step' = "exited" /\ exit' = 65 /\ (errors' > 0 \/ command.front = "no function")

LEMMA CompilingStep ==
  ASSUME DInv, UNCHANGED <<givens, outputVars>>, errors' \in {errors, errors + 1},
         step \in Compiled, GoesOn \/ Stops
  PROVE  DInv'
<1>1. errors' \in Nat /\ (errors > 0 => errors' > 0)
  <2>1. errors \in Nat
    BY DEF DInv, Shaped
  <2> QED BY <2>1
<1>2. Shaped' /\ Overlaid'
  BY <1>1, OutputsKept
<1>3. /\ command' = command /\ earlier' = earlier /\ directory' = directory
      /\ images' = images /\ written' = written
  BY DEF givens, outputVars
<1>4. /\ written = 0 /\ directory = earlier
  BY DEF DInv, Steps
<1>5. ASSUME GoesOn
      PROVE  Steps' /\ Ended' /\ PackagedClean'
  BY <1>3, <1>4, <1>5
     DEF GoesOn, DInv, Steps, Ended, PackagedClean, WritingOrDone, Compiled, AtDirectory
<1>6. ASSUME Stops
      PROVE  Steps' /\ Ended' /\ PackagedClean'
  <2>1. step' = "exited" /\ (errors' > 0 \/ command.front = "no function")
    BY <1>6 DEF Stops
  <2>2. exit' = 65
    BY <1>6 DEF Stops
  <2>3. Steps'
    BY <1>3, <1>4, <2>1 DEF Steps, Compiled, AtDirectory
  <2>4. exit' # 0 /\ exit' # 74 /\ exit' \in {0, 65, 74}
    BY <2>2
  <2>5. Ended'
    <3> SUFFICES directory' = earlier' /\ (errors' > 0 \/ command'.front = "no function")
      BY <2>4 DEF Ended
    <3> QED BY <1>3, <1>4, <2>1
  <2>6. PackagedClean'
    <3> SUFFICES directory' = earlier'
      BY <2>1, <2>4 DEF PackagedClean, WritingOrDone, AtDirectory
    <3> QED BY <1>3, <1>4
  <2> QED BY <2>3, <2>5, <2>6
<1>7. Steps' /\ Ended' /\ PackagedClean'
  BY <1>5, <1>6
<1> QED BY <1>2, <1>7 DEF DInv

(* The images are made, and the directory is next.                          *)
LEMMA ImagesMade ==
  ASSUME DInv, step \in Compiled, step' = "opening", UNCHANGED <<givens, directory, written>>,
         errors' = errors, images' \in Seq(ProgramFile),
         command.target \in Packaged \cup {"H16G"},
         command.target \in Packaged => errors = 0
  PROVE  DInv'
<1>1. /\ command' = command /\ earlier' = earlier /\ directory' = directory /\ written' = written
  BY DEF givens
<1>2. /\ written = 0 /\ directory = earlier
  BY DEF DInv, Steps
<1>3. Overlaid'
  <2>1. Len(images') \in Nat /\ 1 .. 0 = {}
    OBVIOUS
  <2>2. Laid(0)' /\ ManifestLast(0)' /\ 0 \in written' .. Len(images')
    BY <1>1, <1>2, <2>1 DEF Laid, ManifestLast
  <2> QED BY <2>2 DEF Overlaid
<1>4. Shaped'
  BY <1>1, <1>2 DEF DInv, Shaped
<1>5. Steps' /\ Ended'
  BY <1>1, <1>2 DEF Steps, Ended, Compiled, AtDirectory
<1>6. PackagedClean'
  BY <1>1, <1>2 DEF PackagedClean, WritingOrDone, AtDirectory
<1> QED BY <1>3, <1>4, <1>5, <1>6 DEF DInv

LEMMA OpenStep ==
  ASSUME DInv, Open
  PROVE  DInv'
<1>1. /\ step = "opening" /\ step' = "writing" /\ MayOpen /\ exit' = exit
      /\ directory' = [directory EXCEPT !.there = TRUE]
      /\ command' = command /\ earlier' = earlier
      /\ images' = images /\ written' = written /\ errors' = errors
  BY DEF Open, Writing, Goto, givens
<1>2. Shaped /\ Steps /\ Overlaid /\ PackagedClean /\ written = 0
  BY <1>1 DEF DInv, Steps
<1>3. /\ directory' = Contents(TRUE, directory.files, directory.manifest, directory.litter)
      /\ directory'.there /\ directory'.files = directory.files
      /\ directory'.manifest = directory.manifest /\ directory'.litter = directory.litter
  BY <1>1, <1>2 DEF Shaped, Contents
<1>4. Shaped'
  BY <1>1, <1>2, <1>3 DEF Shaped, Contents
<1>5. Overlaid'
  BY <1>1, <1>2, <1>3 DEF Overlaid, Laid, ManifestLast
<1>6. Steps' /\ Ended'
  BY <1>1, <1>2, <1>3 DEF Steps, Ended, Compiled, AtDirectory
<1>7. PackagedClean'
  <2> SUFFICES ASSUME command.target \in Packaged PROVE PackagedClean'
    BY <1>1 DEF PackagedClean
  <2>1. ~ directory.there \/ IsEmpty(directory)
    BY <1>1 DEF MayOpen, Packaged
  <2>2. directory.files = <<>> /\ directory.manifest = <<>> /\ ~ directory.litter
    BY <1>2, <2>1 DEF IsEmpty, Shaped, Nowhere, Contents
  <2>3. DOMAIN directory.files = 1 .. written
    BY <1>2, <2>2
  <2>4. earlier.manifest = <<>> /\ errors = 0
    BY <1>1, <1>2, <2>2 DEF PackagedClean, AtDirectory
  <2> QED BY <1>1, <1>3, <2>2, <2>3, <2>4 DEF PackagedClean, WritingOrDone
<1> QED BY <1>4, <1>5, <1>6, <1>7 DEF DInv

LEMMA RefuseDirectoryStep ==
  ASSUME DInv, RefuseDirectory
  PROVE  DInv'
<1>1. /\ step = "opening" /\ step' = "exited" /\ exit' = 74 /\ ~ MayOpen
      /\ directory' = directory /\ command' = command /\ earlier' = earlier
      /\ images' = images /\ written' = written /\ errors' = errors
  BY DEF RefuseDirectory, Writing, Exit, givens
<1>2. Shaped' /\ Overlaid'
  BY <1>1, OutputsKept DEF DInv, Shaped, givens, outputVars
<1>3. command.target \in Packaged /\ directory.there /\ ~ IsEmpty(directory)
  <2>1. command.target # "H16G" /\ directory.there /\ ~ IsEmpty(directory)
    BY <1>1 DEF MayOpen
  <2>2. command.target \in Packaged \cup {"H16G"}
    BY <1>1 DEF DInv, Steps, AtDirectory
  <2> QED BY <2>1, <2>2
<1>4. Steps' /\ Ended' /\ PackagedClean'
  BY <1>1, <1>3
     DEF DInv, Steps, Ended, PackagedClean, WritingOrDone, Compiled, AtDirectory
<1> QED BY <1>2, <1>4 DEF DInv

(* Where the overlay ends does not matter for what it says of program i.    *)
LEMMA WriteProgramStep ==
  ASSUME DInv, WriteProgram
  PROVE  DInv'
<1> PICK n : n = written + 1
  OBVIOUS
<1>1. /\ step = "writing" /\ written < Len(images) /\ step' = step /\ exit' = exit
      /\ directory' = WithProgram(directory, n, images[n]) /\ written' = n
      /\ command' = command /\ earlier' = earlier
      /\ images' = images /\ errors' = errors
  BY DEF WriteProgram, Writing, givens
<1>2. Shaped /\ Steps /\ Overlaid /\ PackagedClean
  BY DEF DInv
<1>3. written \in Nat /\ n \in 1 .. Len(images) /\ Len(images) \in Nat /\ ~ n <= written
  BY <1>1, <1>2 DEF Shaped
<1>4. /\ directory' = Contents(directory.there, directory'.files, directory.manifest,
                                directory.litter)
      /\ directory'.there = directory.there /\ directory'.manifest = directory.manifest
      /\ directory'.litter = directory.litter /\ directory.there
      /\ directory'.files = [i \in DOMAIN directory.files \cup {n} |->
                               IF i = n THEN images[n] ELSE directory.files[i]]
  BY <1>1, <1>2 DEF Shaped, Contents, WithProgram, Steps
<1>5. Shaped'
  <2>1. directory' = Contents(directory'.there, directory'.files, directory'.manifest,
                              directory'.litter)
    BY <1>4
  <2>2. written' \in 0 .. Len(images')
    BY <1>1, <1>3
  <2> QED BY <1>1, <1>2, <1>4, <2>1, <2>2 DEF Shaped
<1>6. Overlaid'
  <2>1. PICK k \in written .. Len(images) : Laid(k) /\ ManifestLast(k)
    BY <1>2 DEF Overlaid
  <2>2. CASE k = written
    <3>1. 1 .. n = (1 .. k) \cup {n} /\ n \notin 1 .. k
      BY <1>3, <2>2
    <3>2. Laid(n)'
      <4> QED BY <1>1, <1>3, <1>4, <2>1, <3>1 DEF Laid
    <3>3. ManifestLast(n)'
      BY <1>1, <1>3, <1>4, <2>1, <2>2 DEF ManifestLast
    <3>4. n \in written' .. Len(images')
      BY <1>1, <1>3
    <3> QED BY <3>2, <3>3, <3>4 DEF Overlaid
  <2>3. CASE k # written
    <3>1. n \in 1 .. k /\ k \in written' .. Len(images')
      BY <1>1, <1>3, <2>1, <2>3
    <3>2. Laid(k)'
      <4> QED BY <1>1, <1>4, <2>1, <3>1 DEF Laid
    <3>3. ManifestLast(k)'
      BY <1>1, <1>4, <2>1 DEF ManifestLast
    <3> QED BY <3>1, <3>2, <3>3 DEF Overlaid
  <2> QED BY <2>2, <2>3
<1>7. Steps' /\ Ended'
  <2> QED BY <1>1, <1>2, <1>4 DEF Steps, Ended, Compiled, AtDirectory
<1>8. PackagedClean'
  <2> SUFFICES ASSUME command.target \in Packaged PROVE PackagedClean'
    BY <1>1 DEF PackagedClean
  <2>1. /\ DOMAIN directory.files = 1 .. written /\ ~ directory.litter
        /\ earlier.manifest = <<>> /\ errors = 0
    BY <1>1, <1>2 DEF PackagedClean, WritingOrDone, AtDirectory
  <2>2. 1 .. n = (1 .. written) \cup {n}
    BY <1>3
  <2> QED BY <1>1, <1>4, <2>1, <2>2 DEF PackagedClean, WritingOrDone
<1> QED BY <1>5, <1>6, <1>7, <1>8 DEF DInv

LEMMA WriteManifestStep ==
  ASSUME DInv, WriteManifest
  PROVE  DInv'
<1>1. /\ step = "writing" /\ written = Len(images) /\ step' = "reporting" /\ exit' = exit
      /\ directory' = WithManifest(directory, images) /\ written' = written
      /\ command' = command /\ earlier' = earlier
      /\ images' = images /\ errors' = errors
  BY DEF WriteManifest, Writing, Goto, givens
<1>2. Shaped /\ Steps /\ Overlaid /\ PackagedClean
  BY DEF DInv
<1>3. /\ directory' = Contents(directory.there, directory.files, images, directory.litter)
      /\ directory'.there = directory.there /\ directory'.manifest = images
      /\ directory'.litter = directory.litter /\ directory.there
      /\ directory'.files = directory.files
  BY <1>1, <1>2 DEF Shaped, Contents, WithManifest, Steps
<1>4. Shaped'
  BY <1>1, <1>2, <1>3 DEF Shaped
<1>5. Overlaid'
  <2>1. PICK k \in written .. Len(images) : Laid(k)
    BY <1>2 DEF Overlaid
  <2>2. k = Len(images) /\ k \in written' .. Len(images')
    BY <1>1, <1>2, <2>1 DEF Shaped
  <2>3. Laid(k)' /\ ManifestLast(k)'
    BY <1>1, <1>3, <2>1, <2>2 DEF Laid, ManifestLast
  <2> QED BY <2>2, <2>3 DEF Overlaid
<1>6. Steps' /\ Ended' /\ PackagedClean'
  BY <1>1, <1>2, <1>3
     DEF Steps, Ended, PackagedClean, WritingOrDone, Compiled, AtDirectory
<1> QED BY <1>4, <1>5, <1>6 DEF DInv

LEMMA ReportStep ==
  ASSUME DInv, Report
  PROVE  DInv'
<1>1. /\ step = "reporting" /\ step' = "exited" /\ exit' = 0
      /\ UNCHANGED <<givens, outputVars>> /\ errors' = errors
      /\ directory' = directory /\ command' = command /\ earlier' = earlier
      /\ images' = images /\ written' = written
  BY DEF Report, Writing, Exit, givens, outputVars
<1>2. Shaped' /\ Overlaid'
  BY <1>1, OutputsKept DEF DInv, Shaped
<1>3. Steps' /\ Ended' /\ PackagedClean'
  BY <1>1 DEF DInv, Steps, Ended, PackagedClean, WritingOrDone, Compiled, AtDirectory
<1> QED BY <1>2, <1>3 DEF DInv

LEMMA WriteFailsStep ==
  ASSUME DInv, WriteFails
  PROVE  DInv'
<1>1. /\ step \in {"opening", "writing"} /\ step' = "stopped"
      /\ UNCHANGED <<givens, outputVars>> /\ errors' = errors
      /\ directory' = directory /\ command' = command /\ earlier' = earlier
      /\ images' = images /\ written' = written
  BY DEF WriteFails, Fault, givens, outputVars
<1>2. Shaped' /\ Overlaid'
  BY <1>1, OutputsKept DEF DInv, Shaped
<1>3. Steps' /\ Ended' /\ PackagedClean'
  BY <1>1 DEF DInv, Steps, Ended, PackagedClean, WritingOrDone, Compiled, AtDirectory
<1> QED BY <1>2, <1>3 DEF DInv

LEMMA KilledStep ==
  ASSUME DInv, Killed
  PROVE  DInv'
<1>1. /\ step \in {"writing", "reporting"} /\ step' = "stopped"
      /\ \E l : directory' = [directory EXCEPT !.litter = l]
      /\ command' = command /\ earlier' = earlier
      /\ images' = images /\ written' = written /\ errors' = errors
  BY DEF Killed, Fault, givens
<1>2. Shaped /\ Steps /\ Overlaid /\ PackagedClean
  BY DEF DInv
<1>3. /\ directory' = Contents(directory.there, directory.files, directory.manifest,
                                directory'.litter)
      /\ directory'.there = directory.there /\ directory'.manifest = directory.manifest
      /\ directory'.files = directory.files /\ directory.there
  BY <1>1, <1>2 DEF Shaped, Contents, Steps
<1>4. Shaped'
  BY <1>1, <1>2, <1>3 DEF Shaped
<1>5. Overlaid'
  BY <1>1, <1>2, <1>3 DEF Overlaid, Laid, ManifestLast
<1>6. Steps' /\ Ended'
  BY <1>1, <1>2 DEF Steps, Ended, Compiled, AtDirectory
<1>7. PackagedClean'
  BY <1>1, <1>2 DEF PackagedClean, WritingOrDone, AtDirectory
<1> QED BY <1>4, <1>5, <1>6, <1>7 DEF DInv

LEMMA RepeatStep ==
  ASSUME DInv, Repeat
  PROVE  DInv'
<1>1. /\ step = "stopped" /\ step' = "opening" /\ exit' = "none" /\ written' = 0
      /\ directory' = directory /\ command' = command /\ earlier' = earlier
      /\ images' = images /\ errors' = errors
  BY DEF Repeat, givens
<1>2. Shaped /\ Steps /\ Overlaid /\ PackagedClean
  BY DEF DInv
<1>3. Shaped'
  BY <1>1, <1>2 DEF Shaped
<1>4. Overlaid'
  <2>1. PICK k \in written .. Len(images) : Laid(k) /\ ManifestLast(k)
    BY <1>2 DEF Overlaid
  <2>2. k \in written' .. Len(images')
    BY <1>1, <1>2, <2>1 DEF Shaped
  <2>3. Laid(k)' /\ ManifestLast(k)'
    BY <1>1, <2>1 DEF Laid, ManifestLast
  <2> QED BY <2>2, <2>3 DEF Overlaid
<1>5. Steps' /\ Ended' /\ PackagedClean'
  BY <1>1, <1>2 DEF Steps, Ended, PackagedClean, WritingOrDone, Compiled, AtDirectory
<1> QED BY <1>3, <1>4, <1>5 DEF DInv

LEMMA CompilerStep ==
  ASSUME DInv, \/ UnsupportedTarget \/ Lex \/ LexErrorStops \/ Refused \/ NotOneFunction
               \/ Scheduled \/ Assemble \/ ObjectRefused \/ SingleRefused
  PROVE  DInv'
<1>1. errors \in Nat
  BY DEF DInv, Shaped
<1>2. ASSUME Compiling, step \in Compiled, Emit \/ Silent, GoesOn \/ Stops
      PROVE  DInv'
  <2>1. UNCHANGED <<givens, outputVars>> /\ errors' \in {errors, errors + 1}
    BY <1>2 DEF Compiling, Emit, Silent
  <2> QED BY <1>2, <2>1, CompilingStep
<1>3. ASSUME Emit PROVE errors' > 0
  BY <1>1, <1>3 DEF Emit
<1>4. CASE UnsupportedTarget
  BY <1>2, <1>3, <1>4 DEF UnsupportedTarget, Stops, Exit, Compiled
<1>5. CASE Lex
  BY <1>2, <1>5 DEF Lex, GoesOn, Goto, Compiled
<1>6. CASE LexErrorStops
  BY <1>2, <1>6 DEF LexErrorStops, Silent, Stops, Exit, Compiled
<1>7. CASE Refused
  BY <1>2, <1>3, <1>7 DEF Refused, Parsed, Stops, Exit, Compiled
<1>8. CASE NotOneFunction
  BY <1>2, <1>8 DEF NotOneFunction, Parsed, Stops, Exit, Compiled
<1>9. CASE Scheduled
  BY <1>2, <1>9 DEF Scheduled, Parsed, GoesOn, Goto, Compiled
<1>10. CASE SingleRefused
  BY <1>2, <1>3, <1>10 DEF SingleRefused, Stops, Exit, Compiled
<1>11. CASE Assemble \/ ObjectRefused
  <2>1. /\ UNCHANGED <<givens, outputVars>> /\ step = "assembling" /\ step' = step
        /\ errors' \in {errors, errors + 1}
    BY <1>11 DEF Assemble, ObjectRefused, Emit
  <2>2. command' = command /\ command.target = "H16G"
    BY <2>1 DEF DInv, Steps, givens
  <2>3. step \in Compiled /\ GoesOn
    BY <2>1, <2>2 DEF GoesOn, Compiled
  <2> QED BY <2>1, <2>3, CompilingStep
<1> QED BY <1>4, <1>5, <1>6, <1>7, <1>8, <1>9, <1>10, <1>11

LEMMA ObjectLengths ==
  \A e : ObjectLength(e) \in Nat
BY DEF ObjectLength

LEMMA ImagesStep ==
  ASSUME AInv, DInv, Packed \/ Assembled \/ SingleProgram
  PROVE  DInv'
<1>1. CASE Packed
  <2>1. /\ step = "front end" /\ step' = "opening" /\ UNCHANGED <<givens, directory, written>>
        /\ errors' = errors /\ images' = command.payloads /\ command.target \in Packaged
        /\ errors = 0
    BY <1>1 DEF Packed, Parsed, Goto, Silent
  <2>2. images' \in Seq(ProgramFile) /\ step \in Compiled
    BY <2>1, CommandsAssumption DEF DInv, Shaped, Compiled
  <2> QED BY <2>1, <2>2, ImagesMade
<1>2. ASSUME step = "assembling", step' = "opening", UNCHANGED <<givens, directory, written>>,
             errors' = errors, images' \in Seq(ProgramFile)
      PROVE  DInv'
  <2>1. step \in Compiled /\ command.target = "H16G" /\ command.target \notin Packaged
    BY <1>2 DEF DInv, Steps, Compiled, Packaged
  <2>2. command.target \in Packaged \cup {"H16G"}
    BY <2>1
  <2> QED BY <1>2, <2>1, <2>2, ImagesMade
<1>3. CASE Assembled
  <2>1. /\ step = "assembling" /\ step' = "opening" /\ UNCHANGED <<givens, directory, written>>
        /\ errors' = errors
        /\ images' = [i \in DOMAIN programs |->
                        [of |-> i, length |-> ObjectLength(programs[i])]]
    BY <1>3 DEF Assembled, Goto, Silent
  <2>2. programs \in Seq(ToSet(programs))
    BY DEF AInv, Encoded
  <2>3. Len(programs) \in Nat /\ DOMAIN programs = 1 .. Len(programs)
    BY <2>2, LenProperties
  <2>4. \A i \in 1 .. Len(programs) :
          [of |-> i, length |-> ObjectLength(programs[i])] \in ProgramFile
    BY <2>3, ObjectLengths DEF ProgramFile
  <2>5. images' \in Seq(ProgramFile)
    BY <2>1, <2>3, <2>4
  <2> QED BY <1>2, <2>1, <2>5
<1>4. CASE SingleProgram
  <2>1. PICK n \in Lengths : images' = <<[of |-> 1, length |-> n]>>
    BY <1>4 DEF SingleProgram
  <2>2. [of |-> 1, length |-> n] \in ProgramFile
    BY CommandsAssumption DEF ProgramFile
  <2>3. images' \in Seq(ProgramFile)
    BY <2>1, <2>2
  <2> QED BY <1>2, <1>4, <2>3 DEF SingleProgram, Goto, Silent
<1> QED BY <1>1, <1>3, <1>4

LEMMA DInvKept ==
  ASSUME DInv, UNCHANGED driverVars
  PROVE  DInv'
<1>1. /\ UNCHANGED <<givens, outputVars>> /\ step' = step /\ errors' = errors /\ exit' = exit
      /\ command' = command /\ earlier' = earlier /\ directory' = directory
      /\ images' = images /\ written' = written
  BY DEF driverVars, givens, outputVars
<1>2. Shaped' /\ Overlaid'
  BY <1>1, OutputsKept DEF DInv, Shaped
<1>3. Steps'
  BY <1>1 DEF DInv, Steps
<1>4. Ended'
  BY <1>1 DEF DInv, Ended, IsEmpty
<1>5. PackagedClean'
  BY <1>1 DEF DInv, PackagedClean, WritingOrDone
<1> QED BY <1>2, <1>3, <1>4, <1>5 DEF DInv

LEMMA DirectoryStep ==
  ASSUME AInv, DInv, [DriverNext]_driverVars
  PROVE  DInv'
BY CompilerStep, ImagesStep, OpenStep, RefuseDirectoryStep, WriteProgramStep,
   WriteManifestStep, ReportStep, WriteFailsStep, KilledStep, RepeatStep, DInvKept
   DEF DriverNext, Exited

--------------------------------------------------------------------------------
(* What the reader accepts, and what the exit code tells. *)

(* A bundle whose manifest is of the command's images holds them.           *)
LEMMA WrittenWhole ==
  ASSUME DInv, Laid(Len(images)), directory.manifest = images, images # <<>>
  PROVE  Whole(directory)
<1>1. images \in Seq(ProgramFile) /\ DOMAIN images = 1 .. Len(images)
  BY DEF DInv, Shaped
<1>2. \A i \in DOMAIN images : File(directory, i) = images[i]
  BY <1>1 DEF Laid, File
<1>3. Readable(directory)
  BY <1>2 DEF Readable
<1>4. ReadBack(directory) = images
  BY <1>1, <1>2 DEF ReadBack
<1> QED BY <1>3, <1>4 DEF Whole

LEMMA EarlierWhole ==
  ASSUME DInv, directory = earlier, Readable(directory)
  PROVE  Whole(directory)
<1>1. /\ earlier.manifest \in Seq(ProgramFile)
      /\ \A i \in DOMAIN earlier.manifest :
           File(earlier, i).length = earlier.manifest[i].length =>
             File(earlier, i) = earlier.manifest[i]
  BY EarlierFacts DEF DInv, Shaped
<1>2. \A i \in DOMAIN earlier.manifest : File(earlier, i) = earlier.manifest[i]
  BY <1>1 DEF Readable
<1>3. ReadBack(earlier) = earlier.manifest
  BY <1>1, <1>2 DEF ReadBack
<1> QED BY <1>3 DEF Whole

LEMMA EitherManifest ==
  ASSUME DInv, NEW k \in written .. Len(images), Laid(k),
         directory.manifest = earlier.manifest, Readable(directory)
  PROVE  FromEitherManifest
<1>1. /\ earlier.manifest \in Seq(ProgramFile)
      /\ \A i \in DOMAIN earlier.manifest :
           File(earlier, i).length = earlier.manifest[i].length =>
             File(earlier, i) = earlier.manifest[i]
      /\ images \in Seq(ProgramFile) /\ written \in Nat
  BY EarlierFacts DEF DInv, Shaped
<1> SUFFICES ASSUME NEW i \in DOMAIN directory.manifest
             PROVE  \/ File(directory, i) = directory.manifest[i]
                    \/ i \in DOMAIN images /\ File(directory, i) = images[i]
  BY DEF FromEitherManifest
<1>2. CASE i \in 1 .. k
  <2>1. i \in DOMAIN images /\ File(directory, i) = images[i]
    BY <1>1, <1>2 DEF Laid, File
  <2> QED BY <2>1
<1>3. CASE i \notin 1 .. k
  <2>1. File(directory, i) = File(earlier, i)
    BY <1>3 DEF Laid, File
  <2>2. File(earlier, i).length = earlier.manifest[i].length
    BY <2>1 DEF Readable
  <2> QED BY <1>1, <2>1, <2>2
<1> QED BY <1>2, <1>3

LEMMA WholeOrMixed ==
  ASSUME DInv
  PROVE  StoredWhole
<1> SUFFICES ASSUME Readable(directory)
             PROVE  \/ Whole(directory)
                    \/ command.target \notin Packaged /\ step # "exited" /\ FromEitherManifest
  BY DEF StoredWhole
<1>1. PICK k \in written .. Len(images) : Laid(k) /\ ManifestLast(k)
  BY DEF DInv, Overlaid
<1>2. directory.manifest # <<>>
  BY DEF Readable
<1>3. CASE directory.manifest = images /\ k = Len(images)
  BY <1>1, <1>2, <1>3, WrittenWhole
<1>4. CASE directory = earlier
  BY <1>4, EarlierWhole
<1>5. CASE directory.manifest = earlier.manifest /\ directory # earlier
  <2>1. FromEitherManifest
    BY <1>1, <1>5, EitherManifest
  <2>2. command.target \notin Packaged
    BY <1>2, <1>5 DEF DInv, PackagedClean
  <2>3. CASE step = "exited"
    <3>1. written = Len(images) /\ directory.manifest = images
      BY <1>5, <2>2, <2>3 DEF DInv, Ended
    <3>2. k = Len(images)
      BY <1>1, <3>1 DEF DInv, Shaped
    <3> QED BY <1>3, <3>1, <3>2
  <2> QED BY <2>1, <2>2, <2>3
<1> QED BY <1>1, <1>3, <1>4, <1>5 DEF ManifestLast

LEMMA CodeTells ==
  ASSUME DInv
  PROVE  ExitTold
<1> SUFFICES ASSUME step = "exited"
             PROVE  ExitTold
  BY DEF ExitTold
<1>1. ASSUME exit = 0
      PROVE  /\ directory.manifest = images
             /\ images # <<>> => Whole(directory)
             /\ command.target \in Packaged =>
                  errors = 0 /\ DOMAIN directory.files = DOMAIN images /\ ~ directory.litter
  <2>1. written = Len(images) /\ directory.manifest = images
    BY <1>1 DEF DInv, Ended
  <2>2. Laid(Len(images))
    BY <2>1 DEF DInv, Overlaid, Shaped
  <2>3. images # <<>> => Whole(directory)
    BY <2>1, <2>2, WrittenWhole
  <2>4. command.target \in Packaged =>
          errors = 0 /\ DOMAIN directory.files = 1 .. written /\ ~ directory.litter
    BY <1>1 DEF DInv, PackagedClean, WritingOrDone
  <2>5. DOMAIN images = 1 .. written
    BY <2>1 DEF DInv, Shaped
  <2> QED BY <2>1, <2>3, <2>4, <2>5
<1>2. ASSUME exit = 65
      PROVE  directory = earlier /\ (errors > 0 \/ command.front = "no function")
  BY <1>2 DEF DInv, Ended
<1>3. ASSUME exit = 74
      PROVE  /\ command.target \in Packaged
             /\ directory \notin {Nowhere, [Nowhere EXCEPT !.there = TRUE]}
  <2>1. command.target \in Packaged /\ directory.there /\ ~ IsEmpty(directory)
    BY <1>3 DEF DInv, Ended
  <2>2. directory # Nowhere /\ directory # [Nowhere EXCEPT !.there = TRUE]
    BY <2>1 DEF IsEmpty, Nowhere, Contents
  <2> QED BY <2>1, <2>2
<1>4. exit \in {0, 65, 74}
  BY DEF DInv, Ended
<1> QED BY <1>1, <1>2, <1>3, <1>4 DEF ExitTold

(* A directory the reader accepts holds the programs its manifest was       *)
(* written for, but for an H16G command under way over an older bundle      *)
(* (ANEExecutableBundle.mm:52-160).                                         *)
THEOREM BundlesWhole == DriverSpec => []StoredWhole
<1>1. DriverInit => AInv /\ DInv
  BY EncodedInit, DInvInit DEF DriverInit
<1>2. AInv /\ DInv /\ [DriverNext]_driverVars => (AInv /\ DInv)'
  BY AssemblyStep, DirectoryStep
<1>3. DInv => StoredWhole
  BY WholeOrMixed
<1> QED BY <1>1, <1>2, <1>3, PTL DEF DriverSpec

(* What the exit code of the command tells (tools/mil-hwxc.mm:80-139).      *)
THEOREM ExitCodeTells == DriverSpec => []ExitTold
<1>1. DriverInit => AInv /\ DInv
  BY EncodedInit, DInvInit DEF DriverInit
<1>2. AInv /\ DInv /\ [DriverNext]_driverVars => (AInv /\ DInv)'
  BY AssemblyStep, DirectoryStep
<1>3. DInv => ExitTold
  BY CodeTells
<1> QED BY <1>1, <1>2, <1>3, PTL DEF DriverSpec
================================================================================
