--------------------------- MODULE TaskSchedulerProofs ---------------------------
(***************************************************************************)
(* Whatever the five merging loops choose, on every graph: each active     *)
(* node is in exactly one group, and the groups stay in the order of their *)
(* first nodes.  The inductive invariant is EveryNodeOnce with             *)
(* GroupsByFirstNode and the bookkeeping that ties them: what has been     *)
(* listed, and that splitting starts only when merging is over.            *)
(*                                                                         *)
(* From it follows what the emitted tasks know: every value a task needs   *)
(* is computed by exactly one task, under whose name it has a surface, and *)
(* the loop that emits a task finds that task behind folded boundaries and *)
(* epilogues.  The recursions of effectiveProducer and of Sources are      *)
(* shown to have a solution by giving one, and agree by least              *)
(* counterexample.                                                         *)
(***************************************************************************)
EXTENDS TaskScheduler, FiniteSetTheorems, WellFoundedInduction, TLAPS

(* The shape of the state the grouping steps change.                       *)
Shape ==
  /\ problem \in Problems
  /\ node \in Nat
  /\ groups \in Seq(SUBSET Active) /\ split \in Seq(SUBSET Active)

(* While nodes are listed and merged, nothing is split and the groups hold *)
(* only listed nodes.                                                      *)
Listed ==
  phase = "grouping" =>
    /\ split = <<>>
    /\ \A i \in DOMAIN groups : \A n \in groups[i] : n < node

IInv == Shape /\ Listed /\ EveryNodeOnce /\ GroupsByFirstNode

(* What a step that leaves the groups alone changes.                       *)
Elsewhere ==
  /\ problem' = problem /\ node' = node
  /\ groups' = groups /\ split' = split
  /\ phase' = "grouping" => phase = "grouping"

--------------------------------------------------------------------------------

LEMMA ActiveNodes ==
  ASSUME problem \in Problems
  PROVE  Active \subseteq 1 .. Len(problem.op) /\ N = 1 .. Len(problem.op)
<1>1. problem.op \in Seq(Operations)
  BY ProblemsAssumption DEF IsProblem, IsGraph
<1>2. N = 1 .. Len(problem.op)
  BY <1>1 DEF N, Nodes
<1> QED
  BY <1>2 DEF Active

(* The active nodes depend on the graph only.                              *)
LEMMA ActiveKept ==
  ASSUME problem' = problem
  PROVE  Active' = Active
  BY DEF Active, N, IsConstant, Folded, IsEpilogue, Inputs, SameRegion

LEMMA GroupOfFacts ==
  ASSUME NEW n
  PROVE  \/ GroupOf(n) = 0
         \/ (GroupOf(n) \in DOMAIN groups /\ n \in groups[GroupOf(n)])
<1>1. CASE \E i \in DOMAIN groups : n \in groups[i]
  <2> DEFINE g == CHOOSE i \in DOMAIN groups : n \in groups[i]
  <2>1. g \in DOMAIN groups /\ n \in groups[g]
    BY <1>1
  <2>2. GroupOf(n) = g
    BY <1>1 DEF GroupOf
  <2> HIDE DEF g
  <2> QED
    BY <2>1, <2>2
<1>2. CASE ~ \E i \in DOMAIN groups : n \in groups[i]
  BY <1>2 DEF GroupOf
<1> QED
  BY <1>1, <1>2

(* A merge keeps the two groups' nodes together and everything else apart. *)
LEMMA MergedAtFacts ==
  ASSUME groups \in Seq(SUBSET Active),
         NEW into \in DOMAIN groups, NEW from \in DOMAIN groups, into < from
  PROVE  /\ MergedAt(into, from) \in Seq(SUBSET Active)
         /\ Len(MergedAt(into, from)) = Len(groups) - 1
         /\ DOMAIN MergedAt(into, from) = 1 .. Len(groups) - 1
         /\ MergedAt(into, from)[into] = groups[into] \cup groups[from]
         /\ \A k \in 1 .. from - 1 :
              k # into => MergedAt(into, from)[k] = groups[k]
         /\ \A k \in from .. Len(groups) - 1 :
              MergedAt(into, from)[k] = groups[k + 1]
<1> DEFINE m == MergedAt(into, from)
<1>1. Len(groups) \in Nat /\ DOMAIN groups = 1 .. Len(groups)
  OBVIOUS
<1>2. into \in 1 .. Len(groups) - 1 /\ from \in 2 .. Len(groups)
  BY <1>1
<1>3. DOMAIN m = 1 .. Len(groups) - 1
  BY DEF MergedAt
<1>4. m[into] = groups[into] \cup groups[from]
  BY <1>2 DEF MergedAt
<1>5. \A k \in 1 .. from - 1 : k # into => m[k] = groups[k]
  BY <1>1, <1>2 DEF MergedAt
<1>6. \A k \in from .. Len(groups) - 1 : m[k] = groups[k + 1]
  <2> TAKE k \in from .. Len(groups) - 1
  <2>1. k \in 1 .. Len(groups) - 1 /\ ~ k < from /\ k # into
    BY <1>1, <1>2
  <2>2. m[k] = groups[k + 1] \cup {}
    BY <2>1 DEF MergedAt
  <2> QED
    BY <2>2
<1>7. \A k \in 1 .. Len(groups) : groups[k] \in SUBSET Active
  BY <1>1
<1>8. m \in [1 .. Len(groups) - 1 -> SUBSET Active]
  <2> SUFFICES ASSUME NEW k \in 1 .. Len(groups) - 1
               PROVE  (IF k < from THEN groups[k] ELSE groups[k + 1])
                        \cup (IF k = into THEN groups[from] ELSE {})
                        \in SUBSET Active
    BY DEF MergedAt
  <2>1. k \in 1 .. Len(groups) /\ k + 1 \in 1 .. Len(groups)
    BY <1>1
  <2>2. /\ groups[k] \in SUBSET Active /\ groups[k + 1] \in SUBSET Active
        /\ groups[from] \in SUBSET Active
    BY <2>1, <1>7, <1>2
  <2> QED
    BY <2>2
<1>9. Len(m) = Len(groups) - 1
  BY <1>1, <1>2 DEF MergedAt
<1> HIDE DEF m
<1>10. m \in Seq(SUBSET Active)
  BY <1>8, <1>1, <1>2
<1> QED
  BY <1>3, <1>4, <1>5, <1>6, <1>9, <1>10 DEF m

--------------------------------------------------------------------------------

(* A split pair is its two nodes, one each; any other group passes whole.  *)
LEMMA PiecesFacts ==
  ASSUME problem \in Problems, NEW group \in SUBSET Active, group # {}
  PROVE  /\ PiecesOf(group) \in Seq(SUBSET Active)
         /\ \A i \in DOMAIN PiecesOf(group) :
              PiecesOf(group)[i] # {} /\ PiecesOf(group)[i] \subseteq group
         /\ \A i, j \in DOMAIN PiecesOf(group) :
              i # j => PiecesOf(group)[i] \cap PiecesOf(group)[j] = {}
         /\ \A n \in group : \E i \in DOMAIN PiecesOf(group) : n \in PiecesOf(group)[i]
<1>1. CASE ~ Splits(group)
  BY <1>1 DEF PiecesOf
<1>2. CASE Splits(group)
  <2>1. group \subseteq 1 .. Len(problem.op)
    BY ActiveNodes
  <2>2. IsFiniteSet(group) /\ Cardinality(group) = 2
    <3>1. problem.op \in Seq(Operations)
      BY ProblemsAssumption DEF IsProblem, IsGraph
    <3>2. IsFiniteSet(1 .. Len(problem.op))
      BY <3>1, FS_Interval
    <3> QED
      BY <2>1, <3>2, FS_Subset, <1>2 DEF Splits
  <2>3. PICK a \in group : TRUE
    OBVIOUS
  <2>4. IsFiniteSet(group \ {a}) /\ Cardinality(group \ {a}) = 1
    BY <2>2, <2>3, FS_RemoveElement
  <2>5. PICK b : group \ {a} = {b}
    BY <2>4, FS_Singleton
  <2>6. group = {a, b} /\ a # b /\ a \in Int /\ b \in Int
    <3>1. b \in group \ {a}
      BY <2>5
    <3>2. group = {a, b} /\ a # b
      BY <2>3, <2>5, <3>1
    <3> QED
      BY <3>1, <3>2, <2>1, <2>3
  <2>7. \E x \in group : \A y \in group : x =< y
    <3>1. CASE a < b BY <3>1, <2>6
    <3>2. CASE b < a BY <3>2, <2>6
    <3> QED BY <3>1, <3>2, <2>6
  <2>8. \E x \in group : \A y \in group : x >= y
    <3>1. CASE a < b BY <3>1, <2>6
    <3>2. CASE b < a BY <3>2, <2>6
    <3> QED BY <3>1, <3>2, <2>6
  <2>9. Min(group) \in group /\ \A y \in group : Min(group) =< y
    BY <2>7 DEF Min
  <2>10. Max(group) \in group /\ \A y \in group : Max(group) >= y
    BY <2>8 DEF Max
  <2>11. group = {Min(group), Max(group)} /\ Min(group) # Max(group)
    BY <2>6, <2>9, <2>10
  <2>12. PiecesOf(group) = <<{Min(group)}, {Max(group)}>>
    BY <1>2 DEF PiecesOf
  <2> QED
    BY <2>11, <2>12
<1> QED
  BY <1>1, <1>2

--------------------------------------------------------------------------------

LEMMA InitIInv == Init => IInv
<1> SUFFICES ASSUME Init PROVE IInv
  OBVIOUS
<1>1. groups = <<>> /\ split = <<>> /\ node = 1 /\ problem \in Problems
  BY DEF Init
<1>2. \A n \in Active : ~ n < node
  BY <1>1, ActiveNodes
<1> QED
  BY <1>1, <1>2 DEF IInv, Shape, Listed, EveryNodeOnce, GroupsByFirstNode

(* The groups stay as they are in every step but these three.              *)
LEMMA ActionSplit ==
  ASSUME [Next]_vars
  PROVE  ListNode \/ Merge \/ SplitGroup \/ Elsewhere
BY DEF Next, vars, NoRegions, NextPass, CreateSurfaces, EmitTask, Finish, Done,
       Elsewhere

LEMMA ElsewhereStep ==
  ASSUME IInv, Elsewhere
  PROVE  IInv'
<1>1. Active' = Active
  BY ActiveKept DEF Elsewhere
<1> QED
  BY <1>1 DEF IInv, Elsewhere, Shape, Listed, EveryNodeOnce, GroupsByFirstNode

LEMMA ListNodeStep ==
  ASSUME IInv, ListNode
  PROVE  IInv'
<1>1. /\ problem' = problem /\ split' = split /\ phase' = phase
      /\ phase = "grouping" /\ split = <<>>
      /\ node \in Nat /\ node' = node + 1
      /\ groups \in Seq(SUBSET Active)
  BY DEF IInv, ListNode, Shape, Listed
<1>2. Active' = Active
  BY <1>1, ActiveKept
<1>3. \A i \in DOMAIN groups : \A n \in groups[i] : n < node
  BY <1>1 DEF IInv, Listed
<1>4. CASE node \notin Active
  <2>1. groups' = groups
    BY <1>4 DEF ListNode
  <2>2. \A n \in Active : n < node' => n < node
    <3>1. Active \subseteq Int
      BY ActiveNodes DEF IInv, Shape
    <3> QED BY <3>1, <1>1, <1>4
  <2>3. \A i \in DOMAIN groups : \A n \in groups[i] : n < node'
    <3>1. Active \subseteq Int
      BY ActiveNodes DEF IInv, Shape
    <3> SUFFICES ASSUME NEW i \in DOMAIN groups, NEW n \in groups[i]
                 PROVE  n < node'
      OBVIOUS
    <3>2. n \in Active
      BY DEF IInv, EveryNodeOnce
    <3> QED BY <3>1, <3>2, <1>1, <1>3
  <2> QED
    BY <1>1, <1>2, <2>1, <2>2, <2>3
       DEF IInv, Shape, Listed, EveryNodeOnce, GroupsByFirstNode
<1>5. CASE node \in Active
  <2> DEFINE last == Len(groups) + 1
  <2>1. groups' = Append(groups, {node})
    BY <1>5 DEF ListNode
  <2>2. /\ groups' \in Seq(SUBSET Active) /\ DOMAIN groups' = 1 .. last
        /\ groups'[last] = {node} /\ last \in Nat \ {0}
        /\ DOMAIN groups = 1 .. last - 1
        /\ \A i \in DOMAIN groups : groups'[i] = groups[i]
    BY <2>1, <1>1, <1>5
  <2> HIDE DEF last
  <2>3. Active \subseteq Int
    BY ActiveNodes DEF IInv, Shape
  <2>4. \A i \in DOMAIN groups : groups[i] \subseteq Active /\ groups[i] # {}
    BY <1>1 DEF IInv, EveryNodeOnce
  <2>5. \A i \in DOMAIN groups : node \notin groups[i]
    BY <1>3, <1>1
  <2>6. Shape'
    BY <1>1, <1>2, <2>2 DEF IInv, Shape
  <2>7. Listed'
    <3> SUFFICES ASSUME NEW i \in DOMAIN groups', NEW n \in groups'[i]
                 PROVE  n < node'
      BY <1>1 DEF Listed
    <3>1. CASE i = last
      BY <3>1, <2>2, <1>1
    <3>2. CASE i # last
      <4>1. i \in DOMAIN groups
        BY <3>2, <2>2
      <4>2. n \in groups[i]
        BY <4>1, <2>2
      <4>3. n \in Int /\ n < node
        BY <4>1, <4>2, <2>3, <2>4, <1>3
      <4> QED BY <4>3, <1>1
    <3> QED BY <3>1, <3>2
  <2>8. \A i, j \in DOMAIN groups' : i # j => groups'[i] \cap groups'[j] = {}
    BY <2>2, <2>5, <1>1 DEF IInv, EveryNodeOnce
  <2>9. \A n \in Active : n < node' => \E i \in DOMAIN groups' : n \in groups'[i]
    <3> SUFFICES ASSUME NEW n \in Active, n < node'
                 PROVE  \E i \in DOMAIN groups' : n \in groups'[i]
      OBVIOUS
    <3>1. CASE n = node
      BY <3>1, <2>2
    <3>2. CASE n # node
      <4>1. n < node
        BY <3>2, <1>1, <2>3
      <4>2. \E i \in DOMAIN groups : n \in groups[i]
        BY <4>1, <1>1 DEF IInv, EveryNodeOnce
      <4> QED BY <4>2, <2>2
    <3> QED BY <3>1, <3>2
  <2>10. EveryNodeOnce'
    BY <1>1, <1>2, <1>5, <2>2, <2>4, <2>8, <2>9 DEF EveryNodeOnce
  <2>11. GroupsByFirstNode'
    <3> SUFFICES ASSUME NEW i \in DOMAIN groups', NEW j \in DOMAIN groups', i < j
                 PROVE  \E a \in groups'[i] : \A b \in groups'[j] : a < b
      BY DEF GroupsByFirstNode
    <3>1. i \in DOMAIN groups /\ groups'[i] = groups[i]
      BY <2>2
    <3>2. CASE j = last
      BY <3>1, <3>2, <2>2, <2>4, <1>3
    <3>3. CASE j # last
      BY <3>1, <3>3, <2>2 DEF IInv, GroupsByFirstNode
    <3> QED BY <3>2, <3>3
  <2> QED
    BY <2>6, <2>7, <2>10, <2>11 DEF IInv
<1> QED
  BY <1>4, <1>5

(* Merging: the later group of the pair goes into the earlier one.         *)
LEMMA MergedStep ==
  ASSUME IInv, phase = "grouping", problem' = problem, node' = node,
         split' = split, phase' = phase,
         NEW into \in DOMAIN groups, NEW from \in DOMAIN groups, into < from,
         groups' = MergedAt(into, from)
  PROVE  IInv'
<1> DEFINE L == Len(groups)
<1>1. /\ Active' = Active /\ split = <<>> /\ split' = <<>>
      /\ problem \in Problems /\ node \in Nat /\ groups \in Seq(SUBSET Active)
  BY ActiveKept DEF IInv, Shape, Listed
<1>2. /\ L \in Nat /\ DOMAIN groups = 1 .. L
      /\ into \in 1 .. from - 1 /\ from \in 2 .. L
  BY <1>1
<1>3. /\ groups' \in Seq(SUBSET Active) /\ DOMAIN groups' = 1 .. L - 1
      /\ groups'[into] = groups[into] \cup groups[from]
      /\ \A k \in 1 .. from - 1 : k # into => groups'[k] = groups[k]
      /\ \A k \in from .. L - 1 : groups'[k] = groups[k + 1]
  <2> HIDE DEF L
  <2>1. L = Len(groups)
    BY DEF L
  <2>2. /\ MergedAt(into, from) \in Seq(SUBSET Active)
        /\ DOMAIN MergedAt(into, from) = 1 .. L - 1
        /\ MergedAt(into, from)[into] = groups[into] \cup groups[from]
        /\ \A k \in 1 .. from - 1 : k # into => MergedAt(into, from)[k] = groups[k]
        /\ \A k \in from .. L - 1 : MergedAt(into, from)[k] = groups[k + 1]
    BY <1>1, <2>1, MergedAtFacts
  <2> QED
    BY <2>2
<1> HIDE DEF L
<1>4. /\ Active \subseteq Int
      /\ \A i \in 1 .. L : groups[i] \subseteq Active /\ groups[i] # {}
      /\ \A i, j \in 1 .. L : i # j => groups[i] \cap groups[j] = {}
      /\ \A i \in 1 .. L : \A n \in groups[i] : n < node
      /\ \A i, j \in 1 .. L : i < j => \E a \in groups[i] : \A b \in groups[j] : a < b
      /\ \A n \in Active : n < node => \E i \in 1 .. L : n \in groups[i]
  <2>1. Active \subseteq Int
    BY <1>1, ActiveNodes
  <2>2. /\ \A i \in 1 .. L : groups[i] \subseteq Active /\ groups[i] # {}
        /\ \A i, j \in 1 .. L : i # j => groups[i] \cap groups[j] = {}
    BY <1>2 DEF IInv, EveryNodeOnce
  <2>3. /\ \A i \in 1 .. L : \A n \in groups[i] : n < node
        /\ \A i, j \in 1 .. L : i < j => \E a \in groups[i] : \A b \in groups[j] : a < b
    BY <1>2 DEF IInv, Listed, GroupsByFirstNode
  <2>4. \A n \in Active : n < node => \E i \in 1 .. L : n \in groups[i]
    BY <1>1, <1>2 DEF IInv, EveryNodeOnce
  <2> QED
    BY <2>1, <2>2, <2>3, <2>4
(* Where the groups of the new sequence come from.                         *)
<1> DEFINE Old(k) == IF k < from THEN k ELSE k + 1
<1>5. \A k \in 1 .. L - 1 :
        /\ Old(k) \in 1 .. L /\ Old(k) # from
        /\ groups'[k] = groups[Old(k)] \cup (IF k = into THEN groups[from] ELSE {})
  <2> TAKE k \in 1 .. L - 1
  <2>1. CASE k = into
    BY <2>1, <1>2, <1>3
  <2>2. CASE k # into /\ k < from
    <3>1. groups'[k] = groups[k]
      BY <2>2, <1>2, <1>3
    <3> QED BY <3>1, <2>2, <1>2
  <2>3. CASE k >= from
    <3>1. groups'[k] = groups[k + 1] /\ k # into
      BY <2>3, <1>2, <1>3
    <3> QED BY <3>1, <2>3, <1>2
  <2> QED BY <2>1, <2>2, <2>3, <1>2
<1>6. \A i, j \in 1 .. L - 1 : i < j => Old(i) < Old(j)
  BY <1>2
<1>7. \A k \in 1 .. L - 1 : \A n \in groups'[k] :
        n \in groups[Old(k)] \/ (k = into /\ n \in groups[from])
  BY <1>5
<1>8. Old(into) = into
  BY <1>2
<1> HIDE DEF Old
<1>9. Shape'
  BY <1>1, <1>3 DEF Shape
<1>10. Listed'
  <2> SUFFICES ASSUME NEW i \in DOMAIN groups', NEW n \in groups'[i]
               PROVE  n < node
    BY <1>1 DEF Listed
  <2> QED
    BY <1>2, <1>3, <1>4, <1>5, <1>7
<1>11. EveryNodeOnce'
  <2>1. \A i \in DOMAIN groups' : groups'[i] # {} /\ groups'[i] \subseteq Active
    BY <1>2, <1>3, <1>4, <1>5
  <2>2. \A i, j \in DOMAIN groups' : i # j => groups'[i] \cap groups'[j] = {}
    <3> SUFFICES ASSUME NEW i \in 1 .. L - 1, NEW j \in 1 .. L - 1, i # j,
                        NEW n \in groups'[i], n \in groups'[j]
                 PROVE  FALSE
      BY <1>3
    <3>1. /\ Old(i) \in 1 .. L /\ Old(j) \in 1 .. L /\ Old(i) # from /\ Old(j) # from
      BY <1>5
    <3>2. Old(i) # Old(j)
      <4>1. CASE i < j BY <4>1, <1>6, <3>1
      <4>2. CASE j < i BY <4>2, <1>6, <3>1
      <4> QED BY <4>1, <4>2, <1>2
    <3>3. groups[Old(i)] \cap groups[Old(j)] = {}
      BY <3>1, <3>2, <1>4
    <3>4. groups[Old(i)] \cap groups[from] = {} /\ groups[Old(j)] \cap groups[from] = {}
      BY <3>1, <1>2, <1>4
    <3> QED
      BY <1>7, <3>3, <3>4
  <2>3. \A n \in Active : n < node => \E i \in DOMAIN groups' : n \in groups'[i]
    <3> SUFFICES ASSUME NEW n \in Active, n < node
                 PROVE  \E i \in 1 .. L - 1 : n \in groups'[i]
      BY <1>3
    <3>1. PICK i \in 1 .. L : n \in groups[i]
      BY <1>4
    <3>2. CASE i = from
      BY <3>1, <3>2, <1>2, <1>3
    <3>3. CASE i < from
      <4>1. CASE i = into BY <4>1, <3>1, <1>2, <1>3
      <4>2. CASE i # into
        <5>1. groups'[i] = groups[i] /\ i \in 1 .. L - 1
          BY <4>2, <3>3, <1>2, <1>3
        <5> QED BY <5>1, <3>1
      <4> QED BY <4>1, <4>2
    <3>4. CASE i > from
      <4>1. i - 1 \in from .. L - 1 /\ i - 1 \in 1 .. L - 1 /\ (i - 1) + 1 = i
        BY <3>4, <1>2
      <4>2. groups'[i - 1] = groups[i]
        BY <4>1, <1>3
      <4> QED BY <4>1, <4>2, <3>1
    <3> QED BY <3>2, <3>3, <3>4, <1>2
  <2> QED
    BY <1>1, <2>1, <2>2, <2>3 DEF EveryNodeOnce
<1>12. GroupsByFirstNode'
  <2> SUFFICES ASSUME NEW i \in 1 .. L - 1, NEW j \in 1 .. L - 1, i < j
               PROVE  \E a \in groups'[i] : \A b \in groups'[j] : a < b
    BY <1>3 DEF GroupsByFirstNode
  <2>1. Old(i) \in 1 .. L /\ Old(j) \in 1 .. L /\ Old(i) < Old(j)
    BY <1>5, <1>6
  <2>2. PICK a \in groups[Old(i)] : \A b \in groups[Old(j)] : a < b
    BY <2>1, <1>4
  <2>3. a \in groups'[i]
    BY <2>2, <1>5
  <2>4. groups'[i] \subseteq Int /\ groups'[j] \subseteq Int
    <3>1. groups'[i] \subseteq Active /\ groups'[j] \subseteq Active
      BY <1>1, <1>3, <1>11 DEF EveryNodeOnce
    <3> QED BY <3>1, <1>4
  <2>5. a \in Int
    BY <2>3, <2>4
  <2>6. CASE j # into
    BY <2>2, <2>3, <2>6, <1>7
  <2>7. CASE j = into
    <3>1. Old(i) < from
      BY <2>1, <2>7, <1>2, <1>8
    <3>2. PICK c \in groups[Old(i)] : \A b \in groups[from] : c < b
      BY <2>1, <3>1, <1>2, <1>4
    <3>3. c \in groups'[i]
      BY <3>2, <1>5
    <3>4. c \in Int
      BY <3>3, <2>4
    <3>5. \A b \in groups'[j] : a < b \/ c < b
      BY <2>2, <3>2, <1>7
    <3>6. CASE a <= c
      BY <2>3, <2>4, <2>5, <3>4, <3>5, <3>6
    <3>7. CASE c < a
      BY <3>3, <2>4, <2>5, <3>4, <3>5, <3>7
    <3> QED BY <3>6, <3>7, <2>5, <3>4
  <2> QED BY <2>6, <2>7
<1> QED
  BY <1>9, <1>10, <1>11, <1>12 DEF IInv

(* Whichever of the two groups comes first is the destination.             *)
LEMMA MergeStep ==
  ASSUME IInv, Merge
  PROVE  IInv'
<1> DEFINE a == GroupOf(Head(queue)[2])
           b == GroupOf(Head(queue)[3])
<1>1. /\ phase = "grouping" /\ phase' = phase
      /\ problem' = problem /\ node' = node /\ split' = split
  BY DEF Merge
<1>2. /\ a = 0 \/ a \in DOMAIN groups
      /\ b = 0 \/ b \in DOMAIN groups
  BY GroupOfFacts
<1>3. groups \in Seq(SUBSET Active)
  BY DEF IInv, Shape
<1>4. a \in Nat /\ b \in Nat
  BY <1>2, <1>3
<1>5. groups' = IF a = 0 \/ b = 0 \/ a = b THEN groups
                ELSE IF a < b THEN MergedAt(a, b) ELSE MergedAt(b, a)
  BY DEF Merge
<1> HIDE DEF a, b
<1>6. CASE a = 0 \/ b = 0 \/ a = b
  <2>1. groups' = groups
    BY <1>5, <1>6
  <2>2. Elsewhere
    BY <2>1, <1>1 DEF Elsewhere
  <2> QED BY <2>2, ElsewhereStep
<1>7. CASE a # 0 /\ b # 0 /\ a < b
  <2>1. groups' = MergedAt(a, b)
    BY <1>5, <1>7, <1>4
  <2>2. a \in DOMAIN groups /\ b \in DOMAIN groups
    BY <1>2, <1>7
  <2> QED BY <2>1, <2>2, <1>1, <1>7, MergedStep
<1>8. CASE a # 0 /\ b # 0 /\ b < a
  <2>1. groups' = MergedAt(b, a)
    BY <1>5, <1>8, <1>4
  <2>2. a \in DOMAIN groups /\ b \in DOMAIN groups
    BY <1>2, <1>8
  <2> QED BY <2>1, <2>2, <1>1, <1>8, MergedStep
<1> QED
  BY <1>4, <1>6, <1>7, <1>8

(* Splitting: a group moves on in one or two pieces.                       *)
LEMMA SplitGroupStep ==
  ASSUME IInv, SplitGroup
  PROVE  IInv'
<1> DEFINE head == Head(groups)
           pieces == PiecesOf(head)
<1>1. /\ phase = "splitting" /\ phase' = phase /\ groups # <<>>
      /\ problem' = problem /\ node' = node
      /\ groups' = Tail(groups) /\ split' = split \o pieces
  BY DEF SplitGroup
<1>2. /\ Active' = Active /\ problem \in Problems /\ node \in Nat
      /\ groups \in Seq(SUBSET Active) /\ split \in Seq(SUBSET Active)
  BY <1>1, ActiveKept DEF IInv, Shape
<1>3. /\ Len(groups) \in Nat \ {0} /\ DOMAIN groups = 1 .. Len(groups)
      /\ head = groups[1] /\ 1 \in DOMAIN groups
  BY <1>1, <1>2
<1>4. /\ groups' \in Seq(SUBSET Active) /\ DOMAIN groups' = 1 .. Len(groups) - 1
      /\ \A i \in DOMAIN groups' : i + 1 \in DOMAIN groups /\ groups'[i] = groups[i + 1]
  BY <1>1, <1>2, <1>3
<1>5. head \in SUBSET Active /\ head # {}
  BY <1>3 DEF IInv, EveryNodeOnce
<1> HIDE DEF head
<1>6. /\ pieces \in Seq(SUBSET Active)
      /\ \A i \in DOMAIN pieces : pieces[i] # {} /\ pieces[i] \subseteq head
      /\ \A i, j \in DOMAIN pieces : i # j => pieces[i] \cap pieces[j] = {}
      /\ \A n \in head : \E i \in DOMAIN pieces : n \in pieces[i]
  BY <1>2, <1>5, PiecesFacts
<1> HIDE DEF pieces
<1> DEFINE L == Len(split)
(* A group of the new split is an old one or a piece.                      *)
<1>7. /\ split' \in Seq(SUBSET Active) /\ L \in Nat /\ DOMAIN split = 1 .. L
      /\ DOMAIN pieces = 1 .. Len(pieces) /\ Len(pieces) \in Nat
      /\ DOMAIN split' = 1 .. L + Len(pieces)
      /\ \A i \in DOMAIN split : i \in DOMAIN split' /\ split'[i] = split[i]
      /\ \A i \in DOMAIN pieces : L + i \in DOMAIN split' /\ split'[L + i] = pieces[i]
  BY <1>1, <1>2, <1>6
<1> HIDE DEF L
<1>8. \A i \in DOMAIN split' :
        \/ i \in DOMAIN split
        \/ i \notin DOMAIN split /\ i - L \in DOMAIN pieces /\ split'[i] = pieces[i - L]
  <2> SUFFICES ASSUME NEW i \in DOMAIN split', i \notin DOMAIN split
               PROVE  i - L \in DOMAIN pieces /\ split'[i] = pieces[i - L]
    OBVIOUS
  <2>1. i - L \in DOMAIN pieces /\ L + (i - L) = i
    BY <1>7
  <2> QED BY <2>1, <1>7
<1>9. Shape'
  BY <1>1, <1>2, <1>4, <1>7 DEF Shape
<1>10. Listed'
  BY <1>1 DEF Listed
<1>11. /\ \A i \in DOMAIN groups : groups[i] # {} /\ groups[i] \subseteq Active
       /\ \A i \in DOMAIN split : split[i] # {} /\ split[i] \subseteq Active
       /\ \A i, j \in DOMAIN groups : i # j => groups[i] \cap groups[j] = {}
       /\ \A i, j \in DOMAIN split : i # j => split[i] \cap split[j] = {}
       /\ \A i \in DOMAIN groups, j \in DOMAIN split : groups[i] \cap split[j] = {}
       /\ \A n \in Active :
            n < node => \/ \E i \in DOMAIN groups : n \in groups[i]
                       \/ \E i \in DOMAIN split : n \in split[i]
  BY DEF IInv, EveryNodeOnce
<1>12. EveryNodeOnce'
  <2>1. \A i \in DOMAIN groups' : groups'[i] # {} /\ groups'[i] \subseteq Active
    BY <1>4, <1>11
  <2>2. \A i \in DOMAIN split' : split'[i] # {} /\ split'[i] \subseteq Active
    BY <1>5, <1>6, <1>7, <1>8, <1>11
  <2>3. \A i, j \in DOMAIN groups' : i # j => groups'[i] \cap groups'[j] = {}
    <3> SUFFICES ASSUME NEW i \in DOMAIN groups', NEW j \in DOMAIN groups', i # j
                 PROVE  groups'[i] \cap groups'[j] = {}
      OBVIOUS
    <3>1. i + 1 # j + 1 /\ i + 1 \in DOMAIN groups /\ j + 1 \in DOMAIN groups
      BY <1>4
    <3> QED BY <3>1, <1>4, <1>11
  <2>4. \A i \in DOMAIN split : head \cap split[i] = {}
    BY <1>3, <1>11
  <2>5. \A i, j \in DOMAIN split' : i # j => split'[i] \cap split'[j] = {}
    <3> SUFFICES ASSUME NEW i \in DOMAIN split', NEW j \in DOMAIN split', i # j
                 PROVE  split'[i] \cap split'[j] = {}
      OBVIOUS
    <3>1. CASE i \in DOMAIN split /\ j \in DOMAIN split
      BY <3>1, <1>7, <1>11
    <3>2. CASE i \in DOMAIN split /\ j \notin DOMAIN split
      BY <3>2, <1>6, <1>7, <1>8, <2>4
    <3>3. CASE i \notin DOMAIN split /\ j \in DOMAIN split
      BY <3>3, <1>6, <1>7, <1>8, <2>4
    <3>4. CASE i \notin DOMAIN split /\ j \notin DOMAIN split
      <4>1. i - L \in DOMAIN pieces /\ j - L \in DOMAIN pieces /\ i - L # j - L
        BY <3>4, <1>7, <1>8
      <4> QED BY <3>4, <4>1, <1>6, <1>8
    <3> QED BY <3>1, <3>2, <3>3, <3>4
  <2>6. \A i \in DOMAIN groups', j \in DOMAIN split' : groups'[i] \cap split'[j] = {}
    <3> SUFFICES ASSUME NEW i \in DOMAIN groups', NEW j \in DOMAIN split'
                 PROVE  groups'[i] \cap split'[j] = {}
      OBVIOUS
    <3>1. i + 1 \in DOMAIN groups /\ groups'[i] = groups[i + 1] /\ i + 1 # 1
      BY <1>4
    <3>2. CASE j \in DOMAIN split
      BY <3>1, <3>2, <1>7, <1>11
    <3>3. CASE j \notin DOMAIN split
      <4>1. split'[j] \subseteq head
        BY <3>3, <1>6, <1>8
      <4>2. groups[i + 1] \cap head = {}
        BY <3>1, <1>3, <1>11
      <4> QED BY <3>1, <4>1, <4>2
    <3> QED BY <3>2, <3>3
  <2>7. \A n \in Active :
          n < node => \/ \E i \in DOMAIN groups' : n \in groups'[i]
                     \/ \E i \in DOMAIN split' : n \in split'[i]
    <3> SUFFICES ASSUME NEW n \in Active, n < node
                 PROVE  \/ \E i \in DOMAIN groups' : n \in groups'[i]
                        \/ \E i \in DOMAIN split' : n \in split'[i]
      OBVIOUS
    <3>1. CASE n \in head
      BY <3>1, <1>6, <1>7
    <3>2. CASE \E i \in DOMAIN split : n \in split[i]
      BY <3>2, <1>7
    <3>3. CASE n \notin head /\ \E i \in DOMAIN groups : n \in groups[i]
      <4>1. PICK i \in DOMAIN groups : n \in groups[i]
        BY <3>3
      <4>2. i # 1
        BY <3>3, <4>1, <1>3
      <4>3. i - 1 \in DOMAIN groups' /\ (i - 1) + 1 = i
        BY <4>1, <4>2, <1>3, <1>4
      <4>4. groups'[i - 1] = groups[i]
        BY <4>3, <1>4
      <4> QED BY <4>1, <4>3, <4>4
    <3> QED BY <3>1, <3>2, <3>3, <1>11
  <2> QED
    BY <1>1, <1>2, <2>1, <2>2, <2>3, <2>5, <2>6, <2>7 DEF EveryNodeOnce
<1>13. GroupsByFirstNode'
  <2> SUFFICES ASSUME NEW i \in DOMAIN groups', NEW j \in DOMAIN groups', i < j
               PROVE  \E a \in groups'[i] : \A b \in groups'[j] : a < b
    BY DEF GroupsByFirstNode
  <2>1. /\ i + 1 \in DOMAIN groups /\ j + 1 \in DOMAIN groups /\ i + 1 < j + 1
        /\ groups'[i] = groups[i + 1] /\ groups'[j] = groups[j + 1]
    BY <1>4
  <2> QED
    BY <2>1 DEF IInv, GroupsByFirstNode
<1> QED
  BY <1>9, <1>10, <1>12, <1>13 DEF IInv

LEMMA Inductive == IInv /\ [Next]_vars => IInv'
<1> SUFFICES ASSUME IInv, [Next]_vars PROVE IInv'
  OBVIOUS
<1> QED
  BY ActionSplit, ListNodeStep, MergeStep, SplitGroupStep, ElsewhereStep

--------------------------------------------------------------------------------

(* No merge or split of formTaskGroups and splitUnsupportedTaskGroups      *)
(* (ANETaskScheduler.mm:147-318) loses or repeats a node, on any graph.    *)
THEOREM NodesScheduledOnce == Spec => []EveryNodeOnce
<1>1. Init => IInv
  BY InitIInv
<1>2. IInv /\ [Next]_vars => IInv'
  BY Inductive
<1>3. IInv => EveryNodeOnce
  BY DEF IInv
<1> QED
  BY <1>1, <1>2, <1>3, PTL DEF Spec

(* The groups are always in the order of their first nodes, although       *)
(* mergeTaskGroups (lines 147-163) never compares one.                     *)
THEOREM GroupOrderKept == Spec => []GroupsByFirstNode
<1>1. Init => IInv
  BY InitIInv
<1>2. IInv /\ [Next]_vars => IInv'
  BY Inductive
<1>3. IInv => GroupsByFirstNode
  BY DEF IInv
<1> QED
  BY <1>1, <1>2, <1>3, PTL DEF Spec

--------------------------------------------------------------------------------
(* What tasks know: the chains of folded nodes, one producer for every     *)
(* value, and what the task loop records.                                  *)

(* A nonempty set of numbers has a least one: the recursions below are     *)
(* followed from a least counterexample.                                   *)
LEMMA Least ==
  ASSUME NEW T \in SUBSET Nat, T # {}
  PROVE  \E x \in T : \A y \in T : x <= y
<1> DEFINE R == {ss \in Nat \X Nat : ss[1] < ss[2]}
<1>1. IsWellFoundedOn(R, Nat)
  BY NatLessThanWellFounded DEF OpToRel
<1>2. \E x \in T : \A y \in T : ~ (<<y, x>> \in R)
  <2> HIDE DEF R
  <2> QED
    BY <1>1, WFMin
<1>3. PICK x \in T : \A y \in T : ~ (<<y, x>> \in R)
  BY <1>2
<1>4. \A y \in T : ~ (y < x)
  BY <1>3
<1> QED
  BY <1>4

(* What IsGraph says of one node.                                          *)
LEMMA GraphFacts ==
  ASSUME problem \in Problems
  PROVE  /\ N = 1 .. Len(problem.op) /\ Len(problem.op) \in Nat
         /\ \A n \in N : /\ Inputs(n) \in Seq(1 .. n - 1)
                         /\ Reads(problem, n) = {Inputs(n)[k] : k \in DOMAIN Inputs(n)}
                         /\ \A i \in Reads(problem, n) : i \in N /\ i < n
<1>1. problem.op \in Seq(Operations) /\ IsGraph(problem)
  BY ProblemsAssumption DEF IsProblem, IsGraph
<1>2. N = 1 .. Len(problem.op) /\ Len(problem.op) \in Nat
  BY <1>1 DEF N, Nodes
<1> SUFFICES ASSUME NEW n \in N
             PROVE  /\ Inputs(n) \in Seq(1 .. n - 1)
                    /\ Reads(problem, n) = {Inputs(n)[k] : k \in DOMAIN Inputs(n)}
                    /\ \A i \in Reads(problem, n) : i \in N /\ i < n
  BY <1>2
<1>3. Inputs(n) \in Seq(1 .. n - 1)
  BY <1>1 DEF IsGraph, N, Inputs
<1>4. Reads(problem, n) = {Inputs(n)[k] : k \in DOMAIN Inputs(n)}
  BY DEF Reads, ToSet, Inputs
<1>5. \A k \in DOMAIN Inputs(n) : Inputs(n)[k] \in 1 .. n - 1
  <2> DEFINE s == Inputs(n)
  <2> DEFINE S == 1 .. n - 1
  <2>1. s \in Seq(S)
    BY <1>3
  <2> HIDE DEF s, S
  <2>2. \A k \in DOMAIN s : s[k] \in S
    BY <2>1
  <2> QED
    BY <2>2 DEF s, S
<1>6. \A i \in Reads(problem, n) : i \in N /\ i < n
  BY <1>2, <1>4, <1>5
<1> QED
  BY <1>3, <1>4, <1>6

(* The operand effectiveProducer follows.                                  *)
LEMMA FollowedFacts ==
  ASSUME problem \in Problems, NEW m \in N, Followed(m) # {}
  PROVE  /\ Folded(m) /\ ~ IsConstant(m)
         /\ Inputs(m)[Min(Followed(m))] \in Reads(problem, m)
         /\ ~ IsConstant(Inputs(m)[Min(Followed(m))])
<1>1. Inputs(m) \in Seq(1 .. m - 1)
  BY GraphFacts
<1>2. Followed(m) \subseteq Nat
  BY <1>1 DEF Followed
<1>3. \E x \in Followed(m) : \A y \in Followed(m) : x <= y
  BY <1>2, Least
<1>4. Min(Followed(m)) \in Followed(m)
  BY <1>3 DEF Min
<1> QED
  BY <1>4, GraphFacts DEF Followed

(* The recursion of effectiveProducer has a solution: the nodes that the   *)
(* walk from m visits, and one of them where it ends.                      *)
Walk(m) ==
  {v \in N : \A T \in SUBSET N :
     /\ m \in T
     /\ \A i \in T : Followed(i) # {} => Inputs(i)[Min(Followed(i))] \in T
     => v \in T}

LEMMA WalkEnds ==
  ASSUME problem \in Problems, NEW m \in N, Followed(m) = {}
  PROVE  Walk(m) = {m}
<1>1. {m} \in SUBSET N
  OBVIOUS
<1>2. Walk(m) \subseteq {m}
  BY <1>1 DEF Walk
<1>3. m \in Walk(m)
  BY DEF Walk
<1> QED
  BY <1>2, <1>3

LEMMA WalkGoesOn ==
  ASSUME problem \in Problems, NEW m \in N, Followed(m) # {}
  PROVE  /\ Inputs(m)[Min(Followed(m))] \in N
         /\ Walk(m) = {m} \cup Walk(Inputs(m)[Min(Followed(m))])
<1> DEFINE next(i) == Inputs(i)[Min(Followed(i))]
           closed(T) == \A i \in T : Followed(i) # {} => next(i) \in T
<1>1. \A i \in N : Followed(i) # {} => next(i) \in N
  BY FollowedFacts, GraphFacts
<1>2. \A i \in N : Walk(i) = {v \in N : \A T \in SUBSET N : i \in T /\ closed(T) => v \in T}
  BY DEF Walk
<1> HIDE DEF next
<1>3. Walk(next(m)) \subseteq Walk(m)
  BY <1>1, <1>2
<1>4. m \in Walk(m)
  BY <1>2
<1>5. closed({m} \cup Walk(next(m)))
  <2> SUFFICES ASSUME NEW i \in {m} \cup Walk(next(m)), Followed(i) # {}
               PROVE  next(i) \in {m} \cup Walk(next(m))
    OBVIOUS
  <2>1. CASE i = m
    BY <2>1, <1>1, <1>2
  <2>2. CASE i \in Walk(next(m))
    <3>1. i \in N /\ next(i) \in N
      BY <2>2, <1>1, <1>2
    <3>2. \A T \in SUBSET N : next(m) \in T /\ closed(T) => next(i) \in T
      BY <2>2, <1>1, <1>2
    <3> QED
      BY <3>1, <3>2, <1>1, <1>2
  <2> QED
    BY <2>1, <2>2
<1>6. {m} \cup Walk(next(m)) \in SUBSET N
  BY <1>2, <1>1
<1>7. Walk(m) \subseteq {m} \cup Walk(next(m))
  <2> HIDE DEF closed
  <2>1. \A v \in Walk(m) : \A T \in SUBSET N : m \in T /\ closed(T) => v \in T
    BY <1>2
  <2>2. m \in {m} \cup Walk(next(m))
    OBVIOUS
  <2> QED
    BY <1>5, <1>6, <2>1, <2>2
<1> QED
  BY <1>1, <1>3, <1>4, <1>7 DEF next

LEMMA EffectiveProducerStep ==
  ASSUME problem \in Problems, NEW m \in N
  PROVE  EffectiveProducer(m) =
           IF Followed(m) = {} THEN m
           ELSE EffectiveProducer(Inputs(m)[Min(Followed(m))])
<1> DEFINE next(i) == Inputs(i)[Min(Followed(i))]
           Stop(i) == CHOOSE v : v \in Walk(i) /\ Followed(v) = {}
           End(i) == IF Followed(i) = {} THEN i ELSE Stop(i)
           Eq(P) == P = [i \in N |-> IF Followed(i) = {} THEN i ELSE P[next(i)]]
           W == [i \in N |-> End(i)]
<1>1. \A i \in N : Followed(i) # {} => next(i) \in N /\ Walk(i) = {i} \cup Walk(next(i))
  BY WalkGoesOn
<1>2. \A i \in N : Followed(i) = {} => Walk(i) = {i}
  BY WalkEnds
<1> HIDE DEF next
<1>3. \A i \in N : Followed(i) # {} => End(i) = End(next(i))
  <2> SUFFICES ASSUME NEW i \in N, Followed(i) # {}
               PROVE  End(i) = End(next(i))
    OBVIOUS
  <2>1. CASE Followed(next(i)) = {}
    <3>1. Walk(next(i)) = {next(i)}
      BY <2>1, <1>1, <1>2
    <3>2. \A v : v \in Walk(i) /\ Followed(v) = {} <=> v = next(i)
      BY <3>1, <2>1, <1>1
    <3>3. Stop(i) = next(i)
      BY <3>2
    <3> HIDE DEF Stop
    <3> QED
      BY <3>3, <2>1
  <2>2. CASE Followed(next(i)) # {}
    <3>1. \A v : (v \in Walk(i) /\ Followed(v) = {}) <=> (v \in Walk(next(i)) /\ Followed(v) = {})
      BY <1>1
    <3>2. Stop(i) = Stop(next(i))
      BY <3>1
    <3> HIDE DEF Stop
    <3> QED
      BY <3>2, <2>2
  <2> QED
    BY <2>1, <2>2
<1>4. Eq(W)
  <2> HIDE DEF End
  <2>1. \A i \in N : W[i] = End(i)
    OBVIOUS
  <2>2. \A i \in N : Followed(i) # {} => W[i] = W[next(i)]
    BY <2>1, <1>1, <1>3
  <2>3. \A i \in N : Followed(i) = {} => W[i] = i
    BY <2>1 DEF End
  <2> QED
    BY <2>2, <2>3
<1> DEFINE F == CHOOSE P : Eq(P)
<1>5. Eq(F)
  <2> HIDE DEF W, Eq
  <2> QED BY <1>4
<1>6. \A i \in N : EffectiveProducer(i) = F[i]
  BY DEF EffectiveProducer, next
<1>7. \A i \in N : F[i] = IF Followed(i) = {} THEN i ELSE F[next(i)]
  <2> HIDE DEF F
  <2> QED BY <1>5
<1> HIDE DEF F
<1> QED
  BY <1>1, <1>6, <1>7 DEF next

(* The recursion of Sources: what folded nodes put behind n.               *)
Behind(n) ==
  {v \in N : \A T \in SUBSET N :
     /\ Reads(problem, n) \subseteq T
     /\ \A i \in T : Folded(i) /\ ~ IsConstant(i) => Reads(problem, i) \subseteq T
     => v \in T}

LEMMA SourcesStep ==
  ASSUME problem \in Problems, NEW n \in N
  PROVE  Sources(n) =
           UNION {IF IsConstant(i) THEN {} ELSE IF Folded(i) THEN Sources(i) ELSE {i} :
                    i \in Reads(problem, n)}
<1> DEFINE R(i) == Reads(problem, i)
           fold(i) == Folded(i) /\ ~ IsConstant(i)
           closed(T) == \A i \in T : fold(i) => R(i) \subseteq T
           Leaf(v) == ~ IsConstant(v) /\ ~ Folded(v)
           W == [i \in N |-> {v \in Behind(i) : Leaf(v)}]
           Part(S, i) == IF IsConstant(i) THEN {} ELSE IF Folded(i) THEN S[i] ELSE {i}
           Eq(S) == S = [m \in N |-> UNION {Part(S, i) : i \in R(m)}]
<1>1. \A i \in N : R(i) \subseteq N
  BY GraphFacts
<1>2. \A i \in N : Behind(i) = {v \in N : \A T \in SUBSET N : R(i) \subseteq T /\ closed(T) => v \in T}
  BY DEF Behind
<1> HIDE DEF R
<1>3. \A m \in N : R(m) \subseteq Behind(m)
  BY <1>1, <1>2
<1>4. \A m \in N, i \in N : i \in R(m) /\ fold(i) => Behind(i) \subseteq Behind(m)
  <2> SUFFICES ASSUME NEW m \in N, NEW i \in N, i \in R(m), fold(i), NEW v \in Behind(i)
               PROVE  v \in Behind(m)
    OBVIOUS
  <2>1. v \in N
    BY <1>2
  <2>2. ASSUME NEW T \in SUBSET N, R(m) \subseteq T, closed(T) PROVE v \in T
    <3>1. R(i) \subseteq T
      BY <2>2
    <3> QED BY <3>1, <2>2, <1>2
  <2> QED
    BY <2>1, <2>2, <1>2
<1>5. \A m \in N : \A v \in Behind(m) :
        v \in R(m) \/ \E i \in R(m) : fold(i) /\ v \in Behind(i)
  <2> SUFFICES ASSUME NEW m \in N, NEW v \in Behind(m)
               PROVE  v \in R(m) \cup UNION {Behind(i) : i \in {j \in R(m) : fold(j)}}
    OBVIOUS
  <2> DEFINE T == R(m) \cup UNION {Behind(i) : i \in {j \in R(m) : fold(j)}}
  <2>1. T \in SUBSET N
    BY <1>1, <1>2
  <2>2. closed(T)
    <3> SUFFICES ASSUME NEW j \in T, fold(j) PROVE R(j) \subseteq T
      OBVIOUS
    <3>1. CASE j \in R(m)
      <4>1. j \in N /\ R(j) \subseteq Behind(j)
        BY <3>1, <1>1, <1>3
      <4> QED BY <3>1, <4>1
    <3>2. CASE \E i \in R(m) : fold(i) /\ j \in Behind(i)
      <4>1. PICK i \in R(m) : fold(i) /\ j \in Behind(i)
        BY <3>2
      <4>2. i \in N /\ j \in N /\ R(j) \subseteq N
        BY <4>1, <1>1, <1>2
      <4>3. \A U \in SUBSET N : R(i) \subseteq U /\ closed(U) => j \in U
        BY <4>1, <4>2, <1>2
      <4>4. \A U \in SUBSET N : R(i) \subseteq U /\ closed(U) => R(j) \subseteq U
        BY <4>3
      <4>5. R(j) \subseteq Behind(i)
        <5> HIDE DEF closed
        <5> QED BY <4>2, <4>4, <1>2
      <4> QED BY <4>1, <4>5
    <3> QED BY <3>1, <3>2
  <2>3. R(m) \subseteq T
    OBVIOUS
  <2> HIDE DEF T, closed
  <2>4. v \in T
    BY <2>1, <2>2, <2>3, <1>2
  <2> QED BY <2>4 DEF T
<1>6. \A m \in N : W[m] = UNION {Part(W, i) : i \in R(m)}
  <2> SUFFICES ASSUME NEW m \in N PROVE W[m] = UNION {Part(W, i) : i \in R(m)}
    OBVIOUS
  <2>1. \A i \in N : W[i] = {v \in Behind(i) : Leaf(v)}
    OBVIOUS
  <2> HIDE DEF W
  <2>2. ASSUME NEW v \in W[m] PROVE \E i \in R(m) : v \in Part(W, i)
    <3>1. v \in Behind(m) /\ Leaf(v)
      BY <2>1, <2>2
    <3>2. CASE v \in R(m)
      BY <3>1, <3>2
    <3>3. CASE \E i \in R(m) : fold(i) /\ v \in Behind(i)
      <4>1. PICK i \in R(m) : fold(i) /\ v \in Behind(i)
        BY <3>3
      <4>2. v \in W[i]
        BY <4>1, <3>1, <2>1, <1>1
      <4> QED BY <4>1, <4>2
    <3> QED BY <3>1, <3>2, <3>3, <1>5
  <2>3. ASSUME NEW i \in R(m), NEW v \in Part(W, i) PROVE v \in W[m]
    <3>1. i \in N /\ ~ IsConstant(i)
      BY <2>3, <1>1
    <3>2. CASE Folded(i)
      BY <2>1, <3>1, <3>2, <2>3, <1>4
    <3>3. CASE ~ Folded(i)
      <4>1. v = i /\ Leaf(v)
        BY <3>1, <3>3, <2>3
      <4> QED BY <4>1, <2>1, <1>3
    <3> QED BY <3>2, <3>3
  <2> QED
    <3> HIDE DEF Part
    <3> QED BY <2>2, <2>3
<1>7. Eq(W)
  <2> HIDE DEF Part
  <2>1. W = [m \in N |-> W[m]]
    OBVIOUS
  <2> HIDE DEF W
  <2> QED BY <1>6, <2>1
<1> DEFINE F == CHOOSE S : Eq(S)
<1>8. Eq(F)
  <2> HIDE DEF W, Eq
  <2> QED BY <1>7
<1>9. \A i \in N : Sources(i) = F[i]
  BY DEF Sources, R
<1>10. \A i \in N : F[i] = UNION {Part(F, j) : j \in R(i)}
  <2> HIDE DEF F, Part
  <2> QED BY <1>8
<1> HIDE DEF F
<1>11. \A j \in R(n) : Part(F, j) = IF IsConstant(j) THEN {} ELSE IF Folded(j) THEN Sources(j) ELSE {j}
  BY <1>1, <1>9
<1>12. Sources(n) = UNION {Part(F, j) : j \in R(n)}
  BY <1>9, <1>10
<1> HIDE DEF Part
<1> QED
  BY <1>11, <1>12 DEF R

(* Behind a folded node there is at most the value that effectiveProducer  *)
(* finds.                                                                  *)
LEMMA FoldedSources ==
  ASSUME problem \in Problems, NEW m \in N, Folded(m), ~ IsConstant(m),
         NEW v \in Sources(m)
  PROVE  /\ v = EffectiveProducer(m)
         /\ \E i \in N : /\ v \in Reads(problem, i)
                         /\ Folded(i)
         /\ v \in N /\ ~ IsConstant(v) /\ ~ Folded(v)
<1> DEFINE Good(i, w) == /\ w = EffectiveProducer(i)
                         /\ \E j \in N : w \in Reads(problem, j) /\ Folded(j)
                         /\ w \in N /\ ~ IsConstant(w) /\ ~ Folded(w)
           Bad == {i \in N : /\ Folded(i) /\ ~ IsConstant(i)
                             /\ \E w \in Sources(i) : ~ Good(i, w)}
<1>1. ASSUME Bad # {} PROVE FALSE
  <2>1. Bad \subseteq Nat
    BY GraphFacts
  <2>2. PICK i \in Bad : \A j \in Bad : i <= j
    <3> HIDE DEF Bad
    <3> QED BY <1>1, <2>1, Least
  <2>3. i \in N /\ Folded(i) /\ ~ IsConstant(i)
    BY <2>2
  <2>4. PICK w \in Sources(i) : ~ Good(i, w)
    BY <2>2
  <2>5. PICK k \in Reads(problem, i) :
          w \in (IF IsConstant(k) THEN {} ELSE IF Folded(k) THEN Sources(k) ELSE {k})
    BY <2>3, <2>4, SourcesStep
  <2>6. k \in N /\ k < i /\ ~ IsConstant(k)
    BY <2>3, <2>5, GraphFacts
  <2>7. Followed(i) # {}
    BY <2>3, <2>5, <2>6, GraphFacts DEF Followed
  <2>8. Inputs(i)[Min(Followed(i))] = k
    <3>1. /\ Inputs(i)[Min(Followed(i))] \in Reads(problem, i)
          /\ ~ IsConstant(Inputs(i)[Min(Followed(i))])
      BY <2>3, <2>7, FollowedFacts
    <3> QED
      BY <2>3, <2>5, <2>6, <3>1, BoundariesAssumption
         DEF BoundariesReadOne, Folded, IsConstant, N
  <2>9. EffectiveProducer(i) = EffectiveProducer(k)
    BY <2>3, <2>7, <2>8, EffectiveProducerStep
  <2>10. CASE Folded(k)
    <3>1. k \notin Bad
      <4>1. i \in Int /\ k \in Int
        BY <2>3, <2>6, GraphFacts
      <4> QED BY <2>2, <2>6, <4>1
    <3>2. w \in Sources(k)
      BY <2>5, <2>6, <2>10
    <3>3. Good(k, w)
      BY <2>6, <2>10, <3>1, <3>2
    <3> QED
      BY <3>3, <2>9, <2>4
  <2>11. CASE ~ Folded(k)
    <3>1. w = k
      BY <2>5, <2>6, <2>11
    <3>2. Followed(k) = {}
      BY <2>11 DEF Followed
    <3>3. EffectiveProducer(k) = k
      BY <3>2, <2>6, EffectiveProducerStep
    <3> QED
      BY <3>1, <3>3, <2>9, <2>3, <2>4, <2>5, <2>6, <2>11
  <2> QED BY <2>10, <2>11
<1>2. m \notin Bad
  BY <1>1
<1> QED BY <1>2

(* What a node needs is read by it or by a folded node, and it is what     *)
(* effectiveProducer answers for one of its computed operands.             *)
LEMMA SourceFacts ==
  ASSUME problem \in Problems, NEW n \in N, NEW v \in Sources(n)
  PROVE  /\ v \in N /\ ~ IsConstant(v) /\ ~ Folded(v)
         /\ \E i \in Reads(problem, n) : ~ IsConstant(i) /\ EffectiveProducer(i) = v
         /\ \/ v \in Reads(problem, n)
            \/ \E i \in N : v \in Reads(problem, i) /\ Folded(i)
<1>1. PICK k \in Reads(problem, n) :
        v \in (IF IsConstant(k) THEN {} ELSE IF Folded(k) THEN Sources(k) ELSE {k})
  BY SourcesStep
<1>2. k \in N /\ ~ IsConstant(k)
  BY <1>1, GraphFacts
<1>3. CASE Folded(k)
  <2>1. v \in Sources(k)
    BY <1>1, <1>2, <1>3
  <2>2. /\ v = EffectiveProducer(k)
        /\ \E i \in N : v \in Reads(problem, i) /\ Folded(i)
        /\ v \in N /\ ~ IsConstant(v) /\ ~ Folded(v)
    BY <2>1, <1>2, <1>3, FoldedSources
  <2> QED BY <2>2, <1>1, <1>2
<1>4. CASE ~ Folded(k)
  <2>1. v = k /\ Followed(k) = {}
    BY <1>1, <1>2, <1>4 DEF Followed
  <2>2. EffectiveProducer(k) = k
    BY <2>1, <1>2, EffectiveProducerStep
  <2> QED BY <2>1, <2>2, <1>1, <1>2, <1>4
<1> QED BY <1>3, <1>4

(* A result with one user has one reader.                                  *)
LEMMA OneReader ==
  ASSUME problem \in Problems, NEW p \in N, UserCount(problem, p) = 1,
         NEW a \in N, NEW b \in N, p \in Reads(problem, a), p \in Reads(problem, b)
  PROVE  a = b
<1> DEFINE Uses(m) == {m} \X {k \in DOMAIN problem.inputs[m] : problem.inputs[m][k] = p}
           All == UNION {Uses(m) : m \in N}
<1>1. Cardinality(All) = 1
  BY DEF UserCount, UseList, N
<1>2. \A m \in N : IsFiniteSet(Uses(m))
  <2> SUFFICES ASSUME NEW m \in N PROVE IsFiniteSet(Uses(m))
    OBVIOUS
  <2>1. Inputs(m) \in Seq(1 .. m - 1)
    BY GraphFacts
  <2>2. DOMAIN Inputs(m) = 1 .. Len(Inputs(m)) /\ Len(Inputs(m)) \in Nat
    BY <2>1
  <2>3. IsFiniteSet(DOMAIN Inputs(m))
    BY <2>2, FS_Interval
  <2>4. IsFiniteSet({k \in DOMAIN problem.inputs[m] : problem.inputs[m][k] = p})
    BY <2>3, FS_Subset DEF Inputs
  <2> QED BY <2>4, FS_Singleton, FS_Product
<1>3. IsFiniteSet(All)
  <2>1. IsFiniteSet(N)
    BY GraphFacts, FS_Interval
  <2>2. IsFiniteSet({Uses(m) : m \in N})
    <3> HIDE DEF Uses
    <3> DEFINE T == {Uses(m) : m \in N}
               f == [m \in N |-> Uses(m)]
    <3>1. f \in Surjection(N, T)
      BY DEF Surjection
    <3> HIDE DEF f, T
    <3>2. IsFiniteSet(T)
      BY <2>1, <3>1, FS_Surjection
    <3> QED BY <3>2 DEF T
  <2>3. \A S \in {Uses(m) : m \in N} : IsFiniteSet(S)
    BY <1>2
  <2> QED BY <2>2, <2>3, FS_UNION
<1>4. PICK x : All = {x}
  <2> HIDE DEF All
  <2> QED BY <1>1, <1>3, FS_Singleton
<1>5. \A m \in N : p \in Reads(problem, m) => \E u \in All : u[1] = m
  <2> SUFFICES ASSUME NEW m \in N, p \in Reads(problem, m)
               PROVE  \E u \in All : u[1] = m
    OBVIOUS
  <2>1. PICK k \in DOMAIN problem.inputs[m] : problem.inputs[m][k] = p
    BY DEF Reads, ToSet
  <2>2. <<m, k>> \in All
    BY <2>1
  <2> QED BY <2>2
<1> HIDE DEF All
<1> QED BY <1>4, <1>5

(* The relu that a producer's epilogue is.                                 *)
LEMMA EpilogueFacts ==
  ASSUME problem \in Problems, NEW e \in N, IsEpilogue(e)
  PROVE  /\ Inputs(e)[1] \in N /\ Inputs(e)[1] \in Reads(problem, e)
         /\ UserCount(problem, Inputs(e)[1]) = 1
         /\ Inputs(e)[1] \in Active
         /\ ~ Folded(e) /\ Kind(problem, e) = "alu"
<1> DEFINE p == Inputs(e)[1]
<1>1. Inputs(e) \in Seq(1 .. e - 1) /\ Len(Inputs(e)) = 1
  BY GraphFacts DEF IsEpilogue
<1>2. 1 \in DOMAIN Inputs(e)
  BY <1>1
<1>3. p \in Reads(problem, e) /\ p \in N
  BY <1>2, GraphFacts
<1>4. Kind(problem, p) \in {"conv", "matmul"} /\ UserCount(problem, p) = 1
  BY DEF IsEpilogue
<1>5. problem.op[e] = "relu"
  BY DEF IsEpilogue
<1>6. Kind(problem, e) = "alu"
  BY <1>5 DEF Kind, KindOf
<1>7. ~ IsConstant(p)
  <2>1. problem.op[p] # "constexpr_affine_dequantize"
    BY <1>4 DEF Kind, KindOf
  <2> QED BY <1>4, <2>1 DEF IsConstant, ConstantIn
<1>8. ~ Folded(p) /\ ~ Folded(e)
  BY <1>4, <1>6 DEF Folded, FoldedIn
<1>9. ~ IsEpilogue(p)
  <2>1. problem.op[p] # "relu"
    BY <1>4 DEF Kind, KindOf
  <2> QED BY <2>1 DEF IsEpilogue
<1> QED BY <1>3, <1>4, <1>6, <1>7, <1>8, <1>9 DEF Active

LEMMA ResultFacts ==
  ASSUME problem \in Problems, NEW n \in N
  PROVE  \/ /\ Result(n) = n
            /\ \A e \in N : ~ (IsEpilogue(e) /\ Inputs(e)[1] = n)
         \/ Result(n) \in N /\ IsEpilogue(Result(n)) /\ Inputs(Result(n))[1] = n
BY DEF Result

--------------------------------------------------------------------------------

(* When splitting is over, every active node has its task.                 *)
Split ==
  /\ split \in Seq(SUBSET Active)
  /\ \A i, j \in DOMAIN split : i # j => split[i] \cap split[j] = {}
  /\ \A n \in Active : \E i \in DOMAIN split : n \in split[i]

(* Every value a node needs is computed by one task, under whose name the  *)
(* value has its surface.                                                  *)
LEMMA OneProducer ==
  ASSUME problem \in Problems, Split, NEW n \in Active, NEW v \in Sources(n)
  PROVE  /\ TaskOf(v) \in DOMAIN split
         /\ Producers(v) = {TaskOf(v)}
         /\ \E m \in Active : v = Result(m)
<1>1. Active \subseteq N /\ n \in N
  BY DEF Active
<1>2. /\ v \in N /\ ~ IsConstant(v) /\ ~ Folded(v)
      /\ v \in Reads(problem, n) \/ \E i \in N : v \in Reads(problem, i) /\ Folded(i)
  BY <1>1, SourceFacts
<1> DEFINE Computes(t) == \E m \in split[t] : v \in {m, Result(m)}
<1>3. \A t \in DOMAIN split : split[t] \subseteq Active
  BY DEF Split
<1>4. \A t \in DOMAIN split : t \in Producers(v) <=> Computes(t)
  BY DEF Producers
<1>5. TaskOf(v) = IF \E t \in DOMAIN split : Computes(t)
                    THEN CHOOSE t \in DOMAIN split : Computes(t) ELSE 0
  BY DEF TaskOf
<1>6. \A e, f \in N : /\ IsEpilogue(e) /\ IsEpilogue(f)
                       /\ Inputs(e)[1] = Inputs(f)[1] => e = f
  BY EpilogueFacts, OneReader
<1>7. ASSUME NEW m \in Active, NEW u \in DOMAIN split, m \in split[u],
             v = m \/ v = Result(m),
             \A w \in Active : v = w \/ v = Result(w) => w = m
      PROVE  TaskOf(v) = u /\ Producers(v) = {u}
  <2>1. \A t \in DOMAIN split : Computes(t) <=> t = u
    BY <1>3, <1>7 DEF Split
  <2> HIDE DEF Computes
  <2>2. TaskOf(v) = u
    BY <1>5, <2>1
  <2>3. Producers(v) \subseteq DOMAIN split
    BY DEF Producers
  <2>4. Producers(v) = {u}
    BY <1>4, <2>1, <2>3
  <2> QED BY <2>2, <2>4
<1>8. CASE v \in Active
  <2>1. PICK u \in DOMAIN split : v \in split[u]
    BY <1>8 DEF Split
  <2>2. ~ IsEpilogue(v)
    BY <1>8 DEF Active
  <2>3. \A w \in Active : v = w \/ v = Result(w) => w = v
    BY <1>1, <2>2, ResultFacts
  <2>4. TaskOf(v) = u /\ Producers(v) = {u}
    BY <1>7, <1>8, <2>1, <2>3
  <2>5. \A e \in N : ~ (IsEpilogue(e) /\ Inputs(e)[1] = v)
    <3> SUFFICES ASSUME NEW e \in N, IsEpilogue(e), Inputs(e)[1] = v
                 PROVE  FALSE
      OBVIOUS
    <3>1. /\ v \in Reads(problem, e) /\ UserCount(problem, v) = 1
          /\ ~ Folded(e) /\ e \notin Active
      BY EpilogueFacts DEF Active
    <3>2. n # e
      BY <3>1
    <3> QED BY <1>1, <1>2, <3>1, <3>2, OneReader
  <2>6. Result(v) = v
    BY <1>2, <2>5, ResultFacts
  <2> QED BY <2>1, <2>4, <2>6, <1>8
<1>9. CASE v \notin Active
  <2>1. IsEpilogue(v)
    BY <1>2, <1>9 DEF Active
  <2> DEFINE p == Inputs(v)[1]
  <2>2. p \in Active
    BY <1>2, <2>1, EpilogueFacts
  <2>3. Result(p) = v
    <3>1. IsEpilogue(Result(p)) /\ Result(p) \in N /\ Inputs(Result(p))[1] = p
      BY <1>1, <1>2, <2>1, <2>2, ResultFacts
    <3> QED BY <3>1, <2>1, <1>2, <1>6
  <2>4. PICK u \in DOMAIN split : p \in split[u]
    BY <2>2 DEF Split
  <2>5. \A w \in Active : v = w \/ v = Result(w) => w = p
    BY <1>1, <1>9, ResultFacts
  <2>6. TaskOf(v) = u /\ Producers(v) = {u}
    BY <1>7, <2>2, <2>3, <2>4, <2>5
  <2> QED BY <2>2, <2>3, <2>4, <2>6
<1> QED BY <1>8, <1>9

--------------------------------------------------------------------------------

TaskRecord(t) ==
  /\ tasks[t].loads = ReadByTask(t) \cup ExternalsOfTask(t)
  /\ tasks[t].dependencies = {TaskOf(v) : v \in ReadByTask(t)} \ {0}

Results == {Result(n) : n \in Active}

(* A surface begins where it was created and has grown to the tasks that   *)
(* read it.                                                                *)
Lifetimes ==
  /\ \A v \in DOMAIN surfaces : surfaces[v].first \in Nat /\ surfaces[v].last \in Nat
  /\ \A v \in Results : v \in DOMAIN surfaces /\ surfaces[v].first = TaskOf(v)
  /\ \A t \in DOMAIN tasks : \A v \in ReadByTask(t) :
       /\ v \in DOMAIN surfaces
       /\ Prolongs(t, v) => t <= surfaces[v].last

(* Splitting begins when every node is listed, and tasks are emitted when  *)
(* every group is split.                                                   *)
Stages ==
  /\ node \in Nat \ {0}
  /\ phase \in {"splitting", "emitting", "done"} => node \notin N
  /\ phase \notin {"emitting", "done"} => tasks = <<>>
  /\ phase \in {"emitting", "done"} => groups = <<>>

Emitted ==
  /\ tasks \in Seq(ToSet(tasks))
  /\ \A t \in DOMAIN tasks : t \in DOMAIN split /\ TaskRecord(t)
  /\ Lifetimes

TInv == IInv /\ Stages /\ (phase \in {"emitting", "done"} => Emitted)

--------------------------------------------------------------------------------

(* What is said of tasks and surfaces depends on the graph and the split.  *)
LEMMA ReadsKept ==
  ASSUME problem' = problem, split' = split
  PROVE  /\ N' = N /\ Active' = Active /\ Results' = Results
         /\ \A n : Result(n)' = Result(n)
         /\ \A v : TaskOf(v)' = TaskOf(v)
         /\ \A t : ReadByTask(t)' = ReadByTask(t)
         /\ \A t : ExternalsOfTask(t)' = ExternalsOfTask(t)
         /\ \A t, v : Prolongs(t, v)' <=> Prolongs(t, v)
<1>1. N' = N
  BY DEF N
<1>2. Active' = Active
  BY ActiveKept
<1>3. \A n : Result(n)' = Result(n)
  BY <1>1 DEF Result, IsEpilogue, Inputs, SameRegion
<1>4. Results' = Results
  BY <1>2, <1>3 DEF Results
<1>5. \A v : TaskOf(v)' = TaskOf(v)
  BY <1>3 DEF TaskOf
<1>6. \A m : Followed(m)' = Followed(m)
  BY DEF Followed, Inputs, Folded, IsConstant
<1>7. \A n : EffectiveProducer(n)' = EffectiveProducer(n)
  BY DEF EffectiveProducer, Followed, Inputs, Folded, FoldedIn, IsConstant, ConstantIn,
         N, Nodes, Kind
<1>8. \A i : IsConstant(i)' <=> IsConstant(i)
  BY DEF IsConstant
<1>9. \A t : ReadByTask(t)' = ReadByTask(t)
  BY <1>5, <1>7, <1>8 DEF ReadByTask
<1>10. \A t : ExternalsOfTask(t)' = ExternalsOfTask(t)
  BY DEF ExternalsOfTask
<1>11. \A t, v : Prolongs(t, v)' <=> Prolongs(t, v)
  BY <1>5, <1>9 DEF Prolongs
<1> QED BY <1>1, <1>2, <1>3, <1>4, <1>5, <1>9, <1>10, <1>11

LEMMA TaskOfRange ==
  ASSUME Split, NEW v
  PROVE  TaskOf(v) \in Nat /\ (TaskOf(v) # 0 => TaskOf(v) \in DOMAIN split)
<1>1. DOMAIN split \subseteq Nat
  <2>1. Len(split) \in Nat /\ DOMAIN split = 1 .. Len(split)
    BY DEF Split
  <2> QED BY <2>1
<1> DEFINE Computes(t) == \E m \in split[t] : v \in {m, Result(m)}
<1>2. TaskOf(v) = IF \E t \in DOMAIN split : Computes(t)
                    THEN CHOOSE t \in DOMAIN split : Computes(t) ELSE 0
  BY DEF TaskOf
<1> HIDE DEF Computes
<1>3. CASE \E t \in DOMAIN split : Computes(t)
  BY <1>1, <1>2, <1>3
<1>4. CASE ~ \E t \in DOMAIN split : Computes(t)
  BY <1>2, <1>4
<1> QED BY <1>3, <1>4

LEMMA SplitDone ==
  ASSUME IInv, Stages, phase \in {"splitting", "emitting", "done"}, groups = <<>>
  PROVE  Split
<1>1. \A n \in Active : n < node
  <2>1. N = 1 .. Len(problem.op) /\ Len(problem.op) \in Nat /\ Active \subseteq N
    BY GraphFacts DEF IInv, Shape, Active
  <2>2. node \in Nat \ {0} /\ node \notin N
    BY DEF Stages
  <2> QED BY <2>1, <2>2
<1>2. \A n \in Active : \E i \in DOMAIN split : n \in split[i]
  BY <1>1 DEF IInv, EveryNodeOnce
<1> QED BY <1>2 DEF Split, IInv, Shape, EveryNodeOnce

--------------------------------------------------------------------------------

LEMMA InitTInv == Init => TInv
<1> SUFFICES ASSUME Init PROVE TInv
  OBVIOUS
<1>1. Stages
  BY DEF Init, Stages
<1> QED BY <1>1, InitIInv DEF TInv, Init

LEMMA StagesStep ==
  ASSUME IInv, Stages, [Next]_vars
  PROVE  Stages'
<1>1. problem' = problem
  BY DEF Next, vars, NoRegions, ListNode, Merge, NextPass, SplitGroup,
         CreateSurfaces, EmitTask, Finish, Done
<1>2. N' = N
  BY <1>1 DEF N
<1>3. CASE NoRegions
  BY <1>2, <1>3 DEF NoRegions, Stages
<1>4. CASE ListNode
  BY <1>2, <1>4 DEF ListNode, Stages
<1>5. CASE Merge
  BY <1>2, <1>5 DEF Merge, Stages
<1>6. CASE NextPass
  BY <1>2, <1>6 DEF NextPass, Stages
<1>7. CASE SplitGroup
  BY <1>2, <1>7 DEF SplitGroup, Stages
<1>8. CASE CreateSurfaces
  BY <1>2, <1>8 DEF CreateSurfaces, Stages
<1>9. CASE EmitTask
  BY <1>2, <1>9 DEF EmitTask, Stages
<1>10. CASE Finish
  BY <1>2, <1>10 DEF Finish, Stages
<1>11. CASE UNCHANGED vars
  BY <1>2, <1>11 DEF vars, Stages
<1> QED
  BY <1>3, <1>4, <1>5, <1>6, <1>7, <1>8, <1>9, <1>10, <1>11 DEF Next, Done

LEMMA CreateSurfacesStep ==
  ASSUME TInv, CreateSurfaces
  PROVE  Emitted'
<1>1. /\ problem' = problem /\ split' = split /\ tasks' = tasks
      /\ phase = "splitting" /\ groups = <<>>
  BY DEF CreateSurfaces
<1>2. tasks = <<>> /\ Split
  BY <1>1, SplitDone DEF TInv, Stages
<1>3. surfaces' = [v \in Results |->
                    Surface(IF v \in problem.outputs THEN "output" ELSE "intermediate",
                            TaskOf(v))]
  BY DEF CreateSurfaces, Results
<1>4. \A v \in Results : surfaces'[v].first = TaskOf(v) /\ surfaces'[v].last = TaskOf(v)
  BY <1>3 DEF Surface
<1>5. Lifetimes'
  BY <1>1, <1>2, <1>3, <1>4, ReadsKept, TaskOfRange DEF Lifetimes
<1> QED
  BY <1>1, <1>2, <1>5 DEF Emitted

(* A lifetime never shrinks or starts later, and covers the task emitted.  *)
LEMMA SurfacesAfterFacts ==
  ASSUME Lifetimes, NEW t \in Nat
  PROVE  /\ DOMAIN SurfacesAfter(t) =
              DOMAIN surfaces \cup ReadByTask(t) \cup ExternalsOfTask(t)
         /\ \A v \in DOMAIN SurfacesAfter(t) :
              /\ SurfacesAfter(t)[v].first \in Nat /\ SurfacesAfter(t)[v].last \in Nat
              /\ Prolongs(t, v) => t <= SurfacesAfter(t)[v].last
         /\ \A v \in DOMAIN surfaces :
              /\ SurfacesAfter(t)[v].first = surfaces[v].first
              /\ surfaces[v].last <= SurfacesAfter(t)[v].last
<1> DEFINE D == DOMAIN surfaces \cup ReadByTask(t) \cup ExternalsOfTask(t)
           s == SurfacesAfter(t)
<1>1. DOMAIN s = D
  BY DEF SurfacesAfter
<1>2. ASSUME NEW v \in D, v \notin DOMAIN surfaces
      PROVE  s[v].first = t /\ s[v].last = t
  BY <1>2 DEF SurfacesAfter, Surface
<1>3. ASSUME NEW v \in DOMAIN surfaces
      PROVE  /\ s[v].first = surfaces[v].first
             /\ s[v].last \in Nat /\ surfaces[v].last <= s[v].last
             /\ Prolongs(t, v) => t <= s[v].last
  <2>1. surfaces[v].last \in Nat
    BY DEF Lifetimes
  <2>2. CASE ~ Prolongs(t, v)
    <3>1. s[v] = surfaces[v]
      BY <1>3, <2>2 DEF SurfacesAfter
    <3> QED BY <3>1, <2>1, <2>2
  <2>3. CASE Prolongs(t, v)
    <3>1. s[v] = [surfaces[v] EXCEPT !.last = Max({surfaces[v].last, t})]
      BY <1>3, <2>3 DEF SurfacesAfter
    <3>2. /\ Max({surfaces[v].last, t}) \in {surfaces[v].last, t}
          /\ \A y \in {surfaces[v].last, t} : Max({surfaces[v].last, t}) >= y
      <4>1. \E x \in {surfaces[v].last, t} : \A y \in {surfaces[v].last, t} : x >= y
        <5>1. CASE surfaces[v].last >= t BY <5>1, <2>1
        <5>2. CASE t >= surfaces[v].last BY <5>2, <2>1
        <5> QED BY <5>1, <5>2, <2>1
      <4> QED BY <4>1 DEF Max
    <3>3. s[v].first = surfaces[v].first
      BY <3>1
    <3>4. s[v].last = Max({surfaces[v].last, t})
      BY <3>1
    <3> QED BY <3>2, <3>3, <3>4, <2>1
  <2> QED BY <2>2, <2>3
<1>4. \A v \in DOMAIN surfaces : surfaces[v].first \in Nat
  BY DEF Lifetimes
<1> HIDE DEF s
<1>5. \A v \in D : /\ s[v].first \in Nat /\ s[v].last \in Nat
                   /\ Prolongs(t, v) => t <= s[v].last
  BY <1>2, <1>3, <1>4
<1> QED BY <1>1, <1>3, <1>5 DEF s

LEMMA EmitTaskStep ==
  ASSUME TInv, EmitTask
  PROVE  Emitted'
<1> DEFINE t == Len(tasks) + 1
           deps == {TaskOf(v) : v \in ReadByTask(t)} \ {0}
           new == [loads |-> ReadByTask(t) \cup ExternalsOfTask(t),
                   dependencies |-> deps, wave |-> Wave(deps), stores |-> Stored(t)]
<1>1. /\ problem' = problem /\ split' = split /\ phase = "emitting"
      /\ Len(tasks) < Len(split)
      /\ tasks' = Append(tasks, new) /\ surfaces' = SurfacesAfter(t)
  BY DEF EmitTask
<1>2. Emitted /\ groups = <<>> /\ Split
  BY <1>1, SplitDone DEF TInv, Stages
<1>3. /\ Len(tasks) \in Nat /\ DOMAIN tasks = 1 .. Len(tasks) /\ t \in Nat
      /\ Len(split) \in Nat /\ DOMAIN split = 1 .. Len(split)
  BY <1>2 DEF Emitted, Split
<1>4. /\ DOMAIN tasks' = 1 .. t /\ Len(tasks') = t
      /\ tasks'[t] = new /\ tasks' \in Seq(ToSet(tasks'))
      /\ \A s \in DOMAIN tasks : tasks'[s] = tasks[s]
  <2> HIDE DEF new
  <2> DEFINE S == ToSet(tasks) \cup {new}
  <2>1. new \in S /\ tasks \in Seq(S)
    <3>1. tasks \in Seq(ToSet(tasks))
      BY <1>2 DEF Emitted
    <3> QED BY <3>1
  <2> HIDE DEF S
  <2>2. tasks' \in Seq(S)
    BY <1>1, <2>1
  <2>3. tasks' \in Seq(ToSet(tasks'))
    BY <2>2 DEF ToSet
  <2> QED BY <1>1, <1>3, <2>1, <2>3
<1>5. new.loads = ReadByTask(t) \cup ExternalsOfTask(t) /\ new.dependencies = deps
  OBVIOUS
<1> HIDE DEF new
<1>6. \A s \in DOMAIN tasks' : s \in DOMAIN split /\ TaskRecord(s)'
  <2> SUFFICES ASSUME NEW s \in 1 .. t
               PROVE  /\ s \in DOMAIN split
                      /\ tasks'[s].loads = ReadByTask(s) \cup ExternalsOfTask(s)
                      /\ tasks'[s].dependencies = {TaskOf(v) : v \in ReadByTask(s)} \ {0}
    BY <1>1, <1>4, ReadsKept DEF TaskRecord
  <2>1. CASE s = t
    BY <2>1, <1>1, <1>3, <1>4, <1>5
  <2>2. CASE s # t
    <3>1. s \in DOMAIN tasks
      BY <2>2, <1>3
    <3> QED BY <3>1, <1>2, <1>4 DEF Emitted, TaskRecord
  <2> QED BY <2>1, <2>2
<1> HIDE DEF t
<1>7. Lifetimes'
  <2>1. /\ DOMAIN surfaces' = DOMAIN surfaces \cup ReadByTask(t) \cup ExternalsOfTask(t)
        /\ \A v \in DOMAIN surfaces' :
              /\ surfaces'[v].first \in Nat /\ surfaces'[v].last \in Nat
              /\ Prolongs(t, v) => t <= surfaces'[v].last
        /\ \A v \in DOMAIN surfaces :
              /\ surfaces'[v].first = surfaces[v].first
              /\ surfaces[v].last <= surfaces'[v].last
    BY <1>1, <1>2, <1>3, SurfacesAfterFacts DEF Emitted
  <2>2. \A v \in Results : v \in DOMAIN surfaces' /\ surfaces'[v].first = TaskOf(v)
    BY <2>1, <1>2 DEF Emitted, Lifetimes
  <2>3. \A s \in DOMAIN tasks' : \A v \in ReadByTask(s) :
          v \in DOMAIN surfaces' /\ (Prolongs(s, v) => s <= surfaces'[v].last)
    <3> SUFFICES ASSUME NEW s \in 1 .. t, NEW v \in ReadByTask(s)
                 PROVE  /\ v \in DOMAIN surfaces'
                        /\ Prolongs(s, v) => s <= surfaces'[v].last
      BY <1>4
    <3>1. CASE s = t
      BY <3>1, <2>1
    <3>2. CASE s # t
      <4>1. s \in DOMAIN tasks /\ s \in Nat
        BY <3>2, <1>3 DEF t
      <4>2. /\ v \in DOMAIN surfaces /\ surfaces[v].last \in Nat
            /\ Prolongs(s, v) => s <= surfaces[v].last
        BY <4>1, <1>2 DEF Emitted, Lifetimes
      <4> QED BY <4>1, <4>2, <2>1
    <3> QED BY <3>1, <3>2
  <2> QED BY <1>1, <2>1, <2>2, <2>3, ReadsKept DEF Lifetimes
<1> QED BY <1>3, <1>4, <1>6, <1>7, <1>1 DEF Emitted

LEMMA EmittedKept ==
  ASSUME Emitted, problem' = problem, split' = split, tasks' = tasks,
         surfaces' = surfaces
  PROVE  Emitted'
<1>1. tasks' \in Seq(ToSet(tasks'))
  BY DEF Emitted
<1>2. (\A t \in DOMAIN tasks : t \in DOMAIN split /\ TaskRecord(t))'
  BY ReadsKept DEF Emitted, TaskRecord
<1>3. Lifetimes'
  BY ReadsKept DEF Emitted, Lifetimes
<1> QED BY <1>1, <1>2, <1>3 DEF Emitted

LEMMA TInductive == TInv /\ [Next]_vars => TInv'
<1> SUFFICES ASSUME TInv, [Next]_vars PROVE TInv'
  OBVIOUS
<1>1. IInv' /\ Stages'
  BY Inductive, StagesStep DEF TInv
<1>2. CASE CreateSurfaces
  BY <1>1, <1>2, CreateSurfacesStep DEF TInv
<1>3. CASE EmitTask
  BY <1>1, <1>3, EmitTaskStep DEF TInv
<1>4. CASE Finish \/ UNCHANGED vars
  <2>1. /\ problem' = problem /\ split' = split /\ tasks' = tasks
        /\ surfaces' = surfaces
        /\ phase' \in {"emitting", "done"} => phase \in {"emitting", "done"}
    BY <1>4 DEF Finish, vars
  <2> QED BY <1>1, <2>1, EmittedKept DEF TInv
<1>5. CASE NoRegions \/ ListNode \/ Merge \/ NextPass \/ SplitGroup
  <2>1. phase' \notin {"emitting", "done"}
    BY <1>5 DEF NoRegions, ListNode, Merge, NextPass, SplitGroup
  <2> QED BY <1>1, <2>1 DEF TInv
<1> QED BY <1>2, <1>3, <1>4, <1>5 DEF Next, Done

(* What an emitted task reads of another task it has on record.            *)
LEMMA ReadFacts ==
  ASSUME TInv, NEW t \in DOMAIN tasks, NEW n \in split[t], NEW v \in Sources(n)
  PROVE  /\ Producers(v) = {TaskOf(v)} /\ TaskOf(v) \in DOMAIN split /\ TaskOf(v) # 0
         /\ t \in DOMAIN split
         /\ v \in Results
         /\ TaskOf(v) # t => v \in ReadByTask(t)
<1>1. phase \in {"emitting", "done"}
  BY DEF TInv, Stages
<1>2. Emitted /\ Split /\ problem \in Problems
  BY <1>1, SplitDone DEF TInv, Stages, IInv, Shape
<1>3. t \in DOMAIN split /\ n \in Active /\ n \in N
  BY <1>2 DEF Emitted, Split, Active
<1>4. /\ TaskOf(v) \in DOMAIN split /\ Producers(v) = {TaskOf(v)} /\ v \in Results
  BY <1>2, <1>3, OneProducer DEF Results
<1>5. TaskOf(v) # 0
  <2>1. Len(split) \in Nat /\ DOMAIN split = 1 .. Len(split)
    BY <1>2 DEF Split
  <2> QED BY <2>1, <1>4
<1>6. PICK i \in Reads(problem, n) : ~ IsConstant(i) /\ EffectiveProducer(i) = v
  BY <1>2, <1>3, SourceFacts
<1>7. TaskOf(v) # t => v \in ReadByTask(t)
  BY <1>6 DEF ReadByTask
<1> QED BY <1>3, <1>4, <1>5, <1>7

(* A task has every other task it needs among its dependencies, and loads  *)
(* the value, also through folded boundaries and epilogues                 *)
(* (ANETaskScheduler.mm:411-440), on every graph.                          *)
THEOREM DependenciesKnown == Spec => []DependenciesComplete
<1>1. Init => TInv
  BY InitTInv
<1>2. TInv /\ [Next]_vars => TInv'
  BY TInductive
<1>3. TInv => DependenciesComplete
  <2> SUFFICES ASSUME TInv, NEW t \in DOMAIN tasks, NEW n \in split[t],
                      NEW v \in Sources(n)
               PROVE  /\ Producers(v) # {}
                      /\ Producers(v) \subseteq {t} \cup tasks[t].dependencies
                      /\ t \notin Producers(v) => v \in tasks[t].loads
    BY DEF DependenciesComplete
  <2>1. TaskRecord(t)
    BY DEF TInv, Stages, Emitted
  <2> QED BY <2>1, ReadFacts DEF TaskRecord
<1> QED BY <1>1, <1>2, <1>3, PTL DEF Spec

(* A value's surface begins at the task that computes it and lasts through *)
(* every later task that reads it, whatever else prolonged it              *)
(* (ANETaskScheduler.mm:381-384, 436-439), on every graph.                 *)
THEOREM ReadsCovered == Spec => []LifetimesCoverReads
<1>1. Init => TInv
  BY InitTInv
<1>2. TInv /\ [Next]_vars => TInv'
  BY TInductive
<1>3. TInv => LifetimesCoverReads
  <2> SUFFICES ASSUME TInv, NEW t \in DOMAIN tasks, NEW n \in split[t],
                      NEW v \in Sources(n), t \notin Producers(v)
               PROVE  /\ v \in DOMAIN surfaces
                      /\ surfaces[v].first \in Producers(v)
                      /\ surfaces[v].first < t => t <= surfaces[v].last
    BY DEF LifetimesCoverReads
  <2>1. Lifetimes
    BY DEF TInv, Stages, Emitted
  <2>2. /\ Producers(v) = {TaskOf(v)} /\ TaskOf(v) # 0 /\ v \in Results
        /\ v \in ReadByTask(t)
    BY ReadFacts
  <2>3. Prolongs(t, v)
    BY <2>2 DEF Prolongs
  <2> QED BY <2>1, <2>2, <2>3 DEF Lifetimes
<1> QED BY <1>1, <1>2, <1>3, PTL DEF Spec

================================================================================
