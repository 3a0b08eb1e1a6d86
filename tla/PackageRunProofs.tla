---------------------------- MODULE PackageRunProofs ----------------------------
(***************************************************************************)
(* For every package that load_package accepts.                            *)
(***************************************************************************)
EXTENDS PackageRun, FiniteSetTheorems, SequenceTheorems, WellFoundedInduction, TLAPS

LEMMA Least ==
  ASSUME NEW T \in SUBSET Nat, T # {}
  PROVE  \E x \in T : \A y \in T : x <= y
<1> DEFINE R == {ss \in Nat \X Nat : ss[1] < ss[2]}
<1>1. IsWellFoundedOn(R, Nat)
  BY NatLessThanWellFounded DEF OpToRel
<1>2. \E x \in T : \A y \in T : ~ (<<y, x>> \in R)
  <2> HIDE DEF R
  <2> QED
    BY <1>1, WFMin
<1>3. PICK x \in T : \A y \in T : ~ (<<y, x>> \in R)
  BY <1>2
<1>4. \A y \in T : ~ (y < x)
  BY <1>3
<1> QED
  BY <1>4

(***************************************************************************)
(* Bytes in sequences.                                                     *)
(***************************************************************************)
Listed(s) == \E S : s \in Seq(S)

LEMMA ListedFacts ==
  ASSUME NEW s, Listed(s)
  PROVE  Len(s) \in Nat /\ DOMAIN s = 1..Len(s)
BY LenProperties DEF Listed

LEMMA ListedAppend ==
  ASSUME NEW s, Listed(s), NEW x
  PROVE  /\ Listed(Append(s, x)) /\ Len(Append(s, x)) = Len(s) + 1
         /\ \A i \in 1..Len(s) : Append(s, x)[i] = s[i]
         /\ Append(s, x)[Len(s) + 1] = x
<1>1. PICK S : s \in Seq(S)
  BY DEF Listed
<1> DEFINE T == S \cup {x}
<1>2. s \in Seq(T) /\ x \in T
  <2>1. s \in [1..Len(s) -> S] /\ Len(s) \in Nat
    BY <1>1, LenProperties
  <2>2. s \in [1..Len(s) -> T]
    BY <2>1
  <2> QED BY <2>1, <2>2, SeqDef
<1> HIDE DEF T
<1> QED BY <1>2, AppendProperties DEF Listed

LEMMA ThreeParts ==
  ASSUME NEW S, NEW a \in Seq(S), NEW b \in Seq(S), NEW c \in Seq(S)
  PROVE  /\ (a \o b) \o c \in Seq(S) /\ Len((a \o b) \o c) = Len(a) + Len(b) + Len(c)
         /\ \A k \in 1..Len(a) : ((a \o b) \o c)[k] = a[k]
         /\ \A k \in 1..Len(b) : ((a \o b) \o c)[Len(a) + k] = b[k]
         /\ \A k \in 1..Len(c) : ((a \o b) \o c)[Len(a) + Len(b) + k] = c[k]
<1>1. PICK p \in Nat, q \in Nat, r \in Nat : p = Len(a) /\ q = Len(b) /\ r = Len(c)
  BY LenProperties
<1>2. PICK both, whole : both = a \o b /\ whole = (a \o b) \o c
  OBVIOUS
<1>3. /\ both \in Seq(S) /\ Len(both) = p + q
      /\ \A k \in 1..(p + q) : both[k] = IF k <= p THEN a[k] ELSE b[k - p]
  BY <1>1, <1>2, ConcatProperties
<1>4. /\ whole \in Seq(S) /\ Len(whole) = p + q + r
      /\ \A k \in 1..(p + q + r) : whole[k] = IF k <= p + q THEN both[k] ELSE c[k - (p + q)]
  BY <1>1, <1>2, <1>3, ConcatProperties
<1>5. ASSUME NEW k \in 1..p PROVE whole[k] = a[k]
  <2>1. k \in 1..(p + q) /\ k \in 1..(p + q + r) /\ k <= p /\ k <= p + q
    OBVIOUS
  <2> QED BY <2>1, <1>3, <1>4
<1>6. ASSUME NEW k \in 1..q PROVE whole[p + k] = b[k]
  <2>1. /\ p + k \in 1..(p + q) /\ p + k \in 1..(p + q + r) /\ ~(p + k <= p) /\ p + k <= p + q
        /\ (p + k) - p = k
    OBVIOUS
  <2> QED BY <2>1, <1>3, <1>4
<1>7. ASSUME NEW k \in 1..r PROVE whole[p + q + k] = c[k]
  <2>1. p + q + k \in 1..(p + q + r) /\ ~(p + q + k <= p + q) /\ (p + q + k) - (p + q) = k
    OBVIOUS
  <2> QED BY <2>1, <1>4
<1> QED BY <1>1, <1>2, <1>4, <1>5, <1>6, <1>7

Rest(data, to) == IF to < Len(data) THEN Len(data) - to ELSE 0

(* data[from:to] = values: what stays, what is new, and how long it gets.  *)
Assigned(data, from, to, values, result) ==
  /\ Listed(result)
  /\ Len(result) = from + Len(values) + Rest(data, to)
  /\ \A k \in 1..from : result[k] = data[k]
  /\ \A k \in 1..Len(values) : result[from + k] = values[k]
  /\ \A k \in 1..Rest(data, to) : result[from + Len(values) + k] = data[to + k]

LEMMA AssignFacts ==
  ASSUME NEW data, Listed(data), NEW values, Listed(values),
         NEW from \in Nat, NEW to \in Nat, from <= to, from <= Len(data)
  PROVE  Assigned(data, from, to, values, Assign(data, from, to, values))
<1>1. PICK n \in Nat, m \in Nat : n = Len(data) /\ m = Len(values) /\ DOMAIN data = 1..n /\ DOMAIN values = 1..m
  BY ListedFacts
<1>0. PICK rest : rest = IF to < n THEN n - to ELSE 0
  OBVIOUS
<1>12. rest \in Nat /\ rest = Rest(data, to)
  BY <1>0, <1>1 DEF Rest
<1> DEFINE S == {data[k] : k \in 1..n} \cup {values[k] : k \in 1..m}
           head == SubSeq(data, 1, from)
           tail == SubSeq(data, to + 1, n)
<1>2. values \in Seq(S)
  <2>1. PICK V : values \in Seq(V)
    BY DEF Listed
  <2>2. values \in [1..m -> V]
    BY <1>1, <2>1, LenProperties
  <2>3. values \in [1..m -> S]
    BY <2>2
  <2> HIDE DEF S
  <2> QED BY <2>3, <1>1, SeqDef
<1>3. /\ head \in Seq(S) /\ Len(head) = from
      /\ \A k \in 1..from : head[k] = data[k]
  <2>1. \A k \in 1..from : data[k] \in S
    BY <1>1
  <2> HIDE DEF S
  <2>2. /\ head \in Seq(S) /\ Len(head) = IF 1 <= from THEN from - 1 + 1 ELSE 0
        /\ \A k \in 1..(from - 1 + 1) : head[k] = data[1 + k - 1]
    BY <2>1, <1>1, SubSeqProperties
  <2> HIDE DEF head
  <2> QED BY <2>2, <1>1
<1>4. /\ tail \in Seq(S) /\ Len(tail) = rest
      /\ \A k \in 1..rest : tail[k] = data[to + k]
  <2>1. \A k \in (to + 1)..n : data[k] \in S
    BY <1>1
  <2> HIDE DEF S
  <2>2. /\ tail \in Seq(S) /\ Len(tail) = IF to + 1 <= n THEN n - (to + 1) + 1 ELSE 0
        /\ \A k \in 1..(n - (to + 1) + 1) : tail[k] = data[to + 1 + k - 1]
    BY <2>1, <1>1, SubSeqProperties
  <2> HIDE DEF tail
  <2>3. Len(tail) = rest
    BY <2>2, <1>0, <1>12, <1>1
  <2>4. ASSUME NEW k \in 1..rest PROVE tail[k] = data[to + k]
    <3>1. k \in 1..(n - (to + 1) + 1) /\ to + 1 + k - 1 = to + k
      BY <1>0, <1>12, <1>1
    <3> QED BY <3>1, <2>2
  <2> QED BY <2>2, <2>3, <2>4
<1> HIDE DEF S
<1>5. Assign(data, from, to, values) = (head \o values) \o tail
  <2>1. from = IF from < Len(data) THEN from ELSE Len(data)
    BY <1>1
  <2> QED BY <2>1, <1>1 DEF Assign
<1> HIDE DEF head, tail
<1>6. PICK result : result = (head \o values) \o tail
  OBVIOUS
<1>7. /\ result \in Seq(S) /\ Len(result) = Len(head) + Len(values) + Len(tail)
      /\ \A k \in 1..Len(head) : result[k] = head[k]
      /\ \A k \in 1..Len(values) : result[Len(head) + k] = values[k]
      /\ \A k \in 1..Len(tail) : result[Len(head) + Len(values) + k] = tail[k]
  <2>1. head \in Seq(S) /\ values \in Seq(S) /\ tail \in Seq(S)
    BY <1>2, <1>3, <1>4
  <2> QED BY ONLY <2>1, <1>6, ThreeParts
<1> QED BY <1>12, <1>3, <1>4, <1>5, <1>6, <1>7 DEF Listed, Assigned

(* As many bytes as there were: the others stay.                           *)
Replaced(data, from, to, values, result) ==
  /\ Listed(result) /\ Len(result) = Len(data)
  /\ \A k \in 1..Len(values) : result[from + k] = values[k]
  /\ \A k \in 1..Len(data) : k <= from \/ to < k => result[k] = data[k]

LEMMA AssignInside ==
  ASSUME NEW data, Listed(data), NEW values, Listed(values),
         NEW from \in Nat, NEW to \in Nat, to = from + Len(values), to <= Len(data)
  PROVE  Replaced(data, from, to, values, Assign(data, from, to, values))
<1>1. PICK n \in Nat, m \in Nat : n = Len(data) /\ m = Len(values)
  BY ListedFacts
<1>2. from <= to /\ from <= Len(data)
  BY <1>1
<1>3. PICK result : result = Assign(data, from, to, values)
  OBVIOUS
<1>4. /\ Listed(result)
      /\ Len(result) = from + m + Rest(data, to)
      /\ \A k \in 1..from : result[k] = data[k]
      /\ \A k \in 1..m : result[from + k] = values[k]
      /\ \A k \in 1..Rest(data, to) : result[from + m + k] = data[to + k]
  <2>1. Assigned(data, from, to, values, result)
    BY <1>2, <1>3, AssignFacts
  <2> QED BY <2>1, <1>1 DEF Assigned
<1>5. Rest(data, to) = n - to
  BY <1>1 DEF Rest
<1>6. Len(result) = n
  BY <1>1, <1>4, <1>5
<1>7. ASSUME NEW k \in 1..n, k <= from PROVE result[k] = data[k]
  <2>1. k \in 1..from
    BY <1>7
  <2> QED BY <2>1, <1>4
<1>8. ASSUME NEW k \in 1..n, to < k PROVE result[k] = data[k]
  <2>1. k - to \in 1..(n - to) /\ from + m + (k - to) = k /\ to + (k - to) = k
    BY <1>1, <1>8
  <2> QED BY <2>1, <1>4, <1>5
<1> QED BY <1>1, <1>3, <1>4, <1>6, <1>7, <1>8 DEF Replaced

LEMMA PairListed ==
  ASSUME NEW x, NEW y
  PROVE  Listed(<<x, y>>) /\ Len(<<x, y>>) = 2
<1>1. <<x, y>> \in Seq({x, y})
  OBVIOUS
<1> QED BY <1>1 DEF Listed

(***************************************************************************)
(* Sorting the users of a tensor.                                          *)
(***************************************************************************)
(* Users of different programs, with intervals of integers.                *)
Users(S) ==
  /\ IsFiniteSet(S)
  /\ \A u \in S : u.at.first \in Int /\ u.at.held \in Int /\ u.program \in Int
  /\ \A u, v \in S : u.program = v.program => u = v

LEMMA UsersOrdered ==
  ASSUME NEW S, Users(S)
  PROVE  /\ \A u, v \in S : u = v \/ Before(u, v) \/ Before(v, u)
         /\ \A u, v, w \in S : Before(u, v) /\ Before(v, w) => Before(u, w)
<1>1. ASSUME NEW u \in S, NEW v \in S PROVE u = v \/ Before(u, v) \/ Before(v, u)
  BY DEF Users, Before
<1>2. ASSUME NEW u \in S, NEW v \in S, NEW w \in S, Before(u, v), Before(v, w) PROVE Before(u, w)
  BY <1>2 DEF Users, Before
<1> QED BY <1>1, <1>2

LEMMA UsersSubset ==
  ASSUME NEW S, Users(S), NEW T \in SUBSET S
  PROVE  Users(T)
BY FS_Subset DEF Users

LEMMA UsersLast ==
  ASSUME NEW U, Users(U), U # {}
  PROVE  \E m \in U : \A x \in U \ {m} : Before(x, m)
<1> DEFINE Bad(S) == S # {} /\ \A m \in S : \E x \in S \ {m} : ~Before(x, m)
           Sizes == {n \in Nat : \E S \in SUBSET U : Cardinality(S) = n /\ Bad(S)}
<1>1. SUFFICES ASSUME Bad(U) PROVE FALSE
  OBVIOUS
<1>2. Cardinality(U) \in Sizes
  <2>1. Cardinality(U) \in Nat BY FS_CardinalityType DEF Users
  <2> QED BY <2>1, <1>1
<1>3. PICK n \in Sizes : \A k \in Sizes : n <= k
  <2>1. Sizes \in SUBSET Nat OBVIOUS
  <2> HIDE DEF Sizes
  <2> QED BY <1>2, <2>1, Least
<1>4. PICK S \in SUBSET U : Cardinality(S) = n /\ Bad(S)
  BY <1>3
<1>5. PICK x \in S : TRUE
  BY <1>4
<1> DEFINE T == S \ {x}
<1>6. IsFiniteSet(S) /\ n \in Nat
  BY <1>3, FS_Subset DEF Users
<1>7. Cardinality(T) = n - 1
  BY <1>4, <1>6, FS_RemoveElement
<1>8. T # {}
  BY <1>4
<1>9. ~Bad(T)
  <2>1. IsFiniteSet(T) BY <1>6, FS_RemoveElement
  <2>2. Cardinality(T) \in Nat BY <2>1, FS_CardinalityType
  <2>3. T \in SUBSET U OBVIOUS
  <2>4. SUFFICES ASSUME Bad(T) PROVE FALSE OBVIOUS
  <2>5. Cardinality(T) \in Sizes BY <2>2, <2>3, <2>4
  <2> HIDE DEF T, Sizes
  <2> QED BY <2>5, <1>3, <1>6, <1>7
<1>10. PICK m \in T : \A y \in T \ {m} : Before(y, m)
  BY <1>8, <1>9
<1>11. CASE Before(x, m)
  <2>1. \A y \in S \ {m} : Before(y, m)
    BY <1>10, <1>11
  <2> QED BY <2>1, <1>4, <1>10
<1>12. CASE ~Before(x, m)
  <2>1. Before(m, x)
    BY <1>10, <1>12, UsersOrdered
  <2>2. \A y \in S \ {x} : Before(y, x)
    BY <1>10, <2>1, UsersOrdered
  <2> QED BY <2>2, <1>4, <1>5
<1> QED BY <1>11, <1>12

InOrder(order, S) ==
  /\ order \in [1..Cardinality(S) -> S]
  /\ \A i, j \in 1..Cardinality(S) : i < j => Before(order[i], order[j])

LEMMA OrderExists ==
  ASSUME NEW U, Users(U)
  PROVE  \E order : InOrder(order, U)
<1> DEFINE Bad(S) == ~ \E order : InOrder(order, S)
           Sizes == {n \in Nat : \E S \in SUBSET U : Cardinality(S) = n /\ Bad(S)}
<1>1. SUFFICES ASSUME Bad(U) PROVE FALSE
  OBVIOUS
<1>2. Cardinality(U) \in Sizes
  <2>1. Cardinality(U) \in Nat BY FS_CardinalityType DEF Users
  <2> HIDE DEF Bad
  <2> QED BY <2>1, <1>1
<1>3. PICK n \in Sizes : \A k \in Sizes : n <= k
  <2>1. Sizes \in SUBSET Nat OBVIOUS
  <2> HIDE DEF Sizes
  <2> QED BY <1>2, <2>1, Least
<1>4. PICK S \in SUBSET U : Cardinality(S) = n /\ Bad(S)
  <2> HIDE DEF Bad
  <2> QED BY <1>3
<1>5. IsFiniteSet(S) /\ n \in Nat /\ Users(S)
  BY <1>3, UsersSubset DEF Users
<1>6. CASE S = {}
  <2>1. Cardinality(S) = 0 BY <1>6, FS_EmptySet
  <2>2. InOrder([i \in 1..0 |-> i], S)
    BY <2>1 DEF InOrder
  <2> QED BY <2>2, <1>4
<1>7. CASE S # {}
  <2>1. PICK m \in S : \A x \in S \ {m} : Before(x, m)
    BY <1>5, <1>7, UsersLast
  <2>2. PICK T \in SUBSET U : T = S \ {m}
    OBVIOUS
  <2>3. IsFiniteSet(T) /\ Cardinality(T) = n - 1 /\ n - 1 \in Nat
    <3>1. IsFiniteSet(T) /\ Cardinality(T) = n - 1
      BY <1>4, <1>5, <2>1, <2>2, FS_RemoveElement
    <3>2. Cardinality(T) \in Nat
      BY <3>1, FS_CardinalityType
    <3> QED BY <3>1, <3>2
  <2>4. ~Bad(T)
    <3>1. SUFFICES ASSUME Bad(T) PROVE FALSE OBVIOUS
    <3> HIDE DEF Bad
    <3>2. n - 1 \in Sizes BY <2>3, <3>1
    <3> HIDE DEF Sizes
    <3> QED BY <3>2, <1>3, <1>5, <2>3
  <2>5. PICK f : InOrder(f, T)
    BY <2>4
  <2>6. f \in [1..(n - 1) -> T] /\ \A i, j \in 1..(n - 1) : i < j => Before(f[i], f[j])
    BY <2>3, <2>5 DEF InOrder
  <2> DEFINE g == [i \in 1..n |-> IF i = n THEN m ELSE f[i]]
  <2>7. g \in [1..n -> S]
    BY <1>5, <2>1, <2>2, <2>6
  <2>8. ASSUME NEW i \in 1..n, NEW j \in 1..n, i < j PROVE Before(g[i], g[j])
    <3>1. i \in 1..(n - 1) /\ g[i] = f[i] /\ f[i] \in S \ {m}
      BY <2>8, <1>5, <2>2, <2>6
    <3>2. CASE j = n
      BY <3>1, <3>2, <2>1
    <3>3. CASE j # n
      <4>1. j \in 1..(n - 1) /\ g[j] = f[j]
        BY <3>3, <1>5
      <4> QED BY <4>1, <3>1, <2>6, <2>8
    <3> QED BY <3>2, <3>3
  <2>9. InOrder(g, S)
    <3> HIDE DEF g
    <3> QED BY <2>7, <2>8, <1>4 DEF InOrder
  <2> QED BY <2>9, <1>4
<1> QED BY <1>6, <1>7

LEMMA SortedFacts ==
  ASSUME NEW S, Users(S)
  PROVE  InOrder(Sorted(S), S)
<1>1. PICK order : InOrder(order, S)
  BY OrderExists
<1> QED BY <1>1 DEF InOrder, Sorted

(***************************************************************************)
(* What load_package leaves of the bindings and of the dispatch order.     *)
(***************************************************************************)
Accepted(p) == IsPackage(p) /\ LoadPackage(p)

(* The interval of a binding lies in its tensor and in its layout.         *)
Fits(p, b) ==
  LET at == BindingInterval(p, b)
  IN /\ b.tensor \in DOMAIN p.tensors
     /\ at.first \in Nat /\ at.count \in Nat \ {0} /\ at.held \in Nat \ {0}
     /\ at.count = b.count /\ at.count <= at.held
     /\ at.first + at.count <= p.tensors[b.tensor].elements
     /\ p.tensors[b.tensor].elements \in Nat
     /\ b.nchw \in [1..4 -> Nat \ {0}]
     /\ at.held = LayoutElements(b)

LEMMA TensorFacts ==
  ASSUME NEW p, Accepted(p), NEW name \in DOMAIN p.tensors
  PROVE  /\ p.tensors[name].elements \in Nat \ {0}
         /\ p.tensors[name].bool \in BOOLEAN
         /\ p.tensors[name].role \in {"input", "output", "intermediate", "constant"}
BY DEF Accepted, IsPackage, LoadPackage, TensorsValid

LEMMA BindingFacts ==
  ASSUME NEW p, Accepted(p), NEW b, IsBinding(b), CheckBinding(p, b)
  PROVE  Fits(p, b)
<1>1. b.tensor \in DOMAIN p.tensors
  BY DEF CheckBinding, IntervalValid
<1>2. p.tensors[b.tensor].elements \in Nat \ {0}
  BY <1>1, TensorFacts
<1>3. b.nchw \in [1..4 -> Nat \ {0}]
  BY DEF CheckBinding, IsBinding
<1>4. b.slice \in BOOLEAN /\ b.first \in Int /\ b.count \in Int /\ b.held \in Int
  BY DEF IsBinding
<1> QED
  BY <1>1, <1>2, <1>3, <1>4 DEF Fits, CheckBinding, IntervalValid, BindingInterval

LEMMA ProgramFacts ==
  ASSUME NEW p, Accepted(p), NEW n \in Indices(p)
  PROVE  /\ Fits(p, p.programs[n].output)
         /\ p.programs[n].output.tensor \in DOMAIN p.tensors \ Aliases(p)
         /\ \A k \in DOMAIN p.programs[n].inputs :
              /\ Fits(p, p.programs[n].inputs[k])
              /\ p.programs[n].inputs[k].tensor \in DOMAIN p.tensors \ Aliases(p)
              /\ p.programs[n].inputs[k].tensor # p.programs[n].output.tensor
<1>1. ProgramValid(p, p.programs[n])
  BY DEF Accepted, LoadPackage
<1>2. IsBinding(p.programs[n].output)
  BY DEF Accepted, IsPackage, Indices
<1>3. CheckBinding(p, p.programs[n].output)
  BY <1>1 DEF ProgramValid
<1>4. ASSUME NEW k \in DOMAIN p.programs[n].inputs
      PROVE  /\ IsBinding(p.programs[n].inputs[k])
             /\ CheckBinding(p, p.programs[n].inputs[k])
             /\ p.programs[n].inputs[k].tensor # p.programs[n].output.tensor
  BY <1>1 DEF ProgramValid, Accepted, IsPackage, Indices
<1>5. \A b : CheckBinding(p, b) => b.tensor \in DOMAIN p.tensors \ Aliases(p)
  BY DEF CheckBinding, IntervalValid
<1> QED
  BY <1>2, <1>3, <1>4, <1>5, BindingFacts

LEMMA DispatchFacts ==
  ASSUME NEW p, Accepted(p)
  PROVE  /\ Len(p.dispatch) \in Nat \ {0} /\ DOMAIN p.dispatch = 1..Len(p.dispatch)
         /\ Indices(p) = 1..Len(p.dispatch)
         /\ \A k \in DOMAIN p.dispatch : p.dispatch[k] \in Indices(p)
         /\ \A n \in Indices(p) : Position(p, n) \in DOMAIN p.dispatch /\ p.dispatch[Position(p, n)] = n
         /\ \A k \in DOMAIN p.dispatch : Position(p, p.dispatch[k]) = k
<1>1. /\ Indices(p) # {} /\ Len(p.dispatch) = Len(p.programs)
      /\ {p.dispatch[k] : k \in DOMAIN p.dispatch} = Indices(p)
  BY DEF Accepted, LoadPackage, DispatchComplete
<1>2. p.dispatch \in Seq(Int) /\ DOMAIN p.programs = 1..Len(p.programs)
  BY DEF Accepted, IsPackage
<1> DEFINE S == 1..Len(p.dispatch)
<1>3. Len(p.dispatch) \in Nat /\ DOMAIN p.dispatch = S /\ p.dispatch \in [S -> Int]
  BY <1>2
<1>4. Indices(p) = S /\ Len(p.dispatch) # 0
  BY <1>1, <1>2, <1>3 DEF Indices
<1>5. p.dispatch \in Surjection(S, S)
  <2>1. \A k \in S : p.dispatch[k] \in S
    BY <1>1, <1>3, <1>4
  <2>2. \A n \in S : \E k \in S : p.dispatch[k] = n
    BY <1>1, <1>3, <1>4
  <2> HIDE DEF S
  <2>3. p.dispatch \in [S -> S]
    BY <2>1, <1>3
  <2> QED BY <2>2, <2>3 DEF Surjection
<1>6. IsFiniteSet(S)
  BY <1>3, FS_Interval
<1>7. p.dispatch \in Injection(S, S)
  <2> HIDE DEF S
  <2> QED BY <1>5, <1>6, FS_Surjection
<1>8. \A j, k \in S : p.dispatch[j] = p.dispatch[k] => j = k
  BY <1>7 DEF Injection, IsInjective
<1>9. \A n \in S : \E k \in S : p.dispatch[k] = n
  BY <1>1, <1>3, <1>4
<1>10. \A n \in S : Position(p, n) \in S /\ p.dispatch[Position(p, n)] = n
  BY <1>9, <1>3 DEF Position
<1> HIDE DEF S
<1>11. \A k \in S : p.dispatch[k] \in S /\ Position(p, p.dispatch[k]) = k
  <2>1. \A k \in S : p.dispatch[k] \in S
    BY <1>1, <1>3, <1>4
  <2> QED BY <2>1, <1>8, <1>10
<1> QED BY <1>3, <1>4, <1>10, <1>11 DEF S

LEMMA ProducerUsers ==
  ASSUME NEW p, Accepted(p), NEW name
  PROVE  Users(Producers(p, name))
<1> DEFINE M == {m \in Indices(p) : p.programs[m].output.tensor = name}
           f == [m \in M |-> [at |-> BindingInterval(p, p.programs[m].output), program |-> m]]
<1>1. Producers(p, name) = {[at |-> BindingInterval(p, p.programs[n].output), program |-> n] : n \in M}
  BY DEF Producers
<1>2. f \in Surjection(M, Producers(p, name))
  BY <1>1 DEF Surjection
<1>3. IsFiniteSet(M)
  <2>1. IsFiniteSet(Indices(p))
    BY DispatchFacts, FS_Interval
  <2> QED BY <2>1, FS_Subset
<1>4. IsFiniteSet(Producers(p, name))
  BY <1>2, <1>3, FS_Surjection
<1>5. ASSUME NEW u \in Producers(p, name)
      PROVE  u.at.first \in Int /\ u.at.held \in Int /\ u.program \in Int
  <2>1. PICK n \in M : u = [at |-> BindingInterval(p, p.programs[n].output), program |-> n]
    BY <1>1
  <2>2. Fits(p, p.programs[n].output)
    BY ProgramFacts
  <2>3. n \in Int
    BY DispatchFacts
  <2> QED BY <2>1, <2>2, <2>3 DEF Fits
<1>6. ASSUME NEW u \in Producers(p, name), NEW v \in Producers(p, name), u.program = v.program
      PROVE  u = v
  BY <1>1, <1>6
<1> QED BY <1>4, <1>5, <1>6 DEF Users

(***************************************************************************)
(* The writes of a tensor in order, and the walk of a reader over them.    *)
(***************************************************************************)
(* The writes of one tensor, one after the other and none missing.         *)
Tiled(p, name, order) ==
  /\ order \in Seq(Producers(p, name)) /\ order # <<>>
  /\ order[1].at.first = 0
  /\ \A k \in 2..Len(order) : order[k].at.first = End(order[k - 1].at)
  /\ End(order[Len(order)].at) = p.tensors[name].elements

LEMMA WriteFacts ==
  ASSUME NEW p, Accepted(p), NEW name, NEW u \in Producers(p, name)
  PROVE  /\ u.program \in Indices(p) /\ p.programs[u.program].output.tensor = name
         /\ u.at = BindingInterval(p, p.programs[u.program].output)
         /\ u.at.first \in Nat /\ End(u.at) \in Nat /\ HeldEnd(u.at) \in Nat
         /\ u.at.first < End(u.at) /\ End(u.at) <= HeldEnd(u.at)
         /\ End(u.at) <= p.tensors[name].elements
<1>1. PICK n \in Indices(p) : /\ p.programs[n].output.tensor = name
                              /\ u = [at |-> BindingInterval(p, p.programs[n].output), program |-> n]
  BY DEF Producers
<1>2. Fits(p, p.programs[n].output)
  BY ProgramFacts
<1> QED BY <1>1, <1>2 DEF Fits, End, HeldEnd

LEMMA TiledFacts ==
  ASSUME NEW p, Accepted(p), NEW name \in ProducedStorage(p)
  PROVE  Tiled(p, name, Sorted(Producers(p, name)))
<1> DEFINE order == Sorted(Producers(p, name))
<1>1. InOrder(order, Producers(p, name))
  BY ProducerUsers, SortedFacts
<1>2. Cardinality(Producers(p, name)) \in Nat
  BY ProducerUsers, FS_CardinalityType DEF Users
<1>3. order \in Seq(Producers(p, name))
  BY <1>1, <1>2, SeqDef DEF InOrder
<1>4. ProducersTile(p, name)
  BY DEF Accepted, LoadPackage, StorageValid
<1> HIDE DEF order
<1>5. /\ order # <<>>
      /\ \A k \in DOMAIN order : order[k].at.first = IF k = 1 THEN 0 ELSE End(order[k - 1].at)
      /\ End(order[Len(order)].at) = p.tensors[name].elements
  BY <1>4 DEF ProducersTile, order
<1>6. Len(order) \in Nat \ {0} /\ DOMAIN order = 1..Len(order)
  BY <1>3, <1>5, EmptySeq
<1>7. order[1].at.first = 0
  BY <1>5, <1>6
<1>8. ASSUME NEW k \in 2..Len(order) PROVE order[k].at.first = End(order[k - 1].at)
  BY <1>5, <1>6
<1> QED BY <1>3, <1>5, <1>7, <1>8 DEF Tiled, order

(* Every element of a tensor is in one of its writes.                      *)
LEMMA TileCovers ==
  ASSUME NEW p, Accepted(p), NEW name, NEW order, Tiled(p, name, order),
         NEW e \in Nat, e < p.tensors[name].elements
  PROVE  \E k \in 1..Len(order) : order[k].at.first <= e /\ e < End(order[k].at)
<1>1. Len(order) \in Nat \ {0} /\ \A k \in 1..Len(order) : order[k] \in Producers(p, name)
  BY EmptySeq DEF Tiled
<1> DEFINE Past == {k \in 1..Len(order) : e < End(order[k].at)}
<1>2. Len(order) \in Past
  BY <1>1 DEF Tiled
<1>3. PICK k \in Past : \A j \in Past : k <= j
  <2>1. Past \in SUBSET Nat OBVIOUS
  <2> HIDE DEF Past
  <2> QED BY <1>2, <2>1, Least
<1>4. CASE k = 1
  BY <1>4, <1>3 DEF Tiled
<1>5. CASE k # 1
  <2>1. k \in 2..Len(order) /\ k - 1 \in 1..Len(order)
    BY <1>5, <1>1
  <2>2. k - 1 \notin Past
    BY <1>3, <2>1
  <2>3. End(order[k - 1].at) \in Nat
    BY <1>1, <2>1, WriteFacts
  <2>4. End(order[k - 1].at) <= e
    BY <2>1, <2>2, <2>3
  <2>5. order[k].at.first = End(order[k - 1].at)
    BY <2>1 DEF Tiled
  <2> QED BY <2>4, <2>5, <1>3
<1> QED BY <1>4, <1>5

(* The walk is defined by where it was one write before.                   *)
Advance(order, read, k, before) ==
  LET write == order[k].at
  IN IF before < HeldEnd(read.at) /\ HeldEnd(write) > before /\ write.first <= before
     THEN HeldEnd(write) ELSE before

Walk(order, read, walk) ==
  /\ walk = [k \in 0..Len(order) |-> IF k = 0 THEN read.at.first ELSE Advance(order, read, k, walk[k - 1])]

LEMMA ReachFacts ==
  ASSUME NEW order, NEW read, Len(order) \in Nat
  PROVE  Walk(order, read, Reach(order, read))
<1> DEFINE Upto(n, walk) == walk = [k \in 0..n |-> IF k = 0 THEN read.at.first ELSE Advance(order, read, k, walk[k - 1])]
           Missing == {n \in Nat : ~ \E walk : Upto(n, walk)}
<1>1. \E walk : Upto(Len(order), walk)
  <2>1. SUFFICES ASSUME Len(order) \in Missing PROVE FALSE
    OBVIOUS
  <2>2. PICK n \in Missing : \A k \in Missing : n <= k
    <3>1. Missing \in SUBSET Nat OBVIOUS
    <3> HIDE DEF Missing
    <3> QED BY <2>1, <3>1, Least
  <2>3. n # 0
    <3>1. Upto(0, [k \in 0..0 |-> read.at.first])
      OBVIOUS
    <3> QED BY <3>1, <2>2
  <2>4. PICK walk : Upto(n - 1, walk)
    <3>1. n - 1 \in Nat /\ n - 1 \notin Missing
      BY <2>2, <2>3
    <3> QED BY <3>1
  <2> DEFINE more == [k \in 0..n |-> IF k = n THEN Advance(order, read, n, walk[n - 1]) ELSE walk[k]]
  <2>5. Upto(n, more)
    <3>1. n \in Nat BY <2>2
    <3>2. ASSUME NEW k \in 0..n
          PROVE  more[k] = IF k = 0 THEN read.at.first ELSE Advance(order, read, k, more[k - 1])
      <4>1. CASE k = n
        <5>1. more[k] = Advance(order, read, n, walk[n - 1]) /\ more[k - 1] = walk[n - 1]
          BY <4>1, <3>1, <2>3
        <5> QED BY <5>1, <4>1, <2>3
      <4>2. CASE k # n
        <5>1. k \in 0..(n - 1) BY <4>2, <3>1
        <5>2. more[k] = walk[k] BY <4>2
        <5>3. walk[k] = IF k = 0 THEN read.at.first ELSE Advance(order, read, k, walk[k - 1])
          BY <2>4, <5>1
        <5>4. k # 0 => more[k - 1] = walk[k - 1]
          BY <5>1, <3>1
        <5> QED BY <5>2, <5>3, <5>4
      <4> QED BY <4>1, <4>2
    <3> QED BY <3>2
  <2> QED BY <2>5, <2>2
<1>2. Walk(order, read, Reach(order, read))
  BY <1>1 DEF Walk, Reach, Advance
<1> QED BY <1>2

(* The same walk on numbers: write k fills f[k]..h[k] and the next begins  *)
(* there, the reader wants F..H.  The walk is never behind F nor ahead of  *)
(* what it passed, so it enters each write that the reader meets.          *)
Entering(n, f, h, r, F, H) ==
  /\ n \in Nat /\ f \in [1..n -> Nat] /\ h \in [1..n -> Nat]
  /\ F \in Nat /\ H \in Nat /\ F < H
  /\ n > 0 => f[1] = 0
  /\ \A k \in 2..n : f[k] = h[k - 1]
  /\ \A k \in 1..n : f[k] < h[k]
  /\ r[0] = F
  /\ \A k \in 1..n : r[k] = IF r[k - 1] < H /\ h[k] > r[k - 1] /\ f[k] <= r[k - 1]
                            THEN h[k] ELSE r[k - 1]

LEMMA WalkEnters ==
  ASSUME NEW n, NEW f, NEW h, NEW r, NEW F, NEW H, Entering(n, f, h, r, F, H)
  PROVE  \A k \in 1..n : f[k] < H /\ h[k] > F => r[k] = h[k] /\ r[k - 1] < h[k]
<1> USE DEF Entering
<1> DEFINE Ahead(k) == /\ r[k - 1] \in Nat /\ F <= r[k - 1]
                       /\ r[k - 1] <= F \/ r[k - 1] <= f[k]
                       /\ f[k] < H /\ h[k] > F => f[k] <= r[k - 1] /\ r[k] = h[k]
           Bad == {k \in 1..n : ~Ahead(k)}
<1>1. \A k \in 1..n : Ahead(k)
  <2>1. SUFFICES ASSUME Bad # {} PROVE FALSE
    OBVIOUS
  <2>2. PICK k \in Bad : \A j \in Bad : k <= j
    <3>1. Bad \in SUBSET Nat OBVIOUS
    <3> HIDE DEF Bad
    <3> QED BY <2>1, <3>1, Least
  <2>3. f[k] \in Nat /\ h[k] \in Nat /\ k \in 1..n /\ f[k] < h[k]
    BY <2>2
  <2>4. r[k] = IF r[k - 1] < H /\ h[k] > r[k - 1] /\ f[k] <= r[k - 1] THEN h[k] ELSE r[k - 1]
    BY <2>3
  <2>5. CASE k = 1
    <3>1. r[k - 1] = F /\ f[k] = 0
      BY <2>5, <2>3
    <3>2. Ahead(k)
      BY <3>1, <2>3, <2>4
    <3> QED BY <3>2, <2>2
  <2>6. CASE k # 1
    <3>0. PICK j : j = k - 1
      OBVIOUS
    <3>1. j \in 1..n /\ k \in 2..n
      BY <3>0, <2>3, <2>6
    <3>2. j \notin Bad
      BY <3>0, <2>2, <3>1
    <3>3. Ahead(j)
      BY <3>1, <3>2
    <3>4. f[j] \in Nat /\ h[j] \in Nat /\ f[j] < h[j] /\ f[k] = h[j]
      BY <3>0, <3>1
    <3>5. r[j] = IF r[j - 1] < H /\ h[j] > r[j - 1] /\ f[j] <= r[j - 1] THEN h[j] ELSE r[j - 1]
      BY <3>1
    <3>6. PICK a \in Nat : a = r[j - 1]
      BY <3>3
    <3>7. r[j] \in Nat /\ F <= r[j] /\ (r[j] <= F \/ r[j] <= f[k])
      <4>1. F <= a /\ (a <= F \/ a <= f[j])
        BY <3>3, <3>6
      <4>2. r[j] = IF a < H /\ h[j] > a /\ f[j] <= a THEN h[j] ELSE a
        BY <3>5, <3>6
      <4> QED BY <4>1, <4>2, <3>4
    <3>8. f[k] > F /\ f[k] < H => r[j] = f[k]
      BY <3>3, <3>4
    <3>9. Ahead(k)
      BY <3>0, <3>7, <3>8, <2>3, <2>4
    <3> QED BY <3>9, <2>2
  <2> QED BY <2>5, <2>6
<1>2. ASSUME NEW k \in 1..n, f[k] < H, h[k] > F PROVE r[k] = h[k] /\ r[k - 1] < h[k]
  <2>1. Ahead(k) BY <1>1
  <2>2. f[k] \in Nat /\ h[k] \in Nat /\ f[k] < h[k] OBVIOUS
  <2>3. PICK a \in Nat : a = r[k - 1]
    BY <2>1
  <2>4. a < h[k]
    BY <2>1, <2>2, <2>3, <1>2
  <2> QED BY <2>1, <2>3, <2>4, <1>2
<1> QED BY <1>2

LEMMA ReadFacts ==
  ASSUME NEW p, Accepted(p), NEW n \in Indices(p), NEW k \in DOMAIN p.programs[n].inputs,
         NEW read, read = [at |-> BindingInterval(p, p.programs[n].inputs[k]), program |-> n]
  PROVE  /\ read \in Consumers(p, p.programs[n].inputs[k].tensor)
         /\ read.at.first \in Nat /\ End(read.at) \in Nat /\ HeldEnd(read.at) \in Nat
         /\ read.at.first < End(read.at) /\ End(read.at) <= HeldEnd(read.at)
<1>1. Fits(p, p.programs[n].inputs[k])
  BY ProgramFacts
<1>2. read.at = BindingInterval(p, p.programs[n].inputs[k])
  OBVIOUS
<1>3. read \in Consumers(p, p.programs[n].inputs[k].tensor)
  BY DEF Consumers
<1> QED BY <1>1, <1>2, <1>3 DEF Fits, End, HeldEnd

(* The writes as numbers.                                                  *)
Firsts(order) == [j \in 1..Len(order) |-> order[j].at.first]
Lasts(order) == [j \in 1..Len(order) |-> HeldEnd(order[j].at)]

LEMMA TiledNumbers ==
  ASSUME NEW p, Accepted(p), NEW name, NEW order, Tiled(p, name, order), WritesApart(p, name),
         order = Sorted(Producers(p, name)),
         NEW f, f = Firsts(order),
         NEW h, h = Lasts(order)
  PROVE  /\ Len(order) \in Nat /\ f \in [1..Len(order) -> Nat] /\ h \in [1..Len(order) -> Nat]
         /\ f[1] = 0
         /\ \A j \in 2..Len(order) : f[j] = h[j - 1]
         /\ \A j \in 1..Len(order) :
              f[j] < h[j] /\ End(order[j].at) \in Nat /\ End(order[j].at) <= h[j]
<1>1. Len(order) \in Nat \ {0}
  BY EmptySeq DEF Tiled
<1>2. ASSUME NEW j \in 1..Len(order)
      PROVE  /\ f[j] = order[j].at.first /\ h[j] = HeldEnd(order[j].at)
             /\ f[j] \in Nat /\ h[j] \in Nat /\ f[j] < h[j]
             /\ End(order[j].at) \in Nat /\ End(order[j].at) <= h[j]
  <2>1. order[j] \in Producers(p, name)
    BY DEF Tiled
  <2>2. f[j] = order[j].at.first /\ h[j] = HeldEnd(order[j].at)
    BY DEF Firsts, Lasts
  <2>3. /\ order[j].at.first \in Nat /\ End(order[j].at) \in Nat /\ HeldEnd(order[j].at) \in Nat
        /\ order[j].at.first < End(order[j].at) /\ End(order[j].at) <= HeldEnd(order[j].at)
    BY <2>1, WriteFacts
  <2> QED BY <2>2, <2>3
<1>3. f[1] = 0
  BY <1>1, <1>2 DEF Tiled
<1>4. ASSUME NEW j \in 2..Len(order) PROVE f[j] = h[j - 1]
  <2>1. j - 1 \in 1..(Len(order) - 1) /\ j - 1 \in 1..Len(order) /\ j \in 1..Len(order) /\ (j - 1) + 1 = j
    BY <1>1
  <2>2. \A i \in 1..(Len(order) - 1) : HeldEnd(order[i].at) <= order[i + 1].at.first
    BY DEF WritesApart
  <2>3. HeldEnd(order[j - 1].at) <= order[j].at.first
    BY <2>1, <2>2
  <2>4. order[j].at.first = End(order[j - 1].at)
    BY DEF Tiled
  <2>5. h[j - 1] <= f[j] /\ f[j] <= h[j - 1]
    BY <2>1, <2>3, <2>4, <1>2
  <2> QED BY <2>1, <2>5, <1>2
<1>5. f \in [1..Len(order) -> Nat] /\ h \in [1..Len(order) -> Nat]
  BY <1>2 DEF Firsts, Lasts
<1> QED BY <1>1, <1>2, <1>3, <1>4, <1>5

(* Whatever a program reads was written by programs dispatched before it.  *)
LEMMA WritesFirst ==
  ASSUME NEW p, Accepted(p), NEW n \in Indices(p), NEW k \in DOMAIN p.programs[n].inputs,
         NEW name \in ProducedStorage(p), p.programs[n].inputs[k].tensor = name,
         NEW order, order = Sorted(Producers(p, name)),
         NEW w \in 1..Len(order),
         order[w].at.first < End(BindingInterval(p, p.programs[n].inputs[k])),
         BindingInterval(p, p.programs[n].inputs[k]).first < End(order[w].at)
  PROVE  Position(p, order[w].program) < Position(p, n)
<1>0. PICK read : read = [at |-> BindingInterval(p, p.programs[n].inputs[k]), program |-> n]
  OBVIOUS
<1>1. /\ read \in Consumers(p, name)
      /\ read.at.first \in Nat /\ End(read.at) \in Nat /\ HeldEnd(read.at) \in Nat
      /\ read.at.first < End(read.at) /\ End(read.at) <= HeldEnd(read.at)
  BY <1>0, ReadFacts
<1>2. Tiled(p, name, order)
  BY TiledFacts
<1>3. WritesApart(p, name) /\ ReadAfterWrites(p, name, read)
  BY <1>1 DEF Accepted, LoadPackage, StorageValid
<1>4. PICK f : f = Firsts(order)
  OBVIOUS
<1>5. PICK h : h = Lasts(order)
  OBVIOUS
<1>6. PICK r : r = Reach(order, read)
  OBVIOUS
<1>7. /\ Len(order) \in Nat /\ f \in [1..Len(order) -> Nat] /\ h \in [1..Len(order) -> Nat]
      /\ f[1] = 0
      /\ \A j \in 2..Len(order) : f[j] = h[j - 1]
      /\ \A j \in 1..Len(order) :
           f[j] < h[j] /\ End(order[j].at) \in Nat /\ End(order[j].at) <= h[j]
  BY <1>2, <1>3, <1>4, <1>5, TiledNumbers
<1>8. Walk(order, read, r)
  BY <1>6, <1>7, ReachFacts
<1>9. r[0] = read.at.first
  BY <1>8, <1>7 DEF Walk
<1>10. ASSUME NEW j \in 1..Len(order)
       PROVE  r[j] = IF r[j - 1] < HeldEnd(read.at) /\ h[j] > r[j - 1] /\ f[j] <= r[j - 1]
                     THEN h[j] ELSE r[j - 1]
  <2>1. j \in 0..Len(order) /\ j # 0
    BY <1>7
  <2>2. r[j] = Advance(order, read, j, r[j - 1])
    BY <1>8, <2>1 DEF Walk
  <2>3. f[j] = order[j].at.first /\ h[j] = HeldEnd(order[j].at)
    BY <1>4, <1>5 DEF Firsts, Lasts
  <2> QED BY <2>2, <2>3 DEF Advance
<1>11. read.at.first < HeldEnd(read.at)
  BY <1>1
<1>12. f[w] < HeldEnd(read.at) /\ h[w] > read.at.first
  <2>1. /\ order[w].at.first < End(read.at) /\ read.at.first < End(order[w].at)
        /\ f[w] = order[w].at.first
    BY <1>0, <1>4 DEF Firsts
  <2>2. f[w] \in Nat /\ h[w] \in Nat /\ End(order[w].at) \in Nat /\ End(order[w].at) <= h[w]
    BY <1>7
  <2> QED BY <2>1, <2>2, <1>1
<1>13. \A j \in 1..Len(order) : f[j] < HeldEnd(read.at) /\ h[j] > read.at.first =>
                                 r[j] = h[j] /\ r[j - 1] < h[j]
  <2>1. PICK F \in Nat, H \in Nat : F = read.at.first /\ H = HeldEnd(read.at)
    BY <1>1
  <2>2. \A j \in 1..Len(order) : r[j] = IF r[j - 1] < H /\ h[j] > r[j - 1] /\ f[j] <= r[j - 1]
                                        THEN h[j] ELSE r[j - 1]
    BY <1>10, <2>1
  <2>3. r[0] = F /\ F < H
    BY <1>9, <1>11, <2>1
  <2>4. Entering(Len(order), f, h, r, F, H)
    BY <1>7, <2>2, <2>3 DEF Entering
  <2>5. \A j \in 1..Len(order) : f[j] < H /\ h[j] > F => r[j] = h[j] /\ r[j - 1] < h[j]
    BY <2>4, WalkEnters
  <2> QED BY <2>1, <2>5
<1>14. r[w] # r[w - 1]
  <2>1. r[w] = h[w] /\ r[w - 1] < h[w] /\ h[w] \in Nat
    BY <1>7, <1>12, <1>13
  <2> QED BY <2>1
<1>15. w \in DOMAIN order
  BY <1>2 DEF Tiled
<1>16. Position(p, order[w].program) < Position(p, read.program)
  BY <1>3, <1>6, <1>14, <1>15 DEF ReadAfterWrites
<1> QED BY <1>0, <1>16

(***************************************************************************)
(* What is composed for a binding: its size, and its bytes.                *)
(***************************************************************************)
TwoByte(b) == Fits(package, b) /\ Tensor(b.tensor).bool = FALSE

LEMMA TwoByteFacts ==
  ASSUME NEW b, TwoByte(b)
  PROVE  /\ Interval(b).first \in Nat /\ Interval(b).count \in Nat \ {0}
         /\ b.count = Interval(b).count /\ (b.count * 2) \div 2 = Interval(b).count
         /\ Interval(b).first + Interval(b).count <= Tensor(b.tensor).elements
         /\ Width(b) = 2
BY DEF TwoByte, Fits, Interval, Tensor, Width, ElementBytes

(* Dense data with the bytes of the tensor that a binding stands for.      *)
Exact(b, dense) ==
  \A k \in 0..(Interval(b).count * 2 - 1) : dense[k] = <<b.tensor, Interval(b).first * 2 + k>>

ExactRegion(r) == TwoByte(r.binding) /\ Exact(r.binding, Unpack(r.binding, 2, r.surface, Pad))

(* Bytes being composed for elements of two bytes: their number, and those *)
(* of the elements already there when every region is exact.               *)
Composing(b, data, there, exact) ==
  /\ Listed(data) /\ Len(data) = Interval(b).count * 2
  /\ exact => \A e \in there : /\ data[e * 2 + 1] = <<b.tensor, (Interval(b).first + e) * 2>>
                               /\ data[e * 2 + 2] = <<b.tensor, (Interval(b).first + e) * 2 + 1>>

Sound(b, r, exact) == r.binding.tensor = b.tensor => TwoByte(r.binding) /\ (exact => ExactRegion(r))

LEMMA CopiedFacts ==
  ASSUME NEW b, TwoByte(b), NEW r, NEW exact, Sound(b, r, exact), NEW e \in 0..(Interval(b).count - 1),
         Meets(b, r, Interval(b).first + e),
         NEW there \in SUBSET (0..(Interval(b).count - 1)), NEW data, Composing(b, data, there, exact)
  PROVE  Composing(b, Copied(b, r, data, Interval(b).first + e), there \cup {e}, exact)
<1>1. TwoByte(r.binding) /\ r.binding.tensor = b.tensor /\ (exact => ExactRegion(r))
  BY DEF Meets, Sound
<1>2. PICK first \in Nat, count \in Nat, wrote \in Nat, held \in Nat :
        /\ first = Interval(b).first /\ count = Interval(b).count
        /\ wrote = Interval(r.binding).first /\ held = Interval(r.binding).count /\ held = r.binding.count
        /\ Width(b) = 2
  BY <1>1, TwoByteFacts
<1>3. e \in Nat /\ e < count /\ wrote <= first + e /\ first + e < wrote + held
  BY <1>2 DEF Meets, End
<1>4. PICK source \in Nat : source = (first + e - wrote) * 2 /\ source + 1 <= held * 2 - 1
  BY <1>3
<1>5. PICK produced : produced = Unpack(r.binding, 2, r.surface, Pad)
  OBVIOUS
<1>6. source \in DOMAIN produced /\ source + 1 \in DOMAIN produced
  <2>1. DOMAIN produced = 0..(held * 2 - 1)
    BY <1>2, <1>5 DEF Unpack
  <2>2. source \in 0..(held * 2 - 1) /\ source + 1 \in 0..(held * 2 - 1)
    BY <1>4
  <2> QED BY <2>1, <2>2
<1>7. PICK values : values = <<produced[source], produced[source + 1]>>
  OBVIOUS
<1>8. Listed(values) /\ Len(values) = 2 /\ values[1] = produced[source] /\ values[2] = produced[source + 1]
  BY <1>7, PairListed
<1>9. PICK from \in Nat, to \in Nat : from = e * 2 /\ to = e * 2 + 2
  BY <1>3
<1>10. PICK result : result = Assign(data, from, to, values)
  OBVIOUS
<1>11. Copied(b, r, data, Interval(b).first + e) = result
  <2>1. Pair(produced, source) = values
    BY <1>6, <1>7 DEF Pair
  <2>2. (first + e - first) * 2 = from /\ from + 2 = to
    BY <1>2, <1>3, <1>9
  <2> QED BY <2>1, <2>2, <1>2, <1>4, <1>5, <1>10 DEF Copied
<1>12. Listed(data) /\ Len(data) = count * 2
  BY <1>2 DEF Composing
<1>13. Replaced(data, from, to, values, result)
  <2>1. to = from + Len(values) /\ to <= Len(data)
    BY <1>3, <1>8, <1>9, <1>12
  <2> QED BY <2>1, <1>8, <1>10, <1>12, AssignInside
<1>14. Listed(result) /\ Len(result) = count * 2
  BY <1>12, <1>13 DEF Replaced
<1>15. ASSUME exact, NEW f \in there \cup {e}
       PROVE  /\ result[f * 2 + 1] = <<b.tensor, (first + f) * 2>>
              /\ result[f * 2 + 2] = <<b.tensor, (first + f) * 2 + 1>>
  <2>1. CASE f = e
    <3>1. Exact(r.binding, produced)
      BY <1>1, <1>5, <1>15 DEF ExactRegion
    <3>2. source \in 0..(held * 2 - 1) /\ source + 1 \in 0..(held * 2 - 1)
      BY <1>4
    <3>3. wrote * 2 + source = (first + e) * 2 /\ wrote * 2 + (source + 1) = (first + e) * 2 + 1
      BY <1>3, <1>4
    <3>4. produced[source] = <<b.tensor, (first + e) * 2>> /\ produced[source + 1] = <<b.tensor, (first + e) * 2 + 1>>
      <4>1. \A k \in 0..(held * 2 - 1) : produced[k] = <<b.tensor, wrote * 2 + k>>
        BY <3>1, <1>1, <1>2 DEF Exact
      <4>2. produced[source] = <<b.tensor, wrote * 2 + source>> /\ produced[source + 1] = <<b.tensor, wrote * 2 + (source + 1)>>
        BY <4>1, <3>2
      <4> QED BY <4>2, <3>3
    <3>5. result[from + 1] = values[1] /\ result[from + 2] = values[2]
      BY <1>8, <1>13 DEF Replaced
    <3> QED BY <2>1, <3>4, <3>5, <1>8, <1>9
  <2>2. CASE f # e
    <3>1. f \in there /\ f \in Nat /\ f < count
      BY <2>2, <1>2, <1>15
    <3>2. /\ data[f * 2 + 1] = <<b.tensor, (first + f) * 2>>
          /\ data[f * 2 + 2] = <<b.tensor, (first + f) * 2 + 1>>
      BY <3>1, <1>2, <1>15 DEF Composing
    <3>3. /\ f * 2 + 1 \in 1..(count * 2) /\ (f * 2 + 1 <= from \/ to < f * 2 + 1)
          /\ f * 2 + 2 \in 1..(count * 2) /\ (f * 2 + 2 <= from \/ to < f * 2 + 2)
      BY <2>2, <3>1, <1>3, <1>9
    <3>4. result[f * 2 + 1] = data[f * 2 + 1] /\ result[f * 2 + 2] = data[f * 2 + 2]
      BY <3>3, <1>12, <1>13 DEF Replaced
    <3> QED BY <3>2, <3>4
  <2> QED BY <2>1, <2>2
<1> QED BY <1>2, <1>11, <1>14, <1>15 DEF Composing

(* One region.                                                             *)
Fill(b, r, k, before) ==
  IF Meets(b, r, Interval(b).first + k - 1) THEN Copied(b, r, before, Interval(b).first + k - 1) ELSE before

Filling(b, r, data, after) ==
  after = [k \in 0..Interval(b).count |-> IF k = 0 THEN data ELSE Fill(b, r, k, after[k - 1])]

LEMMA FilledFacts ==
  ASSUME NEW b, Interval(b).count \in Nat, NEW r, NEW data
  PROVE  \E after : Filling(b, r, data, after) /\ Filled(b, r, data) = after[Interval(b).count]
<1> DEFINE Upto(n, after) == after = [k \in 0..n |-> IF k = 0 THEN data ELSE Fill(b, r, k, after[k - 1])]
           Missing == {n \in Nat : ~ \E after : Upto(n, after)}
<1>1. \E after : Upto(Interval(b).count, after)
  <2>1. SUFFICES ASSUME Interval(b).count \in Missing PROVE FALSE
    OBVIOUS
  <2>2. PICK n \in Missing : \A k \in Missing : n <= k
    <3>1. Missing \in SUBSET Nat OBVIOUS
    <3> HIDE DEF Missing
    <3> QED BY <2>1, <3>1, Least
  <2>3. n # 0
    <3>1. Upto(0, [k \in 0..0 |-> data])
      OBVIOUS
    <3> QED BY <3>1, <2>2
  <2>4. PICK after : Upto(n - 1, after)
    <3>1. n - 1 \in Nat /\ n - 1 \notin Missing
      <4> HIDE DEF Missing
      <4>1. n \in Nat
        BY <2>2 DEF Missing
      <4>2. n - 1 \in Nat /\ ~(n <= n - 1)
        BY <4>1, <2>3
      <4> QED BY <4>2, <2>2
    <3> QED BY <3>1
  <2> DEFINE more == [k \in 0..n |-> IF k = n THEN Fill(b, r, n, after[n - 1]) ELSE after[k]]
  <2>5. Upto(n, more)
    <3>1. n \in Nat BY <2>2
    <3>2. ASSUME NEW k \in 0..n
          PROVE  more[k] = IF k = 0 THEN data ELSE Fill(b, r, k, more[k - 1])
      <4>1. CASE k = n
        <5>1. more[k] = Fill(b, r, n, after[n - 1]) /\ more[k - 1] = after[n - 1]
          BY <4>1, <3>1, <2>3
        <5> QED BY <5>1, <4>1, <2>3
      <4>2. CASE k # n
        <5>1. k \in 0..(n - 1) BY <4>2, <3>1
        <5>2. more[k] = after[k] BY <4>2
        <5>3. after[k] = IF k = 0 THEN data ELSE Fill(b, r, k, after[k - 1])
          BY <2>4, <5>1
        <5>4. k # 0 => more[k - 1] = after[k - 1]
          BY <5>1, <3>1
        <5> QED BY <5>2, <5>3, <5>4
      <4> QED BY <4>1, <4>2
    <3> QED BY <3>2
  <2> QED BY <2>5, <2>2
<1>2. PICK after : after = CHOOSE f : Upto(Interval(b).count, f)
  OBVIOUS
<1>3. Upto(Interval(b).count, after)
  BY <1>1, <1>2
<1>4. Filled(b, r, data) = after[Interval(b).count]
  BY <1>2 DEF Filled, Fill
<1> QED BY <1>3, <1>4 DEF Filling

LEMMA FillingFacts ==
  ASSUME NEW b, NEW count \in Nat, Interval(b).count = count, NEW r, NEW data, NEW after, Filling(b, r, data, after)
  PROVE  after[0] = data /\ \A k \in 1..count : after[k] = Fill(b, r, k, after[k - 1])
<1>1. ASSUME NEW k \in 1..count PROVE after[k] = Fill(b, r, k, after[k - 1])
  <2>1. k \in 0..count /\ k # 0
    OBVIOUS
  <2> QED BY <2>1 DEF Filling
<1> QED BY <1>1 DEF Filling

(* The elements of a binding that one region has.                          *)
Met(b, r) == {e \in 0..(Interval(b).count - 1) : Meets(b, r, Interval(b).first + e)}

LEMMA FilledComposing ==
  ASSUME NEW b, TwoByte(b), NEW r, NEW exact, Sound(b, r, exact),
         NEW there \in SUBSET (0..(Interval(b).count - 1)), NEW data, Composing(b, data, there, exact)
  PROVE  Composing(b, Filled(b, r, data), there \cup Met(b, r), exact)
<1>1. PICK first \in Nat, count \in Nat : first = Interval(b).first /\ count = Interval(b).count
  BY TwoByteFacts
<1>2. PICK after : Filling(b, r, data, after) /\ Filled(b, r, data) = after[count]
  BY <1>1, FilledFacts
<1>3. after[0] = data /\ \A k \in 1..count : after[k] = Fill(b, r, k, after[k - 1])
  BY <1>1, <1>2, FillingFacts
<1> DEFINE Seen(k) == there \cup {e \in Met(b, r) : e < k}
           Bad == {k \in Nat : k <= count /\ ~Composing(b, after[k], Seen(k), exact)}
<1>4. Bad = {}
  <2>1. SUFFICES ASSUME Bad # {} PROVE FALSE
    OBVIOUS
  <2>2. PICK k \in Bad : \A m \in Bad : k <= m
    <3>1. Bad \in SUBSET Nat OBVIOUS
    <3> HIDE DEF Bad
    <3> QED BY <2>1, <3>1, Least
  <2>3. k # 0
    <3>1. Seen(0) = there
      BY DEF Met
    <3> HIDE DEF Seen
    <3> QED BY <2>2, <3>1, <1>3
  <2>4. PICK e \in Nat : e = k - 1 /\ e < count /\ k = e + 1
    BY <2>2, <2>3
  <2>5. Composing(b, after[e], Seen(e), exact)
    <3>1. e \notin Bad
      BY <2>2, <2>4
    <3> HIDE DEF Seen
    <3> QED BY <3>1, <2>4
  <2>6. after[k] = Fill(b, r, k, after[e]) /\ first + k - 1 = first + e
    BY <1>3, <2>2, <2>4
  <2>7. e \in 0..(Interval(b).count - 1) /\ Seen(e) \in SUBSET (0..(Interval(b).count - 1))
    <3>1. e \in 0..(Interval(b).count - 1)
      BY <1>1, <2>4
    <3> QED BY <3>1 DEF Met
  <2>8. CASE Meets(b, r, first + e)
    <3>1. after[k] = Copied(b, r, after[e], first + e)
      BY <1>1, <2>6, <2>8 DEF Fill
    <3>2. Seen(k) = Seen(e) \cup {e}
      BY <1>1, <2>4, <2>8 DEF Met
    <3> HIDE DEF Seen
    <3>3. Composing(b, Copied(b, r, after[e], first + e), Seen(e) \cup {e}, exact)
      BY <1>1, <2>5, <2>7, <2>8, CopiedFacts
    <3> QED BY <3>1, <3>2, <3>3, <2>2
  <2>9. CASE ~Meets(b, r, first + e)
    <3>1. after[k] = after[e]
      BY <1>1, <2>6, <2>9 DEF Fill
    <3>2. Seen(k) = Seen(e)
      BY <1>1, <2>4, <2>9 DEF Met
    <3> HIDE DEF Seen
    <3> QED BY <3>1, <3>2, <2>2, <2>5
  <2> QED BY <2>8, <2>9
<1>5. Composing(b, after[count], Seen(count), exact)
  BY <1>4
<1>6. Seen(count) = there \cup Met(b, r)
  BY <1>1 DEF Met
<1> QED BY <1>2, <1>5, <1>6

(* All of them.                                                            *)
Gathering(b, after) ==
  after = [j \in 0..Len(regions) |->
             IF j = 0 THEN Zeros(Interval(b).count * 2) ELSE Filled(b, regions[j], after[j - 1])]

LEMMA IntermediateFacts ==
  ASSUME NEW b, Len(regions) \in Nat
  PROVE  \E after : Gathering(b, after) /\ Intermediate(b) = ByOffset(after[Len(regions)])
<1> DEFINE Upto(n, after) ==
             after = [j \in 0..n |-> IF j = 0 THEN Zeros(Interval(b).count * 2)
                                     ELSE Filled(b, regions[j], after[j - 1])]
           Missing == {n \in Nat : ~ \E after : Upto(n, after)}
<1>1. \E after : Upto(Len(regions), after)
  <2>1. SUFFICES ASSUME Len(regions) \in Missing PROVE FALSE
    OBVIOUS
  <2>2. PICK n \in Missing : \A j \in Missing : n <= j
    <3>1. Missing \in SUBSET Nat OBVIOUS
    <3> HIDE DEF Missing
    <3> QED BY <2>1, <3>1, Least
  <2>3. n # 0
    <3>1. Upto(0, [j \in 0..0 |-> Zeros(Interval(b).count * 2)])
      OBVIOUS
    <3> QED BY <3>1, <2>2
  <2>4. PICK after : Upto(n - 1, after)
    <3>1. n - 1 \in Nat /\ n - 1 \notin Missing
      <4> HIDE DEF Missing
      <4>1. n \in Nat
        BY <2>2 DEF Missing
      <4>2. n - 1 \in Nat /\ ~(n <= n - 1)
        BY <4>1, <2>3
      <4> QED BY <4>2, <2>2
    <3> QED BY <3>1
  <2> DEFINE more == [j \in 0..n |-> IF j = n THEN Filled(b, regions[n], after[n - 1]) ELSE after[j]]
  <2>5. Upto(n, more)
    <3>1. n \in Nat BY <2>2
    <3>2. ASSUME NEW j \in 0..n
          PROVE  more[j] = IF j = 0 THEN Zeros(Interval(b).count * 2) ELSE Filled(b, regions[j], more[j - 1])
      <4>1. CASE j = n
        <5>1. more[j] = Filled(b, regions[n], after[n - 1]) /\ more[j - 1] = after[n - 1]
          BY <4>1, <3>1, <2>3
        <5> QED BY <5>1, <4>1, <2>3
      <4>2. CASE j # n
        <5>1. j \in 0..(n - 1) BY <4>2, <3>1
        <5>2. more[j] = after[j] BY <4>2
        <5>3. after[j] = IF j = 0 THEN Zeros(Interval(b).count * 2) ELSE Filled(b, regions[j], after[j - 1])
          BY <2>4, <5>1
        <5>4. j # 0 => more[j - 1] = after[j - 1]
          BY <5>1, <3>1
        <5> QED BY <5>2, <5>3, <5>4
      <4> QED BY <4>1, <4>2
    <3> QED BY <3>2
  <2> QED BY <2>5, <2>2
<1>2. PICK after : after = CHOOSE f : Upto(Len(regions), f)
  OBVIOUS
<1>3. Upto(Len(regions), after)
  BY <1>1, <1>2
<1>4. Intermediate(b) = ByOffset(after[Len(regions)])
  BY <1>2 DEF Intermediate
<1> QED BY <1>3, <1>4 DEF Gathering

LEMMA GatheringFacts ==
  ASSUME NEW b, NEW n \in Nat, n = Len(regions), NEW after, Gathering(b, after)
  PROVE  /\ after[0] = Zeros(Interval(b).count * 2)
         /\ \A j \in 1..n : after[j] = Filled(b, regions[j], after[j - 1])
<1>1. ASSUME NEW j \in 1..n PROVE after[j] = Filled(b, regions[j], after[j - 1])
  <2>1. j \in 0..n /\ j # 0
    OBVIOUS
  <2> QED BY <2>1 DEF Gathering
<1> QED BY <1>1 DEF Gathering

LEMMA ZerosFacts ==
  ASSUME NEW n \in Nat
  PROVE  Listed(Zeros(n)) /\ Len(Zeros(n)) = n
<1>1. Zeros(n) \in Seq({Pad}) /\ Len(Zeros(n)) = n
  BY SeqDef DEF Zeros
<1> QED BY <1>1 DEF Listed

LEMMA IntermediateTwoByte ==
  ASSUME NEW b, TwoByte(b), Listed(regions), NEW exact, \A j \in DOMAIN regions : Sound(b, regions[j], exact)
  PROVE  /\ DOMAIN Intermediate(b) = 0..(Interval(b).count * 2 - 1)
         /\ exact /\ Covered(b) => Exact(b, Intermediate(b))
<1>1. PICK first \in Nat, count \in Nat : first = Interval(b).first /\ count = Interval(b).count
  BY TwoByteFacts
<1>2. PICK n \in Nat : n = Len(regions) /\ DOMAIN regions = 1..n
  BY ListedFacts
<1>3. PICK after : Gathering(b, after) /\ Intermediate(b) = ByOffset(after[n])
  BY <1>2, IntermediateFacts
<1>4. after[0] = Zeros(count * 2) /\ \A j \in 1..n : after[j] = Filled(b, regions[j], after[j - 1])
  BY <1>1, <1>2, <1>3, GatheringFacts
<1> DEFINE Seen(j) == {e \in 0..(Interval(b).count - 1) : \E i \in 1..n : i <= j /\ e \in Met(b, regions[i])}
           Bad == {j \in Nat : j <= n /\ ~Composing(b, after[j], Seen(j), exact)}
<1>5. Bad = {}
  <2>1. SUFFICES ASSUME Bad # {} PROVE FALSE
    OBVIOUS
  <2>2. PICK j \in Bad : \A m \in Bad : j <= m
    <3>1. Bad \in SUBSET Nat OBVIOUS
    <3> HIDE DEF Bad
    <3> QED BY <2>1, <3>1, Least
  <2>3. j # 0
    <3>1. Seen(0) = {}
      OBVIOUS
    <3>2. Listed(after[0]) /\ Len(after[0]) = count * 2
      BY <1>1, <1>4, ZerosFacts
    <3> HIDE DEF Seen
    <3>3. Composing(b, after[0], Seen(0), exact)
      BY <1>1, <3>1, <3>2 DEF Composing
    <3> QED BY <3>3, <2>2
  <2>4. PICK i \in Nat : i = j - 1 /\ j \in 1..n /\ i <= n
    BY <2>2, <2>3
  <2>5. Composing(b, after[i], Seen(i), exact)
    <3>1. i \notin Bad
      <4>1. ~(j <= i)
        BY <2>4
      <4> HIDE DEF Bad
      <4> QED BY <4>1, <2>2
    <3> HIDE DEF Seen
    <3> QED BY <3>1, <2>4
  <2>6. after[j] = Filled(b, regions[j], after[i])
    BY <1>4, <2>4
  <2>7. Seen(j) = Seen(i) \cup Met(b, regions[j])
    <3>1. \A m \in 1..n : m <= j <=> m <= i \/ m = j
      BY <2>4
    <3> QED BY <2>4, <3>1 DEF Met
  <2>8. Sound(b, regions[j], exact) /\ Seen(i) \in SUBSET (0..(Interval(b).count - 1))
    BY <1>2, <2>4
  <2> HIDE DEF Seen
  <2>9. Composing(b, after[j], Seen(j), exact)
    BY <2>5, <2>6, <2>7, <2>8, FilledComposing
  <2> QED BY <2>2, <2>9
<1>6. Composing(b, after[n], Seen(n), exact)
  <2> HIDE DEF Seen
  <2> QED BY <1>5
<1>7. DOMAIN Intermediate(b) = 0..(Interval(b).count * 2 - 1)
  BY <1>3, <1>6 DEF Composing, ByOffset
<1>8. ASSUME exact, Covered(b), NEW k \in 0..(count * 2 - 1)
      PROVE  Intermediate(b)[k] = <<b.tensor, first * 2 + k>>
  <2>1. PICK e \in 0..(count - 1), i \in {0, 1} : k = e * 2 + i
    <3>1. k \div 2 \in 0..(count - 1) /\ k % 2 \in {0, 1} /\ k = (k \div 2) * 2 + (k % 2)
      OBVIOUS
    <3> QED BY <3>1
  <2>2. PICK r \in RegionsOf(b.tensor) : /\ Interval(r.binding).first <= first + e
                                         /\ first + e < End(Interval(r.binding))
    BY <1>1, <1>8 DEF Covered, Holding
  <2>3. PICK j \in 1..n : regions[j] = r /\ r.binding.tensor = b.tensor
    BY <1>2, <2>2 DEF RegionsOf
  <2>4. e \in Seen(n)
    BY <1>1, <2>2, <2>3 DEF Met, Meets
  <2> HIDE DEF Seen
  <2>5. /\ after[n][e * 2 + 1] = <<b.tensor, (first + e) * 2>>
        /\ after[n][e * 2 + 2] = <<b.tensor, (first + e) * 2 + 1>>
    BY <1>1, <1>6, <1>8, <2>4 DEF Composing
  <2>6. Intermediate(b)[k] = after[n][k + 1]
    BY <1>1, <1>3, <1>6 DEF ByOffset, Composing
  <2>7. CASE i = 0
    <3>1. k + 1 = e * 2 + 1 /\ (first + e) * 2 = first * 2 + k
      BY <2>1, <2>7
    <3> QED BY <3>1, <2>5, <2>6
  <2>8. CASE i = 1
    <3>1. k + 1 = e * 2 + 2 /\ (first + e) * 2 + 1 = first * 2 + k
      BY <2>1, <2>8
    <3> QED BY <3>1, <2>5, <2>6
  <2> QED BY <2>7, <2>8
<1> QED BY <1>1, <1>7, <1>8 DEF Exact

(* A region of another tensor changes nothing.                             *)
LEMMA FilledElsewhere ==
  ASSUME NEW b, NEW count \in Nat, Interval(b).count = count, NEW r, r.binding.tensor # b.tensor, NEW data
  PROVE  Filled(b, r, data) = data
<1>1. PICK after : Filling(b, r, data, after) /\ Filled(b, r, data) = after[count]
  BY FilledFacts
<1>2. after[0] = data /\ \A k \in 1..count : after[k] = Fill(b, r, k, after[k - 1])
  BY <1>1, FillingFacts
<1> DEFINE Bad == {k \in Nat : k <= count /\ after[k] # data}
<1>3. Bad = {}
  <2>1. SUFFICES ASSUME Bad # {} PROVE FALSE
    OBVIOUS
  <2>2. PICK k \in Bad : \A m \in Bad : k <= m
    <3>1. Bad \in SUBSET Nat OBVIOUS
    <3> HIDE DEF Bad
    <3> QED BY <2>1, <3>1, Least
  <2>3. k # 0
    BY <2>2, <1>2
  <2>4. k \in 1..count /\ k - 1 \in Nat /\ k - 1 <= count /\ ~(k <= k - 1)
    BY <2>2, <2>3
  <2>5. after[k - 1] = data
    BY <2>2, <2>4
  <2>6. after[k] = after[k - 1]
    BY <2>4, <1>2 DEF Fill, Meets
  <2> QED BY <2>2, <2>5, <2>6
<1> QED BY <1>1, <1>3

LEMMA RestNone ==
  ASSUME NEW data, NEW to \in Nat, Len(data) \in Nat, Len(data) <= to
  PROVE  Rest(data, to) = 0
BY DEF Rest

(* A mask of one or two elements, composed whole: the second pair of bytes *)
(* is none, and so the zeros it replaces are gone.                         *)
MaskBinding(b, count) ==
  count \in 1..2 /\ Interval(b).first = 0 /\ Interval(b).count = count /\ b.count = count

MaskBytes(data, count) == Listed(data) /\ Len(data) \in {count, count * 2}

LEMMA MaskFilled ==
  ASSUME NEW b, NEW count, MaskBinding(b, count), Width(b) = 1,
         NEW r, r.binding.tensor = b.tensor, MaskBinding(r.binding, count),
         NEW data, MaskBytes(data, count)
  PROVE  Listed(Filled(b, r, data)) /\ Len(Filled(b, r, data)) = count
<1> USE DEF MaskBinding, MaskBytes
<1>1. PICK after : Filling(b, r, data, after) /\ Filled(b, r, data) = after[count]
  BY FilledFacts
<1>2. after[0] = data /\ \A k \in 1..count : after[k] = Fill(b, r, k, after[k - 1])
  BY <1>1, FillingFacts
<1>3. PICK produced : produced = Unpack(r.binding, 1, r.surface, Pad)
  OBVIOUS
<1>4. DOMAIN produced = 0..(count - 1)
  BY <1>3 DEF Unpack
<1>5. ASSUME NEW k \in 1..count
      PROVE  after[k] = Assign(after[k - 1], (k - 1) * 2, (k - 1) * 2 + 2, Pair(produced, (k - 1) * 2))
  <2>1. Meets(b, r, 0 + k - 1)
    BY DEF Meets, End
  <2>2. 0 + k - 1 - 0 = k - 1
    OBVIOUS
  <2> QED BY <2>1, <2>2, <1>2, <1>3 DEF Fill, Copied
<1>6. CASE count = 1
  <2>1. PICK values : values = Pair(produced, 0)
    OBVIOUS
  <2>2. values = <<produced[0]>>
    BY <2>1, <1>4, <1>6 DEF Pair
  <2>3. values \in Seq({produced[0]}) /\ Len(values) = 1
    BY <2>2
  <2>4. Listed(values)
    BY <2>3 DEF Listed
  <2>5. after[1] = Assign(data, 0, 2, values)
    BY <2>1, <1>2, <1>5, <1>6
  <2>6. Assigned(data, 0, 2, values, after[1])
    BY <2>4, <2>5, ListedFacts, AssignFacts
  <2>7. Rest(data, 2) = 0
    <3>1. PICK n \in Nat : n = Len(data)
      BY ListedFacts
    <3>2. n \in {1, 1 * 2}
      BY <3>1, <1>6
    <3>3. n <= 2
      BY <3>2
    <3> QED BY <3>1, <3>3, RestNone
  <2>8. Listed(after[1]) /\ Len(after[1]) = 0 + 1 + 0
    BY <2>3, <2>6, <2>7 DEF Assigned
  <2> QED BY <2>8, <1>1, <1>6
<1>7. CASE count = 2
  <2>1. PICK values : values = Pair(produced, 0)
    OBVIOUS
  <2>2. values = <<produced[0], produced[1]>>
    BY <2>1, <1>4, <1>7 DEF Pair
  <2>3. Listed(values) /\ Len(values) = 2
    BY <2>2, PairListed
  <2>4. after[1] = Assign(data, 0, 2, values)
    BY <2>1, <1>2, <1>5, <1>7
  <2>5. Replaced(data, 0, 2, values, after[1])
    <3>1. PICK n \in Nat : n = Len(data) /\ n \in {2, 2 * 2}
      BY <1>7, ListedFacts
    <3>2. PICK from \in Nat, to \in Nat : from = 0 /\ to = 2
      OBVIOUS
    <3>3. to = from + Len(values) /\ to <= Len(data)
      BY <3>1, <3>2, <2>3
    <3>4. Replaced(data, from, to, values, Assign(data, from, to, values))
      BY <3>3, <2>3, AssignInside
    <3> QED BY <3>2, <3>4, <2>4
  <2>6. PICK n \in Nat : Listed(after[1]) /\ n = Len(after[1]) /\ 2 <= n /\ n <= 4
    <3>1. Listed(after[1]) /\ Len(after[1]) = Len(data)
      BY <2>5 DEF Replaced
    <3>2. PICK n \in Nat : n = Len(data) /\ n \in {2, 2 * 2}
      BY <1>7, ListedFacts
    <3>3. 2 <= n /\ n <= 4
      BY <3>2
    <3> QED BY <3>1, <3>2, <3>3
  <2>7. Pair(produced, 2) = <<>>
    BY <1>4, <1>7 DEF Pair
  <2>8. Listed(<<>>) /\ Len(<<>>) = 0
    <3>1. <<>> \in Seq({})
      BY EmptySeq
    <3> QED BY <3>1, EmptySeq DEF Listed
  <2>9. after[2] = Assign(after[1], 2, 4, <<>>)
    BY <2>7, <1>5, <1>7
  <2>10. Assigned(after[1], 2, 4, <<>>, after[2])
    <3>1. PICK from \in Nat, to \in Nat : from = 2 /\ to = 4
      OBVIOUS
    <3>2. from <= to /\ from <= Len(after[1])
      BY <3>1, <2>6
    <3>3. Assigned(after[1], from, to, <<>>, Assign(after[1], from, to, <<>>))
      BY <3>2, <2>6, <2>8, AssignFacts
    <3> QED BY <3>1, <3>3, <2>9
  <2>11. Rest(after[1], 4) = 0
    <3>1. Len(after[1]) \in Nat /\ Len(after[1]) <= 4
      BY <2>6
    <3> QED BY <3>1, RestNone
  <2>12. Listed(after[2]) /\ Len(after[2]) = 2 + 0 + 0
    BY <2>8, <2>10, <2>11 DEF Assigned
  <2> QED BY <2>12, <1>1, <1>7
<1> QED BY <1>6, <1>7

LEMMA IntermediateMask ==
  ASSUME NEW b, NEW count, MaskBinding(b, count), Width(b) = 1, Covered(b), Listed(regions),
         \A j \in DOMAIN regions : regions[j].binding.tensor = b.tensor => MaskBinding(regions[j].binding, count)
  PROVE  DOMAIN Intermediate(b) = 0..(count - 1)
<1>0. count \in 1..2 /\ Interval(b).first = 0 /\ Interval(b).count = count
  BY DEF MaskBinding
<1>1. PICK n \in Nat : n = Len(regions) /\ DOMAIN regions = 1..n
  BY ListedFacts
<1>2. PICK after : Gathering(b, after) /\ Intermediate(b) = ByOffset(after[n])
  BY <1>1, IntermediateFacts
<1>3. after[0] = Zeros(count * 2) /\ \A j \in 1..n : after[j] = Filled(b, regions[j], after[j - 1])
  BY <1>0, <1>1, <1>2, GatheringFacts
<1> DEFINE Here(j) == \E i \in 1..j : regions[i].binding.tensor = b.tensor
           Sized(j) == Listed(after[j]) /\ Len(after[j]) = IF Here(j) THEN count ELSE count * 2
           Bad == {j \in Nat : j <= n /\ ~Sized(j)}
<1>4. Bad = {}
  <2>1. SUFFICES ASSUME Bad # {} PROVE FALSE
    OBVIOUS
  <2>2. PICK j \in Bad : \A m \in Bad : j <= m
    <3>1. Bad \in SUBSET Nat OBVIOUS
    <3> HIDE DEF Bad
    <3> QED BY <2>1, <3>1, Least
  <2>3. j # 0
    <3>1. ~Here(0)
      OBVIOUS
    <3>2. Sized(0)
      BY <3>1, <1>0, <1>3, ZerosFacts
    <3> QED BY <3>2, <2>2
  <2>4. PICK i \in Nat : i = j - 1 /\ j \in 1..n /\ i <= n
    BY <2>2, <2>3
  <2>5. Sized(i)
    <3>1. i \notin Bad
      <4>1. ~(j <= i)
        BY <2>4
      <4> HIDE DEF Bad
      <4> QED BY <4>1, <2>2
    <3> HIDE DEF Sized
    <3> QED BY <3>1, <2>4
  <2>6. after[j] = Filled(b, regions[j], after[i])
    BY <1>3, <2>4
  <2>7. Here(j) <=> Here(i) \/ regions[j].binding.tensor = b.tensor
    <3>1. 1..j = 1..i \cup {j}
      BY <2>4
    <3> QED BY <3>1
  <2> HIDE DEF Here
  <2>8. Listed(after[i]) /\ Len(after[i]) \in {count, count * 2}
    BY <1>0, <2>5
  <2>9. CASE regions[j].binding.tensor = b.tensor
    <3>1. MaskBinding(regions[j].binding, count) /\ MaskBytes(after[i], count)
      BY <1>1, <2>4, <2>8, <2>9 DEF MaskBytes
    <3>2. Listed(after[j]) /\ Len(after[j]) = count
      BY <2>6, <2>9, <3>1, MaskFilled
    <3> QED BY <3>2, <2>2, <2>7, <2>9
  <2>10. CASE regions[j].binding.tensor # b.tensor
    <3>1. after[j] = after[i]
      BY <2>6, <2>10, <1>0, FilledElsewhere
    <3> QED BY <3>1, <2>2, <2>5, <2>7, <2>10
  <2> QED BY <2>9, <2>10
<1>5. Here(n)
  <2>1. Holding(b, 0) # {}
    BY <1>0 DEF Covered
  <2> QED BY <2>1, <1>1 DEF Holding, RegionsOf
<1>6. Listed(after[n]) /\ Len(after[n]) = count
  <2> HIDE DEF Here
  <2> QED BY <1>4, <1>5
<1> QED BY <1>0, <1>2, <1>6 DEF ByOffset

(***************************************************************************)
(* The run: what has been dispatched has left its surface.                 *)
(***************************************************************************)
Going == {"run", "unpack", "done"}

Place0 ==
  /\ package \in Packages
  /\ phase \in {"load", "refused", "raised"} \cup Going
  /\ phase \in Going => LoadPackage(package)
  /\ phase = "load" => position = 1 /\ regions = <<>>
  /\ phase = "run" => position \in DOMAIN package.dispatch
  /\ phase \in {"unpack", "done"} => position = Len(package.dispatch) + 1

Stored ==
  phase \in Going =>
    /\ Listed(regions) /\ Len(regions) = position - 1
    /\ \A j \in 1..(position - 1) : regions[j].binding = package.programs[package.dispatch[j]].output

LEMMA GoingAccepted ==
  ASSUME Place0, phase \in Going
  PROVE  Accepted(package)
BY PackagesAssumption DEF Place0, Accepted

LEMMA CurrentFacts ==
  ASSUME Place0, phase = "run"
  PROVE  /\ package.dispatch[position] \in Indices(package)
         /\ Position(package, package.dispatch[position]) = position
         /\ Current = package.programs[package.dispatch[position]]
BY GoingAccepted, DispatchFacts DEF Place0, Current, Going

LEMMA PositionFacts ==
  ASSUME Place0, phase \in Going
  PROVE  /\ position \in Nat \ {0} /\ position - 1 <= Len(package.dispatch) /\ Len(package.dispatch) \in Nat
         /\ DOMAIN package.dispatch = 1..Len(package.dispatch)
<1>1. Len(package.dispatch) \in Nat /\ DOMAIN package.dispatch = 1..Len(package.dispatch)
  BY GoingAccepted, DispatchFacts
<1> QED BY <1>1 DEF Place0, Going

(* What is kept is the output of some program.                             *)
LEMMA RegionFacts ==
  ASSUME Place0, Stored, phase \in Going, NEW j \in DOMAIN regions
  PROVE  \E n \in Indices(package) : regions[j].binding = package.programs[n].output
<1>1. PICK at \in Nat : at = position - 1 /\ at <= Len(package.dispatch)
  BY PositionFacts
<1>2. j \in 1..at
  BY <1>1, ListedFacts DEF Stored
<1>3. j \in DOMAIN package.dispatch
  BY <1>1, <1>2, PositionFacts
<1>4. package.dispatch[j] \in Indices(package)
  BY <1>3, GoingAccepted, DispatchFacts
<1> QED BY <1>1, <1>2, <1>4 DEF Stored

(* Whoever wrote element e of a tensor that has run left a region with it. *)
LEMMA WriterRegion ==
  ASSUME Place0, Stored, phase \in Going, NEW name, NEW u \in Producers(package, name),
         Position(package, u.program) < position
  PROVE  \E r \in RegionsOf(name) : r.binding = package.programs[u.program].output /\ Interval(r.binding) = u.at
<1>1. Accepted(package)
  BY GoingAccepted
<1>2. /\ u.program \in Indices(package) /\ package.programs[u.program].output.tensor = name
      /\ u.at = BindingInterval(package, package.programs[u.program].output)
  BY <1>1, WriteFacts
<1>3. PICK j : j = Position(package, u.program)
  OBVIOUS
<1>4. j \in 1..(position - 1) /\ package.dispatch[j] = u.program
  <2>1. j \in DOMAIN package.dispatch /\ package.dispatch[j] = u.program
    BY <1>1, <1>2, <1>3, DispatchFacts
  <2>2. PICK k \in Nat, n \in Nat : k = position /\ n = Len(package.dispatch) /\ DOMAIN package.dispatch = 1..n
    BY PositionFacts
  <2>3. j \in 1..n /\ j < k
    BY <1>3, <2>1, <2>2
  <2> QED BY <2>1, <2>2, <2>3
<1>5. regions[j].binding = package.programs[u.program].output /\ j \in DOMAIN regions
  BY <1>4, ListedFacts DEF Stored
<1> QED BY <1>2, <1>5 DEF RegionsOf, Interval

(* The bytes a request gives for a binding are as many as it wants, if it  *)
(* wants elements of two bytes or the whole.                               *)
LEMMA SliceSize ==
  ASSUME NEW b, Fits(package, b), Tensor(b.tensor).bool \in BOOLEAN,
         Tensor(b.tensor).bool => Interval(b).count = Tensor(b.tensor).elements
  PROVE  DOMAIN DenseSlice(b) = 0..(b.count * Width(b) - 1)
<1>1. PICK first \in Nat, count \in Nat, elements \in Nat :
        /\ first = Interval(b).first /\ count = Interval(b).count /\ elements = Tensor(b.tensor).elements
        /\ count = b.count /\ first + count <= elements
  BY DEF Fits, Interval, Tensor
<1>2. DOMAIN DenseSlice(b) = {k \in 0..(count * 2 - 1) : first * 2 + k \in DOMAIN Dense(b.tensor)}
  BY <1>1 DEF DenseSlice
<1>3. CASE ~Tensor(b.tensor).bool
  <2>1. Width(b) = 2 /\ DOMAIN Dense(b.tensor) = 0..(elements * 2 - 1)
    BY <1>1, <1>3 DEF Width, Dense, ElementBytes
  <2>2. \A k \in 0..(count * 2 - 1) : first * 2 + k \in 0..(elements * 2 - 1)
    BY <1>1
  <2> QED BY <2>1, <2>2, <1>1, <1>2
<1>4. CASE Tensor(b.tensor).bool
  <2>1. Width(b) = 1 /\ DOMAIN Dense(b.tensor) = 0..(elements - 1)
    BY <1>1, <1>4 DEF Width, Dense, ElementBytes
  <2>2. first = 0 /\ count = elements
    BY <1>1, <1>4
  <2>3. {k \in 0..(count * 2 - 1) : first * 2 + k \in 0..(elements - 1)} = 0..(count - 1)
    BY <2>2
  <2>4. b.count * Width(b) - 1 = count - 1
    BY <2>1, <1>1
  <2> QED BY <2>1, <2>3, <2>4, <1>2
<1> QED BY <1>3, <1>4

(* Likewise what the programs before have written.                         *)
LEMMA IntermediateSize ==
  ASSUME Place0, Stored, phase \in Going, ~ReadsMask, NEW n \in Indices(package),
         NEW k \in DOMAIN package.programs[n].inputs, NEW b, b = package.programs[n].inputs[k],
         ~b.constant, Tensor(b.tensor).role = "intermediate", Covered(b)
  PROVE  DOMAIN Intermediate(b) = 0..(b.count * Width(b) - 1)
<1>1. Accepted(package)
  BY GoingAccepted
<1>2. Fits(package, b) /\ Tensor(b.tensor).bool \in BOOLEAN
  <2>1. Fits(package, b)
    BY <1>1, ProgramFacts
  <2> QED BY <2>1, <1>1, TensorFacts DEF Fits, Tensor
<1>3. ASSUME NEW j \in DOMAIN regions
      PROVE  \E m \in Indices(package) :
               regions[j].binding = package.programs[m].output /\ Fits(package, regions[j].binding)
  BY <1>1, RegionFacts, ProgramFacts
<1>4. Listed(regions)
  BY DEF Stored
<1>5. CASE ~Tensor(b.tensor).bool
  <2>1. TwoByte(b)
    BY <1>2, <1>5 DEF TwoByte
  <2>2. ASSUME NEW j \in DOMAIN regions PROVE Sound(b, regions[j], FALSE)
    BY <1>2, <1>3, <1>5 DEF Sound, TwoByte
  <2>3. DOMAIN Intermediate(b) = 0..(Interval(b).count * 2 - 1)
    BY <1>4, <2>1, <2>2, IntermediateTwoByte
  <2> QED BY <2>1, <2>3, TwoByteFacts
<1>6. CASE Tensor(b.tensor).bool
  <2>1. PICK elements \in Nat : elements = Tensor(b.tensor).elements
    BY <1>2 DEF Fits, Tensor
  <2>2. /\ Interval(b).count = elements /\ ~(elements > 2)
        /\ \A m \in Indices(package) :
             package.programs[m].output.tensor = b.tensor => Interval(package.programs[m].output).count = elements
    BY <1>6, <2>1 DEF ReadsMask
  <2>3. \A c : Fits(package, c) /\ c.tensor = b.tensor /\ Interval(c).count = elements => MaskBinding(c, elements)
    <3> SUFFICES ASSUME NEW c, Fits(package, c), c.tensor = b.tensor, Interval(c).count = elements
                 PROVE  MaskBinding(c, elements)
      OBVIOUS
    <3>1. PICK first \in Nat, count \in Nat \ {0} :
            /\ first = Interval(c).first /\ count = Interval(c).count /\ count = c.count /\ first + count <= elements
      BY <2>1 DEF Fits, Interval, Tensor
    <3>2. first = 0 /\ elements \in 1..2
      BY <3>1, <2>2
    <3> QED BY <3>1, <3>2 DEF MaskBinding
  <2>4. MaskBinding(b, elements)
    BY <1>2, <2>2, <2>3
  <2>5. ASSUME NEW j \in DOMAIN regions, regions[j].binding.tensor = b.tensor
        PROVE  MaskBinding(regions[j].binding, elements)
    BY <1>3, <2>2, <2>3, <2>5
  <2>6. Width(b) = 1
    BY <1>6 DEF Width, ElementBytes
  <2>7. DOMAIN Intermediate(b) = 0..(elements - 1)
    BY <1>4, <2>4, <2>5, <2>6, IntermediateMask
  <2>8. b.count * Width(b) = elements
    BY <2>4, <2>6 DEF MaskBinding
  <2> QED BY <2>7, <2>8
<1> QED BY <1>2, <1>5, <1>6

LEMMA ComposableHolds ==
  ASSUME Place0, Stored, phase = "run", ~ReadsReturned, ~ReadsMask, NEW k \in DOMAIN Current.inputs
  PROVE  Composable(Current.inputs[k])
<1>1. Accepted(package) /\ phase \in Going
  BY GoingAccepted DEF Going
<1>2. PICK n \in Indices(package) : /\ n = package.dispatch[position] /\ Current = package.programs[n]
                                    /\ Position(package, n) = position
  BY CurrentFacts
<1>3. PICK b : b = package.programs[n].inputs[k]
  OBVIOUS
<1>4. /\ Fits(package, b)
      /\ b.tensor \in DOMAIN package.tensors \ Aliases(package)
  BY <1>1, <1>2, <1>3, ProgramFacts
<1>5. InputRoleValid(package, b) /\ (package.chain => b.role = "none")
  BY <1>1, <1>2, <1>3 DEF Accepted, LoadPackage, RolesValid
<1>6. CASE Tensor(b.tensor).role = "constant"
  <2>1. b.constant
    BY <1>5, <1>6 DEF InputRoleValid, Tensor
  <2>2. Interval(b).count = b.count
    BY <1>4 DEF Fits, Interval
  <2>3. Convertible(b, Width(b), DenseOf(b))
    BY <2>1, <2>2 DEF Convertible, DenseOf, Payload
  <2> QED BY <1>2, <1>3, <2>1, <2>3 DEF Composable
<1>7. CASE Tensor(b.tensor).role = "input"
  <2>1. ~b.constant
    BY <1>5, <1>7 DEF InputRoleValid, Tensor
  <2>2. Tensor(b.tensor).bool \in BOOLEAN
    BY <1>1, <1>4, TensorFacts DEF Tensor
  <2>3. Tensor(b.tensor).bool => Interval(b).count = Tensor(b.tensor).elements
    BY <1>2, <1>3, <2>1 DEF ReadsMask
  <2>4. DOMAIN DenseSlice(b) = 0..(b.count * Width(b) - 1)
    BY <1>4, <2>2, <2>3, SliceSize
  <2>5. Convertible(b, Width(b), DenseOf(b))
    BY <2>1, <2>4, <1>7 DEF Convertible, DenseOf
  <2> QED BY <1>2, <1>3, <1>7, <2>5 DEF Composable
<1>8. CASE Tensor(b.tensor).role = "output"
  BY <1>2, <1>3, <1>8 DEF ReadsReturned
<1>9. CASE Tensor(b.tensor).role = "intermediate"
  <2>1. PICK name : name = b.tensor
    OBVIOUS
  <2>2. name \in ProducedStorage(package)
    BY <1>4, <1>5, <1>9, <2>1 DEF InputRoleValid, Tensor, ProducedStorage
  <2>3. PICK order : order = Sorted(Producers(package, name))
    OBVIOUS
  <2>4. Tiled(package, name, order)
    BY <1>1, <2>2, <2>3, TiledFacts
  <2>5. ASSUME NEW element \in 0..(Interval(b).count - 1)
        PROVE  Holding(b, element) # {}
    <3>1. /\ Interval(b).first \in Nat /\ Interval(b).count \in Nat
          /\ Interval(b).first + Interval(b).count <= package.tensors[name].elements
          /\ package.tensors[name].elements \in Nat
      BY <1>1, <1>4, <2>1, TensorFacts DEF Fits, Interval
    <3>2. PICK e : e = Interval(b).first + element
      OBVIOUS
    <3>3. e \in Nat /\ e < package.tensors[name].elements
      BY <3>1, <3>2
    <3>4. PICK w \in 1..Len(order) : order[w].at.first <= e /\ e < End(order[w].at)
      BY <1>1, <2>4, <3>3, TileCovers
    <3>5. order[w] \in Producers(package, name)
      BY <2>4 DEF Tiled
    <3>6. order[w].at.first \in Nat /\ End(order[w].at) \in Nat
      BY <1>1, <3>5, WriteFacts
    <3>7. /\ order[w].at.first < End(BindingInterval(package, b))
          /\ BindingInterval(package, b).first < End(order[w].at)
      BY <3>1, <3>2, <3>4, <3>6 DEF End, Interval
    <3>8. Position(package, order[w].program) < position
      BY <1>1, <1>2, <1>3, <2>1, <2>2, <2>3, <3>7, WritesFirst
    <3>9. PICK r \in RegionsOf(name) : Interval(r.binding) = order[w].at
      BY <1>1, <3>5, <3>8, WriterRegion
    <3>10. r \in Holding(b, element)
      BY <2>1, <3>2, <3>4, <3>9 DEF Holding
    <3> QED BY <3>10
  <2>6. Covered(b)
    BY <2>5 DEF Covered
  <2>7. ~b.constant
    BY <1>5, <1>9 DEF InputRoleValid, Tensor
  <2>8. DOMAIN Intermediate(b) = 0..(b.count * Width(b) - 1)
    BY <1>1, <1>2, <1>3, <1>9, <2>6, <2>7, IntermediateSize
  <2>9. Convertible(b, Width(b), DenseOf(b))
    BY <2>7, <2>8, <1>9 DEF Convertible, DenseOf
  <2> QED BY <1>2, <1>3, <1>9, <2>6, <2>9 DEF Composable
<1>10. Tensor(b.tensor).role \in {"input", "output", "intermediate", "constant"}
  BY <1>1, <1>4, TensorFacts DEF Tensor
<1> QED BY <1>6, <1>7, <1>8, <1>9, <1>10

LEMMA TargetFacts ==
  ASSUME NEW name \in Outputs, Accepted(package)
  PROVE  Target(name) \in DOMAIN package.tensors \ Aliases(package)
<1>1. name \in DOMAIN package.tensors
  BY DEF Outputs
<1> QED BY <1>1 DEF Target, Accepted, LoadPackage, TensorsValid, Aliases, Tensor

LEMMA WrittenHolds ==
  ASSUME Place0, Stored, phase = "unpack", ~ReturnsNoOutput, NEW name \in Outputs
  PROVE  AllWritten(name)
<1>1. Accepted(package) /\ phase \in Going
  BY GoingAccepted DEF Going
<1>2. PICK target : target = Target(name)
  OBVIOUS
<1>3. target \in DOMAIN package.tensors \ Aliases(package) /\ Tensor(target).role = "output"
  BY <1>1, <1>2, TargetFacts DEF ReturnsNoOutput
<1>4. target \in ProducedStorage(package)
  BY <1>3 DEF ProducedStorage, StorageOutputs, Tensor
<1>5. PICK order : order = Sorted(Producers(package, target))
  OBVIOUS
<1>6. Tiled(package, target, order)
  BY <1>1, <1>4, <1>5, TiledFacts
<1>7. ASSUME NEW element \in 0..(LogicalBytes(target) \div 2 - 1)
      PROVE  \E r \in RegionsOf(target) : /\ Interval(r.binding).first <= element
                                         /\ element < End(Interval(r.binding))
  <2>1. element \in Nat /\ element < package.tensors[target].elements
    <3>1. PICK elements \in Nat : elements = Tensor(target).elements
      BY <1>1, <1>3, TensorFacts DEF Tensor
    <3>2. Tensor(target).bool \in BOOLEAN
      BY <1>1, <1>3, TensorFacts DEF Tensor
    <3>3. LogicalBytes(target) = elements \/ LogicalBytes(target) = elements * 2
      BY <3>1, <3>2 DEF LogicalBytes, ElementBytes
    <3>4. elements \div 2 <= elements /\ (elements * 2) \div 2 = elements /\ elements \div 2 \in Nat
      BY <3>1
    <3> QED BY <3>1, <3>3, <3>4 DEF Tensor
  <2>2. PICK w \in 1..Len(order) : order[w].at.first <= element /\ element < End(order[w].at)
    BY <1>1, <1>6, <2>1, TileCovers
  <2>3. order[w] \in Producers(package, target)
    BY <1>6 DEF Tiled
  <2>4. Position(package, order[w].program) < position
    <3>1. order[w].program \in Indices(package)
      BY <1>1, <2>3, WriteFacts
    <3>2. Position(package, order[w].program) \in 1..Len(package.dispatch) /\ Len(package.dispatch) \in Nat
      BY <1>1, <3>1, DispatchFacts
    <3> QED BY <3>2 DEF Place0
  <2> QED BY <1>1, <2>2, <2>3, <2>4, WriterRegion
<1> QED BY <1>2, <1>3, <1>7 DEF AllWritten, Writers

LEMMA InitRun == Init => Place0 /\ Stored
BY DEF Init, Place0, Stored, Going

LEMMA PlaceStep == ASSUME Place0, [Next]_vars PROVE Place0'
<1>1. CASE Load
  <2>1. ASSUME LoadPackage(package) PROVE 1 \in DOMAIN package.dispatch
    BY <2>1, PackagesAssumption, DispatchFacts DEF Place0, Accepted
  <2> QED BY <1>1, <2>1 DEF Load, Place0, Going
<1>2. CASE RunProgram
  <2>1. /\ Len(package.dispatch) \in Nat /\ DOMAIN package.dispatch = 1..Len(package.dispatch)
    BY <1>2, GoingAccepted, DispatchFacts DEF RunProgram, Going
  <2>2. package' = package /\ position \in 1..Len(package.dispatch) /\ position' = position + 1
    BY <1>2, <2>1 DEF RunProgram, Place0
  <2>3. CASE position = Len(package.dispatch)
    BY <1>2, <2>2, <2>3 DEF RunProgram, Place0, Going
  <2>4. CASE position # Len(package.dispatch)
    <3>1. position' \in DOMAIN package.dispatch
      BY <2>1, <2>2, <2>4
    <3> QED BY <1>2, <2>2, <2>4, <3>1 DEF RunProgram, Place0, Going
  <2> QED BY <2>3, <2>4
<1>3. CASE ComposeFails \/ UnpackFails
  BY <1>3 DEF ComposeFails, UnpackFails, Place0, Going
<1>4. CASE UnpackOutputs
  BY <1>4 DEF UnpackOutputs, Place0, Going
<1>5. CASE UNCHANGED vars
  BY <1>5 DEF vars, Place0
<1> QED BY <1>1, <1>2, <1>3, <1>4, <1>5 DEF Next, Done

LEMMA StoredStep == ASSUME Place0, Stored, [Next]_vars PROVE Stored'
<1>1. CASE Load
  <2>1. package' = package /\ position' = 1 /\ regions' = <<>>
    BY <1>1 DEF Load, Place0
  <2>2. Listed(regions') /\ Len(regions') = 0
    <3>1. <<>> \in Seq({}) /\ Len(<<>>) = 0
      BY EmptySeq
    <3> QED BY <3>1, <2>1 DEF Listed
  <2> QED BY <2>1, <2>2 DEF Stored
<1>2. CASE RunProgram
  <2>1. PICK r : r = [binding |-> Current.output, surface |-> Written(Current)]
    OBVIOUS
  <2>2. /\ regions' = Append(regions, r) /\ package' = package /\ position' = position + 1
        /\ phase = "run" /\ phase \in Going
    BY <1>2, <2>1 DEF RunProgram, Going
  <2>3. r.binding = package.programs[package.dispatch[position]].output
    BY <2>1 DEF Current
  <2>4. PICK n \in Nat : position = n + 1
    <3>1. position - 1 \in Nat /\ position = (position - 1) + 1
      BY <2>2, PositionFacts
    <3> QED BY <3>1
  <2>5. /\ Listed(regions) /\ Len(regions) = n
        /\ \A j \in 1..n : regions[j].binding = package.programs[package.dispatch[j]].output
    BY <2>2, <2>4 DEF Stored
  <2>6. /\ Listed(regions') /\ Len(regions') = n + 1
        /\ \A j \in 1..n : regions'[j] = regions[j]
        /\ regions'[n + 1] = r
    BY <2>2, <2>5, ListedAppend
  <2>7. ASSUME NEW j \in 1..(n + 1)
        PROVE  regions'[j].binding = package.programs[package.dispatch[j]].output
    <3>1. CASE j = n + 1
      BY <3>1, <2>3, <2>4, <2>6
    <3>2. CASE j # n + 1
      <4>1. j \in 1..n
        BY <3>2
      <4> QED BY <4>1, <2>5, <2>6
    <3> QED BY <3>1, <3>2
  <2>8. position' - 1 = n + 1
    BY <2>2, <2>4
  <2> QED BY <2>2, <2>6, <2>7, <2>8 DEF Stored
<1>3. CASE ComposeFails \/ UnpackFails
  BY <1>3 DEF ComposeFails, UnpackFails, Stored, Going
<1>4. CASE UnpackOutputs
  BY <1>4 DEF UnpackOutputs, Stored, Going
<1>5. CASE UNCHANGED vars
  BY <1>5 DEF vars, Stored
<1> QED BY <1>1, <1>2, <1>3, <1>4, <1>5 DEF Next, Done

MaskRead(p, b) ==
  /\ p.tensors[b.tensor].bool
  /\ ~b.constant
  /\ \/ BindingInterval(p, b).count # p.tensors[b.tensor].elements
     \/ /\ p.tensors[b.tensor].role = "intermediate"
        /\ \/ p.tensors[b.tensor].elements > 2
           \/ \E m \in Indices(p) :
                /\ p.programs[m].output.tensor = b.tensor
                /\ BindingInterval(p, p.programs[m].output).count # p.tensors[b.tensor].elements

LEMMA CausesUnchanged ==
  ASSUME package' = package
  PROVE  (ReadsReturned' <=> ReadsReturned) /\ (ReturnsNoOutput' <=> ReturnsNoOutput) /\ (ReadsMask' <=> ReadsMask)
<1>1. ReadsReturned' <=> ReadsReturned
  BY DEF ReadsReturned, Tensor
<1>2. ReturnsNoOutput' <=> ReturnsNoOutput
  BY DEF ReturnsNoOutput, Outputs, Target, Tensor
<1>3. ReadsMask' <=> ReadsMask
  <2>1. ReadsMask <=> \E n \in Indices(package) : \E k \in DOMAIN package.programs[n].inputs :
                        MaskRead(package, package.programs[n].inputs[k])
    BY DEF ReadsMask, MaskRead, Tensor, Interval
  <2>2. ReadsMask' <=> \E n \in Indices(package') : \E k \in DOMAIN package'.programs[n].inputs :
                         MaskRead(package', package'.programs[n].inputs[k])
    BY DEF ReadsMask, MaskRead, Tensor, Interval
  <2> QED BY <2>1, <2>2
<1> QED BY <1>1, <1>2, <1>3

LEMMA RaisedStep ==
  ASSUME Place0, Stored, RaisesExplained, [Next]_vars
  PROVE  RaisesExplained'
<1>1. CASE ComposeFails
  <2>1. ReadsReturned \/ ReadsMask
    BY <1>1, ComposableHolds DEF ComposeFails
  <2>2. package' = package
    BY <1>1 DEF ComposeFails
  <2> QED BY <2>1, <2>2, CausesUnchanged DEF RaisesExplained
<1>2. CASE UnpackFails
  <2>1. ReturnsNoOutput
    BY <1>2, WrittenHolds DEF UnpackFails
  <2>2. package' = package
    BY <1>2 DEF UnpackFails
  <2> QED BY <2>1, <2>2, CausesUnchanged DEF RaisesExplained
<1>3. CASE Load \/ RunProgram \/ UnpackOutputs
  BY <1>3 DEF Load, RunProgram, UnpackOutputs, RaisesExplained
<1>4. CASE UNCHANGED vars
  <2>1. package' = package /\ phase' = phase
    BY <1>4 DEF vars
  <2> QED BY <2>1, CausesUnchanged DEF RaisesExplained
<1> QED BY <1>1, <1>2, <1>3, <1>4 DEF Next, Done

LEMMA DmaFacts == Place0 => DmaBacked
<1> SUFFICES ASSUME Place0, phase \in Going,
                    NEW n \in Indices(package), NEW k \in DOMAIN package.programs[n].tasks, NEW s \in Selectors,
                    package.programs[n].tasks[k][s].state # "off"
             PROVE  LET program == package.programs[n]
                    IN \/ program.tasks[k][s].channel = 0
                       \/ program.tasks[k][s].channel = 1 /\ program.constants
                       \/ program.tasks[k][s].channel = 3 /\ 3 \in program.tiles
                       \/ program.tasks[k][s].channel \in Occupied(program)
  BY DEF DmaBacked, Going
<1>1. ProgramValid(package, package.programs[n])
  BY DEF Place0, LoadPackage
<1> QED
  BY <1>1 DEF ProgramValid, TaskHeadersValid, ChannelsValid, ConstantChannel, AllocatedChannels

RunInv == Place0 /\ Stored /\ RaisesExplained

THEOREM RunInvariant == Spec => []RunInv
<1>1. Init => RunInv
  BY InitRun DEF RunInv, Init, RaisesExplained
<1>2. RunInv /\ [Next]_vars => RunInv'
  BY PlaceStep, StoredStep, RaisedStep DEF RunInv
<1> QED BY <1>1, <1>2, PTL DEF Spec

THEOREM RaisesAreExplained == Spec => []RaisesExplained
<1>1. RunInv => RaisesExplained
  BY DEF RunInv
<1> QED BY <1>1, RunInvariant, PTL

THEOREM DmaIsBacked == Spec => []DmaBacked
<1>1. RunInv => DmaBacked
  BY DmaFacts DEF RunInv
<1> QED BY <1>1, RunInvariant, PTL

(***************************************************************************)
(* The tensors compared with a tolerance.                                  *)
(***************************************************************************)
(* Every user of a tensor has its place in the order.                      *)
LEMMA SortedAll ==
  ASSUME NEW S, Users(S), NEW u \in S
  PROVE  \E k \in 1..Cardinality(S) : Sorted(S)[k] = u
<1>1. PICK order : order = Sorted(S) /\ InOrder(order, S)
  BY SortedFacts
<1>2. PICK c \in Nat : c = Cardinality(S)
  BY FS_CardinalityType DEF Users
<1>3. order \in [1..c -> S] /\ \A i, j \in 1..c : i < j => Before(order[i], order[j])
  BY <1>1, <1>2 DEF InOrder
<1>4. \A v \in S : ~Before(v, v)
  BY DEF Users, Before
<1>5. \A i, j \in 1..c : order[i] = order[j] => i = j
  BY <1>2, <1>3, <1>4
<1>6. order \in Injection(1..c, S)
  BY <1>3, <1>5 DEF Injection, IsInjective
<1>7. IsFiniteSet(1..c) /\ Cardinality(1..c) = c
  BY <1>2, FS_Interval
<1>8. order \in Surjection(1..c, S)
  BY <1>2, <1>6, <1>7, FS_Injection DEF Users
<1> QED BY <1>1, <1>2, <1>8 DEF Surjection

(* One program of the pass.                                                *)
Spread(p, k, before) ==
  LET program == p.programs[p.dispatch[k]]
  IN before \cup (IF {program.inputs[j].tensor : j \in DOMAIN program.inputs} \cap before # {}
                  THEN {program.output.tensor} ELSE {})

Marking(p, after) ==
  after = [k \in 0..Len(p.dispatch) |->
             IF k = 0 THEN {name \in DOMAIN p.tensors : p.tensors[name].chunked} ELSE Spread(p, k, after[k - 1])]

LEMMA ChunkedFacts ==
  ASSUME NEW p, Len(p.dispatch) \in Nat
  PROVE  \E after : Marking(p, after) /\ Chunked(p) = after[Len(p.dispatch)]
<1> DEFINE First == {name \in DOMAIN p.tensors : p.tensors[name].chunked}
           Upto(n, after) == after = [k \in 0..n |-> IF k = 0 THEN First ELSE Spread(p, k, after[k - 1])]
           Missing == {n \in Nat : ~ \E after : Upto(n, after)}
<1>1. \E after : Upto(Len(p.dispatch), after)
  <2>1. SUFFICES ASSUME Len(p.dispatch) \in Missing PROVE FALSE
    OBVIOUS
  <2> HIDE DEF First
  <2>2. PICK n \in Missing : \A k \in Missing : n <= k
    <3>1. Missing \in SUBSET Nat OBVIOUS
    <3> HIDE DEF Missing
    <3> QED BY <2>1, <3>1, Least
  <2>3. n # 0
    <3>1. Upto(0, [k \in 0..0 |-> First])
      OBVIOUS
    <3> QED BY <3>1, <2>2
  <2>4. PICK after : Upto(n - 1, after)
    <3>1. n - 1 \in Nat /\ n - 1 \notin Missing
      BY <2>2, <2>3
    <3> QED BY <3>1
  <2> DEFINE more == [k \in 0..n |-> IF k = n THEN Spread(p, n, after[n - 1]) ELSE after[k]]
  <2>5. Upto(n, more)
    <3>1. n \in Nat BY <2>2
    <3>2. ASSUME NEW k \in 0..n
          PROVE  more[k] = IF k = 0 THEN First ELSE Spread(p, k, more[k - 1])
      <4>1. CASE k = n
        <5>1. more[k] = Spread(p, n, after[n - 1]) /\ more[k - 1] = after[n - 1]
          BY <4>1, <3>1, <2>3
        <5> QED BY <5>1, <4>1, <2>3
      <4>2. CASE k # n
        <5>1. k \in 0..(n - 1) BY <4>2, <3>1
        <5>2. more[k] = after[k] BY <4>2
        <5>3. after[k] = IF k = 0 THEN First ELSE Spread(p, k, after[k - 1])
          BY <2>4, <5>1
        <5>4. k # 0 => more[k - 1] = after[k - 1]
          BY <5>1, <3>1
        <5> QED BY <5>2, <5>3, <5>4
      <4> QED BY <4>1, <4>2
    <3> QED BY <3>2
  <2> QED BY <2>5, <2>2
<1>2. PICK after : after = CHOOSE f : Upto(Len(p.dispatch), f)
  OBVIOUS
<1>3. Upto(Len(p.dispatch), after)
  BY <1>1, <1>2
<1>4. Chunked(p) = after[Len(p.dispatch)]
  BY <1>2 DEF Chunked, Spread
<1> QED BY <1>3, <1>4 DEF Marking

LEMMA MarkingFacts ==
  ASSUME NEW p, Accepted(p), NEW after, Marking(p, after)
  PROVE  /\ after[0] = {name \in DOMAIN p.tensors : p.tensors[name].chunked}
         /\ \A k \in DOMAIN p.dispatch : after[k] = Spread(p, k, after[k - 1])
<1>1. Len(p.dispatch) \in Nat /\ DOMAIN p.dispatch = 1..Len(p.dispatch)
  BY DispatchFacts
<1>2. 0 \in 0..Len(p.dispatch)
  BY <1>1
<1>3. ASSUME NEW k \in DOMAIN p.dispatch PROVE after[k] = Spread(p, k, after[k - 1])
  <2>1. k \in 0..Len(p.dispatch) /\ k # 0
    BY <1>1
  <2> QED BY <2>1 DEF Marking
<1> QED BY <1>2, <1>3 DEF Marking

(* What is marked stays marked.                                            *)
LEMMA MarkingGrows ==
  ASSUME NEW p, Accepted(p), NEW after, Marking(p, after),
         NEW i \in 0..Len(p.dispatch), NEW j \in 0..Len(p.dispatch), i <= j
  PROVE  after[i] \subseteq after[j]
<1> DEFINE Bad == {k \in Nat : k <= Len(p.dispatch) /\ i <= k /\ ~(after[i] \subseteq after[k])}
<1>1. Len(p.dispatch) \in Nat /\ DOMAIN p.dispatch = 1..Len(p.dispatch)
  BY DispatchFacts
<1>2. SUFFICES ASSUME Bad # {} PROVE FALSE
  BY <1>1
<1>3. PICK k \in Bad : \A m \in Bad : k <= m
  <2>1. Bad \in SUBSET Nat OBVIOUS
  <2> HIDE DEF Bad
  <2> QED BY <1>2, <2>1, Least
<1>4. k # i
  BY <1>3
<1>5. k - 1 \in Nat /\ i <= k - 1 /\ k \in DOMAIN p.dispatch /\ k - 1 \notin Bad
  BY <1>1, <1>3, <1>4
<1>6. after[i] \subseteq after[k - 1]
  BY <1>1, <1>3, <1>5
<1>7. after[k - 1] \subseteq after[k]
  BY <1>5, MarkingFacts DEF Spread
<1> QED BY <1>3, <1>6, <1>7

(* Bytes that one program wrote and another reads: the first comes before. *)
LEMMA FeedsFirst ==
  ASSUME Accepted(package), NEW m \in Indices(package), NEW n \in Indices(package), Feeds(m, n)
  PROVE  /\ Position(package, m) < Position(package, n)
         /\ package.programs[m].output.tensor \in Reads(n)
<1>1. PICK k \in DOMAIN package.programs[n].inputs :
        LET write == package.programs[m].output
            read == package.programs[n].inputs[k]
        IN /\ read.tensor = write.tensor
           /\ Interval(read).first < End(Interval(write))
           /\ Interval(write).first < End(Interval(read))
  BY DEF Feeds
<1>2. PICK name : name = package.programs[m].output.tensor
  OBVIOUS
<1>3. name \in ProducedStorage(package)
  <2>1. name \in DOMAIN package.tensors \ Aliases(package)
    BY <1>2, ProgramFacts
  <2>2. /\ OutputRoleValid(package, package.programs[m].output)
        /\ package.chain => package.programs[m].output.role = "none"
    BY DEF Accepted, LoadPackage, RolesValid
  <2> QED BY <1>2, <2>1, <2>2 DEF OutputRoleValid, ProducedStorage, StorageOutputs
<1>4. PICK u : u = [at |-> BindingInterval(package, package.programs[m].output), program |-> m]
  OBVIOUS
<1>5. u \in Producers(package, name) /\ u.program = m /\ u.at = Interval(package.programs[m].output)
  BY <1>2, <1>4 DEF Producers, Interval
<1>6. PICK order : order = Sorted(Producers(package, name))
  OBVIOUS
<1>7. PICK w \in 1..Len(order) : order[w] = u
  <2>1. PICK w \in 1..Cardinality(Producers(package, name)) : order[w] = u
    BY <1>5, <1>6, ProducerUsers, SortedAll
  <2>2. order \in [1..Cardinality(Producers(package, name)) -> Producers(package, name)]
    BY <1>6, ProducerUsers, SortedFacts DEF InOrder
  <2>3. order \in Seq(Producers(package, name))
    BY <1>3, <1>6, TiledFacts DEF Tiled
  <2>4. DOMAIN order = 1..Len(order)
    BY <2>3
  <2> QED BY <2>1, <2>2, <2>4
<1>8. /\ order[w].at.first < End(BindingInterval(package, package.programs[n].inputs[k]))
      /\ BindingInterval(package, package.programs[n].inputs[k]).first < End(order[w].at)
  BY <1>1, <1>5, <1>7 DEF Interval
<1>9. package.programs[n].inputs[k].tensor = name
  BY <1>1, <1>2
<1>10. Position(package, order[w].program) < Position(package, n)
  BY <1>3, <1>6, <1>8, <1>9, WritesFirst
<1> QED BY <1>1, <1>5, <1>7, <1>10 DEF Reads

LEMMA RoundedMarked ==
  ASSUME Accepted(package), NEW n \in Rounded
  PROVE  package.programs[n].output.tensor \in Chunked(package)
<1>1. Len(package.dispatch) \in Nat /\ DOMAIN package.dispatch = 1..Len(package.dispatch)
  BY DispatchFacts
<1>2. PICK after : Marking(package, after) /\ Chunked(package) = after[Len(package.dispatch)]
  BY <1>1, ChunkedFacts
<1> DEFINE R == {m \in Indices(package) : package.programs[m].output.tensor \in after[Position(package, m)]}
<1>3. \A m \in Indices(package) : /\ Position(package, m) \in 1..Len(package.dispatch)
                                 /\ package.dispatch[Position(package, m)] = m
  BY <1>1, DispatchFacts
<1>4. ASSUME NEW m \in Indices(package), NEW name \in Reads(m) \cap after[Position(package, m) - 1]
      PROVE  m \in R
  <2>1. after[Position(package, m)] = Spread(package, Position(package, m), after[Position(package, m) - 1])
    BY <1>1, <1>2, <1>3, MarkingFacts
  <2>2. package.dispatch[Position(package, m)] = m
    BY <1>3
  <2> QED BY <2>1, <2>2 DEF Spread, Reads
<1>5. ASSUME NEW m \in Indices(package), Reads(m) \cap Marked # {} PROVE m \in R
  <2>1. PICK name \in Reads(m) : name \in Marked
    BY <1>5
  <2>2. after[0] = Marked
    BY <1>2, MarkingFacts DEF Marked, Tensor
  <2>3. Position(package, m) - 1 \in 0..Len(package.dispatch)
    BY <1>1, <1>3
  <2>4. after[0] \subseteq after[Position(package, m) - 1]
    BY <1>1, <1>2, <2>3, MarkingGrows
  <2> QED BY <1>4, <2>1, <2>2, <2>4
<1>6. ASSUME NEW m \in Indices(package), NEW r \in R, Feeds(r, m) PROVE m \in R
  <2>1. /\ Position(package, r) < Position(package, m)
        /\ package.programs[r].output.tensor \in Reads(m)
    BY <1>6, FeedsFirst
  <2>2. /\ Position(package, r) \in 0..Len(package.dispatch)
        /\ Position(package, m) - 1 \in 0..Len(package.dispatch)
        /\ Position(package, r) <= Position(package, m) - 1
    BY <1>1, <1>3, <2>1
  <2>3. after[Position(package, r)] \subseteq after[Position(package, m) - 1]
    BY <1>2, <2>2, MarkingGrows
  <2> QED BY <1>4, <2>1, <2>3
<1>7. n \in R
  <2>1. R \in SUBSET Indices(package) OBVIOUS
  <2>2. \A m \in Indices(package) : Reads(m) \cap Marked # {} \/ (\E r \in R : Feeds(r, m)) => m \in R
    <3> HIDE DEF R
    <3> QED BY <1>5, <1>6
  <2> HIDE DEF R
  <2> QED BY <2>1, <2>2 DEF Rounded
<1>8. after[Position(package, n)] \subseteq after[Len(package.dispatch)]
  BY <1>1, <1>2, <1>3, <1>7, MarkingGrows
<1> QED BY <1>2, <1>7, <1>8

LEMMA MarkedReached ==
  ASSUME Accepted(package), NEW names \in SUBSET DOMAIN package.tensors, Marked \subseteq names, Closed(names)
  PROVE  Chunked(package) \subseteq names
<1>1. Len(package.dispatch) \in Nat /\ DOMAIN package.dispatch = 1..Len(package.dispatch)
  BY DispatchFacts
<1>2. PICK after : Marking(package, after) /\ Chunked(package) = after[Len(package.dispatch)]
  BY <1>1, ChunkedFacts
<1> DEFINE Bad == {k \in Nat : k <= Len(package.dispatch) /\ ~(after[k] \subseteq names)}
<1>3. SUFFICES ASSUME Bad # {} PROVE FALSE
  BY <1>1, <1>2
<1>4. PICK k \in Bad : \A m \in Bad : k <= m
  <2>1. Bad \in SUBSET Nat OBVIOUS
  <2> HIDE DEF Bad
  <2> QED BY <1>3, <2>1, Least
<1>5. k # 0
  BY <1>2, <1>4, MarkingFacts DEF Marked, Tensor
<1>6. k \in DOMAIN package.dispatch /\ k - 1 \notin Bad /\ k - 1 \in Nat
  BY <1>1, <1>4, <1>5
<1>7. after[k - 1] \subseteq names
  BY <1>1, <1>4, <1>6
<1>8. PICK n \in Indices(package) : n = package.dispatch[k]
  BY <1>6, DispatchFacts
<1>9. after[k] = Spread(package, k, after[k - 1])
  BY <1>2, <1>6, MarkingFacts
<1>10. Reads(n) \cap after[k - 1] # {} => package.programs[n].output.tensor \in names
  BY <1>7 DEF Closed
<1> QED BY <1>4, <1>7, <1>8, <1>9, <1>10 DEF Spread, Reads

Ended == phase = "done" => chunked = Chunked(package)

LEMMA EndedStep == ASSUME Ended, [Next]_vars PROVE Ended'
<1>1. CASE UNCHANGED vars
  BY <1>1 DEF Ended, vars
<1>2. CASE UnpackOutputs
  BY <1>2 DEF Ended, UnpackOutputs
<1>3. CASE Load \/ RunProgram \/ ComposeFails \/ UnpackFails
  BY <1>3 DEF Ended, Load, RunProgram, ComposeFails, UnpackFails
<1> QED BY <1>1, <1>2, <1>3 DEF Next, Done

LEMMA ChunkedHolds == Place0 /\ Ended => ChunkedExact
<1> SUFFICES ASSUME Place0, Ended, phase = "done" PROVE ChunkedExact
  BY DEF ChunkedExact
<1>1. Accepted(package)
  BY GoingAccepted DEF Going
<1> QED BY <1>1, RoundedMarked, MarkedReached DEF Ended, ChunkedExact

(***************************************************************************)
(* Division, and the places of elements in rows.                           *)
(***************************************************************************)
LEMMA DivFacts ==
  ASSUME NEW a \in Nat, NEW d \in Nat \ {0}
  PROVE  /\ a \div d \in Nat /\ a % d \in 0..(d - 1)
         /\ a = (a \div d) * d + (a % d)
<1>1. a \div d \in Nat
  OBVIOUS
<1>2. a % d \in 0..(d - 1)
  OBVIOUS
<1>3. a = (a \div d) * d + (a % d)
  OBVIOUS
<1> QED BY <1>1, <1>2, <1>3

LEMMA DivParts ==
  ASSUME NEW a \in Nat, NEW d \in Nat \ {0}
  PROVE  \E q \in Nat, r \in Nat : q = a \div d /\ r = a % d /\ r < d /\ a = q * d + r
<1>1. PICK q, r : q = a \div d /\ r = a % d
  OBVIOUS
<1>2. q \in Nat /\ r \in 0..(d - 1) /\ a = q * d + r
  BY <1>1, DivFacts
<1>3. r \in Nat /\ r < d
  BY <1>2
<1> WITNESS q \in Nat, r \in Nat
<1> QED BY <1>1, <1>2, <1>3

LEMMA TimesNat ==
  ASSUME NEW a \in Nat, NEW b \in Nat
  PROVE a * b \in Nat
OBVIOUS

LEMMA TimesGrows ==
  ASSUME NEW d \in Nat, NEW p \in Int, NEW q \in Int, p <= q
  PROVE p * d <= q * d
OBVIOUS

LEMMA DivUnique ==
  ASSUME NEW d \in Nat \ {0}, NEW p \in Int, NEW q \in Int, NEW r \in Nat, NEW s \in Nat, r < d, s < d,
         p * d + r = q * d + s
  PROVE  p = q /\ r = s
<1>1. ASSUME NEW x \in Int, NEW y \in Int, NEW t \in Nat, NEW u \in Nat, t < d, x < y PROVE x * d + t # y * d + u
  <2>1. (x + 1) * d <= y * d
    <3>1. x + 1 <= y BY <1>1
    <3> QED BY <3>1, TimesGrows
  <2>2. (x + 1) * d = x * d + d
    OBVIOUS
  <2>3. x * d \in Int /\ y * d \in Int OBVIOUS
  <2> QED BY <1>1, <2>1, <2>2, <2>3
<1>2. p = q
  BY <1>1
<1> QED BY <1>2

(* Dividing by w and then by h is dividing by their product.               *)
LEMMA DivTwice ==
  ASSUME NEW e \in Nat, NEW w \in Nat \ {0}, NEW h \in Nat \ {0}
  PROVE  e \div (w * h) = (e \div w) \div h
<1>1. PICK q \in Nat, r \in Nat : q = e \div w /\ r = e % w /\ r < w /\ e = q * w + r
  BY DivFacts
<1>2. PICK p \in Nat, s \in Nat : p = q \div h /\ s = q % h /\ s < h /\ q = p * h + s
  BY DivFacts
<1>3. PICK d \in Nat \ {0} : d = w * h
  OBVIOUS
<1>4. PICK x \in Nat, y \in Nat : x = e \div d /\ y = e % d /\ y < d /\ e = x * d + y
  BY DivFacts
<1>5. PICK t \in Nat : t = s * w + r
  BY TimesNat
<1>6. t < d
  <2>1. (s + 1) * w <= h * w
    <3>1. s + 1 <= h BY <1>2
    <3> QED BY <3>1, TimesGrows
  <2>2. (s + 1) * w = s * w + w
    OBVIOUS
  <2>3. h * w = d
    BY <1>3
  <2>4. s * w \in Nat
    BY TimesNat
  <2> QED BY <1>1, <1>5, <2>1, <2>2, <2>3, <2>4
<1>7. e = p * d + t
  <2>1. q * w = (p * h) * w + s * w
    BY <1>2
  <2>2. (p * h) * w = p * d
    BY <1>3
  <2>3. p * d \in Nat /\ s * w \in Nat /\ q * w \in Nat
    BY TimesNat
  <2> QED BY <1>1, <1>5, <2>1, <2>2, <2>3
<1>8. p = x
  BY <1>4, <1>6, <1>7, DivUnique
<1> QED BY <1>1, <1>2, <1>3, <1>4, <1>8

(* A row of w elements of two bytes, and rows s bytes apart.               *)
LEMMA RowFacts ==
  ASSUME NEW w \in Nat \ {0}, NEW s \in Nat \ {0}, w * 2 <= s,
         NEW e \in Nat, NEW j \in {0, 1}
  PROVE  /\ (e \div w) \in Nat /\ (e % w) * 2 + j \in Nat /\ (e % w) * 2 + j < s
         /\ (e \div w) * s \in Nat
<1>1. e \div w \in Nat /\ e % w \in 0..(w - 1)
  BY DivFacts
<1>2. (e \div w) * s \in Nat
  BY <1>1, TimesNat
<1>3. PICK r \in Nat : r = e % w /\ r < w
  BY <1>1
<1>4. r * 2 + j \in Nat /\ r * 2 + j < s
  BY <1>3
<1> QED BY <1>1, <1>2, <1>3, <1>4

(* Different bytes of a tensor have different places in such rows.         *)
RowStart(w, s, e) == (e \div w) * s
RowPlace(w, s, e, j) == (e \div w) * s + (e % w) * 2 + j

LEMMA RowsApart ==
  ASSUME NEW w \in Nat \ {0}, NEW s \in Nat \ {0}, w * 2 <= s,
         NEW e \in Nat, NEW j \in {0, 1}, NEW f \in Nat, NEW i \in {0, 1},
         RowPlace(w, s, e, j) = RowPlace(w, s, f, i)
  PROVE  e = f /\ j = i
<1>1. PICK p \in Nat, r \in Nat : p = e \div w /\ r = e % w /\ r < w /\ e = p * w + r
  BY DivParts
<1>2. PICK q \in Nat, t \in Nat : q = f \div w /\ t = f % w /\ t < w /\ f = q * w + t
  BY DivParts
<1>3. PICK a \in Nat : a = r * 2 + j
  OBVIOUS
<1>4. PICK b \in Nat : b = t * 2 + i
  OBVIOUS
<1>5. a < s /\ b < s
  BY <1>1, <1>2, <1>3, <1>4
<1>6. p * s + a = q * s + b
  <2>1. p * s \in Nat /\ q * s \in Nat
    BY TimesNat
  <2> QED BY <2>1, <1>1, <1>2, <1>3, <1>4 DEF RowPlace
<1>7. p = q /\ a = b
  BY <1>5, <1>6, DivUnique
<1>8. r = t /\ j = i
  BY <1>3, <1>4, <1>7
<1> QED BY <1>1, <1>2, <1>7, <1>8

(* c planes of h rows, n times: the last byte of a row is inside.          *)
LEMMA RowsInside ==
  ASSUME NEW w \in Nat \ {0}, NEW s \in Nat \ {0}, w * 2 <= s, NEW rows \in Nat,
         NEW e \in Nat, NEW j \in {0, 1}, e < rows * w
  PROVE  RowPlace(w, s, e, j) \in 0..(rows * s - 1)
<1>1. PICK p \in Nat, r \in Nat : p = e \div w /\ r = e % w /\ r < w /\ e = p * w + r
  BY DivFacts
<1>2. p < rows
  <2> SUFFICES ASSUME rows <= p PROVE FALSE
    OBVIOUS
  <2>1. rows * w <= p * w
    BY TimesGrows
  <2>2. rows * w \in Nat /\ p * w \in Nat
    BY TimesNat
  <2> QED BY <1>1, <2>1, <2>2
<1>3. (p + 1) * s <= rows * s
  <2>1. p + 1 <= rows BY <1>2
  <2> QED BY <2>1, TimesGrows
<1>4. (p + 1) * s = p * s + s
  OBVIOUS
<1>5. p * s \in Nat /\ rows * s \in Nat
  BY TimesNat
<1>6. r * 2 + j \in Nat /\ r * 2 + j < s
  BY <1>1
<1> QED BY <1>1, <1>3, <1>4, <1>5, <1>6 DEF RowPlace

(* The place of an element counted in planes and rows is that counted in   *)
(* rows only.                                                              *)
PlanePlace(w, h, c, s, e) ==
  LET plane == e \div (w * h)
  IN (plane \div c) * c * (s * h) + (plane % c) * (s * h) + ((e \div w) % h) * s

LEMMA PlaneRows ==
  ASSUME NEW w \in Nat \ {0}, NEW h \in Nat \ {0}, NEW c \in Nat \ {0}, NEW s \in Nat, NEW e \in Nat
  PROVE  PlanePlace(w, h, c, s, e) = RowStart(w, s, e)
<1>0. PICK plane : plane = e \div (w * h)
  OBVIOUS
<1>1. PICK q \in Nat : q = e \div w
  BY DivFacts
<1>2. plane = q \div h
  BY <1>0, <1>1, DivTwice
<1>3. PICK p \in Nat, t \in Nat : p = q \div h /\ t = q % h /\ q = p * h + t
  BY DivFacts
<1>4. PICK x \in Nat, y \in Nat : x = p \div c /\ y = p % c /\ p = x * c + y
  BY DivFacts
<1>5. PICK m \in Nat : m = s * h
  BY TimesNat
<1>6. x * c * m + y * m = p * m
  <2>1. (x * c + y) * m = x * c * m + y * m
    OBVIOUS
  <2> QED BY <2>1, <1>4
<1>7. p * m + t * s = q * s
  <2>1. p * m = (p * h) * s
    BY <1>5
  <2>2. (p * h + t) * s = (p * h) * s + t * s
    OBVIOUS
  <2> QED BY <2>1, <2>2, <1>3
<1> QED BY <1>0, <1>1, <1>2, <1>3, <1>4, <1>5, <1>6, <1>7 DEF PlanePlace, RowStart

(***************************************************************************)
(* Layouts: where the bytes of a binding are, for tensors of two-byte      *)
(* elements.                                                               *)
(***************************************************************************)
At(b, e, j) == RowPlace(b.nchw[4], Stride(b, 2), e, j)

LEMMA StrideFacts ==
  ASSUME NEW b, b.nchw \in [1..4 -> Nat \ {0}]
  PROVE  Stride(b, 2) \in Nat \ {0} /\ b.nchw[4] * 2 <= Stride(b, 2)
<1>1. PICK n \in Nat : n = b.nchw[4] * 2 + Row - 1 /\ n >= Row
  BY PackageAssumption
<1>2. PICK q \in Nat, r \in Nat : q = n \div Row /\ r = n % Row /\ r < Row /\ n = q * Row + r
  BY <1>1, PackageAssumption, DivParts
<1>3. q * Row \in Nat /\ b.nchw[4] * 2 <= q * Row
  <2>1. PICK m \in Nat : m = q * Row
    BY <1>2, PackageAssumption, TimesNat
  <2>2. PICK row \in Nat, a \in Nat : row = Row /\ a = b.nchw[4] * 2
    BY PackageAssumption
  <2>3. n = m + r /\ r < row /\ n = a + row - 1
    BY <1>1, <1>2, <2>1, <2>2
  <2>4. a <= m
    BY <2>3
  <2> QED BY <2>1, <2>2, <2>4
<1>4. RoundUp(b.nchw[4] * 2, Row) = q * Row
  BY <1>1, <1>2 DEF RoundUp
<1> QED BY <1>3, <1>4, PackageAssumption DEF Stride

LEMMA PlaceFacts ==
  ASSUME NEW b, TwoByte(b), NEW e \in 0..(Interval(b).count - 1), NEW j \in {0, 1}
  PROVE  /\ At(b, e, j) \in 0..(Span(b, 2) - 1)
         /\ Place(b, e, j) = At(b, e, j)
         /\ Offset(b, 2, e) + j = At(b, e, j)
<1>1. PICK N \in Nat \ {0}, C \in Nat \ {0}, H \in Nat \ {0}, W \in Nat \ {0} :
        N = b.nchw[1] /\ C = b.nchw[2] /\ H = b.nchw[3] /\ W = b.nchw[4]
  BY DEF TwoByte, Fits
<1>2. PICK s \in Nat \ {0} : s = Stride(b, 2) /\ W * 2 <= s
  BY <1>1, StrideFacts DEF TwoByte, Fits
<1>3. PICK rows \in Nat : rows = N * C * H
  BY TimesNat
<1>4. e \in Nat /\ e < rows * W
  <2>1. /\ Interval(b).count \in Nat /\ Interval(b).held \in Nat
        /\ Interval(b).count <= Interval(b).held /\ Interval(b).held = N * C * H * W
    BY <1>1 DEF TwoByte, Fits, Interval, LayoutElements
  <2>2. Interval(b).held = rows * W
    BY <2>1, <1>3
  <2>3. rows * W \in Nat
    BY TimesNat
  <2> QED BY <2>1, <2>2, <2>3
<1>5. At(b, e, j) = RowPlace(W, s, e, j)
  BY <1>1, <1>2 DEF At
<1>6. RowPlace(W, s, e, j) \in 0..(rows * s - 1)
  BY <1>2, <1>4, RowsInside
<1>7. Span(b, 2) = rows * s
  <2>1. Span(b, 2) = N * C * (s * H)
    BY <1>1, <1>2 DEF Span, Plane
  <2>2. N * C * (s * H) = N * C * H * s
    OBVIOUS
  <2> QED BY <2>1, <2>2, <1>3
<1>8. Width(b) = 2
  BY DEF TwoByte, Width, ElementBytes
<1>9. Place(b, e, j) = RowPlace(W, s, e, j)
  <2>1. Place(b, e, j) = PlanePlace(W, H, C, s, e) + (e % W) * 2 + j
    BY <1>1, <1>2, <1>8 DEF Place, Plane, PlanePlace
  <2>2. PlanePlace(W, H, C, s, e) = RowStart(W, s, e)
    <3>1. e \in Nat BY <1>4
    <3>2. /\ W \in Nat \ {0} /\ H \in Nat \ {0} /\ C \in Nat \ {0} /\ s \in Nat
      BY <1>1, <1>2
    <3> QED BY <3>1, <3>2, PlaneRows
  <2> QED BY <2>1, <2>2 DEF RowPlace, RowStart
<1>10. Offset(b, 2, e) + j = RowPlace(W, s, e, j)
  BY <1>1, <1>2 DEF Offset, RowPlace
<1> QED BY <1>5, <1>6, <1>7, <1>9, <1>10

LEMMA PlacesApart ==
  ASSUME NEW b, TwoByte(b),
         NEW e \in 0..(Interval(b).count - 1), NEW j \in {0, 1},
         NEW f \in 0..(Interval(b).count - 1), NEW i \in {0, 1}, At(b, e, j) = At(b, f, i)
  PROVE  e = f /\ j = i
<1>1. b.nchw \in [1..4 -> Nat \ {0}] /\ Interval(b).count \in Nat
  BY DEF TwoByte, Fits, Interval
<1>2. PICK w \in Nat \ {0}, s \in Nat \ {0} : w = b.nchw[4] /\ s = Stride(b, 2) /\ w * 2 <= s
  BY <1>1, StrideFacts
<1>3. RowPlace(w, s, e, j) = RowPlace(w, s, f, i)
  BY <1>2 DEF At
<1>4. e \in Nat /\ f \in Nat
  BY <1>1
<1> QED BY <1>2, <1>3, <1>4, RowsApart

(***************************************************************************)
(* The bytes themselves.                                                   *)
(***************************************************************************)
LEMMA HalfFacts ==
  ASSUME NEW n \in Nat, NEW k \in 0..(n * 2 - 1)
  PROVE  k \div 2 \in 0..(n - 1) /\ k % 2 \in {0, 1} /\ k = (k \div 2) * 2 + (k % 2)
OBVIOUS

(* A surface packed from the right bytes holds them where the layout says. *)
LEMMA PackHolds ==
  ASSUME NEW b, TwoByte(b), NEW dense, Exact(b, dense)
  PROVE  Holds(b, Pack(b, 2, dense, Pad))
<1> DEFINE elements == 0..((b.count * 2) \div 2 - 1)
           Source(k) == {e \in elements \X {0, 1} : Offset(b, 2, e[1]) + e[2] = k}
<1>1. elements = 0..(Interval(b).count - 1) /\ Width(b) = 2
  BY TwoByteFacts
<1>2. ASSUME NEW e \in 0..(Interval(b).count - 1), NEW j \in {0, 1}
      PROVE  Pack(b, 2, dense, Pad)[Place(b, e, j)] = <<b.tensor, (Interval(b).first + e) * 2 + j>>
  <2>1. PICK k : k = At(b, e, j)
    OBVIOUS
  <2>2. k \in 0..(Span(b, 2) - 1) /\ Place(b, e, j) = k
    BY <2>1, PlaceFacts
  <2>3. Source(k) = {<<e, j>>}
    <3>1. <<e, j>> \in Source(k)
      BY <2>1, <1>1, PlaceFacts
    <3>2. ASSUME NEW x \in Source(k) PROVE x = <<e, j>>
      <4>1. x[1] \in 0..(Interval(b).count - 1) /\ x[2] \in {0, 1} /\ x = <<x[1], x[2]>>
        <5>1. x \in elements \X {0, 1}
          OBVIOUS
        <5> HIDE DEF elements
        <5> QED BY <5>1, <1>1
      <4>2. At(b, x[1], x[2]) = k
        BY <4>1, PlaceFacts
      <4>3. x[1] = e /\ x[2] = j
        BY <4>1, <4>2, <2>1, PlacesApart
      <4> QED BY <4>1, <4>3
    <3> QED BY <3>1, <3>2
  <2>4. Pack(b, 2, dense, Pad)[k] = dense[2 * e + j]
    <3>1. PICK S : S = Source(k)
      OBVIOUS
    <3>2. PICK s : s = CHOOSE u \in S : \A t \in S : t[1] <= u[1]
      OBVIOUS
    <3>3. Pack(b, 2, dense, Pad)[k] = IF S = {} THEN Pad ELSE dense[2 * s[1] + s[2]]
      BY <2>2, <3>1, <3>2 DEF Pack
    <3> HIDE DEF Source
    <3>4. e \in Int /\ S = {<<e, j>>}
      BY <2>3, <3>1
    <3>5. \A t \in S : t[1] <= <<e, j>>[1]
      BY <3>4
    <3>6. s \in S
      BY <3>2, <3>4, <3>5
    <3>7. s = <<e, j>> /\ S # {}
      BY <3>4, <3>6
    <3> QED BY <3>3, <3>7
  <2>5. 2 * e + j \in 0..(Interval(b).count * 2 - 1)
    BY TwoByteFacts
  <2>6. dense[2 * e + j] = <<b.tensor, Interval(b).first * 2 + (2 * e + j)>>
    BY <2>5 DEF Exact
  <2>7. Interval(b).first * 2 + (2 * e + j) = (Interval(b).first + e) * 2 + j
    BY TwoByteFacts
  <2> QED BY <2>2, <2>4, <2>6, <2>7
<1>3. \A e \in 0..(Interval(b).count - 1) : \A j \in 0..(Width(b) - 1) :
        Pack(b, 2, dense, Pad)[Place(b, e, j)] = <<b.tensor, (Interval(b).first + e) * Width(b) + j>>
  <2> SUFFICES ASSUME NEW e \in 0..(Interval(b).count - 1), NEW j \in 0..(Width(b) - 1)
               PROVE  Pack(b, 2, dense, Pad)[Place(b, e, j)] = <<b.tensor, (Interval(b).first + e) * Width(b) + j>>
    OBVIOUS
  <2>1. j \in {0, 1}
    BY <1>1
  <2> QED BY <1>1, <1>2, <2>1
<1> QED BY <1>3 DEF Holds

LEMMA SliceExact ==
  ASSUME NEW b, TwoByte(b)
  PROVE  Exact(b, DenseSlice(b))
<1>1. PICK first \in Nat, count \in Nat, elements \in Nat :
        /\ first = Interval(b).first /\ count = Interval(b).count /\ elements = Tensor(b.tensor).elements
        /\ first + count <= elements
  <2>1. Interval(b).first + Interval(b).count <= Tensor(b.tensor).elements
    BY TwoByteFacts
  <2> QED BY <2>1, TwoByteFacts DEF TwoByte, Fits, Tensor
<1> SUFFICES ASSUME NEW k \in 0..(count * 2 - 1)
             PROVE  DenseSlice(b)[k] = <<b.tensor, first * 2 + k>>
  BY <1>1 DEF Exact
<1>2. first * 2 + k \in 0..(elements * 2 - 1)
  BY <1>1
<1>3. Dense(b.tensor) = [m \in 0..(elements * 2 - 1) |-> <<b.tensor, m>>]
  BY <1>1 DEF Dense, TwoByte, ElementBytes
<1>4. DenseSlice(b)[k] = Dense(b.tensor)[first * 2 + k]
  <2>1. first * 2 + k \in DOMAIN Dense(b.tensor)
    BY <1>2, <1>3
  <2> QED BY <1>1, <2>1 DEF DenseSlice
<1> QED BY <1>2, <1>3, <1>4

LEMMA PayloadExact ==
  ASSUME NEW b, TwoByte(b)
  PROVE  Exact(b, Payload(b))
BY TwoByteFacts DEF Exact, Payload

(* What a program leaves, read back, when its own surfaces were right.     *)
LEMMA WrittenExact ==
  ASSUME NEW program, TwoByte(program.output), Right(program)
  PROVE  Exact(program.output, Unpack(program.output, 2, Written(program), Pad))
<1>1. PICK b : b = program.output
  OBVIOUS
<1>2. TwoByte(b) /\ Width(b) = 2
  BY <1>1, TwoByteFacts
<1> SUFFICES ASSUME NEW k \in 0..(Interval(b).count * 2 - 1)
             PROVE  Unpack(b, 2, Written(program), Pad)[k] = <<b.tensor, Interval(b).first * 2 + k>>
  BY <1>1 DEF Exact
<1>3. PICK e \in 0..(Interval(b).count - 1), j \in {0, 1} : e = k \div 2 /\ j = k % 2 /\ k = e * 2 + j
  <2>1. Interval(b).count \in Nat
    BY <1>2, TwoByteFacts
  <2>2. k \div 2 \in 0..(Interval(b).count - 1) /\ k % 2 \in {0, 1} /\ k = (k \div 2) * 2 + (k % 2)
    BY <2>1, HalfFacts
  <2> QED BY <2>2
<1>4. Unpack(b, 2, Written(program), Pad)[k] = Written(program)[Offset(b, 2, e) + j]
  <2>1. /\ b.count = Interval(b).count /\ (b.count * 2) \div 2 = Interval(b).count /\ Interval(b).count \in Nat
    BY <1>2, TwoByteFacts
  <2>2. k \in 0..(b.count * 2 - 1) /\ k \div 2 < (b.count * 2) \div 2
    BY <1>3, <2>1
  <2> QED BY <1>3, <2>2 DEF Unpack
<1>5. PICK at : at = At(b, e, j)
  OBVIOUS
<1>6. at \in 0..(Span(b, 2) - 1) /\ Offset(b, 2, e) + j = at
  BY <1>2, <1>5, PlaceFacts
<1> DEFINE Hit(m) == {x \in (0..(Interval(b).count - 1)) \X (0..(Width(b) - 1)) : Place(b, x[1], x[2]) = m}
<1>7. Hit(at) = {<<e, j>>}
  <2>1. 0..(Width(b) - 1) = {0, 1}
    BY <1>2
  <2>2. <<e, j>> \in Hit(at)
    BY <1>2, <1>5, <2>1, PlaceFacts
  <2>3. ASSUME NEW x \in Hit(at) PROVE x = <<e, j>>
    <3>1. x[1] \in 0..(Interval(b).count - 1) /\ x[2] \in {0, 1} /\ x = <<x[1], x[2]>>
      BY <2>1
    <3>2. At(b, x[1], x[2]) = at
      BY <1>2, <3>1, PlaceFacts
    <3>3. x[1] = e /\ x[2] = j
      BY <1>2, <1>5, <3>1, <3>2, PlacesApart
    <3> QED BY <3>1, <3>3
  <2> QED BY <2>2, <2>3
<1>8. Written(program)[at] = <<b.tensor, (Interval(b).first + e) * 2 + j>>
  <2>1. Written(program)[at] =
          IF Hit(at) = {} THEN Garbage
          ELSE LET x == CHOOSE x \in Hit(at) : TRUE
               IN IF Right(program) THEN <<b.tensor, (Interval(b).first + x[1]) * Width(b) + x[2]>> ELSE Garbage
    BY <1>1, <1>2, <1>6 DEF Written
  <2>2. PICK x : x = CHOOSE y \in Hit(at) : TRUE
    OBVIOUS
  <2>3. x = <<e, j>> /\ Hit(at) # {}
    BY <1>7, <2>2
  <2> HIDE DEF Hit
  <2>4. Written(program)[at] = <<b.tensor, (Interval(b).first + x[1]) * Width(b) + x[2]>>
    BY <2>1, <2>2, <2>3
  <2>5. x[1] = e /\ x[2] = j
    BY <2>3
  <2> QED BY <2>4, <2>5, <1>2
<1>9. (Interval(b).first + e) * 2 + j = Interval(b).first * 2 + k
  BY <1>2, <1>3, TwoByteFacts
<1> QED BY <1>4, <1>6, <1>8, <1>9

(***************************************************************************)
(* Every region holds what its program was to compute.                     *)
(***************************************************************************)
TwoByteTensors == \A name \in DOMAIN package.tensors : ~Tensor(name).bool

ExactRegions == phase \in Going /\ TwoByteTensors => \A j \in DOMAIN regions : ExactRegion(regions[j])

LEMMA BindingTwoByte ==
  ASSUME Accepted(package), TwoByteTensors, NEW n \in Indices(package)
  PROVE  /\ TwoByte(package.programs[n].output)
         /\ \A k \in DOMAIN package.programs[n].inputs : TwoByte(package.programs[n].inputs[k])
<1>1. \A b : Fits(package, b) => TwoByte(b)
  <2> SUFFICES ASSUME NEW b, Fits(package, b) PROVE TwoByte(b)
    OBVIOUS
  <2>1. b.tensor \in DOMAIN package.tensors
    BY DEF Fits
  <2>2. Tensor(b.tensor).bool \in BOOLEAN /\ ~Tensor(b.tensor).bool
    BY <2>1, TensorFacts DEF TwoByteTensors, Tensor
  <2> QED BY <2>2 DEF TwoByte
<1> QED BY <1>1, ProgramFacts

LEMMA RightHolds ==
  ASSUME Place0, Stored, phase = "run", TwoByteTensors, \A j \in DOMAIN regions : ExactRegion(regions[j]),
         \A k \in DOMAIN Current.inputs : Composable(Current.inputs[k])
  PROVE  Right(Current)
<1>1. Accepted(package)
  BY GoingAccepted DEF Going
<1>2. PICK n \in Indices(package) : Current = package.programs[n]
  BY CurrentFacts
<1> SUFFICES ASSUME NEW k \in DOMAIN Current.inputs
             PROVE  Holds(Current.inputs[k], Composed(Current.inputs[k]))
  BY DEF Right
<1>3. PICK b : b = Current.inputs[k]
  OBVIOUS
<1>4. TwoByte(b) /\ Composable(b) /\ Width(b) = 2
  BY <1>1, <1>2, <1>3, BindingTwoByte, TwoByteFacts
<1>5. PICK dense : dense = DenseOf(b)
  OBVIOUS
<1>6. Exact(b, dense)
  <2>1. CASE b.constant
    BY <1>4, <1>5, <2>1, PayloadExact DEF DenseOf
  <2>2. CASE ~b.constant /\ Tensor(b.tensor).role = "intermediate"
    <3>1. Covered(b)
      BY <1>4, <2>2 DEF Composable
    <3>2. ASSUME NEW j \in DOMAIN regions PROVE Sound(b, regions[j], TRUE)
      BY DEF Sound, ExactRegion
    <3>3. Listed(regions)
      BY DEF Stored, Going
    <3>4. Exact(b, Intermediate(b))
      BY <1>4, <3>1, <3>2, <3>3, IntermediateTwoByte
    <3> QED BY <1>5, <2>2, <3>4 DEF DenseOf
  <2>3. CASE ~b.constant /\ Tensor(b.tensor).role # "intermediate"
    BY <1>4, <1>5, <2>3, SliceExact DEF DenseOf
  <2> QED BY <2>1, <2>2, <2>3
<1>7. Composed(b) = Pack(b, 2, dense, Pad)
  BY <1>4, <1>5 DEF Composed
<1> QED BY <1>3, <1>4, <1>6, <1>7, PackHolds

LEMMA ExactUnchanged ==
  ASSUME package' = package, NEW r
  PROVE  ExactRegion(r)' <=> ExactRegion(r)
BY DEF ExactRegion, TwoByte, Exact, Interval, Tensor, Pad

LEMMA TwoByteUnchanged ==
  ASSUME package' = package
  PROVE  TwoByteTensors' <=> TwoByteTensors
BY DEF TwoByteTensors, Tensor

LEMMA ExactStep ==
  ASSUME Place0, Stored, ExactRegions, [Next]_vars
  PROVE  ExactRegions'
<1>1. CASE RunProgram
  <2>1. SUFFICES ASSUME TwoByteTensors, NEW j \in DOMAIN regions' PROVE ExactRegion(regions'[j])
    BY <1>1, ExactUnchanged, TwoByteUnchanged DEF ExactRegions, RunProgram
  <2>2. phase = "run" /\ phase \in Going
    BY <1>1 DEF RunProgram, Going
  <2>3. \A i \in DOMAIN regions : ExactRegion(regions[i])
    BY <2>1, <2>2 DEF ExactRegions
  <2>4. PICK r : r = [binding |-> Current.output, surface |-> Written(Current)]
    OBVIOUS
  <2>5. PICK n \in Nat : n = Len(regions) /\ DOMAIN regions = 1..n
    BY <2>2, ListedFacts DEF Stored
  <2>6. /\ DOMAIN regions' = 1..(n + 1) /\ regions'[n + 1] = r
        /\ \A i \in 1..n : regions'[i] = regions[i]
    <3>1. Listed(regions) /\ regions' = Append(regions, r)
      BY <1>1, <2>2, <2>4 DEF RunProgram, Stored
    <3> QED BY <2>5, <3>1, ListedAppend, ListedFacts
  <2>7. CASE j = n + 1
    <3>1. Right(Current)
      BY <1>1, <2>1, <2>2, <2>3, RightHolds DEF RunProgram
    <3>2. TwoByte(Current.output)
      BY <2>1, <2>2, GoingAccepted, CurrentFacts, BindingTwoByte
    <3>3. Exact(Current.output, Unpack(Current.output, 2, Written(Current), Pad))
      BY <3>1, <3>2, WrittenExact
    <3>4. r.binding = Current.output /\ r.surface = Written(Current)
      BY <2>4
    <3>5. ExactRegion(r)
      BY <3>2, <3>3, <3>4 DEF ExactRegion
    <3> QED BY <2>6, <2>7, <3>5
  <2>8. CASE j # n + 1
    <3>1. j \in 1..n
      BY <2>6, <2>8
    <3> QED BY <2>3, <2>5, <2>6, <3>1
  <2> QED BY <2>7, <2>8
<1>2. CASE Load
  BY <1>2 DEF Load, ExactRegions, Place0
<1>3. CASE ComposeFails \/ UnpackFails
  BY <1>3 DEF ComposeFails, UnpackFails, ExactRegions, Going
<1>4. CASE UnpackOutputs
  <2>1. package' = package /\ regions' = regions /\ phase \in Going
    BY <1>4 DEF UnpackOutputs, Going
  <2> QED BY <2>1, ExactUnchanged, TwoByteUnchanged DEF ExactRegions
<1>5. CASE UNCHANGED vars
  <2>1. package' = package /\ regions' = regions /\ phase' = phase
    BY <1>5 DEF vars
  <2> QED BY <2>1, ExactUnchanged, TwoByteUnchanged DEF ExactRegions
<1> QED BY <1>1, <1>2, <1>3, <1>4, <1>5 DEF Next, Done

(***************************************************************************)
(* An output taken apart.                                                  *)
(***************************************************************************)
(* The bytes of a tensor in a row, those in a set already its own.         *)
Laid(target, size, data, there) ==
  /\ Listed(data) /\ Len(data) = size
  /\ \A k \in there : k < size => data[k + 1] = <<target, k>>

RegionBytes(r) ==
  {k \in Nat : Interval(r.binding).first * 2 <= k /\ k < End(Interval(r.binding)) * 2}

LEMMA RestoredLaid ==
  ASSUME NEW r, ExactRegion(r), NEW size \in Nat, size = Tensor(r.binding.tensor).elements * 2,
         NEW there \in SUBSET Nat, NEW data, Laid(r.binding.tensor, size, data, there)
  PROVE  Laid(r.binding.tensor, size, Restored(r, data), there \cup RegionBytes(r))
<1>1. PICK target : target = r.binding.tensor
  OBVIOUS
<1>2. TwoByte(r.binding)
  BY DEF ExactRegion
<1>3. PICK first \in Nat, count \in Nat, elements \in Nat :
        /\ first = Interval(r.binding).first /\ count = Interval(r.binding).count
        /\ elements = Tensor(target).elements /\ first + count <= elements
  <2>1. Interval(r.binding).first + Interval(r.binding).count <= Tensor(target).elements
    BY <1>1, <1>2, TwoByteFacts
  <2> QED BY <1>1, <1>2, <2>1, TwoByteFacts DEF TwoByte, Fits, Tensor
<1>4. PICK from \in Nat, to \in Nat, length \in Nat :
        from = first * 2 /\ length = count * 2 /\ to = (first + count) * 2 /\ to = from + length /\ to <= size
  <2>1. size = elements * 2
    BY <1>1, <1>3
  <2>2. first * 2 + count * 2 = (first + count) * 2 /\ (first + count) * 2 <= elements * 2
    BY <1>3
  <2>3. first * 2 \in Nat /\ count * 2 \in Nat /\ (first + count) * 2 \in Nat
    OBVIOUS
  <2> QED BY <2>1, <2>2, <2>3
<1>5. PICK read : read = Unpack(r.binding, 2, r.surface, Pad)
  OBVIOUS
<1>6. PICK values : values = [k \in 1..length |-> read[k - 1]]
  OBVIOUS
<1>7. Listed(values) /\ Len(values) = length
  <2> DEFINE S == {read[k - 1] : k \in 1..length}
  <2>1. values \in [1..length -> S]
    BY <1>6
  <2> HIDE DEF S
  <2>2. values \in Seq(S)
    BY <2>1, SeqDef
  <2>3. Len(values) = length
    BY <2>1, <2>2, LenProperties
  <2> QED BY <2>2, <2>3 DEF Listed
<1>8. PICK result : result = Assign(data, from, to, values)
  OBVIOUS
<1>9. Restored(r, data) = result
  <2>1. Width(r.binding) = 2
    BY <1>2, TwoByteFacts
  <2> QED BY <2>1, <1>3, <1>4, <1>5, <1>6, <1>8 DEF Restored, End
<1>10. Listed(data) /\ Len(data) = size
  BY DEF Laid
<1>11. Replaced(data, from, to, values, result)
  BY <1>4, <1>7, <1>8, <1>10, AssignInside
<1>12. Listed(result) /\ Len(result) = size
  BY <1>10, <1>11 DEF Replaced
<1>13. ASSUME NEW k \in there \cup RegionBytes(r), k < size
       PROVE  result[k + 1] = <<target, k>>
  <2>1. k \in Nat
    BY DEF RegionBytes
  <2>2. CASE from <= k /\ k < to
    <3>1. PICK i \in Nat : i = k - from /\ i + 1 \in 1..length /\ i \in 0..(count * 2 - 1) /\ k = from + i
      BY <1>4, <2>1, <2>2
    <3>2. Exact(r.binding, read)
      BY <1>5 DEF ExactRegion
    <3>3. read[i] = <<target, k>>
      BY <3>1, <3>2, <1>1, <1>3, <1>4 DEF Exact
    <3>4. values[i + 1] = read[i]
      <4>1. (i + 1) - 1 = i
        BY <3>1
      <4> QED BY <4>1, <3>1, <1>6
    <3>5. result[from + (i + 1)] = values[i + 1]
      BY <3>1, <1>7, <1>11 DEF Replaced
    <3>6. from + (i + 1) = k + 1
      BY <3>1
    <3> QED BY <3>3, <3>4, <3>5, <3>6
  <2>3. CASE ~(from <= k /\ k < to)
    <3>1. k \in there
      BY <2>3, <1>3, <1>4 DEF RegionBytes, End
    <3>2. data[k + 1] = <<target, k>>
      BY <3>1, <1>1, <1>13 DEF Laid
    <3>3. k + 1 \in 1..size /\ (k + 1 <= from \/ to < k + 1)
      BY <2>1, <2>3, <1>13
    <3> QED BY <3>2, <3>3, <1>10, <1>11 DEF Replaced
  <2> QED BY <2>2, <2>3
<1> QED BY <1>1, <1>9, <1>12, <1>13 DEF Laid

Restoring(name, r, before) == IF r.binding.tensor = Target(name) THEN Restored(r, before) ELSE before

Unpacking(name, after) ==
  after = [j \in 0..Len(regions) |->
             IF j = 0 THEN Zeros(LogicalBytes(Target(name))) ELSE Restoring(name, regions[j], after[j - 1])]

LEMMA UnpackedFacts ==
  ASSUME NEW name, Len(regions) \in Nat
  PROVE  \E after : Unpacking(name, after) /\ Unpacked(name) = ByOffset(after[Len(regions)])
<1> DEFINE Upto(n, after) ==
             after = [j \in 0..n |-> IF j = 0 THEN Zeros(LogicalBytes(Target(name)))
                                     ELSE Restoring(name, regions[j], after[j - 1])]
           Missing == {n \in Nat : ~ \E after : Upto(n, after)}
<1>1. \E after : Upto(Len(regions), after)
  <2>1. SUFFICES ASSUME Len(regions) \in Missing PROVE FALSE
    OBVIOUS
  <2>2. PICK n \in Missing : \A j \in Missing : n <= j
    <3>1. Missing \in SUBSET Nat OBVIOUS
    <3> HIDE DEF Missing
    <3> QED BY <2>1, <3>1, Least
  <2>3. n # 0
    <3>1. Upto(0, [j \in 0..0 |-> Zeros(LogicalBytes(Target(name)))])
      OBVIOUS
    <3> QED BY <3>1, <2>2
  <2>4. PICK after : Upto(n - 1, after)
    <3>1. n - 1 \in Nat /\ n - 1 \notin Missing
      <4> HIDE DEF Missing
      <4>1. n \in Nat
        BY <2>2 DEF Missing
      <4>2. n - 1 \in Nat /\ ~(n <= n - 1)
        BY <4>1, <2>3
      <4> QED BY <4>2, <2>2
    <3> QED BY <3>1
  <2> DEFINE more == [j \in 0..n |-> IF j = n THEN Restoring(name, regions[n], after[n - 1]) ELSE after[j]]
  <2>5. Upto(n, more)
    <3>1. n \in Nat BY <2>2
    <3>2. ASSUME NEW j \in 0..n
          PROVE  more[j] = IF j = 0 THEN Zeros(LogicalBytes(Target(name)))
                           ELSE Restoring(name, regions[j], more[j - 1])
      <4>1. CASE j = n
        <5>1. more[j] = Restoring(name, regions[n], after[n - 1]) /\ more[j - 1] = after[n - 1]
          BY <4>1, <3>1, <2>3
        <5> QED BY <5>1, <4>1, <2>3
      <4>2. CASE j # n
        <5>1. j \in 0..(n - 1) BY <4>2, <3>1
        <5>2. more[j] = after[j] BY <4>2
        <5>3. after[j] = IF j = 0 THEN Zeros(LogicalBytes(Target(name)))
                         ELSE Restoring(name, regions[j], after[j - 1])
          BY <2>4, <5>1
        <5>4. j # 0 => more[j - 1] = after[j - 1]
          BY <5>1, <3>1
        <5> QED BY <5>2, <5>3, <5>4
      <4> QED BY <4>1, <4>2
    <3> QED BY <3>2
  <2> QED BY <2>5, <2>2
<1>2. PICK after : after = CHOOSE f : Upto(Len(regions), f)
  OBVIOUS
<1>3. Upto(Len(regions), after)
  BY <1>1, <1>2
<1>4. Unpacked(name) = ByOffset(after[Len(regions)])
  BY <1>2 DEF Unpacked, Restoring
<1> QED BY <1>3, <1>4 DEF Unpacking

LEMMA UnpackingFacts ==
  ASSUME NEW name, NEW n \in Nat, n = Len(regions), NEW after, Unpacking(name, after)
  PROVE  /\ after[0] = Zeros(LogicalBytes(Target(name)))
         /\ \A j \in 1..n : after[j] = Restoring(name, regions[j], after[j - 1])
<1>1. ASSUME NEW j \in 1..n PROVE after[j] = Restoring(name, regions[j], after[j - 1])
  <2>1. j \in 0..n /\ j # 0
    OBVIOUS
  <2> QED BY <2>1 DEF Unpacking
<1> QED BY <1>1 DEF Unpacking

LEMMA UnpackedExact ==
  ASSUME Accepted(package), TwoByteTensors, Listed(regions), \A j \in DOMAIN regions : ExactRegion(regions[j]),
         NEW name \in Outputs, AllWritten(name)
  PROVE  Unpacked(name) = Dense(Target(name))
<1>1. PICK target : target = Target(name)
  OBVIOUS
<1>2. target \in DOMAIN package.tensors
  BY <1>1, TargetFacts
<1>3. PICK elements \in Nat, size \in Nat :
        /\ elements = Tensor(target).elements /\ size = elements * 2 /\ size = LogicalBytes(target)
        /\ Dense(target) = [k \in 0..(size - 1) |-> <<target, k>>] /\ size \div 2 = elements
  <2>1. ElementBytes(Tensor(target)) = 2 /\ Tensor(target).elements \in Nat
    BY <1>2, TensorFacts DEF TwoByteTensors, Tensor, ElementBytes
  <2> QED BY <2>1 DEF LogicalBytes, Dense
<1>4. PICK n \in Nat : n = Len(regions) /\ DOMAIN regions = 1..n
  BY ListedFacts
<1>5. PICK after : Unpacking(name, after) /\ Unpacked(name) = ByOffset(after[n])
  BY <1>4, UnpackedFacts
<1>6. after[0] = Zeros(size) /\ \A j \in 1..n : after[j] = Restoring(name, regions[j], after[j - 1])
  <2>1. /\ after[0] = Zeros(LogicalBytes(Target(name)))
        /\ \A j \in 1..n : after[j] = Restoring(name, regions[j], after[j - 1])
    BY <1>4, <1>5, UnpackingFacts
  <2> QED BY <2>1, <1>1, <1>3
<1> DEFINE Seen(j) == {k \in Nat : \E i \in 1..n : i <= j /\ regions[i].binding.tensor = target
                                                /\ k \in RegionBytes(regions[i])}
           Bad == {j \in Nat : j <= n /\ ~Laid(target, size, after[j], Seen(j))}
<1>7. Bad = {}
  <2>1. SUFFICES ASSUME Bad # {} PROVE FALSE
    OBVIOUS
  <2>2. PICK j \in Bad : \A m \in Bad : j <= m
    <3>1. Bad \in SUBSET Nat OBVIOUS
    <3> HIDE DEF Bad
    <3> QED BY <2>1, <3>1, Least
  <2>3. j # 0
    <3>1. Seen(0) = {}
      OBVIOUS
    <3>2. Listed(after[0]) /\ Len(after[0]) = size
      BY <1>6, ZerosFacts
    <3> HIDE DEF Seen
    <3>3. Laid(target, size, after[0], Seen(0))
      BY <3>1, <3>2 DEF Laid
    <3> QED BY <3>3, <2>2
  <2>4. PICK i \in Nat : i = j - 1 /\ j \in 1..n /\ i <= n
    BY <2>2, <2>3
  <2>5. Laid(target, size, after[i], Seen(i))
    <3>1. i \notin Bad
      <4>1. ~(j <= i)
        BY <2>4
      <4> HIDE DEF Bad
      <4> QED BY <4>1, <2>2
    <3> HIDE DEF Seen
    <3> QED BY <3>1, <2>4
  <2>6. after[j] = Restoring(name, regions[j], after[i])
    BY <1>6, <2>4
  <2>7. \A m \in 1..n : m <= j <=> m <= i \/ m = j
    BY <2>4
  <2>8. CASE regions[j].binding.tensor = target
    <3>1. after[j] = Restored(regions[j], after[i])
      BY <1>1, <2>6, <2>8 DEF Restoring
    <3>2. Seen(j) = Seen(i) \cup RegionBytes(regions[j])
      BY <2>4, <2>7, <2>8 DEF RegionBytes
    <3>3. Seen(i) \in SUBSET Nat
      OBVIOUS
    <3> HIDE DEF Seen
    <3>4. ExactRegion(regions[j]) /\ size = Tensor(regions[j].binding.tensor).elements * 2
      BY <1>3, <1>4, <2>4, <2>8
    <3>5. Laid(target, size, after[j], Seen(j))
      BY <3>1, <3>2, <3>3, <3>4, <2>5, <2>8, RestoredLaid
    <3> QED BY <3>5, <2>2
  <2>9. CASE regions[j].binding.tensor # target
    <3>1. after[j] = after[i]
      BY <1>1, <2>6, <2>9 DEF Restoring
    <3>2. Seen(j) = Seen(i)
      BY <2>4, <2>7, <2>9
    <3> HIDE DEF Seen
    <3> QED BY <3>1, <3>2, <2>2, <2>5
  <2> QED BY <2>8, <2>9
<1>8. Laid(target, size, after[n], Seen(n))
  <2> HIDE DEF Seen
  <2> QED BY <1>7
<1>9. ASSUME NEW k \in 0..(size - 1) PROVE after[n][k + 1] = <<target, k>>
  <2>1. PICK e \in 0..(elements - 1), i \in {0, 1} : k = e * 2 + i
    <3>1. k \div 2 \in 0..(elements - 1) /\ k % 2 \in {0, 1} /\ k = (k \div 2) * 2 + (k % 2)
      BY <1>3, HalfFacts
    <3> QED BY <3>1
  <2>2. PICK r \in Writers(name, e) : TRUE
    BY <1>1, <1>3, <2>1 DEF AllWritten
  <2>3. /\ r \in RegionsOf(target) /\ Interval(r.binding).first <= e /\ e < End(Interval(r.binding))
    BY <1>1, <2>2 DEF Writers
  <2>4. PICK j \in 1..n : regions[j] = r /\ r.binding.tensor = target
    BY <1>4, <2>3 DEF RegionsOf
  <2>5. k \in RegionBytes(r)
    <3>1. PICK first \in Nat, count \in Nat : first = Interval(r.binding).first /\ count = Interval(r.binding).count
      BY <1>4, <2>4, TwoByteFacts DEF ExactRegion
    <3>2. first <= e /\ e < first + count
      BY <2>3, <3>1 DEF End
    <3>3. k \in Nat /\ first * 2 <= k /\ k < (first + count) * 2
      BY <2>1, <3>2
    <3> QED BY <3>1, <3>3 DEF RegionBytes, End
  <2>6. k \in Nat /\ k < size
    BY <1>3
  <2>7. k \in Seen(n)
    <3>1. j \in 1..n /\ j <= n
      BY <1>3, <2>4
    <3> QED BY <2>4, <2>5, <2>6, <3>1
  <2> HIDE DEF Seen
  <2> QED BY <2>6, <2>7, <1>8 DEF Laid
<1>10. DOMAIN Unpacked(name) = 0..(size - 1) /\ \A k \in 0..(size - 1) : Unpacked(name)[k] = after[n][k + 1]
  BY <1>5, <1>8 DEF Laid, ByOffset
<1>11. Unpacked(name) = [k \in 0..(size - 1) |-> <<target, k>>]
  BY <1>5, <1>8, <1>9, <1>10 DEF ByOffset, Laid
<1> QED BY <1>1, <1>3, <1>11

LEMMA BytesStep ==
  ASSUME Place0, Stored, ExactRegions, BytesExact, [Next]_vars
  PROVE  BytesExact'
<1>1. CASE UnpackOutputs
  <2>1. /\ phase \in Going /\ package' = package /\ actual' = [name \in Outputs |-> Unpacked(name)]
        /\ \A name \in Outputs : AllWritten(name)
    BY <1>1 DEF UnpackOutputs, Going
  <2>2. Accepted(package)
    BY <2>1, GoingAccepted
  <2>3. TwoByteTensors => \A name \in Outputs : actual'[name] = Dense(Target(name))
    BY <2>1, <2>2, UnpackedExact DEF ExactRegions, Stored
  <2>4. Outputs' = Outputs /\ \A name : Dense(Target(name))' = Dense(Target(name))
    BY <2>1 DEF Outputs, Target, Tensor, Dense
  <2> QED BY <2>1, <2>3, <2>4, TwoByteUnchanged DEF BytesExact, TwoByteTensors
<1>2. CASE Load \/ RunProgram \/ ComposeFails \/ UnpackFails
  BY <1>2 DEF Load, RunProgram, ComposeFails, UnpackFails, BytesExact
<1>3. CASE UNCHANGED vars
  BY <1>3 DEF vars, BytesExact, Outputs, Target, Tensor, Dense
<1> QED BY <1>1, <1>2, <1>3 DEF Next, Done

DataInv == ExactRegions /\ BytesExact /\ Ended

THEOREM RunData == Spec => [](RunInv /\ DataInv)
<1>1. Init => RunInv /\ DataInv
  BY InitRun DEF RunInv, DataInv, Init, RaisesExplained, ExactRegions, BytesExact, Ended, Going
<1>2. RunInv /\ DataInv /\ [Next]_vars => RunInv' /\ DataInv'
  BY PlaceStep, StoredStep, RaisedStep, ExactStep, BytesStep, EndedStep DEF RunInv, DataInv
<1> QED BY <1>1, <1>2, PTL DEF Spec

THEOREM OutputsAreExact == Spec => []OutputsExact
<1>1. RunInv /\ DataInv => OutputsExact
  BY ChunkedHolds DEF RunInv, DataInv, OutputsExact
<1> QED BY <1>1, RunData, PTL
=============================================================================
