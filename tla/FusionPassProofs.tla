---------------------------- MODULE FusionPassProofs ----------------------------
(***************************************************************************)
(* On every graph: the regions of the fusion pass are the components of    *)
(* the fusible edges or single nodes, they are convex, and a component is  *)
(* split exactly when its live values do not fit.                          *)
(***************************************************************************)
EXTENDS FusionPass, FiniteSetTheorems, WellFoundedInduction, TLAPS

(* A nonempty set of numbers has a least one.                              *)
LEMMA Least ==
  ASSUME NEW T \in SUBSET Nat, T # {}
  PROVE  \E x \in T : \A y \in T : x <= y
<1> DEFINE R == {ss \in Nat \X Nat : ss[1] < ss[2]}
<1>1. IsWellFoundedOn(R, Nat)
  BY NatLessThanWellFounded DEF OpToRel
<1>2. \E x \in T : \A y \in T : ~ (<<y, x>> \in R)
  <2> HIDE DEF R
  <2> QED
    BY <1>1, WFMin
<1>3. PICK x \in T : \A y \in T : ~ (<<y, x>> \in R)
  BY <1>2
<1>4. \A y \in T : ~ (y < x)
  BY <1>3
<1> QED
  BY <1>4

(* A set that holds 0 and the successor of each number below n.            *)
LEMMA Climb ==
  ASSUME NEW n \in Nat, NEW T, 0 \in T,
         \A k \in 1 .. n : k - 1 \in T => k \in T
  PROVE  \A k \in 0 .. n : k \in T
<1> DEFINE Bad == {k \in 0 .. n : k \notin T}
<1>1. ASSUME Bad # {} PROVE FALSE
  <2>1. Bad \in SUBSET Nat
    OBVIOUS
  <2>2. PICK k \in Bad : \A j \in Bad : k <= j
    <3> HIDE DEF Bad
    <3> QED BY <1>1, <2>1, Least
  <2>3. k \in 1 .. n /\ k - 1 \in 0 .. n /\ ~ k <= k - 1
    BY <2>2
  <2>4. k - 1 \in T
    BY <2>2, <2>3
  <2> QED BY <2>2, <2>3, <2>4
<1> QED BY <1>1

(* A recursion over 0 .. n has a solution.                                 *)
Iterates(f, S, base, step, m) ==
  /\ f \in [0 .. m -> S] /\ f[0] = base
  /\ \A k \in 1 .. m : f[k] = step[<<f[k - 1], k>>]

LEMMA Iterate ==
  ASSUME NEW n \in Nat, NEW S, NEW base \in S, NEW step \in [S \X (1 .. n) -> S]
  PROVE  \E f : Iterates(f, S, base, step, n)
<1> DEFINE T == {m \in 0 .. n : \E f : Iterates(f, S, base, step, m)}
<1>1. 0 \in T
  <2> DEFINE f == [k \in 0 .. 0 |-> base]
  <2>1. f \in [0 .. 0 -> S] /\ f[0] = base
    OBVIOUS
  <2>2. Iterates(f, S, base, step, 0)
    <3> HIDE DEF f
    <3> QED BY <2>1 DEF Iterates
  <2> QED BY <2>2
<1>2. ASSUME NEW k \in 1 .. n, k - 1 \in T PROVE k \in T
  <2>1. PICK f : Iterates(f, S, base, step, k - 1)
    BY <1>2
  <2>2. /\ f \in [0 .. k - 1 -> S] /\ f[0] = base
        /\ \A j \in 1 .. k - 1 : f[j] = step[<<f[j - 1], j>>]
    BY <2>1 DEF Iterates
  <2>3. f[k - 1] \in S
    BY <2>2
  <2> DEFINE next == step[<<f[k - 1], k>>]
             h == [j \in 0 .. k |-> IF j = k THEN next ELSE f[j]]
  <2>4. next \in S
    BY <2>3
  <2>5. \A j \in 0 .. k : (j # k => j \in 0 .. k - 1)
    OBVIOUS
  <2>6. h \in [0 .. k -> S]
    <3>1. \A j \in 0 .. k : (IF j = k THEN next ELSE f[j]) \in S
      <4> HIDE DEF next
      <4> QED BY <2>2, <2>4, <2>5
    <3> QED BY <3>1
  <2>7. \A j \in 0 .. k : h[j] = IF j = k THEN next ELSE f[j]
    OBVIOUS
  <2> HIDE DEF h
  <2>8. h[0] = base /\ h[k] = next /\ h[k - 1] = f[k - 1]
    BY <2>2, <2>7
  <2>9. \A j \in 1 .. k : h[j] = step[<<h[j - 1], j>>]
    <3> SUFFICES ASSUME NEW j \in 1 .. k PROVE h[j] = step[<<h[j - 1], j>>]
      OBVIOUS
    <3>1. CASE j = k
      BY <3>1, <2>8
    <3>2. CASE j # k
      <4>1. j \in 1 .. k - 1 /\ j - 1 \in 0 .. k /\ j - 1 # k /\ j \in 0 .. k
        BY <3>2
      <4>2. h[j] = f[j] /\ h[j - 1] = f[j - 1]
        BY <4>1, <3>2, <2>7
      <4> QED BY <4>1, <4>2, <2>2
    <3> QED BY <3>1, <3>2
  <2>10. Iterates(h, S, base, step, k)
    BY <2>6, <2>8, <2>9 DEF Iterates
  <2> QED BY <2>10
<1>3. \A k \in 0 .. n : k \in T
  <2> HIDE DEF T
  <2> QED BY <1>1, <1>2, Climb
<1> QED BY <1>3

--------------------------------------------------------------------------------
(* The union-find forest: parents are numbered no higher than their        *)
(* children, so every path ends at a root.                                 *)

Forest(p) ==
  /\ DOMAIN p \subseteq Nat
  /\ p \in [DOMAIN p -> DOMAIN p]
  /\ \A k \in DOMAIN p : p[k] <= k

(* The nodes on the way up from v, as the least set that holds them.       *)
Up(p, v) ==
  {u \in DOMAIN p : \A T \in SUBSET (DOMAIN p) :
     v \in T /\ (\A i \in T : p[i] \in T) => u \in T}

LEMMA UpStep ==
  ASSUME NEW p, Forest(p), NEW v \in DOMAIN p
  PROVE  /\ p[v] = v => Up(p, v) = {v}
         /\ p[v] # v => Up(p, v) = {v} \cup Up(p, p[v])
<1> DEFINE closed(T) == \A i \in T : p[i] \in T
<1>1. \A k \in DOMAIN p : p[k] \in DOMAIN p
  BY DEF Forest
<1>2. \A k \in DOMAIN p :
        Up(p, k) = {u \in DOMAIN p : \A T \in SUBSET (DOMAIN p) : k \in T /\ closed(T) => u \in T}
  BY DEF Up
<1>3. v \in Up(p, v)
  BY <1>2
<1>4. CASE p[v] = v
  <2>1. closed({v}) /\ {v} \in SUBSET (DOMAIN p)
    BY <1>4
  <2>2. Up(p, v) \subseteq {v}
    BY <1>2, <2>1
  <2> QED BY <1>3, <1>4, <2>2
<1>5. CASE p[v] # v
  <2>1. Up(p, p[v]) \subseteq Up(p, v)
    BY <1>1, <1>2
  <2>2. closed({v} \cup Up(p, p[v]))
    <3> SUFFICES ASSUME NEW i \in {v} \cup Up(p, p[v])
                 PROVE  p[i] \in {v} \cup Up(p, p[v])
      OBVIOUS
    <3>1. CASE i = v
      BY <3>1, <1>1, <1>2
    <3>2. CASE i \in Up(p, p[v])
      <4>1. i \in DOMAIN p /\ p[i] \in DOMAIN p
        BY <3>2, <1>1, <1>2
      <4>2. \A T \in SUBSET (DOMAIN p) : p[v] \in T /\ closed(T) => p[i] \in T
        BY <3>2, <1>1, <1>2
      <4> QED BY <4>1, <4>2, <1>1, <1>2
    <3> QED BY <3>1, <3>2
  <2>3. {v} \cup Up(p, p[v]) \in SUBSET (DOMAIN p)
    BY <1>1, <1>2
  <2> HIDE DEF closed
  <2>4. Up(p, v) \subseteq {v} \cup Up(p, p[v])
    <3>1. \A u \in Up(p, v) : \A T \in SUBSET (DOMAIN p) : v \in T /\ closed(T) => u \in T
      BY <1>2
    <3>2. v \in {v} \cup Up(p, p[v])
      OBVIOUS
    <3> QED BY <3>1, <3>2, <2>2, <2>3
  <2> QED BY <1>3, <1>5, <2>1, <2>4
<1> QED BY <1>4, <1>5

(* findRoot's recursion has a solution.                                    *)
LEMMA PathStep ==
  ASSUME NEW p, Forest(p), NEW v \in DOMAIN p
  PROVE  Path(p, v) = IF p[v] = v THEN {v} ELSE {v} \cup Path(p, p[v])
<1> DEFINE Eq(P) == P = [k \in DOMAIN p |-> IF p[k] = k THEN {k} ELSE {k} \cup P[p[k]]]
           W == [k \in DOMAIN p |-> Up(p, k)]
<1>1. \A k \in DOMAIN p : p[k] \in DOMAIN p
  BY DEF Forest
<1>2. Eq(W)
  <2>1. \A k \in DOMAIN p : W[k] = IF p[k] = k THEN {k} ELSE {k} \cup W[p[k]]
    BY <1>1, UpStep
  <2>2. W = [k \in DOMAIN p |-> W[k]]
    OBVIOUS
  <2> HIDE DEF W
  <2> QED BY <2>1, <2>2
<1> DEFINE F == CHOOSE P : Eq(P)
<1>3. Eq(F)
  <2> HIDE DEF W, Eq
  <2> QED BY <1>2
<1>4. \A k \in DOMAIN p : Path(p, k) = F[k]
  BY DEF Path
<1>5. \A k \in DOMAIN p : F[k] = IF p[k] = k THEN {k} ELSE {k} \cup F[p[k]]
  <2> HIDE DEF F
  <2> QED BY <1>3
<1> HIDE DEF F
<1> QED BY <1>1, <1>4, <1>5

LEMMA RootStep ==
  ASSUME NEW p, Forest(p), NEW v \in DOMAIN p
  PROVE  Root(p, v) = IF p[v] = v THEN v ELSE Root(p, p[v])
<1> DEFINE Fixed(k) == CHOOSE r : r \in Path(p, k) /\ p[r] = r
<1>1. \A k : Root(p, k) = Fixed(k)
  BY DEF Root
<1>2. CASE p[v] = v
  <2>1. Path(p, v) = {v}
    BY <1>2, PathStep
  <2>2. \A r : r \in Path(p, v) /\ p[r] = r <=> r = v
    BY <2>1, <1>2
  <2>3. Fixed(v) = v
    BY <2>2
  <2> QED BY <2>3, <1>1, <1>2
<1>3. CASE p[v] # v
  <2>1. Path(p, v) = {v} \cup Path(p, p[v])
    BY <1>3, PathStep
  <2>2. \A r : r \in Path(p, v) /\ p[r] = r <=> r \in Path(p, p[v]) /\ p[r] = r
    BY <2>1, <1>3
  <2>3. Fixed(v) = Fixed(p[v])
    BY <2>2
  <2> HIDE DEF Fixed
  <2> QED BY <2>3, <1>1, <1>3
<1> QED BY <1>2, <1>3

(* A function that is constant along every edge of the forest and the      *)
(* identity at its roots maps a node to its root.                          *)
LEMMA RootUnique ==
  ASSUME NEW p, Forest(p), NEW f,
         \A k \in DOMAIN p : f[k] = IF p[k] = k THEN k ELSE f[p[k]]
  PROVE  \A k \in DOMAIN p : f[k] = Root(p, k)
<1> DEFINE Bad == {k \in DOMAIN p : f[k] # Root(p, k)}
<1>1. ASSUME Bad # {} PROVE FALSE
  <2>1. Bad \subseteq Nat
    BY DEF Forest
  <2>2. PICK k \in Bad : \A j \in Bad : k <= j
    <3> HIDE DEF Bad
    <3> QED BY <1>1, <2>1, Least
  <2>3. /\ k \in DOMAIN p /\ k \in Nat /\ p[k] \in DOMAIN p /\ p[k] \in Nat
        /\ p[k] <= k
    BY DEF Forest
  <2>4. CASE p[k] = k
    BY <2>2, <2>3, <2>4, RootStep
  <2>5. CASE p[k] # k
    <3>1. p[k] \notin Bad
      BY <2>2, <2>3, <2>5
    <3>2. f[p[k]] = Root(p, p[k])
      BY <3>1, <2>3
    <3>3. f[k] = f[p[k]] /\ Root(p, k) = Root(p, p[k])
      BY <2>3, <2>5, RootStep
    <3> QED BY <2>2, <3>2, <3>3
  <2> QED BY <2>4, <2>5
<1> QED BY <1>1

LEMMA RootFacts ==
  ASSUME NEW p, Forest(p), NEW v \in DOMAIN p
  PROVE  /\ Root(p, v) \in DOMAIN p /\ Root(p, v) <= v
         /\ p[Root(p, v)] = Root(p, v)
<1> DEFINE Good(k) == /\ Root(p, k) \in DOMAIN p /\ Root(p, k) <= k
                      /\ p[Root(p, k)] = Root(p, k)
           Bad == {k \in DOMAIN p : ~ Good(k)}
<1>1. ASSUME Bad # {} PROVE FALSE
  <2>1. Bad \subseteq Nat
    BY DEF Forest
  <2>2. PICK k \in Bad : \A j \in Bad : k <= j
    <3> HIDE DEF Bad
    <3> QED BY <1>1, <2>1, Least
  <2>3. /\ k \in DOMAIN p /\ k \in Nat /\ p[k] \in DOMAIN p /\ p[k] \in Nat
        /\ p[k] <= k /\ DOMAIN p \subseteq Nat
    BY DEF Forest
  <2>4. CASE p[k] = k
    <3>1. Root(p, k) = k
      BY <2>3, <2>4, RootStep
    <3> QED BY <2>2, <2>3, <2>4, <3>1
  <2>5. CASE p[k] # k
    <3>1. p[k] \notin Bad
      BY <2>2, <2>3, <2>5
    <3>2. Good(p[k])
      BY <3>1, <2>3
    <3>3. Root(p, k) = Root(p, p[k])
      BY <2>3, <2>5, RootStep
    <3>4. Root(p, k) \in Nat
      BY <3>2, <3>3, <2>3
    <3>5. Good(k)
      BY <3>2, <3>3, <3>4, <2>3
    <3> QED BY <2>2, <3>5
  <2> QED BY <2>4, <2>5
<1> QED BY <1>1

(* A set that no edge of the forest enters or leaves holds a node with its *)
(* root.                                                                   *)
Respects(p, set) == \A k \in DOMAIN p : k \in set <=> p[k] \in set

LEMMA RespectsRoot ==
  ASSUME NEW p, Forest(p), NEW set, Respects(p, set), NEW v \in DOMAIN p
  PROVE  v \in set <=> Root(p, v) \in set
<1> DEFINE Bad == {k \in DOMAIN p : ~ (k \in set <=> Root(p, k) \in set)}
<1>1. ASSUME Bad # {} PROVE FALSE
  <2>1. Bad \subseteq Nat
    BY DEF Forest
  <2>2. PICK k \in Bad : \A j \in Bad : k <= j
    <3> HIDE DEF Bad
    <3> QED BY <1>1, <2>1, Least
  <2>3. /\ k \in DOMAIN p /\ k \in Nat /\ p[k] \in DOMAIN p /\ p[k] \in Nat
        /\ p[k] <= k
    BY DEF Forest
  <2>4. CASE p[k] = k
    BY <2>2, <2>3, <2>4, RootStep
  <2>5. CASE p[k] # k
    <3>1. p[k] \notin Bad
      BY <2>2, <2>3, <2>5
    <3>2. p[k] \in set <=> Root(p, p[k]) \in set
      BY <3>1, <2>3
    <3>3. Root(p, k) = Root(p, p[k])
      BY <2>3, <2>5, RootStep
    <3> QED BY <2>2, <2>3, <3>2, <3>3 DEF Respects
  <2> QED BY <2>4, <2>5
<1> QED BY <1>1

(* All nodes of a path have the root of its first node.                    *)
LEMMA PathRoot ==
  ASSUME NEW p, Forest(p), NEW v \in DOMAIN p, NEW u \in Path(p, v)
  PROVE  u \in DOMAIN p /\ Root(p, u) = Root(p, v)
<1> DEFINE Good(k) == \A w \in Path(p, k) : w \in DOMAIN p /\ Root(p, w) = Root(p, k)
           Bad == {k \in DOMAIN p : ~ Good(k)}
<1>1. ASSUME Bad # {} PROVE FALSE
  <2>1. Bad \subseteq Nat
    BY DEF Forest
  <2>2. PICK k \in Bad : \A j \in Bad : k <= j
    <3> HIDE DEF Bad
    <3> QED BY <1>1, <2>1, Least
  <2>3. /\ k \in DOMAIN p /\ k \in Nat /\ p[k] \in DOMAIN p /\ p[k] \in Nat
        /\ p[k] <= k
    BY DEF Forest
  <2>4. CASE p[k] = k
    <3>1. Path(p, k) = {k}
      BY <2>3, <2>4, PathStep
    <3> QED BY <2>2, <2>3, <3>1
  <2>5. CASE p[k] # k
    <3>1. p[k] \notin Bad
      BY <2>2, <2>3, <2>5
    <3>2. Good(p[k])
      BY <3>1, <2>3
    <3>3. Root(p, k) = Root(p, p[k]) /\ Path(p, k) = {k} \cup Path(p, p[k])
      BY <2>3, <2>5, RootStep, PathStep
    <3>4. Good(k)
      BY <3>2, <3>3, <2>3
    <3> QED BY <2>2, <3>4
  <2> QED BY <2>4, <2>5
<1> QED BY <1>1

(* Path compression changes no root.                                       *)
LEMMA CompressFacts ==
  ASSUME NEW p, Forest(p), NEW a \in DOMAIN p
  PROVE  /\ Forest(Compress(p, a)) /\ DOMAIN Compress(p, a) = DOMAIN p
         /\ \A k \in DOMAIN p : Root(Compress(p, a), k) = Root(p, k)
         /\ \A set : Respects(p, set) => Respects(Compress(p, a), set)
<1> DEFINE q == Compress(p, a)
           f == [k \in DOMAIN p |-> Root(p, k)]
<1>1. DOMAIN q = DOMAIN p
  BY DEF Compress
<1>2. \A k \in DOMAIN p : q[k] = Root(p, k) \/ q[k] = p[k]
  <2> SUFFICES ASSUME NEW k \in DOMAIN p PROVE q[k] = Root(p, k) \/ q[k] = p[k]
    OBVIOUS
  <2>1. CASE k \in Path(p, a)
    BY <2>1, PathRoot DEF Compress
  <2>2. CASE k \notin Path(p, a)
    BY <2>2 DEF Compress
  <2> QED BY <2>1, <2>2
<1>3. DOMAIN p \subseteq Nat /\ \A k \in DOMAIN p : p[k] \in DOMAIN p /\ p[k] <= k
  BY DEF Forest
<1>4. q = [k \in DOMAIN p |-> q[k]]
  BY DEF Compress
<1> HIDE DEF q
<1>5. Forest(q)
  <2>1. \A k \in DOMAIN p : q[k] \in DOMAIN p /\ q[k] <= k
    BY <1>2, <1>3, RootFacts
  <2> QED BY <1>1, <1>3, <1>4, <2>1 DEF Forest
<1>6. \A k \in DOMAIN q : f[k] = IF q[k] = k THEN k ELSE f[q[k]]
  <2> SUFFICES ASSUME NEW k \in DOMAIN p
               PROVE  Root(p, k) = IF q[k] = k THEN k ELSE Root(p, q[k])
    BY <1>1, <1>2, <1>3, RootFacts
  <2>1. /\ Root(p, k) \in DOMAIN p /\ p[Root(p, k)] = Root(p, k)
        /\ p[k] \in DOMAIN p
    BY <1>3, RootFacts
  <2>2. Root(p, Root(p, k)) = Root(p, k)
    BY <2>1, RootStep
  <2>3. Root(p, k) = IF p[k] = k THEN k ELSE Root(p, p[k])
    BY RootStep
  <2>4. CASE q[k] = Root(p, k)
    BY <2>2, <2>4
  <2>5. CASE q[k] = p[k]
    BY <2>3, <2>5
  <2> QED BY <2>4, <2>5, <1>2
<1>7. \A k \in DOMAIN q : f[k] = Root(q, k)
  <2> HIDE DEF f
  <2> QED BY <1>5, <1>6, RootUnique
<1>8. \A k \in DOMAIN p : Root(q, k) = Root(p, k)
  BY <1>1, <1>7
<1>9. ASSUME NEW set, Respects(p, set) PROVE Respects(q, set)
  BY <1>1, <1>2, <1>9, RespectsRoot DEF Respects
<1> QED BY <1>1, <1>5, <1>8, <1>9 DEF q

(* Linking one root below another joins their two classes.                 *)
LEMMA LinkFacts ==
  ASSUME NEW q, Forest(q), NEW low \in DOMAIN q, NEW high \in DOMAIN q,
         q[low] = low, q[high] = high, low < high,
         NEW linked, linked \in [DOMAIN q -> DOMAIN q],
         \A k \in DOMAIN q : linked[k] = IF k = high THEN low ELSE q[k]
  PROVE  /\ Forest(linked) /\ DOMAIN linked = DOMAIN q
         /\ \A k \in DOMAIN q :
              Root(linked, k) = IF Root(q, k) = high THEN low ELSE Root(q, k)
         /\ \A set : Respects(q, set) /\ (low \in set <=> high \in set) =>
                       Respects(linked, set)
<1> DEFINE f == [k \in DOMAIN q |-> IF Root(q, k) = high THEN low ELSE Root(q, k)]
<1>1. /\ DOMAIN linked = DOMAIN q
      /\ \A k \in DOMAIN q : linked[k] = IF k = high THEN low ELSE q[k]
  OBVIOUS
<1>2. DOMAIN q \subseteq Nat /\ \A k \in DOMAIN q : q[k] \in DOMAIN q /\ q[k] <= k
  BY DEF Forest
<1>3. Forest(linked)
  <2>1. \A k \in DOMAIN q : linked[k] \in DOMAIN q /\ linked[k] <= k
    BY <1>1, <1>2
  <2> QED BY <1>1, <1>2, <2>1 DEF Forest
<1>4. \A k \in DOMAIN linked : f[k] = IF linked[k] = k THEN k ELSE f[linked[k]]
  <2> SUFFICES ASSUME NEW k \in DOMAIN q
               PROVE  f[k] = IF linked[k] = k THEN k ELSE f[linked[k]]
    BY <1>1
  <2>1. Root(q, low) = low /\ Root(q, high) = high
    BY RootStep
  <2>2. low # high
    BY <1>2
  <2>3. CASE k = high
    BY <2>1, <2>2, <2>3, <1>1
  <2>4. CASE k # high
    <3>1. linked[k] = q[k] /\ q[k] \in DOMAIN q
      BY <2>4, <1>1, <1>2
    <3>2. Root(q, k) = IF q[k] = k THEN k ELSE Root(q, q[k])
      BY RootStep
    <3> QED BY <2>4, <3>1, <3>2
  <2> QED BY <2>3, <2>4
<1>5. \A k \in DOMAIN linked : f[k] = Root(linked, k)
  <2> HIDE DEF f
  <2> QED BY <1>3, <1>4, RootUnique
<1>6. \A k \in DOMAIN q :
        Root(linked, k) = IF Root(q, k) = high THEN low ELSE Root(q, k)
  BY <1>1, <1>5
<1>7. ASSUME NEW set, Respects(q, set), low \in set <=> high \in set
      PROVE  Respects(linked, set)
  <2>1. \A k \in DOMAIN q : k \in set <=> q[k] \in set
    BY <1>7 DEF Respects
  <2>2. \A k \in DOMAIN q : k \in set <=> linked[k] \in set
    BY <2>1, <1>1, <1>7
  <2> QED BY <2>2, <1>1 DEF Respects
<1> QED BY <1>1, <1>3, <1>6, <1>7

(* unite joins the classes of its two nodes, and nothing else.             *)
LEMMA UniteFacts ==
  ASSUME NEW p, Forest(p), NEW a \in DOMAIN p, NEW b \in DOMAIN p
  PROVE  /\ Forest(Unite(p, a, b)) /\ DOMAIN Unite(p, a, b) = DOMAIN p
         /\ Root(Unite(p, a, b), a) = Root(Unite(p, a, b), b)
         /\ \A j, k \in DOMAIN p :
              Root(p, j) = Root(p, k) => Root(Unite(p, a, b), j) = Root(Unite(p, a, b), k)
         /\ \A set : Respects(p, set) /\ (a \in set <=> b \in set) =>
                       Respects(Unite(p, a, b), set)
<1> DEFINE q == Compress(Compress(p, a), b)
           ra == Root(q, a)
           rb == Root(q, b)
           u == Unite(p, a, b)
<1>1. /\ Forest(Compress(p, a)) /\ DOMAIN Compress(p, a) = DOMAIN p
      /\ \A k \in DOMAIN p : Root(Compress(p, a), k) = Root(p, k)
      /\ \A set : Respects(p, set) => Respects(Compress(p, a), set)
  BY CompressFacts
<1>2. /\ Forest(q) /\ DOMAIN q = DOMAIN p
      /\ \A k \in DOMAIN p : Root(q, k) = Root(p, k)
      /\ \A set : Respects(p, set) => Respects(q, set)
  <2> DEFINE c == Compress(p, a)
  <2>1. Forest(c) /\ DOMAIN c = DOMAIN p
    BY <1>1
  <2> HIDE DEF c
  <2>2. /\ Forest(Compress(c, b)) /\ DOMAIN Compress(c, b) = DOMAIN c
        /\ \A k \in DOMAIN c : Root(Compress(c, b), k) = Root(c, k)
        /\ \A set : Respects(c, set) => Respects(Compress(c, b), set)
    BY <2>1, CompressFacts
  <2> QED BY <2>1, <2>2, <1>1 DEF c
<1>3. u = IF ra = rb THEN q
          ELSE IF ra < rb THEN [q EXCEPT ![rb] = ra] ELSE [q EXCEPT ![ra] = rb]
  BY DEF Unite
<1> HIDE DEF q, u
<1>4. /\ ra \in DOMAIN q /\ rb \in DOMAIN q /\ ra \in Nat /\ rb \in Nat
      /\ q[ra] = ra /\ q[rb] = rb
  BY <1>2, RootFacts DEF Forest
<1>5. \A set : Respects(p, set) /\ (a \in set <=> b \in set) =>
                 Respects(q, set) /\ (ra \in set <=> rb \in set)
  BY <1>2, RespectsRoot
<1> HIDE DEF ra, rb
<1>6. CASE ra = rb
  <2>1. u = q
    BY <1>3, <1>6
  <2> QED BY <2>1, <1>2, <1>5, <1>6 DEF ra, rb, u
<1>7. CASE ra < rb
  <2>1. ra # rb
    BY <1>4, <1>7
  <2>2. u = [q EXCEPT ![rb] = ra]
    BY <1>3, <1>7, <2>1
  <2>3. /\ Forest(u) /\ DOMAIN u = DOMAIN q
        /\ \A k \in DOMAIN q : Root(u, k) = IF Root(q, k) = rb THEN ra ELSE Root(q, k)
        /\ \A set : Respects(q, set) /\ (ra \in set <=> rb \in set) => Respects(u, set)
    <3>1. /\ u \in [DOMAIN q -> DOMAIN q]
          /\ \A k \in DOMAIN q : u[k] = IF k = rb THEN ra ELSE q[k]
      BY <1>2, <1>4, <2>2 DEF Forest
    <3> QED BY <1>2, <1>4, <1>7, <3>1, LinkFacts
  <2>4. Root(u, a) = Root(u, b)
    BY <2>3, <1>2 DEF ra, rb
  <2> QED BY <2>3, <2>4, <1>2, <1>5 DEF u
<1>8. CASE rb < ra
  <2>1. ra # rb /\ ~ ra < rb
    BY <1>4, <1>8
  <2>2. u = [q EXCEPT ![ra] = rb]
    BY <1>3, <2>1
  <2>3. /\ Forest(u) /\ DOMAIN u = DOMAIN q
        /\ \A k \in DOMAIN q : Root(u, k) = IF Root(q, k) = ra THEN rb ELSE Root(q, k)
        /\ \A set : Respects(q, set) /\ (rb \in set <=> ra \in set) => Respects(u, set)
    <3>1. /\ u \in [DOMAIN q -> DOMAIN q]
          /\ \A k \in DOMAIN q : u[k] = IF k = ra THEN rb ELSE q[k]
      BY <1>2, <1>4, <2>2 DEF Forest
    <3> QED BY <1>2, <1>4, <1>8, <3>1, LinkFacts
  <2>4. Root(u, a) = Root(u, b)
    BY <2>3, <1>2 DEF ra, rb
  <2> QED BY <2>3, <2>4, <1>2, <1>5 DEF u
<1> QED BY <1>4, <1>6, <1>7, <1>8

--------------------------------------------------------------------------------
(* Pieces: the members whole, or one by one in order.                      *)

LEMMA RankFacts ==
  ASSUME NEW members, members \subseteq Nat, IsFiniteSet(members)
  PROVE  /\ Cardinality(members) \in Nat
         /\ \A n \in members : Rank(members, n) \in 1 .. Cardinality(members)
         /\ \A k \in 1 .. Cardinality(members) : \E n \in members : Rank(members, n) = k
         /\ \A m, n \in members : Rank(members, m) = Rank(members, n) => m = n
<1> DEFINE low(n) == {m \in members : m <= n}
           c == Cardinality(members)
           rank == [n \in members |-> Rank(members, n)]
<1>1. c \in Nat
  BY FS_CardinalityType
<1>2. \A n \in members : /\ IsFiniteSet(low(n)) /\ Cardinality(low(n)) \in Nat
                         /\ Cardinality(low(n)) <= c
                         /\ Rank(members, n) = Cardinality(low(n))
  <2> TAKE n \in members
  <2>1. low(n) \subseteq members
    OBVIOUS
  <2> HIDE DEF low
  <2>2. IsFiniteSet(low(n)) /\ Cardinality(low(n)) <= c
    BY <2>1, FS_Subset
  <2> QED BY <2>2, FS_CardinalityType DEF Rank, low
<1>3. \A n \in members : Cardinality(low(n)) >= 1
  <2> TAKE n \in members
  <2>1. n \in low(n)
    OBVIOUS
  <2>2. low(n) # {}
    BY <2>1
  <2> HIDE DEF low
  <2> QED BY <1>2, <2>2, FS_EmptySet
<1>4. \A n \in members : Rank(members, n) \in 1 .. c
  <2> HIDE DEF c, low
  <2> QED BY <1>1, <1>2, <1>3
<1>5. \A m, n \in members : m < n => Cardinality(low(m)) < Cardinality(low(n))
  <2> SUFFICES ASSUME NEW m \in members, NEW n \in members, m < n
               PROVE  Cardinality(low(m)) < Cardinality(low(n))
    OBVIOUS
  <2>0. m \in Nat /\ n \in Nat /\ \A x \in members : x \in Nat
    OBVIOUS
  <2>1. low(m) \subseteq low(n) /\ n \in low(n) /\ n \notin low(m)
    <3>1. \A x \in members : x <= m => x <= n
      BY <2>0
    <3>2. ~ n <= m /\ n <= n
      BY <2>0
    <3> QED BY <3>1, <3>2
  <2>2. IsFiniteSet(low(n))
    BY <1>2
  <2> HIDE DEF low
  <2> QED BY <1>2, <2>1, <2>2, FS_Subset
<1>6. \A m, n \in members : Rank(members, m) = Rank(members, n) => m = n
  <2> SUFFICES ASSUME NEW m \in members, NEW n \in members, m # n
               PROVE  Rank(members, m) # Rank(members, n)
    OBVIOUS
  <2>1. m < n \/ n < m
    OBVIOUS
  <2> QED
    <3> HIDE DEF low
    <3> QED BY <2>1, <1>2, <1>5
<1>7. rank \in Injection(members, 1 .. c)
  BY <1>4, <1>6 DEF Injection, IsInjective
<1>8. IsFiniteSet(1 .. c) /\ Cardinality(1 .. c) = c
  BY <1>1, FS_Interval
<1>9. rank \in Surjection(members, 1 .. c)
  <2> HIDE DEF rank
  <2> QED BY <1>7, <1>8, FS_Injection
<1>10. \A k \in 1 .. c : \E n \in members : rank[n] = k
  <2> HIDE DEF rank
  <2> QED BY <1>9 DEF Surjection
<1> QED BY <1>1, <1>4, <1>6, <1>10

LEMMA PiecesFacts ==
  ASSUME NEW members, members \subseteq Nat, IsFiniteSet(members), members # {}
  PROVE  /\ Pieces(members) \in Seq(SUBSET members)
         /\ \A k \in DOMAIN Pieces(members) :
              /\ Pieces(members)[k] # {}
              /\ \/ Pieces(members)[k] = members
                 \/ \E n \in members : Pieces(members)[k] = {n}
         /\ \A j, k \in DOMAIN Pieces(members) :
              j # k => Pieces(members)[j] \cap Pieces(members)[k] = {}
         /\ \A n \in members : \E k \in DOMAIN Pieces(members) : n \in Pieces(members)[k]
         /\ \A k \in DOMAIN Pieces(members) :
              Cardinality(Pieces(members)[k]) > 1 =>
                PeakLiveBytes(graph, Pieces(members)[k]) <= WorkingSet
         /\ PeakLiveBytes(graph, members) <= WorkingSet =>
              \E k \in DOMAIN Pieces(members) : Pieces(members)[k] = members
<1> DEFINE c == Cardinality(members)
           singles == [k \in 1 .. c |-> {n \in members : Rank(members, n) = k}]
<1>1. /\ c \in Nat
      /\ \A n \in members : Rank(members, n) \in 1 .. c
      /\ \A k \in 1 .. c : \E n \in members : Rank(members, n) = k
      /\ \A m, n \in members : Rank(members, m) = Rank(members, n) => m = n
  BY RankFacts
<1>2. IF PeakLiveBytes(graph, members) <= WorkingSet
        THEN Pieces(members) = <<members>>
        ELSE Pieces(members) = singles
  BY DEF Pieces
<1>3. CASE PeakLiveBytes(graph, members) <= WorkingSet
  <2>1. Pieces(members) = <<members>>
    BY <1>2, <1>3
  <2> DEFINE whole == <<members>>
  <2>2. /\ whole \in Seq(SUBSET members) /\ DOMAIN whole = {1} /\ whole[1] = members
    OBVIOUS
  <2> HIDE DEF whole
  <2> QED BY <1>3, <2>1, <2>2 DEF whole
<1>4. CASE ~ PeakLiveBytes(graph, members) <= WorkingSet
  <2>1. singles \in Seq(SUBSET members) /\ DOMAIN singles = 1 .. c
    BY <1>1
  <2>2. \A k \in 1 .. c : singles[k] = {n \in members : Rank(members, n) = k}
    OBVIOUS
  <2> HIDE DEF singles, c
  <2>3. \A k \in 1 .. c : \E n \in members : singles[k] = {n}
    <3> SUFFICES ASSUME NEW k \in 1 .. c PROVE \E n \in members : singles[k] = {n}
      OBVIOUS
    <3>1. PICK n \in members : Rank(members, n) = k
      BY <1>1
    <3>2. \A m \in members : Rank(members, m) = k <=> m = n
      BY <1>1, <3>1
    <3>3. singles[k] = {m \in members : Rank(members, m) = k}
      BY <2>2
    <3>4. singles[k] = {n}
      BY <3>2, <3>3
    <3> QED BY <3>4
  <2>4. \A j, k \in 1 .. c : j # k => singles[j] \cap singles[k] = {}
    BY <2>2
  <2>5. \A n \in members : \E k \in 1 .. c : n \in singles[k]
    BY <1>1, <2>2
  <2>6. \A k \in 1 .. c : ~ Cardinality(singles[k]) > 1
    <3> SUFFICES ASSUME NEW k \in 1 .. c PROVE ~ Cardinality(singles[k]) > 1
      OBVIOUS
    <3>1. PICK n \in members : singles[k] = {n}
      BY <2>3
    <3>2. Cardinality(singles[k]) = 1
      BY <3>1, FS_Singleton
    <3> QED BY <3>2
  <2>7. Pieces(members) = singles
    BY <1>2, <1>4
  <2> QED BY <1>4, <2>1, <2>3, <2>4, <2>5, <2>6, <2>7
<1> QED BY <1>3, <1>4

--------------------------------------------------------------------------------
(* The inductive invariant. *)

LEMMA GraphFacts ==
  ASSUME NEW g, IsGraph(g)
  PROVE  /\ Nodes(g) = 1 .. Len(g.op) /\ Len(g.op) \in Nat
         /\ Nodes(g) \subseteq Nat /\ IsFiniteSet(Nodes(g))
         /\ \A n \in Nodes(g) :
              /\ DOMAIN g.inputs[n] = 1 .. Len(g.inputs[n]) /\ Len(g.inputs[n]) \in Nat
              /\ Reads(g, n) = {g.inputs[n][k] : k \in DOMAIN g.inputs[n]}
              /\ \A i \in Reads(g, n) : i \in Nodes(g) /\ i < n
<1>1. Nodes(g) = 1 .. Len(g.op) /\ Len(g.op) \in Nat
  BY DEF IsGraph, Nodes
<1>2. IsFiniteSet(Nodes(g))
  BY <1>1, FS_Interval
<1> SUFFICES ASSUME NEW n \in Nodes(g)
             PROVE  /\ DOMAIN g.inputs[n] = 1 .. Len(g.inputs[n])
                    /\ Len(g.inputs[n]) \in Nat
                    /\ Reads(g, n) = {g.inputs[n][k] : k \in DOMAIN g.inputs[n]}
                    /\ \A i \in Reads(g, n) : i \in Nodes(g) /\ i < n
  BY <1>1, <1>2
<1> DEFINE s == g.inputs[n]
           S == 1 .. n - 1
<1>3. s \in Seq(S)
  BY DEF IsGraph
<1>4. Reads(g, n) = {s[k] : k \in DOMAIN s}
  BY DEF Reads, ToSet
<1>5. \A k \in S : k \in Nodes(g) /\ k < n
  BY <1>1
<1> HIDE DEF s, S
<1>6. /\ \A k \in DOMAIN s : s[k] \in S
      /\ DOMAIN s = 1 .. Len(s) /\ Len(s) \in Nat
  BY <1>3
<1> QED BY <1>4, <1>5, <1>6 DEF s

Class(k) == {n \in Nodes(graph) : parents[n] = k}

(* While edges are visited: nothing but fusible edges joins two nodes, and *)
(* every fusible edge visited so far has joined its two.                   *)
Uniting ==
  /\ Forest(parents) /\ DOMAIN parents = Nodes(graph)
  /\ \A set \in Closed(graph) : Respects(parents, set)
  /\ \A n \in Nodes(graph) : \A k \in DOMAIN graph.inputs[n] :
       /\ n < node \/ (n = node /\ k < slot)
       /\ MayFuse(graph, graph.inputs[n][k], n)
       => Root(parents, graph.inputs[n][k]) = Root(parents, n)
  /\ regions = <<>>

(* While regions are formed, a node's parent names its component.          *)
Named ==
  /\ parents \in [Nodes(graph) -> Nodes(graph)]
  /\ \A set \in Closed(graph) : \A n \in Nodes(graph) : n \in set <=> parents[n] \in set
  /\ \A e \in Fusible(graph) : parents[e[1]] = parents[e[2]]

Formed ==
  /\ regions \in Seq([nodes : SUBSET Nodes(graph), materialized : SUBSET Nodes(graph)])
  /\ \A r \in DOMAIN regions :
       /\ NodesOf(r) # {}
       /\ \E k \in Nodes(graph) : /\ k < node /\ NodesOf(r) \subseteq Class(k)
                                  /\ \/ NodesOf(r) = Class(k)
                                     \/ \E n \in Nodes(graph) : NodesOf(r) = {n}
  /\ \A r, s \in DOMAIN regions : r # s => NodesOf(r) \cap NodesOf(s) = {}
  /\ \A n \in Nodes(graph) :
       parents[n] < node => \E r \in DOMAIN regions : n \in NodesOf(r)

(* What was kept together passed the size test, and what passed it was     *)
(* kept together.                                                          *)
Sized ==
  /\ \A r \in DOMAIN regions :
       Cardinality(NodesOf(r)) > 1 => PeakLiveBytes(graph, NodesOf(r)) <= WorkingSet
  /\ \A k \in Nodes(graph) :
       k < node /\ Class(k) # {} /\ PeakLiveBytes(graph, Class(k)) <= WorkingSet
       => \E r \in DOMAIN regions : NodesOf(r) = Class(k)

IInv ==
  /\ graph \in Graphs
  /\ node \in Nat \ {0} /\ slot \in Nat \ {0}
  /\ phase \in {"uniting", "forming", "done"}
  /\ phase = "uniting" => Uniting
  /\ phase \in {"forming", "done"} => Named /\ Formed /\ Sized
  /\ phase = "done" => node \notin Nodes(graph)

LEMMA FusibleFacts ==
  ASSUME NEW g, IsGraph(g)
  PROVE  /\ \A n \in Nodes(g) : \A i \in Reads(g, n) :
              MayFuse(g, i, n) => <<i, n>> \in Fusible(g)
         /\ \A e \in Fusible(g) : /\ e[1] \in Nodes(g) /\ e[2] \in Nodes(g)
                                  /\ e[1] \in Reads(g, e[2]) /\ MayFuse(g, e[1], e[2])
<1>1. \A n \in Nodes(g) : \A i \in Reads(g, n) : i \in Nodes(g)
  BY GraphFacts
<1> QED BY <1>1 DEF Fusible

LEMMA InitIInv == Init => IInv
<1> SUFFICES ASSUME Init PROVE IInv
  OBVIOUS
<1>1. /\ graph \in Graphs /\ IsGraph(graph) /\ node = 1 /\ slot = 1
      /\ phase = "uniting" /\ regions = <<>>
      /\ parents = [n \in Nodes(graph) |-> n]
  BY GraphsAssumption DEF Init
<1>2. Forest(parents) /\ DOMAIN parents = Nodes(graph)
  BY <1>1, GraphFacts DEF Forest
<1>3. \A set : Respects(parents, set)
  BY <1>1 DEF Respects
<1>4. \A n \in Nodes(graph) : \A k \in DOMAIN graph.inputs[n] :
        ~ (n < node \/ (n = node /\ k < slot))
  BY <1>1, GraphFacts
<1>5. Uniting
  BY <1>1, <1>2, <1>3, <1>4 DEF Uniting
<1> QED BY <1>1, <1>5 DEF IInv

LEMMA VisitOperandStep ==
  ASSUME IInv, VisitOperand
  PROVE  IInv'
<1> DEFINE i == graph.inputs[node][slot]
<1>1. /\ graph' = graph /\ node' = node /\ regions' = regions /\ phase' = phase
      /\ phase = "uniting" /\ node \in Nodes(graph)
      /\ slot \in Nat \ {0} /\ slot <= Len(graph.inputs[node]) /\ slot' = slot + 1
      /\ parents' = IF MayFuse(graph, i, node) THEN Unite(parents, i, node) ELSE parents
  BY DEF VisitOperand, IInv
<1>2. Uniting /\ IsGraph(graph) /\ graph \in Graphs /\ node \in Nat \ {0}
  BY <1>1, GraphsAssumption DEF IInv
<1>3. slot \in DOMAIN graph.inputs[node] /\ i \in Reads(graph, node) /\ i \in Nodes(graph)
  <2>1. /\ DOMAIN graph.inputs[node] = 1 .. Len(graph.inputs[node])
        /\ Len(graph.inputs[node]) \in Nat
        /\ Reads(graph, node) = {graph.inputs[node][k] : k \in DOMAIN graph.inputs[node]}
        /\ \A j \in Reads(graph, node) : j \in Nodes(graph) /\ j < node
    BY <1>1, <1>2, GraphFacts
  <2>2. slot \in DOMAIN graph.inputs[node]
    BY <1>1, <2>1
  <2> QED BY <2>1, <2>2
<1>4. /\ Forest(parents) /\ DOMAIN parents = Nodes(graph)
      /\ \A set \in Closed(graph) : Respects(parents, set)
      /\ \A n \in Nodes(graph) : \A k \in DOMAIN graph.inputs[n] :
           /\ n < node \/ (n = node /\ k < slot)
           /\ MayFuse(graph, graph.inputs[n][k], n)
           => Root(parents, graph.inputs[n][k]) = Root(parents, n)
      /\ regions = <<>>
  BY <1>2 DEF Uniting
<1> HIDE DEF i
<1>5. /\ Forest(parents') /\ DOMAIN parents' = Nodes(graph)
      /\ \A set \in Closed(graph) : Respects(parents', set)
      /\ \A j, k \in Nodes(graph) :
           Root(parents, j) = Root(parents, k) => Root(parents', j) = Root(parents', k)
      /\ MayFuse(graph, i, node) => Root(parents', i) = Root(parents', node)
  <2>1. CASE ~ MayFuse(graph, i, node)
    BY <1>1, <1>4, <2>1
  <2>2. CASE MayFuse(graph, i, node)
    <3>1. \A set \in Closed(graph) : i \in set <=> node \in set
      <4>1. <<i, node>> \in Fusible(graph)
        BY <1>1, <1>2, <1>3, <2>2, FusibleFacts
      <4> QED BY <4>1 DEF Closed
    <3>2. parents' = Unite(parents, i, node)
      BY <1>1, <2>2
    <3>3. /\ Forest(parents') /\ DOMAIN parents' = DOMAIN parents
          /\ Root(parents', i) = Root(parents', node)
          /\ \A j, k \in DOMAIN parents :
               Root(parents, j) = Root(parents, k) => Root(parents', j) = Root(parents', k)
          /\ \A set : Respects(parents, set) /\ (i \in set <=> node \in set) =>
                        Respects(parents', set)
      BY <1>1, <1>3, <1>4, <3>2, UniteFacts
    <3> QED BY <1>4, <3>1, <3>3
  <2> QED BY <2>1, <2>2
<1>6. ASSUME NEW n \in Nodes(graph), NEW k \in DOMAIN graph.inputs[n],
             n < node \/ (n = node /\ k < slot + 1),
             MayFuse(graph, graph.inputs[n][k], n)
      PROVE  Root(parents', graph.inputs[n][k]) = Root(parents', n)
  <2>1. graph.inputs[n][k] \in Nodes(graph) /\ k \in Nat
    BY <1>2, GraphFacts
  <2>2. CASE n = node /\ k = slot
    BY <2>2, <1>5, <1>6 DEF i
  <2>3. CASE ~ (n = node /\ k = slot)
    <3>1. n < node \/ (n = node /\ k < slot)
      BY <2>1, <2>3, <1>1, <1>6
    <3>2. Root(parents, graph.inputs[n][k]) = Root(parents, n)
      BY <3>1, <1>4, <1>6
    <3> QED BY <3>2, <2>1, <1>5
  <2> QED BY <2>2, <2>3
<1>7. Uniting'
  BY <1>1, <1>4, <1>5, <1>6 DEF Uniting
<1> QED BY <1>1, <1>2, <1>7 DEF IInv

LEMMA NextNodeStep ==
  ASSUME IInv, NextNode
  PROVE  IInv'
<1>1. /\ graph' = graph /\ parents' = parents /\ regions' = regions /\ phase' = phase
      /\ phase = "uniting" /\ node \in Nodes(graph)
      /\ slot > Len(graph.inputs[node]) /\ node' = node + 1 /\ slot' = 1
  BY DEF NextNode
<1>2. /\ Uniting /\ IsGraph(graph) /\ graph \in Graphs
      /\ node \in Nat \ {0} /\ slot \in Nat \ {0}
  BY <1>1, GraphsAssumption DEF IInv
<1>3. ASSUME NEW n \in Nodes(graph), NEW k \in DOMAIN graph.inputs[n],
             n < node + 1 \/ (n = node + 1 /\ k < 1)
      PROVE  n < node \/ (n = node /\ k < slot)
  <2>1. n \in Nat /\ k \in 1 .. Len(graph.inputs[n]) /\ Len(graph.inputs[n]) \in Nat
    BY <1>2, GraphFacts
  <2>2. n < node \/ n = node
    BY <2>1, <1>2, <1>3
  <2> QED BY <2>1, <2>2, <1>1, <1>2
<1>4. Uniting'
  BY <1>1, <1>2, <1>3 DEF Uniting
<1> QED BY <1>1, <1>2, <1>4 DEF IInv

LEMMA GroupNodesStep ==
  ASSUME IInv, GroupNodes
  PROVE  IInv'
<1>1. /\ graph' = graph /\ slot' = slot /\ regions' = regions
      /\ phase = "uniting" /\ phase' = "forming" /\ node \notin Nodes(graph) /\ node' = 1
      /\ parents' = [n \in Nodes(graph) |-> Root(parents, n)]
  BY DEF GroupNodes
<1>2. /\ Uniting /\ IsGraph(graph) /\ graph \in Graphs
      /\ node \in Nat \ {0} /\ slot \in Nat \ {0}
  BY <1>1, GraphsAssumption DEF IInv
<1>3. /\ Forest(parents) /\ DOMAIN parents = Nodes(graph) /\ regions = <<>>
      /\ \A set \in Closed(graph) : Respects(parents, set)
  BY <1>2 DEF Uniting
<1>4. \A n \in Nodes(graph) : n < node
  BY <1>1, <1>2, GraphFacts
<1>5. \A n \in Nodes(graph) : parents'[n] = Root(parents, n) /\ parents'[n] \in Nodes(graph)
  BY <1>1, <1>3, RootFacts
<1>6. Named'
  <2>1. parents' \in [Nodes(graph) -> Nodes(graph)]
    BY <1>1, <1>5
  <2>2. \A set \in Closed(graph) : \A n \in Nodes(graph) : n \in set <=> parents'[n] \in set
    BY <1>3, <1>5, RespectsRoot
  <2>3. \A e \in Fusible(graph) : parents'[e[1]] = parents'[e[2]]
    <3> SUFFICES ASSUME NEW e \in Fusible(graph) PROVE parents'[e[1]] = parents'[e[2]]
      OBVIOUS
    <3>1. /\ e[1] \in Nodes(graph) /\ e[2] \in Nodes(graph)
          /\ e[1] \in Reads(graph, e[2]) /\ MayFuse(graph, e[1], e[2])
      BY <1>2, FusibleFacts
    <3>2. PICK k \in DOMAIN graph.inputs[e[2]] : e[1] = graph.inputs[e[2]][k]
      BY <1>2, <3>1, GraphFacts
    <3>3. Root(parents, e[1]) = Root(parents, e[2])
      BY <1>2, <1>4, <3>1, <3>2 DEF Uniting
    <3> QED BY <3>1, <3>3, <1>5
  <2> QED BY <1>1, <2>1, <2>2, <2>3 DEF Named
<1>7. Formed'
  <2>1. \A n \in Nodes(graph) : ~ parents'[n] < 1
    BY <1>2, <1>5, GraphFacts
  <2>2. regions' = <<>>
    BY <1>1, <1>3
  <2> QED BY <1>1, <2>1, <2>2 DEF Formed
<1>8. Sized'
  <2>1. \A k \in Nodes(graph) : ~ k < 1
    BY <1>2, GraphFacts
  <2>2. regions' = <<>>
    BY <1>1, <1>3
  <2> QED BY <1>1, <2>1, <2>2 DEF Sized
<1> QED BY <1>1, <1>2, <1>6, <1>7, <1>8 DEF IInv

LEMMA FormRegionStep ==
  ASSUME IInv, FormRegion
  PROVE  IInv'
<1> DEFINE members == Class(node)
           pieces == Pieces(members)
           new == [k \in DOMAIN pieces |-> Region(graph, pieces[k])]
<1>1. /\ graph' = graph /\ slot' = slot /\ parents' = parents /\ phase' = phase
      /\ phase = "forming" /\ node \in Nodes(graph) /\ node' = node + 1
      /\ regions' = IF members = {} THEN regions ELSE regions \o new
  BY DEF FormRegion, Class
<1>2. /\ Named /\ Formed /\ Sized /\ IsGraph(graph) /\ graph \in Graphs
      /\ node \in Nat \ {0} /\ slot \in Nat \ {0}
  BY <1>1, GraphsAssumption DEF IInv
<1>3. Named'
  BY <1>1, <1>2 DEF Named
<1>4. \A k : Class(k)' = Class(k)
  BY <1>1 DEF Class
<1>5. Nodes(graph) \subseteq Nat /\ IsFiniteSet(Nodes(graph))
  BY <1>2, GraphFacts
<1>6. \A n \in Nodes(graph) : parents[n] \in Nat
  BY <1>2, <1>5 DEF Named
<1> DEFINE Good(q) ==
      /\ q \in Seq([nodes : SUBSET Nodes(graph), materialized : SUBSET Nodes(graph)])
      /\ \A r \in DOMAIN q :
           /\ q[r].nodes # {}
           /\ \E k \in Nodes(graph) :
                /\ k < node + 1 /\ q[r].nodes \subseteq Class(k)
                /\ \/ q[r].nodes = Class(k)
                   \/ \E n \in Nodes(graph) : q[r].nodes = {n}
      /\ \A r, s \in DOMAIN q : r # s => q[r].nodes \cap q[s].nodes = {}
      /\ \A n \in Nodes(graph) :
           parents[n] < node + 1 => \E r \in DOMAIN q : n \in q[r].nodes
      /\ \A r \in DOMAIN q :
           Cardinality(q[r].nodes) > 1 => PeakLiveBytes(graph, q[r].nodes) <= WorkingSet
      /\ \A k \in Nodes(graph) :
           k < node + 1 /\ Class(k) # {} /\ PeakLiveBytes(graph, Class(k)) <= WorkingSet
           => \E r \in DOMAIN q : q[r].nodes = Class(k)
<1>7. ASSUME NEW q, Good(q), regions' = q
      PROVE  IInv'
  <2>1. (\A r \in DOMAIN regions :
          /\ NodesOf(r) # {}
          /\ \E k \in Nodes(graph) : /\ k < node /\ NodesOf(r) \subseteq Class(k)
                                     /\ \/ NodesOf(r) = Class(k)
                                        \/ \E n \in Nodes(graph) : NodesOf(r) = {n})'
    <3>1. \A r \in DOMAIN q :
            /\ q[r].nodes # {}
            /\ \E k \in Nodes(graph) :
                 /\ k < node + 1 /\ q[r].nodes \subseteq Class(k)
                 /\ \/ q[r].nodes = Class(k)
                    \/ \E n \in Nodes(graph) : q[r].nodes = {n}
      BY <1>7
    <3> HIDE DEF Good
    <3> QED BY <1>1, <1>4, <1>7, <3>1 DEF NodesOf
  <2>2. (\A r, s \in DOMAIN regions : r # s => NodesOf(r) \cap NodesOf(s) = {})'
    BY <1>7 DEF NodesOf
  <2>3. (\A n \in Nodes(graph) :
          parents[n] < node => \E r \in DOMAIN regions : n \in NodesOf(r))'
    BY <1>1, <1>7 DEF NodesOf
  <2>4. (regions \in Seq([nodes : SUBSET Nodes(graph), materialized : SUBSET Nodes(graph)]))'
    BY <1>1, <1>7
  <2>5. Formed'
    BY <2>1, <2>2, <2>3, <2>4 DEF Formed
  <2>6. Sized'
    BY <1>1, <1>4, <1>7 DEF Sized, NodesOf
  <2> QED BY <1>1, <1>2, <1>3, <2>5, <2>6 DEF IInv
<1>8. /\ regions \in Seq([nodes : SUBSET Nodes(graph), materialized : SUBSET Nodes(graph)])
      /\ \A r \in DOMAIN regions :
           /\ regions[r].nodes # {}
           /\ \E k \in Nodes(graph) :
                /\ k < node /\ regions[r].nodes \subseteq Class(k)
                /\ \/ regions[r].nodes = Class(k)
                   \/ \E n \in Nodes(graph) : regions[r].nodes = {n}
      /\ \A r, s \in DOMAIN regions : r # s => regions[r].nodes \cap regions[s].nodes = {}
      /\ \A n \in Nodes(graph) :
           parents[n] < node => \E r \in DOMAIN regions : n \in regions[r].nodes
      /\ \A r \in DOMAIN regions :
           Cardinality(regions[r].nodes) > 1 =>
             PeakLiveBytes(graph, regions[r].nodes) <= WorkingSet
      /\ \A k \in Nodes(graph) :
           k < node /\ Class(k) # {} /\ PeakLiveBytes(graph, Class(k)) <= WorkingSet
           => \E r \in DOMAIN regions : regions[r].nodes = Class(k)
  BY <1>2 DEF Formed, Sized, NodesOf
<1>9. \A k \in Nodes(graph) : k < node => k < node + 1
  BY <1>2, <1>5
<1>20. \A k \in Nodes(graph) : k < node + 1 => k < node \/ k = node
  BY <1>2, <1>5
<1>10. CASE members = {}
  <2>1. \A n \in Nodes(graph) : parents[n] < node + 1 => parents[n] < node
    BY <1>2, <1>6, <1>10 DEF Class
  <2>2. regions' = regions
    BY <1>1, <1>10
  <2>3. Good(regions)
    <3>1. \A k \in Nodes(graph) :
            k < node + 1 /\ Class(k) # {} /\ PeakLiveBytes(graph, Class(k)) <= WorkingSet
            => \E r \in DOMAIN regions : regions[r].nodes = Class(k)
      BY <1>8, <1>10, <1>20
    <3> QED BY <1>8, <1>9, <2>1, <3>1
  <2> QED
    <3> HIDE DEF Good
    <3> QED BY <1>7, <2>2, <2>3
<1>11. CASE members # {}
  <2>1. members \subseteq Nodes(graph) /\ members \subseteq Nat /\ IsFiniteSet(members)
    BY <1>5, FS_Subset DEF Class
  <2> HIDE DEF members
  <2>2. /\ pieces \in Seq(SUBSET members)
        /\ \A k \in DOMAIN pieces :
             /\ pieces[k] # {}
             /\ pieces[k] = members \/ \E n \in members : pieces[k] = {n}
        /\ \A j, k \in DOMAIN pieces : j # k => pieces[j] \cap pieces[k] = {}
        /\ \A n \in members : \E k \in DOMAIN pieces : n \in pieces[k]
        /\ \A k \in DOMAIN pieces :
             Cardinality(pieces[k]) > 1 => PeakLiveBytes(graph, pieces[k]) <= WorkingSet
        /\ PeakLiveBytes(graph, members) <= WorkingSet =>
             \E k \in DOMAIN pieces : pieces[k] = members
    BY <1>11, <2>1, PiecesFacts
  <2> HIDE DEF pieces
  <2>3. /\ DOMAIN pieces = 1 .. Len(pieces) /\ Len(pieces) \in Nat
        /\ \A k \in DOMAIN pieces : pieces[k] \subseteq members
    BY <2>2
  <2>4. /\ DOMAIN new = 1 .. Len(pieces)
        /\ \A k \in DOMAIN pieces : new[k].nodes = pieces[k]
        /\ new \in Seq([nodes : SUBSET Nodes(graph), materialized : SUBSET Nodes(graph)])
    <3>1. \A k \in DOMAIN pieces :
            Region(graph, pieces[k]) \in [nodes : SUBSET Nodes(graph),
                                          materialized : SUBSET Nodes(graph)]
      BY <2>1, <2>3 DEF Region, Escaping
    <3>2. \A k \in DOMAIN pieces : new[k] = Region(graph, pieces[k])
      OBVIOUS
    <3>3. \A k \in DOMAIN pieces : new[k].nodes = pieces[k]
      BY <3>2 DEF Region
    <3> QED BY <2>3, <3>1, <3>3
  <2> HIDE DEF new
  <2> DEFINE q == regions \o new
             L == Len(regions)
  <2>5. /\ q \in Seq([nodes : SUBSET Nodes(graph), materialized : SUBSET Nodes(graph)])
        /\ L \in Nat /\ DOMAIN regions = 1 .. L /\ DOMAIN q = 1 .. L + Len(pieces)
        /\ \A r \in 1 .. L : q[r] = regions[r]
        /\ \A k \in 1 .. Len(pieces) : q[L + k] = new[k]
    <3> DEFINE R == [nodes : SUBSET Nodes(graph), materialized : SUBSET Nodes(graph)]
    <3>1. regions \in Seq(R) /\ new \in Seq(R)
      BY <1>8, <2>4
    <3> HIDE DEF R
    <3>2. Len(new) = Len(pieces)
      BY <2>3, <2>4, <3>1
    <3>3. /\ q \in Seq(R) /\ L \in Nat /\ DOMAIN regions = 1 .. L
          /\ DOMAIN q = 1 .. L + Len(new)
          /\ \A r \in 1 .. L : q[r] = regions[r]
          /\ \A k \in 1 .. Len(new) : q[L + k] = new[k]
      BY <3>1
    <3> QED BY <3>2, <3>3 DEF R
  <2> HIDE DEF q, L
  <2>6. \A r \in DOMAIN q :
          \/ r \in DOMAIN regions /\ q[r].nodes = regions[r].nodes
          \/ r - L \in DOMAIN pieces /\ q[r].nodes = pieces[r - L] /\ r \notin DOMAIN regions
    <3> SUFFICES ASSUME NEW r \in DOMAIN q, r \notin DOMAIN regions
                 PROVE  r - L \in DOMAIN pieces /\ q[r].nodes = pieces[r - L]
      BY <2>5
    <3>1. r - L \in 1 .. Len(pieces) /\ L + (r - L) = r
      BY <2>3, <2>5
    <3> QED BY <3>1, <2>3, <2>4, <2>5
  <2>7. \A r \in DOMAIN regions : regions[r].nodes \cap members = {}
    <3> SUFFICES ASSUME NEW r \in DOMAIN regions PROVE regions[r].nodes \cap members = {}
      OBVIOUS
    <3>1. PICK k \in Nodes(graph) : k < node /\ regions[r].nodes \subseteq Class(k)
      BY <1>8
    <3>2. k # node
      BY <3>1, <1>2, <1>5
    <3> QED BY <3>1, <3>2 DEF Class, members
  <2>8. \A r \in DOMAIN q :
          /\ q[r].nodes # {}
          /\ \E k \in Nodes(graph) :
               /\ k < node + 1 /\ q[r].nodes \subseteq Class(k)
               /\ \/ q[r].nodes = Class(k)
                  \/ \E n \in Nodes(graph) : q[r].nodes = {n}
    <3> SUFFICES ASSUME NEW r \in DOMAIN q
                 PROVE  /\ q[r].nodes # {}
                        /\ \E k \in Nodes(graph) :
                             /\ k < node + 1 /\ q[r].nodes \subseteq Class(k)
                             /\ \/ q[r].nodes = Class(k)
                                \/ \E n \in Nodes(graph) : q[r].nodes = {n}
      OBVIOUS
    <3>1. CASE r \in DOMAIN regions
      BY <2>5, <3>1, <1>8, <1>9
    <3>2. CASE r \notin DOMAIN regions
      <4>1. r - L \in DOMAIN pieces /\ q[r].nodes = pieces[r - L]
        BY <2>6, <3>2
      <4>2. /\ q[r].nodes # {} /\ q[r].nodes \subseteq members
            /\ q[r].nodes = members \/ \E n \in Nodes(graph) : q[r].nodes = {n}
        BY <4>1, <2>1, <2>2, <2>3
      <4>3. node < node + 1
        BY <1>2
      <4> QED BY <4>2, <4>3, <1>1 DEF members
    <3> QED BY <3>1, <3>2
  <2>9. \A r, s \in DOMAIN q : r # s => q[r].nodes \cap q[s].nodes = {}
    <3> SUFFICES ASSUME NEW r \in DOMAIN q, NEW s \in DOMAIN q, r # s
                 PROVE  q[r].nodes \cap q[s].nodes = {}
      OBVIOUS
    <3>1. CASE r \in DOMAIN regions /\ s \in DOMAIN regions
      BY <2>5, <3>1, <1>8
    <3>2. CASE r \in DOMAIN regions /\ s \notin DOMAIN regions
      BY <2>5, <2>6, <2>7, <2>3, <3>2
    <3>3. CASE r \notin DOMAIN regions /\ s \in DOMAIN regions
      BY <2>5, <2>6, <2>7, <2>3, <3>3
    <3>4. CASE r \notin DOMAIN regions /\ s \notin DOMAIN regions
      <4>1. r - L # s - L
        BY <2>5
      <4> QED BY <4>1, <2>2, <2>6, <3>4
    <3> QED BY <3>1, <3>2, <3>3, <3>4
  <2>10. \A n \in Nodes(graph) :
           parents[n] < node + 1 => \E r \in DOMAIN q : n \in q[r].nodes
    <3> SUFFICES ASSUME NEW n \in Nodes(graph), parents[n] < node + 1
                 PROVE  \E r \in DOMAIN q : n \in q[r].nodes
      OBVIOUS
    <3>1. CASE parents[n] = node
      <4>1. n \in members
        BY <3>1 DEF members, Class
      <4>2. PICK k \in DOMAIN pieces : n \in pieces[k]
        BY <4>1, <2>2
      <4>3. L + k \in DOMAIN q /\ q[L + k].nodes = pieces[k]
        BY <4>2, <2>3, <2>4, <2>5
      <4> QED BY <4>2, <4>3
    <3>2. CASE parents[n] # node
      <4>1. parents[n] < node
        BY <3>2, <1>2, <1>6
      <4>2. PICK r \in DOMAIN regions : n \in regions[r].nodes
        BY <4>1, <1>8
      <4>3. r \in DOMAIN q /\ q[r] = regions[r]
        BY <2>3, <2>5
      <4> QED BY <4>2, <4>3
    <3> QED BY <3>1, <3>2
  <2>13. \A r \in DOMAIN q :
           Cardinality(q[r].nodes) > 1 => PeakLiveBytes(graph, q[r].nodes) <= WorkingSet
    BY <1>8, <2>2, <2>6
  <2>14. ASSUME NEW k \in Nodes(graph), k < node + 1, Class(k) # {},
                PeakLiveBytes(graph, Class(k)) <= WorkingSet
         PROVE  \E r \in DOMAIN q : q[r].nodes = Class(k)
    <3>1. CASE k < node
      <4>1. PICK r \in DOMAIN regions : regions[r].nodes = Class(k)
        BY <1>8, <2>14, <3>1
      <4>2. r \in DOMAIN q /\ q[r] = regions[r]
        BY <4>1, <2>3, <2>5
      <4> QED BY <4>1, <4>2
    <3>2. CASE k = node
      <4>1. PICK j \in DOMAIN pieces : pieces[j] = members
        BY <2>2, <2>14, <3>2 DEF members
      <4>2. L + j \in DOMAIN q /\ q[L + j].nodes = pieces[j]
        BY <4>1, <2>3, <2>4, <2>5
      <4> QED BY <3>2, <4>1, <4>2 DEF members
    <3> QED BY <3>1, <3>2, <2>14, <1>20
  <2>11. Good(q)
    BY <2>5, <2>8, <2>9, <2>10, <2>13, <2>14
  <2>12. regions' = q
    BY <1>1, <1>11 DEF q
  <2> QED
    <3> HIDE DEF Good
    <3> QED BY <1>7, <2>11, <2>12
<1> QED BY <1>10, <1>11

LEMMA SetRegionsStep ==
  ASSUME IInv, SetRegions
  PROVE  IInv'
<1>1. /\ graph' = graph /\ parents' = parents /\ node' = node /\ slot' = slot
      /\ regions' = regions /\ phase = "forming" /\ phase' = "done"
      /\ node \notin Nodes(graph)
  BY DEF SetRegions
<1>2. Named /\ Formed /\ Sized
  BY <1>1 DEF IInv
<1>3. Named' /\ Formed'
  BY <1>1, <1>2 DEF Named, Formed, Class, NodesOf
<1>4. Sized'
  BY <1>1, <1>2 DEF Sized, Class, NodesOf
<1> QED BY <1>1, <1>3, <1>4 DEF IInv

LEMMA Inductive == IInv /\ [Next]_vars => IInv'
<1> SUFFICES ASSUME IInv, [Next]_vars PROVE IInv'
  OBVIOUS
<1>1. CASE UNCHANGED vars
  <2>1. /\ graph' = graph /\ parents' = parents /\ node' = node /\ slot' = slot
        /\ regions' = regions /\ phase' = phase
    BY <1>1 DEF vars
  <2>2. (Uniting => Uniting') /\ (Named => Named')
    BY <2>1 DEF Uniting, Named
  <2>3. Formed => Formed'
    BY <2>1 DEF Formed, Class, NodesOf
  <2>4. Sized => Sized'
    BY <2>1 DEF Sized, Class, NodesOf
  <2> QED BY <2>1, <2>2, <2>3, <2>4 DEF IInv
<1> QED
  BY <1>1, VisitOperandStep, NextNodeStep, GroupNodesStep, FormRegionStep,
     SetRegionsStep DEF Next, Done

(* The nodes of one parent, once regions are formed, are no more and no    *)
(* less than a component.                                                  *)
LEMMA ClassFacts ==
  ASSUME IInv, phase = "done", NEW k
  PROVE  /\ Class(k) \in Closed(graph)
         /\ \A set \in Closed(graph) : \A a, b \in Class(k) : a \in set <=> b \in set
<1>1. Named /\ IsGraph(graph)
  BY GraphsAssumption DEF IInv
<1>2. Class(k) \in Closed(graph)
  <2>1. \A e \in Fusible(graph) : e[1] \in Class(k) <=> e[2] \in Class(k)
    BY <1>1, FusibleFacts DEF Named, Class
  <2>2. Class(k) \in SUBSET Nodes(graph)
    BY DEF Class
  <2> QED BY <2>1, <2>2 DEF Closed
<1>3. \A set \in Closed(graph) : \A a, b \in Class(k) : a \in set <=> b \in set
  BY <1>1 DEF Named, Class
<1> QED BY <1>2, <1>3

(* The union-find of ANEFusionPass (ANEFusionPass.mm:41-55, 96-127) finds  *)
(* the components of the fusible edges on every graph, whatever order the  *)
(* edges come in, and no node is lost or in two regions.                   *)
THEOREM RegionsFound == Spec => []RegionsAreComponents
<1>1. Init => IInv
  BY InitIInv
<1>2. IInv /\ [Next]_vars => IInv'
  BY Inductive
<1>3. IInv => RegionsAreComponents
  <2> SUFFICES ASSUME IInv, phase = "done"
               PROVE  /\ UNION {NodesOf(r) : r \in DOMAIN regions} = Nodes(graph)
                      /\ \A r, s \in DOMAIN regions :
                           r # s => NodesOf(r) \cap NodesOf(s) = {}
                      /\ \A r \in DOMAIN regions :
                           Cardinality(NodesOf(r)) # 1 => NodesOf(r) \in Components(graph)
    BY DEF RegionsAreComponents, RegionsDone
  <2>1. Named /\ Formed /\ IsGraph(graph) /\ node \in Nat \ {0} /\ node \notin Nodes(graph)
    BY GraphsAssumption DEF IInv
  <2>2. UNION {NodesOf(r) : r \in DOMAIN regions} = Nodes(graph)
    <3>1. \A n \in Nodes(graph) : parents[n] < node
      BY <2>1, GraphFacts DEF Named
    <3>2. \A n \in Nodes(graph) : \E r \in DOMAIN regions : n \in NodesOf(r)
      BY <2>1, <3>1 DEF Formed
    <3>3. \A r \in DOMAIN regions : NodesOf(r) \subseteq Nodes(graph)
      BY <2>1 DEF Formed, Class
    <3> QED BY <3>2, <3>3
  <2>3. ASSUME NEW r \in DOMAIN regions, Cardinality(NodesOf(r)) # 1
        PROVE  NodesOf(r) \in Components(graph)
    <3>1. \A n : NodesOf(r) # {n}
      BY <2>3, FS_Singleton
    <3>2. PICK k \in Nodes(graph) : NodesOf(r) = Class(k)
      BY <2>1, <3>1 DEF Formed
    <3>3. PICK a \in Class(k) : TRUE
      BY <2>1, <3>2 DEF Formed
    <3>4. a \in Nodes(graph)
      BY <3>3 DEF Class
    <3>5. Class(k) = {m \in Nodes(graph) : \A set \in Closed(graph) : a \in set => m \in set}
      BY <3>3, ClassFacts DEF Class
    <3> QED BY <3>2, <3>4, <3>5 DEF Components
  <2> QED BY <2>1, <2>2, <2>3 DEF Formed
<1> QED BY <1>1, <1>2, <1>3, PTL DEF Spec

--------------------------------------------------------------------------------
(* The bytes of a set of values.                                           *)

Sums(g, values, f) ==
  f = [n \in 0 .. Len(g.op) |->
         IF n = 0 THEN 0 ELSE f[n - 1] + (IF n \in values THEN g.bytes[n] ELSE 0)]

Summed(g, values, f) ==
  /\ f \in [0 .. Len(g.op) -> Nat] /\ BytesOf(g, values) = f[Len(g.op)] /\ f[0] = 0
  /\ \A n \in Nodes(g) : f[n] = f[n - 1] + (IF n \in values THEN g.bytes[n] ELSE 0)

LEMMA BytesSum ==
  ASSUME NEW g, IsGraph(g), g.bytes \in [Nodes(g) -> Nat], NEW values
  PROVE  \E f : Summed(g, values, f)
<1> DEFINE L == Len(g.op)
           own(n) == IF n \in values THEN g.bytes[n] ELSE 0
           step == [s \in Nat \X (1 .. L) |-> s[1] + own(s[2])]
<1>1. L \in Nat /\ Nodes(g) = 1 .. L
  BY GraphFacts
<1>2. \A n \in 1 .. L : own(n) \in Nat
  BY <1>1
<1>3. step \in [Nat \X (1 .. L) -> Nat]
  <2> HIDE DEF own
  <2> QED BY <1>2
<1>4. \A a \in Nat : \A n \in 1 .. L : step[<<a, n>>] = a + own(n)
  OBVIOUS
<1>5. PICK h : Iterates(h, Nat, 0, step, L)
  <2> HIDE DEF step, L
  <2> QED BY <1>1, <1>3, Iterate
<1>6. Sums(g, values, h)
  <2>1. h \in [0 .. L -> Nat] /\ h[0] = 0 /\ \A n \in 1 .. L : h[n] = step[<<h[n - 1], n>>]
    BY <1>5 DEF Iterates
  <2>2. \A n \in 1 .. L : n - 1 \in 0 .. L
    BY <1>1
  <2> HIDE DEF step, own
  <2>3. \A n \in 1 .. L : h[n] = h[n - 1] + own(n)
    BY <1>4, <2>1, <2>2
  <2>4. \A n \in 0 .. L : h[n] = IF n = 0 THEN 0 ELSE h[n - 1] + own(n)
    BY <1>1, <2>1, <2>3
  <2>5. h = [n \in 0 .. L |-> IF n = 0 THEN 0 ELSE h[n - 1] + own(n)]
    BY <2>1, <2>4
  <2> QED BY <2>5 DEF Sums, own
<1> DEFINE F == CHOOSE f : Sums(g, values, f)
<1>7. Sums(g, values, F)
  BY <1>6
<1>8. BytesOf(g, values) = F[L]
  BY DEF BytesOf, Sums
<1> HIDE DEF F
<1>9. /\ DOMAIN F = 0 .. L
      /\ \A n \in 0 .. L : F[n] = IF n = 0 THEN 0 ELSE F[n - 1] + own(n)
  BY <1>7 DEF Sums
<1>10. F[0] = 0 /\ \A n \in Nodes(g) : F[n] = F[n - 1] + own(n)
  BY <1>1, <1>9
<1>11. \A n \in 0 .. L : F[n] \in Nat
  <2> DEFINE T == {n \in 0 .. L : F[n] \in Nat}
  <2>1. 0 \in T
    BY <1>1, <1>10
  <2>2. \A k \in 1 .. L : k - 1 \in T => k \in T
    <3>1. ASSUME NEW k \in 1 .. L, F[k - 1] \in Nat PROVE F[k] \in Nat
      <4>1. own(k) \in Nat /\ F[k] = F[k - 1] + own(k)
        BY <1>1, <1>2, <1>10
      <4> HIDE DEF own
      <4> QED BY <3>1, <4>1
    <3> QED BY <1>1, <3>1
  <2>3. \A k \in 0 .. L : k \in T
    <3> HIDE DEF T, L
    <3> QED BY <1>1, <2>1, <2>2, Climb
  <2> QED BY <2>3
<1>12. F \in [0 .. L -> Nat]
  <2>1. F = [n \in 0 .. L |-> F[n]]
    BY <1>7 DEF Sums
  <2> QED BY <2>1, <1>11
<1> QED BY <1>8, <1>10, <1>12 DEF Summed

LEMMA BytesFacts ==
  ASSUME NEW g, IsGraph(g), g.bytes \in [Nodes(g) -> Nat], NEW values
  PROVE  /\ BytesOf(g, values) \in Nat
         /\ \A v \in Nodes(g) : v \notin values =>
              BytesOf(g, values \cup {v}) = BytesOf(g, values) + g.bytes[v]
<1> DEFINE L == Len(g.op)
<1>1. L \in Nat /\ Nodes(g) = 1 .. L
  BY GraphFacts
<1>0. PICK f : Summed(g, values, f)
  BY BytesSum
<1>2. /\ f \in [0 .. L -> Nat] /\ BytesOf(g, values) = f[L] /\ f[0] = 0
      /\ \A n \in Nodes(g) :
           f[n] = f[n - 1] + (IF n \in values THEN g.bytes[n] ELSE 0)
  BY <1>0 DEF Summed
<1>3. ASSUME NEW v \in Nodes(g), v \notin values
      PROVE  BytesOf(g, values \cup {v}) = BytesOf(g, values) + g.bytes[v]
  <2>0. PICK h : Summed(g, values \cup {v}, h)
    BY BytesSum
  <2>1. /\ h \in [0 .. L -> Nat] /\ BytesOf(g, values \cup {v}) = h[L] /\ h[0] = 0
        /\ \A n \in Nodes(g) :
             h[n] = h[n - 1] + (IF n \in values \cup {v} THEN g.bytes[n] ELSE 0)
    BY <2>0 DEF Summed
  <2> DEFINE T == {n \in 0 .. L : h[n] = f[n] + (IF v <= n THEN g.bytes[v] ELSE 0)}
  <2>2. v \in 1 .. L /\ g.bytes[v] \in Nat
    BY <1>1
  <2>3. 0 \in T
    BY <1>1, <1>2, <2>1, <2>2
  <2>4. ASSUME NEW k \in 1 .. L, k - 1 \in T PROVE k \in T
    <3>1. k \in Nodes(g) /\ k - 1 \in 0 .. L /\ k \in 0 .. L
      BY <1>1
    <3>2. f[k - 1] \in Nat /\ h[k - 1] = f[k - 1] + (IF v <= k - 1 THEN g.bytes[v] ELSE 0)
      BY <1>2, <3>1, <2>4
    <3>3. CASE k = v
      <4>1. ~ v <= k - 1 /\ v <= k
        BY <3>3, <2>2
      <4>2. h[k] = h[k - 1] + g.bytes[v] /\ f[k] = f[k - 1] + 0
        BY <3>1, <3>3, <1>2, <1>3, <2>1
      <4>3. h[k] = f[k] + g.bytes[v]
        BY <4>1, <4>2, <3>2, <2>2
      <4> QED BY <3>1, <4>1, <4>3
    <3>4. CASE k # v
      <4>1. v <= k - 1 <=> v <= k
        BY <3>4, <2>2
      <4> DEFINE own == IF k \in values THEN g.bytes[k] ELSE 0
      <4>2. h[k] = h[k - 1] + own /\ f[k] = f[k - 1] + own
        BY <3>1, <3>4, <1>2, <2>1
      <4>3. own \in Nat
        BY <3>1
      <4> HIDE DEF own
      <4> DEFINE b == IF v <= k THEN g.bytes[v] ELSE 0
      <4>4. b \in Nat /\ h[k - 1] = f[k - 1] + b
        BY <4>1, <3>2, <2>2
      <4> HIDE DEF b
      <4>5. h[k] = f[k] + b
        BY <4>2, <4>3, <4>4, <3>2
      <4> QED BY <3>1, <4>5 DEF b
    <3> QED BY <3>3, <3>4
  <2>5. \A k \in 0 .. L : k \in T
    <3> HIDE DEF T, L
    <3> QED BY <1>1, <2>3, <2>4, Climb
  <2>6. L \in T /\ v <= L
    BY <1>1, <2>2, <2>5
  <2> QED BY <1>2, <2>1, <2>6
<1> QED BY <1>1, <1>2, <1>3

LEMMA UseListFacts ==
  ASSUME NEW g, IsGraph(g), NEW v
  PROVE  /\ IsFiniteSet(UseList(g, v))
         /\ \A u \in UseList(g, v) :
              /\ u[1] \in Nodes(g) /\ u[2] \in DOMAIN g.inputs[u[1]]
              /\ g.inputs[u[1]][u[2]] = v /\ u = <<u[1], u[2]>>
         /\ \A m \in Nodes(g) : \A k \in DOMAIN g.inputs[m] :
              g.inputs[m][k] = v => <<m, k>> \in UseList(g, v)
<1> DEFINE Uses(m) == {m} \X {k \in DOMAIN g.inputs[m] : g.inputs[m][k] = v}
           All == UNION {Uses(m) : m \in Nodes(g)}
<1>1. All = UseList(g, v)
  BY DEF UseList
<1>2. \A m \in Nodes(g) : IsFiniteSet(Uses(m))
  <2> SUFFICES ASSUME NEW m \in Nodes(g) PROVE IsFiniteSet(Uses(m))
    OBVIOUS
  <2>1. DOMAIN g.inputs[m] = 1 .. Len(g.inputs[m]) /\ Len(g.inputs[m]) \in Nat
    BY GraphFacts
  <2>2. IsFiniteSet(DOMAIN g.inputs[m])
    BY <2>1, FS_Interval
  <2>3. IsFiniteSet({k \in DOMAIN g.inputs[m] : g.inputs[m][k] = v})
    BY <2>2, FS_Subset
  <2> QED BY <2>3, FS_Singleton, FS_Product
<1>3. IsFiniteSet(All)
  <2> DEFINE T == {Uses(m) : m \in Nodes(g)}
             f == [m \in Nodes(g) |-> Uses(m)]
  <2>1. IsFiniteSet(Nodes(g))
    BY GraphFacts
  <2>2. f \in Surjection(Nodes(g), T)
    <3> HIDE DEF Uses
    <3> QED BY DEF Surjection
  <2>3. \A S \in T : IsFiniteSet(S)
    BY <1>2
  <2> HIDE DEF f, T
  <2>4. IsFiniteSet(T)
    BY <2>1, <2>2, FS_Surjection
  <2>5. IsFiniteSet(UNION T)
    BY <2>3, <2>4, FS_UNION
  <2> QED BY <2>5 DEF T
<1>4. \A m \in Nodes(g) : \A k \in DOMAIN g.inputs[m] : g.inputs[m][k] = v => <<m, k>> \in All
  OBVIOUS
<1>5. \A u \in All :
        /\ u[1] \in Nodes(g) /\ u[2] \in DOMAIN g.inputs[u[1]]
        /\ g.inputs[u[1]][u[2]] = v /\ u = <<u[1], u[2]>>
  OBVIOUS
<1> HIDE DEF All
<1> QED BY <1>1, <1>3, <1>4, <1>5

(* The uses of v among members that node n, after its first k operands,    *)
(* and the nodes below it still have to make; and the values alive then.   *)
Ahead(g, members, v, n, k) ==
  {u \in UseList(g, v) : u[1] \in members /\ (u[1] > n \/ (u[1] = n /\ u[2] > k))}

Kept(g, v) == IF v \in g.outputs THEN 1 ELSE 0

Needed(g, members, v, n, k) ==
  v \in g.outputs \/ Users(g, v) \cap members = {} \/ Ahead(g, members, v, n, k) # {}

Living(g, members, top, n, k) == {v \in members : v <= top /\ Needed(g, members, v, n, k)}

LEMMA AheadFacts ==
  ASSUME NEW g, IsGraph(g), NEW members \in SUBSET Nodes(g), NEW v \in Nodes(g),
         NEW n \in Nat, NEW k \in Nat
  PROVE  /\ IsFiniteSet(Ahead(g, members, v, n, k))
         /\ Cardinality(Ahead(g, members, v, n, k)) \in Nat
         /\ Cardinality(Ahead(g, members, v, n, k)) = 0 <=> Ahead(g, members, v, n, k) = {}
<1>1. IsFiniteSet(Ahead(g, members, v, n, k))
  BY UseListFacts, FS_Subset DEF Ahead
<1> QED BY <1>1, FS_CardinalityType, FS_EmptySet

(* The values alive when a member has run are those LiveAt names.          *)
LEMMA LivingIsLive ==
  ASSUME NEW g, IsGraph(g), NEW members \in SUBSET Nodes(g), NEW n \in members
  PROVE  Living(g, members, n, n, 0) = LiveAt(g, members, n)
<1>0. Nodes(g) \subseteq Nat /\ n \in Nat
  BY GraphFacts
<1> SUFFICES ASSUME NEW v \in members
             PROVE  Ahead(g, members, v, n, 0) # {} <=> \E m \in Users(g, v) \cap members : m >= n
  BY DEF Living, LiveAt, Needed
<1>1. ASSUME NEW u \in Ahead(g, members, v, n, 0)
      PROVE  \E m \in Users(g, v) \cap members : m >= n
  <2>1. /\ u \in UseList(g, v) /\ u[1] \in members
        /\ u[1] > n \/ u[1] = n
    BY <1>1 DEF Ahead
  <2>2. u[1] \in Nodes(g) /\ u[2] \in DOMAIN g.inputs[u[1]] /\ g.inputs[u[1]][u[2]] = v
    BY <2>1, UseListFacts
  <2>3. v \in Reads(g, u[1])
    BY <2>2, GraphFacts
  <2>4. u[1] >= n
    BY <2>1, <2>2, <1>0
  <2> QED BY <2>1, <2>2, <2>3, <2>4 DEF Users
<1>2. ASSUME NEW m \in Users(g, v) \cap members, m >= n
      PROVE  Ahead(g, members, v, n, 0) # {}
  <2>1. m \in Nodes(g) /\ v \in Reads(g, m) /\ m \in members /\ m \in Nat
    BY <1>0, <1>2 DEF Users
  <2>2. PICK k \in DOMAIN g.inputs[m] : g.inputs[m][k] = v
    BY <2>1, GraphFacts
  <2>3. k \in Nat /\ k > 0
    BY <2>1, <2>2, GraphFacts
  <2>4. <<m, k>> \in UseList(g, v)
    BY <2>1, <2>2, UseListFacts
  <2>5. <<m, k>>[1] = m /\ <<m, k>>[2] = k /\ (m > n \/ m = n)
    BY <1>0, <1>2, <2>1
  <2>6. <<m, k>> \in Ahead(g, members, v, n, 0)
    BY <2>1, <2>3, <2>4, <2>5 DEF Ahead
  <2> QED BY <2>6
<1> QED BY <1>1, <1>2

States(members) == [live : Int, peak : Int, remaining : [members -> Int]]

(* What peakLiveBytes has computed when it has counted the members up to   *)
(* top and consumed the operands before the next one of n after the k-th.  *)
Tracks(g, members, s, top, n, k) ==
  /\ s \in States(members)
  /\ \A v \in members :
       s.remaining[v] = Cardinality(Ahead(g, members, v, n, k)) + Kept(g, v)
  /\ s.live = BytesOf(g, Living(g, members, top, n, k))
  /\ s.peak >= 0
  /\ \A m \in members : m <= top => BytesOf(g, LiveAt(g, members, m)) <= s.peak
  /\ s.peak = 0 \/ \E m \in members : m <= top /\ s.peak = BytesOf(g, LiveAt(g, members, m))

(* Nothing depends on where the walk stands but the uses ahead.            *)
LEMMA SameTracks ==
  ASSUME NEW g, IsGraph(g), NEW members \in SUBSET Nodes(g), NEW s,
         NEW top, NEW n, NEW k, Tracks(g, members, s, top, n, k),
         NEW top2, NEW n2, NEW k2,
         \A m \in members : m <= top2 <=> m <= top,
         \A v \in members : Ahead(g, members, v, n2, k2) = Ahead(g, members, v, n, k)
  PROVE  Tracks(g, members, s, top2, n2, k2)
<1>1. Living(g, members, top2, n2, k2) = Living(g, members, top, n, k)
  BY DEF Living, Needed
<1> QED BY <1>1 DEF Tracks

LEMMA TrackSkip ==
  ASSUME NEW g, IsGraph(g), NEW members \in SUBSET Nodes(g), NEW s,
         NEW n \in Nodes(g), n \notin members, Tracks(g, members, s, n - 1, n, 0)
  PROVE  Tracks(g, members, s, n, n + 1, 0)
<1>1. n \in Nat /\ members \subseteq Nat
  BY GraphFacts
<1>2. \A m \in members : m <= n <=> m <= n - 1
  BY <1>1
<1>3. \A v \in members : Ahead(g, members, v, n + 1, 0) = Ahead(g, members, v, n, 0)
  <2> SUFFICES ASSUME NEW v \in members, NEW u \in UseList(g, v), u[1] \in members
               PROVE  (u[1] > n + 1 \/ (u[1] = n + 1 /\ u[2] > 0)) <=>
                      (u[1] > n \/ (u[1] = n /\ u[2] > 0))
    BY DEF Ahead
  <2>1. u[1] \in Nodes(g) /\ u[2] \in DOMAIN g.inputs[u[1]]
    BY UseListFacts
  <2>2. /\ u[1] \in Nat /\ u[1] # n
        /\ DOMAIN g.inputs[u[1]] = 1 .. Len(g.inputs[u[1]]) /\ Len(g.inputs[u[1]]) \in Nat
    BY <1>1, <2>1, GraphFacts
  <2>3. u[2] \in Nat /\ u[2] > 0
    BY <2>1, <2>2
  <2> QED BY <1>1, <2>2, <2>3
<1> QED BY <1>2, <1>3, SameTracks

LEMMA TrackNext ==
  ASSUME NEW g, IsGraph(g), NEW members \in SUBSET Nodes(g), NEW s,
         NEW n \in members, Tracks(g, members, s, n, n, Len(g.inputs[n]))
  PROVE  Tracks(g, members, s, n, n + 1, 0)
<1>1. n \in Nat /\ members \subseteq Nat
  BY GraphFacts
<1>3. \A v \in members : Ahead(g, members, v, n + 1, 0) = Ahead(g, members, v, n, Len(g.inputs[n]))
  <2> SUFFICES ASSUME NEW v \in members, NEW u \in UseList(g, v), u[1] \in members
               PROVE  (u[1] > n + 1 \/ (u[1] = n + 1 /\ u[2] > 0)) <=>
                      (u[1] > n \/ (u[1] = n /\ u[2] > Len(g.inputs[n])))
    BY DEF Ahead
  <2>1. u[1] \in Nodes(g) /\ u[2] \in DOMAIN g.inputs[u[1]]
    BY UseListFacts
  <2>2. /\ u[1] \in Nat
        /\ DOMAIN g.inputs[u[1]] = 1 .. Len(g.inputs[u[1]]) /\ Len(g.inputs[u[1]]) \in Nat
    BY <1>1, <2>1, GraphFacts
  <2>3. u[2] \in Nat /\ u[2] > 0 /\ u[2] <= Len(g.inputs[u[1]])
    BY <2>1, <2>2
  <2> QED BY <1>1, <2>2, <2>3
<1> QED BY <1>3, SameTracks

LEMMA TrackProduce ==
  ASSUME NEW g, IsGraph(g), g.bytes \in [Nodes(g) -> Nat], NEW members \in SUBSET Nodes(g),
         NEW s, NEW n \in members, Tracks(g, members, s, n - 1, n, 0)
  PROVE  Tracks(g, members, Produce(g, s, n), n, n, 0)
<1> DEFINE t == Produce(g, s, n)
           live == s.live + g.bytes[n]
           before == Living(g, members, n - 1, n, 0)
           now == Living(g, members, n, n, 0)
<1>1. n \in Nat /\ members \subseteq Nat /\ n \in Nodes(g) /\ g.bytes[n] \in Nat
  BY GraphFacts
<1>2. now = before \cup {n} /\ n \notin before
  <2>1. \A v \in members : v <= n <=> (v <= n - 1 \/ v = n)
    BY <1>1
  <2>2. ~ n <= n - 1 /\ n <= n
    BY <1>1
  <2>3. Needed(g, members, n, n, 0)
    <3> SUFFICES ASSUME NEW m \in Users(g, n) \cap members
                 PROVE  Ahead(g, members, n, n, 0) # {}
      BY DEF Needed
    <3>1. m \in Nodes(g) /\ n \in Reads(g, m) /\ m \in members /\ m \in Nat
      BY <1>1 DEF Users
    <3>2. n < m
      BY <3>1, GraphFacts
    <3>3. PICK k \in DOMAIN g.inputs[m] : g.inputs[m][k] = n
      BY <3>1, GraphFacts
    <3>4. <<m, k>> \in UseList(g, n)
      BY <3>1, <3>3, UseListFacts
    <3>5. <<m, k>>[1] = m /\ m > n
      BY <1>1, <3>1, <3>2
    <3>6. <<m, k>> \in Ahead(g, members, n, n, 0)
      BY <3>1, <3>4, <3>5 DEF Ahead
    <3> QED BY <3>6
  <2> QED BY <2>1, <2>2, <2>3 DEF Living
<1>3. BytesOf(g, now) = BytesOf(g, before) + g.bytes[n] /\ BytesOf(g, before) \in Nat
  BY <1>1, <1>2, BytesFacts
<1>4. /\ s \in States(members) /\ s.live = BytesOf(g, before) /\ s.peak >= 0
      /\ \A v \in members :
           s.remaining[v] = Cardinality(Ahead(g, members, v, n, 0)) + Kept(g, v)
      /\ \A m \in members : m <= n - 1 => BytesOf(g, LiveAt(g, members, m)) <= s.peak
      /\ s.peak = 0 \/ \E m \in members : m <= n - 1 /\ s.peak = BytesOf(g, LiveAt(g, members, m))
  BY DEF Tracks
<1>5. now = LiveAt(g, members, n)
  BY LivingIsLive
<1>6. live = BytesOf(g, now) /\ live \in Nat
  BY <1>1, <1>3, <1>4
<1>7. /\ t.live = live /\ t.peak = (IF live > s.peak THEN live ELSE s.peak)
      /\ t.remaining = s.remaining
      /\ t = [live |-> live, peak |-> IF live > s.peak THEN live ELSE s.peak,
              remaining |-> s.remaining]
  BY DEF Produce
<1>8. s.peak \in Int /\ s.remaining \in [members -> Int]
  BY <1>4 DEF States
<1> HIDE DEF t, live, now, before
<1>9. t.peak \in Int /\ t.peak >= 0 /\ t.peak >= s.peak /\ t.peak >= live
      /\ (t.peak = live \/ t.peak = s.peak)
  BY <1>4, <1>6, <1>7, <1>8
<1>10. t \in States(members)
  BY <1>6, <1>7, <1>8, <1>9 DEF States
<1>11. \A m \in members : m <= n => BytesOf(g, LiveAt(g, members, m)) <= t.peak
  <2> SUFFICES ASSUME NEW m \in members, m <= n
               PROVE  BytesOf(g, LiveAt(g, members, m)) <= t.peak
    OBVIOUS
  <2>1. CASE m = n
    BY <2>1, <1>5, <1>6, <1>9
  <2>2. CASE m # n
    <3>1. m <= n - 1
      BY <2>2, <1>1
    <3>2. BytesOf(g, LiveAt(g, members, m)) <= s.peak /\ BytesOf(g, LiveAt(g, members, m)) \in Nat
      BY <3>1, <1>4, BytesFacts
    <3> QED BY <3>2, <1>8, <1>9
  <2> QED BY <2>1, <2>2
<1>12. t.peak = 0 \/ \E m \in members : m <= n /\ t.peak = BytesOf(g, LiveAt(g, members, m))
  <2>1. CASE t.peak = live
    <3>1. n <= n
      BY <1>1
    <3> QED BY <2>1, <3>1, <1>5, <1>6
  <2>2. CASE t.peak = s.peak /\ s.peak # 0
    <3>1. PICK m \in members : m <= n - 1 /\ s.peak = BytesOf(g, LiveAt(g, members, m))
      BY <2>2, <1>4
    <3>2. m <= n
      BY <3>1, <1>1
    <3> QED BY <2>2, <3>1, <3>2
  <2> QED BY <2>1, <2>2, <1>9
<1>13. t.live = BytesOf(g, Living(g, members, n, n, 0))
  BY <1>6, <1>7 DEF now
<1>14. \A v \in members : t.remaining[v] = Cardinality(Ahead(g, members, v, n, 0)) + Kept(g, v)
  BY <1>4, <1>7
<1>15. Tracks(g, members, t, n, n, 0)
  BY <1>9, <1>10, <1>11, <1>12, <1>13, <1>14 DEF Tracks
<1> QED BY <1>15 DEF t

(* An operand takes one use off its value and off no other.                *)
TakesOne(g, members, v, n, k) ==
  /\ v # g.inputs[n][k] =>
       Ahead(g, members, v, n, k) = Ahead(g, members, v, n, k - 1)
  /\ v = g.inputs[n][k] =>
       /\ <<n, k>> \in Ahead(g, members, v, n, k - 1)
       /\ Ahead(g, members, v, n, k) = Ahead(g, members, v, n, k - 1) \ {<<n, k>>}

LEMMA AheadStep ==
  ASSUME NEW g, IsGraph(g), NEW members \in SUBSET Nodes(g), NEW n \in members,
         NEW k \in DOMAIN g.inputs[n], NEW v \in members
  PROVE  TakesOne(g, members, v, n, k)
<1>1. /\ n \in Nat /\ members \subseteq Nat /\ n \in Nodes(g) /\ v \in Nodes(g)
      /\ k \in Nat /\ k > 0
  BY GraphFacts
<1>2. \A u \in UseList(g, v) :
        /\ u[1] \in Nat /\ u[2] \in Nat /\ g.inputs[u[1]][u[2]] = v /\ u = <<u[1], u[2]>>
  <2> SUFFICES ASSUME NEW u \in UseList(g, v)
               PROVE  u[1] \in Nat /\ u[2] \in Nat /\ g.inputs[u[1]][u[2]] = v /\ u = <<u[1], u[2]>>
    OBVIOUS
  <2>1. /\ u[1] \in Nodes(g) /\ u[2] \in DOMAIN g.inputs[u[1]]
        /\ g.inputs[u[1]][u[2]] = v /\ u = <<u[1], u[2]>>
    BY UseListFacts
  <2>2. u[1] \in Nat /\ DOMAIN g.inputs[u[1]] = 1 .. Len(g.inputs[u[1]])
    BY <2>1, GraphFacts
  <2> QED BY <2>1, <2>2
<1>3. \A u \in UseList(g, v) :
        (u[1] > n \/ (u[1] = n /\ u[2] > k)) <=>
        (u[1] > n \/ (u[1] = n /\ u[2] > k - 1)) /\ u # <<n, k>>
  <2> SUFFICES ASSUME NEW u \in UseList(g, v)
               PROVE  (u[1] > n \/ (u[1] = n /\ u[2] > k)) <=>
                      (u[1] > n \/ (u[1] = n /\ u[2] > k - 1)) /\ u # <<n, k>>
    OBVIOUS
  <2>1. u = <<n, k>> <=> u[1] = n /\ u[2] = k
    BY <1>2
  <2>2. u[1] \in Nat /\ u[2] \in Nat
    BY <1>2
  <2> QED BY <1>1, <2>1, <2>2
<1>4. Ahead(g, members, v, n, k) = Ahead(g, members, v, n, k - 1) \ {<<n, k>>}
  BY <1>3 DEF Ahead
<1>5. ASSUME v # g.inputs[n][k] PROVE <<n, k>> \notin Ahead(g, members, v, n, k - 1)
  BY <1>2, <1>5 DEF Ahead
<1>6. ASSUME v = g.inputs[n][k] PROVE <<n, k>> \in Ahead(g, members, v, n, k - 1)
  <2>1. <<n, k>> \in UseList(g, v)
    BY <1>1, <1>6, UseListFacts
  <2>2. <<n, k>>[1] = n /\ <<n, k>>[2] = k /\ k > k - 1
    BY <1>1
  <2> QED BY <2>1, <2>2 DEF Ahead
<1> QED BY <1>4, <1>5, <1>6 DEF TakesOne

LEMMA TrackConsume ==
  ASSUME NEW g, IsGraph(g), g.bytes \in [Nodes(g) -> Nat], NEW members \in SUBSET Nodes(g),
         NEW s, NEW n \in members, NEW k \in DOMAIN g.inputs[n],
         Tracks(g, members, s, n, n, k - 1)
  PROVE  Tracks(g, members, Consume(g, members, s, g.inputs[n][k]), n, n, k)
<1> DEFINE i == g.inputs[n][k]
           t == Consume(g, members, s, i)
<1>1. /\ n \in Nat /\ members \subseteq Nat /\ n \in Nodes(g) /\ i \in Nodes(g) /\ i < n
      /\ k \in Nat /\ k - 1 \in Nat /\ i \in Nat
  BY GraphFacts
<1>2. /\ s \in States(members) /\ s.live = BytesOf(g, Living(g, members, n, n, k - 1))
      /\ s.peak >= 0
      /\ \A v \in members :
           s.remaining[v] = Cardinality(Ahead(g, members, v, n, k - 1)) + Kept(g, v)
      /\ \A m \in members : m <= n => BytesOf(g, LiveAt(g, members, m)) <= s.peak
      /\ s.peak = 0 \/ \E m \in members : m <= n /\ s.peak = BytesOf(g, LiveAt(g, members, m))
  BY DEF Tracks
<1>0. \A v \in members : TakesOne(g, members, v, n, k)
  <2> HIDE DEF i
  <2> QED BY AheadStep
<1>3. \A v \in members : v # i => Ahead(g, members, v, n, k) = Ahead(g, members, v, n, k - 1)
  BY <1>0 DEF TakesOne
<1>4. CASE i \notin members
  <2>1. t = s
    BY <1>4 DEF Consume
  <2>2. \A v \in members : Ahead(g, members, v, n, k) = Ahead(g, members, v, n, k - 1)
    BY <1>3, <1>4
  <2>3. Tracks(g, members, s, n, n, k)
    BY <2>2, SameTracks
  <2> QED BY <2>1, <2>3
<1>5. CASE i \in members
  <2> DEFINE old == Ahead(g, members, i, n, k - 1)
             now == Ahead(g, members, i, n, k)
             before == Living(g, members, n, n, k - 1)
             after == Living(g, members, n, n, k)
  <2>1. <<n, k>> \in old /\ now = old \ {<<n, k>>}
    BY <1>0, <1>5 DEF TakesOne
  <2>2. /\ IsFiniteSet(old) /\ Cardinality(old) \in Nat
        /\ Cardinality(now) \in Nat /\ (Cardinality(now) = 0 <=> now = {})
    BY <1>1, AheadFacts
  <2>3. Cardinality(now) = Cardinality(old) - 1
    <3> HIDE DEF old, now
    <3> QED BY <2>1, <2>2, FS_RemoveElement
  <2>4. s.remaining[i] = Cardinality(old) + Kept(g, i) /\ Kept(g, i) \in {0, 1}
    BY <1>2, <1>5 DEF Kept
  <2>5. i \in before
    <3>1. Needed(g, members, i, n, k - 1)
      BY <2>1 DEF Needed
    <3>2. i <= n
      BY <1>1
    <3> QED BY <1>5, <3>1, <3>2 DEF Living
  <2>6. \A v \in members : v # i => (v \in after <=> v \in before)
    BY <1>3 DEF Living, Needed
  <2>7. Users(g, i) \cap members # {}
    BY <1>1, GraphFacts DEF Users
  <2>8. i \in after <=> Kept(g, i) = 1 \/ now # {}
    <3>1. i <= n
      BY <1>1
    <3>2. i \in after <=> Needed(g, members, i, n, k)
      BY <1>5, <3>1 DEF Living
    <3>3. Kept(g, i) = 1 <=> i \in g.outputs
      BY DEF Kept
    <3> HIDE DEF i, after
    <3> QED BY <2>7, <3>2, <3>3 DEF Needed
  <2>9. after \subseteq members /\ before \subseteq members
    BY DEF Living
  <2>10. /\ s.live \in Int /\ s.peak \in Int /\ s.remaining \in [members -> Int]
    BY <1>2 DEF States
  <2> HIDE DEF i, old, now, before, after
  <2>11. s.remaining[i] # 0
    <3>1. Cardinality(old) = Cardinality(now) + 1
      BY <2>2, <2>3
    <3> QED BY <3>1, <2>2, <2>4
  <2> DEFINE live == IF s.remaining[i] = 1 THEN s.live - g.bytes[i] ELSE s.live
             rest == [s.remaining EXCEPT ![i] = @ - 1]
  <2>12. t = [live |-> live, peak |-> s.peak, remaining |-> rest]
    BY <1>5, <2>11 DEF Consume
  <2>13. live = BytesOf(g, after) /\ live \in Int
    <3>0. g.bytes[i] \in Nat /\ s.live = BytesOf(g, before)
      BY <1>1, <1>2 DEF before
    <3>1. CASE s.remaining[i] = 1
      <4>1. Kept(g, i) = 0 /\ now = {}
        <5>1. Cardinality(old) = Cardinality(now) + 1
          BY <2>2, <2>3
        <5>2. Kept(g, i) = 0 /\ Cardinality(now) = 0
          BY <5>1, <3>1, <2>2, <2>4
        <5> QED BY <5>2, <2>2
      <4>2. before = after \cup {i} /\ i \notin after
        BY <4>1, <2>5, <2>6, <2>8, <2>9
      <4>3. BytesOf(g, before) = BytesOf(g, after) + g.bytes[i] /\ BytesOf(g, after) \in Nat
        BY <1>1, <4>2, BytesFacts
      <4>4. s.live - g.bytes[i] = BytesOf(g, after)
        BY <4>3, <3>0
      <4> QED BY <4>3, <4>4, <3>1
    <3>2. CASE s.remaining[i] # 1
      <4>1. Kept(g, i) = 1 \/ now # {}
        <5>1. Cardinality(old) = Cardinality(now) + 1
          BY <2>2, <2>3
        <5>2. Kept(g, i) = 1 \/ Cardinality(now) # 0
          BY <5>1, <3>2, <2>2, <2>4
        <5> QED BY <5>2, <2>2
      <4>2. before = after
        BY <4>1, <2>5, <2>6, <2>8, <2>9
      <4> QED BY <4>2, <3>0, <3>2, <2>10
    <3> QED BY <3>1, <3>2
  <2>14. /\ rest \in [members -> Int]
         /\ \A v \in members : rest[v] = Cardinality(Ahead(g, members, v, n, k)) + Kept(g, v)
    <3>1. rest \in [members -> Int]
      BY <2>10, <1>5
    <3>2. rest[i] = s.remaining[i] - 1 /\ \A v \in members : v # i => rest[v] = s.remaining[v]
      BY <2>10, <1>5
    <3>3. rest[i] = Cardinality(now) + Kept(g, i)
      BY <3>2, <2>2, <2>3, <2>4
    <3>4. \A v \in members : v # i => rest[v] = Cardinality(Ahead(g, members, v, n, k)) + Kept(g, v)
      BY <3>2, <1>2, <1>3 DEF i
    <3> HIDE DEF rest
    <3> QED BY <3>1, <3>3, <3>4 DEF now
  <2> HIDE DEF live, rest
  <2>15. t.live = live /\ t.peak = s.peak /\ t.remaining = rest
    BY <2>12
  <2>16. t \in States(members)
    BY <2>10, <2>12, <2>13, <2>14 DEF States
  <2>17. t.live = BytesOf(g, Living(g, members, n, n, k))
    BY <2>13, <2>15 DEF after
  <2>18. Tracks(g, members, t, n, n, k)
    <3> HIDE DEF t
    <3> QED BY <1>2, <2>14, <2>15, <2>16, <2>17 DEF Tracks
  <2> QED BY <2>18 DEF i
<1> QED BY <1>4, <1>5

LEMMA StepTypes ==
  ASSUME NEW g, IsGraph(g), g.bytes \in [Nodes(g) -> Nat], NEW members \in SUBSET Nodes(g),
         NEW s \in States(members), NEW i \in Nodes(g)
  PROVE  Produce(g, s, i) \in States(members) /\ Consume(g, members, s, i) \in States(members)
<1>1. /\ s.live \in Int /\ s.peak \in Int /\ s.remaining \in [members -> Int]
      /\ g.bytes[i] \in Int
  BY DEF States
<1>2. Produce(g, s, i) \in States(members)
  <2> DEFINE live == s.live + g.bytes[i]
  <2>1. live \in Int
    BY <1>1
  <2>2. Produce(g, s, i) = [live |-> live, peak |-> IF live > s.peak THEN live ELSE s.peak,
                            remaining |-> s.remaining]
    BY DEF Produce
  <2> HIDE DEF live
  <2> QED BY <1>1, <2>1, <2>2 DEF States
<1>3. Consume(g, members, s, i) \in States(members)
  <2>1. CASE i \notin members \/ s.remaining[i] = 0
    BY <2>1 DEF Consume
  <2>2. CASE ~ (i \notin members \/ s.remaining[i] = 0)
    <3> DEFINE live == IF s.remaining[i] = 1 THEN s.live - g.bytes[i] ELSE s.live
               rest == [s.remaining EXCEPT ![i] = @ - 1]
    <3>1. live \in Int /\ rest \in [members -> Int]
      BY <1>1, <2>2
    <3>2. Consume(g, members, s, i) = [live |-> live, peak |-> s.peak, remaining |-> rest]
      BY <2>2 DEF Consume
    <3> HIDE DEF live, rest
    <3> QED BY <1>1, <3>1, <3>2 DEF States
  <2> QED BY <2>1, <2>2
<1> QED BY <1>2, <1>3

(* The states a node passes through: its result is produced, then its      *)
(* operands are consumed.                                                  *)
Runs(g, members, s, n, f) ==
  f = [k \in 0 .. Len(g.inputs[n]) |->
         IF k = 0 THEN Produce(g, s, n) ELSE Consume(g, members, f[k - 1], g.inputs[n][k])]

LEMMA RunExists ==
  ASSUME NEW g, IsGraph(g), g.bytes \in [Nodes(g) -> Nat], NEW members \in SUBSET Nodes(g),
         NEW s \in States(members), NEW n \in Nodes(g)
  PROVE  \E f : /\ Runs(g, members, s, n, f) /\ f \in [0 .. Len(g.inputs[n]) -> States(members)]
                /\ RunNode(g, members, s, n) = f[Len(g.inputs[n])]
<1> DEFINE L == Len(g.inputs[n])
           S == States(members)
           base == Produce(g, s, n)
           step == [a \in S \X (1 .. L) |-> Consume(g, members, a[1], g.inputs[n][a[2]])]
<1>1. L \in Nat /\ \A k \in 1 .. L : g.inputs[n][k] \in Nodes(g)
  <2>1. L \in Nat /\ DOMAIN g.inputs[n] = 1 .. L
    BY GraphFacts
  <2>2. \A k \in DOMAIN g.inputs[n] : g.inputs[n][k] \in Nodes(g)
    BY GraphFacts
  <2> QED BY <2>1, <2>2
<1>2. base \in S
  BY StepTypes
<1>3. \A a \in S : \A k \in 1 .. L : Consume(g, members, a, g.inputs[n][k]) \in S
  BY <1>1, StepTypes
<1>4. step \in [S \X (1 .. L) -> S]
  <2> HIDE DEF S, L
  <2> QED BY <1>3
<1>5. \A a \in S : \A k \in 1 .. L : step[<<a, k>>] = Consume(g, members, a, g.inputs[n][k])
  <2> HIDE DEF S, L
  <2> QED OBVIOUS
<1>6. PICK h : Iterates(h, S, base, step, L)
  <2> HIDE DEF step, L, S, base
  <2> QED BY <1>1, <1>2, <1>4, Iterate
<1>7. Runs(g, members, s, n, h)
  <2> HIDE DEF S, step, base, L
  <2>1. h \in [0 .. L -> S] /\ h[0] = base /\ \A k \in 1 .. L : h[k] = step[<<h[k - 1], k>>]
    BY <1>6 DEF Iterates
  <2>2. \A k \in 1 .. L : k - 1 \in 0 .. L
    BY <1>1
  <2>3. \A k \in 1 .. L : h[k] = Consume(g, members, h[k - 1], g.inputs[n][k])
    BY <1>5, <2>1, <2>2
  <2>4. \A k \in 0 .. L :
          h[k] = IF k = 0 THEN base ELSE Consume(g, members, h[k - 1], g.inputs[n][k])
    BY <1>1, <2>1, <2>3
  <2>5. h = [k \in 0 .. L |->
               IF k = 0 THEN base ELSE Consume(g, members, h[k - 1], g.inputs[n][k])]
    BY <2>1, <2>4
  <2> QED BY <2>5 DEF Runs, L, base
<1> DEFINE F == CHOOSE f : Runs(g, members, s, n, f)
<1>8. Runs(g, members, s, n, F)
  BY <1>7
<1>9. RunNode(g, members, s, n) = F[L]
  BY DEF RunNode, Runs
<1> HIDE DEF F
<1>10. /\ DOMAIN F = 0 .. L
       /\ \A k \in 0 .. L :
            F[k] = IF k = 0 THEN base ELSE Consume(g, members, F[k - 1], g.inputs[n][k])
       /\ F = [k \in 0 .. L |-> F[k]]
  BY <1>8 DEF Runs
<1>11. \A k \in 0 .. L : F[k] \in S
  <2> DEFINE T == {k \in 0 .. L : F[k] \in S}
  <2>1. 0 \in T
    <3>1. 0 \in 0 .. L /\ F[0] = base
      <4> HIDE DEF L, base
      <4>1. 0 \in 0 .. L
        BY <1>1
      <4>2. F[0] = IF 0 = 0 THEN base ELSE Consume(g, members, F[0 - 1], g.inputs[n][0])
        BY <4>1, <1>10
      <4> QED BY <4>1, <4>2
    <3> HIDE DEF L, S, base
    <3> QED BY <1>2, <3>1
  <2>2. ASSUME NEW k \in 1 .. L, k - 1 \in T PROVE k \in T
    <3>1. k \in 0 .. L /\ k # 0
      <4> HIDE DEF L
      <4> QED BY <1>1
    <3>2. F[k] = Consume(g, members, F[k - 1], g.inputs[n][k])
      <4> HIDE DEF L, base
      <4> QED BY <1>10, <3>1
    <3>3. F[k - 1] \in S
      BY <2>2
    <3> HIDE DEF L, S
    <3> QED BY <1>3, <3>1, <3>2, <3>3
  <2>3. \A k \in 0 .. L : k \in T
    <3> HIDE DEF T
    <3> QED BY <1>1, <2>1, <2>2, Climb
  <2> QED BY <2>3
<1>12. F \in [0 .. L -> S]
  BY <1>10, <1>11
<1> QED BY <1>8, <1>9, <1>12

LEMMA RunTracks ==
  ASSUME NEW g, IsGraph(g), g.bytes \in [Nodes(g) -> Nat], NEW members \in SUBSET Nodes(g),
         NEW s, NEW n \in members, Tracks(g, members, s, n - 1, n, 0)
  PROVE  Tracks(g, members, RunNode(g, members, s, n), n, n + 1, 0)
<1> DEFINE L == Len(g.inputs[n])
<1>1. s \in States(members) /\ n \in Nodes(g)
  BY DEF Tracks
<1>2. PICK f : /\ Runs(g, members, s, n, f) /\ f \in [0 .. L -> States(members)]
               /\ RunNode(g, members, s, n) = f[L]
  BY <1>1, RunExists
<1>3. L \in Nat /\ DOMAIN g.inputs[n] = 1 .. L
  BY <1>1, GraphFacts
<1>4. \A k \in 0 .. L :
        f[k] = IF k = 0 THEN Produce(g, s, n) ELSE Consume(g, members, f[k - 1], g.inputs[n][k])
  BY <1>2 DEF Runs
<1> HIDE DEF L
<1> DEFINE T == {k \in 0 .. L : Tracks(g, members, f[k], n, n, k)}
<1>5. 0 \in T
  <2>1. f[0] = Produce(g, s, n) /\ 0 \in 0 .. L
    BY <1>3, <1>4
  <2>2. Tracks(g, members, Produce(g, s, n), n, n, 0)
    BY TrackProduce
  <2> QED BY <2>1, <2>2
<1>6. ASSUME NEW k \in 1 .. L, k - 1 \in T PROVE k \in T
  <2>1. k \in 0 .. L /\ f[k] = Consume(g, members, f[k - 1], g.inputs[n][k])
    BY <1>3, <1>4
  <2>2. k \in DOMAIN g.inputs[n] /\ Tracks(g, members, f[k - 1], n, n, k - 1)
    BY <1>3, <1>6
  <2>3. Tracks(g, members, Consume(g, members, f[k - 1], g.inputs[n][k]), n, n, k)
    BY <2>2, TrackConsume
  <2> QED BY <2>1, <2>3
<1>7. \A k \in 0 .. L : k \in T
  <2> HIDE DEF T
  <2> QED BY <1>3, <1>5, <1>6, Climb
<1>8. Tracks(g, members, f[L], n, n, L)
  BY <1>3, <1>7
<1> QED BY <1>2, <1>8, TrackNext DEF L

(* The running count finds the peak of the sets of values really live.     *)
Walks(g, members, f) ==
  f = [n \in 0 .. Len(g.op) |->
         IF n = 0 THEN [live |-> 0, peak |-> 0,
                        remaining |-> [v \in members |-> UsesWithin(g, members, v)]]
         ELSE IF n \in members THEN RunNode(g, members, f[n - 1], n)
         ELSE f[n - 1]]

LEMMA TrackStart ==
  ASSUME NEW g, IsGraph(g), g.bytes \in [Nodes(g) -> Nat], NEW members \in SUBSET Nodes(g)
  PROVE  Tracks(g, members,
                [live |-> 0, peak |-> 0,
                 remaining |-> [v \in members |-> UsesWithin(g, members, v)]], 0, 1, 0)
<1> DEFINE s == [live |-> 0, peak |-> 0,
                 remaining |-> [v \in members |-> UsesWithin(g, members, v)]]
<1>1. /\ s.live = 0 /\ s.peak = 0
      /\ \A v \in members : s.remaining[v] = UsesWithin(g, members, v)
      /\ members \subseteq Nodes(g) /\ \A m \in members : m \in Nat /\ ~ m <= 0
  BY GraphFacts
<1>2. \A v \in members :
        UsesWithin(g, members, v) = Cardinality(Ahead(g, members, v, 1, 0)) + Kept(g, v)
  <2> SUFFICES ASSUME NEW v \in members
               PROVE  {u \in UseList(g, v) : u[1] \in members} = Ahead(g, members, v, 1, 0)
    BY DEF UsesWithin, Kept
  <2> SUFFICES ASSUME NEW u \in UseList(g, v), u[1] \in members
               PROVE  u[1] > 1 \/ (u[1] = 1 /\ u[2] > 0)
    BY DEF Ahead
  <2>1. u[1] \in Nodes(g) /\ u[2] \in DOMAIN g.inputs[u[1]]
    BY UseListFacts
  <2>2. /\ u[1] \in 1 .. Len(g.op) /\ Len(g.op) \in Nat
        /\ DOMAIN g.inputs[u[1]] = 1 .. Len(g.inputs[u[1]]) /\ Len(g.inputs[u[1]]) \in Nat
    BY <2>1, GraphFacts
  <2>3. u[2] \in Nat /\ u[2] > 0
    BY <2>1, <2>2
  <2> QED BY <2>2, <2>3
<1>3. \A v \in members : UsesWithin(g, members, v) \in Int
  <2> SUFFICES ASSUME NEW v \in members PROVE UsesWithin(g, members, v) \in Int
    OBVIOUS
  <2>1. Cardinality(Ahead(g, members, v, 1, 0)) \in Nat /\ Kept(g, v) \in Nat
    BY <1>1, AheadFacts DEF Kept
  <2> QED BY <1>2, <2>1
<1>4. s \in States(members)
  BY <1>3 DEF States
<1>5. Living(g, members, 0, 1, 0) = {}
  BY <1>1 DEF Living
<1>6. BytesOf(g, {}) = 0
  <2>1. PICK f : Summed(g, {}, f)
    BY BytesSum
  <2> DEFINE L == Len(g.op)
             T == {n \in 0 .. L : f[n] = 0}
  <2>2. /\ f \in [0 .. L -> Nat] /\ BytesOf(g, {}) = f[L] /\ f[0] = 0
        /\ \A n \in Nodes(g) : f[n] = f[n - 1] + 0
    BY <2>1 DEF Summed
  <2>3. L \in Nat /\ Nodes(g) = 1 .. L
    BY GraphFacts
  <2>4. 0 \in T
    BY <2>2, <2>3
  <2>5. ASSUME NEW k \in 1 .. L, k - 1 \in T PROVE k \in T
    <3>1. k \in Nodes(g) /\ k \in 0 .. L /\ f[k - 1] = 0
      BY <2>3, <2>5
    <3>2. f[k] = f[k - 1] + 0
      BY <2>2, <3>1
    <3> QED BY <3>1, <3>2
  <2>6. \A k \in 0 .. L : k \in T
    <3> HIDE DEF T, L
    <3> QED BY <2>3, <2>4, <2>5, Climb
  <2> QED BY <2>2, <2>3, <2>6
<1> HIDE DEF s
<1>7. Tracks(g, members, s, 0, 1, 0)
  BY <1>1, <1>2, <1>4, <1>5, <1>6 DEF Tracks
<1> QED BY <1>7 DEF s

LEMMA PeakFits ==
  ASSUME NEW g, IsGraph(g), g.bytes \in [Nodes(g) -> Nat], NEW members \in SUBSET Nodes(g),
         NEW size \in Nat
  PROVE  PeakLiveBytes(g, members) <= size <=> Fits(g, members, size)
<1> DEFINE L == Len(g.op)
           S == States(members)
           base == [live |-> 0, peak |-> 0,
                    remaining |-> [v \in members |-> UsesWithin(g, members, v)]]
           run(a, n) == IF n \in members THEN RunNode(g, members, a, n) ELSE a
           step == [a \in S \X (1 .. L) |-> run(a[1], a[2])]
<1>1. L \in Nat /\ Nodes(g) = 1 .. L
  BY GraphFacts
<1>2. Tracks(g, members, base, 0, 1, 0)
  BY TrackStart
<1>3. base \in S
  <2> HIDE DEF base
  <2> QED BY <1>2 DEF Tracks
<1>4. \A a \in S : \A n \in 1 .. L : run(a, n) \in S
  <2> SUFFICES ASSUME NEW a \in S, NEW n \in 1 .. L, n \in members
               PROVE  RunNode(g, members, a, n) \in S
    OBVIOUS
  <2>1. PICK f : /\ f \in [0 .. Len(g.inputs[n]) -> States(members)]
                 /\ RunNode(g, members, a, n) = f[Len(g.inputs[n])]
    BY <1>1, RunExists
  <2>2. Len(g.inputs[n]) \in Nat
    BY <1>1, GraphFacts
  <2> QED BY <2>1, <2>2
<1> HIDE DEF S, L, base
<1>5. step \in [S \X (1 .. L) -> S]
  <2> HIDE DEF run
  <2> QED BY <1>4
<1>6. \A a \in S : \A n \in 1 .. L : step[<<a, n>>] = run(a, n)
  <2> HIDE DEF run
  <2> QED OBVIOUS
<1>7. PICK h : Iterates(h, S, base, step, L)
  <2> HIDE DEF step
  <2> QED BY <1>1, <1>3, <1>5, Iterate
<1>8. Walks(g, members, h)
  <2> HIDE DEF step
  <2>1. h \in [0 .. L -> S] /\ h[0] = base /\ \A n \in 1 .. L : h[n] = step[<<h[n - 1], n>>]
    BY <1>7 DEF Iterates
  <2>2. \A n \in 1 .. L : n - 1 \in 0 .. L
    BY <1>1
  <2>3. \A n \in 1 .. L : h[n] = run(h[n - 1], n)
    <3> HIDE DEF run
    <3> QED BY <1>6, <2>1, <2>2
  <2>4. \A n \in 0 .. L :
          h[n] = IF n = 0 THEN base
                 ELSE IF n \in members THEN RunNode(g, members, h[n - 1], n) ELSE h[n - 1]
    BY <1>1, <2>1, <2>3
  <2>5. h = [n \in 0 .. L |->
               IF n = 0 THEN base
               ELSE IF n \in members THEN RunNode(g, members, h[n - 1], n) ELSE h[n - 1]]
    BY <2>1, <2>4
  <2> QED BY <2>5 DEF Walks, L, base
<1> DEFINE F == CHOOSE f : Walks(g, members, f)
<1>9. Walks(g, members, F)
  BY <1>8
<1>10. PeakLiveBytes(g, members) = F[L].peak
  BY DEF PeakLiveBytes, Walks, L
<1> HIDE DEF F
<1>11. \A n \in 0 .. L :
         F[n] = IF n = 0 THEN base
                ELSE IF n \in members THEN RunNode(g, members, F[n - 1], n) ELSE F[n - 1]
  BY <1>9 DEF Walks, L, base
<1> DEFINE T == {n \in 0 .. L : Tracks(g, members, F[n], n, n + 1, 0)}
<1>12. 0 \in T
  BY <1>1, <1>2, <1>11
<1>13. ASSUME NEW n \in 1 .. L, n - 1 \in T PROVE n \in T
  <2>1. n \in Nodes(g) /\ n \in 0 .. L /\ n # 0 /\ (n - 1) + 1 = n
    BY <1>1
  <2>2. Tracks(g, members, F[n - 1], n - 1, n, 0)
    BY <1>13, <2>1
  <2>3. CASE n \in members
    <3>1. F[n] = RunNode(g, members, F[n - 1], n)
      BY <1>11, <2>1, <2>3
    <3>2. Tracks(g, members, RunNode(g, members, F[n - 1], n), n, n + 1, 0)
      BY <2>2, <2>3, RunTracks
    <3> QED BY <2>1, <3>1, <3>2
  <2>4. CASE n \notin members
    <3>1. F[n] = F[n - 1]
      BY <1>11, <2>1, <2>4
    <3>2. Tracks(g, members, F[n - 1], n, n + 1, 0)
      BY <2>1, <2>2, <2>4, TrackSkip
    <3> QED BY <2>1, <3>1, <3>2
  <2> QED BY <2>3, <2>4
<1>14. \A n \in 0 .. L : n \in T
  <2> HIDE DEF T
  <2> QED BY <1>1, <1>12, <1>13, Climb
<1>15. Tracks(g, members, F[L], L, L + 1, 0)
  BY <1>1, <1>14
<1> DEFINE peak == F[L].peak
<1>16. /\ peak \in Int /\ peak >= 0
       /\ \A m \in members : m <= L => BytesOf(g, LiveAt(g, members, m)) <= peak
       /\ peak = 0 \/ \E m \in members : peak = BytesOf(g, LiveAt(g, members, m))
  BY <1>15 DEF Tracks, States
<1>17. \A m \in members : m <= L /\ BytesOf(g, LiveAt(g, members, m)) \in Nat
  BY <1>1, BytesFacts
<1> HIDE DEF peak
<1>18. ASSUME peak <= size PROVE Fits(g, members, size)
  <2> SUFFICES ASSUME NEW m \in members
               PROVE  BytesOf(g, LiveAt(g, members, m)) <= size
    BY DEF Fits
  <2>1. BytesOf(g, LiveAt(g, members, m)) <= peak /\ BytesOf(g, LiveAt(g, members, m)) \in Nat
    BY <1>16, <1>17
  <2> QED BY <1>16, <1>18, <2>1
<1>19. ASSUME Fits(g, members, size) PROVE peak <= size
  BY <1>16, <1>19 DEF Fits
<1> QED BY <1>10, <1>18, <1>19 DEF peak

--------------------------------------------------------------------------------
(* Convexity. *)

(* The nodes below n, as the least set that holds them.                    *)
Down(g, n) ==
  {v \in Nodes(g) : \A T \in SUBSET Nodes(g) :
     n \in T /\ (\A i \in T : Users(g, i) \subseteq T) => v \in T}

LEMMA DownStep ==
  ASSUME NEW g, NEW n \in Nodes(g)
  PROVE  Down(g, n) = {n} \cup UNION {Down(g, u) : u \in Users(g, n)}
<1> DEFINE closed(T) == \A i \in T : Users(g, i) \subseteq T
           T0 == {n} \cup UNION {Down(g, u) : u \in Users(g, n)}
<1>1. \A i : Users(g, i) \subseteq Nodes(g)
  BY DEF Users
<1>2. \A k \in Nodes(g) :
        Down(g, k) = {v \in Nodes(g) : \A T \in SUBSET Nodes(g) : k \in T /\ closed(T) => v \in T}
  BY DEF Down
<1>3. n \in Down(g, n)
  BY <1>2
<1>4. \A u \in Users(g, n) : Down(g, u) \subseteq Down(g, n)
  BY <1>1, <1>2
<1>5. \A u \in Nodes(g) : u \in Down(g, u)
  BY <1>2
<1>6. \A u \in Nodes(g) : \A v \in Down(g, u) : Users(g, v) \subseteq Down(g, u)
  <2> SUFFICES ASSUME NEW u \in Nodes(g), NEW v \in Down(g, u), NEW w \in Users(g, v)
               PROVE  w \in Down(g, u)
    OBVIOUS
  <2>1. \A T \in SUBSET Nodes(g) : u \in T /\ closed(T) => w \in T
    BY <1>2
  <2>2. w \in Nodes(g)
    BY <1>1
  <2> QED BY <2>1, <2>2, <1>2
<1>7. closed(T0)
  <2> SUFFICES ASSUME NEW i \in T0, NEW w \in Users(g, i) PROVE w \in T0
    OBVIOUS
  <2>1. CASE i = n
    BY <2>1, <1>1, <1>5
  <2>2. CASE \E u \in Users(g, n) : i \in Down(g, u)
    BY <2>2, <1>1, <1>6
  <2> QED BY <2>1, <2>2
<1>8. T0 \in SUBSET Nodes(g)
  BY <1>1, <1>2
<1>9. Down(g, n) \subseteq T0
  <2>1. n \in T0
    OBVIOUS
  <2> HIDE DEF T0, closed
  <2> QED BY <1>2, <1>7, <1>8, <2>1
<1> QED BY <1>3, <1>4, <1>9

LEMMA BelowIsDown ==
  ASSUME NEW g, NEW n \in Nodes(g)
  PROVE  Below(g, n) = {n} \cup UNION {Below(g, u) : u \in Users(g, n)}
<1> DEFINE Eq(B) == B = [m \in Nodes(g) |-> {m} \cup UNION {B[u] : u \in Users(g, m)}]
           W == [m \in Nodes(g) |-> Down(g, m)]
<1>1. \A m : Users(g, m) \subseteq Nodes(g)
  BY DEF Users
<1>2. Eq(W)
  <2>1. \A m \in Nodes(g) : W[m] = Down(g, m)
    OBVIOUS
  <2>2. W = [m \in Nodes(g) |-> W[m]]
    OBVIOUS
  <2> HIDE DEF W
  <2>3. \A m \in Nodes(g) : W[m] = {m} \cup UNION {W[u] : u \in Users(g, m)}
    <3> SUFFICES ASSUME NEW m \in Nodes(g)
                 PROVE  W[m] = {m} \cup UNION {W[u] : u \in Users(g, m)}
      OBVIOUS
    <3>1. {W[u] : u \in Users(g, m)} = {Down(g, u) : u \in Users(g, m)}
      BY <1>1, <2>1
    <3> QED BY <2>1, <3>1, DownStep
  <2> QED BY <2>2, <2>3
<1> DEFINE F == CHOOSE B : Eq(B)
<1>3. Eq(F)
  <2> HIDE DEF W, Eq
  <2> QED BY <1>2
<1>4. \A m \in Nodes(g) : Below(g, m) = F[m]
  BY DEF Below
<1>5. F[n] = {n} \cup UNION {F[u] : u \in Users(g, n)}
  <2> HIDE DEF F
  <2> QED BY <1>3
<1> HIDE DEF F
<1>6. {F[u] : u \in Users(g, n)} = {Below(g, u) : u \in Users(g, n)}
  BY <1>1, <1>4
<1> QED BY <1>4, <1>5, <1>6

LEMMA ReachableStep ==
  ASSUME NEW g, NEW n \in Nodes(g)
  PROVE  ReachableOutputs(g, n) =
           (g.outputs \cap {n}) \cup UNION {ReachableOutputs(g, u) : u \in Users(g, n)}
<1> DEFINE Eq(B) == B = [m \in Nodes(g) |-> (g.outputs \cap {m}) \cup
                                              UNION {B[u] : u \in Users(g, m)}]
           W == [m \in Nodes(g) |-> g.outputs \cap Down(g, m)]
<1>1. \A m : Users(g, m) \subseteq Nodes(g)
  BY DEF Users
<1>2. Eq(W)
  <2>1. \A m \in Nodes(g) : W[m] = g.outputs \cap Down(g, m)
    OBVIOUS
  <2>2. W = [m \in Nodes(g) |-> W[m]]
    OBVIOUS
  <2> HIDE DEF W
  <2>3. \A m \in Nodes(g) : W[m] = (g.outputs \cap {m}) \cup UNION {W[u] : u \in Users(g, m)}
    <3> SUFFICES ASSUME NEW m \in Nodes(g)
                 PROVE  W[m] = (g.outputs \cap {m}) \cup UNION {W[u] : u \in Users(g, m)}
      OBVIOUS
    <3>1. Down(g, m) = {m} \cup UNION {Down(g, u) : u \in Users(g, m)}
      BY DownStep
    <3>2. \A u \in Users(g, m) : W[u] = g.outputs \cap Down(g, u)
      BY <1>1, <2>1
    <3>3. UNION {W[u] : u \in Users(g, m)}
            = g.outputs \cap UNION {Down(g, u) : u \in Users(g, m)}
      BY <3>2
    <3> QED BY <2>1, <3>1, <3>3
  <2> QED BY <2>2, <2>3
<1> DEFINE F == CHOOSE B : Eq(B)
<1>3. Eq(F)
  <2> HIDE DEF W, Eq
  <2> QED BY <1>2
<1>4. \A m \in Nodes(g) : ReachableOutputs(g, m) = F[m]
  BY DEF ReachableOutputs
<1>5. F[n] = (g.outputs \cap {n}) \cup UNION {F[u] : u \in Users(g, n)}
  <2> HIDE DEF F
  <2> QED BY <1>3
<1> HIDE DEF F
<1>6. {F[u] : u \in Users(g, n)} = {ReachableOutputs(g, u) : u \in Users(g, n)}
  BY <1>1, <1>4
<1> QED BY <1>4, <1>5, <1>6

LEMMA Greatest ==
  ASSUME NEW L \in Nat, NEW T, T \subseteq 1 .. L, T # {}
  PROVE  \E x \in T : \A y \in T : y <= x
<1> DEFINE R == {L - x : x \in T}
<1>1. R \subseteq Nat /\ R # {}
  <2>1. \A x \in T : x \in 1 .. L /\ L - x \in Nat
    OBVIOUS
  <2>2. PICK x \in T : TRUE
    OBVIOUS
  <2>3. L - x \in R
    BY <2>2
  <2> QED BY <2>1, <2>3
<1>2. PICK r \in R : \A s \in R : r <= s
  <2> HIDE DEF R
  <2> QED BY <1>1, Least
<1>3. PICK x \in T : r = L - x
  BY <1>2
<1>4. \A y \in T : r <= L - y
  BY <1>2
<1> QED BY <1>3, <1>4

LEMMA UsersFacts ==
  ASSUME NEW g, IsGraph(g), NEW n \in Nodes(g)
  PROVE  \A u \in Users(g, n) : u \in Nodes(g) /\ n < u /\ n \in Reads(g, u)
BY GraphFacts DEF Users

(* What is below a node comes after it.                                    *)
LEMMA BelowFacts ==
  ASSUME NEW g, IsGraph(g), NEW n \in Nodes(g), NEW v \in Below(g, n)
  PROVE  v \in Nodes(g) /\ n <= v
<1> DEFINE Good(k) == \A w \in Below(g, k) : w \in Nodes(g) /\ k <= w
           Bad == {k \in Nodes(g) : ~ Good(k)}
<1>1. ASSUME Bad # {} PROVE FALSE
  <2>1. Bad \subseteq 1 .. Len(g.op) /\ Len(g.op) \in Nat
    BY GraphFacts
  <2>2. PICK k \in Bad : \A j \in Bad : j <= k
    <3> HIDE DEF Bad
    <3> QED BY <1>1, <2>1, Greatest
  <2>3. k \in Nodes(g) /\ ~ Good(k)
    BY <2>2
  <2>4. PICK w \in Below(g, k) : ~ (w \in Nodes(g) /\ k <= w)
    BY <2>3
  <2>5. k \in Nat /\ Nodes(g) \subseteq Nat
    BY <2>3, GraphFacts
  <2>6. w # k
    BY <2>3, <2>4, <2>5
  <2>7. PICK u \in Users(g, k) : w \in Below(g, u)
    BY <2>3, <2>4, <2>6, BelowIsDown
  <2>8. u \in Nodes(g) /\ k < u /\ u \in Nat
    BY <2>3, <2>5, <2>7, UsersFacts
  <2>9. u \notin Bad
    BY <2>2, <2>5, <2>8
  <2>10. w \in Nodes(g) /\ u <= w
    BY <2>7, <2>8, <2>9
  <2> QED BY <2>4, <2>5, <2>8, <2>10
<1> QED BY <1>1

LEMMA ReachableFinite ==
  ASSUME NEW g, IsGraph(g), NEW n \in Nodes(g)
  PROVE  ReachableOutputs(g, n) \subseteq Nodes(g) /\ IsFiniteSet(ReachableOutputs(g, n))
<1> DEFINE Bad == {k \in Nodes(g) : ~ (ReachableOutputs(g, k) \subseteq Nodes(g))}
<1>1. ASSUME Bad # {} PROVE FALSE
  <2>1. Bad \subseteq 1 .. Len(g.op) /\ Len(g.op) \in Nat
    BY GraphFacts
  <2>2. PICK k \in Bad : \A j \in Bad : j <= k
    <3> HIDE DEF Bad
    <3> QED BY <1>1, <2>1, Greatest
  <2>3. k \in Nodes(g) /\ k \in Nat /\ Nodes(g) \subseteq Nat
    BY <2>2, GraphFacts
  <2>4. \A u \in Users(g, k) : u \in Nodes(g) /\ k < u /\ u \in Nat
    BY <2>3, UsersFacts
  <2>5. \A u \in Users(g, k) : ReachableOutputs(g, u) \subseteq Nodes(g)
    BY <2>2, <2>3, <2>4
  <2>6. ReachableOutputs(g, k) \subseteq Nodes(g)
    BY <2>3, <2>5, ReachableStep
  <2> QED BY <2>2, <2>6
<1> QED BY <1>1, GraphFacts, FS_Subset

(* A result with a single use has a single user.                           *)
LEMMA OneUser ==
  ASSUME NEW g, IsGraph(g), NEW p \in Nodes(g), ~ UserCount(g, p) > 1,
         NEW a \in Nodes(g), NEW b \in Nodes(g), p \in Reads(g, a), p \in Reads(g, b)
  PROVE  a = b
<1> DEFINE All == UseList(g, p)
<1>1. ~ Cardinality(All) > 1
  BY DEF UserCount
<1>3. IsFiniteSet(All)
  BY UseListFacts
<1>4. \A m \in Nodes(g) : p \in Reads(g, m) => \E u \in All : u[1] = m
  <2> SUFFICES ASSUME NEW m \in Nodes(g), p \in Reads(g, m)
               PROVE  \E u \in All : u[1] = m
    OBVIOUS
  <2>1. PICK k \in DOMAIN g.inputs[m] : g.inputs[m][k] = p
    BY DEF Reads, ToSet
  <2>2. <<m, k>> \in All
    BY <2>1, UseListFacts
  <2> QED BY <2>2
<1> HIDE DEF All
<1>5. PICK x \in All : x[1] = a
  BY <1>4
<1>6. PICK y \in All : y[1] = b
  BY <1>4
<1>7. ASSUME x # y PROVE FALSE
  <2>1. IsFiniteSet({x, y}) /\ Cardinality({x, y}) = 2
    <3>1. IsFiniteSet({x}) /\ Cardinality({x}) = 1
      BY FS_Singleton
    <3>2. y \notin {x}
      BY <1>7
    <3>3. IsFiniteSet({x} \cup {y}) /\ Cardinality({x} \cup {y}) = 2
      BY <3>1, <3>2, FS_AddElement
    <3>4. {x} \cup {y} = {x, y}
      OBVIOUS
    <3> QED BY <3>3, <3>4
  <2>2. Cardinality({x, y}) <= Cardinality(All)
    BY <1>3, <1>5, <1>6, FS_Subset
  <2>3. Cardinality(All) \in Nat
    BY <1>3, FS_CardinalityType
  <2> QED BY <1>1, <2>1, <2>2, <2>3
<1> QED BY <1>5, <1>6, <1>7

(* What reaches u along fusible edges: if u has several uses and several   *)
(* outputs below it, so has everything that reaches it, hence one user     *)
(* each, and no fusible edge leaves the tree of these nodes.               *)
Above(g, u) ==
  {v \in Nodes(g) : \A T \in SUBSET Nodes(g) :
     u \in T /\ (\A e \in Fusible(g) : e[2] \in T => e[1] \in T) => v \in T}

LEMMA AboveFacts ==
  ASSUME NEW g, IsGraph(g), NEW u \in Nodes(g)
  PROVE  /\ u \in Above(g, u) /\ Above(g, u) \in SUBSET Nodes(g)
         /\ \A e \in Fusible(g) : e[2] \in Above(g, u) => e[1] \in Above(g, u)
         /\ \A v \in Above(g, u) : u \in Below(g, v)
         /\ \A v \in Above(g, u) : ReachableOutputs(g, u) \subseteq ReachableOutputs(g, v)
         /\ \A v \in Above(g, u) :
              v = u \/ \E e \in Fusible(g) : e[1] = v /\ e[2] \in Above(g, u)
<1> DEFINE closed(T) == \A e \in Fusible(g) : e[2] \in T => e[1] \in T
           A == Above(g, u)
<1>1. A = {v \in Nodes(g) : \A T \in SUBSET Nodes(g) : u \in T /\ closed(T) => v \in T}
  BY DEF Above
<1>2. \A e \in Fusible(g) : e[1] \in Nodes(g) /\ e[2] \in Nodes(g) /\ e[1] \in Reads(g, e[2])
  BY FusibleFacts
<1>3. \A e \in Fusible(g) : e[2] \in Users(g, e[1])
  BY <1>2 DEF Users
<1> HIDE DEF A
<1>4. u \in A /\ A \in SUBSET Nodes(g)
  BY <1>1
<1>5. closed(A)
  <2> SUFFICES ASSUME NEW e \in Fusible(g), e[2] \in A PROVE e[1] \in A
    OBVIOUS
  <2>1. \A T \in SUBSET Nodes(g) : u \in T /\ closed(T) => e[1] \in T
    BY <1>1
  <2> HIDE DEF closed
  <2> QED BY <1>1, <1>2, <2>1
<1>6. \A T \in SUBSET Nodes(g) : u \in T /\ closed(T) => A \subseteq T
  <2> HIDE DEF closed
  <2> QED BY <1>1
<1>7. \A v \in A : u \in Below(g, v)
  <2> DEFINE T == {v \in Nodes(g) : u \in Below(g, v)}
  <2>1. u \in T
    BY BelowIsDown
  <2>2. closed(T)
    BY <1>2, <1>3, BelowIsDown
  <2>3. T \in SUBSET Nodes(g)
    OBVIOUS
  <2> HIDE DEF closed
  <2>4. A \subseteq T
    <3> HIDE DEF T
    <3> QED BY <1>6, <2>1, <2>2, <2>3
  <2> QED BY <2>4
<1>8. \A v \in A : ReachableOutputs(g, u) \subseteq ReachableOutputs(g, v)
  <2> DEFINE T == {v \in Nodes(g) : ReachableOutputs(g, u) \subseteq ReachableOutputs(g, v)}
  <2>1. u \in T
    OBVIOUS
  <2>2. closed(T)
    <3> SUFFICES ASSUME NEW e \in Fusible(g), e[2] \in T PROVE e[1] \in T
      OBVIOUS
    <3>1. ReachableOutputs(g, e[2]) \subseteq ReachableOutputs(g, e[1])
      BY <1>2, <1>3, ReachableStep
    <3> QED BY <3>1, <1>2
  <2>3. T \in SUBSET Nodes(g)
    OBVIOUS
  <2> HIDE DEF closed
  <2>4. A \subseteq T
    <3> HIDE DEF T
    <3> QED BY <1>6, <2>1, <2>2, <2>3
  <2> QED BY <2>4
<1>9. ASSUME NEW v \in A, v # u, \A e \in Fusible(g) : ~ (e[1] = v /\ e[2] \in A)
      PROVE  FALSE
  <2>1. u \in A \ {v} /\ A \ {v} \in SUBSET Nodes(g)
    BY <1>4, <1>9
  <2>2. closed(A \ {v})
    BY <1>5, <1>9
  <2> HIDE DEF closed
  <2>3. A \subseteq A \ {v}
    BY <1>6, <2>1, <2>2
  <2> QED BY <2>3, <1>9
<1> QED BY <1>4, <1>5, <1>7, <1>8, <1>9 DEF A

LEMMA AboveClosed ==
  ASSUME NEW g, IsGraph(g), NEW u \in Nodes(g), UserCount(g, u) > 1,
         ~ Cardinality(ReachableOutputs(g, u)) <= 1
  PROVE  Above(g, u) \in Closed(g)
<1> DEFINE A == Above(g, u)
<1>1. /\ u \in A /\ A \in SUBSET Nodes(g)
      /\ \A e \in Fusible(g) : e[2] \in A => e[1] \in A
      /\ \A v \in A : ReachableOutputs(g, u) \subseteq ReachableOutputs(g, v)
      /\ \A v \in A : v = u \/ \E e \in Fusible(g) : e[1] = v /\ e[2] \in A
  BY AboveFacts
<1> HIDE DEF A
<1>2. \A e \in Fusible(g) : e[1] \in Nodes(g) /\ e[2] \in Nodes(g)
                            /\ e[1] \in Reads(g, e[2]) /\ MayFuse(g, e[1], e[2])
  BY FusibleFacts
<1>3. \A v \in A : ~ Cardinality(ReachableOutputs(g, v)) <= 1
  <2> SUFFICES ASSUME NEW v \in A PROVE ~ Cardinality(ReachableOutputs(g, v)) <= 1
    OBVIOUS
  <2>1. /\ IsFiniteSet(ReachableOutputs(g, v)) /\ IsFiniteSet(ReachableOutputs(g, u))
    BY <1>1, ReachableFinite
  <2>2. Cardinality(ReachableOutputs(g, u)) <= Cardinality(ReachableOutputs(g, v))
    BY <1>1, <2>1, FS_Subset
  <2>3. /\ Cardinality(ReachableOutputs(g, u)) \in Nat
        /\ Cardinality(ReachableOutputs(g, v)) \in Nat
    BY <2>1, FS_CardinalityType
  <2> QED BY <2>2, <2>3
<1>4. ASSUME NEW e \in Fusible(g), e[1] \in A
      PROVE  e[2] \in A
  <2>1. ~ UserCount(g, e[1]) > 1
    BY <1>2, <1>3, <1>4 DEF MayFuse
  <2>2. e[1] # u
    BY <2>1
  <2>3. PICK f \in Fusible(g) : f[1] = e[1] /\ f[2] \in A
    BY <1>1, <1>4, <2>2
  <2>4. f[2] = e[2]
    BY <1>2, <2>1, <2>3, OneUser
  <2> QED BY <2>3, <2>4
<1> QED BY <1>1, <1>4 DEF Closed, A

(* A set of nodes that is closed, and that no closed set cuts, is convex.  *)
LEMMA ComponentConvex ==
  ASSUME NEW g, IsGraph(g), Legalised(g), NEW C \in Closed(g),
         \A set \in Closed(g) : \A a, b \in C : a \in set <=> b \in set,
         NEW a \in C, NEW b \in C, NEW n \in Below(g, a), b \in Below(g, n)
  PROVE  n \in C
<1> SUFFICES ASSUME n \notin C PROVE FALSE
  OBVIOUS
<1>1. C \subseteq Nodes(g) /\ n \in Nodes(g) /\ Nodes(g) \subseteq Nat
  BY GraphFacts, BelowFacts DEF Closed
<1>2. \A e \in Fusible(g) : e[1] \in C <=> e[2] \in C
  BY DEF Closed
<1> DEFINE From == {v \in C : n \in Below(g, v)}
<1>3. PICK u \in From : \A v \in From : v <= u
  <2>1. From \subseteq 1 .. Len(g.op) /\ Len(g.op) \in Nat /\ From # {}
    BY <1>1, GraphFacts
  <2> HIDE DEF From
  <2> QED BY <2>1, Greatest
<1>4. u \in C /\ n \in Below(g, u) /\ u # n /\ u \in Nodes(g)
  BY <1>1, <1>3
<1>5. PICK w \in Users(g, u) : n \in Below(g, w)
  BY <1>4, BelowIsDown
<1>6. w \in Nodes(g) /\ u < w /\ u \in Reads(g, w)
  BY <1>4, <1>5, UsersFacts
<1>7. w \notin C
  BY <1>1, <1>3, <1>4, <1>5, <1>6
<1>8. u < b
  <2>1. w <= n /\ n <= b /\ b \in Nodes(g)
    BY <1>1, <1>5, <1>6, BelowFacts
  <2> QED BY <2>1, <1>1, <1>4, <1>6
<1>9. ~ MayFuse(g, u, w)
  <2> SUFFICES ASSUME MayFuse(g, u, w) PROVE FALSE
    OBVIOUS
  <2>1. <<u, w>> \in Fusible(g)
    BY <1>4, <1>6, FusibleFacts
  <2>2. <<u, w>>[1] = u /\ <<u, w>>[2] = w
    OBVIOUS
  <2> QED BY <2>1, <2>2, <1>2, <1>4, <1>7
<1>10. Supported(g, w)
  <2>1. g.inputs[w] # <<>>
    BY <1>6 DEF Reads, ToSet
  <2> QED BY <2>1, <1>6 DEF Legalised
<1>11. CASE ~ Supported(g, u)
  <2>1. {u} \in Closed(g)
    <3>1. \A e \in Fusible(g) : e[1] # u /\ e[2] # u
      BY <1>11, FusibleFacts DEF MayFuse
    <3> QED BY <3>1, <1>4 DEF Closed
  <2>2. b \in {u}
    BY <2>1, <1>4
  <2> QED BY <2>2, <1>1, <1>4, <1>8
<1>12. CASE Supported(g, u)
  <2>1. UserCount(g, u) > 1 /\ ~ Cardinality(ReachableOutputs(g, u)) <= 1
    BY <1>9, <1>10, <1>12 DEF MayFuse
  <2>2. Above(g, u) \in Closed(g) /\ u \in Above(g, u)
    BY <2>1, <1>4, AboveClosed, AboveFacts
  <2>3. b \in Above(g, u)
    BY <2>2, <1>4
  <2>4. u \in Below(g, b) /\ b \in Nodes(g)
    BY <2>3, <1>1, <1>4, AboveFacts
  <2>5. b <= u
    BY <2>4, BelowFacts
  <2> QED BY <2>4, <2>5, <1>1, <1>4, <1>8
<1> QED BY <1>11, <1>12

(* The fan-out test at ANEFusionPass.mm:103 looks at one edge at a time,   *)
(* and yet no path leaves a region and comes back, on every graph that     *)
(* legalisation accepts.                                                   *)
THEOREM RegionsStayConvex == Spec => []RegionsConvex
<1>1. Init => IInv
  BY InitIInv
<1>2. IInv /\ [Next]_vars => IInv'
  BY Inductive
<1>3. IInv => RegionsConvex
  <2> SUFFICES ASSUME IInv, phase = "done", NEW r \in DOMAIN regions,
                      NEW a \in NodesOf(r), NEW b \in NodesOf(r),
                      NEW n \in Below(graph, a), b \in Below(graph, n)
               PROVE  n \in NodesOf(r)
    BY DEF RegionsConvex, RegionsDone
  <2>1. /\ Formed /\ IsGraph(graph) /\ Legalised(graph)
    BY GraphsAssumption, LegalisedAssumption DEF IInv
  <2>2. PICK k \in Nodes(graph) :
          /\ NodesOf(r) \subseteq Class(k)
          /\ NodesOf(r) = Class(k) \/ \E m \in Nodes(graph) : NodesOf(r) = {m}
    BY <2>1 DEF Formed
  <2>3. CASE NodesOf(r) = Class(k)
    <3>1. Class(k) \in Closed(graph)
      BY ClassFacts
    <3>2. \A set \in Closed(graph) : \A x, y \in Class(k) : x \in set <=> y \in set
      BY ClassFacts
    <3> QED BY <2>1, <2>3, <3>1, <3>2, ComponentConvex
  <2>4. CASE \E m \in Nodes(graph) : NodesOf(r) = {m}
    <3>1. a = b /\ a \in Nodes(graph)
      BY <2>4
    <3>2. n \in Nodes(graph) /\ a <= n /\ n <= b
      BY <2>1, <3>1, BelowFacts
    <3>3. a \in Nat /\ n \in Nat
      BY <2>1, <3>1, <3>2, GraphFacts
    <3>4. n = a
      BY <3>1, <3>2, <3>3
    <3> QED BY <3>4
  <2> QED BY <2>2, <2>3, <2>4
<1> QED BY <1>1, <1>2, <1>3, PTL DEF Spec

(* The fit test of the pass (peakLiveBytes and the test on it,             *)
(* ANEFusionPass.mm:57-84, 119-126) keeps a component together if, and for *)
(* components of several nodes only if, the values really live at each of  *)
(* its nodes fit the working set, on every graph and whatever that size.   *)
THEOREM SplitsOnlyTooLarge == Spec => []SplitOnlyWhenTooLarge
<1>1. Init => IInv
  BY InitIInv
<1>2. IInv /\ [Next]_vars => IInv'
  BY Inductive
<1>3. IInv => SplitOnlyWhenTooLarge
  <2> SUFFICES ASSUME IInv PROVE SplitOnlyWhenTooLarge
    OBVIOUS
  <2>1. IsGraph(graph) /\ graph.bytes \in [Nodes(graph) -> Nat] /\ WorkingSet \in Nat
    BY GraphsAssumption, BytesAssumption, WorkingSetAssumption DEF IInv
  <2>2. \A set \in SUBSET Nodes(graph) :
          PeakLiveBytes(graph, set) <= WorkingSet <=> Fits(graph, set, WorkingSet)
    BY <2>1, PeakFits
  <2>3. FusedRegionsFit
    <3> SUFFICES ASSUME NEW r \in DOMAIN regions, Cardinality(NodesOf(r)) > 1
                 PROVE  Fits(graph, NodesOf(r), WorkingSet)
      BY DEF FusedRegionsFit
    <3>1. Formed /\ Sized
      BY DEF IInv, Uniting
    <3>2. PeakLiveBytes(graph, NodesOf(r)) <= WorkingSet
      BY <3>1 DEF Sized
    <3>3. NodesOf(r) \in SUBSET Nodes(graph)
      BY <3>1 DEF Formed, Class
    <3> QED BY <2>2, <3>2, <3>3
  <2>4. ASSUME phase = "done", NEW c \in Components(graph), Fits(graph, c, WorkingSet)
        PROVE  \E r \in DOMAIN regions : NodesOf(r) = c
    <3>1. PICK a \in Nodes(graph) :
            c = {m \in Nodes(graph) : \A set \in Closed(graph) : a \in set => m \in set}
      BY DEF Components
    <3>2. Named /\ Sized /\ node \in Nat \ {0} /\ node \notin Nodes(graph)
      BY <2>4 DEF IInv
    <3>3. PICK k \in Nodes(graph) : parents[a] = k
      BY <3>1, <3>2 DEF Named
    <3>4. Class(k) \in Closed(graph) /\ a \in Class(k) /\ Class(k) \subseteq Nodes(graph)
      <4>1. Class(k) \in Closed(graph)
        BY <2>4, ClassFacts
      <4> QED BY <4>1, <3>3 DEF Class
    <3>5. \A set \in Closed(graph) : \A x, y \in Class(k) : x \in set <=> y \in set
      BY <2>4, ClassFacts
    <3>6. c = Class(k)
      BY <3>1, <3>4, <3>5
    <3>7. k < node
      BY <2>1, <3>2, GraphFacts
    <3>8. PeakLiveBytes(graph, Class(k)) <= WorkingSet
      BY <2>2, <2>4, <3>4, <3>6
    <3> QED BY <3>2, <3>4, <3>6, <3>7, <3>8 DEF Sized
  <2> QED BY <2>3, <2>4 DEF SplitOnlyWhenTooLarge, RegionsDone
<1> QED BY <1>1, <1>2, <1>3, PTL DEF Spec
================================================================================
