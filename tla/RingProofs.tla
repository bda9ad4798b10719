----------------------------- MODULE RingProofs -----------------------------
(***************************************************************************)
(* Proofs about Ring, for any number of nodes, virtual nodes and keys.     *)
(*                                                                         *)
(* What the recursive functions of the lookups compute is proved with a    *)
(* least counterexample, which NonEmptyHasLeast provides.                  *)
(***************************************************************************)
EXTENDS Ring, FiniteSetTheorems, TLAPS

\* A leaf goes to Zenon unless it names another prover; SMT has the arithmetic.
USE Zenon

(***************************************************************************)
(* Numbers                                                                 *)
(***************************************************************************)

\* A non-empty set of natural numbers has a least member, and Min is it.
LEMMA NonEmptyHasLeast ==
  ASSUME NEW T, T \subseteq Nat, T # {}
  PROVE  /\ Min(T) \in T
         /\ \A y \in T : Min(T) <= y
<1> DEFINE less == {ss \in Nat \X Nat : ss[1] < ss[2]}
<1>1. IsWellFoundedOn(less, Nat)
  BY NatLessThanWellFounded DEF OpToRel
<1> HIDE DEF less
<1>2. PICK x \in T : \A y \in T : ~(<<y, x>> \in less)
  BY <1>1, WFMin
<1>3. \A y \in T : ~(y < x)
  BY <1>2 DEF less
<1>4. \A y \in T : x <= y
  BY <1>3, SMT
<1> QED
  BY <1>4 DEF Min

\* Min of two numbers is the smaller of them.
LEMMA MinOfTwo ==
  ASSUME NEW a \in Nat, NEW b \in Nat
  PROVE  Min({a, b}) \in {a, b} /\ Min({a, b}) <= a /\ Min({a, b}) <= b
<1> DEFINE T == {a, b}
<1>1. T \subseteq Nat /\ T # {} /\ a \in T /\ b \in T
  OBVIOUS
<1> HIDE DEF T
<1>2. Min(T) \in T /\ \A y \in T : Min(T) <= y
  BY <1>1, NonEmptyHasLeast
<1> QED
  BY <1>1, <1>2 DEF T

\* Taking a remainder is at most one turn around, on one side of the circle or the other.
LEMMA OneTurn ==
  ASSUME NEW a \in Int, NEW L \in Nat \ {0}
  PROVE  /\ 0 <= a /\ a < L => a % L = a
         /\ L <= a /\ a < 2 * L => a % L = a - L
         /\ -L <= a /\ a < 0 => a % L = a + L
<1>1. a % L \in 0..(L - 1) /\ a \div L \in Int /\ a = L * (a \div L) + (a % L)
  BY SMT
<1> DEFINE q == a \div L
           m == a % L
<1>2. q \in Int /\ m \in 0..(L - 1) /\ a = L * q + m
  BY <1>1
<1> HIDE DEF q, m
<1>3. /\ q >= 1 => L * q >= L
      /\ q >= 2 => L * q >= 2 * L
  BY <1>2, SMT
<1>4. /\ q <= -1 => L * q <= -L
      /\ q <= -2 => L * q <= -2 * L
  BY <1>2, SMT
<1>5. (q = 1 => L * q = L) /\ (q = 0 => L * q = 0) /\ (q = -1 => L * q = -L)
  BY <1>2, SMT
<1>6. ASSUME 0 <= a, a < L PROVE m = a
  <2>1. q = 0
    BY <1>2, <1>3, <1>4, <1>6, SMT
  <2> QED
    BY <2>1, <1>5, <1>2, SMT
<1>7. ASSUME L <= a, a < 2 * L PROVE m = a - L
  <2>1. q = 1
    BY <1>2, <1>3, <1>4, <1>5, <1>7, SMT
  <2> QED
    BY <2>1, <1>5, <1>2, SMT
<1>8. ASSUME -L <= a, a < 0 PROVE m = a + L
  <2>1. q = -1
    BY <1>2, <1>3, <1>4, <1>5, <1>8, SMT
  <2> QED
    BY <2>1, <1>5, <1>2, SMT
<1> QED
  BY <1>6, <1>7, <1>8 DEF m

(***************************************************************************)
(* InOrder                                                                 *)
(***************************************************************************)

\* The members of S with a smaller key than x, and how many they are.
Below(S, key, x) == {y \in S : key[y] < key[x]}
RankIn(S, key, x) == Cardinality(Below(S, key, x))

\* The rank of a member is less than the number of members, it is larger for a
\* larger key, and every smaller number is the rank of a member.
LEMMA Ranks ==
  ASSUME NEW S, IsFiniteSet(S), NEW key \in [S -> Int],
         \A x, y \in S : key[x] = key[y] => x = y
  PROVE  /\ Cardinality(S) \in Nat
         /\ \A x \in S : RankIn(S, key, x) \in 0..(Cardinality(S) - 1)
         /\ \A x, y \in S : key[x] < key[y] <=> RankIn(S, key, x) < RankIn(S, key, y)
         /\ \A x, y \in S : RankIn(S, key, x) = RankIn(S, key, y) => x = y
         /\ \A i \in 0..(Cardinality(S) - 1) : \E x \in S : RankIn(S, key, x) = i
<1>1. Cardinality(S) \in Nat
  BY FS_CardinalityType
<1>2. \A x \in S : /\ IsFiniteSet(Below(S, key, x)) /\ RankIn(S, key, x) \in Nat
                   /\ RankIn(S, key, x) < Cardinality(S)
  <2> TAKE x \in S
  <2>1. Below(S, key, x) \in SUBSET S /\ Below(S, key, x) # S
    BY SMT DEF Below
  <2>2. IsFiniteSet(Below(S, key, x)) /\ RankIn(S, key, x) <= Cardinality(S)
        /\ (Cardinality(S) = RankIn(S, key, x) => S = Below(S, key, x))
    BY <2>1, FS_Subset DEF RankIn
  <2>3. RankIn(S, key, x) \in Nat
    BY <2>2, FS_CardinalityType DEF RankIn
  <2> QED
    BY <1>1, <2>1, <2>2, <2>3, SMT
<1>3. ASSUME NEW x \in S, NEW y \in S, key[x] < key[y]
      PROVE  RankIn(S, key, x) < RankIn(S, key, y)
  <2>1. Below(S, key, x) \in SUBSET Below(S, key, y) /\ Below(S, key, x) # Below(S, key, y)
    BY <1>3, SMT DEF Below
  <2>2. RankIn(S, key, x) <= RankIn(S, key, y)
        /\ (RankIn(S, key, y) = RankIn(S, key, x) => Below(S, key, y) = Below(S, key, x))
    BY <2>1, <1>2, FS_Subset DEF RankIn
  <2> QED
    BY <2>1, <2>2, <1>2, SMT
<1>4. \A x, y \in S : /\ key[x] < key[y] <=> RankIn(S, key, x) < RankIn(S, key, y)
                      /\ RankIn(S, key, x) = RankIn(S, key, y) => x = y
  BY <1>2, <1>3, SMT
<1>5. \A i \in 0..(Cardinality(S) - 1) : \E x \in S : RankIn(S, key, x) = i
  <2> DEFINE rank == [x \in S |-> RankIn(S, key, x)]
             I == 0..(Cardinality(S) - 1)
  <2>1. rank \in Injection(S, I)
    BY <1>1, <1>2, <1>4, SMT DEF Injection, IsInjective
  <2>2. IsFiniteSet(I) /\ Cardinality(I) = Cardinality(S)
    <3>1. 0 \in Int /\ Cardinality(S) - 1 \in Int
      BY <1>1, SMT
    <3>2. /\ IsFiniteSet(I)
          /\ Cardinality(I) = IF 0 > Cardinality(S) - 1 THEN 0 ELSE Cardinality(S) - 1 - 0 + 1
      BY <3>1, FS_Interval
    <3> QED
      BY <3>2, <1>1, SMT
  <2> HIDE DEF I
  <2>3. rank \in Surjection(S, I)
    BY <2>1, <2>2, FS_Injection
  <2>4. \A i \in I : \E x \in S : rank[x] = i
    BY <2>3 DEF Surjection
  <2> QED
    BY <2>4 DEF I
<1> QED
  BY <1>1, <1>2, <1>4, <1>5, SMT

\* InOrder lists the set, each member once, with the keys ascending; and the
\* position of a member is one more than its rank.
LEMMA InOrderLists ==
  ASSUME NEW S, IsFiniteSet(S), NEW key \in [S -> Int],
         \A x, y \in S : key[x] = key[y] => x = y
  PROVE  LET t == InOrder(S, key)
             n == Cardinality(S)
         IN  /\ n \in Nat
             /\ t \in [1..n -> S]
             /\ \A p \in 1..n : RankIn(S, key, t[p]) = p - 1
             /\ \A p, q \in 1..n : p < q => key[t[p]] < key[t[q]]
             /\ \A x \in S : \E p \in 1..n : t[p] = x
<1> DEFINE t == InOrder(S, key)
           n == Cardinality(S)
<1>1. t = [p \in 1..n |-> CHOOSE x \in S : RankIn(S, key, x) = p - 1]
  BY DEF InOrder, RankIn, Below
<1> HIDE DEF t
<1>2. /\ n \in Nat
      /\ \A x \in S : RankIn(S, key, x) \in 0..(n - 1)
      /\ \A x, y \in S : key[x] < key[y] <=> RankIn(S, key, x) < RankIn(S, key, y)
      /\ \A x, y \in S : RankIn(S, key, x) = RankIn(S, key, y) => x = y
      /\ \A i \in 0..(n - 1) : \E x \in S : RankIn(S, key, x) = i
  BY Ranks, SMT
<1> HIDE DEF n
<1>3. \A p \in 1..n : t[p] \in S /\ RankIn(S, key, t[p]) = p - 1
  <2> TAKE p \in 1..n
  <2>1. t[p] = CHOOSE x \in S : RankIn(S, key, x) = p - 1
    BY <1>1
  <2>2. \E x \in S : RankIn(S, key, x) = p - 1
    BY <1>2, SMT
  <2> QED
    BY <2>1, <2>2
<1>4. t \in [1..n -> S]
  BY <1>1, <1>3
<1>5. \A p, q \in 1..n : p < q => key[t[p]] < key[t[q]]
  BY <1>2, <1>3, SMT
<1>6. \A x \in S : \E p \in 1..n : t[p] = x
  <2> TAKE x \in S
  <2>1. RankIn(S, key, x) + 1 \in 1..n
    BY <1>2, SMT
  <2>2. t[RankIn(S, key, x) + 1] = x
    BY <1>2, <1>3, <2>1, SMT
  <2> QED
    BY <2>1, <2>2
<1> QED
  BY <1>2, <1>3, <1>4, <1>5, <1>6 DEF t, n
(***************************************************************************)
(* The slice                                                               *)
(***************************************************************************)

\* The hash of a virtual node is a number below HashSpace.
LEMMA HashRange ==
  ASSUME NEW v \in VNode
  PROVE  v.hash \in Nat /\ v.hash < HashSpace /\ v.node \in Nodes
<1>1. HashSpace \in Nat
  BY RingConstants
<1> QED
  BY <1>1, SMT DEF VNode

\* The hashes of the slice ascend strictly, as sort.Slice leaves them.
Ascending(slice) == \A i, j \in DOMAIN slice : i < j => slice[i].hash < slice[j].hash

\* sort.Slice brings a slice of distinct hashes in ascending order and keeps its members.
LEMMA SortingSorts ==
  ASSUME NEW slice \in Seq(VNode),
         \A i, j \in DOMAIN slice : slice[i].hash = slice[j].hash => i = j
  PROVE  /\ SortedByHash(slice) \in Seq(VNode)
         /\ Ascending(SortedByHash(slice))
         /\ Range(SortedByHash(slice)) = Range(slice)
<1> DEFINE S == DOMAIN slice
           key == [i \in S |-> slice[i].hash]
           order == InOrder(S, key)
           L == Len(slice)
<1>1. L \in Nat /\ S = 1..L /\ slice \in [S -> VNode]
  BY SMT
<1>2. IsFiniteSet(S) /\ Cardinality(S) = L
  <2>1. 1 \in Int /\ L \in Int
    BY <1>1, SMT
  <2>2. /\ IsFiniteSet(1..L)
        /\ Cardinality(1..L) = IF 1 > L THEN 0 ELSE L - 1 + 1
    BY <2>1, FS_Interval
  <2> QED
    BY <1>1, <2>2, SMT
<1>3. key \in [S -> Int] /\ \A x, y \in S : key[x] = key[y] => x = y
  BY <1>1, SMT DEF VNode
<1>4. SortedByHash(slice) = [p \in S |-> slice[order[p]]]
  BY DEF SortedByHash
<1>5. /\ order \in [1..L -> S]
      /\ \A p, q \in 1..L : p < q => key[order[p]] < key[order[q]]
      /\ \A x \in S : \E p \in 1..L : order[p] = x
  <2> HIDE DEF S, key
  <2> QED
    BY <1>2, <1>3, InOrderLists, SMT
<1>6. \A x \in S : key[x] = slice[x].hash
  OBVIOUS
<1> HIDE DEF S, key, order, L
<1>7. SortedByHash(slice) \in [1..L -> VNode]
  BY <1>1, <1>4, <1>5, SMT
<1>8. SortedByHash(slice) \in Seq(VNode) /\ DOMAIN SortedByHash(slice) = 1..L
  BY <1>1, <1>7, SMT
<1>9. Ascending(SortedByHash(slice))
  <2>1. \A p \in 1..L : /\ order[p] \in S
                        /\ SortedByHash(slice)[p].hash = key[order[p]]
    BY <1>1, <1>4, <1>5, <1>6
  <2> QED
    BY <2>1, <1>5, <1>8, SMT DEF Ascending
<1>10. Range(SortedByHash(slice)) = Range(slice)
  BY <1>1, <1>4, <1>5, <1>8, SMT DEF Range, S
<1> QED
  BY <1>8, <1>9, <1>10

\* The filtering loop keeps an ascending slice ascending, and keeps what it should.
LEMMA FilteringKeeps ==
  ASSUME NEW slice \in Seq(VNode), Ascending(slice), NEW kept \in SUBSET DOMAIN slice
  PROVE  /\ Filtered(slice, kept) \in Seq(VNode)
         /\ Ascending(Filtered(slice, kept))
         /\ Range(Filtered(slice, kept)) = {slice[i] : i \in kept}
<1> DEFINE key == [i \in kept |-> i]
           order == InOrder(kept, key)
           L == Cardinality(kept)
<1>1. Len(slice) \in Nat /\ DOMAIN slice = 1..Len(slice) /\ slice \in [DOMAIN slice -> VNode]
  BY SMT
<1>2. IsFiniteSet(kept)
  <2>1. 1 \in Int /\ Len(slice) \in Int
    BY <1>1, SMT
  <2>2. IsFiniteSet(1..Len(slice))
    BY <2>1, FS_Interval
  <2> QED
    BY <1>1, <2>2, FS_Subset
<1>3. key \in [kept -> Int] /\ \A x, y \in kept : key[x] = key[y] => x = y
  BY <1>1, SMT
<1>4. /\ L \in Nat
      /\ order \in [1..L -> kept]
      /\ \A p, q \in 1..L : p < q => key[order[p]] < key[order[q]]
      /\ \A x \in kept : \E p \in 1..L : order[p] = x
  <2> DEFINE K == kept
  <2>1. IsFiniteSet(K) /\ key \in [K -> Int] /\ \A x, y \in K : key[x] = key[y] => x = y
    BY <1>2, <1>3
  <2> HIDE DEF key, K
  <2>2. Cardinality(K) \in Nat
    BY <2>1, FS_CardinalityType
  <2>3. InOrder(K, key) \in [1..Cardinality(K) -> K]
    BY <2>1, InOrderLists
  <2>4. \A p, q \in 1..Cardinality(K) : p < q => key[InOrder(K, key)[p]] < key[InOrder(K, key)[q]]
    BY <2>1, InOrderLists
  <2>5. \A x \in K : \E p \in 1..Cardinality(K) : InOrder(K, key)[p] = x
    BY <2>1, InOrderLists, SMT
  <2> QED
    BY <2>2, <2>3, <2>4, <2>5 DEF K
<1>5. Filtered(slice, kept) = [p \in DOMAIN order |-> slice[order[p]]]
  BY DEF Filtered
<1>6. \A x \in kept : key[x] = x
  OBVIOUS
<1> HIDE DEF key, order, L
<1>7. Filtered(slice, kept) \in [1..L -> VNode] /\ DOMAIN order = 1..L
  BY <1>1, <1>4, <1>5
<1>8. Filtered(slice, kept) \in Seq(VNode) /\ DOMAIN Filtered(slice, kept) = 1..L
  BY <1>4, <1>7, SMT
<1>9. Ascending(Filtered(slice, kept))
  BY <1>1, <1>4, <1>5, <1>6, <1>7, <1>8, SMT DEF Ascending
<1>10. Range(Filtered(slice, kept)) = {slice[i] : i \in kept}
  BY <1>1, <1>4, <1>5, <1>7, <1>8, SMT DEF Range
<1> QED
  BY <1>8, <1>9, <1>10

(***************************************************************************)
(* The invariant                                                           *)
(***************************************************************************)

\* The inductive invariant of AddNode and RemoveNode.
RingInv ==
  /\ nodes \subseteq Nodes /\ IsFiniteSet(nodes)
  /\ vnodes \in Seq(VNode)
  /\ VNodesMatchNodes

\* The slice with the virtual nodes of a new node appended has distinct hashes.
LEMMA AppendedDistinct ==
  ASSUME RingInv, NEW n \in Nodes, n \notin nodes
  PROVE  LET s == vnodes \o VNodesOf(n) IN
         /\ s \in Seq(VNode)
         /\ \A i, j \in DOMAIN s : s[i].hash = s[j].hash => i = j
         /\ Range(s) = Range(vnodes) \cup {VNodeOf(n, i) : i \in Indices}
<1> DEFINE a == vnodes
           b == VNodesOf(n)
           s == a \o b
<1>1. VNodeCount \in Nat /\ Indices = 0..(VNodeCount - 1)
  BY RingConstants DEF Indices
<1>2. \A m \in Nodes, i \in Indices : VNodeOf(m, i) \in VNode /\ VNodeOf(m, i).hash = hashVNode[m][i]
                                      /\ VNodeOf(m, i).node = m /\ VNodeOf(m, i).index = i
  BY RingConstants, SMT DEF VNodeOf, VNode
<1>3. b \in [1..VNodeCount -> VNode] /\ \A i \in 1..VNodeCount : i - 1 \in Indices /\ b[i] = VNodeOf(n, i - 1)
  BY <1>1, <1>2, SMT DEF VNodesOf
<1>4. b \in Seq(VNode) /\ Len(b) = VNodeCount /\ DOMAIN b = 1..VNodeCount
  <2> HIDE DEF b
  <2> QED
    BY <1>1, <1>3, SMT
<1> DEFINE la == Len(a)
<1>5. a \in Seq(VNode) /\ la \in Nat /\ DOMAIN a = 1..la
  BY SMT DEF RingInv
<1> HIDE DEF a, b
<1>6. /\ s \in Seq(VNode) /\ DOMAIN s = 1..(la + VNodeCount)
      /\ \A i \in 1..la : s[i] = a[i]
      /\ \A i \in (la + 1)..(la + VNodeCount) : s[i] = b[i - la]
  BY <1>1, <1>4, <1>5, SMT
<1> HIDE DEF s, la
<1>7. \A i \in 1..la : \E m \in nodes, x \in Indices : a[i] = VNodeOf(m, x)
  <2>1. \A i \in 1..la : a[i] \in Range(a)
    BY <1>5 DEF Range
  <2>2. Range(a) = {VNodeOf(m, x) : m \in nodes, x \in Indices}
    BY SMT DEF RingInv, VNodesMatchNodes, a
  <2> QED
    BY <2>1, <2>2, SMT
<1>8. \A m1, m2 \in Nodes, x1, x2 \in Indices :
        hashVNode[m1][x1] = hashVNode[m2][x2] => m1 = m2 /\ x1 = x2
  BY RingConstants
<1>9. \A i, j \in 1..la : a[i].hash = a[j].hash => i = j
  <2> TAKE i, j \in 1..la
  <2>1. a[i].hash \in Int /\ a[j].hash \in Int
    <3>1. a[i] \in VNode /\ a[j] \in VNode
      BY <1>5, SMT
    <3> QED
      BY <3>1, HashRange, SMT
  <2>2. (i < j => a[i].hash < a[j].hash) /\ (j < i => a[j].hash < a[i].hash)
    BY <1>5 DEF RingInv, VNodesMatchNodes, a
  <2> QED
    BY <2>1, <2>2, SMT
<1>10. \A i \in 1..la, j \in 1..VNodeCount : a[i].hash # b[j].hash
  BY <1>2, <1>3, <1>7, <1>8, SMT DEF RingInv
<1>11. \A i, j \in 1..VNodeCount : b[i].hash = b[j].hash => i = j
  <2> TAKE i, j \in 1..VNodeCount
  <2>1. i - 1 \in Indices /\ j - 1 \in Indices /\ b[i].hash = hashVNode[n][i - 1]
        /\ b[j].hash = hashVNode[n][j - 1]
    BY <1>2, <1>3, SMT
  <2>2. ASSUME NEW x \in Indices, NEW y \in Indices, hashVNode[n][x] = hashVNode[n][y]
        PROVE  x = y
    BY <2>2, <1>8
  <2>3. hashVNode[n][i - 1] = hashVNode[n][j - 1] => i - 1 = j - 1
    BY <2>1, <2>2, Zenon
  <2>4. i - 1 = j - 1 => i = j
    BY SMT
  <2> QED
    BY <2>1, <2>3, <2>4, Zenon
<1>12. \A i, j \in DOMAIN s : s[i].hash = s[j].hash => i = j
  <2> TAKE i, j \in DOMAIN s
  <2>1. CASE i <= la /\ j <= la
    BY <2>1, <1>5, <1>6, <1>9, SMT
  <2>2. CASE i <= la /\ j > la
    BY <2>2, <1>1, <1>5, <1>6, <1>10, SMT
  <2>3. CASE i > la /\ j <= la
    BY <2>3, <1>1, <1>5, <1>6, <1>10, SMT
  <2>4. CASE i > la /\ j > la
    <3>1. s[i] = b[i - la] /\ s[j] = b[j - la]
          /\ i - la \in 1..VNodeCount /\ j - la \in 1..VNodeCount
      BY <2>4, <1>1, <1>5, <1>6, SMTT(30)
    <3> QED
      BY <3>1, <1>5, <1>6, <1>1, <1>11, SMT
  <2> QED
    BY <2>1, <2>2, <2>3, <2>4, <1>5, <1>6, SMT
<1>13. Range(s) = Range(a) \cup Range(b)
  <2>1. \A i \in 1..VNodeCount : s[i + la] = b[i] /\ i + la \in DOMAIN s
    <3> TAKE i \in 1..VNodeCount
    <3>1. la \in Nat
      BY <1>5
    <3>2. /\ i + la \in (la + 1)..(la + VNodeCount) /\ i + la \in 1..(la + VNodeCount)
          /\ (i + la) - la = i
      BY <1>1, <3>1, SMT
    <3> QED
      BY <1>6, <3>2
  <2>2. \A i \in 1..la : i \in DOMAIN s
    BY <1>1, <1>5, <1>6, SMT
  <2>3. \A i \in DOMAIN s : s[i] \in Range(a) \cup Range(b)
    <3> TAKE i \in DOMAIN s
    <3>1. CASE i <= la
      BY <3>1, <1>1, <1>5, <1>6, SMT DEF Range
    <3>2. CASE i > la
      <4>1. i - la \in 1..VNodeCount /\ s[i] = b[i - la]
        BY <3>2, <1>1, <1>5, <1>6, SMT
      <4> QED
        BY <4>1, <1>4 DEF Range
    <3> QED
      BY <3>1, <3>2, <1>5, <1>6, SMT
  <2> QED
    BY <2>1, <2>2, <2>3, <1>4, <1>5, <1>6 DEF Range
<1>14. Range(b) = {VNodeOf(n, i) : i \in Indices}
  <2>1. \A i \in Indices : i + 1 \in 1..VNodeCount /\ (i + 1) - 1 = i
    BY <1>1, SMT
  <2>2. \A i \in Indices : b[i + 1] = VNodeOf(n, i)
    BY <2>1, <1>3
  <2> QED
    BY <1>3, <1>4, <2>1, <2>2, SMT DEF Range
<1> QED
  BY <1>6, <1>12, <1>13, <1>14 DEF a, b, s
\* AddNode appends the node's virtual nodes and sorts: the slice is that of the larger set.
LEMMA AddNodeKeeps ==
  ASSUME RingInv, NEW n \in Nodes, AddNode(n)
  PROVE  RingInv'
<1> DEFINE s == vnodes \o VNodesOf(n)
<1>1. n \notin nodes /\ nodes' = nodes \cup {n} /\ vnodes' = SortedByHash(s)
      /\ DOMAIN loads' = nodes \cup {n}
  BY DEF AddNode
<1>2. /\ s \in Seq(VNode)
      /\ \A i, j \in DOMAIN s : s[i].hash = s[j].hash => i = j
      /\ Range(s) = Range(vnodes) \cup {VNodeOf(n, i) : i \in Indices}
  BY <1>1, AppendedDistinct
<1> HIDE DEF s
<1>3. vnodes' \in Seq(VNode) /\ Ascending(vnodes') /\ Range(vnodes') = Range(s)
  BY <1>1, <1>2, SortingSorts
<1>4. Range(vnodes') = {VNodeOf(m, i) : m \in nodes', i \in Indices}
  BY <1>1, <1>2, <1>3, SMT DEF RingInv, VNodesMatchNodes
<1>5. nodes' \subseteq Nodes /\ IsFiniteSet(nodes')
  BY <1>1, FS_AddElement DEF RingInv
<1> QED
  BY <1>1, <1>3, <1>4, <1>5, SMT DEF RingInv, VNodesMatchNodes, Ascending

\* RemoveNode filters: the slice is that of the smaller set.
LEMMA RemoveNodeKeeps ==
  ASSUME RingInv, NEW n \in Nodes, RemoveNode(n)
  PROVE  RingInv'
<1> DEFINE kept == {i \in DOMAIN vnodes : vnodes[i].node # n}
           image == {vnodes[i] : i \in kept}
<1>1. nodes' = nodes \ {n} /\ vnodes' = Filtered(vnodes, kept) /\ DOMAIN loads' = nodes \ {n}
  BY DEF RemoveNode
<1>2. Range(vnodes) = {VNodeOf(m, i) : m \in nodes, i \in Indices}
  BY SMT DEF RingInv, VNodesMatchNodes
<1>3. vnodes \in Seq(VNode) /\ Ascending(vnodes) /\ kept \in SUBSET DOMAIN vnodes
  BY DEF RingInv, VNodesMatchNodes, Ascending
<1>4. image = {VNodeOf(m, i) : m \in nodes \ {n}, i \in Indices}
  <2>1. \A i \in kept : \E m \in nodes \ {n}, x \in Indices : vnodes[i] = VNodeOf(m, x)
    <3> TAKE i \in kept
    <3>1. vnodes[i] \in Range(vnodes)
      BY DEF Range
    <3>2. PICK m \in nodes, x \in Indices : vnodes[i] = VNodeOf(m, x)
      BY <3>1, <1>2, SMT
    <3>3. vnodes[i].node = m
      BY <3>2, SMT DEF VNodeOf
    <3> QED
      BY <3>2, <3>3
  <2>2. \A m \in nodes \ {n}, x \in Indices : \E i \in kept : vnodes[i] = VNodeOf(m, x)
    <3> TAKE m \in nodes \ {n}, x \in Indices
    <3>1. VNodeOf(m, x) \in Range(vnodes)
      BY <1>2, SMT
    <3>2. PICK i \in DOMAIN vnodes : vnodes[i] = VNodeOf(m, x)
      BY <3>1 DEF Range
    <3>3. vnodes[i].node # n
      BY <3>2, SMT DEF VNodeOf
    <3> QED
      BY <3>2, <3>3
  <2> HIDE DEF kept
  <2> QED
    BY <2>1, <2>2, SMT
<1> HIDE DEF kept
<1>5. vnodes' \in Seq(VNode) /\ Ascending(vnodes')
  BY <1>1, <1>3, FilteringKeeps
<1>6. nodes' \subseteq Nodes /\ IsFiniteSet(nodes')
  BY <1>1, FS_RemoveElement DEF RingInv
<1>7. Range(vnodes') = {VNodeOf(m, i) : m \in nodes', i \in Indices}
  <2>1. Range(vnodes') = image
    BY <1>1, <1>3, FilteringKeeps
  <2> HIDE DEF image
  <2>2. Range(vnodes') = {VNodeOf(m, i) : m \in nodes \ {n}, i \in Indices}
    BY <1>4, <2>1, SMT
  <2> QED
    BY <1>1, <2>2, SMT
<1> QED
  BY <1>1, <1>5, <1>6, <1>7, SMT DEF RingInv, VNodesMatchNodes, Ascending

\* RingInv holds at the start and every step preserves it.
LEMMA RingInvariant == Spec => []RingInv
<1>1. Init => RingInv
  <2> SUFFICES ASSUME Init PROVE RingInv
    OBVIOUS
  <2>1. nodes = {} /\ vnodes = <<>> /\ DOMAIN loads = {}
    BY DEF Init
  <2>2. IsFiniteSet({})
    BY FS_EmptySet
  <2>3. Range(vnodes) = {} /\ DOMAIN vnodes = {} /\ vnodes \in Seq(VNode)
    BY <2>1, SMT DEF Range
  <2> QED
    BY <2>1, <2>2, <2>3, SMT DEF RingInv, VNodesMatchNodes
<1>2. RingInv /\ [Next]_vars => RingInv'
  <2> SUFFICES ASSUME RingInv, [Next]_vars PROVE RingInv'
    OBVIOUS
  <2>1. CASE \E n \in Nodes : AddNode(n)
    BY <2>1, AddNodeKeeps
  <2>2. CASE \E n \in Nodes : RemoveNode(n)
    BY <2>2, RemoveNodeKeeps
  <2>3. CASE UNCHANGED <<nodes, vnodes>> /\ DOMAIN loads' = DOMAIN loads
    BY <2>3, SMT DEF RingInv, VNodesMatchNodes
  <2>4. ASSUME NEW c \in Callers, IncrementLoad(c) \/ DecrementLoad(c)
        PROVE  UNCHANGED <<nodes, vnodes>> /\ DOMAIN loads' = DOMAIN loads
    BY <2>4 DEF IncrementLoad, DecrementLoad
  <2>5. ASSUME NEW c \in Callers, NEW h \in KeyHashes, Lookup(c, h)
        PROVE  UNCHANGED <<nodes, vnodes>> /\ DOMAIN loads' = DOMAIN loads
    BY <2>5 DEF Lookup
  <2>6. CASE UNCHANGED vars
    BY <2>6, <2>3 DEF vars
  <2> QED
    BY <2>1, <2>2, <2>3, <2>4, <2>5, <2>6 DEF Next
<1> QED
  BY <1>1, <1>2, PTL DEF Spec

\* However the members came and went (AddNode, RemoveNode), the slice is exactly
\* their virtual nodes in strict order of hash.
THEOREM SliceMatchesMembers == Spec => []VNodesMatchNodes
<1>1. RingInv => VNodesMatchNodes
  BY DEF RingInv
<1> QED
  BY <1>1, RingInvariant, PTL
(***************************************************************************)
(* The search                                                              *)
(***************************************************************************)

\* One turn of sort.Search: the value at the interval r, from those of smaller ones.
BisectStep(slice, target, f, r) ==
  IF r[1] >= r[2] THEN r[1]
  ELSE IF slice[((r[1] + r[2]) \div 2) + 1].hash < target
       THEN f[<<((r[1] + r[2]) \div 2) + 1, r[2]>>]
       ELSE f[<<r[1], (r[1] + r[2]) \div 2>>]

\* The bisection ends: its recursive definition has a solution.
LEMMA BisectDefined ==
  ASSUME NEW slice \in Seq(VNode), NEW target \in Int
  PROVE  \E f : f = [r \in (0..Len(slice)) \X (0..Len(slice)) |-> BisectStep(slice, target, f, r)]
<1> DEFINE L == Len(slice)
           half(r) == (r[1] + r[2]) \div 2
           left(r) == <<r[1], half(r)>>
           right(r) == <<half(r) + 1, r[2]>>
           Body(f, r) == IF r[1] >= r[2] THEN r[1]
                         ELSE IF slice[half(r) + 1].hash < target THEN f[right(r)] ELSE f[left(r)]
           Pairs == (0..L) \X (0..L)
           Upto(m) == {r \in Pairs : r[2] - r[1] <= m}
           Solves(f, m) == f = [r \in Upto(m) |-> Body(f, r)]
           Unsolved == {m \in Nat : ~\E f : Solves(f, m)}
<1>1. L \in Nat
  BY SMT
<1>2. ASSUME NEW m \in Nat, NEW r \in Upto(m + 1), r[1] < r[2]
      PROVE  left(r) \in Upto(m) /\ right(r) \in Upto(m)
  <2>1. r[1] \in 0..L /\ r[2] \in 0..L /\ r[2] - r[1] <= m + 1
    OBVIOUS
  <2>2. half(r) \in Nat /\ r[1] <= half(r) /\ half(r) < r[2]
    BY <2>1, <1>1, <1>2, SMTT(30)
  <2> HIDE DEF half
  <2> QED
    BY <2>1, <2>2, <1>1, SMT
<1> HIDE DEF half, left, right, Pairs
<1>3. ASSUME NEW m \in Nat, NEW f, Solves(f, m)
      PROVE  \E g : Solves(g, m + 1)
  <2> DEFINE g == [r \in Upto(m + 1) |-> IF r \in Upto(m) THEN f[r] ELSE Body(f, r)]
  <2>0. Upto(m) \subseteq Upto(m + 1)
    <3>1. \A r \in Pairs : r[2] - r[1] \in Int
      BY <1>1, SMT DEF Pairs
    <3> QED
      BY <3>1, SMT
  <2>1. \A r \in Upto(m) : f[r] = Body(f, r) /\ g[r] = f[r]
    BY <1>3, <2>0
  <2>2. \A r \in Upto(m + 1) : g[r] = Body(f, r)
    BY <2>1
  <2>3. \A r \in Upto(m + 1) : Body(g, r) = Body(f, r)
    <3> TAKE r \in Upto(m + 1)
    <3>1. CASE r[1] >= r[2]
      BY <3>1
    <3>2. CASE ~(r[1] >= r[2])
      <4>1. r[1] < r[2]
        BY <3>2, <1>1, SMT DEF Pairs
      <4>2. left(r) \in Upto(m) /\ right(r) \in Upto(m)
        BY <4>1, <1>2
      <4>3. g[left(r)] = f[left(r)] /\ g[right(r)] = f[right(r)]
        BY <4>2, <2>1
      <4> HIDE DEF g, Upto
      <4> QED
        BY <4>3
    <3> QED
      BY <3>1, <3>2
  <2>4. g = [r \in Upto(m + 1) |-> g[r]]
    OBVIOUS
  <2> HIDE DEF g, Upto, Body
  <2>5. Solves(g, m + 1)
    BY <2>2, <2>3, <2>4
  <2> QED
    BY <2>5
<1>4. \E f : Solves(f, 0)
  <2> DEFINE f == [r \in Upto(0) |-> r[1]]
  <2>1. \A r \in Upto(0) : r[1] >= r[2]
    BY <1>1, SMT DEF Pairs
  <2>2. Solves(f, 0)
    BY <2>1
  <2> QED
    BY <2>2
<1> HIDE DEF Solves
<1>5. Unsolved = {}
  <2> SUFFICES ASSUME Unsolved # {} PROVE FALSE
    OBVIOUS
  <2>1. PICK m \in Unsolved : \A y \in Unsolved : m <= y
    <3>1. Unsolved \subseteq Nat
      OBVIOUS
    <3> HIDE DEF Unsolved
    <3> QED
      BY <3>1, NonEmptyHasLeast
  <2>2. m # 0
    BY <1>4
  <2>3. m - 1 \in Nat /\ (m - 1) + 1 = m
    BY <2>2, SMT
  <2>4. m - 1 \notin Unsolved
    BY <2>1, <2>3, SMT
  <2>5. PICK f : Solves(f, m - 1)
    BY <2>3, <2>4
  <2>6. \E g : Solves(g, (m - 1) + 1)
    BY <1>3, <2>3, <2>5
  <2> QED
    BY <2>3, <2>6
<1>6. PICK f : Solves(f, L)
  BY <1>1, <1>5
<1>7. Upto(L) = Pairs
  BY <1>1, SMT DEF Pairs
<1>8. f = [r \in Pairs |-> Body(f, r)]
  BY <1>6, <1>7 DEF Solves
<1> QED
  BY <1>8 DEF Pairs, half, left, right, BisectStep
\* F[<<i, j>>] bisects the positions from i to j as sort.Search does.
Bisects(F, h, L, target) ==
  \A i, j \in 0..L :
    LET c == (i + j) \div 2
    IN  /\ i >= j => F[<<i, j>>] = i
        /\ i < j /\ h[c + 1] < target => F[<<i, j>>] = F[<<c + 1, j>>]
        /\ i < j /\ ~(h[c + 1] < target) => F[<<i, j>>] = F[<<i, c>>]

\* A function that bisects finds the place of the target.
LEMMA BisectionFinds ==
  ASSUME NEW L \in Nat, NEW h \in [1..L -> Int], NEW target \in Int,
         \A x, y \in 1..L : x < y => h[x] < h[y],
         NEW F, Bisects(F, h, L, target)
  PROVE  /\ F[<<0, L>>] \in 0..L
         /\ \A x \in 1..F[<<0, L>>] : h[x] < target
         /\ \A x \in (F[<<0, L>>] + 1)..L : h[x] >= target
<1> DEFINE Finds(i, j, b) == /\ b \in i..j
                             /\ \A x \in (i + 1)..b : h[x] < target
                             /\ \A x \in (b + 1)..j : h[x] >= target
           Wrong == {m \in Nat : \E i, j \in 0..L : i <= j /\ j - i = m /\ ~Finds(i, j, F[<<i, j>>])}
<1>1. Wrong = {}
  <2> SUFFICES ASSUME Wrong # {} PROVE FALSE
    OBVIOUS
  <2>1. Min(Wrong) \in Wrong /\ \A y \in Wrong : Min(Wrong) <= y
    <3>1. Wrong \subseteq Nat
      OBVIOUS
    <3> HIDE DEF Wrong
    <3> QED
      BY <3>1, NonEmptyHasLeast
  <2>2. PICK m \in Wrong : m \in Nat /\ \A y \in Wrong : m <= y
    BY <2>1
  <2>7. PICK i, j \in 0..L : i <= j /\ j - i = m /\ ~Finds(i, j, F[<<i, j>>])
    OBVIOUS
  <2>3. \A k, l \in 0..L : k <= l /\ l - k < j - i => Finds(k, l, F[<<k, l>>])
    <3> TAKE k, l \in 0..L
    <3> SUFFICES ASSUME k <= l, l - k < j - i, ~Finds(k, l, F[<<k, l>>]) PROVE FALSE
      OBVIOUS
    <3> HIDE DEF Finds
    <3>1. l - k \in Nat
      BY SMTT(30)
    <3>2. l - k \in Wrong
      BY <3>1
    <3>3. m <= l - k /\ m \in Nat
      BY <2>2, <3>2
    <3> QED
      BY <2>7, <3>1, <3>3, SMT
  <2> HIDE DEF Wrong
  <2>4. CASE i >= j
    <3>1. F[<<i, j>>] = i
      BY <2>4 DEF Bisects
    <3>2. Finds(i, j, i)
      BY <2>4, <2>7, SMT
    <3> QED
      BY <3>1, <3>2, <2>7
  <2>5. CASE i < j
    <3> DEFINE c == (i + j) \div 2
    <3>1. c \in Nat /\ i <= c /\ c < j
      BY <2>5, SMT
    <3> HIDE DEF c, Finds
    <3>2. c \in 0..L /\ c + 1 \in 0..L /\ c + 1 \in 1..L
      BY <3>1, SMT
    <3>3. CASE h[c + 1] < target
      <4>1. F[<<i, j>>] = F[<<c + 1, j>>]
        BY <2>5, <3>3 DEF c, Bisects
      <4>2. Finds(c + 1, j, F[<<c + 1, j>>])
        <5>1. c + 1 <= j /\ j - (c + 1) < j - i
          BY <3>1, SMT
        <5> QED
          BY <2>3, <3>2, <5>1
      <4>3. \A x \in (i + 1)..(c + 1) : h[x] < target
        <5> TAKE x \in (i + 1)..(c + 1)
        <5>1. x \in 1..L /\ x <= c + 1 /\ h[x] \in Int /\ h[c + 1] \in Int
          BY <3>1, <3>2, SMT
        <5>2. x < c + 1 => h[x] < h[c + 1]
          BY <3>2, <5>1
        <5> QED
          BY <3>1, <3>3, <5>1, <5>2, SMT
      <4> DEFINE b == F[<<c + 1, j>>]
      <4>4. Finds(i, j, b)
        <5>1. /\ b \in (c + 1)..j
              /\ \A x \in ((c + 1) + 1)..b : h[x] < target
              /\ \A x \in (b + 1)..j : h[x] >= target
          BY <4>2, <3>1 DEF Finds
        <5> HIDE DEF b
        <5> QED
          BY <5>1, <4>3, <3>1, SMT DEF Finds
      <4> QED
        BY <4>1, <4>4, <2>7
    <3>4. CASE ~(h[c + 1] < target)
      <4>1. F[<<i, j>>] = F[<<i, c>>]
        BY <2>5, <3>4 DEF c, Bisects
      <4>2. Finds(i, c, F[<<i, c>>])
        <5>1. i <= c /\ c - i < j - i
          BY <3>1, SMT
        <5> QED
          BY <2>3, <3>2, <5>1
      <4>3. \A x \in (c + 1)..j : h[x] >= target
        <5> TAKE x \in (c + 1)..j
        <5>1. x \in 1..L /\ x >= c + 1 /\ h[x] \in Int /\ h[c + 1] \in Int
          BY <3>1, <3>2, SMT
        <5>2. c + 1 < x => h[c + 1] < h[x]
          BY <3>2, <5>1
        <5> QED
          BY <3>1, <3>4, <5>1, <5>2, SMT
      <4> DEFINE b == F[<<i, c>>]
      <4>4. Finds(i, j, b)
        <5>1. /\ b \in i..c
              /\ \A x \in (i + 1)..b : h[x] < target
              /\ \A x \in (b + 1)..c : h[x] >= target
          BY <4>2, <3>1 DEF Finds
        <5> HIDE DEF b
        <5> QED
          BY <5>1, <4>3, <3>1, SMT DEF Finds
      <4> QED
        BY <4>1, <4>4, <2>7
    <3> QED
      BY <3>3, <3>4
  <2> QED
    BY <2>4, <2>5, SMT
<1>2. Finds(0, L, F[<<0, L>>])
  <2> SUFFICES ASSUME ~Finds(0, L, F[<<0, L>>]) PROVE FALSE
    OBVIOUS
  <2>1. 0 \in 0..L /\ L \in 0..L /\ 0 <= L /\ L - 0 = L
    BY SMT
  <2> HIDE DEF Finds
  <2>2. L \in Wrong
    BY <2>1
  <2> QED
    BY <2>2, <1>1
<1> DEFINE b == F[<<0, L>>]
<1>3. /\ b \in 0..L
      /\ \A x \in (0 + 1)..b : h[x] < target
      /\ \A x \in (b + 1)..L : h[x] >= target
  BY <1>2 DEF Finds
<1> HIDE DEF b
<1>4. 0 + 1 = 1
  BY SMT
<1> QED
  BY <1>3, <1>4 DEF b

\* sort.Search on an ascending slice: what is before the result is below the
\* target, and what is from there on is not.
LEMMA BisectFinds ==
  ASSUME NEW slice \in Seq(VNode), Ascending(slice), NEW target \in Int
  PROVE  /\ Bisect(slice, target) \in 0..Len(slice)
         /\ \A x \in 1..Bisect(slice, target) : slice[x].hash < target
         /\ \A x \in (Bisect(slice, target) + 1)..Len(slice) : slice[x].hash >= target
<1> DEFINE L == Len(slice)
           h == [x \in 1..L |-> slice[x].hash]
           F == CHOOSE f : f = [r \in (0..L) \X (0..L) |-> BisectStep(slice, target, f, r)]
<1>1. L \in Nat
  BY SMT
<1>2. F = [r \in (0..L) \X (0..L) |-> BisectStep(slice, target, F, r)]
  <2>1. \E f : f = [r \in (0..L) \X (0..L) |-> BisectStep(slice, target, f, r)]
    BY BisectDefined
  <2> QED
    BY <2>1
<1>3. Bisect(slice, target) = F[<<0, L>>]
  BY DEF Bisect, BisectStep
<1> HIDE DEF F
<1>4. h \in [1..L -> Int] /\ \A x \in 1..L : h[x] = slice[x].hash
  <2>1. \A x \in 1..L : slice[x] \in VNode
    BY SMT
  <2> QED
    BY <2>1, HashRange, SMT
<1>5. \A x, y \in 1..L : x < y => h[x] < h[y]
  BY <1>4, SMT DEF Ascending
<1> HIDE DEF h
<1>6. Bisects(F, h, L, target)
  <2> SUFFICES ASSUME NEW i \in 0..L, NEW j \in 0..L
               PROVE  LET c == (i + j) \div 2
                      IN  /\ i >= j => F[<<i, j>>] = i
                          /\ i < j /\ h[c + 1] < target => F[<<i, j>>] = F[<<c + 1, j>>]
                          /\ i < j /\ ~(h[c + 1] < target) => F[<<i, j>>] = F[<<i, c>>]
    BY DEF Bisects
  <2>1. F[<<i, j>>] = BisectStep(slice, target, F, <<i, j>>)
    <3>1. <<i, j>> \in (0..L) \X (0..L)
      OBVIOUS
    <3> QED
      BY <1>2, <3>1, Zenon
  <2>2. F[<<i, j>>] = IF i >= j THEN i
                      ELSE IF slice[((i + j) \div 2) + 1].hash < target
                           THEN F[<<((i + j) \div 2) + 1, j>>] ELSE F[<<i, (i + j) \div 2>>]
    BY <2>1 DEF BisectStep
  <2>3. i < j => ((i + j) \div 2) + 1 \in 1..L
    BY <1>1, SMT
  <2> QED
    BY <2>2, <2>3, <1>4, SMT
<1>7. /\ F[<<0, L>>] \in 0..L
      /\ \A x \in 1..F[<<0, L>>] : h[x] < target
      /\ \A x \in (F[<<0, L>>] + 1)..L : h[x] >= target
  <2> HIDE DEF L
  <2> QED
    BY <1>1, <1>4, <1>5, <1>6, BisectionFinds
<1> DEFINE b == Bisect(slice, target)
<1>8. /\ b \in 0..L
      /\ \A x \in 1..b : h[x] < target
      /\ \A x \in (b + 1)..L : h[x] >= target
  BY <1>3, <1>7
<1> HIDE DEF b, L
<1>9. /\ \A x \in 1..b : x \in 1..L
      /\ \A x \in (b + 1)..L : x \in 1..L
  BY <1>1, <1>8, SMT
<1> QED
  BY <1>4, <1>8, <1>9 DEF b, L

(***************************************************************************)
(* The walk                                                                *)
(***************************************************************************)

\* The positions on the circle.
Hashes == 0..(HashSpace - 1)

\* How far clockwise of the position hash the position x is.
Ahead(x, hash) == (x - hash) % HashSpace

\* A position clockwise of the start is ahead by the difference, one behind it by
\* the difference and a full turn (the wrap-around of search and of the walk).
LEMMA AheadValue ==
  ASSUME NEW x \in Hashes, NEW h \in Hashes
  PROVE  /\ Ahead(x, h) \in Nat
         /\ x >= h => Ahead(x, h) = x - h
         /\ x < h => Ahead(x, h) = x - h + HashSpace
<1>1. HashSpace \in Nat \ {0} /\ x - h \in Int /\ x \in Nat /\ h \in Nat
      /\ x < HashSpace /\ h < HashSpace
  BY RingConstants, SMT DEF Hashes
<1>2. /\ x >= h => (x - h) % HashSpace = x - h
      /\ x < h => (x - h) % HashSpace = x - h + HashSpace
  <2> DEFINE a == x - h
  <2>1. a \in Int /\ (x >= h => 0 <= a /\ a < HashSpace) /\ (x < h => -HashSpace <= a /\ a < 0)
    BY <1>1, SMT
  <2> HIDE DEF a
  <2>2. /\ x >= h => a % HashSpace = a
        /\ x < h => a % HashSpace = a + HashSpace
    BY <1>1, <2>1, OneTurn
  <2> QED
    BY <2>2 DEF a
<1> QED
  BY <1>1, <1>2, SMT DEF Ahead

\* Distance is the way to the nearest of the node's virtual nodes.
LEMMA DistanceNearest ==
  ASSUME NEW n \in Nodes, NEW h \in Hashes
  PROVE  /\ Distance(n, h) \in Nat
         /\ \E i \in Indices : Distance(n, h) = Ahead(hashVNode[n][i], h)
         /\ \A i \in Indices : Distance(n, h) <= Ahead(hashVNode[n][i], h)
<1> DEFINE T == {Ahead(hashVNode[n][i], h) : i \in Indices}
<1>1. \A i \in Indices : hashVNode[n][i] \in Hashes
  BY RingConstants, SMT DEF Hashes
<1>2. \A i \in Indices : Ahead(hashVNode[n][i], h) \in Nat
  BY <1>1, AheadValue
<1>3. 0 \in Indices
  BY RingConstants, SMT DEF Indices
<1>4. T \subseteq Nat /\ T # {}
  BY <1>2, <1>3
<1>5. Distance(n, h) = Min(T)
  BY DEF Distance, Ahead
<1>6. Min(T) \in T /\ \A y \in T : Min(T) <= y
  <2> HIDE DEF T
  <2> QED
    BY <1>4, NonEmptyHasLeast
<1> QED
  BY <1>2, <1>5, <1>6

\* Different nodes are at different distances.
LEMMA DistancesDiffer ==
  ASSUME NEW m \in Nodes, NEW n \in Nodes, NEW h \in Hashes, Distance(m, h) = Distance(n, h)
  PROVE  m = n
<1>1. PICK i \in Indices : Distance(m, h) = Ahead(hashVNode[m][i], h)
  BY DistanceNearest
<1>2. PICK j \in Indices : Distance(n, h) = Ahead(hashVNode[n][j], h)
  BY DistanceNearest
<1> DEFINE x == hashVNode[m][i]
           y == hashVNode[n][j]
<1>3. x \in Hashes /\ y \in Hashes
  BY RingConstants, SMT DEF Hashes
<1> HIDE DEF x, y
<1>4. HashSpace \in Nat /\ Hashes = 0..(HashSpace - 1)
  BY RingConstants DEF Hashes
<1>5. /\ Ahead(x, h) = Ahead(y, h)
      /\ x >= h => Ahead(x, h) = x - h
      /\ x < h => Ahead(x, h) = x - h + HashSpace
      /\ y >= h => Ahead(y, h) = y - h
      /\ y < h => Ahead(y, h) = y - h + HashSpace
  BY <1>1, <1>2, <1>3, AheadValue DEF x, y
<1>6. x = y
  BY <1>3, <1>4, <1>5, SMT
<1> QED
  BY <1>6, RingConstants DEF x, y

\* Position i of the walk is this position of the slice.
Place(slice, hash, i) == ((search(slice, hash) + i - 1) % Len(slice)) + 1

\* A walk passes every place of an ascending slice once, each farther than the last.
LEMMA WalkAscends ==
  ASSUME NEW slice \in Seq(VNode), Ascending(slice), slice # <<>>, NEW h \in Hashes
  PROVE  /\ \A i \in 1..Len(slice) : Place(slice, h, i) \in 1..Len(slice)
         /\ \A q \in 1..Len(slice) : \E i \in 1..Len(slice) : Place(slice, h, i) = q
         /\ \A i, j \in 1..Len(slice) :
              i < j => Ahead(slice[Place(slice, h, i)].hash, h)
                         < Ahead(slice[Place(slice, h, j)].hash, h)
<1> DEFINE L == Len(slice)
           b == Bisect(slice, h)
           idx == search(slice, h)
           place(i) == Place(slice, h, i)
           hash(q) == slice[q].hash
<1>1. L \in Nat \ {0} /\ h \in Int /\ HashSpace \in Nat /\ h < HashSpace
  BY RingConstants, SMT DEF Hashes
<1>2. \A q \in 1..L : hash(q) \in Hashes /\ hash(q) \in Int /\ hash(q) < HashSpace /\ hash(q) >= 0
  <2>1. \A q \in 1..L : slice[q] \in VNode
    BY SMT
  <2> QED
    BY <2>1, <1>1, HashRange, SMT DEF Hashes
<1>3. \A p, q \in 1..L : p < q => hash(p) < hash(q)
  BY SMT DEF Ascending
<1>4. /\ b \in 0..L
      /\ \A q \in 1..b : hash(q) < h
      /\ \A q \in (b + 1)..L : hash(q) >= h
  BY <1>1, BisectFinds
<1>5. idx \in 0..(L - 1) /\ (b < L => idx = b) /\ (b = L => idx = 0)
  <2>1. idx = IF b >= L THEN 0 ELSE b
    BY DEF search
  <2>2. b \in 0..L
    BY <1>4
  <2> HIDE DEF b, L, idx
  <2> QED
    BY <1>1, <2>1, <2>2, SMT
<1>6. \A i \in 1..L : place(i) = IF idx + i <= L THEN idx + i ELSE idx + i - L
  <2> TAKE i \in 1..L
  <2> DEFINE a == idx + i - 1
  <2>1. a \in Int /\ 0 <= a /\ a < 2 * L /\ (idx + i <= L => a < L) /\ (~(idx + i <= L) => L <= a)
    <3> HIDE DEF idx, L
    <3> QED
      BY <1>1, <1>5, SMT
  <2>2. place(i) = (a % L) + 1
    BY DEF Place
  <2> HIDE DEF a, L, idx
  <2>3. a % L = IF idx + i <= L THEN a ELSE a - L
    BY <1>1, <2>1, OneTurn
  <2>4. idx \in Int
    BY <1>1, <1>5, SMT
  <2> QED
    BY <1>1, <2>1, <2>2, <2>3, <2>4, SMTT(30) DEF a
<1>7. \A q \in 1..L : /\ hash(q) >= h => Ahead(hash(q), h) = hash(q) - h
                      /\ hash(q) < h => Ahead(hash(q), h) = hash(q) - h + HashSpace
  BY <1>2, AheadValue
<1> HIDE DEF L, b, idx, place, hash
<1>8. \A i \in 1..L : place(i) \in 1..L
  BY <1>1, <1>5, <1>6, SMTT(30)
<1>9. \A q \in 1..L : \E i \in 1..L : place(i) = q
  <2> TAKE q \in 1..L
  <2>1. CASE q > idx
    <3>1. q - idx \in 1..L /\ idx + (q - idx) = q
      BY <2>1, <1>1, <1>5, SMT
    <3>2. place(q - idx) = q
      BY <3>1, <1>1, <1>5, <1>6, SMT
    <3> QED
      BY <3>1, <3>2
  <2>2. CASE q <= idx
    <3>1. q - idx + L \in 1..L /\ idx + (q - idx + L) = q + L
      BY <2>2, <1>1, <1>5, SMT
    <3>2. place(q - idx + L) = q
      BY <3>1, <1>1, <1>5, <1>6, SMT
    <3> QED
      BY <3>1, <3>2
  <2> QED
    BY <2>1, <2>2, <1>1, <1>5, SMT
<1>10. ASSUME NEW i \in 1..L, NEW j \in 1..L, i < j
       PROVE  Ahead(hash(place(i)), h) < Ahead(hash(place(j)), h)
  <2> DEFINE p == place(i)
             q == place(j)
  <2>1. p \in 1..L /\ q \in 1..L
    BY <1>8
  <2>2. (p < q /\ (p > b \/ q <= b)) \/ (p > b /\ q <= b)
    <3>1. /\ p = IF idx + i <= L THEN idx + i ELSE idx + i - L
          /\ q = IF idx + j <= L THEN idx + j ELSE idx + j - L
      BY <1>6
    <3> HIDE DEF p, q
    <3>2. CASE b < L
      <4>1. idx = b
        BY <1>5, <3>2
      <4> QED
        BY <4>1, <3>1, <3>2, <1>1, <1>4, <1>10, SMT
    <3>3. CASE b = L
      <4>1. idx = 0
        BY <1>5, <3>3
      <4>2. p = i /\ q = j
        BY <4>1, <3>1, <1>1, SMT
      <4> QED
        BY <4>2, <3>3, <1>1, <1>10, SMT
    <3> QED
      BY <3>2, <3>3, <1>1, <1>4, SMT
  <2> HIDE DEF p, q
  <2>3. hash(p) \in Int /\ hash(q) \in Int /\ hash(p) < HashSpace /\ hash(q) >= 0
    BY <2>1, <1>2
  <2>4. /\ p > b => hash(p) >= h /\ Ahead(hash(p), h) = hash(p) - h
        /\ p <= b => hash(p) < h /\ Ahead(hash(p), h) = hash(p) - h + HashSpace
        /\ q > b => hash(q) >= h /\ Ahead(hash(q), h) = hash(q) - h
        /\ q <= b => hash(q) < h /\ Ahead(hash(q), h) = hash(q) - h + HashSpace
    <3>1. /\ p > b => p \in (b + 1)..L
          /\ p <= b => p \in 1..b
          /\ q > b => q \in (b + 1)..L
          /\ q <= b => q \in 1..b
      BY <2>1, <1>1, <1>4, SMT
    <3> QED
      BY <3>1, <2>1, <1>4, <1>7
  <2>5. p < q => hash(p) < hash(q)
    BY <2>1, <1>3
  <2>6. (p > b \/ p <= b) /\ (q > b \/ q <= b) /\ (q <= b /\ p < q => p <= b) /\ (p > b /\ p < q => q > b)
    BY <2>1, <1>1, <1>4, SMT
  <2>7. p > b /\ q <= b => Ahead(hash(p), h) < Ahead(hash(q), h)
    BY <2>3, <2>4, <1>1, SMT
  <2>8. p < q /\ p > b => Ahead(hash(p), h) < Ahead(hash(q), h)
    BY <2>3, <2>4, <2>5, <2>6, <1>1, SMT
  <2>9. p < q /\ q <= b => Ahead(hash(p), h) < Ahead(hash(q), h)
    BY <2>3, <2>4, <2>5, <2>6, <1>1, SMT
  <2>10. Ahead(hash(p), h) < Ahead(hash(q), h)
    BY <2>2, <2>7, <2>8, <2>9
  <2> QED
    BY <2>10 DEF p, q
<1> QED
  BY <1>8, <1>9, <1>10 DEF L, place, hash
\* The slice holds the virtual nodes of the members of S, ascending.
IsSliceOf(slice, S) ==
  /\ S \subseteq Nodes /\ IsFiniteSet(S)
  /\ slice \in Seq(VNode) /\ Ascending(slice)
  /\ Range(slice) = {VNodeOf(n, i) : n \in S, i \in Indices}

\* A walk w of L steps meets the members of S, at ever larger distances d, each
\* of them at its own distance for the first time.
Meets(w, L, d, S, h) ==
  /\ w \in [1..L -> S] /\ d \in [1..L -> Nat]
  /\ \A i, j \in 1..L : i < j => d[i] < d[j]
  /\ \A i \in 1..L : Distance(w[i], h) <= d[i]
  /\ \A n \in S : \E i \in 1..L : w[i] = n /\ d[i] = Distance(n, h)

\* The walk of GetNode and GetNodes meets all members of the ring.
LEMMA WalkMeets ==
  ASSUME NEW slice, NEW S, IsSliceOf(slice, S), NEW h \in Hashes
  PROVE  /\ Len(slice) \in Nat
         /\ \E d : Meets(Walk(slice, h), Len(slice), d, S, h)
<1> DEFINE L == Len(slice)
           w == Walk(slice, h)
           place(i) == Place(slice, h, i)
           d == [i \in 1..L |-> Ahead(slice[place(i)].hash, h)]
<1>1. slice \in Seq(VNode) /\ Ascending(slice) /\ S \subseteq Nodes /\ L \in Nat
      /\ Range(slice) = {VNodeOf(n, i) : n \in S, i \in Indices}
  BY SMT DEF IsSliceOf
<1>2. 0 \in Indices /\ Indices \subseteq Int
  BY RingConstants, SMT DEF Indices
<1>3. CASE slice = <<>>
  <2>1. L = 0 /\ 1..L = {} /\ Range(slice) = {}
    BY <1>3, SMT DEF Range
  <2>2. S = {}
    BY <1>1, <1>2, <2>1, SMT
  <2>3. w \in [1..L -> S] /\ d \in [1..L -> Nat]
    BY <2>1 DEF Walk
  <2> HIDE DEF w, d, L
  <2>4. Meets(w, L, d, S, h)
    BY <2>1, <2>2, <2>3 DEF Meets
  <2> QED
    BY <1>1, <2>4 DEF w, L
<1>4. CASE slice # <<>>
  <2>1. /\ \A i \in 1..L : place(i) \in 1..L
        /\ \A q \in 1..L : \E i \in 1..L : place(i) = q
        /\ \A i, j \in 1..L :
             i < j => Ahead(slice[place(i)].hash, h) < Ahead(slice[place(j)].hash, h)
    BY <1>1, <1>4, WalkAscends
  <2>2. w = [i \in 1..L |-> slice[place(i)].node]
    BY DEF Walk, Place
  <2> HIDE DEF place, w
  <2>3. \A q \in 1..L : \E n \in S, x \in Indices : slice[q] = VNodeOf(n, x)
    <3> TAKE q \in 1..L
    <3>1. slice[q] \in Range(slice)
      BY <1>1, SMT DEF Range
    <3> QED
      BY <1>1, <3>1, SMT
  <2>4. \A n \in S, x \in Indices : \E q \in 1..L : slice[q] = VNodeOf(n, x)
    <3> TAKE n \in S, x \in Indices
    <3>1. VNodeOf(n, x) \in Range(slice)
      BY <1>1, SMTT(30)
    <3> QED
      BY <1>1, <3>1, SMT DEF Range
  <2>5. \A n \in S, x \in Indices : /\ VNodeOf(n, x).node = n
                                    /\ VNodeOf(n, x).hash = hashVNode[n][x]
                                    /\ hashVNode[n][x] \in Hashes
    BY <1>1, RingConstants, SMT DEF VNodeOf, Hashes
  <2>6. ASSUME NEW i \in 1..L
        PROVE  w[i] \in S /\ d[i] \in Nat /\ Distance(w[i], h) <= d[i]
    <3>1. PICK n \in S, x \in Indices : slice[place(i)] = VNodeOf(n, x)
      BY <2>1, <2>3
    <3>2. w[i] = n /\ d[i] = Ahead(hashVNode[n][x], h)
      BY <2>2, <2>5, <3>1, SMT
    <3>3. Distance(n, h) <= Ahead(hashVNode[n][x], h) /\ Ahead(hashVNode[n][x], h) \in Nat
      BY <1>1, <2>5, DistanceNearest, AheadValue
    <3> QED
      BY <3>2, <3>3
  <2>7. ASSUME NEW n \in S
        PROVE  \E i \in 1..L : w[i] = n /\ d[i] = Distance(n, h)
    <3>1. PICK x \in Indices : Distance(n, h) = Ahead(hashVNode[n][x], h)
      BY <1>1, DistanceNearest
    <3>2. PICK q \in 1..L : slice[q] = VNodeOf(n, x)
      BY <2>4
    <3>3. PICK i \in 1..L : place(i) = q
      BY <2>1
    <3>4. w[i] = n /\ d[i] = Ahead(hashVNode[n][x], h)
      BY <2>2, <2>5, <3>2, <3>3, SMT
    <3> QED
      BY <3>1, <3>4
  <2>8. \A i, j \in 1..L : i < j => d[i] < d[j]
    BY <2>1
  <2>9. w \in [1..L -> S] /\ d \in [1..L -> Nat]
    BY <2>2, <2>6
  <2> HIDE DEF d, L
  <2>10. Meets(w, L, d, S, h)
    BY <2>6, <2>7, <2>8, <2>9 DEF Meets
  <2> QED
    BY <1>1, <2>10 DEF w, L
<1> QED
  BY <1>3, <1>4

(***************************************************************************)
(* GetNodes                                                                *)
(***************************************************************************)

\* One turn of GetNodes' loop: the list after i steps of the walk.
GatherStep(w, n, f, i) ==
  IF i = 0 THEN <<>>
  ELSE LET acc == f[i - 1]
       IN  IF Len(acc) < n /\ w[i] \notin Range(acc) THEN Append(acc, w[i]) ELSE acc

\* The recursive definition of GetNodes' loop has a solution.
LEMMA GatherDefined ==
  ASSUME NEW w, NEW n, NEW L \in Nat
  PROVE  \E f : f = [i \in 0..L |-> GatherStep(w, n, f, i)]
<1> DEFINE Solves(f, m) == f = [i \in 0..m |-> GatherStep(w, n, f, i)]
           Unsolved == {m \in Nat : ~\E f : Solves(f, m)}
<1>1. ASSUME NEW m \in Nat, NEW f, Solves(f, m)
      PROVE  \E g : Solves(g, m + 1)
  <2> DEFINE g == [i \in 0..(m + 1) |-> IF i = m + 1 THEN GatherStep(w, n, f, i) ELSE f[i]]
  <2>1. \A i \in 0..m : f[i] = GatherStep(w, n, f, i) /\ g[i] = f[i] /\ i # m + 1
    BY <1>1, SMT
  <2>2. \A i \in 0..(m + 1) : g[i] = GatherStep(w, n, f, i)
    <3> TAKE i \in 0..(m + 1)
    <3>1. i = m + 1 \/ i \in 0..m
      BY SMT
    <3>2. i = m + 1 => g[i] = GatherStep(w, n, f, i)
      OBVIOUS
    <3> HIDE DEF g
    <3> QED
      BY <2>1, <3>1, <3>2
  <2>3. \A i \in 0..(m + 1) : GatherStep(w, n, g, i) = GatherStep(w, n, f, i)
    <3> TAKE i \in 0..(m + 1)
    <3>1. i # 0 => i - 1 \in 0..m
      BY SMT
    <3>2. i # 0 => g[i - 1] = f[i - 1]
      BY <2>1, <3>1
    <3> HIDE DEF g
    <3> QED
      BY <3>2 DEF GatherStep
  <2>4. g = [i \in 0..(m + 1) |-> g[i]]
    OBVIOUS
  <2> HIDE DEF g
  <2>5. Solves(g, m + 1)
    BY <2>2, <2>3, <2>4
  <2> QED
    BY <2>5
<1>2. \E f : Solves(f, 0)
  <2> DEFINE f == [i \in 0..0 |-> <<>>]
  <2>1. \A i \in 0..0 : GatherStep(w, n, f, i) = <<>>
    BY SMT DEF GatherStep
  <2>2. Solves(f, 0)
    BY <2>1
  <2> QED
    BY <2>2
<1> HIDE DEF Solves
<1>3. Unsolved = {}
  <2> SUFFICES ASSUME Unsolved # {} PROVE FALSE
    OBVIOUS
  <2>1. PICK m \in Unsolved : \A y \in Unsolved : m <= y
    <3>1. Unsolved \subseteq Nat
      OBVIOUS
    <3> HIDE DEF Unsolved
    <3> QED
      BY <3>1, NonEmptyHasLeast
  <2>2. m # 0
    BY <1>2
  <2>3. m - 1 \in Nat /\ (m - 1) + 1 = m
    BY <2>2, SMT
  <2>4. m - 1 \notin Unsolved
    BY <2>1, <2>3, SMT
  <2>5. PICK f : Solves(f, m - 1)
    BY <2>3, <2>4
  <2>6. \E g : Solves(g, (m - 1) + 1)
    BY <1>1, <2>3, <2>5
  <2> QED
    BY <2>3, <2>6
<1>4. \E f : Solves(f, L)
  BY <1>3
<1> QED
  BY <1>4 DEF Solves

\* The members that the first i steps of the walk w meet.
Seen(w, i) == {w[j] : j \in 1..i}

\* The distances from h by which members are ordered.
Distances(S, h) == [m \in S |-> Distance(m, h)]

\* GatherStep's solution f lists the members of S met in i steps of the walk w,
\* up to n of them, each at the place that its distance from h gives it.
Gathered(f, i, w, n, S, key) ==
  /\ f[i] \in Seq(S) /\ Len(f[i]) <= n
  /\ Range(f[i]) \subseteq Seen(w, i)
  /\ Len(f[i]) < n => Range(f[i]) = Seen(w, i)
  /\ \A p \in 1..Len(f[i]) : RankIn(S, key, f[i][p]) = p - 1

\* The walk meets a member for the first time after exactly the members that are
\* nearer to the key.
LEMMA FirstMeeting ==
  ASSUME NEW w, NEW L \in Nat, NEW d, NEW S, NEW h \in Hashes, S \subseteq Nodes,
         Meets(w, L, d, S, h), NEW i \in 1..L, w[i] \notin Seen(w, i - 1)
  PROVE  Below(S, Distances(S, h), w[i]) = Seen(w, i - 1)
<1>1. /\ w \in [1..L -> S] /\ d \in [1..L -> Nat]
      /\ \A a, b \in 1..L : a < b => d[a] < d[b]
      /\ \A a \in 1..L : Distance(w[a], h) <= d[a]
      /\ \A m \in S : \E a \in 1..L : w[a] = m /\ d[a] = Distance(m, h)
  BY DEF Meets
<1>2. \A m \in S : Distance(m, h) \in Nat
  BY <1>1, SMT
<1>3. PICK a \in 1..L : w[a] = w[i] /\ d[a] = Distance(w[i], h)
  BY <1>1
<1>4. a >= i
  BY <1>3, SMT DEF Seen
<1>5. ASSUME NEW j \in 1..(i - 1) PROVE w[j] \in S /\ Distance(w[j], h) < Distance(w[i], h)
  <2>1. j \in 1..L /\ j < a
    BY <1>4, SMT
  <2>2. w[j] \in S /\ Distance(w[j], h) <= d[j] /\ d[j] < d[a]
    BY <1>1, <2>1
  <2> QED
    BY <1>1, <1>2, <1>3, <2>1, <2>2, SMT
<1>6. ASSUME NEW m \in S, Distance(m, h) < Distance(w[i], h)
      PROVE  \E j \in 1..(i - 1) : w[j] = m
  <2>1. PICK j \in 1..L : w[j] = m /\ d[j] = Distance(m, h)
    BY <1>1
  <2>2. d[j] < d[i]
    BY <1>1, <1>2, <1>6, <2>1, SMT
  <2>3. d[i] \in Nat /\ d[j] \in Nat /\ (i < j => d[i] < d[j])
    BY <1>1
  <2>4. ~(i < j) /\ i # j
    BY <2>2, <2>3, SMT
  <2> QED
    BY <2>1, <2>4, SMT
<1>7. Below(S, Distances(S, h), w[i]) = {m \in S : Distance(m, h) < Distance(w[i], h)}
  BY <1>1 DEF Below, Distances
<1> QED
  BY <1>5, <1>6, <1>7 DEF Seen

\* A list whose members have the ranks 0, 1, ... has no more members than S, and
\* as many as its range.
LEMMA RankedLists ==
  ASSUME NEW S, IsFiniteSet(S), NEW key, NEW s \in Seq(S),
         \A p \in 1..Len(s) : RankIn(S, key, s[p]) = p - 1
  PROVE  Cardinality(Range(s)) = Len(s) /\ Len(s) <= Cardinality(S)
<1> DEFINE I == 1..Len(s)
           R == Range(s)
<1>1. Len(s) \in Nat /\ s \in [I -> S] /\ R = {s[p] : p \in I}
  BY SMT DEF Range
<1>2. IsFiniteSet(I) /\ Cardinality(I) = Len(s)
  <2>1. 1 \in Int /\ Len(s) \in Int
    BY <1>1, SMT
  <2>2. IsFiniteSet(I) /\ Cardinality(I) = IF 1 > Len(s) THEN 0 ELSE Len(s) - 1 + 1
    BY <2>1, FS_Interval
  <2> QED
    BY <1>1, <2>2, SMT
<1>3. R \subseteq S /\ IsFiniteSet(R) /\ Cardinality(R) <= Cardinality(S)
  <2>1. R \subseteq S
    BY <1>1
  <2> HIDE DEF R
  <2> QED
    BY <2>1, FS_Subset
<1>4. \A p, q \in I : s[p] = s[q] => p = q
  BY <1>1, SMT
<1>5. s \in Bijection(I, R)
  <2>1. s \in [I -> R] /\ \A y \in R : \E p \in I : s[p] = y
    BY <1>1
  <2> HIDE DEF I, R
  <2> QED
    BY <1>4, <2>1 DEF Bijection, Injection, Surjection, IsInjective
<1> HIDE DEF I, R
<1>6. Cardinality(I) = Cardinality(R)
  BY <1>2, <1>3, <1>5, FS_Bijection DEF ExistsBijection
<1> QED
  BY <1>2, <1>3, <1>6 DEF R

\* Each turn of GetNodes' loop keeps Gathered.
LEMMA GatherKeeps ==
  ASSUME NEW w, NEW L \in Nat, NEW d, NEW S, NEW h \in Hashes, S \subseteq Nodes,
         IsFiniteSet(S), Meets(w, L, d, S, h), NEW n \in Nat, NEW f, NEW i \in 1..L,
         f[i] = GatherStep(w, n, f, i),
         Gathered(f, i - 1, w, n, S, Distances(S, h))
  PROVE  Gathered(f, i, w, n, S, Distances(S, h))
<1> DEFINE key == Distances(S, h)
           acc == f[i - 1]
           seen == Seen(w, i - 1)
           seenNow == Seen(w, i)
<1>1. /\ acc \in Seq(S) /\ Len(acc) <= n /\ Range(acc) \subseteq seen
      /\ Len(acc) < n => Range(acc) = seen
      /\ \A p \in 1..Len(acc) : RankIn(S, key, acc[p]) = p - 1
  BY DEF Gathered
<1>2. w[i] \in S
  BY DEF Meets
<1>3. seenNow = seen \cup {w[i]}
  BY SMTT(30) DEF Seen
<1>4. ASSUME w[i] \notin seen PROVE Below(S, key, w[i]) = seen
  BY <1>4, FirstMeeting, SMTT(30)
<1>5. f[i] = IF Len(acc) < n /\ w[i] \notin Range(acc) THEN Append(acc, w[i]) ELSE acc
  BY SMT DEF GatherStep
<1> HIDE DEF key, acc, seen, seenNow
<1>6. ASSUME Len(acc) < n, w[i] \notin Range(acc)
      PROVE  /\ f[i] \in Seq(S) /\ Len(f[i]) <= n /\ Range(f[i]) = seenNow
             /\ \A p \in 1..Len(f[i]) : RankIn(S, key, f[i][p]) = p - 1
  <2>1. f[i] = Append(acc, w[i])
    BY <1>5, <1>6
  <2>2. /\ f[i] \in Seq(S) /\ Len(acc) \in Nat /\ Len(f[i]) = Len(acc) + 1
        /\ \A p \in 1..Len(acc) : f[i][p] = acc[p]
        /\ f[i][Len(acc) + 1] = w[i]
    BY <1>1, <1>2, <2>1, SMTT(30)
  <2>3. Range(f[i]) = Range(acc) \cup {w[i]}
    <3>1. DOMAIN f[i] = 1..(Len(acc) + 1) /\ DOMAIN acc = 1..Len(acc)
      BY <1>1, <2>2, SMT
    <3> QED
      BY <2>2, <3>1, SMTT(30) DEF Range
  <2>4. Cardinality(Range(acc)) = Len(acc)
    BY <1>1, RankedLists
  <2>5. RankIn(S, key, w[i]) = Len(acc)
    BY <1>1, <1>4, <1>6, <2>4 DEF RankIn
  <2>6. \A p \in 1..Len(f[i]) : RankIn(S, key, f[i][p]) = p - 1
    <3> TAKE p \in 1..Len(f[i])
    <3>1. CASE p \in 1..Len(acc)
      BY <1>1, <2>2, <3>1
    <3>2. CASE p = Len(acc) + 1
      BY <2>2, <2>5, <3>2, SMTT(30)
    <3> QED
      BY <2>2, <3>1, <3>2, SMT
  <2>7. Len(f[i]) <= n
    BY <1>6, <2>2, SMT
  <2>8. Range(f[i]) = seenNow
    BY <1>1, <1>3, <1>6, <2>3
  <2> QED
    BY <2>2, <2>6, <2>7, <2>8
<1>7. ASSUME ~(Len(acc) < n /\ w[i] \notin Range(acc))
      PROVE  /\ f[i] = acc /\ Range(acc) \subseteq seenNow
             /\ Len(acc) < n => Range(acc) = seenNow
  BY <1>1, <1>3, <1>5, <1>7
<1>8. Gathered(f, i, w, n, S, key)
  <2>1. CASE Len(acc) < n /\ w[i] \notin Range(acc)
    BY <1>6, <2>1 DEF Gathered, seenNow
  <2>2. CASE ~(Len(acc) < n /\ w[i] \notin Range(acc))
    BY <1>1, <1>7, <2>2 DEF Gathered, seenNow
  <2> QED
    BY <2>1, <2>2
<1> QED
  BY <1>8 DEF key

\* The loop of GetNodes ends with the nearest n members of S, in order.
LEMMA GatherEnds ==
  ASSUME NEW w, NEW L \in Nat, NEW d, NEW S, NEW h \in Hashes, S \subseteq Nodes,
         IsFiniteSet(S), Meets(w, L, d, S, h), NEW n \in Nat,
         NEW f, f = [i \in 0..L |-> GatherStep(w, n, f, i)]
  PROVE  Gathered(f, L, w, n, S, Distances(S, h))
<1> DEFINE key == Distances(S, h)
           Bad == {i \in 0..L : ~Gathered(f, i, w, n, S, key)}
<1>1. \A i \in 0..L : f[i] = GatherStep(w, n, f, i)
  OBVIOUS
<1>2. 0 \notin Bad
  <2>1. f[0] = <<>>
    BY <1>1, SMTT(30) DEF GatherStep
  <2>2. f[0] \in Seq(S) /\ Len(f[0]) = 0 /\ DOMAIN f[0] = {}
    BY <2>1, SMT
  <2>3. Range(f[0]) = {}
    BY <2>2 DEF Range
  <2>4. Seen(w, 0) = {}
    BY SMTT(30) DEF Seen
  <2> HIDE DEF key
  <2> QED
    BY <2>2, <2>3, <2>4, SMT DEF Gathered
<1>3. \A i \in 1..L : Gathered(f, i - 1, w, n, S, key) => Gathered(f, i, w, n, S, key)
  BY <1>1, GatherKeeps, SMT
<1> HIDE DEF key
<1>4. Bad = {}
  <2> SUFFICES ASSUME Bad # {} PROVE FALSE
    OBVIOUS
  <2>1. Bad \subseteq Nat
    BY SMT
  <2>2. PICK i \in Bad : \A y \in Bad : i <= y
    <3> HIDE DEF Bad
    <3> QED
      BY <2>1, NonEmptyHasLeast
  <2>3. i \in 1..L /\ i - 1 \in 0..L
    BY <1>2, <2>2, SMT
  <2>4. i - 1 \notin Bad
    <3> HIDE DEF Bad
    <3> QED
      BY <2>1, <2>2, <2>3, SMT
  <2> QED
    BY <1>3, <2>3, <2>4
<1>5. Gathered(f, L, w, n, S, key)
  BY <1>4, SMT
<1> QED
  BY <1>5 DEF key

\* GetNodes returns the nearest n members, or all of them, each once and in order.
LEMMA GetNodesNearest ==
  ASSUME NEW slice, NEW S, IsSliceOf(slice, S), NEW h \in Hashes, NEW n \in Nat
  PROVE  /\ GetNodes(slice, h, n) \in Seq(S)
         /\ Len(GetNodes(slice, h, n)) = Min({n, Cardinality(S)})
         /\ \A p \in 1..Len(GetNodes(slice, h, n)) :
              RankIn(S, Distances(S, h), GetNodes(slice, h, n)[p]) = p - 1
<1> DEFINE key == Distances(S, h)
           w == Walk(slice, h)
           L == Len(slice)
           f == CHOOSE f : f = [i \in 0..L |-> GatherStep(w, n, f, i)]
           g == f[L]
<1>1. S \subseteq Nodes /\ IsFiniteSet(S)
  BY DEF IsSliceOf
<1>2. L \in Nat /\ \E d : Meets(w, L, d, S, h)
  BY WalkMeets
<1>3. PICK d : Meets(w, L, d, S, h)
  BY <1>2
<1> HIDE DEF w, L
<1>4. Len(w) = L
  <2>1. w \in [1..L -> S]
    BY <1>3 DEF Meets
  <2> QED
    BY <1>2, <2>1, SMT
<1>5. GetNodes(slice, h, n) = g
  BY <1>4 DEF GetNodes, GatherStep, w
<1>6. f = [i \in 0..L |-> GatherStep(w, n, f, i)]
  BY <1>2, GatherDefined
<1> HIDE DEF f
<1>7. Gathered(f, L, w, n, S, key)
  BY <1>1, <1>2, <1>3, <1>6, GatherEnds
<1> HIDE DEF key
<1>8. Seen(w, L) = S
  BY <1>3 DEF Meets, Seen
<1>9. /\ g \in Seq(S) /\ Len(g) <= n /\ (Len(g) < n => Range(g) = S)
      /\ \A p \in 1..Len(g) : RankIn(S, key, g[p]) = p - 1
  BY <1>7, <1>8 DEF Gathered
<1> HIDE DEF g
<1>10. Cardinality(Range(g)) = Len(g) /\ Len(g) <= Cardinality(S)
  BY <1>1, <1>9, RankedLists
<1>11. Len(g) = Min({n, Cardinality(S)})
  <2>1. Cardinality(S) \in Nat /\ Len(g) \in Nat
    BY <1>1, <1>9, FS_CardinalityType, SMT
  <2> QED
    BY <1>9, <1>10, <2>1, MinOfTwo, SMT
<1> QED
  BY <1>5, <1>9, <1>11 DEF key

\* GetNodes is the beginning of the members' clockwise order: it does not depend
\* on how the slice came about.
LEMMA GetNodesClockwise ==
  ASSUME NEW slice, NEW S, IsSliceOf(slice, S), NEW h \in Hashes, NEW n \in Nat
  PROVE  GetNodes(slice, h, n) = SubSeq(Clockwise(S, h), 1, Min({n, Cardinality(S)}))
<1> DEFINE key == Distances(S, h)
           c == Clockwise(S, h)
           g == GetNodes(slice, h, n)
           m == Min({n, Cardinality(S)})
<1>1. S \subseteq Nodes /\ IsFiniteSet(S)
  BY DEF IsSliceOf
<1>2. key \in [S -> Int] /\ \A x, y \in S : key[x] = key[y] => x = y
  BY <1>1, DistancesDiffer, DistanceNearest, SMT DEF Distances
<1>3. /\ g \in Seq(S) /\ Len(g) = m
      /\ \A p \in 1..Len(g) : RankIn(S, key, g[p]) = p - 1
  BY GetNodesNearest
<1>4. c = InOrder(S, key)
  BY DEF Clockwise, Distances
<1> HIDE DEF key, c, g
<1>5. /\ Cardinality(S) \in Nat /\ c \in [1..Cardinality(S) -> S]
      /\ \A p \in 1..Cardinality(S) : RankIn(S, key, c[p]) = p - 1
  BY <1>1, <1>2, <1>4, InOrderLists, FS_CardinalityType, SMTT(30)
<1>6. \A x, y \in S : RankIn(S, key, x) = RankIn(S, key, y) => x = y
  BY <1>1, <1>2, Ranks
<1>7. m \in Nat /\ m <= Cardinality(S)
  BY <1>5, MinOfTwo
<1> HIDE DEF m
<1>8. \A p \in 1..m : g[p] = c[p]
  <2> TAKE p \in 1..m
  <2>1. p \in 1..Cardinality(S) /\ p \in 1..Len(g)
    BY <1>3, <1>5, <1>7, SMT
  <2>2. g[p] \in S /\ c[p] \in S /\ RankIn(S, key, g[p]) = p - 1 /\ RankIn(S, key, c[p]) = p - 1
    BY <1>3, <1>5, <2>1, SMT
  <2> QED
    BY <1>6, <2>2
<1>9. g = [p \in 1..m |-> c[p]]
  <2>1. g = [p \in 1..m |-> g[p]]
    BY <1>3, SMT
  <2> QED
    BY <1>8, <2>1
<1>10. SubSeq(c, 1, m) = [p \in 1..m |-> c[p]]
  <2>1. c \in Seq(S) /\ Len(c) = Cardinality(S)
    BY <1>5, SMTT(30)
  <2> QED
    BY <1>5, <1>7, <2>1, SMT
<1> QED
  BY <1>9, <1>10 DEF c, g, m

\* The invariant makes the slice that of the ring's members.
LEMMA RingInvSlice == RingInv => IsSliceOf(vnodes, nodes)
  BY SMT DEF RingInv, IsSliceOf, VNodesMatchNodes, Ascending

(***************************************************************************)
(* Which nodes hold a key, GetNodes' answer, depends on the members and    *)
(* the hashes alone, not on the order in which the members came and went.  *)
(***************************************************************************)
THEOREM LookupsDependOnMembers == Spec => []LookupsIgnoreHistory
<1>1. RingInv => LookupsIgnoreHistory
  <2> SUFFICES ASSUME RingInv, NEW h \in KeyHashes, NEW r \in 1..ReplicaCount
               PROVE  GetNodes(vnodes, h, r)
                        = SubSeq(Clockwise(nodes, h), 1, Min({r, Cardinality(nodes)}))
    BY DEF LookupsIgnoreHistory
  <2>1. h \in Hashes /\ r \in Nat
    BY RingConstants, SMT DEF Hashes
  <2> QED
    BY <2>1, RingInvSlice, GetNodesClockwise
<1> QED
  BY <1>1, RingInvariant, PTL

(***************************************************************************)
(* GetNode                                                                 *)
(***************************************************************************)

\* The first member of E that the walk meets is the nearest one.
LEMMA FirstMetNearest ==
  ASSUME NEW w, NEW L \in Nat, NEW d, NEW S, NEW h \in Hashes, S \subseteq Nodes,
         Meets(w, L, d, S, h), NEW E, E \subseteq S, NEW a \in 1..L, w[a] \in E,
         \A i \in 1..L : w[i] \in E => a <= i
  PROVE  \A n \in E : Distance(w[a], h) <= Distance(n, h)
<1>1. /\ w \in [1..L -> S] /\ d \in [1..L -> Nat]
      /\ \A i, j \in 1..L : i < j => d[i] < d[j]
      /\ \A i \in 1..L : Distance(w[i], h) <= d[i]
      /\ \A m \in S : \E i \in 1..L : w[i] = m /\ d[i] = Distance(m, h)
  BY DEF Meets
<1> TAKE n \in E
<1>2. PICK i \in 1..L : w[i] = n /\ d[i] = Distance(n, h)
  BY <1>1
<1>3. a = i \/ a < i
  BY <1>2, SMT
<1>4. d[a] \in Nat /\ d[i] \in Nat /\ d[a] <= d[i] /\ Distance(w[a], h) <= d[a]
  BY <1>1, <1>3, SMT
<1>5. Distance(w[a], h) \in Nat
  BY DistanceNearest
<1> QED
  BY <1>2, <1>4, <1>5, SMT

(***************************************************************************)
(* GetNode finds the nearest node with room, whatever nodes it walks past, *)
(* and the nearest of all if every node is full.                           *)
(***************************************************************************)
THEOREM RequestsPassFullNodes == Spec => []RoutesAroundLoad
<1>1. RingInv => RoutesAroundLoad
  <2> SUFFICES ASSUME RingInv, NEW h \in KeyHashes, nodes # {}
               PROVE  LET room == {n \in nodes : HasRoom(n)}
                          eligible == IF room = {} THEN nodes ELSE room
                      IN  /\ GetNode(h) \in eligible
                          /\ \A n \in eligible : Distance(GetNode(h), h) <= Distance(n, h)
    BY DEF RoutesAroundLoad
  <2> DEFINE room == {n \in nodes : HasRoom(n)}
             eligible == IF room = {} THEN nodes ELSE room
             w == Walk(vnodes, h)
             L == Len(vnodes)
             open == {i \in 1..L : HasRoom(w[i])}
             a == IF open = {} THEN 1 ELSE Min(open)
  <2>1. h \in Hashes /\ nodes \subseteq Nodes
    BY RingConstants DEF Hashes, RingInv
  <2>2. L \in Nat /\ \E d : Meets(w, L, d, nodes, h)
    BY <2>1, RingInvSlice, WalkMeets
  <2>3. PICK d : Meets(w, L, d, nodes, h)
    BY <2>2
  <2> HIDE DEF w, L
  <2>4. /\ w \in [1..L -> nodes] /\ Len(w) = L
        /\ \A n \in nodes : \E i \in 1..L : w[i] = n
    <3>1. w \in [1..L -> nodes]
      BY <2>3 DEF Meets
    <3>2. \A n \in nodes : \E i \in 1..L : w[i] = n
      BY <2>3 DEF Meets
    <3> QED
      BY <2>2, <3>1, <3>2, SMT
  <2>5. GetNode(h) = w[a]
    BY <2>4 DEF GetNode, w
  <2>6. L >= 1
    BY <2>2, <2>4, SMT
  <2>7. open = {} <=> room = {}
    BY <2>4
  <2>8. /\ a \in 1..L /\ w[a] \in eligible
        /\ \A i \in 1..L : w[i] \in eligible => a <= i
    <3>1. CASE open = {}
      BY <2>2, <2>4, <2>6, <2>7, <3>1, SMT
    <3>2. CASE open # {}
      <4>1. open \subseteq Nat
        BY SMT
      <4>2. Min(open) \in open /\ \A i \in open : Min(open) <= i
        <5> HIDE DEF open
        <5> QED
          BY <3>2, <4>1, NonEmptyHasLeast
      <4>3. a = Min(open) /\ eligible = room
        BY <2>7, <3>2
      <4> QED
        BY <2>4, <4>2, <4>3
    <3> QED
      BY <3>1, <3>2
  <2>9. eligible \subseteq nodes
    OBVIOUS
  <2> HIDE DEF eligible, a
  <2>10. \A n \in eligible : Distance(w[a], h) <= Distance(n, h)
    BY <2>1, <2>2, <2>3, <2>8, <2>9, FirstMetNearest
  <2>11. GetNode(h) \in eligible /\ \A n \in eligible : Distance(GetNode(h), h) <= Distance(n, h)
    BY <2>5, <2>8, <2>10
  <2> QED
    BY <2>11 DEF eligible
<1> QED
  BY <1>1, RingInvariant, PTL

(***************************************************************************)
(* Members that come and go                                                *)
(***************************************************************************)

\* The places up to p at which g lists something outside T.
Outside(g, p, T) == {i \in 1..p : g[i] \notin T}

\* The members of S outside T that are below x.
BelowOutside(S, key, x, T) == Below(S, key, x) \ T

\* Of a list of the nearest members of S, those before place p that are not in T
\* are as many as the members of S nearer than the one at p that are not in T.
LEMMA OthersBefore ==
  ASSUME NEW S, IsFiniteSet(S), NEW key \in [S -> Int],
         \A x, y \in S : key[x] = key[y] => x = y,
         NEW g \in Seq(S), \A i \in 1..Len(g) : RankIn(S, key, g[i]) = i - 1,
         NEW T, NEW p \in 1..Len(g), g[p] \in T
  PROVE  /\ IsFiniteSet(Outside(g, p, T))
         /\ ExistsBijection(Outside(g, p, T), BelowOutside(S, key, g[p], T))
<1> DEFINE others == {i \in 1..p : g[i] \notin T}
           before == Below(S, key, g[p]) \ T
           f == [i \in others |-> g[i]]
<1>1. /\ \A x \in S : RankIn(S, key, x) \in 0..(Cardinality(S) - 1)
      /\ \A x, y \in S : key[x] < key[y] <=> RankIn(S, key, x) < RankIn(S, key, y)
      /\ \A x, y \in S : RankIn(S, key, x) = RankIn(S, key, y) => x = y
      /\ Cardinality(S) \in Nat
  BY Ranks
<1>2. Len(g) \in Nat /\ \A i \in 1..Len(g) : g[i] \in S
  BY SMT
<1>3. \A i \in others : i \in 1..Len(g) /\ i < p
  BY <1>2, SMT
<1>4. \A i \in others : f[i] = g[i] /\ g[i] \in before
  <2> TAKE i \in others
  <2>1. g[i] \in S /\ g[p] \in S /\ g[i] \notin T
    BY <1>2, <1>3
  <2>2. RankIn(S, key, g[i]) = i - 1 /\ RankIn(S, key, g[p]) = p - 1
    BY <1>3
  <2>3. RankIn(S, key, g[i]) < RankIn(S, key, g[p])
    BY <1>3, <2>2, SMT
  <2>4. key[g[i]] < key[g[p]]
    BY <1>1, <2>1, <2>3
  <2> QED
    BY <2>1, <2>4 DEF Below
<1>5. \A i, j \in others : f[i] = f[j] => i = j
  <2> TAKE i, j \in others
  <2>1. RankIn(S, key, g[i]) = i - 1 /\ RankIn(S, key, g[j]) = j - 1
    BY <1>3
  <2> QED
    BY <1>3, <2>1, SMT
<1>6. \A y \in before : \E i \in others : f[i] = y
  <2> TAKE y \in before
  <2>1. y \in S /\ y \notin T /\ key[y] < key[g[p]]
    BY DEF Below
  <2>2. RankIn(S, key, y) < p - 1 /\ RankIn(S, key, y) \in Nat
    BY <1>1, <1>2, <2>1, SMT
  <2> DEFINE i == RankIn(S, key, y) + 1
  <2>3. i \in 1..p /\ i \in 1..Len(g) /\ RankIn(S, key, y) = i - 1
    BY <1>2, <2>2, SMT
  <2> HIDE DEF i
  <2>4. g[i] = y
    BY <1>1, <1>2, <2>1, <2>3
  <2>5. i \in others
    BY <2>1, <2>3, <2>4
  <2> QED
    BY <2>4, <2>5
<1>7. IsFiniteSet(others)
  <2> DEFINE I == 1..p
  <2>1. IsFiniteSet(I) /\ others \in SUBSET I
    BY FS_Interval, SMT
  <2> HIDE DEF I, others
  <2> QED
    BY <2>1, FS_Subset
<1>8. f \in [others -> before]
  BY <1>4
<1> HIDE DEF others, before, f
<1>9. ExistsBijection(others, before)
  BY <1>5, <1>6, <1>8 DEF ExistsBijection, Bijection, Injection, Surjection, IsInjective
<1> QED
  BY <1>7, <1>9 DEF others, before, Outside, BelowOutside

\* With fewer members, GetNodes lists those that remain in the same order, each
\* moved up by the number of members that are gone before it.
LEMMA SurvivorsKeepPlaces ==
  ASSUME NEW slice, NEW S, IsSliceOf(slice, S), NEW less, NEW T, IsSliceOf(less, T),
         T \subseteq S, NEW h \in Hashes, NEW n \in Nat
  PROVE  KeepTheirPlaces(T, GetNodes(slice, h, n), GetNodes(less, h, n))
<1> DEFINE g == GetNodes(slice, h, n)
           t == GetNodes(less, h, n)
           keyS == Distances(S, h)
           keyT == Distances(T, h)
<1>1. S \subseteq Nodes /\ IsFiniteSet(S) /\ IsFiniteSet(T)
  BY DEF IsSliceOf
<1>2. /\ keyS \in [S -> Int] /\ \A x, y \in S : keyS[x] = keyS[y] => x = y
      /\ keyT \in [T -> Int] /\ \A x, y \in T : keyT[x] = keyT[y] => x = y
  BY <1>1, DistancesDiffer, DistanceNearest, SMT DEF Distances
<1>3. /\ g \in Seq(S) /\ Len(g) = Min({n, Cardinality(S)})
      /\ \A p \in 1..Len(g) : RankIn(S, keyS, g[p]) = p - 1
  BY GetNodesNearest
<1>4. /\ t \in Seq(T) /\ Len(t) = Min({n, Cardinality(T)})
      /\ \A p \in 1..Len(t) : RankIn(T, keyT, t[p]) = p - 1
  BY GetNodesNearest
<1>5. \A x \in T : Below(T, keyT, x) = Below(S, keyS, x) \cap T
  BY DEF Below, Distances
<1> HIDE DEF g, t, keyS, keyT
<1>6. /\ \A x \in T : RankIn(T, keyT, x) \in 0..(Cardinality(T) - 1)
      /\ \A x, y \in T : RankIn(T, keyT, x) = RankIn(T, keyT, y) => x = y
      /\ Cardinality(T) \in Nat /\ Cardinality(S) \in Nat
  BY <1>1, <1>2, Ranks
<1>7. ASSUME NEW p \in 1..Len(g), g[p] \in T
      PROVE  LET q == p - Cardinality({i \in 1..p : g[i] \notin T})
             IN  q \in DOMAIN t /\ t[q] = g[p]
  <2> DEFINE k == Cardinality({i \in 1..p : g[i] \notin T})
             B == Below(S, keyS, g[p])
             q == p - k
  <2>1. k = Cardinality(B \ T) /\ k \in Nat
    <3>1. IsFiniteSet(Outside(g, p, T))
      BY <1>1, <1>2, <1>3, <1>7, OthersBefore
    <3>2. ExistsBijection(Outside(g, p, T), BelowOutside(S, keyS, g[p], T))
      BY <1>1, <1>2, <1>3, <1>7, OthersBefore
    <3>3. Cardinality(Outside(g, p, T)) = Cardinality(BelowOutside(S, keyS, g[p], T))
      BY <3>1, <3>2, FS_Bijection
    <3>4. Cardinality(Outside(g, p, T)) \in Nat
      BY <3>1, FS_CardinalityType
    <3> QED
      BY <3>3, <3>4 DEF Outside, BelowOutside
  <2>2. IsFiniteSet(B) /\ Cardinality(B) = p - 1
    <3>1. B \in SUBSET S
      BY DEF Below
    <3> QED
      BY <1>1, <1>3, <3>1, FS_Subset DEF RankIn
  <2> HIDE DEF B, k
  <2>3. Cardinality(B \ T) = Cardinality(B) - Cardinality(B \cap T)
    BY <2>2, FS_Difference
  <2>4. RankIn(T, keyT, g[p]) = Cardinality(B \cap T)
    BY <1>5, <1>7 DEF RankIn, B
  <2>5. IsFiniteSet(B \cap T) /\ Cardinality(B \cap T) \in Nat
    BY <2>2, FS_Intersection, FS_CardinalityType
  <2>6. RankIn(T, keyT, g[p]) = q - 1 /\ q \in Int
    BY <2>1, <2>2, <2>3, <2>4, <2>5, SMT
  <2>7. p <= n
    BY <1>3, <1>6, MinOfTwo, SMT
  <2>8. q >= 1 /\ q <= n /\ q <= Cardinality(T)
    <3>1. q - 1 \in 0..(Cardinality(T) - 1)
      BY <1>6, <1>7, <2>6
    <3> QED
      BY <1>6, <2>1, <2>7, <3>1, SMTT(30)
  <2> HIDE DEF q
  <2>9. q \in 1..Len(t)
    BY <1>4, <1>6, <2>6, <2>8, MinOfTwo, SMT
  <2>10. t[q] \in T /\ RankIn(T, keyT, t[q]) = q - 1
    BY <1>4, <2>9, SMTT(30)
  <2>11. t[q] = g[p]
    BY <1>6, <1>7, <2>6, <2>10
  <2>12. q \in DOMAIN t
    BY <1>4, <2>9, SMT
  <2> QED
    BY <2>11, <2>12 DEF q, k
<1>8. DOMAIN g = 1..Len(g)
  BY <1>3, SMT
<1>9. KeepTheirPlaces(T, g, t)
  BY <1>7, <1>8 DEF KeepTheirPlaces
<1> QED
  BY <1>9 DEF g, t

(***************************************************************************)
(* A node that comes or goes changes no replica list but by its own entry: *)
(* the other members keep their order, so that the first secondary of a    *)
(* key succeeds its failed primary.                                        *)
(***************************************************************************)
THEOREM MembershipChangesMoveLittle == Spec => ReassignmentIsMinimal
<1>1. ASSUME RingInv, RingInv', NEW h \in KeyHashes, NEW r \in 1..ReplicaCount
      PROVE  LET old == GetNodes(vnodes, h, r)
                 new == GetNodes(vnodes', h, r)
             IN  /\ nodes' \subseteq nodes => KeepTheirPlaces(nodes', old, new)
                 /\ nodes \subseteq nodes' => KeepTheirPlaces(nodes, new, old)
  <2>1. IsSliceOf(vnodes, nodes) /\ IsSliceOf(vnodes', nodes')
    BY <1>1, SMT DEF RingInv, IsSliceOf, VNodesMatchNodes, Ascending
  <2>2. h \in Hashes /\ r \in Nat
    BY RingConstants, SMT DEF Hashes
  <2> QED
    BY <2>1, <2>2, SurvivorsKeepPlaces
<1>2. RingInv /\ RingInv' =>
        [\A h \in KeyHashes, r \in 1..ReplicaCount :
           LET old == GetNodes(vnodes, h, r)
               new == GetNodes(vnodes', h, r)
           IN  /\ nodes' \subseteq nodes => KeepTheirPlaces(nodes', old, new)
               /\ nodes \subseteq nodes' => KeepTheirPlaces(nodes, new, old)]_vars
  BY <1>1
<1> QED
  BY <1>2, RingInvariant, PTL DEF ReassignmentIsMinimal
=============================================================================
