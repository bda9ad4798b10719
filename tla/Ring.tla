-------------------------------- MODULE Ring --------------------------------
(***************************************************************************)
(* The consistent hash ring of internal/hashing: a slice of virtual nodes  *)
(* kept sorted by hash, the set of physical nodes, and a load counter per  *)
(* physical node.  The ring's lock makes every operation one step.         *)
(*                                                                         *)
(* Callers use the ring as its comments prescribe: a lookup, a load        *)
(* increment when the request starts, a decrement when it is done; nodes   *)
(* come and go in between.                                                 *)
(***************************************************************************)
EXTENDS Integers, Sequences, FiniteSetsExt

CONSTANTS
  Nodes, Callers,
  VNodeCount,       \* virtual nodes per physical node (150)
  HashSpace,        \* hashes are below this (2^64)
  hashVNode,        \* [Nodes -> [Indices -> hashes]]
  KeyHashes,        \* the positions of the keys looked up
  EpsNum, EpsDen,   \* maxLoadFactor, as a fraction (1 / 4)
  ReplicaCount,
  MaxChanges        \* bound: nodes added or removed

Indices == 0..(VNodeCount - 1)

\* The hashes of the virtual nodes are distinct: 64-bit FNV-1a of distinct strings.
ASSUME RingConstants ==
  /\ VNodeCount \in Nat \ {0} /\ HashSpace \in Nat
  /\ hashVNode \in [Nodes -> [Indices -> 0..(HashSpace - 1)]]
  /\ \A m, n \in Nodes, i, j \in Indices :
       hashVNode[m][i] = hashVNode[n][j] => m = n /\ i = j
  /\ KeyHashes \subseteq 0..(HashSpace - 1)
  /\ EpsNum \in Nat /\ EpsDen \in Nat \ {0} /\ ReplicaCount \in Nat \ {0}
  /\ MaxChanges \in Nat

VARIABLES
  nodes,    \* Ring.nodes
  vnodes,   \* Ring.vnodes
  loads,    \* Ring.loads: a counter for every node of the ring
  busy,     \* what each caller has under way: a node and whether it is counted
  changes

vars == <<nodes, vnodes, loads, busy, changes>>

VNode == [hash : 0..(HashSpace - 1), node : Nodes, index : Indices]
Idle == [node |-> "none", counted |-> FALSE]

\* The members of S in the order of their keys, which differ.
InOrder(S, key) ==
  [p \in 1..Cardinality(S) |->
     CHOOSE x \in S : Cardinality({y \in S : key[y] < key[x]}) = p - 1]

-----------------------------------------------------------------------------
(* Lookups                                                                 *)

(***************************************************************************)
(* sort.Search: bisection for the least index (from 0) in [i, j) at which  *)
(* the hash of the slice's virtual node is no less than the target.        *)
(***************************************************************************)
Bisect(slice, target) ==
  LET f[r \in (0..Len(slice)) \X (0..Len(slice))] ==
        LET i == r[1]
            j == r[2]
            h == (i + j) \div 2
        IN  IF i >= j THEN i
            ELSE IF slice[h + 1].hash < target THEN f[<<h + 1, j>>] ELSE f[<<i, h>>]
  IN  f[<<0, Len(slice)>>]

\* search wraps around at the end of the slice.
search(slice, hash) ==
  LET idx == Bisect(slice, hash) IN IF idx >= Len(slice) THEN 0 ELSE idx

\* The node IDs met walking clockwise from a key's position, once around.
Walk(slice, hash) ==
  LET idx == search(slice, hash)
  IN  [i \in 1..Len(slice) |-> slice[((idx + i - 1) % Len(slice)) + 1].node]

\* Mutant: the walk notices a repetition only when it is immediate.
GetNodes_Adjacent(slice, hash, n) ==
  LET w == Walk(slice, hash)
      f[i \in 0..Len(w)] ==
        IF i = 0 THEN <<>>
        ELSE LET acc == f[i - 1]
             IN  IF Len(acc) < n /\ (i = 1 \/ w[i] # w[i - 1]) THEN Append(acc, w[i]) ELSE acc
  IN  f[Len(w)]

\* The first n distinct nodes of the walk.
GetNodes(slice, hash, n) ==
  LET w == Walk(slice, hash)
      f[i \in 0..Len(w)] ==
        IF i = 0 THEN <<>>
        ELSE LET acc == f[i - 1]
             IN  IF Len(acc) < n /\ w[i] \notin Range(acc) THEN Append(acc, w[i]) ELSE acc
  IN  f[Len(w)]

TotalLoad == SumFunction(loads)

\* The limit of GetNode: (1 + eps) times the average load, truncated, at least 1.
maxLoad ==
  Max({1, (TotalLoad * (EpsDen + EpsNum)) \div (Cardinality(nodes) * EpsDen)})

HasRoom(n) == loads[n] < maxLoad

\* Mutant: when no node has room, the request goes to the last one tried.
GetNode_LastTried(hash) ==
  LET w == Walk(vnodes, hash)
      open == {i \in 1..Len(w) : HasRoom(w[i])}
  IN  IF open = {} THEN w[Len(w)] ELSE w[Min(open)]

\* The first node of the walk that has room, or the first of all if none has.
GetNode(hash) ==
  LET w == Walk(vnodes, hash)
      open == {i \in 1..Len(w) : HasRoom(w[i])}
  IN  IF open = {} THEN w[1] ELSE w[Min(open)]

-----------------------------------------------------------------------------
(* The operations                                                          *)

Init ==
  /\ nodes = {} /\ vnodes = <<>> /\ loads = [n \in {} |-> 0]
  /\ busy = [c \in Callers |-> Idle]
  /\ changes = 0

\* sort.Slice, by hash: the positions in the order of the hashes found there.
SortedByHash(slice) ==
  LET order == InOrder(DOMAIN slice, [i \in DOMAIN slice |-> slice[i].hash])
  IN  [p \in DOMAIN slice |-> slice[order[p]]]

\* The virtual nodes at the positions kept, in their order.
Filtered(slice, kept) ==
  LET order == InOrder(kept, [i \in kept |-> i])
  IN  [p \in DOMAIN order |-> slice[order[p]]]

VNodeOf(n, i) == [hash |-> hashVNode[n][i], node |-> n, index |-> i]
VNodesOf(n) == [i \in 1..VNodeCount |-> VNodeOf(n, i - 1)]

\* Mutant: the slice is not sorted again.
AddNode_Unsorted(n) ==
  /\ n \notin nodes /\ changes < MaxChanges
  /\ nodes' = nodes \cup {n}
  /\ loads' = [m \in nodes \cup {n} |-> IF m = n THEN 0 ELSE loads[m]]
  /\ vnodes' = vnodes \o VNodesOf(n)
  /\ changes' = changes + 1
  /\ UNCHANGED busy

\* A node that is in the ring already changes nothing.
AddNode(n) ==
  /\ n \notin nodes /\ changes < MaxChanges
  /\ nodes' = nodes \cup {n}
  /\ loads' = [m \in nodes \cup {n} |-> IF m = n THEN 0 ELSE loads[m]]
  /\ vnodes' = SortedByHash(vnodes \o VNodesOf(n))
  /\ changes' = changes + 1
  /\ UNCHANGED busy

\* Mutant: only the first virtual node of the node is removed.
RemoveNode_One(n) ==
  /\ n \in nodes /\ changes < MaxChanges
  /\ nodes' = nodes \ {n}
  /\ loads' = [m \in nodes \ {n} |-> loads[m]]
  /\ vnodes' = Filtered(vnodes, {i \in DOMAIN vnodes : vnodes[i].node # n \/ vnodes[i].index # 0})
  /\ changes' = changes + 1
  /\ UNCHANGED busy

RemoveNode(n) ==
  /\ n \in nodes /\ changes < MaxChanges
  /\ nodes' = nodes \ {n}
  /\ loads' = [m \in nodes \ {n} |-> loads[m]]
  /\ vnodes' = Filtered(vnodes, {i \in DOMAIN vnodes : vnodes[i].node # n})
  /\ changes' = changes + 1
  /\ UNCHANGED busy

\* A caller looks up the node for its request; an empty ring has none.
Lookup(c, hash) ==
  /\ busy[c] = Idle /\ nodes # {}
  /\ busy' = [busy EXCEPT ![c] = [node |-> GetNode(hash), counted |-> FALSE]]
  /\ UNCHANGED <<nodes, vnodes, loads, changes>>

\* The counter of a node that has left the ring is gone.
IncrementLoad(c) ==
  /\ busy[c] # Idle /\ ~busy[c].counted
  /\ loads' = [n \in DOMAIN loads |-> IF n = busy[c].node THEN loads[n] + 1 ELSE loads[n]]
  /\ busy' = [busy EXCEPT ![c].counted = TRUE]
  /\ UNCHANGED <<nodes, vnodes, changes>>

DecrementLoad(c) ==
  /\ busy[c].counted
  /\ loads' = [n \in DOMAIN loads |-> IF n = busy[c].node THEN loads[n] - 1 ELSE loads[n]]
  /\ busy' = [busy EXCEPT ![c] = Idle]
  /\ UNCHANGED <<nodes, vnodes, changes>>

Next ==
  \/ \E n \in Nodes : AddNode(n) \/ RemoveNode(n)
  \/ \E c \in Callers : \/ \E h \in KeyHashes : Lookup(c, h)
                        \/ IncrementLoad(c)
                        \/ DecrementLoad(c)

Spec == Init /\ [][Next]_vars
-----------------------------------------------------------------------------
(* Properties                                                              *)

\* How far clockwise of a key's position a node's nearest virtual node is.
Distance(n, hash) == Min({(hashVNode[n][i] - hash) % HashSpace : i \in Indices})

\* The members of S in the order a walk from the position meets them.
Clockwise(S, hash) == InOrder(S, [n \in S |-> Distance(n, hash)])

(***************************************************************************)
(* The slice is exactly the virtual nodes of the ring's members, in strict *)
(* order of hash, however the members came and went (AddNode, RemoveNode); *)
(* the members are also the nodes that have a load counter.                *)
(***************************************************************************)
VNodesMatchNodes ==
  /\ \A i, j \in DOMAIN vnodes : i < j => vnodes[i].hash < vnodes[j].hash
  /\ Range(vnodes) = {VNodeOf(n, i) : n \in nodes, i \in Indices}
  /\ DOMAIN loads = nodes

(***************************************************************************)
(* What GetNodes returns depends on the members and the hashes alone: the  *)
(* nearest ReplicaCount members, or all of them, clockwise.  Two nodes of  *)
(* the cluster that learnt of the members in different orders agree on the *)
(* primary and the secondaries of every key.                               *)
(***************************************************************************)
LookupsIgnoreHistory ==
  \A h \in KeyHashes, r \in 1..ReplicaCount :
    GetNodes(vnodes, h, r) = SubSeq(Clockwise(nodes, h), 1, Min({r, Cardinality(nodes)}))

\* The members of S that are in the list old are first in new, in the same order.
KeepTheirPlaces(S, old, new) ==
  \A p \in DOMAIN old :
    LET q == p - Cardinality({i \in 1..p : old[i] \notin S})
    IN  old[p] \in S => q \in DOMAIN new /\ new[q] = old[p]

(***************************************************************************)
(* A node that comes only inserts itself into the replica lists, and one   *)
(* that goes only drops out of them: the others keep their places, so the  *)
(* first secondary becomes the primary of a failed node's keys             *)
(* (README.md:52, and reReplicateForDeadNode relies on it).                *)
(***************************************************************************)
ReassignmentIsMinimal ==
  [][\A h \in KeyHashes, r \in 1..ReplicaCount :
       LET old == GetNodes(vnodes, h, r)
           new == GetNodes(vnodes', h, r)
       IN  /\ nodes' \subseteq nodes => KeepTheirPlaces(nodes', old, new)
           /\ nodes \subseteq nodes' => KeepTheirPlaces(nodes, new, old)]_vars

(***************************************************************************)
(* GetNode sends a request to the nearest node clockwise that is below the *)
(* limit, past any number of virtual nodes of full nodes, and to the       *)
(* nearest of all only if every node is full (GetNode, ring.go:163-174).   *)
(***************************************************************************)
RoutesAroundLoad ==
  \A h \in KeyHashes :
    LET room == {n \in nodes : HasRoom(n)}
        eligible == IF room = {} THEN nodes ELSE room
    IN  nodes # {} => /\ GetNode(h) \in eligible
                      /\ \A n \in eligible : Distance(GetNode(h), h) <= Distance(n, h)
=============================================================================
