--------------------------- MODULE HotKeysProofs ---------------------------
(***************************************************************************)
(* Proofs about module HotKeys, for every sketch, every hash function,     *)
(* every threshold and any number of keys, shards and handlers.            *)
(***************************************************************************)
EXTENDS HotKeys, FiniteSetTheorems, TLAPS

(***************************************************************************)
(* Halving keeps the order of counters: what Decay does to two counters    *)
(* that were in order leaves them in order.                                *)
(***************************************************************************)
LEMMA HalvingIsMonotonic ==
  ASSUME NEW m \in Nat, NEW n \in Nat, m <= n
  PROVE  m \div 2 \in Nat /\ m \div 2 <= n \div 2 /\ m \div 2 <= m
  BY SMT

(***************************************************************************)
(* A handler that is doing something is at one of the places of a request. *)
(***************************************************************************)
LEMMA BusyHandler ==
  ASSUME TypeOK, NEW h \in Handlers, handler[h].at # "idle"
  PROVE  handler[h] \in Busy
  BY DEF TypeOK, Idle

(***************************************************************************)
(* Every variable of the hot-key path keeps its type: counters and places  *)
(* stay in range whatever handlers and decays interleave.                  *)
(***************************************************************************)
LEMMA TypeStep == TypeOK /\ [Next]_vars => TypeOK'
<1> SUFFICES ASSUME TypeOK, [Next]_vars PROVE TypeOK'
  OBVIOUS
<1> USE HotKeysAssumption
<1>1. ASSUME NEW h \in Handlers, NEW k \in Keys, Get(h, k) PROVE TypeOK'
  <2>1. calls + 1 \in Values /\ calls' \in 0 .. MaxCalls
    BY <1>1 DEF Get, Arrives, TypeOK, Values
  <2>2. [at |-> "record", key |-> k, value |-> calls + 1, shard |-> 0] \in Busy
    BY <2>1 DEF Busy, Places
  <2>3. handler' \in [Handlers -> Busy \cup {Idle}]
    BY <1>1, <2>2 DEF Get, TypeOK
  <2> QED
    BY <1>1, <2>1, <2>3 DEF Get, TypeOK, sketch, store, mitigation, ghosts
<1>2. ASSUME NEW h \in Handlers, NEW k \in Keys, Set(h, k) PROVE TypeOK'
  <2>1. calls + 1 \in Values /\ calls' \in 0 .. MaxCalls
    BY <1>2 DEF Set, Arrives, TypeOK, Values
  <2>2. [at |-> "check", key |-> k, value |-> calls + 1, shard |-> 0] \in Busy
    BY <2>1 DEF Busy, Places
  <2>3. handler' \in [Handlers -> Busy \cup {Idle}]
    BY <1>2, <2>2 DEF Set, TypeOK
  <2>4. untracked' \subseteq Keys
    BY <1>2 DEF Set, TypeOK
  <2> QED
    BY <1>2, <2>1, <2>3, <2>4 DEF Set, TypeOK, sketch, store, mitigation
<1>3. ASSUME NEW h \in Handlers, RecordAccess(h) PROVE TypeOK'
  <2>1. handler[h] \in Busy
    BY <1>3, BusyHandler DEF RecordAccess
  <2>2. handler' \in [Handlers -> Busy \cup {Idle}]
    BY <1>3, <2>1 DEF RecordAccess, Goto, TypeOK, Busy, Places
  <2>3. handler[h].key \in Keys
    BY <2>1 DEF Busy
  <2>4. table' \in [Rows -> [Columns -> Nat]]
    BY <1>3, <2>3 DEF RecordAccess, Increment, TypeOK
  <2>5. total' \in Nat /\ frequency' \in [Keys -> Nat]
    BY <1>3, <2>3 DEF RecordAccess, Increment, TypeOK
  <2> QED
    BY <1>3, <2>2, <2>4, <2>5 DEF RecordAccess, TypeOK, store, mitigation
<1>4. ASSUME NEW h \in Handlers, Estimate(h) PROVE TypeOK'
  <2>1. handler[h] \in Busy
    BY <1>4, BusyHandler DEF Estimate
  <2>2. handler' \in [Handlers -> Busy \cup {Idle}]
    <3>1. [handler[h] EXCEPT !.at = "mitigate"] \in Busy
      BY <2>1 DEF Busy, Places
    <3> QED
      BY <1>4, <3>1 DEF Estimate, Goto, Return, TypeOK
  <2> QED
    BY <1>4, <2>2 DEF Estimate, TypeOK, sketch, store, mitigation, ghosts
<1>5. ASSUME NEW h \in Handlers, CheckAndMitigate(h) PROVE TypeOK'
  <2>1. handler[h].key \in Keys
    BY <1>5, BusyHandler DEF CheckAndMitigate, Busy
  <2>2. original[handler[h].key] # None =>
          [at |-> "split", key |-> handler[h].key, value |-> original[handler[h].key],
           shard |-> 0] \in Busy
    BY <2>1 DEF TypeOK, Busy, Places
  <2>3. handler' \in [Handlers -> Busy \cup {Idle}]
    <3>1. \E c \in Busy \cup {Idle} : handler' = [handler EXCEPT ![h] = c]
      <4>1. CASE Return(h)
        BY <4>1 DEF Return
      <4>2. CASE ~Return(h)
        BY <1>5, <2>2, <4>2 DEF CheckAndMitigate
      <4> QED
        BY <4>1, <4>2
    <3> QED
      BY <3>1 DEF TypeOK
  <2>4. mitigatedKeys' \subseteq Keys /\ mitigationCount' \in Nat /\ mu' \in Handlers \cup {None}
        /\ untracked' \subseteq Keys
    BY <1>5, <2>1 DEF CheckAndMitigate, TypeOK, Mitigated, mitigation
  <2> QED
    BY <1>5, <2>3, <2>4 DEF CheckAndMitigate, TypeOK, sketch, store
<1>6. ASSUME NEW h \in Handlers, applySplitting(h) PROVE TypeOK'
  <2>1. handler[h] \in Busy
    BY <1>6, BusyHandler DEF applySplitting
  <2>2. handler[h].key \in Keys /\ handler[h].value \in Values /\ handler[h].shard \in 0 .. ShardCount
    BY <2>1 DEF Busy
  <2>3. handler' \in [Handlers -> Busy \cup {Idle}]
    <3>1. handler[h].shard < ShardCount => [handler[h] EXCEPT !.shard = handler[h].shard + 1] \in Busy
      BY <2>1, <2>2 DEF Busy
    <3> QED
      BY <1>6, <3>1 DEF applySplitting, Return, TypeOK
  <2>4. copy' \in [Keys -> [Shards -> Values \cup {None}]] /\ lasting' \in [Keys -> SUBSET Shards]
    <3>1. handler[h].shard < ShardCount => handler[h].shard \in Shards
      BY <2>2 DEF Shards
    <3>2. ASSUME handler[h].shard < ShardCount
          PROVE  [copy[handler[h].key] EXCEPT ![handler[h].shard] = handler[h].value]
                   \in [Shards -> Values \cup {None}]
      BY <2>2, <3>1, <3>2 DEF TypeOK
    <3>3. ASSUME handler[h].shard < ShardCount
          PROVE  /\ lasting[handler[h].key] \cup {handler[h].shard} \in SUBSET Shards
                 /\ lasting[handler[h].key] \ {handler[h].shard} \in SUBSET Shards
      BY <2>2, <3>1, <3>3 DEF TypeOK
    <3>4. CASE handler[h].shard < ShardCount
      <4>1. copy' = [copy EXCEPT ![handler[h].key] =
                       [copy[handler[h].key] EXCEPT ![handler[h].shard] = handler[h].value]]
        BY <1>6, <2>2, <3>4 DEF applySplitting, TypeOK
      <4>2. copy' \in [Keys -> [Shards -> Values \cup {None}]]
        BY <2>2, <3>2, <3>4, <4>1 DEF TypeOK
      <4>3. lasting' \in [Keys -> SUBSET Shards]
        BY <1>6, <2>2, <3>3, <3>4 DEF applySplitting, TypeOK
      <4> QED
        BY <4>2, <4>3
    <3>5. CASE ~(handler[h].shard < ShardCount)
      BY <1>6, <2>2, <3>5 DEF applySplitting, TypeOK
    <3> QED
      BY <3>4, <3>5
  <2>5. mitigatedKeys' \subseteq Keys /\ mitigationCount' \in Nat /\ mu' \in Handlers \cup {None}
    BY <1>6, <2>2 DEF applySplitting, TypeOK, mitigation
  <2> QED
    BY <1>6, <2>3, <2>4, <2>5 DEF applySplitting, TypeOK, sketch, ghosts
<1>7. ASSUME NEW h \in Handlers, IsMitigated(h) PROVE TypeOK'
  <2>1. handler[h] \in Busy
    BY <1>7, BusyHandler DEF IsMitigated
  <2> DEFINE first == IF handler[h].key \in mitigatedKeys THEN 0 ELSE ShardCount
             after == [handler[h] EXCEPT !.at = "write", !.shard = first]
  <2>2. first \in 0 .. ShardCount
    OBVIOUS
  <2>3. handler' = [handler EXCEPT ![h] = after]
    BY <1>7 DEF IsMitigated
  <2> HIDE DEF first
  <2>4. after \in Busy
    BY <2>1, <2>2 DEF Busy, Places
  <2> HIDE DEF after
  <2>5. handler' \in [Handlers -> Busy \cup {Idle}]
    BY <2>3, <2>4 DEF TypeOK
  <2> QED
    BY <1>7, <2>5 DEF IsMitigated, TypeOK, sketch, store, mitigation, ghosts
<1>8. ASSUME NEW h \in Handlers, SetStore(h) PROVE TypeOK'
  <2>1. handler[h] \in Busy
    BY <1>8, BusyHandler DEF SetStore
  <2>2. handler' \in [Handlers -> Busy \cup {Idle}]
    BY <1>8, <2>1 DEF SetStore, Goto, TypeOK, Busy, Places
  <2>3. original' \in [Keys -> Values \cup {None}]
    BY <1>8, <2>1 DEF SetStore, TypeOK, Busy
  <2> QED
    BY <1>8, <2>2, <2>3 DEF SetStore, TypeOK, sketch, mitigation, ghosts
<1>9. ASSUME NEW h \in Handlers, WriteToShards(h) PROVE TypeOK'
  <2>1. handler[h] \in Busy
    BY <1>9, BusyHandler DEF WriteToShards
  <2>2. handler[h].key \in Keys /\ handler[h].value \in Values /\ handler[h].shard \in 0 .. ShardCount
    BY <2>1 DEF Busy
  <2>3. handler' \in [Handlers -> Busy \cup {Idle}]
    <3>1. handler[h].shard < ShardCount => [handler[h] EXCEPT !.shard = handler[h].shard + 1] \in Busy
      BY <2>1, <2>2 DEF Busy
    <3> QED
      BY <1>9, <3>1 DEF WriteToShards, Return, TypeOK
  <2>4. copy' \in [Keys -> [Shards -> Values \cup {None}]] /\ lasting' \in [Keys -> SUBSET Shards]
    <3>1. handler[h].shard < ShardCount => handler[h].shard \in Shards
      BY <2>2 DEF Shards
    <3>2. ASSUME handler[h].shard < ShardCount
          PROVE  [copy[handler[h].key] EXCEPT ![handler[h].shard] = handler[h].value]
                   \in [Shards -> Values \cup {None}]
      BY <2>2, <3>1, <3>2 DEF TypeOK
    <3>3. ASSUME handler[h].shard < ShardCount
          PROVE  /\ lasting[handler[h].key] \cup {handler[h].shard} \in SUBSET Shards
                 /\ lasting[handler[h].key] \ {handler[h].shard} \in SUBSET Shards
      BY <2>2, <3>1, <3>3 DEF TypeOK
    <3>4. CASE handler[h].shard < ShardCount
      <4>1. copy' = [copy EXCEPT ![handler[h].key] =
                       [copy[handler[h].key] EXCEPT ![handler[h].shard] = handler[h].value]]
        BY <1>9, <2>2, <3>4 DEF WriteToShards, TypeOK
      <4>2. copy' \in [Keys -> [Shards -> Values \cup {None}]]
        BY <2>2, <3>2, <3>4, <4>1 DEF TypeOK
      <4>3. lasting' \in [Keys -> SUBSET Shards]
        BY <1>9, <2>2, <3>3, <3>4 DEF WriteToShards, TypeOK
      <4> QED
        BY <4>2, <4>3
    <3>5. CASE ~(handler[h].shard < ShardCount)
      BY <1>9, <2>2, <3>5 DEF WriteToShards, TypeOK
    <3> QED
      BY <3>4, <3>5
  <2> QED
    BY <1>9, <2>3, <2>4 DEF WriteToShards, TypeOK, sketch, mitigation, ghosts
<1>10. ASSUME NEW k \in Keys, Vanish(k) PROVE TypeOK'
  BY <1>10 DEF Vanish, TypeOK, sketch, mitigation, ghosts
<1>11. ASSUME NEW k \in Keys, NEW i \in Shards, VanishShard(k, i) PROVE TypeOK'
  BY <1>11 DEF VanishShard, TypeOK, sketch, mitigation, ghosts
<1>12. ASSUME NEW k \in Keys, Replicate(k) PROVE TypeOK'
  <2>1. calls + 1 \in Values /\ calls' \in 0 .. MaxCalls
    BY <1>12 DEF Replicate, TypeOK, Values
  <2> QED
    BY <1>12, <2>1 DEF Replicate, TypeOK, sketch, mitigation
<1>13. CASE Decay
  <2>1. table' \in [Rows -> [Columns -> Nat]]
    BY <1>13, HalvingIsMonotonic DEF Decay, TypeOK
  <2>2. total' \in Nat /\ frequency' \in [Keys -> Nat]
    BY <1>13, HalvingIsMonotonic DEF Decay, TypeOK
  <2> QED
    BY <1>13, <2>1, <2>2 DEF Decay, TypeOK, store, mitigation
<1>14. CASE Stop
  BY <1>14 DEF Stop, TypeOK, store, mitigation, ghosts
<1>15. CASE UNCHANGED vars
  BY <1>15 DEF vars, TypeOK, sketch, store, mitigation, ghosts
<1> QED
  BY <1>1, <1>2, <1>3, <1>4, <1>5, <1>6, <1>7, <1>8, <1>9, <1>10, <1>11, <1>12, <1>13, <1>14, <1>15
  DEF Next, HandlerStep

(***************************************************************************)
(* What a step of one handler does to the handlers: it moves that handler  *)
(* on and leaves the request it serves and all other handlers alone.       *)
(***************************************************************************)
SameRequest(h) == handler'[h].key = handler[h].key /\ handler'[h].value = handler[h].value

OthersStay(h) == \A g \in Handlers \ {h} : handler'[g] = handler[g]

\* A handler that moves on keeps its request and disturbs no other.
LEMMA MovedOn ==
  ASSUME TypeOK, NEW h \in Handlers, handler[h].at # "idle", NEW place,
         handler' = [handler EXCEPT ![h].at = place]
  PROVE  /\ OthersStay(h) /\ SameRequest(h)
         /\ handler'[h].at = place /\ handler'[h].shard = handler[h].shard
<1>1. handler[h] \in Busy
  BY BusyHandler
<1>2. handler' = [handler EXCEPT ![h] = [handler[h] EXCEPT !.at = place]]
  OBVIOUS
<1>3. handler'[h] = [handler[h] EXCEPT !.at = place]
  BY <1>2 DEF TypeOK
<1>4. handler[h] = [at |-> handler[h].at, key |-> handler[h].key, value |-> handler[h].value,
                    shard |-> handler[h].shard]
  BY <1>1 DEF Busy
<1>5. handler'[h] = [at |-> place, key |-> handler[h].key, value |-> handler[h].value,
                     shard |-> handler[h].shard]
  BY <1>3, <1>4
<1> QED
  BY <1>2, <1>5 DEF OthersStay, SameRequest, TypeOK

\* A handler that goes on to a shard keeps its request and its place.
LEMMA NextShard ==
  ASSUME TypeOK, NEW h \in Handlers, handler[h].at # "idle", NEW i,
         handler' = [handler EXCEPT ![h].shard = i]
  PROVE  /\ OthersStay(h) /\ SameRequest(h)
         /\ handler'[h].at = handler[h].at /\ handler'[h].shard = i
<1>1. handler[h] \in Busy
  BY BusyHandler
<1>2. handler' = [handler EXCEPT ![h] = [handler[h] EXCEPT !.shard = i]]
  OBVIOUS
<1>3. handler'[h] = [handler[h] EXCEPT !.shard = i]
  BY <1>2 DEF TypeOK
<1>4. handler[h] = [at |-> handler[h].at, key |-> handler[h].key, value |-> handler[h].value,
                    shard |-> handler[h].shard]
  BY <1>1 DEF Busy
<1>5. handler'[h] = [at |-> handler[h].at, key |-> handler[h].key, value |-> handler[h].value,
                     shard |-> i]
  BY <1>3, <1>4
<1> QED
  BY <1>2, <1>5 DEF OthersStay, SameRequest, TypeOK

\* After IsMitigated a Set has all shards to write, or none.
LEMMA FirstShard ==
  ASSUME TypeOK, NEW h \in Handlers, IsMitigated(h)
  PROVE  /\ OthersStay(h) /\ SameRequest(h) /\ handler'[h].at = "write"
         /\ handler'[h].shard = IF handler[h].key \in mitigatedKeys THEN 0 ELSE ShardCount
<1> DEFINE i == IF handler[h].key \in mitigatedKeys THEN 0 ELSE ShardCount
<1>1. handler[h] \in Busy
  BY BusyHandler DEF IsMitigated
<1>2. handler' = [handler EXCEPT ![h] = [handler[h] EXCEPT !.at = "write", !.shard = i]]
  BY DEF IsMitigated
<1>3. handler'[h] = [handler[h] EXCEPT !.at = "write", !.shard = i]
  BY <1>2 DEF TypeOK
<1>4. OthersStay(h)
  BY <1>2 DEF OthersStay, TypeOK
<1> HIDE DEF i
<1>5. handler[h] = [at |-> handler[h].at, key |-> handler[h].key, value |-> handler[h].value,
                    shard |-> handler[h].shard]
  BY <1>1 DEF Busy
<1>6. handler'[h] = [at |-> "write", key |-> handler[h].key, value |-> handler[h].value, shard |-> i]
  BY <1>3, <1>5
<1>7. OthersStay(h) /\ SameRequest(h) /\ handler'[h].at = "write" /\ handler'[h].shard = i
  BY <1>4, <1>6 DEF SameRequest
<1> QED
  BY <1>7 DEF i

\* A handler that returns is idle and disturbs no other.
LEMMA Returned ==
  ASSUME TypeOK, NEW h \in Handlers, Return(h)
  PROVE  OthersStay(h) /\ handler'[h].at = "idle"
<1>1. handler'[h] = [at |-> "idle"]
  BY DEF Return, TypeOK, Idle
<1>2. OthersStay(h)
  BY DEF Return, TypeOK, OthersStay
<1> QED
  BY <1>1, <1>2

(***************************************************************************)
(* The sketch: EstimateBounded is inductive.                               *)
(***************************************************************************)
LEMMA EstimateStep == TypeOK /\ EstimateBounded /\ [Next]_vars => EstimateBounded'
<1> SUFFICES ASSUME TypeOK, EstimateBounded, [Next]_vars PROVE EstimateBounded'
  OBVIOUS
<1> USE HotKeysAssumption
<1>1. ASSUME NEW r \in Rows, NEW k \in Keys
      PROVE  /\ hash[r][k] \in Columns /\ table[r][hash[r][k]] \in Nat
             /\ frequency[k] <= table[r][hash[r][k]] /\ table[r][hash[r][k]] <= total
  BY DEF EstimateBounded, Counters, TypeOK
<1>2. ASSUME NEW h \in Handlers, RecordAccess(h) PROVE EstimateBounded'
  <2> DEFINE a == handler[h].key
  <2>1. a \in Keys
    BY <1>2, BusyHandler DEF RecordAccess, Busy
  <2>2. SUFFICES ASSUME NEW r \in Rows, NEW k \in Keys
                 PROVE  frequency'[k] <= table'[r][hash[r][k]] /\ table'[r][hash[r][k]] <= total'
    BY DEF EstimateBounded, Counters
  <2>3. total' = total + 1 /\ frequency'[k] = IF k = a THEN frequency[k] + 1 ELSE frequency[k]
    BY <1>2, <2>1 DEF RecordAccess, Increment, TypeOK
  <2>4. table'[r][hash[r][k]] =
          IF hash[r][k] = hash[r][a] THEN table[r][hash[r][k]] + 1 ELSE table[r][hash[r][k]]
    BY <1>1, <1>2, <2>1 DEF RecordAccess, Increment, TypeOK
  <2> QED
    BY <1>1, <2>1, <2>3, <2>4 DEF TypeOK
<1>3. CASE Decay
  <2>1. SUFFICES ASSUME NEW r \in Rows, NEW k \in Keys
                 PROVE  frequency'[k] <= table'[r][hash[r][k]] /\ table'[r][hash[r][k]] <= total'
    BY DEF EstimateBounded, Counters
  <2>2. /\ frequency'[k] = frequency[k] \div 2
        /\ table'[r][hash[r][k]] = table[r][hash[r][k]] \div 2
        /\ total' = total \div 2
    BY <1>1, <1>3 DEF Decay
  <2> QED
    BY <1>1, <2>2, HalvingIsMonotonic DEF TypeOK
<1>4. ASSUME UNCHANGED <<table, total, frequency>> PROVE EstimateBounded'
  <2>1. \A k \in Keys : Counters(k)' = Counters(k)
    BY <1>4 DEF Counters
  <2> QED
    BY <1>4, <2>1 DEF EstimateBounded
<1> QED
  BY <1>2, <1>3, <1>4
  DEF Next, HandlerStep, Get, Set, Estimate, CheckAndMitigate, applySplitting, IsMitigated, SetStore,
      WriteToShards, Vanish, VanishShard, Replicate, Stop, vars, sketch, ghosts

(***************************************************************************)
(* No hot key is missed.  The one step that could lose a key is Estimate   *)
(* finding it cool, and then its own accesses are below the threshold,     *)
(* because the sketch never underestimates.                                *)
(***************************************************************************)
LEMMA NoHotKeyMissedStep ==
  TypeOK /\ EstimateBounded /\ NoHotKeyMissed /\ [Next]_vars => NoHotKeyMissed'
<1> SUFFICES ASSUME TypeOK, EstimateBounded, NoHotKeyMissed, [Next]_vars, NEW k \in Keys,
                    frequency'[k] >= HotThreshold
             PROVE  \/ k \in mitigatedKeys'
                    \/ \E h \in Handlers : /\ handler'[h].at \in {"estimate", "mitigate", "split"}
                                           /\ handler'[h].key = k
  BY DEF NoHotKeyMissed
<1> DEFINE Pending(h) == handler[h].at \in {"estimate", "mitigate", "split"} /\ handler[h].key = k
           Goal == \/ k \in mitigatedKeys'
                   \/ \E h \in Handlers : /\ handler'[h].at \in {"estimate", "mitigate", "split"}
                                          /\ handler'[h].key = k
<1> USE HotKeysAssumption
<1>0. frequency[k] >= HotThreshold => k \in mitigatedKeys \/ \E h \in Handlers : Pending(h)
  BY DEF NoHotKeyMissed
<1>1. ASSUME NEW h \in Handlers, RecordAccess(h) PROVE Goal
  <2>1. handler[h] \in Busy
    BY <1>1, BusyHandler DEF RecordAccess
  <2>2. handler' = [handler EXCEPT ![h] = [handler[h] EXCEPT !.at = "estimate"]]
    BY <1>1 DEF RecordAccess, Goto
  <2>3. handler'[h].at = "estimate" /\ handler'[h].key = handler[h].key
    BY <2>1, <2>2 DEF TypeOK, Busy
  <2>4. CASE handler[h].key = k
    BY <2>3, <2>4
  <2>5. CASE handler[h].key # k
    <3>1. frequency'[k] = frequency[k]
      BY <1>1, <2>1, <2>5 DEF RecordAccess, Increment, TypeOK, Busy
    <3>2. \A g \in Handlers : Pending(g) => handler'[g] = handler[g]
      BY <2>2, <2>5 DEF TypeOK
    <3>3. mitigatedKeys' = mitigatedKeys
      BY <1>1 DEF RecordAccess, mitigation
    <3> QED
      BY <1>0, <3>1, <3>2, <3>3
  <2> QED
    BY <2>4, <2>5
<1>2. ASSUME NEW h \in Handlers, Estimate(h) PROVE Goal
  <2>1. handler[h] \in Busy
    BY <1>2, BusyHandler DEF Estimate
  <2>2. frequency' = frequency /\ mitigatedKeys' = mitigatedKeys
    BY <1>2 DEF Estimate, ghosts, mitigation
  <2>3. CASE IsHot(handler[h].key)
    <3>1. handler' = [handler EXCEPT ![h] = [handler[h] EXCEPT !.at = "mitigate"]]
      BY <1>2, <2>3 DEF Estimate, Goto
    <3>2. handler'[h].at = "mitigate" /\ handler'[h].key = handler[h].key
      BY <2>1, <3>1 DEF TypeOK, Busy
    <3>3. \A g \in Handlers \ {h} : handler'[g] = handler[g]
      BY <3>1 DEF TypeOK
    <3> QED
      BY <1>0, <2>2, <3>2, <3>3
  <2>4. CASE ~IsHot(handler[h].key)
    <3>1. handler' = [handler EXCEPT ![h] = Idle]
      BY <1>2, <2>4 DEF Estimate, Return
    <3>2. handler[h].key # k
      <4>1. ASSUME NEW n \in Counters(k) PROVE n \in Nat /\ frequency[k] <= n
        BY DEF EstimateBounded, Counters, TypeOK
      <4>2. frequency[k] >= HotThreshold /\ frequency[k] \in Nat
        BY <2>2 DEF TypeOK
      <4>3. IsHot(k)
        BY <4>1, <4>2 DEF IsHot
      <4> QED
        BY <2>4, <4>3
    <3>3. \A g \in Handlers : Pending(g) => handler'[g] = handler[g]
      BY <3>1, <3>2 DEF TypeOK
    <3> QED
      BY <1>0, <2>2, <3>3
  <2> QED
    BY <2>3, <2>4
<1>3. ASSUME NEW h \in Handlers, CheckAndMitigate(h) PROVE Goal
  <2>1. frequency' = frequency /\ mitigatedKeys \subseteq mitigatedKeys'
    BY <1>3 DEF CheckAndMitigate, Mitigated, mitigation
  <2>2. \A g \in Handlers \ {h} : handler'[g] = handler[g]
    BY <1>3 DEF CheckAndMitigate, Return, TypeOK
  <2>3. handler[h].key \in mitigatedKeys' \/ (handler'[h].at = "split" /\ handler'[h].key = handler[h].key)
    BY <1>3 DEF CheckAndMitigate, AlreadyMitigated, Mitigated, TypeOK, mitigation
  <2> QED
    BY <1>0, <2>1, <2>2, <2>3
<1>4. ASSUME NEW h \in Handlers, applySplitting(h) PROVE Goal
  <2>1. handler[h] \in Busy
    BY <1>4, BusyHandler DEF applySplitting
  <2>2. frequency' = frequency /\ mitigatedKeys \subseteq mitigatedKeys'
    BY <1>4 DEF applySplitting, mitigation, ghosts
  <2>3. \A g \in Handlers \ {h} : handler'[g] = handler[g]
    BY <1>4 DEF applySplitting, Return, TypeOK
  <2>4. handler[h].key \in mitigatedKeys'
        \/ (handler'[h].at = "split" /\ handler'[h].key = handler[h].key)
    <3>1. CASE handler[h].shard < ShardCount
      <4>1. handler' = [handler EXCEPT ![h] = [handler[h] EXCEPT !.shard = handler[h].shard + 1]]
        BY <1>4, <2>1, <3>1 DEF applySplitting, Busy
      <4> QED
        BY <1>4, <2>1, <4>1 DEF applySplitting, TypeOK, Busy
    <3>2. CASE ~(handler[h].shard < ShardCount)
      BY <1>4, <3>2 DEF applySplitting
    <3> QED
      BY <3>1, <3>2
  <2> QED
    BY <1>0, <2>2, <2>3, <2>4
<1>5. ASSUME frequency'[k] <= frequency[k], frequency'[k] \in Nat, mitigatedKeys' = mitigatedKeys,
             \A h \in Handlers : Pending(h) => handler'[h] = handler[h]
      PROVE  Goal
  <2>1. frequency[k] >= HotThreshold
    BY <1>5 DEF TypeOK
  <2> QED
    BY <1>0, <1>5, <2>1
<1>6. CASE Decay
  <2>1. frequency'[k] <= frequency[k] /\ frequency'[k] \in Nat
    BY <1>6, HalvingIsMonotonic DEF Decay, TypeOK
  <2> QED
    BY <1>5, <1>6, <2>1 DEF Decay, mitigation
<1>7. ASSUME frequency' = frequency, mitigatedKeys' = mitigatedKeys,
             NEW h \in Handlers, handler[h].at \notin {"estimate", "mitigate", "split"},
             \A g \in Handlers \ {h} : handler'[g] = handler[g]
      PROVE  Goal
  BY <1>0, <1>7
<1>8. ASSUME NEW h \in Handlers, NEW j \in Keys, Get(h, j) \/ Set(h, j) PROVE Goal
  <2>1. frequency' = frequency /\ mitigatedKeys' = mitigatedKeys /\ handler[h].at = "idle"
    BY <1>8 DEF Get, Set, Arrives, mitigation, ghosts
  <2>2. \A g \in Handlers \ {h} : handler'[g] = handler[g]
    BY <1>8 DEF Get, Set, TypeOK
  <2> QED
    BY <1>7, <2>1, <2>2
<1>9. ASSUME NEW h \in Handlers, IsMitigated(h) \/ SetStore(h) \/ WriteToShards(h) PROVE Goal
  BY <1>7, <1>9 DEF IsMitigated, SetStore, WriteToShards, Goto, Return, TypeOK, mitigation, ghosts
<1>10. ASSUME UNCHANGED <<frequency, mitigatedKeys, handler>> PROVE Goal
  BY <1>0, <1>10
<1>11. CASE Stop \/ UNCHANGED vars \/ \E j \in Keys : Vanish(j) \/ Replicate(j)
                                    \/ \E i \in Shards : VanishShard(j, i)
  BY <1>10, <1>11 DEF Stop, Vanish, Replicate, VanishShard, vars, mitigation, ghosts
<1> QED
  BY <1>1, <1>2, <1>3, <1>4, <1>6, <1>8, <1>9, <1>11 DEF Next, HandlerStep

(***************************************************************************)
(* Splitting: the handler that splits a key holds the mutex, and the key   *)
(* is not on record before it is done.                                     *)
(***************************************************************************)
SplitterAlone ==
  \A h \in Handlers : handler[h].at = "split" => mu = h /\ handler[h].key \notin mitigatedKeys

SplitCount == IsFiniteSet(mitigatedKeys) /\ SplitOnce

\* Every step keeps the split to one handler, under the mutex, and to one per key.
LEMMA SplitStep ==
  TypeOK /\ SplitterAlone /\ SplitCount /\ [Next]_vars => SplitterAlone' /\ SplitCount'
<1> SUFFICES ASSUME TypeOK, SplitterAlone, SplitCount, [Next]_vars
             PROVE  SplitterAlone' /\ SplitCount'
  OBVIOUS
<1> USE HotKeysAssumption
<1>1. ASSUME NEW k \in Keys \ mitigatedKeys, mitigatedKeys' = mitigatedKeys \cup {k},
             mitigationCount' = mitigationCount + 1
      PROVE  SplitCount'
  BY <1>1, FS_AddElement DEF SplitCount, SplitOnce
<1>2. ASSUME UNCHANGED mitigation,
             \A h \in Handlers : handler'[h].at = "split" =>
                 handler[h].at = "split" /\ handler'[h].key = handler[h].key
      PROVE  SplitterAlone' /\ SplitCount'
  BY <1>2 DEF SplitterAlone, SplitCount, SplitOnce, mitigation
<1>3. ASSUME NEW h \in Handlers, CheckAndMitigate(h) PROVE SplitterAlone' /\ SplitCount'
  <2>1. handler[h].key \in Keys
    BY <1>3, BusyHandler DEF CheckAndMitigate, Busy
  <2>2. mu = None /\ \A g \in Handlers : handler[g].at # "split"
    BY <1>3 DEF CheckAndMitigate, SplitterAlone
  <2>3. CASE AlreadyMitigated(handler[h].key)
    <3>1. UNCHANGED mitigation /\ handler' = [handler EXCEPT ![h] = Idle]
      BY <1>3, <2>3 DEF CheckAndMitigate, Return
    <3>2. \A g \in Handlers : handler'[g].at # "split"
      BY <2>2, <3>1, Returned DEF Return, OthersStay
    <3> QED
      BY <1>2, <3>1, <3>2
  <2>4. CASE ~AlreadyMitigated(handler[h].key) /\ original[handler[h].key] = None
    <3>1. /\ mitigatedKeys' = mitigatedKeys \cup {handler[h].key}
          /\ mitigationCount' = mitigationCount + 1 /\ handler' = [handler EXCEPT ![h] = Idle]
      BY <1>3, <2>4 DEF CheckAndMitigate, Return, Mitigated
    <3>2. \A g \in Handlers : handler'[g].at # "split"
      BY <2>2, <3>1, Returned DEF Return, OthersStay
    <3>3. SplitCount'
      BY <1>1, <2>1, <2>4, <3>1 DEF AlreadyMitigated
    <3> QED
      BY <3>2, <3>3 DEF SplitterAlone
  <2>5. CASE ~AlreadyMitigated(handler[h].key) /\ original[handler[h].key] # None
    <3>1. /\ UNCHANGED <<mitigatedKeys, mitigationCount>> /\ mu' = h
          /\ handler' = [handler EXCEPT ![h] = [at |-> "split", key |-> handler[h].key,
                           value |-> original[handler[h].key], shard |-> 0]]
      BY <1>3, <2>5 DEF CheckAndMitigate
    <3>2. SplitterAlone'
      BY <2>2, <2>5, <3>1 DEF SplitterAlone, AlreadyMitigated, TypeOK
    <3>3. SplitCount'
      BY <3>1 DEF SplitCount, SplitOnce
    <3> QED
      BY <3>2, <3>3
  <2> QED
    BY <2>3, <2>4, <2>5
<1>4. ASSUME NEW h \in Handlers, applySplitting(h) PROVE SplitterAlone' /\ SplitCount'
  <2>1. handler[h] \in Busy
    BY <1>4, BusyHandler DEF applySplitting
  <2>2. handler[h].key \in Keys \ mitigatedKeys /\ \A g \in Handlers \ {h} : handler[g].at # "split"
    <3>1. handler[h].key \in Keys
      BY <2>1 DEF Busy
    <3>2. handler[h].at = "split"
      BY <1>4 DEF applySplitting
    <3> QED
      BY <3>1, <3>2 DEF SplitterAlone
  <2>3. CASE handler[h].shard < ShardCount
    <3>1. handler' = [handler EXCEPT ![h] = [handler[h] EXCEPT !.shard = handler[h].shard + 1]]
      BY <1>4, <2>1, <2>3 DEF applySplitting, Busy
    <3>2. \A g \in Handlers : handler'[g].at = "split" =>
             handler[g].at = "split" /\ handler'[g].key = handler[g].key
      BY <2>1, <3>1 DEF TypeOK, Busy
    <3>3. UNCHANGED mitigation
      BY <1>4, <2>1, <2>3 DEF applySplitting, Busy
    <3> QED
      BY <1>2, <3>2, <3>3
  <2>4. CASE ~(handler[h].shard < ShardCount)
    <3>1. /\ mitigatedKeys' = mitigatedKeys \cup {handler[h].key}
          /\ mitigationCount' = mitigationCount + 1 /\ handler' = [handler EXCEPT ![h] = Idle]
      BY <1>4, <2>4 DEF applySplitting, Return
    <3>2. \A g \in Handlers : handler'[g].at # "split"
      BY <2>2, <3>1, Returned DEF Return, OthersStay
    <3>3. SplitCount'
      BY <1>1, <2>2, <3>1
    <3> QED
      BY <3>2, <3>3 DEF SplitterAlone
  <2> QED
    BY <2>3, <2>4
<1>5. ASSUME NEW h \in Handlers, NEW k \in Keys, Get(h, k) \/ Set(h, k)
      PROVE  SplitterAlone' /\ SplitCount'
  <2>1. \A g \in Handlers : handler'[g] = handler[g] \/ handler'[g].at \in {"record", "check"}
    BY <1>5 DEF Get, Set, TypeOK
  <2>2. UNCHANGED mitigation
    BY <1>5 DEF Get, Set
  <2> QED
    BY <1>2, <2>1, <2>2
<1>6. ASSUME NEW h \in Handlers,
             RecordAccess(h) \/ Estimate(h) \/ IsMitigated(h) \/ SetStore(h) \/ WriteToShards(h)
      PROVE  SplitterAlone' /\ SplitCount'
  <2>1. handler[h] \in Busy /\ handler[h].at # "split"
    BY <1>6, BusyHandler DEF RecordAccess, Estimate, IsMitigated, SetStore, WriteToShards
  <2>2. OthersStay(h) /\ handler'[h].at # "split"
    <3>1. CASE RecordAccess(h)
      BY <3>1, MovedOn DEF RecordAccess, Goto
    <3>2. CASE Estimate(h)
      <4>1. CASE IsHot(handler[h].key)
        <5>1. handler' = [handler EXCEPT ![h].at = "mitigate"] /\ handler[h].at # "idle"
          BY <3>2, <4>1 DEF Estimate, Goto
        <5>2. OthersStay(h) /\ handler'[h].at = "mitigate"
          BY <5>1, MovedOn
        <5> QED
          BY <5>2
      <4>2. CASE ~IsHot(handler[h].key)
        BY <3>2, <4>2, Returned DEF Estimate
      <4> QED
        BY <4>1, <4>2
    <3>3. CASE SetStore(h)
      BY <3>3, MovedOn DEF SetStore, Goto
    <3>4. CASE IsMitigated(h)
      BY <3>4, FirstShard
    <3>5. CASE WriteToShards(h)
      <4>1. CASE Return(h)
        BY <4>1, Returned
      <4>2. CASE handler' = [handler EXCEPT ![h].shard = handler[h].shard + 1]
        BY <3>5, <4>2, NextShard DEF WriteToShards
      <4> QED
        BY <3>5, <4>1, <4>2 DEF WriteToShards
    <3> QED
      BY <1>6, <3>1, <3>2, <3>3, <3>4, <3>5
  <2>4. UNCHANGED mitigation
    BY <1>6 DEF RecordAccess, Estimate, IsMitigated, SetStore, WriteToShards
  <2> QED
    BY <1>2, <2>2, <2>4 DEF OthersStay
<1>7. CASE Decay \/ Stop \/ UNCHANGED vars \/ \E j \in Keys : Vanish(j) \/ Replicate(j)
                                             \/ \E i \in Shards : VanishShard(j, i)
  BY <1>2, <1>7 DEF Decay, Stop, Vanish, Replicate, VanishShard, vars
<1> QED
  BY <1>3, <1>4, <1>5, <1>6, <1>7 DEF Next, HandlerStep

(***************************************************************************)
(* The properties, for every instance.                                     *)
(***************************************************************************)
HotInv == TypeOK /\ EstimateBounded /\ NoHotKeyMissed /\ SplitterAlone /\ SplitCount

\* The invariant holds at the start.
LEMMA HotInit == Init => HotInv
<1> SUFFICES ASSUME Init PROVE HotInv
  OBVIOUS
<1> USE HotKeysAssumption
<1>1. TypeOK
  <2>1. handler \in [Handlers -> Busy \cup {Idle}] /\ calls \in 0 .. MaxCalls
    BY DEF Init
  <2> QED
    BY <2>1 DEF Init, TypeOK
<1>2. EstimateBounded
  BY DEF Init, EstimateBounded, Counters
<1>3. NoHotKeyMissed
  BY DEF Init, NoHotKeyMissed
<1>4. SplitterAlone
  <2>1. \A h \in Handlers : handler[h] = [at |-> "idle"]
    BY DEF Init, Idle
  <2> QED
    BY <2>1 DEF SplitterAlone
<1>5. SplitCount
  BY FS_EmptySet DEF Init, SplitCount, SplitOnce
<1> QED
  BY <1>1, <1>2, <1>3, <1>4, <1>5 DEF HotInv

\* Every step keeps the invariant.
LEMMA HotStep == HotInv /\ [Next]_vars => HotInv'
<1> SUFFICES ASSUME HotInv, [Next]_vars PROVE HotInv'
  OBVIOUS
<1>1. TypeOK'
  BY TypeStep DEF HotInv
<1>2. EstimateBounded'
  BY EstimateStep DEF HotInv
<1>3. NoHotKeyMissed'
  BY NoHotKeyMissedStep DEF HotInv
<1>4. SplitterAlone' /\ SplitCount'
  BY SplitStep DEF HotInv
<1> QED
  BY <1>1, <1>2, <1>3, <1>4 DEF HotInv

\* The invariant always holds.
LEMMA HotInvariant == Spec => []HotInv
BY HotInit, HotStep, PTL DEF Spec

\* Every variable of the node keeps its type.
THEOREM HotKeysTyped == Spec => []TypeOK
<1>1. HotInv => TypeOK
  BY DEF HotInv
<1> QED
  BY HotInvariant, <1>1, PTL

\* Count-Min Sketch: no counter of a key is below the key's decayed accesses or
\* above the decayed total, for every hash function, depth and width.
THEOREM SketchBounds == Spec => []EstimateBounded
<1>1. HotInv => EstimateBounded
  BY DEF HotInv
<1> QED
  BY HotInvariant, <1>1, PTL

\* RecordAccess followed by CheckAndMitigate overlooks no key that reaches the
\* threshold, for any number of handlers.
THEOREM HotKeysFound == Spec => []NoHotKeyMissed
<1>1. HotInv => NoHotKeyMissed
  BY DEF HotInv
<1> QED
  BY HotInvariant, <1>1, PTL

\* CheckAndMitigate splits no key twice, for any number of handlers.
THEOREM KeysSplitOnce == Spec => []SplitOnce
<1>1. HotInv => SplitOnce
  BY DEF HotInv, SplitCount
<1> QED
  BY HotInvariant, <1>1, PTL
=============================================================================
