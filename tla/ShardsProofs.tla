--------------------------- MODULE ShardsProofs ----------------------------
(***************************************************************************)
(* Proof about module HotKeys that the shards of a split key follow the    *)
(* key, for any number of keys, shards and handlers.                       *)
(***************************************************************************)
EXTENDS HotKeysProofs

(***************************************************************************)
(* The shards of a key.  What they hold depends on where the one handler   *)
(* is that writes the key or splits it.                                    *)
(***************************************************************************)
At(h, places, k) == handler[h].at \in places /\ handler[h].key = k

Bare(k) == \A i \in Shards : copy[k][i] = None

Agree(k) == \A i \in Shards : original[k] # None /\ copy[k][i] # None => copy[k][i] = original[k]

\* The key and its first n shards hold v or nothing.
Follows(k, v, n) ==
    original[k] \in {None, v} /\ \A i \in Shards : i < n => copy[k][i] \in {None, v}

HandlerInv(h, k) ==
    /\ At(h, {"split"}, k) => Follows(k, handler[h].value, ShardCount)
    /\ At(h, {"shards"}, k) => Follows(k, handler[h].value, handler[h].shard)
    /\ At(h, {"write", "shards"}, k) /\ handler[h].shard < ShardCount => k \in mitigatedKeys
    /\ At(h, {"write"}, k) /\ handler[h].shard # 0 => Bare(k)

KeyInv(k) ==
    /\ \A g, h \in Handlers : Writing(g, k) /\ Writing(h, k) => g = h
    /\ \A h \in Handlers : HandlerInv(h, k)
    /\ (\A h \in Handlers : ~At(h, {"split"}, k)) /\ k \notin mitigatedKeys => Bare(k)
    /\ (\A h \in Handlers : ~At(h, {"split", "shards"}, k)) => Agree(k)

ShardInv == \A k \in Keys \ untracked : KeyInv(k)

\* The same, when nobody but h writes the key or splits it.
Sole(h, k) ==
    /\ \A g \in Handlers \ {h} : ~Writing(g, k)
    /\ HandlerInv(h, k)
    /\ ~At(h, {"split"}, k) /\ k \notin mitigatedKeys => Bare(k)
    /\ ~At(h, {"split", "shards"}, k) => Agree(k)

\* Where no other handler writes k, this one is the only one there can be.
LEMMA NobodyElseWrites ==
  ASSUME NEW h \in Handlers, NEW k, KeyInv(k), \A g \in Handlers \ {h} : ~Writing(g, k)
  PROVE  Sole(h, k)
<1>1. \A g \in Handlers \ {h} : ~At(g, {"split", "shards"}, k) /\ ~At(g, {"split"}, k)
  BY DEF Writing, At
<1> QED
  BY <1>1 DEF Sole, KeyInv

\* A handler that writes k is the only one.
LEMMA WriterIsSole ==
  ASSUME NEW h \in Handlers, NEW k, KeyInv(k), Writing(h, k)
  PROVE  Sole(h, k)
<1>1. \A g \in Handlers \ {h} : ~Writing(g, k)
  BY DEF KeyInv
<1> QED
  BY <1>1, NobodyElseWrites

\* Values may vanish, and those who write the key stay where they are.
Quiet(k) ==
    /\ original'[k] \in {original[k], None}
    /\ \A i \in Shards : copy'[k][i] \in {copy[k][i], None}
    /\ mitigatedKeys \subseteq mitigatedKeys'
    /\ \A h \in Handlers : Writing(h, k) \/ Writing(h, k)' => handler'[h] = handler[h]

\* A step that does not concern k keeps what is said of k.
LEMMA QuietStep ==
  ASSUME NEW k \in Keys, KeyInv(k), Quiet(k)
  PROVE  KeyInv(k)'
<1>1. /\ Bare(k) => Bare(k)'
      /\ Agree(k) => Agree(k)'
      /\ \A v, n : Follows(k, v, n) => Follows(k, v, n)'
  BY DEF Quiet, Bare, Agree, Follows
<1>2. \A h \in Handlers : Writing(h, k)' <=> Writing(h, k)
  BY DEF Quiet, Writing
<1>3. ASSUME NEW h \in Handlers PROVE HandlerInv(h, k)'
  <2>1. CASE ~Writing(h, k)'
    BY <2>1 DEF Writing, HandlerInv, At
  <2>2. CASE Writing(h, k)'
    <3>1. handler'[h] = handler[h] /\ mitigatedKeys \subseteq mitigatedKeys'
      BY <2>2 DEF Quiet
    <3>2. HandlerInv(h, k)
      BY DEF KeyInv
    <3> QED
      BY <1>1, <3>1, <3>2 DEF HandlerInv, At
  <2> QED
    BY <2>1, <2>2
<1>4. \A h \in Handlers : /\ At(h, {"split"}, k) => At(h, {"split"}, k)'
                          /\ At(h, {"split", "shards"}, k) => At(h, {"split", "shards"}, k)'
  BY DEF Quiet, Writing, At
<1>5. mitigatedKeys \subseteq mitigatedKeys'
  BY DEF Quiet
<1> QED
  BY <1>1, <1>2, <1>3, <1>4, <1>5 DEF KeyInv

\* A step of a handler that concerns another key, or no write.
LEMMA ElsewhereStep ==
  ASSUME NEW k \in Keys, KeyInv(k), NEW h \in Handlers, OthersStay(h),
         ~Writing(h, k), ~Writing(h, k)', original'[k] = original[k], copy'[k] = copy[k],
         mitigatedKeys \subseteq mitigatedKeys'
  PROVE  KeyInv(k)'
<1>1. Quiet(k)
  BY DEF Quiet, OthersStay
<1> QED
  BY <1>1, QuietStep

\* A step of the one handler that writes the key or is about to.
LEMMA SoleStep ==
  ASSUME NEW k \in Keys, NEW h \in Handlers, Sole(h, k), OthersStay(h),
         HandlerInv(h, k)',
         ~At(h, {"split"}, k)' /\ k \notin mitigatedKeys' => Bare(k)',
         ~At(h, {"split", "shards"}, k)' => Agree(k)'
  PROVE  KeyInv(k)'
<1>1. \A g \in Handlers \ {h} : ~Writing(g, k)'
  BY DEF Sole, OthersStay, Writing
<1>2. \A g \in Handlers \ {h} : /\ HandlerInv(g, k)' /\ ~At(g, {"split", "shards"}, k)'
                                /\ ~At(g, {"split"}, k)'
  BY <1>1 DEF Writing, HandlerInv, At
<1> QED
  BY <1>1, <1>2 DEF KeyInv

\* Every step keeps what is said of each tracked key and its shards.
LEMMA ShardsStep ==
  TypeOK /\ SplitterAlone /\ ShardInv /\ [Next]_vars => ShardInv'
<1> SUFFICES ASSUME TypeOK, SplitterAlone, ShardInv, [Next]_vars, NEW k \in Keys \ untracked'
             PROVE  KeyInv(k)'
  BY DEF ShardInv
<1>0. k \in Keys /\ KeyInv(k)
  <2>1. untracked \subseteq untracked'
    BY DEF Next, HandlerStep, Get, Set, RecordAccess, Estimate, CheckAndMitigate, applySplitting,
           IsMitigated, SetStore, WriteToShards, Vanish, VanishShard, Replicate, Decay, Stop, vars,
           ghosts
  <2> QED
    BY <2>1 DEF ShardInv
<1>1. ASSUME NEW h \in Handlers, NEW a \in Keys, Get(h, a) PROVE KeyInv(k)'
  <2>1. OthersStay(h) /\ handler[h].at = "idle" /\ handler'[h].at \in {"idle", "record"}
    BY <1>1 DEF Get, Arrives, TypeOK, OthersStay
  <2>2. UNCHANGED <<original, copy, mitigatedKeys>>
    BY <1>1 DEF Get, store, mitigation
  <2> QED
    BY <1>0, <2>1, <2>2, ElsewhereStep DEF Writing
<1>2. ASSUME NEW h \in Handlers, RecordAccess(h) \/ Estimate(h) PROVE KeyInv(k)'
  <2>1. OthersStay(h) /\ handler'[h].at \in {"estimate", "mitigate", "idle"}
    <3>1. CASE Return(h)
      BY <3>1, Returned
    <3>2. CASE Goto(h, "estimate")
      BY <1>2, <3>2, MovedOn DEF Goto, RecordAccess, Estimate
    <3>3. CASE Goto(h, "mitigate")
      BY <1>2, <3>3, MovedOn DEF Goto, RecordAccess, Estimate
    <3> QED
      BY <1>2, <3>1, <3>2, <3>3 DEF RecordAccess, Estimate
  <2>2. UNCHANGED <<original, copy, mitigatedKeys>> /\ handler[h].at \in {"record", "estimate"}
    BY <1>2 DEF RecordAccess, Estimate, store, mitigation
  <2> QED
    BY <1>0, <2>1, <2>2, ElsewhereStep DEF Writing
<1>3. ASSUME NEW h \in Handlers, CheckAndMitigate(h) PROVE KeyInv(k)'
  <2>1. UNCHANGED <<original, copy>> /\ handler[h].at = "mitigate" /\ ~Writing(h, k)
    BY <1>3 DEF CheckAndMitigate, store, Writing
  <2>2. mitigatedKeys \subseteq mitigatedKeys'
    BY <1>3 DEF CheckAndMitigate, Mitigated, mitigation
  <2>3. CASE Return(h)
    <3>1. OthersStay(h) /\ ~Writing(h, k)'
      BY <2>3, Returned DEF Writing
    <3> QED
      BY <1>0, <2>1, <2>2, <3>1, ElsewhereStep
  <2>4. CASE ~AlreadyMitigated(handler[h].key) /\ original[handler[h].key] # None
    <3>1. /\ UNCHANGED mitigatedKeys
          /\ handler' = [handler EXCEPT ![h] = [at |-> "split", key |-> handler[h].key,
                           value |-> original[handler[h].key], shard |-> 0]]
      BY <1>3, <2>4 DEF CheckAndMitigate
    <3>2. /\ OthersStay(h) /\ handler'[h].at = "split" /\ handler'[h].key = handler[h].key
          /\ handler'[h].value = original[handler[h].key]
      BY <3>1 DEF OthersStay, TypeOK
    <3>3. CASE handler[h].key # k
      BY <1>0, <2>1, <2>2, <3>2, <3>3, ElsewhereStep DEF Writing
    <3>4. CASE handler[h].key = k
      <4>1. ~Overlaps(h, k)
        BY <1>3, <2>4, <3>4 DEF CheckAndMitigate
      <4>2. Sole(h, k)
        BY <1>0, <4>1, NobodyElseWrites DEF Overlaps
      <4>3. Bare(k)
        BY <2>1, <2>4, <3>4, <4>2 DEF Sole, At, AlreadyMitigated
      <4>4. Follows(k, original[k], ShardCount)'
        BY <2>1, <4>3 DEF Follows, Bare
      <4>5. HandlerInv(h, k)'
        BY <2>1, <3>2, <3>4, <4>4 DEF HandlerInv, At
      <4> QED
        BY <1>0, <3>2, <3>4, <4>2, <4>5, SoleStep DEF At
    <3> QED
      BY <3>3, <3>4
  <2> QED
    BY <1>3, <2>3, <2>4 DEF CheckAndMitigate
<1>4. ASSUME NEW h \in Handlers, applySplitting(h) PROVE KeyInv(k)'
  <2>1. handler[h] \in Busy /\ handler[h].at = "split" /\ original' = original
    BY <1>4, BusyHandler DEF applySplitting
  <2>2. handler[h].key \in Keys /\ handler[h].shard \in Nat
    BY <2>1 DEF Busy
  <2>3. CASE handler[h].shard < ShardCount
    <3>1. /\ copy' = [copy EXCEPT ![handler[h].key][handler[h].shard] = handler[h].value]
          /\ mitigatedKeys' = mitigatedKeys
          /\ handler' = [handler EXCEPT ![h].shard = handler[h].shard + 1]
      BY <1>4, <2>2, <2>3, HotKeysAssumption DEF applySplitting, mitigation
    <3>2. OthersStay(h) /\ SameRequest(h) /\ handler'[h].at = "split"
      BY <2>1, <3>1, NextShard
    <3>3. CASE handler[h].key # k
      <4>1. copy'[k] = copy[k]
        BY <1>0, <3>1, <3>3 DEF TypeOK
      <4> QED
        BY <1>0, <2>1, <3>1, <3>2, <3>3, <4>1, ElsewhereStep DEF Writing, SameRequest
    <3>4. CASE handler[h].key = k
      <4>1. Sole(h, k)
        BY <1>0, <2>1, <3>4, WriterIsSole DEF Writing
      <4>2. Follows(k, handler[h].value, ShardCount)
        BY <2>1, <3>4, <4>1 DEF Sole, HandlerInv, At
      <4>3. \A i \in Shards : copy'[k][i] \in {copy[k][i], handler[h].value}
        BY <1>0, <3>1, <3>4 DEF TypeOK
      <4>4. Follows(k, handler[h].value, ShardCount)'
        BY <2>1, <3>2, <4>2, <4>3 DEF Follows, SameRequest
      <4>5. HandlerInv(h, k)'
        BY <3>2, <4>4 DEF HandlerInv, At
      <4> QED
        BY <1>0, <3>2, <3>4, <4>1, <4>5, SoleStep DEF At, SameRequest
    <3> QED
      BY <3>3, <3>4
  <2>4. CASE ~(handler[h].shard < ShardCount)
    <3>1. copy' = copy /\ mitigatedKeys' = mitigatedKeys \cup {handler[h].key} /\ Return(h)
      BY <1>4, <2>4 DEF applySplitting
    <3>2. OthersStay(h) /\ handler'[h].at = "idle"
      BY <3>1, Returned
    <3>3. CASE handler[h].key # k
      BY <1>0, <2>1, <3>1, <3>2, <3>3, ElsewhereStep DEF Writing
    <3>4. CASE handler[h].key = k
      <4>1. Sole(h, k)
        BY <1>0, <2>1, <3>4, WriterIsSole DEF Writing
      <4>2. Follows(k, handler[h].value, ShardCount)
        BY <2>1, <3>4, <4>1 DEF Sole, HandlerInv, At
      <4>3. Agree(k)'
        BY <2>1, <3>1, <4>2, HotKeysAssumption DEF Follows, Agree, Shards
      <4>4. HandlerInv(h, k)'
        BY <3>2 DEF HandlerInv, At
      <4> QED
        BY <1>0, <3>1, <3>2, <3>4, <4>1, <4>3, <4>4, SoleStep
    <3> QED
      BY <3>3, <3>4
  <2> QED
    BY <2>3, <2>4
<1>5. ASSUME NEW h \in Handlers, NEW a \in Keys, Set(h, a) PROVE KeyInv(k)'
  <2>1. /\ OthersStay(h) /\ handler[h].at = "idle"
        /\ handler'[h].at = "check" /\ handler'[h].key = a
    BY <1>5 DEF Set, Arrives, TypeOK, OthersStay
  <2>2. UNCHANGED <<original, copy, mitigatedKeys>>
    BY <1>5 DEF Set, store, mitigation
  <2>3. CASE a # k
    BY <1>0, <2>1, <2>2, <2>3, ElsewhereStep DEF Writing
  <2>4. CASE a = k
    <3>1. ~Overlaps(h, k)
      BY <1>5, <2>4 DEF Set
    <3>2. Sole(h, k)
      BY <1>0, <3>1, NobodyElseWrites DEF Overlaps
    <3>3. (k \notin mitigatedKeys => Bare(k)) /\ Agree(k)
      BY <2>1, <3>2 DEF Sole, At
    <3>4. (k \notin mitigatedKeys' => Bare(k)') /\ Agree(k)'
      BY <2>2, <3>3 DEF Bare, Agree
    <3>5. HandlerInv(h, k)'
      BY <2>1 DEF HandlerInv, At
    <3> QED
      BY <1>0, <2>1, <3>2, <3>4, <3>5, SoleStep
  <2> QED
    BY <2>3, <2>4
<1>6. ASSUME NEW h \in Handlers, IsMitigated(h) PROVE KeyInv(k)'
  <2>1. /\ OthersStay(h) /\ SameRequest(h) /\ handler'[h].at = "write"
        /\ handler'[h].shard = IF handler[h].key \in mitigatedKeys THEN 0 ELSE ShardCount
    BY <1>6, FirstShard
  <2>2. UNCHANGED <<original, copy, mitigatedKeys>> /\ handler[h].at = "check"
    BY <1>6 DEF IsMitigated, store, mitigation
  <2>3. CASE handler[h].key # k
    BY <1>0, <2>1, <2>2, <2>3, ElsewhereStep DEF Writing, SameRequest
  <2>4. CASE handler[h].key = k
    <3>1. Sole(h, k)
      BY <1>0, <2>2, <2>4, WriterIsSole DEF Writing
    <3>2. (k \notin mitigatedKeys => Bare(k)) /\ Agree(k)
      BY <2>2, <3>1 DEF Sole, At
    <3>3. (k \notin mitigatedKeys' => Bare(k)') /\ Agree(k)'
      BY <2>2, <3>2 DEF Bare, Agree
    <3>4. /\ handler'[h].shard < ShardCount => k \in mitigatedKeys'
          /\ handler'[h].shard # 0 => k \notin mitigatedKeys'
      BY <2>1, <2>2, <2>4, HotKeysAssumption
    <3>5. HandlerInv(h, k)'
      BY <2>1, <3>3, <3>4 DEF HandlerInv, At
    <3> QED
      BY <1>0, <2>1, <3>1, <3>3, <3>5, SoleStep
  <2> QED
    BY <2>3, <2>4
<1>7. ASSUME NEW h \in Handlers, SetStore(h) PROVE KeyInv(k)'
  <2>1. handler[h] \in Busy /\ handler[h].at = "write"
    BY <1>7, BusyHandler DEF SetStore
  <2>2. OthersStay(h) /\ SameRequest(h) /\ handler'[h].at = "shards" /\ handler'[h].shard = handler[h].shard
    BY <1>7, <2>1, MovedOn DEF SetStore, Goto
  <2>3. /\ UNCHANGED <<copy, mitigatedKeys>>
        /\ original' = [original EXCEPT ![handler[h].key] = handler[h].value]
    BY <1>7 DEF SetStore, mitigation
  <2>4. CASE handler[h].key # k
    <3>1. original'[k] = original[k]
      BY <1>0, <2>3, <2>4 DEF TypeOK
    <3> QED
      BY <1>0, <2>1, <2>2, <2>3, <2>4, <3>1, ElsewhereStep DEF Writing, SameRequest
  <2>5. CASE handler[h].key = k
    <3>1. Sole(h, k)
      BY <1>0, <2>1, <2>5, WriterIsSole DEF Writing
    <3>2. /\ handler[h].shard < ShardCount => k \in mitigatedKeys
          /\ handler[h].shard # 0 => Bare(k)
          /\ k \notin mitigatedKeys => Bare(k)
      BY <2>1, <2>5, <3>1 DEF Sole, HandlerInv, At
    <3>3. original'[k] = handler'[h].value
      BY <1>0, <2>2, <2>3, <2>5 DEF TypeOK, SameRequest
    <3>4. \A i \in Shards : i < handler'[h].shard => copy'[k][i] = None
      <4>1. CASE handler[h].shard = 0
        BY <2>2, <4>1 DEF Shards
      <4>2. CASE handler[h].shard # 0
        BY <2>3, <3>2, <4>2 DEF Bare
      <4> QED
        BY <4>1, <4>2
    <3>5. Follows(k, handler[h].value, handler[h].shard)'
      BY <3>3, <3>4 DEF Follows
    <3>6. k \notin mitigatedKeys' => Bare(k)'
      BY <2>3, <3>2 DEF Bare
    <3>7. HandlerInv(h, k)'
      BY <2>2, <2>3, <3>2, <3>5 DEF HandlerInv, At
    <3>8. At(h, {"split", "shards"}, k)'
      BY <2>2, <2>5 DEF At, SameRequest
    <3> QED
      BY <1>0, <2>2, <3>1, <3>6, <3>7, <3>8, SoleStep
  <2> QED
    BY <2>4, <2>5
<1>8. ASSUME NEW h \in Handlers, WriteToShards(h) PROVE KeyInv(k)'
  <2>1. /\ handler[h] \in Busy /\ handler[h].at = "shards"
        /\ UNCHANGED <<original, mitigatedKeys>>
    BY <1>8, BusyHandler DEF WriteToShards, mitigation
  <2>2. handler[h].key \in Keys /\ handler[h].shard \in Nat
    BY <2>1 DEF Busy
  <2>3. CASE handler[h].shard < ShardCount
    <3>1. /\ copy' = [copy EXCEPT ![handler[h].key][handler[h].shard] = handler[h].value]
          /\ handler' = [handler EXCEPT ![h].shard = handler[h].shard + 1]
      BY <1>8, <2>2, <2>3, HotKeysAssumption DEF WriteToShards
    <3>2. /\ OthersStay(h) /\ SameRequest(h) /\ handler'[h].at = "shards"
          /\ handler'[h].shard = handler[h].shard + 1
      BY <2>1, <3>1, NextShard
    <3>3. CASE handler[h].key # k
      <4>1. copy'[k] = copy[k]
        BY <1>0, <3>1, <3>3 DEF TypeOK
      <4> QED
        BY <1>0, <2>1, <3>2, <3>3, <4>1, ElsewhereStep DEF Writing, SameRequest
    <3>4. CASE handler[h].key = k
      <4>1. Sole(h, k)
        BY <1>0, <2>1, <3>4, WriterIsSole DEF Writing
      <4>2. Follows(k, handler[h].value, handler[h].shard) /\ k \in mitigatedKeys
        BY <2>1, <2>3, <3>4, <4>1 DEF Sole, HandlerInv, At
      <4>3. \A i \in Shards : copy'[k][i] = IF i = handler[h].shard THEN handler[h].value ELSE copy[k][i]
        BY <1>0, <3>1, <3>4 DEF TypeOK
      <4>4. \A i \in Shards : i < handler'[h].shard => i < handler[h].shard \/ i = handler[h].shard
        BY <2>2, <3>2 DEF Shards
      <4>5. Follows(k, handler[h].value, handler[h].shard)'
        BY <2>1, <3>2, <4>2, <4>3, <4>4 DEF Follows, SameRequest
      <4>6. HandlerInv(h, k)'
        BY <2>1, <3>2, <4>2, <4>5 DEF HandlerInv, At
      <4>7. At(h, {"split", "shards"}, k)'
        BY <3>2, <3>4 DEF At, SameRequest
      <4> QED
        BY <1>0, <2>1, <3>2, <4>1, <4>2, <4>6, <4>7, SoleStep
    <3> QED
      BY <3>3, <3>4
  <2>4. CASE ~(handler[h].shard < ShardCount)
    <3>1. copy' = copy /\ Return(h)
      BY <1>8, <2>4 DEF WriteToShards
    <3>2. OthersStay(h) /\ handler'[h].at = "idle"
      BY <3>1, Returned
    <3>3. CASE handler[h].key # k
      BY <1>0, <2>1, <3>1, <3>2, <3>3, ElsewhereStep DEF Writing
    <3>4. CASE handler[h].key = k
      <4>1. Sole(h, k)
        BY <1>0, <2>1, <3>4, WriterIsSole DEF Writing
      <4>2. Follows(k, handler[h].value, handler[h].shard)
        BY <2>1, <3>4, <4>1 DEF Sole, HandlerInv, At
      <4>3. \A i \in Shards : i < handler[h].shard
        BY <2>2, <2>4, HotKeysAssumption DEF Shards
      <4>4. Agree(k)'
        BY <2>1, <3>1, <4>2, <4>3 DEF Follows, Agree
      <4>5. k \notin mitigatedKeys' => Bare(k)'
        BY <2>1, <3>1, <4>1 DEF Sole, At, Bare
      <4>6. HandlerInv(h, k)'
        BY <3>2 DEF HandlerInv, At
      <4> QED
        BY <1>0, <3>2, <4>1, <4>4, <4>5, <4>6, SoleStep
    <3> QED
      BY <3>3, <3>4
  <2> QED
    BY <2>3, <2>4
<1>9. ASSUME UNCHANGED <<handler, mitigatedKeys>>, original'[k] \in {original[k], None},
             \A i \in Shards : copy'[k][i] \in {copy[k][i], None}
      PROVE  KeyInv(k)'
  <2>1. Quiet(k)
    BY <1>9 DEF Quiet
  <2> QED
    BY <1>0, <2>1, QuietStep
<1>10. CASE Decay \/ Stop \/ UNCHANGED vars
  BY <1>9, <1>10 DEF Decay, Stop, vars, store, mitigation
<1>11. ASSUME NEW a \in Keys, Vanish(a) \/ Replicate(a) PROVE KeyInv(k)'
  <2>1. original'[k] \in {original[k], None}
    BY <1>0, <1>11 DEF Vanish, Replicate, TypeOK
  <2> QED
    BY <1>9, <1>11, <2>1 DEF Vanish, Replicate, mitigation
<1>12. ASSUME NEW a \in Keys, NEW i \in Shards, VanishShard(a, i) PROVE KeyInv(k)'
  <2>1. \A j \in Shards : copy'[k][j] \in {copy[k][j], None}
    BY <1>0, <1>12 DEF VanishShard, TypeOK
  <2> QED
    BY <1>9, <1>12, <2>1 DEF VanishShard, mitigation
<1> QED
  BY <1>1, <1>2, <1>3, <1>4, <1>5, <1>6, <1>7, <1>8, <1>10, <1>11, <1>12 DEF Next, HandlerStep

\* At the start no key has shards.
LEMMA ShardsInit == Init => ShardInv
<1> SUFFICES ASSUME Init PROVE ShardInv
  OBVIOUS
<1>1. \A h \in Handlers : handler[h] = [at |-> "idle"]
  BY DEF Init, Idle
<1>2. ASSUME NEW k \in Keys PROVE Bare(k) /\ Agree(k)
  BY DEF Init, Bare, Agree
<1>3. ASSUME NEW k \in Keys PROVE KeyInv(k)
  <2>1. \A h \in Handlers : HandlerInv(h, k) /\ ~Writing(h, k)
    BY <1>1 DEF HandlerInv, Writing, At
  <2> QED
    BY <1>2, <2>1 DEF KeyInv
<1> QED
  BY <1>3 DEF ShardInv

\* CheckAndMitigate, Set and WriteToShards keep the shards of a key in step with
\* the key, for any number of keys, shards and handlers.
THEOREM ShardsFollow == Spec => []ShardsAgree
<1>1. ShardInv => ShardsAgree
  <2>1. ASSUME NEW k, KeyInv(k), \A h \in Handlers : ~Writing(h, k) PROVE Agree(k)
    BY <2>1 DEF KeyInv, Writing, At
  <2> QED
    BY <2>1 DEF ShardInv, ShardsAgree, Agree
<1>2. HotInv => TypeOK /\ SplitterAlone
  BY DEF HotInv
<1> QED
  BY HotInvariant, ShardsInit, ShardsStep, <1>1, <1>2, PTL DEF Spec
=============================================================================
