---------------------------- MODULE StoreProofs -----------------------------
(***************************************************************************)
(* Proofs about module Store, for any number of keys, goroutines, shards,  *)
(* samples and calls, and for any clock.                                   *)
(***************************************************************************)
EXTENDS Store, FiniteSetTheorems, TLAPS

\* A sample is a set of keys that are present, so the sweeper removes only such keys.
LEMMA SampleOfPresent ==
  ASSUME NEW s, NEW S \in Samples(s)
  PROVE  S \subseteq Present
BY DEF Samples

\* Whatever the sweeper removes is a finite set of expired keys.
LEMMA SampleExpiredFinite ==
  ASSUME NEW s, NEW S \in Samples(s)
  PROVE  /\ SampleExpired(S) \subseteq Present \ Live
         /\ IsFiniteSet(SampleExpired(S))
         /\ Cardinality(SampleExpired(S)) \in Nat
<1>1. SampleExpired(S) \subseteq Present \ Live
  BY SampleOfPresent DEF SampleExpired, Live
<1>2. SampleExpired(S) \subseteq Keys
  BY <1>1 DEF Present
<1>3. IsFiniteSet(SampleExpired(S))
  BY <1>2, StoreFinite, FS_Subset
<1> QED
  BY <1>1, <1>3, FS_CardinalityType

\* The store's state keeps its types, whatever the calls, the scan and the sweeper do.
THEOREM TypeCorrect == Spec => []TypeOK
<1>1. Init => TypeOK
  <2> SUFFICES ASSUME Init PROVE TypeOK
    OBVIOUS
  <2>1. NoScan \in [on : BOOLEAN, kind : {"ForEach", "Keys"}, at : Nat,
                    shard : 0..ShardCount, seen : SUBSET Keys]
    <3>1. 0 \in 0..ShardCount
      BY StoreConstants
    <3> QED
      BY <3>1, Zenon DEF NoScan
  <2>2. stopCh \in BOOLEAN
    BY DEF Init
  <2> QED
    BY <2>1, <2>2, StoreConstants DEF Init, TypeOK, Counters, Places
<1>2. TypeOK /\ [Next]_vars => TypeOK'
  <2> SUFFICES ASSUME TypeOK, [Next]_vars
               PROVE  TypeOK'
    OBVIOUS
  <2> USE StoreConstants
  <2>1. ASSUME NEW p \in Procs, NEW k \in Keys, Get(p, k)
        PROVE  TypeOK'
    BY <2>1 DEF TypeOK, Get, Call, Goto, Watch, Live, Present, Entry, Places, Counters, sweepVars
  <2>2. ASSUME NEW p \in Procs, NEW k \in Keys, Delete(p, k)
        PROVE  TypeOK'
    BY <2>2 DEF TypeOK, Delete, Call, Goto, Watch, Live, Present, Places, Counters, sweepVars
  <2>3. ASSUME NEW p \in Procs, NEW k \in Keys, NEW ttl \in TTLs, Expire(p, k, ttl)
        PROVE  TypeOK'
    BY <2>3 DEF TypeOK, Expire, Call, Watch, Live, Present, Entry, ExpiryFrom, sweepVars
  <2>4. ASSUME NEW p \in Procs, NEW k \in Keys, NEW ttl \in TTLs, NEW v \in Values,
               Set(p, k, v, ttl)
        PROVE  TypeOK'
    BY <2>4 DEF TypeOK, Set, Call, Goto, Watch, Live, Present, Entry, ExpiryFrom, Places, sweepVars
  <2>5. ASSUME NEW p \in Procs, GetUpgrade(p)
        PROVE  TypeOK'
    BY <2>5 DEF TypeOK, GetUpgrade, Goto, Watch, Live, Present, Places, Counters, sweepVars
  <2>6. ASSUME NEW p \in Procs, SetStore(p)
        PROVE  TypeOK'
    BY <2>6 DEF TypeOK, SetStore, Goto, Watch, Live, Present, Places, Counters, sweepVars
  <2>7. ASSUME NEW p \in Procs, inc(p)
        PROVE  TypeOK'
    BY <2>7 DEF TypeOK, inc, Goto, Watch, Live, Present, Places, Counters, sweepVars
  <2>8. ASSUME NEW kind \in Scans, ScanStart(kind)
        PROVE  TypeOK'
    BY <2>8 DEF TypeOK, ScanStart, Watch, Live, Present, sweepVars
  <2>9. CASE ScanShard
    <3> DEFINE V == Visited(scan.kind, scan.at, scan.shard)
    <3>1. V \subseteq Keys
      BY DEF Visited, Present
    <3>2. scan.shard + 1 \in 0..ShardCount
      BY <2>9 DEF TypeOK, ScanShard
    <3>3. scan.seen \cup V \in SUBSET Keys
      BY <3>1 DEF TypeOK
    <3> HIDE DEF V
    <3>4. scan' = [scan EXCEPT !.shard = scan.shard + 1, !.seen = scan.seen \cup V]
      BY <2>9 DEF ScanShard, V
    <3>5. scan' \in [on : BOOLEAN, kind : {"ForEach", "Keys"}, at : Nat,
                     shard : 0..ShardCount, seen : SUBSET Keys]
      BY <3>2, <3>3, <3>4 DEF TypeOK
    <3> QED
      BY <2>9, <3>5 DEF TypeOK, ScanShard, Watch, Live, Present, callVars, sweepVars
  <2>10. CASE ScanReturn
    BY <2>10 DEF TypeOK, ScanReturn, NoScan, Watch, Live, Present, callVars, sweepVars
  <2>11. CASE SweepTick
    BY <2>11 DEF TypeOK, SweepTick, Watch, Live, Present, callVars
  <2>12. CASE sampleAndExpire
    <3>1. PICK S \in Samples(shardIndex) :
            /\ items' = [k \in Keys |-> IF k \in SampleExpired(S) THEN NoEntry ELSE items[k]]
            /\ stats' = [stats EXCEPT !["expirations"] = @ + Cardinality(SampleExpired(S))]
            /\ IF SweepAgain(SampleExpired(S), S)
               THEN sweeper' = "again" /\ UNCHANGED shardIndex
               ELSE sweeper' = "wait" /\ shardIndex' = SweepNext(shardIndex)
      BY <2>12 DEF sampleAndExpire
    <3>2. Cardinality(SampleExpired(S)) \in Nat
      BY SampleExpiredFinite
    <3>3. SweepNext(shardIndex) \in 0..(ShardCount - 1)
      BY DEF TypeOK, SweepNext
    <3> QED
      BY <2>12, <3>1, <3>2, <3>3
      DEF TypeOK, sampleAndExpire, Watch, Live, Present, Counters, callVars
  <2>13. CASE SweeperStop
    BY <2>13 DEF TypeOK, SweeperStop, Watch, Live, Present, callVars
  <2>14. CASE SweeperExit
    BY <2>14 DEF TypeOK, SweeperExit, Watch, Live, Present, callVars
  <2>15. CASE Tick
    BY <2>15 DEF TypeOK, Tick, Watch, Live, Present, callVars, sweepVars
  <2>16. CASE UNCHANGED vars
    BY <2>16 DEF TypeOK, vars, callVars, scanVars, sweepVars
  <2> QED
    BY <2>1, <2>2, <2>3, <2>4, <2>5, <2>6, <2>7, <2>8, <2>9, <2>10, <2>11, <2>12,
       <2>13, <2>14, <2>15, <2>16
    DEF Next
<1> QED
  BY <1>1, <1>2, PTL DEF Spec

\* A step that leaves the map, the clock and the Sets under way alone is invisible.
LEMMA InvisibleStep ==
  ASSUME TypeOK, UNCHANGED <<items, now, out>>, writesBar' = writesBar
  PROVE  UNCHANGED <<liveBar, now, writesBar, out>>
BY DEF liveBar, Live, Present

(***************************************************************************)
(* The store implements the abstract cache: every step is a step of        *)
(* TTLCache under the mapping, or changes nothing a caller can see.        *)
(***************************************************************************)
THEOREM StoreImplementsTTLCache == Spec => ImplementsTTLCache
<1>1. Init => Abs!Init
  BY DEF Init, Abs!Init, liveBar, writesBar, Live, Present
<1>2. TypeOK /\ [Next]_vars => [Abs!Next]_(Abs!vars)
  <2> SUFFICES ASSUME TypeOK, [Next]_vars
               PROVE  Abs!Next \/ UNCHANGED Abs!vars
    OBVIOUS
  <2> USE StoreConstants
  <2>1. ASSUME NEW p \in Procs, NEW k \in Keys, Get(p, k)
        PROVE  Abs!Get(p, k)
    <3>1. liveBar' = liveBar
      BY <2>1 DEF Get, liveBar, Live, Present
    <3>2. writesBar' = writesBar
      BY <2>1 DEF TypeOK, Get, Call, Goto, writesBar
    <3>3. liveBar[k] = IF k \in Live THEN items[k] ELSE NoEntry
      BY DEF liveBar
    <3>4. k \in Live => items[k] # NoEntry
      BY DEF Live, Present
    <3> QED
      BY <2>1, <3>1, <3>2, <3>3, <3>4 DEF Get, Call, Abs!Get
  <2>2. ASSUME NEW p \in Procs, NEW k \in Keys, Delete(p, k)
        PROVE  Abs!Remove(k)
    <3>1. liveBar' = [liveBar EXCEPT ![k] = NoEntry]
      BY <2>2 DEF TypeOK, Delete, liveBar, Live, Present
    <3>2. writesBar' = writesBar
      BY <2>2 DEF TypeOK, Delete, Call, Goto, writesBar
    <3> QED
      BY <2>2, <3>1, <3>2 DEF Delete, Call, Abs!Remove
  <2>3. ASSUME NEW p \in Procs, NEW k \in Keys, NEW ttl \in TTLs, Expire(p, k, ttl)
        PROVE  Abs!Retime(k, ttl) \/ Abs!Observe
    <3>1. writesBar' = writesBar
      BY <2>3 DEF Expire, writesBar
    <3>2. CASE k \notin Live
      BY <2>3, <3>1, <3>2 DEF Expire, Call, liveBar, Live, Present, Abs!Observe
    <3>3. CASE k \in Live
      <4> DEFINE e == [value |-> items[k].value, expiresAt |-> ExpiryFrom(now, ttl)]
      <4>1. items[k] \in Entry /\ liveBar[k] = items[k] /\ liveBar[k] # NoEntry
        BY <3>3 DEF TypeOK, liveBar, Live, Present
      <4>2. items' = [items EXCEPT ![k] = e]
        <5>1. e = [items[k] EXCEPT !.expiresAt = ExpiryFrom(now, ttl)]
          BY <4>1 DEF Entry
        <5> QED
          BY <2>3, <3>3, <5>1 DEF TypeOK, Expire
      <4>3. e \in Entry /\ ~IsExpired(e, now)
        <5>1. ttl \in Nat /\ now \in Nat
          BY DEF TypeOK
        <5>2. ExpiryFrom(now, ttl) \in Nat /\ (ExpiryFrom(now, ttl) = 0 \/ ExpiryFrom(now, ttl) > now)
          BY <5>1 DEF ExpiryFrom
        <5> QED
          BY <4>1, <5>1, <5>2 DEF Entry, IsExpired
      <4>4. e = Abs!Stamped(liveBar[k].value, ttl)
        <5>1. ExpiryFrom(now, ttl) = IF ttl = 0 THEN 0 ELSE now + ttl
          BY DEF ExpiryFrom
        <5> QED
          BY <4>1, <5>1 DEF Abs!Stamped
      <4> HIDE DEF e
      <4>5. liveBar' = [liveBar EXCEPT ![k] = e]
        <5>1. now' = now /\ items'[k] = e /\ \A j \in Keys \ {k} : items'[j] = items[j]
          BY <2>3, <4>2 DEF TypeOK, Expire
        <5>2. e # NoEntry
          BY <4>3 DEF Entry
        <5>3. k \in Live'
          BY <4>3, <5>1, <5>2 DEF Live, Present
        <5>4. \A j \in Keys \ {k} : j \in Live' <=> j \in Live
          BY <5>1 DEF Live, Present
        <5> QED
          BY <5>1, <5>3, <5>4 DEF liveBar
      <4> QED
        BY <2>3, <3>1, <4>1, <4>4, <4>5 DEF Expire, Call, Abs!Retime
    <3> QED
      BY <3>2, <3>3
  <2>4. ASSUME NEW p \in Procs, NEW k \in Keys, NEW ttl \in TTLs, NEW v \in Values,
               Set(p, k, v, ttl)
        PROVE  Abs!Ask(p, k, v, ttl)
    <3>1. liveBar' = liveBar
      BY <2>4 DEF Set, liveBar, Live, Present
    <3>2. writesBar[p] = NoEntry
      BY <2>4 DEF Set, Call, writesBar
    <3>3. writesBar' = [writesBar EXCEPT ![p] =
                          [key |-> k, entry |-> [value |-> v, expiresAt |-> ExpiryFrom(now, ttl)]]]
      BY <2>4 DEF TypeOK, Set, Goto, writesBar
    <3>4. ExpiryFrom(now, ttl) = IF ttl = 0 THEN 0 ELSE now + ttl
      BY DEF ExpiryFrom
    <3> QED
      BY <2>4, <3>1, <3>2, <3>3, <3>4 DEF Set, Call, Abs!Ask, Abs!Stamped
  <2>5. ASSUME NEW p \in Procs, GetUpgrade(p)
        PROVE  UNCHANGED Abs!vars
    <3>1. liveBar' = liveBar
      BY <2>5 DEF TypeOK, GetUpgrade, liveBar, Live, Present
    <3>2. writesBar' = writesBar
      BY <2>5 DEF TypeOK, GetUpgrade, Goto, writesBar
    <3> QED
      BY <2>5, <3>1, <3>2 DEF GetUpgrade, Abs!vars
  <2>6. ASSUME NEW p \in Procs, SetStore(p)
        PROVE  Abs!Put(p)
    <3> DEFINE w == writesBar[p]
    <3>1. key[p] \in Keys /\ entry[p] \in Entry
      BY <2>6 DEF TypeOK, SetStore
    <3>2. w = [key |-> key[p], entry |-> entry[p]] /\ w # NoEntry
      BY <2>6, <3>1 DEF SetStore, writesBar, Entry
    <3>3. writesBar' = [writesBar EXCEPT ![p] = NoEntry]
      BY <2>6 DEF TypeOK, SetStore, Goto, writesBar
    <3>4. liveBar' = Abs!Visible([liveBar EXCEPT ![key[p]] = entry[p]], now)
      BY <2>6, <3>1
      DEF TypeOK, SetStore, Abs!Visible, Abs!Lapsed, liveBar, Live, Present, IsExpired, Entry
    <3> QED
      BY <2>6, <3>2, <3>3, <3>4 DEF SetStore, Abs!Put
  <2>7. ASSUME NEW p \in Procs, inc(p)
        PROVE  UNCHANGED Abs!vars
    <3>1. writesBar' = writesBar
      BY <2>7 DEF TypeOK, inc, Goto, Counters, writesBar
    <3> QED
      BY <2>7, <3>1, InvisibleStep DEF inc, Abs!vars
  <2>8. ASSUME NEW kind \in Scans, ScanStart(kind)
        PROVE  Abs!Observe
    BY <2>8, InvisibleStep DEF ScanStart, writesBar, Abs!Observe
  <2>9. ASSUME ScanShard \/ ScanReturn \/ SweepTick \/ SweeperStop \/ SweeperExit
        PROVE  UNCHANGED Abs!vars
    BY <2>9, InvisibleStep
    DEF ScanShard, ScanReturn, SweepTick, SweeperStop, SweeperExit, callVars, writesBar, Abs!vars
  <2>10. CASE sampleAndExpire
    <3>1. PICK S \in Samples(shardIndex) :
            items' = [k \in Keys |-> IF k \in SampleExpired(S) THEN NoEntry ELSE items[k]]
      BY <2>10 DEF sampleAndExpire
    <3>2. SampleExpired(S) \subseteq Present \ Live
      BY SampleExpiredFinite
    <3>3. now' = now /\ writesBar' = writesBar /\ out' = out /\ calls' = calls
      BY <2>10 DEF sampleAndExpire, callVars, writesBar
    <3>4. liveBar' = liveBar
      BY <3>1, <3>2, <3>3 DEF liveBar, Live, Present
    <3> QED
      BY <3>3, <3>4 DEF Abs!vars
  <2>11. CASE Tick
    <3>1. liveBar' = Abs!Visible(liveBar, now')
      BY <2>11
      DEF TypeOK, Tick, Abs!Visible, Abs!Lapsed, liveBar, Live, Present, IsExpired, Entry
    <3>2. writesBar' = writesBar
      BY <2>11 DEF Tick, callVars, writesBar
    <3> QED
      BY <2>11, <3>1, <3>2 DEF Tick, callVars, Abs!Next, Abs!Tick
  <2>12. CASE UNCHANGED vars
    BY <2>12 DEF vars, callVars, liveBar, Live, Present, writesBar, Abs!vars
  <2> QED
    BY <2>1, <2>2, <2>3, <2>4, <2>5, <2>6, <2>7, <2>8, <2>9, <2>10, <2>11, <2>12
    DEF Next, Abs!Next
<1> QED
  BY <1>1, <1>2, TypeCorrect, PTL DEF Spec, ImplementsTTLCache, Abs!Spec

-----------------------------------------------------------------------------
(***************************************************************************)
(* The scan.  A key that stays live and lies in a shard that has been left *)
(* behind has been visited: it was live when its shard was read, hence not *)
(* expired at the earlier instant the scan compares deadlines with.        *)
(***************************************************************************)
ScanInv ==
  scan.on => /\ steady \subseteq Live
             /\ scan.at <= now
             /\ scan.kind = "ForEach" =>
                  \A k \in steady : ShardOf[k] < scan.shard => k \in scan.seen

\* Every step but those of the scan itself leaves the scan alone.
LEMMA ScanAside ==
  ASSUME TypeOK, ScanInv, Watch, UNCHANGED scan, now' \in Nat, now' >= now
  PROVE  ScanInv'
BY DEF TypeOK, ScanInv, Watch

\* A complete ForEach has visited every key that was live all the while.
THEOREM ForEachVisitsAll == Spec => []ForEachComplete
<1>1. Init => ScanInv
  BY DEF Init, ScanInv, NoScan
<1>2. TypeOK /\ TypeOK' /\ ScanInv /\ [Next]_vars => ScanInv'
  <2> SUFFICES ASSUME TypeOK, TypeOK', ScanInv, [Next]_vars
               PROVE  ScanInv'
    OBVIOUS
  <2> USE StoreConstants
  <2>1. ASSUME NEW kind \in Scans, ScanStart(kind)
        PROVE  ScanInv'
    BY <2>1 DEF TypeOK, ScanInv, ScanStart, Watch
  <2>2. CASE ScanShard
    <3>1. scan.on /\ scan'.on /\ now' = now /\ items' = items /\ Live' = Live
      BY <2>2 DEF TypeOK, ScanShard, Live, Present
    <3>2. steady' = steady \cap Live'
      BY <2>2, <3>1 DEF ScanShard, Watch
    <3>3. scan'.at = scan.at /\ scan'.kind = scan.kind /\ scan'.shard = scan.shard + 1
            /\ scan'.seen = scan.seen \cup Visited(scan.kind, scan.at, scan.shard)
      BY <2>2 DEF TypeOK, ScanShard
    <3>4. ASSUME NEW k \in steady', scan'.kind = "ForEach", ShardOf[k] < scan'.shard
          PROVE  k \in scan'.seen
      <4>1. k \in Keys /\ k \in steady /\ k \in Live /\ ShardOf[k] \in Nat /\ scan.shard \in Nat
        BY <3>1, <3>2, <3>4 DEF TypeOK
      <4>2. CASE ShardOf[k] < scan.shard
        BY <3>1, <3>3, <3>4, <4>1, <4>2 DEF ScanInv
      <4>3. CASE ShardOf[k] = scan.shard
        <5>1. ~IsExpired(items[k], scan.at)
          BY <3>1, <4>1 DEF TypeOK, ScanInv, Live, Present, IsExpired, Entry
        <5>2. k \in Visited(scan.kind, scan.at, scan.shard)
          BY <3>3, <3>4, <4>1, <4>3, <5>1 DEF Visited, Listed, Live
        <5> QED
          BY <3>3, <5>2
      <4> QED
        BY <3>3, <3>4, <4>1, <4>2, <4>3
    <3> QED
      BY <3>1, <3>2, <3>3, <3>4 DEF ScanInv
  <2>3. CASE ScanReturn
    BY <2>3 DEF ScanReturn, NoScan, ScanInv
  <2>4. CASE Tick
    BY <2>4, ScanAside DEF TypeOK, Tick
  <2>5. ASSUME NEW p \in Procs, NEW k \in Keys, Get(p, k) \/ Delete(p, k)
        PROVE  ScanInv'
    BY <2>5, ScanAside DEF TypeOK, Get, Delete
  <2>6. ASSUME NEW p \in Procs, NEW k \in Keys, NEW ttl \in TTLs,
               Expire(p, k, ttl) \/ \E v \in Values : Set(p, k, v, ttl)
        PROVE  ScanInv'
    BY <2>6, ScanAside DEF TypeOK, Expire, Set
  <2>7. ASSUME NEW p \in Procs, GetUpgrade(p) \/ SetStore(p) \/ inc(p)
        PROVE  ScanInv'
    BY <2>7, ScanAside DEF TypeOK, GetUpgrade, SetStore, inc
  <2>8. CASE SweepTick \/ sampleAndExpire \/ SweeperStop \/ SweeperExit
    BY <2>8, ScanAside DEF TypeOK, SweepTick, sampleAndExpire, SweeperStop, SweeperExit
  <2>9. CASE UNCHANGED vars
    BY <2>9 DEF vars, scanVars, ScanInv, Live, Present
  <2> QED
    BY <2>1, <2>2, <2>3, <2>4, <2>5, <2>6, <2>7, <2>8, <2>9 DEF Next
<1>3. TypeOK /\ ScanInv => ForEachComplete
  BY StoreConstants DEF TypeOK, ScanInv, ForEachComplete
<1> QED
  BY <1>1, <1>2, <1>3, TypeCorrect, PTL DEF Spec

-----------------------------------------------------------------------------
\* The sets whose sizes are counted are finite.
LEMMA CountedFinite ==
  /\ IsFiniteSet(Present) /\ Cardinality(Present) \in Nat
  /\ \A c : IsFiniteSet(Counting(c)) /\ Cardinality(Counting(c)) \in Nat
<1>1. IsFiniteSet(Present) /\ \A c : IsFiniteSet(Counting(c))
  BY StoreFinite, FS_Subset DEF Present, Counting
<1> QED
  BY <1>1, FS_CardinalityType

\* Nothing RemovedOnce speaks of changes in a step of this kind.
LEMMA CountsAside ==
  ASSUME RemovedOnce, UNCHANGED stats, Present' = Present,
         Counting("sets")' = Counting("sets"), Counting("deletes")' = Counting("deletes")
  PROVE  RemovedOnce'
BY DEF RemovedOnce

\* No entry is counted out of the store twice by the calls and the sweeper racing for it.
THEOREM NoDoubleRemoval == Spec => []RemovedOnce
<1>1. Init => RemovedOnce
  <2> SUFFICES ASSUME Init PROVE RemovedOnce
    OBVIOUS
  <2>1. Present = {} /\ Counting("sets") = {} /\ Counting("deletes") = {}
    BY DEF Init, Present, Counting
  <2> QED
    BY <2>1, FS_EmptySet DEF Init, RemovedOnce, Counters
<1>2. TypeOK /\ RemovedOnce /\ [Next]_vars => RemovedOnce'
  <2> SUFFICES ASSUME TypeOK, RemovedOnce, [Next]_vars
               PROVE  RemovedOnce'
    OBVIOUS
  <2> USE StoreConstants
  <2>0. /\ stats["sets"] \in Nat /\ stats["deletes"] \in Nat /\ stats["expirations"] \in Nat
        /\ DOMAIN stats = Counters
    BY DEF TypeOK, Counters
  <2>1. ASSUME NEW p \in Procs, NEW k \in Keys, Get(p, k)
        PROVE  RemovedOnce'
    <3>1. pc' = [pc EXCEPT ![p] = pc'[p]] /\ pc[p] = "idle"
            /\ pc'[p] \in {"hits", "misses", "upgrade"}
      BY <2>1 DEF TypeOK, Get, Call, Goto
    <3>2. Counting("sets")' = Counting("sets") /\ Counting("deletes")' = Counting("deletes")
      BY <3>1 DEF TypeOK, Counting
    <3> QED
      BY <2>1, <3>2, CountsAside DEF Get, Present
  <2>2. ASSUME NEW p \in Procs, NEW k \in Keys, Delete(p, k)
        PROVE  RemovedOnce'
    <3>1. Present' = Present \ {k}
      BY <2>2 DEF TypeOK, Delete, Present
    <3>2. Counting("sets")' = Counting("sets")
      BY <2>2 DEF TypeOK, Delete, Call, Goto, Counting
    <3>3. Counting("deletes")' = IF k \in Present THEN Counting("deletes") \cup {p}
                                                  ELSE Counting("deletes")
      BY <2>2 DEF TypeOK, Delete, Call, Goto, Counting
    <3>4. p \notin Counting("deletes")
      BY <2>2 DEF Delete, Call, Counting
    <3>5. Cardinality(Present') = IF k \in Present THEN Cardinality(Present) - 1
                                                   ELSE Cardinality(Present)
      BY <3>1, CountedFinite, FS_RemoveElement
    <3>6. Cardinality(Counting("deletes")') = IF k \in Present
                                              THEN Cardinality(Counting("deletes")) + 1
                                              ELSE Cardinality(Counting("deletes"))
      BY <3>3, <3>4, CountedFinite, FS_AddElement
    <3>7. stats' = stats
      BY <2>2 DEF Delete
    <3> QED
      BY <2>0, <3>2, <3>5, <3>6, <3>7, CountedFinite DEF RemovedOnce
  <2>3. ASSUME NEW p \in Procs, NEW k \in Keys, NEW ttl \in TTLs, Expire(p, k, ttl)
        PROVE  RemovedOnce'
    <3>1. Present' = Present
      <4>1. ASSUME NEW j \in Live
            PROVE  [items[j] EXCEPT !.expiresAt = ExpiryFrom(now, ttl)] # NoEntry
        BY <4>1 DEF TypeOK, Live, Present, Entry, ExpiryFrom
      <4> QED
        BY <2>3, <4>1 DEF TypeOK, Expire, Present, Live
    <3> QED
      BY <2>3, <3>1, CountsAside DEF Expire, Counting
  <2>4. ASSUME NEW p \in Procs, NEW k \in Keys, NEW ttl \in TTLs, NEW v \in Values,
               Set(p, k, v, ttl)
        PROVE  RemovedOnce'
    <3>1. Counting("sets")' = Counting("sets") /\ Counting("deletes")' = Counting("deletes")
      BY <2>4 DEF TypeOK, Set, Call, Goto, Counting
    <3> QED
      BY <2>4, <3>1, CountsAside DEF Set, Present
  <2>5. ASSUME NEW p \in Procs, GetUpgrade(p)
        PROVE  RemovedOnce'
    <3>1. Counting("sets")' = Counting("sets") /\ Counting("deletes")' = Counting("deletes")
      BY <2>5 DEF TypeOK, GetUpgrade, Goto, Counting
    <3>2. CASE key[p] \in Present \ Live
      <4>1. Present' = Present \ {key[p]}
        BY <2>5, <3>2 DEF TypeOK, GetUpgrade, Present
      <4>2. Cardinality(Present') = Cardinality(Present) - 1
        BY <3>2, <4>1, CountedFinite, FS_RemoveElement
      <4>3. stats' = [stats EXCEPT !["expirations"] = @ + 1]
        BY <2>5, <3>2 DEF GetUpgrade
      <4> QED
        BY <2>0, <3>1, <4>2, <4>3, CountedFinite DEF RemovedOnce, Counters
    <3>3. CASE key[p] \notin Present \ Live
      BY <2>5, <3>1, <3>3, CountsAside DEF GetUpgrade, Present
    <3> QED
      BY <3>2, <3>3
  <2>6. ASSUME NEW p \in Procs, SetStore(p)
        PROVE  RemovedOnce'
    <3>1. key[p] \in Keys /\ entry[p] # NoEntry /\ p \notin Counting("sets")
      BY <2>6 DEF TypeOK, SetStore, Counting
    <3>2. Present' = Present \cup {key[p]}
      BY <2>6, <3>1 DEF TypeOK, SetStore, Present
    <3>3. Counting("sets")' = Counting("sets") \cup {p}
            /\ Counting("deletes")' = Counting("deletes")
      BY <2>6 DEF TypeOK, SetStore, Goto, Counting
    <3>4. Cardinality(Present') \in Nat /\ Cardinality(Present') <= Cardinality(Present) + 1
      <4>1. Cardinality(Present') = IF key[p] \in Present THEN Cardinality(Present)
                                                        ELSE Cardinality(Present) + 1
        BY <3>2, CountedFinite, FS_AddElement
      <4> QED
        BY <4>1, CountedFinite
    <3>5. Cardinality(Counting("sets")') = Cardinality(Counting("sets")) + 1
      BY <3>1, <3>3, CountedFinite, FS_AddElement
    <3>6. stats' = stats
      BY <2>6 DEF SetStore
    <3> QED
      BY <2>0, <3>3, <3>4, <3>5, <3>6, CountedFinite DEF RemovedOnce
  <2>7. ASSUME NEW p \in Procs, inc(p)
        PROVE  RemovedOnce'
    <3>1. pc[p] \in Counters /\ stats' = [stats EXCEPT ![pc[p]] = stats[pc[p]] + 1]
            /\ pc[p] # "expirations" /\ Present' = Present
      BY <2>7 DEF TypeOK, inc, Present, Places
    <3>2. \A c \in {"sets", "deletes"} : Counting(c)' = Counting(c) \ {p}
      BY <2>7 DEF TypeOK, inc, Goto, Counting
    <3>3. \A c \in {"sets", "deletes"} :
            Cardinality(Counting(c)') = IF pc[p] = c THEN Cardinality(Counting(c)) - 1
                                                     ELSE Cardinality(Counting(c))
      <4> TAKE c \in {"sets", "deletes"}
      <4>1. Cardinality(Counting(c) \ {p}) = IF p \in Counting(c) THEN Cardinality(Counting(c)) - 1
                                                                 ELSE Cardinality(Counting(c))
        BY CountedFinite, FS_RemoveElement
      <4>2. p \in Counting(c) <=> pc[p] = c
        BY DEF Counting
      <4> QED
        BY <3>2, <4>1, <4>2
    <3>4. \A c \in {"sets", "deletes"} : stats'[c] = IF pc[p] = c THEN stats[c] + 1 ELSE stats[c]
      BY <2>0, <3>1 DEF Counters
    <3>5. stats'["expirations"] = stats["expirations"]
      BY <2>0, <3>1 DEF Counters
    <3> QED
      BY <2>0, <3>1, <3>3, <3>4, <3>5, CountedFinite DEF RemovedOnce
  <2>8. CASE sampleAndExpire
    <3>1. PICK S \in Samples(shardIndex) :
            /\ items' = [k \in Keys |-> IF k \in SampleExpired(S) THEN NoEntry ELSE items[k]]
            /\ stats' = [stats EXCEPT !["expirations"] = @ + Cardinality(SampleExpired(S))]
      BY <2>8 DEF sampleAndExpire
    <3> DEFINE dead == SampleExpired(S)
    <3>2. dead \subseteq Present /\ Cardinality(dead) \in Nat
      BY SampleExpiredFinite
    <3>3. Present' = Present \ dead
      BY <3>1 DEF Present
    <3>4. Cardinality(Present') = Cardinality(Present) - Cardinality(dead)
      <4>1. Present \cap dead = dead
        BY <3>2
      <4> QED
        BY <3>3, <4>1, CountedFinite, FS_Difference
    <3>5. Counting("sets")' = Counting("sets") /\ Counting("deletes")' = Counting("deletes")
      BY <2>8 DEF sampleAndExpire, callVars, Counting
    <3> HIDE DEF dead
    <3>6. /\ stats'["expirations"] = stats["expirations"] + Cardinality(dead)
          /\ stats'["sets"] = stats["sets"] /\ stats'["deletes"] = stats["deletes"]
      BY <2>0, <3>1 DEF Counters, dead
    <3> QED
      BY <2>0, <3>2, <3>4, <3>5, <3>6, CountedFinite DEF RemovedOnce
  <2>9. ASSUME NEW kind \in Scans, ScanStart(kind)
        PROVE  RemovedOnce'
    BY <2>9, CountsAside DEF ScanStart, Present, Counting
  <2>10. CASE ScanShard \/ ScanReturn \/ SweepTick \/ SweeperStop \/ SweeperExit \/ Tick
    BY <2>10, CountsAside
    DEF ScanShard, ScanReturn, SweepTick, SweeperStop, SweeperExit, Tick, callVars, Present, Counting
  <2>11. CASE UNCHANGED vars
    BY <2>11, CountsAside DEF vars, callVars, Present, Counting
  <2> QED
    BY <2>1, <2>2, <2>3, <2>4, <2>5, <2>6, <2>7, <2>8, <2>9, <2>10, <2>11 DEF Next
<1> QED
  BY <1>1, <1>2, TypeCorrect, PTL DEF Spec
=============================================================================
