------------------------------- MODULE Store --------------------------------
(***************************************************************************)
(* The sharded in-memory store of one cache node (internal/store): the     *)
(* goroutines that serve requests, a goroutine that scans the shards and   *)
(* the TTL sweeper, interleaved at the granularity of the critical         *)
(* sections of the code.  A step is one section under the lock of a shard, *)
(* one update of the statistics, or one reading of the clock.              *)
(*                                                                         *)
(* Every access to a shard happens under its lock and no lock is held      *)
(* across two steps, so the locks themselves need no variables.  The clock *)
(* may move between any two steps.                                         *)
(***************************************************************************)
EXTENDS Integers, FiniteSets

CONSTANTS
  Keys, Values,
  Procs,             \* the goroutines that call the store
  TTLs,              \* the TTLs callers pass, in ticks; 0 = no expiry
  ShardCount,        \* the number of shards
  ShardOf,           \* fnv32a(key) & shardMask
  SamplesPerSweep,   \* samplesPerSweep
  NoEntry,           \* no entry in the map; also the answer of a Get that misses
  Scans,             \* the scans that run: a subset of {"ForEach", "Keys"}
  MaxTime,           \* bound: the clock stops here
  MaxCalls           \* bound: calls issued in a behaviour

ASSUME StoreConstants ==
  /\ TTLs \subseteq Nat
  /\ ShardCount \in Nat \ {0}
  /\ ShardOf \in [Keys -> 0..(ShardCount - 1)]
  /\ SamplesPerSweep \in Nat \ {0}
  /\ Scans \subseteq {"ForEach", "Keys"}
  /\ MaxTime \in Nat
  /\ MaxCalls \in Nat
  /\ NoEntry \notin Values \cup Keys
  /\ NoEntry \notin [value : Values, expiresAt : Nat]
  /\ NoEntry \notin [key : Keys, entry : [value : Values, expiresAt : Nat]]

ASSUME StoreFinite == IsFiniteSet(Keys) /\ IsFiniteSet(Procs)

VARIABLES
  items,     \* the maps of all shards: [Keys -> Entry \cup {NoEntry}]
  now,       \* the clock; 0 is the zero time.Time
  stats,     \* StoreStats
  pc,        \* where each goroutine is within its call
  key,       \* the key of a call that has to lock the shard (again), or NoEntry
  entry,     \* the entry a Set has stamped and not yet stored, or NoEntry
  out,       \* what the last Get of each goroutine returns
  calls,     \* calls issued so far
  scan,      \* the scan in progress
  steady,    \* auxiliary: the keys live ever since the scan began
  sweeper,   \* the sweeper's position in its loop
  shardIndex, \* the shard the sweeper looks at next
  stopCh     \* the sweeper's stop channel is closed

callVars == <<pc, key, entry, out, calls>>
scanVars == <<scan, steady>>
sweepVars == <<sweeper, shardIndex, stopCh>>
vars == <<items, now, stats, callVars, scanVars, sweepVars>>

Counters == {"hits", "misses", "sets", "deletes", "expirations"}

Entry == [value : Values, expiresAt : Nat]

IsExpired(e, t) == e.expiresAt # 0 /\ t > e.expiresAt

\* time.Now().Add(ttl), or the zero time when no TTL is asked for.
ExpiryFrom(t, ttl) == IF ttl > 0 THEN t + ttl ELSE 0

Present == {k \in Keys : items[k] # NoEntry}
Live == {k \in Present : ~IsExpired(items[k], now)}

NoScan == [on |-> FALSE, kind |-> "ForEach", at |-> 0, shard |-> 0, seen |-> {}]

Init ==
  /\ items = [k \in Keys |-> NoEntry]
  /\ now = 1
  /\ stats = [c \in Counters |-> 0]
  /\ pc = [p \in Procs |-> "idle"]
  /\ key = [p \in Procs |-> NoEntry]
  /\ entry = [p \in Procs |-> NoEntry]
  /\ out = [p \in Procs |-> NoEntry]
  /\ calls = 0
  /\ scan = NoScan
  /\ steady = {}
  /\ sweeper = "wait" /\ shardIndex = 0 /\ stopCh = FALSE

-----------------------------------------------------------------------------
(* Calls                                                                   *)

Call(p) ==
  /\ pc[p] = "idle" /\ calls < MaxCalls
  /\ calls' = calls + 1

Goto(p, l) == pc' = [pc EXCEPT ![p] = l]

\* The auxiliary record of the keys that never stopped being live in a scan.
Watch == steady' = IF scan'.on THEN (IF scan.on THEN steady ELSE Live') \cap Live' ELSE {}

(***************************************************************************)
(* The counters have a lock of their own: a call that has left the shard   *)
(* still has to count itself.  pc names the counter it is about to bump.   *)
(***************************************************************************)
inc(p) ==
  /\ pc[p] \in Counters
  /\ stats' = [stats EXCEPT ![pc[p]] = @ + 1]
  /\ Goto(p, "idle")
  /\ UNCHANGED <<items, now, key, entry, out, calls, scan, sweepVars>>
  /\ Watch

(***************************************************************************)
(* Get, under the read lock: a live value is copied; a missing key is a    *)
(* miss; an expired entry sends the goroutine for the write lock.          *)
(***************************************************************************)
Get(p, k) ==
  /\ Call(p)
  /\ out' = [out EXCEPT ![p] = IF k \in Live THEN items[k].value ELSE NoEntry]
  /\ Goto(p, IF k \in Live THEN "hits"
             ELSE IF k \in Present THEN "upgrade" ELSE "misses")
  /\ key' = [key EXCEPT ![p] = IF k \in Present \ Live THEN k ELSE NoEntry]
  /\ UNCHANGED <<items, now, stats, entry, scan, sweepVars>>
  /\ Watch

\* Mutant: the removal is counted whether or not the second look finds the entry.
GetUpgrade_CountsAnyway(p) ==
  /\ pc[p] = "upgrade"
  /\ items' = IF key[p] \in Present \ Live THEN [items EXCEPT ![key[p]] = NoEntry] ELSE items
  /\ stats' = [stats EXCEPT !["expirations"] = @ + 1]
  /\ Goto(p, "misses")
  /\ key' = [key EXCEPT ![p] = NoEntry]
  /\ UNCHANGED <<now, entry, out, calls, scan, sweepVars>>
  /\ Watch

(***************************************************************************)
(* Get, under the write lock: whatever entry is there by now is checked    *)
(* again and removed if it has expired.  The call reports a miss either    *)
(* way.                                                                    *)
(***************************************************************************)
GetUpgrade(p) ==
  /\ pc[p] = "upgrade"
  /\ IF key[p] \in Present \ Live
     THEN /\ items' = [items EXCEPT ![key[p]] = NoEntry]
          /\ stats' = [stats EXCEPT !["expirations"] = @ + 1]
     ELSE UNCHANGED <<items, stats>>
  /\ Goto(p, "misses")
  /\ key' = [key EXCEPT ![p] = NoEntry]
  /\ UNCHANGED <<now, entry, out, calls, scan, sweepVars>>
  /\ Watch

\* Set, before the lock: the entry is built and its expiry stamped.
Set(p, k, v, ttl) ==
  /\ Call(p)
  /\ entry' = [entry EXCEPT ![p] = [value |-> v, expiresAt |-> ExpiryFrom(now, ttl)]]
  /\ key' = [key EXCEPT ![p] = k]
  /\ Goto(p, "store")
  /\ UNCHANGED <<items, now, stats, out, scan, sweepVars>>
  /\ Watch

\* Set, under the lock: the entry replaces whatever the map holds.
SetStore(p) ==
  /\ pc[p] = "store"
  /\ items' = [items EXCEPT ![key[p]] = entry[p]]
  /\ key' = [key EXCEPT ![p] = NoEntry]
  /\ entry' = [entry EXCEPT ![p] = NoEntry]
  /\ Goto(p, "sets")
  /\ UNCHANGED <<now, stats, out, calls, scan, sweepVars>>
  /\ Watch

(***************************************************************************)
(* Delete, under the lock.  An entry that has expired and has not been     *)
(* reclaimed counts as existing.                                           *)
(***************************************************************************)
Delete(p, k) ==
  /\ Call(p)
  /\ items' = [items EXCEPT ![k] = NoEntry]
  /\ Goto(p, IF k \in Present THEN "deletes" ELSE "idle")
  /\ UNCHANGED <<now, stats, key, entry, out, scan, sweepVars>>
  /\ Watch

\* Mutant: an entry past its deadline that is still in the map gets a new one.
Expire_Revives(p, k, ttl) ==
  /\ Call(p)
  /\ items' = IF k \in Present
              THEN [items EXCEPT ![k].expiresAt = ExpiryFrom(now, ttl)]
              ELSE items
  /\ UNCHANGED <<now, stats, pc, key, entry, out, scan, sweepVars>>
  /\ Watch

\* Expire, under the lock: only a live entry gets the new deadline.
Expire(p, k, ttl) ==
  /\ Call(p)
  /\ items' = IF k \in Live
              THEN [items EXCEPT ![k].expiresAt = ExpiryFrom(now, ttl)]
              ELSE items
  /\ UNCHANGED <<now, stats, pc, key, entry, out, scan, sweepVars>>
  /\ Watch

-----------------------------------------------------------------------------
(* Scans: Keys, Len and ForEach visit the shards one after the other, with *)
(* the clock read once, before the first.                                  *)

ScanStart(kind) ==
  /\ ~scan.on /\ calls < MaxCalls
  /\ scan' = [on |-> TRUE, kind |-> kind, at |-> now, shard |-> 0, seen |-> {}]
  /\ calls' = calls + 1
  /\ UNCHANGED <<items, now, stats, pc, key, entry, out, sweepVars>>
  /\ Watch

\* ForEach skips what has expired; Keys and Len want the deadline still to come.
Listed(kind, e, t) ==
  IF kind = "ForEach" THEN ~IsExpired(e, t)
                      ELSE e.expiresAt = 0 \/ t < e.expiresAt

Visited(kind, at, shard) ==
  {k \in Present : ShardOf[k] = shard /\ Listed(kind, items[k], at)}

\* Mutant: the shard that is advanced to is the one that is read.
ScanShard_OffByOne ==
  /\ scan.on /\ scan.shard < ShardCount
  /\ scan' = [scan EXCEPT !.shard = @ + 1,
                          !.seen = @ \cup Visited(scan.kind, scan.at, scan.shard + 1)]
  /\ UNCHANGED <<items, now, stats, callVars, sweepVars>>
  /\ Watch

ScanShard ==
  /\ scan.on /\ scan.shard < ShardCount
  /\ scan' = [scan EXCEPT !.shard = @ + 1,
                          !.seen = @ \cup Visited(scan.kind, scan.at, scan.shard)]
  /\ UNCHANGED <<items, now, stats, callVars, sweepVars>>
  /\ Watch

ScanReturn ==
  /\ scan.on /\ scan.shard = ShardCount
  /\ scan' = NoScan
  /\ UNCHANGED <<items, now, stats, callVars, sweepVars>>
  /\ Watch

-----------------------------------------------------------------------------
(* The sweeper                                                             *)

SweepTick ==
  /\ sweeper = "wait"
  /\ sweeper' = "sweep"
  /\ UNCHANGED <<items, now, stats, callVars, scan, shardIndex, stopCh>>
  /\ Watch

\* The keys one pass looks at: a random choice of SamplesPerSweep of the shard.
Samples(s) ==
  LET inShard == {k \in Present : ShardOf[k] = s}
  IN  {S \in SUBSET inShard :
         Cardinality(S) = IF SamplesPerSweep > Cardinality(inShard)
                          THEN Cardinality(inShard) ELSE SamplesPerSweep}

\* A pass with expiredThreshold (a quarter) or more expired keys is repeated.
SweepAgain(dead, S) == S # {} /\ 4 * Cardinality(dead) >= Cardinality(S)

\* Mutant: the loop never moves to the next shard.
SweepNext_Stuck(i) == i

\* Mutant: the index is not wrapped around.
SweepNext_NoWrap(i) == i + 1

SweepNext(i) == (i + 1) % ShardCount

SampleExpired(S) == {k \in S : IsExpired(items[k], now)}

(***************************************************************************)
(* sampleAndExpire under the lock of the shard, and what sweepShard and    *)
(* run do with its result: go round again, or wait for the next tick and   *)
(* the next shard.                                                         *)
(***************************************************************************)
sampleAndExpire ==
  /\ sweeper = "sweep" \/ (sweeper = "again" /\ ~stopCh)
  /\ \E S \in Samples(shardIndex) :
       LET dead == SampleExpired(S)
       IN  /\ items' = [k \in Keys |-> IF k \in dead THEN NoEntry ELSE items[k]]
           /\ stats' = [stats EXCEPT !["expirations"] = @ + Cardinality(dead)]
           /\ IF SweepAgain(dead, S)
              THEN sweeper' = "again" /\ UNCHANGED shardIndex
              ELSE sweeper' = "wait" /\ shardIndex' = SweepNext(shardIndex)
  /\ UNCHANGED <<now, callVars, scan, stopCh>>
  /\ Watch

SweeperStop ==
  /\ ~stopCh
  /\ stopCh' = TRUE
  /\ UNCHANGED <<items, now, stats, callVars, scan, sweeper, shardIndex>>
  /\ Watch

\* The loop sees the closed channel: at the select of run, or between two passes.
SweeperExit ==
  /\ stopCh /\ sweeper \in {"wait", "again"}
  /\ sweeper' = "stopped"
  /\ UNCHANGED <<items, now, stats, callVars, scan, shardIndex, stopCh>>
  /\ Watch

Tick ==
  /\ now < MaxTime
  /\ now' = now + 1
  /\ UNCHANGED <<items, stats, callVars, scan, sweepVars>>
  /\ Watch

Next ==
  \/ \E p \in Procs :
       \/ \E k \in Keys :
            \/ Get(p, k)
            \/ Delete(p, k)
            \/ \E ttl \in TTLs : \/ Expire(p, k, ttl)
                                 \/ \E v \in Values : Set(p, k, v, ttl)
       \/ GetUpgrade(p)
       \/ SetStore(p)
       \/ inc(p)
  \/ \E kind \in Scans : ScanStart(kind)
  \/ ScanShard
  \/ ScanReturn
  \/ SweepTick
  \/ sampleAndExpire
  \/ SweeperStop
  \/ SweeperExit
  \/ Tick

Spec == Init /\ [][Next]_vars

(***************************************************************************)
(* The ticker of the sweeper never stops firing and sampling never blocks: *)
(* its goroutine is scheduled again and again.  No goroutine that calls    *)
(* the store is assumed to finish, and nothing is assumed of the clock.    *)
(***************************************************************************)
FairSpec == Spec /\ WF_vars(SweepTick) /\ WF_vars(sampleAndExpire)

-----------------------------------------------------------------------------
(* Properties                                                              *)

Places == {"idle", "upgrade", "store"} \cup (Counters \ {"expirations"})

\* The types of the store, of the calls in progress, of the scan and the sweeper.
TypeOK ==
  /\ items \in [Keys -> Entry \cup {NoEntry}]
  /\ now \in Nat \ {0}
  /\ stats \in [Counters -> Nat]
  /\ pc \in [Procs -> Places]
  /\ key \in [Procs -> Keys \cup {NoEntry}]
  /\ entry \in [Procs -> Entry \cup {NoEntry}]
  /\ \A p \in Procs : /\ pc[p] \in {"store", "upgrade"} => key[p] # NoEntry
                      /\ pc[p] = "store" => entry[p] # NoEntry
  /\ out \in [Procs -> Values \cup {NoEntry}]
  /\ calls \in Nat
  /\ scan \in [on : BOOLEAN, kind : {"ForEach", "Keys"}, at : Nat,
               shard : 0..ShardCount, seen : SUBSET Keys]
  /\ steady \in SUBSET Keys
  /\ sweeper \in {"wait", "sweep", "again", "stopped"}
  /\ shardIndex \in 0..(ShardCount - 1)
  /\ stopCh \in BOOLEAN

\* The refinement mapping: what a caller can see, and the Sets under way.
liveBar == [k \in Keys |-> IF k \in Live THEN items[k] ELSE NoEntry]
writesBar == [p \in Procs |-> IF pc[p] = "store" THEN [key |-> key[p], entry |-> entry[p]]
                                                 ELSE NoEntry]

Abs == INSTANCE TTLCache WITH live <- liveBar, writes <- writesBar, reply <- out

(***************************************************************************)
(* Lazy expiry in Get, the sweeper and Expire together keep the promise of *)
(* TTLCache: no call ever sees an entry past its deadline, and an entry    *)
(* whose deadline has not passed is never reclaimed, in particular not     *)
(* one that a Set put there while a Get was waiting for the write lock     *)
(* (the double check of store.go:155).                                     *)
(***************************************************************************)
ImplementsTTLCache == Abs!Spec

(***************************************************************************)
(* The counters never claim more removals than there were insertions: an   *)
(* entry leaves the map once, and Get, Delete and the sweeper, racing for  *)
(* it, count it once between them.                                         *)
(***************************************************************************)
Counting(c) == {p \in Procs : pc[p] = c}

RemovedOnce ==
  stats["deletes"] + Cardinality(Counting("deletes")) + stats["expirations"]
    + Cardinality(Present)
  <= stats["sets"] + Cardinality(Counting("sets"))

(***************************************************************************)
(* A complete ForEach, as re-replication after a failure relies on it, has *)
(* visited every key that stayed live while it went from shard to shard.   *)
(***************************************************************************)
ForEachComplete ==
  scan.on /\ scan.shard = ShardCount /\ scan.kind = "ForEach" => steady \subseteq scan.seen

(***************************************************************************)
(* While the sweeper runs, the memory of an expired entry is reclaimed or  *)
(* reused, whether or not anybody ever asks for its key again.             *)
(***************************************************************************)
ExpiredReclaimed ==
  \A k \in Keys : (k \in Present \ Live) ~> (k \notin Present \ Live \/ stopCh)
=============================================================================
