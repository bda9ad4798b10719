------------------------------ MODULE HotKeys ------------------------------
(***************************************************************************)
(* The hot-key path of one node: the Count-Min Sketch and the detector     *)
(* (internal/hotkey/detector.go), the mitigator that splits hot keys       *)
(* (internal/hotkey/mitigator.go), and the gRPC handlers that use them     *)
(* (internal/server/grpc_server.go) once a request is served locally       *)
(* (module Replication has the routing and the replication).               *)
(*                                                                         *)
(* Each handler runs in a goroutine of its own; a step is one critical     *)
(* section: one operation of the store (atomic, as module Store shows      *)
(* against TTLCache), one of the sketch, or one under the mitigator's      *)
(* mutex, which is held while a key is split.                              *)
(***************************************************************************)
EXTENDS Integers, FiniteSets

CONSTANTS
    Keys,
    Handlers,      \* gRPC handler goroutines (bound: concurrent requests)
    Rows,          \* depth of the sketch
    Columns,       \* width of the sketch
    hash,          \* [Rows -> [Keys -> Columns]]: CountMinSketch.hash modulo the width
    HotThreshold,  \* hotThreshold: 100 in main
    ShardCount,    \* shardCount: 4 in main
    None,          \* no entry in the store; nobody holds the mutex
    MaxCalls       \* bound: requests that reach this node

ASSUME HotKeysAssumption ==
    /\ hash \in [Rows -> [Keys -> Columns]]
    /\ HotThreshold \in Nat \ {0} /\ ShardCount \in Nat /\ MaxCalls \in Nat
    /\ Rows # {}
    /\ None \notin Handlers

Shards == 0 .. ShardCount - 1

VARIABLES
    table,           \* row -> column -> counter
    total,           \* increments, decayed like the counters
    stopped,         \* Detector.Stop has ended the decay loop
    original,        \* key -> the store's entry under the key
    copy,            \* key -> shard -> the store's entry under ShardKeyName(key, shard)
    lasting,         \* key -> the shards whose entry was written without a TTL by the split
    mitigatedKeys,   \* keys that are split
    mitigationCount,
    mu,              \* the handler that splits a key and holds Mitigator.mu, or None
    handler,         \* what each handler goroutine is doing
    calls,           \* requests so far; also numbers the values written
    frequency,       \* ghost: accesses of each key, halved whenever the sketch decays
    untracked        \* ghost: keys written past the mitigator or by writes that overlapped

sketch == <<table, total, stopped>>
store == <<original, copy, lasting>>
mitigation == <<mitigatedKeys, mitigationCount, mu>>
ghosts == <<frequency, untracked>>
vars == <<sketch, store, mitigation, handler, calls, ghosts>>

Values == 1 .. MaxCalls
Idle == [at |-> "idle"]
Places == {"record", "estimate", "mitigate", "split", "check", "write", "shards"}
Busy == [at : Places, key : Keys, value : Values, shard : 0 .. ShardCount]

TypeOK ==
    /\ table \in [Rows -> [Columns -> Nat]]
    /\ total \in Nat
    /\ stopped \in BOOLEAN
    /\ original \in [Keys -> Values \cup {None}]
    /\ copy \in [Keys -> [Shards -> Values \cup {None}]]
    /\ lasting \in [Keys -> SUBSET Shards]
    /\ mitigatedKeys \subseteq Keys
    /\ mitigationCount \in Nat
    /\ mu \in Handlers \cup {None}
    /\ handler \in [Handlers -> Busy \cup {Idle}]
    /\ calls \in 0 .. MaxCalls
    /\ frequency \in [Keys -> Nat]
    /\ untracked \subseteq Keys

Init ==
    /\ table = [r \in Rows |-> [c \in Columns |-> 0]] /\ total = 0
    /\ stopped = FALSE
    /\ original = [k \in Keys |-> None]
    /\ copy = [k \in Keys |-> [i \in Shards |-> None]]
    /\ lasting = [k \in Keys |-> {}]
    /\ mitigatedKeys = {} /\ mitigationCount = 0 /\ mu = None
    /\ handler = [h \in Handlers |-> Idle]
    /\ calls = 0
    /\ frequency = [k \in Keys |-> 0]
    /\ untracked = {}

(***************************************************************************)
(* The sketch                                                              *)
(***************************************************************************)

\* The counters a key is counted in; Estimate is the least of them.
Counters(k) == {table[r][hash[r][k]] : r \in Rows}

\* Mutant: a key is hot once it is past the threshold.
IsHot_Past(k) == \A n \in Counters(k) : n > HotThreshold

\* Estimate(key) >= hotThreshold.
IsHot(k) == \A n \in Counters(k) : n >= HotThreshold

\* Mutant: the first row alone is counted.
Increment_OneRow(k) ==
    /\ \E r \in Rows : table' = [table EXCEPT ![r][hash[r][k]] = @ + 1]
    /\ total' = total + 1
    /\ frequency' = [frequency EXCEPT ![k] = @ + 1]

Increment(k) ==
    /\ table' = [r \in Rows |-> [table[r] EXCEPT ![hash[r][k]] = @ + 1]]
    /\ total' = total + 1
    /\ frequency' = [frequency EXCEPT ![k] = @ + 1]

\* Mutant: the tick halves copies and writes nothing back.
Decay_Copies ==
    /\ ~stopped
    /\ frequency' = [k \in Keys |-> frequency[k] \div 2]
    /\ UNCHANGED <<table, total, stopped, store, mitigation, handler, calls, untracked>>

\* The decay loop: the ticker, until stopCh is closed.
Decay ==
    /\ ~stopped
    /\ table' = [r \in Rows |-> [c \in Columns |-> table[r][c] \div 2]]
    /\ total' = total \div 2
    /\ frequency' = [k \in Keys |-> frequency[k] \div 2]
    /\ UNCHANGED <<stopped, store, mitigation, handler, calls, untracked>>

Stop ==
    /\ ~stopped
    /\ stopped' = TRUE
    /\ UNCHANGED <<table, total, store, mitigation, handler, calls, ghosts>>

(***************************************************************************)
(* Handlers                                                                *)
(***************************************************************************)

Writing(h, k) == handler[h].at \in {"split", "check", "write", "shards"} /\ handler[h].key = k

\* Another handler is writing the key or splitting it.
Overlaps(h, k) == \E g \in Handlers \ {h} : Writing(g, k)

Arrives(h) ==
    /\ handler[h].at = "idle" /\ calls < MaxCalls
    /\ calls' = calls + 1

Goto(h, place) == handler' = [handler EXCEPT ![h].at = place]
Return(h) == handler' = [handler EXCEPT ![h] = Idle]

\* Get: the store first; an access is recorded only if the key was found.
Get(h, k) ==
    /\ Arrives(h)
    /\ handler' = IF original[k] = None
                  THEN handler
                  ELSE [handler EXCEPT ![h] =
                          [at |-> "record", key |-> k, value |-> calls + 1, shard |-> 0]]
    /\ UNCHANGED <<sketch, store, mitigation, ghosts>>

\* RecordAccess takes the sketch's lock twice: to count ...
RecordAccess(h) ==
    /\ handler[h].at = "record"
    /\ Increment(handler[h].key)
    /\ Goto(h, "estimate")
    /\ UNCHANGED <<stopped, store, mitigation, calls, untracked>>

\* ... and to estimate.
Estimate(h) ==
    /\ handler[h].at = "estimate"
    /\ IF IsHot(handler[h].key) THEN Goto(h, "mitigate") ELSE Return(h)
    /\ UNCHANGED <<sketch, store, mitigation, calls, ghosts>>

Mitigated(k) == mitigatedKeys \cup {k}

\* Mutant: the key is not looked up again once the mutex is held.
AlreadyMitigated_Never(k) == FALSE

AlreadyMitigated(k) == k \in mitigatedKeys

\* CheckAndMitigate takes the mutex.  A key that is split already needs nothing;
\* one whose value is gone by now is only put on record; the value of any other
\* is read and, still under the mutex, written to the shards.
CheckAndMitigate(h) ==
    LET k == handler[h].key IN
    /\ handler[h].at = "mitigate" /\ mu = None
    /\ \/ /\ AlreadyMitigated(k)
          /\ Return(h)
          /\ UNCHANGED <<mitigation, untracked>>
       \/ /\ ~AlreadyMitigated(k) /\ original[k] = None
          /\ mitigatedKeys' = Mitigated(k)
          /\ mitigationCount' = mitigationCount + 1
          /\ Return(h)
          /\ UNCHANGED <<mu, untracked>>
       \/ /\ ~AlreadyMitigated(k) /\ original[k] # None
          /\ mu' = h
          /\ handler' = [handler EXCEPT ![h] =
                           [at |-> "split", key |-> k, value |-> original[k], shard |-> 0]]
          /\ untracked' = IF Overlaps(h, k) THEN untracked \cup {k} ELSE untracked
          /\ UNCHANGED <<mitigatedKeys, mitigationCount>>
    /\ UNCHANGED <<sketch, store, calls, frequency>>

\* applySplitting writes one shard after the other; after the last the key is
\* put on record and the mutex released.
applySplitting(h) ==
    LET k == handler[h].key
        i == handler[h].shard
    IN
    /\ handler[h].at = "split"
    /\ \/ /\ i < ShardCount
          /\ copy' = [copy EXCEPT ![k][i] = handler[h].value]
          /\ lasting' = [lasting EXCEPT ![k] = @ \cup {i}]
          /\ handler' = [handler EXCEPT ![h].shard = i + 1]
          /\ UNCHANGED mitigation
       \/ /\ i >= ShardCount
          /\ mitigatedKeys' = mitigatedKeys \cup {k}
          /\ mitigationCount' = mitigationCount + 1
          /\ mu' = None
          /\ Return(h)
          /\ UNCHANGED <<copy, lasting>>
    /\ UNCHANGED <<sketch, original, calls, ghosts>>

\* Set: the request arrives ...
Set(h, k) ==
    /\ Arrives(h)
    /\ handler' = [handler EXCEPT ![h] =
                     [at |-> "check", key |-> k, value |-> calls + 1, shard |-> 0]]
    /\ untracked' = IF Overlaps(h, k) THEN untracked \cup {k} ELSE untracked
    /\ UNCHANGED <<sketch, store, mitigation, frequency>>

\* Mutant: the shards of a split key are not written.
IsMitigated_Never(h) ==
    /\ handler[h].at = "check" /\ mu = None
    /\ handler' = [handler EXCEPT ![h] = [@ EXCEPT !.at = "write", !.shard = ShardCount]]
    /\ UNCHANGED <<sketch, store, mitigation, calls, ghosts>>

\* ... IsMitigated decides, once the mutex is free, whether shards are written
\* (WriteToShards asks again: a key on record stays on record) ...
IsMitigated(h) ==
    /\ handler[h].at = "check" /\ mu = None
    /\ LET first == IF handler[h].key \in mitigatedKeys THEN 0 ELSE ShardCount
       IN  handler' = [handler EXCEPT ![h] = [@ EXCEPT !.at = "write", !.shard = first]]
    /\ UNCHANGED <<sketch, store, mitigation, calls, ghosts>>

\* ... the key itself is written ...
SetStore(h) ==
    /\ handler[h].at = "write"
    /\ original' = [original EXCEPT ![handler[h].key] = handler[h].value]
    /\ Goto(h, "shards")
    /\ UNCHANGED <<sketch, copy, lasting, mitigation, calls, ghosts>>

\* ... and then each shard.
WriteToShards(h) ==
    LET i == handler[h].shard IN
    /\ handler[h].at = "shards"
    /\ \/ /\ i < ShardCount
          /\ copy' = [copy EXCEPT ![handler[h].key][i] = handler[h].value]
          /\ lasting' = [lasting EXCEPT ![handler[h].key] = @ \ {i}]
          /\ handler' = [handler EXCEPT ![h].shard = i + 1]
       \/ /\ i >= ShardCount
          /\ Return(h)
          /\ UNCHANGED <<copy, lasting>>
    /\ UNCHANGED <<sketch, original, mitigation, calls, ghosts>>

\* Delete, or the end of the entry's TTL: the shards stay.  (Expire changes the
\* TTL alone, of the key and not of its shards.)
Vanish(k) ==
    /\ original[k] # None
    /\ original' = [original EXCEPT ![k] = None]
    /\ UNCHANGED <<sketch, copy, lasting, mitigation, handler, calls, ghosts>>

\* The TTL of a shard is over: one that WriteToShards gave it.  The split writes
\* the shards without a TTL.
VanishShard(k, i) ==
    /\ copy[k][i] # None /\ i \notin lasting[k]
    /\ copy' = [copy EXCEPT ![k][i] = None]
    /\ UNCHANGED <<sketch, original, lasting, mitigation, handler, calls, ghosts>>

\* Replicate writes what the primary sent, whether or not the key is split here.
Replicate(k) ==
    /\ calls < MaxCalls
    /\ calls' = calls + 1
    /\ original' = [original EXCEPT ![k] = calls + 1]
    /\ untracked' = untracked \cup {k}
    /\ UNCHANGED <<sketch, copy, lasting, mitigation, handler, frequency>>

HandlerStep(h) ==
    \/ RecordAccess(h) \/ Estimate(h) \/ CheckAndMitigate(h) \/ applySplitting(h)
    \/ IsMitigated(h) \/ SetStore(h) \/ WriteToShards(h)

Next ==
    \/ \E h \in Handlers : HandlerStep(h) \/ \E k \in Keys : Get(h, k) \/ Set(h, k)
    \/ \E k \in Keys : Vanish(k) \/ Replicate(k) \/ \E i \in Shards : VanishShard(k, i)
    \/ Decay \/ Stop

Spec == Init /\ [][Next]_vars

\* The runtime runs every goroutine that can proceed; the decay loop's ticker
\* keeps ticking until Stop.
Fairness ==
    /\ WF_vars(Decay)
    /\ \A h \in Handlers : WF_vars(HandlerStep(h))

FairSpec == Spec /\ Fairness

(***************************************************************************)
(* Properties                                                              *)
(***************************************************************************)

\* The sketch never underestimates a key and never counts more than there was:
\* in every row the counter of a key lies between the key's own accesses,
\* halved as often as the sketch decayed, and the accesses of all keys.
EstimateBounded ==
    \A k \in Keys : \A n \in Counters(k) : frequency[k] <= n /\ n <= total

\* No hot key is overlooked: a key whose accesses alone reach the threshold has
\* been split, unless a handler of one of those accesses is still on its way,
\* however handlers and decays fall between the counting and the estimating.
NoHotKeyMissed ==
    \A k \in Keys :
        frequency[k] >= HotThreshold =>
            \/ k \in mitigatedKeys
            \/ \E h \in Handlers :
                  handler[h].at \in {"estimate", "mitigate", "split"} /\ handler[h].key = k

\* A key is split once: handlers that find it hot at the same time do not both
\* write its shards or count it.
SplitOnce == mitigationCount = Cardinality(mitigatedKeys)

\* As long as the writes of a split key come through Set and one after the other,
\* no shard holds another value than the key: the copies made when it is split
\* and those of later writes never mix.
ShardsAgree ==
    \A k \in Keys \ untracked : \A i \in Shards :
        /\ original[k] # None /\ copy[k][i] # None
        /\ \A h \in Handlers : ~Writing(h, k)
        => copy[k][i] = original[k]

\* Old hot keys cool down: once no more accesses come (there are MaxCalls at
\* most), decay takes every key below the threshold, unless Stop came first.
OldHotKeysCool == \A k \in Keys : <>[](IsHot(k) => stopped)
=============================================================================
