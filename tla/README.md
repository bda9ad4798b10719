# A TLA+ verification of the distributed cache

The repository is a cluster of in-memory cache nodes written in Go. This
directory models its parts in TLA+, checks them on small instances with TLC and
proves the most important properties for instances of any size with TLAPS.

## 1. The system

| Part | Source | State | Operations |
|---|---|---|---|
| Sharded store | `internal/store/store.go` | a map per shard, statistics | Get, Set, Delete, Expire, Keys, Len, ForEach |
| TTL sweeper | `internal/store/ttl.go` | current shard, stop channel | tick, sample and expire, stop |
| SWIM membership | `internal/cluster/membership.go`, `node.go` | registry, incarnation, suspicion timers, update queue, pending acks | start, join, ping, ping-req, ack, suspect, bury, refute, leave |
| Hash ring | `internal/hashing/ring.go` | members, sorted virtual nodes, loads | AddNode, RemoveNode, GetNode, GetNodes, IncrementLoad, DecrementLoad |
| Replication | `internal/cluster/replication.go` | peer connections, sequence counter | ReplicateWrite, ReplicateDelete, connect, failover, re-replication |
| gRPC server | `internal/server/grpc_server.go` | none of its own | Get, Set, Delete, Expire (proxied or local), Replicate, TransferKeys |
| Node wiring | `cmd/cachenode/main.go` | callbacks | membership event -> ring -> connections, re-replication |
| Fault injector | `internal/chaos` | failed flag, latency, partitioned peers | fail, slow, partition, recover |
| Hot keys | `internal/hotkey` | Count-Min Sketch, mitigated keys | record, decay, split, write to shards |
| Client and L1 cache | `client` | own ring, LRU list and map | Get, Set, Delete, invalidate |
| HTTP server, configuration, codec, tools | `internal/server/http_server.go`, `config`, `api/proto`, `cmd` | none | - |

**How they interact.** A client call enters at some node. The gRPC server asks
the ring (through the replication manager) who is primary, proxies the call or
serves it from the local store, and after a write on the primary hands it to the
replication manager, which starts one goroutine per secondary. Membership runs
beside this: each event is handled in a goroutine that changes the node's own
ring, whose callbacks open and close connections and start re-replication.

**What is hard about it.** Critical sections that are left and entered again
(lazy expiry); a clock that moves between two steps; datagrams that are lost,
late or out of order; processes that restart without memory of their
incarnation; rings that differ from node to node while calls are under way;
replicated writes without an order; crashes in the middle of a fan-out; status
written outside the mutex that guards the timers; event goroutines that overtake
each other; cached values whose key changes while they are on their way. The list, line by line, is under `hazards` in `PROJECT.json`.

**What should hold.** Store: the operations look atomic, entries are visible to
their deadline and no longer, nothing is removed or counted twice, scans miss
nothing, memory is reclaimed. Membership: only a node raises its incarnation,
records do not go back, nobody is talked out of believing in itself, suspicions
end, false reports are overridden. Ring: placement depends on the members
alone, changes move few keys, full nodes are passed over. Replication: calls
reach a node that serves them, replicas agree once nothing is under way,
failover restores them. Inside one detector: no timer is lost, no ack is waited
for in vain, ring and connections follow the registry. Hot keys: the sketch never
underestimates, a hot key is split and split once, shards follow the key. Client:
L1 evicts the least recently used, is stale for a bounded time, and does not hide
the client's own writes.

## 2. Modules

| Module | Content |
|---|---|
| `TTLCache` | abstract specification of the store: an atomic map with deadlines |
| `Store` | the store and the sweeper, one step per critical section; its refinement mapping to `TTLCache` |
| `StoreProofs` | theorems about `Store` |
| `Membership` | the gossip protocol between nodes, with fault injection, loss, crash and restart |
| `MembershipProofs` | theorems about `Membership` |
| `Ring` | one node's hash ring |
| `RingProofs` | theorems about `Ring` |
| `Replication` | the data path of all nodes: proxying, local writes, fan-out, failover; each node has its own ring and connections |
| `ReplicationProofs` | theorems about `Replication` |
| `FailureDetector` | the goroutines of one node's detector with one peer, at the granularity of critical sections, and the callbacks that keep ring and connections |
| `FailureDetectorProofs` | theorems about `FailureDetector` |
| `HotKeys` | the Count-Min Sketch, the mitigator and the handlers of one node that use them |
| `HotKeysProofs`, `ShardsProofs` | theorems about `HotKeys`; the second has the one about the shards, on top of the first |
| `L1Cache` | the client's LRU cache, one operator per method |
| `Client` | goroutines that use the client library with its L1 cache, against the service |
| `ClientProofs` | theorems about `Client` |
| `MCStore`, `MCMembership`, `MCRing`, `MCReplication`, `MCFailureDetector`, `MCHotKeys`, `MCClient` | instances for TLC |

`Replication` composes the ring (as an order of the nodes per key, which
`Ring`'s `LookupsIgnoreHistory` justifies), the stores (one value per key, as
`TTLCache` promises) and membership events (a dead node leaves every ring, a
started one comes onto it; `NeverDoubtsItself` is why a node is always on its
own ring). `HotKeys` uses the store as atomic operations, which the refinement in
`Store` justifies. `Client` uses the service as one copy of each key with the TTLs
of `TTLCache`; any answer may say that its key is hot.

### Store

`items` is the union of the shard maps; `pc`, `key`, `entry` and `out` are the
local variables of the goroutines that call the store. Every access to a shard
is under its lock and no lock is held across steps, so a step is a critical
section: `Get` is the read-locked part, `GetUpgrade` the write-locked part of a
Get that met an expired entry, `Set` stamps the expiry before the lock and
`SetStore` stores it, `inc` is the separate update of the statistics. `ScanStart`,
`ScanShard` and `ScanReturn` are Keys, Len and ForEach, which read the clock
once and lock shard after shard. `SweepTick`, `sampleAndExpire`, `SweeperStop` and
`SweeperExit` are the sweeper. `Tick` is the clock and may come between any two
steps. `steady` is auxiliary: the keys that never stopped being live since the
scan began.

Refinement: an entry of `TTLCache` is the store's entry while it is live
(`liveBar`), a write asked for is the entry a Set has stamped (`writesBar`).
Reclaiming, statistics, scans and the sweeper are stutters.

### Membership

`registry[n][j]` is what n has on record of j (status and incarnation),
`queue[n][j]` the update about j waiting to be piggybacked and how often it was
sent, `timers[n]` the suspicion timers, `net` the packets under way.
`Receive` is receiveLoop and handleMessage: the packet's updates are applied
(`MemberAfter`, `TimersAfter`, `IncarnationAfter`, `QueueAfter` are the branches of
applyUpdate and refute), then the handler of its kind answers (`Replies`).
`Ping`, `PingReq`, `markSuspect` and `markDead` are the ping loop and the timers. A
probe of a peer that cannot answer may fail at any time; a probe of one that can
fails at most `MaxSpurious` times. `Leave` and `Stopped` are the two halves of
Stop, around its 50 ms pause. `highest` is auxiliary: the highest incarnation a
node ever had, over its restarts.

A packet, a probe's outcome or a timer is one step here. What the goroutines of
one node may do to each other inside these steps is in `FailureDetector`. The queue is that of the code for up to ten nodes
(maxPiggybackUpdates).

### Ring

The ring is the code's sorted slice. `AddNode` appends a node's virtual nodes and
sorts (`SortedByHash`), `RemoveNode` filters (`Filtered`). `Bisect` and `search` are
the binary search, `Walk` the clockwise walk, `GetNodes` and `GetNode` the lookups;
`Distance` and `Clockwise` are the reference definition they are checked against.
Sorting is given by what it establishes: `InOrder` lists a set in the order of its
keys, which differ. Hashes are constants, pairwise different (a tie of 64-bit
hashes is left out).

### Replication

A call is a record with the node it is at, the nodes it has left (`via`) and a
stage; the stages are the points at which the handlers read the ring, the
connections or the store again: `Route` (IsPrimary or IsReplica, GetPrimary),
`Proxy` (GetPeerConn and the remote call), `Perform` (the store), `CheckPrimary`
and `Replicate` (ReplicateWrite, ReplicateDelete). A Replicate request first waits
in its goroutine, is sent if there is a connection (`Send`), and is handled or
fails, in any order. `AddNode`, `ConnectToPeer`, `RemoveNode`, `HandleNodeFailure`,
`reReplicate` and `RunJob` are the steps of the goroutines that membership events
start. Values have no TTL here; hot-key splitting is in `HotKeys` and the load
counters are in `Ring`. A second scan for a node that died twice takes over what
the first had left to visit.

One assumption comes from the code's constants, and of the properties only
`FailoverRestoresReplicas` rests on it: a crashed node is taken off a
ring only when its Replicate calls have ended, because their deadline (2 s) is
shorter than the suspicion timeout (3 s). A node suspected before it crashes
could be declared dead sooner; this case is not covered. A running node may be
taken for dead by any of its peers and be added again (`MaxFalseDeaths`); no node
takes itself off its ring.

### FailureDetector

`Membership` has many nodes and takes a handler as one step; this module has one
node, one peer, and a step for each critical section. `status` and `incarnation`
are the peer's record, `suspicionTimer` is the entry of suspicionTimers, `timer`
says which time.AfterFunc timers run or have fired and wait for `m.mu`.
`receiving` and `pinging` are the places of the two loops. applyUpdate is split
where the code is: `Revive` writes ALIVE without the mutex and
`CancelAfterRevival` cancels the timer under it; `Accuse` looks at the status
before the mutex, `markSuspectLocked` and `Bury` act under it and do not look
again; `Depart` (LEFT) takes no mutex at all. For the same reason markSuspect is
two steps. `PingDirect`, `PingIndirect` and `ProbeEnds` are the probe of the ping
loop and `handlePingReq`, `HelpEnds` the one made for another node; they share the
peer's entry in pendingAcks, and `handleAck` closes what is registered. `AddToRing`,
`ConnectToPeer`, `RemoveFromRing`, `HandleNodeFailure` are the goroutines that
handle events, counted by stage in `handlers`. `StopLoops` and `StopTimers` are
Stop. Updates, acks and requests may arrive at any time.

Two ghosts mark what the properties except: `revivalRaced` says that a revival
has cancelled the timer of a newer suspicion, `calm` that every event was handled
before the next was emitted and no timer fired in the middle of a revival.

### HotKeys

The sketch is a table of counters (`Increment`, `Decay`, `IsHot`). A handler is at
a place: Get reads the store and, if it finds the key, counts the access
(`RecordAccess`), estimates it (`Estimate`) and goes to the mitigator
(`CheckAndMitigate`), whose mutex it keeps while `applySplitting` writes shard after
shard. Set asks `IsMitigated` first, then writes the key (`SetStore`) and the shards
(`WriteToShards`). `Vanish` is Delete or the end of a TTL, `VanishShard` the end of a
shard's TTL, `Replicate` a write that came from the primary. The value a call
writes is its number. `frequency` is a ghost, the accesses of a key halved with
each decay; so is `untracked`, the keys written past the mitigator (`Replicate`) or
by writes that overlapped.

### L1Cache and Client

The methods of the L1 cache hold its mutex throughout, so `L1Cache` gives each as
an operator. In `Client` a call is what happens before the request leaves (`Get`,
`Set`, `Delete`), what the server does (`Serve`), and what is done with the answer
(`Return`, `ReturnHot`, `Fill`), or `Fail`. `WriteElsewhere` is another client, and
also an abandoned request of this one that the server carries out all the same.
Each write the server carries out has a version. `MaxPause` is how long a goroutine
may be held up between the return of Invoke and l1Cache.Set; the code has no such
limit, and the staleness bound contains it. Ghosts: `ended` (when a version ceased to
be the value), `written` (the latest acknowledged write), `overlapped` (keys of which
a Get and a write of this client were under way together), `recency` (the pairs of
keys of which the first was used after the second, against which the order of the
list is judged).

## 3. What TLC checks

| Run | Instance | Shows |
|---|---|---|
| `store` | 2 keys in 2 shards, 2 goroutines, ForEach and the sweeper, 3 calls, clock from 1 to 3, sample of 1 | types; removals are counted once (`RemovedOnce`); ForEach is complete (`ForEachComplete`); the store implements `TTLCache` (`ImplementsTTLCache`); expired entries are reclaimed (`ExpiredReclaimed`), liveness |
| `membership_gossip` | 3 nodes, 2 packets under way, 2 false suspicions | `NoInventedIncarnation`, `NeverDoubtsItself`, `SuspicionIsTimed` |
| `membership_churn` | 2 nodes, 2 packets under way; one each of fault, stop, start | the first two again, `RecordsOnlyAdvance`, and a node is taken in by the one it asks to join, unless it had left (`OnlyDepartureBarsJoin`) |
| `membership_refute` | 2 nodes, 2 packets under way, updates sent 3 times, 1 false suspicion, 2 losses | a false report is overridden for good (`FalseReportsOverridden`), liveness |
| `membership_spread` | 3 nodes | **violated**: `RefutationOverrides`, README.md:90 |
| `ring` | 4 nodes with 2 virtual nodes, 3 callers, 5 changes | `VNodesMatchNodes`, `LookupsIgnoreHistory`, `ReassignmentIsMinimal`, `RoutesAroundLoad` |
| `replication_routing` | 3 nodes, one joins, 1 false death, a call of any kind, 1 lost request | no proxied call runs in a circle (`NoForwardingLoop`) |
| `replication_failover` | 4 nodes, 2 replicas, 1 write, 2 crashes, no lost request | `FailoverRestoresReplicas` |
| `replication_order` | 2 nodes, 2 writes | **violated**: `ReplicatedInOrder`, replication.go:29 |
| `failure_detector` | 3 timers, incarnations to 1, 4 updates, 2 probes, 1 request to help | `NoTimerEscapes`, `SuspicionHasTimer`, `NoAbandonedAck`, `RingFollowsRegistry` |
| `hot_keys` | 2 keys that collide in one of 2 rows, 2 handlers, threshold 2, 2 shards, 4 calls | `EstimateBounded`, `NoHotKeyMissed`, `SplitOnce`, `ShardsAgree`; `OldHotKeysCool`, liveness |
| `client` | 3 keys, room for 2, 2 goroutines, TTLs, timeout and pause 1, clock to 2, 4 calls, 2 versions | `L1IsLRU`, `BoundedStaleness`, `ReadsOwnWrites` |

The violated properties are what a comment or document of the repository says;
each counterexample is described under `findings` in `PROJECT.json`.

**Bounds.** Two goroutines and three calls are what the races of the store need
(a Set, a Get that meets the expired entry, and a second Get or Set in between);
two shards are what a scan needs to be overtaken. The clock runs from 1 to 3, so
that an entry with TTL 1 can be stored, lapse and be replaced. The scan of the run
is ForEach; Keys and Len differ from it in the test of one entry only, and are
covered by the theorems. With two packets under
way a packet can overtake another. `MaxSends` is 3 in the code and in the runs
about refutation; the gossip and churn runs send an update once, to stay small.
Identical packets are told apart up to `MaxCopies`; where that is 1, a second
identical packet merges with the first, and as updates are then sent once this
concerns almost only packets without updates. The gossip and churn runs have no
`Lose`: to a safety property a lost packet is one that is never read, and a
second packet may be under way beside it. Four nodes with two replicas let a re-replication be
interrupted by a second crash. One key suffices in `Replication`: keys share only
the ring and a sequence counter that nobody reads. One call suffices for
`NoForwardingLoop`, since calls do not read each other's state on their way; the
price is that in this run an Expire meets no stored key. Three timers are one
running, one that has fired, and one that takes its place; four updates are
enough for a suspicion, a revival that it races, and an event that overtakes
another. In `HotKeys` two handlers can find a key hot at the same time, or split
it while it is written. In `Client` three keys in a list of two make an eviction
that depends on the order of use, and a clock to 2 lets an entry expire. The `Max...` constants other
than `MaxSends` bound the environment (calls, crashes, losses, faults, packets).
Since these run out, the runs are made without deadlock detection.

**What the passing results depend on.** These were tried and do *not* hold:

- `ExpiredReclaimed` with a sample smaller than the shard: the random choice may
  miss an expired key again and again. In the code that has probability 0.
- `FalseReportsOverridden` with three lost packets: an update goes out in three
  packets, so it may be lost altogether. It also fails with three nodes and no
  loss, which is `membership_spread`.
- `FailoverRestoresReplicas` with one Replicate request lost between running
  nodes (it is not retried), with two writes (they may arrive in either order,
  which is `replication_order`), with one false death (HandleNodeFailure closes the
  connection to a node that is back on the ring, and a write meanwhile is not sent
  to it), with one node started later (a write it takes while it is alone on its
  ring is copied to nobody), and without the timing assumption of
  `RemoveNode` (section 2): a request of the crashed primary that reaches
  the new primary after its scan has passed the key is stored there and never
  copied to the new secondary.
- `OnlyDepartureBarsJoin` without the exception of a peer on record as LEFT.
- `SuspicionHasTimer` without `revivalRaced`: applyUpdate writes ALIVE, the ping
  loop suspects the peer anew and starts a timer, and applyUpdate then cancels
  that one.
- `RingFollowsRegistry` without `calm`: the goroutines of two events run in either
  order, and the ring can lack a live node or keep a dead one, with or without
  a connection, until the next event.
- `ShardsAgree` without `untracked`: two writes that overlap may reach key and
  shards in different orders, and Replicate writes the key alone.
- `ReadsOwnWrites` without `overlapped`: a Get that read the value before the
  write fills L1 after the write has dropped the key.

**Where code and documents differ, beyond the two violated runs.** A node that
left and comes back with a lower incarnation is not taken in (membership.go:719;
the comment at :437 says a join adds the sender), which is the exception in
`OnlyDepartureBarsJoin`. TransferKeys is called by nobody, so a joining node is not
given its keys. A helper can never relay an ack, because it waits for it inside the
receive loop that would have to read it (membership.go:424; `HelpEnds` has no
such branch). The split writes shards without a TTL (mitigator.go:118 says
"Inherit original TTL behavior."), the server never fills in TtlMs
(client.go:148 says "Use remaining TTL"), and GetShardedKey is called by nobody, so
that shards are written and never read.

**Fairness.** `Store`: the sweeper's ticker fires and sampling is taken up again;
nothing is assumed of callers or of the clock. `Membership`: the ping loop ticks
for ever and picks its target at random, so a candidate that stays one is pinged
again and again (strong fairness of `Ping`); receive loops read what has arrived
(weak fairness, also for packets that carry updates); timers fire. Probes may
fail or not. `HotKeys`: the decay ticker ticks until Stop (weak fairness of
`Decay`), and the runtime runs a handler that can proceed (weak fairness of
`HandlerStep`); nothing is assumed of requests.

## 4. What is proved

All theorems hold for any sets of nodes, clients, handlers and timers, any finite
sets of keys and goroutines of the store, any sample size, sketch, threshold and
capacity, and any bounds, under the named assumptions (`StoreConstants`,
`StoreFinite`, `MembershipConstants`, `ReplicationConstants`, `DetectorAssumption`,
`HotKeysAssumption`, `L1Assumption`, `ClientAssumption`, `RingConstants`) that TLC
evaluates on every instance. One theorem, `FailoverIsComplete`, has a hypothesis of
its own, `OneWrite`.

- `StoreProofs`: `TypeCorrect`; `StoreImplementsTTLCache`, step by step, each
  action of the store being an action of the map or a stutter, with the types
  and the link between a goroutine's place and the entry it carries as
  invariant; `ForEachVisitsAll`, from the invariant that the steady keys of the
  shards already visited have been seen; `NoDoubleRemoval`, from the balance
  between entries stored, present and counted as removed.
- `MembershipProofs`: `TypeCorrect`; `IncarnationsAreTheirOwners`
  (`NoInventedIncarnation` is inductive once queue, packets and registries are
  taken together, which is why it mentions all three); `NoSelfDoubt`;
  `EverySuspicionTimed`; `RecordsAdvance`, an action property that follows from
  the types and applyUpdate's comparison; `JoinsAreAdmitted`, an action property
  that needs the invariant `JoinsAreFresh`: a join under way has its sender on
  record as alive with incarnation 0, so what the receiver has on
  record afterwards depends only on what it had before.
- `RingProofs`: `SliceMatchesMembers`, from the invariant `RingInv` (the members are
  a finite set of nodes, the slice a sequence of virtual nodes, and the property
  itself) and from what sorting and filtering do to a slice; `LookupsDependOnMembers`,
  `RequestsPassFullNodes` and `MembershipChangesMoveLittle`, from the same. The
  argument about lookups has four parts: the bisection finds the first hash that
  is not below the target; the walk from there meets the virtual nodes in the
  order of their clockwise distance, once around; collecting distinct nodes along
  it lists each node where its nearest virtual node is met; hence `GetNodes` is a
  prefix of `Clockwise`. The last theorem compares the ranks of a node among two
  sets of members that differ by the node that came or went.
- `ReplicationProofs`: `TypeCorrect`; `ForwardingNeverLoops`. The property is not
  inductive. The invariant `Descends` says that a node is on its own ring and
  that every node a call has left is farther from the key than the node it is
  at. A node proxies to the first node on its own ring, which is nearer than
  itself because it is on that ring too; hence rings may differ in any way.
  `FailoverIsComplete` is `FailoverRestoresReplicas` for any nodes, placement,
  replica count and number of crashes, under `OneWrite`: one call, no request
  lost, no false death, no later start. These are the conditions of the run, and
  without any one of them the property fails (section 3). The property says something only of
  a cluster at rest. `FailoverInv` says it of every state: a node that takes itself
  for the primary of a key it holds has the key on, or on its way to, every
  secondary that runs, or has work left that will send it (`DutyInv`: a write not
  yet replicated, a dead node not yet handled, a scan that has still to visit the
  key, a job). To be inductive this needs three more facts: running nodes are on
  each other's rings and connected (`NoChurn`); whatever replicates does so for
  the primary, so that a node that receives a key is farther from it than the
  sender, which is still on its ring (`PrimaryInv`, where the timing assumption of
  `RemoveNode` enters); and there is one value (`ValueInv`). TLC has checked
  `FailoverInv` on the instance of `replication_failover`.
- `FailureDetectorProofs`: `DetectorTyped`, `TimersStayOnRecord`, `SuspicionsEnd`,
  `AcksAreAwaited`, `RingSettles`, from one invariant (`DetectorInv`): the types, a
  running timer is the one on record, a registered channel belongs to a goroutine
  that waits, and, while `calm`, at most one event goroutine is under way and its
  stage determines what ring and connection are. The last part is what
  `RingFollowsRegistry`, about the end of an event only, needs to be inductive.
- `HotKeysProofs`: `HotKeysTyped`, `SketchBounds`, `HotKeysFound`, `KeysSplitOnce`,
  from `HotInv`, which adds to the properties that the handler that splits holds
  the mutex, alone, and that the key it splits is not on record yet.
- `ShardsProofs`: `ShardsFollow`. The invariant `ShardInv` says of each tracked key
  that at most one handler writes or splits it, and what the key and each shard
  hold depending on how far that handler has come.
- `ClientProofs`: `ClientTyped`; `StalenessIsBounded`, from what a call under way has
  read and when, an answer on its way being no older than its request;
  `ClientReadsItsWrites`, from the same for the client's own writes. `ClientInv`
  joins both. `L1EvictsLeastRecent`: `LRUInv` says that the list is in the order of
  `recency`, lists exactly the keys cached and is within the capacity; one lemma per
  method of the cache (`SetLRU`, `GetLRU`, `DeleteLRU`) says what it does to that.

**Recursive functions.** The library's induction theorems cannot be applied here
(they take an operator as a parameter). What `Bisect` and the walk compute is proved
by a least counterexample instead: `NonEmptyHasLeast`, from the well-foundedness of
the natural numbers, gives every non-empty set of numbers a least member, and the
set of arguments at which a function goes wrong has none.

**Only model-checked.** The liveness properties `ExpiredReclaimed`,
`FalseReportsOverridden` and `OldHotKeysCool`: fairness and ENABLED are outside the
prover's reach. Every other property of a passing run has a theorem. The types of
`Membership`, `Replication`, `FailureDetector`, `HotKeys` and `Client` are proved and
not listed in the runs.

## 5. Not modelled

- The limit of ten updates in a packet: it takes more than ten nodes to reach.
- TTLs in `Replication`: a replicated write carries the request's TTL, a
  re-replicated one what remains of it in whole milliseconds. The store's own TTLs are in `Store`.
- The replication manager's event channel, Close and DisconnectPeer: shutdown,
  where no property of this project has anything to say.
- Injected latency and the gRPC interceptors: a slow call is a late step here, and
  steps may be late anyway.
- Reset of the sketch: called by nobody. Overflow of 64-bit counters.
- Cancellation of the callers' contexts, other than as a call that fails.
- HTTP endpoints (read-only), configuration and codec (no state), command-line
  tools, hash functions (constants here), logging.
