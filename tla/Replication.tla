---------------------------- MODULE Replication ----------------------------
(***************************************************************************)
(* The data path between cache nodes: a client request enters at any node, *)
(* is proxied towards the primary (internal/server/grpc_server.go), is     *)
(* written locally and fanned out to the secondaries by one goroutine each *)
(* (internal/cluster/replication.go), while membership events change every *)
(* node's own hash ring and peer connections (cmd/cachenode/main.go).      *)
(*                                                                         *)
(* Each node has its own ring, so two nodes may disagree about the primary *)
(* of a key.  What the ring computes is module Ring's subject; here a key  *)
(* orders all nodes clockwise (Pos) and a ring is the set of its members.  *)
(* Values carry no TTL here and hot-key splitting is off.                  *)
(***************************************************************************)
EXTENDS Integers, FiniteSets

CONSTANTS
  Nodes,        \* cache nodes
  Keys,         \* keys
  Clients,      \* concurrent client calls
  Pos,          \* Pos[k][n]: clockwise distance of n's first vnode from k
  ReplicaCount, \* replicas of a key, the primary included
  Founders,     \* the nodes running, and known to each other, at the start
  Ops,          \* the client operations that are issued
  MaxCalls,     \* bound: client calls issued
  MaxCrashes,   \* bound: node crashes
  MaxStarts,    \* bound: nodes started later
  MaxLosses,    \* bound: Replicate calls lost between running nodes
  MaxFalseDeaths \* bound: running nodes some node takes for dead

ASSUME ReplicationConstants ==
  /\ Pos \in [Keys -> [Nodes -> Nat]]
  /\ \A k \in Keys : \A m, n \in Nodes : Pos[k][m] = Pos[k][n] => m = n
  /\ ReplicaCount \in Nat \ {0}
  /\ Founders \subseteq Nodes
  /\ Ops \subseteq {"get", "set", "delete", "expire"}
  /\ {MaxCalls, MaxCrashes, MaxStarts, MaxLosses, MaxFalseDeaths} \subseteq Nat

VARIABLES
  up,       \* the running processes
  ring,     \* ring[n]: members of n's hash ring
  conns,    \* conns[n]: peers n has a connection to (peerConns)
  dials,    \* dials[n][j]: ConnectToPeer calls under way
  dead,     \* dead[n]: removed nodes whose connection is still to be closed
  scans,    \* scans[n][x]: keys the ForEach for dead node x has still to visit
  jobs,     \* ReplicateWrite calls of those scans, about to read the ring
  store,    \* store[n][k]: the value held, or Absent
  sequence, \* sequence[n]: last sequence number n assigned
  calls,    \* calls[c]: the client call under way, or Idle
  sends,    \* Replicate requests: waiting in a goroutine, or sent
  issued, crashes, starts, losses, falseDeaths

events == <<ring, conns, dials, dead, scans>>
faults == <<crashes, starts, losses, falseDeaths>>
vars == <<up, events, jobs, store, sequence, calls, sends,
          issued, faults>>

Absent == 0

Values == 0 .. MaxCalls

Idle == [op |-> "none"]

Call ==
  [op : Ops, key : Keys, val : Values, at : Nodes, to : Nodes, via : SUBSET Nodes,
   stage : {"route", "proxy", "local", "written", "primary"}]

Job == [node : Nodes, key : Keys, val : Values]

Request ==
  [from : Nodes, to : Nodes, key : Keys, val : Values, seq : Nat, sent : BOOLEAN]

(***************************************************************************)
(* Placement, as the ring answers it: GetNodes(key, 1) and                 *)
(* GetNodes(key, replicaCount) over the members of one ring.               *)
(***************************************************************************)
First(members, k, n) ==
  /\ n \in members
  /\ \A m \in members : Pos[k][n] <= Pos[k][m]

GetNodes(members, k) ==
  {n \in members : Cardinality({m \in members : Pos[k][m] < Pos[k][n]}) < ReplicaCount}

IsPrimary(n, k) == First(ring[n], k, n)

IsReplica(n, k) == n \in GetNodes(ring[n], k)

getSecondaries(n, k) == GetNodes(ring[n], k) \ {n}

----------------------------------------------------------------------------

Init ==
  /\ up = Founders
  /\ ring = [n \in Nodes |-> IF n \in Founders THEN Founders ELSE {n}]
  /\ conns = [n \in Nodes |-> IF n \in Founders THEN Founders \ {n} ELSE {}]
  /\ dials = [n \in Nodes |-> [j \in Nodes |-> 0]]
  /\ dead = [n \in Nodes |-> {}]
  /\ scans = [n \in Nodes |-> [x \in Nodes |-> {}]]
  /\ jobs = {}
  /\ store = [n \in Nodes |-> [k \in Keys |-> Absent]]
  /\ sequence = [n \in Nodes |-> 0]
  /\ calls = [c \in Clients |-> Idle]
  /\ sends = {}
  /\ issued = 0 /\ crashes = 0 /\ starts = 0 /\ losses = 0 /\ falseDeaths = 0

(***************************************************************************)
(* A client call.  The client's own ring may be out of date: the call may  *)
(* enter at any running node.  Every Set writes a value of its own.        *)
(***************************************************************************)
Begin(c) ==
  /\ calls[c] = Idle
  /\ issued < MaxCalls
  /\ issued' = issued + 1
  /\ \E op \in Ops, k \in Keys, n \in up :
       calls' = [calls EXCEPT ![c] =
         [op |-> op, key |-> k, val |-> IF op = "set" THEN issued + 1 ELSE Absent,
          at |-> n, to |-> n, via |-> {}, stage |-> "route"]]
  /\ UNCHANGED <<up, events, jobs, store, sequence, sends, faults>>

At(c, stage) == calls[c] # Idle /\ calls[c].stage = stage

Goto(c, stage) == calls' = [calls EXCEPT ![c].stage = stage]

Return(c) == calls' = [calls EXCEPT ![c] = Idle]

(***************************************************************************)
(* The handler reads the ring.  A Get is served by any replica, the other  *)
(* operations by the primary; otherwise the first node is looked up.       *)
(***************************************************************************)
Serves(op, n, k) == IF op = "get" THEN IsReplica(n, k) ELSE IsPrimary(n, k)

Route(c) ==
  /\ At(c, "route")
  /\ LET r == calls[c] IN
       \/ Serves(r.op, r.at, r.key) /\ Goto(c, "local")
       \/ /\ ~Serves(r.op, r.at, r.key)
          /\ \E p \in ring[r.at] :
               /\ First(ring[r.at], r.key, p)
               /\ calls' = [calls EXCEPT ![c].to = p, ![c].stage = "proxy"]
  /\ UNCHANGED <<up, events, jobs, store, sequence, sends, issued, faults>>

(***************************************************************************)
(* The handler looks the connection up: it proxies the call if there is    *)
(* one (an error goes back to the client if the peer does not answer), and *)
(* otherwise serves the call itself.                                       *)
(***************************************************************************)
Proxy(c) ==
  /\ At(c, "proxy")
  /\ LET r == calls[c] IN
       \/ /\ r.to \in conns[r.at] /\ r.to \in up
          /\ calls' = [calls EXCEPT ![c].at = r.to, ![c].via = @ \cup {r.at},
                                    ![c].stage = "route"]
       \/ r.to \in conns[r.at] /\ r.to \notin up /\ Return(c)
       \/ r.to \notin conns[r.at] /\ Goto(c, "local")
  /\ UNCHANGED <<up, events, jobs, store, sequence, sends, issued, faults>>

\* The local store operation.  Expire of a missing key ends the call.
Perform(c) ==
  /\ At(c, "local")
  /\ LET r == calls[c] IN
       \/ r.op = "get" /\ Return(c) /\ UNCHANGED store
       \/ /\ r.op = "expire" /\ UNCHANGED store
          /\ IF store[r.at][r.key] = Absent THEN Return(c) ELSE Goto(c, "written")
       \/ /\ r.op \in {"set", "delete"}
          /\ store' = [store EXCEPT ![r.at][r.key] = r.val]
          /\ Goto(c, "written")
  /\ UNCHANGED <<up, events, jobs, sequence, sends, issued, faults>>

\* After the write the ring is read again: only the primary replicates.
CheckPrimary(c) ==
  /\ At(c, "written")
  /\ IF IsPrimary(calls[c].at, calls[c].key) THEN Goto(c, "primary") ELSE Return(c)
  /\ UNCHANGED <<up, events, jobs, store, sequence, sends, issued, faults>>

\* ReplicateWrite and ReplicateDelete: one goroutine per secondary, no
\* sequence number when there is none.
Replicating(n, k, v) ==
  LET to == getSecondaries(n, k) IN
  /\ sends' = sends \cup
       {[from |-> n, to |-> s, key |-> k, val |-> v, seq |-> sequence[n] + 1,
         sent |-> FALSE] : s \in to}
  /\ sequence' = [sequence EXCEPT ![n] = IF to = {} THEN @ ELSE @ + 1]

\* Expire replicates the value it reads back, and nothing if the key is gone.
Replicate(c) ==
  /\ At(c, "primary")
  /\ LET r == calls[c]
         held == store[r.at][r.key]
     IN IF r.op # "expire" THEN Replicating(r.at, r.key, r.val)
        ELSE IF held # Absent THEN Replicating(r.at, r.key, held)
        ELSE UNCHANGED <<sends, sequence>>
  /\ Return(c)
  /\ UNCHANGED <<up, events, jobs, store, issued, faults>>

(***************************************************************************)
(* sendReplicate: look the connection up, send, and the secondary's        *)
(* Replicate handler.  The handler does not look at seq.                   *)
(***************************************************************************)
Send(m) ==
  /\ m \in sends /\ ~m.sent
  /\ sends' = (sends \ {m}) \cup
       (IF m.to \in conns[m.from] THEN {[m EXCEPT !.sent = TRUE]} ELSE {})
  /\ UNCHANGED <<up, events, jobs, store, sequence, calls, issued, faults>>

HandleReplicate(m) ==
  /\ m \in sends /\ m.sent /\ m.to \in up
  /\ store' = [store EXCEPT ![m.to][m.key] = m.val]
  /\ sends' = sends \ {m}
  /\ UNCHANGED <<up, events, jobs, sequence, calls, issued, faults>>

\* The call fails and is not retried: the peer is down, the sender or the
\* connection is gone, or (bounded) the two-second deadline passes.
Fail(m) ==
  /\ m \in sends /\ m.sent
  /\ \/ (m.to \notin up \/ m.from \notin up \/ m.to \notin conns[m.from])
        /\ UNCHANGED losses
     \/ losses < MaxLosses /\ losses' = losses + 1
  /\ sends' = sends \ {m}
  /\ UNCHANGED <<up, events, jobs, store, sequence, calls,
                 issued, crashes, starts, falseDeaths>>

(***************************************************************************)
(* Membership events, each handled in a goroutine of its own.              *)
(***************************************************************************)

\* A Join or Alive event: AddNode; its callback and the event handler each
\* call ConnectToPeer.  The event of a node that is on the ring already only
\* repeats the connecting, and is left out.
AddNode(n, j) ==
  /\ n \in up /\ j \in up \ ring[n]
  /\ ring' = [ring EXCEPT ![n] = @ \cup {j}]
  /\ dials' = [dials EXCEPT ![n][j] = @ + 2]
  /\ UNCHANGED <<up, conns, dead, scans, jobs, store, sequence, calls, sends,
                 issued, faults>>

\* ConnectToPeer returns at once when connected; the dial does not wait for
\* the peer, so it succeeds.
ConnectToPeer(n, j) ==
  /\ n \in up /\ dials[n][j] > 0
  /\ dials' = [dials EXCEPT ![n][j] = @ - 1]
  /\ conns' = [conns EXCEPT ![n] = @ \cup {j}]
  /\ UNCHANGED <<up, ring, dead, scans, jobs, store, sequence, calls, sends,
                 issued, faults>>

\* A Dead event.  A crashed node's Replicate calls are over by then: their
\* deadline (2 s) is shorter than the suspicion timeout (3 s).  A running
\* node may be taken for dead too, and added again later; no node is told
\* of its own death.
RemoveNode(n, x) ==
  /\ n \in up /\ x \in ring[n] \ {n}
  /\ \/ /\ x \notin up /\ (\A m \in sends : m.from # x)
        /\ UNCHANGED falseDeaths
     \/ /\ x \in up
        /\ falseDeaths < MaxFalseDeaths /\ falseDeaths' = falseDeaths + 1
  /\ ring' = [ring EXCEPT ![n] = @ \ {x}]
  /\ dead' = [dead EXCEPT ![n] = @ \cup {x}]
  /\ UNCHANGED <<up, conns, dials, scans, jobs, store, sequence, calls, sends,
                 issued, crashes, starts, losses>>

\* Its callback HandleNodeFailure: close the connection, then ForEach.
HandleNodeFailure(n, x) ==
  /\ n \in up /\ x \in dead[n]
  /\ conns' = [conns EXCEPT ![n] = @ \ {x}]
  /\ dead' = [dead EXCEPT ![n] = @ \ {x}]
  /\ scans' = [scans EXCEPT ![n][x] = Keys]
  /\ UNCHANGED <<up, ring, dials, jobs, store, sequence, calls, sends,
                 issued, faults>>

\* Mutant: the check is made as if the dead node were still in the ring.
reReplicate_OldRing(n, x, k) ==
  /\ n \in up /\ k \in scans[n][x]
  /\ scans' = [scans EXCEPT ![n][x] = @ \ {k}]
  /\ jobs' = jobs \cup
       {j \in {[node |-> n, key |-> k, val |-> store[n][k]]} :
          store[n][k] # Absent /\ First(ring[n] \cup {x}, k, n)}
  /\ UNCHANGED <<up, ring, conns, dials, dead, store, sequence, calls, sends,
                 issued, faults>>

\* One entry of reReplicateForDeadNode: replicate it if it is ours now.
reReplicate(n, x, k) ==
  /\ n \in up /\ k \in scans[n][x]
  /\ scans' = [scans EXCEPT ![n][x] = @ \ {k}]
  /\ jobs' = jobs \cup
       {j \in {[node |-> n, key |-> k, val |-> store[n][k]]} :
          store[n][k] # Absent /\ IsPrimary(n, k)}
  /\ UNCHANGED <<up, ring, conns, dials, dead, store, sequence, calls, sends,
                 issued, faults>>

RunJob(j) ==
  /\ j \in jobs
  /\ Replicating(j.node, j.key, j.val)
  /\ jobs' = jobs \ {j}
  /\ UNCHANGED <<up, events, store, calls, issued, faults>>

(***************************************************************************)
(* Processes stop and start; everything a process holds is in memory.      *)
(***************************************************************************)
Crash(n) ==
  /\ n \in up
  /\ crashes < MaxCrashes /\ crashes' = crashes + 1
  /\ up' = up \ {n}
  /\ jobs' = {j \in jobs : j.node # n}
  /\ sends' = {m \in sends : m.from # n \/ m.sent}
  /\ calls' = [c \in Clients |->
       IF calls[c] # Idle /\ calls[c].at = n THEN Idle ELSE calls[c]]
  /\ dials' = [dials EXCEPT ![n] = [j \in Nodes |-> 0]]
  /\ dead' = [dead EXCEPT ![n] = {}]
  /\ scans' = [scans EXCEPT ![n] = [x \in Nodes |-> {}]]
  /\ UNCHANGED <<ring, conns, store, sequence, issued, starts, losses, falseDeaths>>

\* Mutant: a starting node does not put itself on its own ring.
Start_NotOnRing(n) ==
  /\ n \notin up
  /\ starts < MaxStarts /\ starts' = starts + 1
  /\ up' = up \cup {n}
  /\ ring' = [ring EXCEPT ![n] = {}]
  /\ conns' = [conns EXCEPT ![n] = {}]
  /\ store' = [store EXCEPT ![n] = [k \in Keys |-> Absent]]
  /\ sequence' = [sequence EXCEPT ![n] = 0]
  /\ UNCHANGED <<dials, dead, scans, jobs, calls, sends,
                 issued, crashes, losses, falseDeaths>>

\* main: an empty store, a ring of the node itself, no connections.
Start(n) ==
  /\ n \notin up
  /\ starts < MaxStarts /\ starts' = starts + 1
  /\ up' = up \cup {n}
  /\ ring' = [ring EXCEPT ![n] = {n}]
  /\ conns' = [conns EXCEPT ![n] = {}]
  /\ store' = [store EXCEPT ![n] = [k \in Keys |-> Absent]]
  /\ sequence' = [sequence EXCEPT ![n] = 0]
  /\ UNCHANGED <<dials, dead, scans, jobs, calls, sends,
                 issued, crashes, losses, falseDeaths>>

Next ==
  \/ \E c \in Clients : \/ Begin(c) \/ Route(c) \/ Proxy(c) \/ Perform(c)
                        \/ CheckPrimary(c) \/ Replicate(c)
  \/ \E m \in sends : Send(m) \/ HandleReplicate(m) \/ Fail(m)
  \/ \E n, j \in Nodes : \/ AddNode(n, j) \/ ConnectToPeer(n, j)
                         \/ RemoveNode(n, j) \/ HandleNodeFailure(n, j)
                         \/ \E k \in Keys : reReplicate(n, j, k)
  \/ \E j \in jobs : RunJob(j)
  \/ \E n \in Nodes : Crash(n) \/ Start(n)

Spec == Init /\ [][Next]_vars

----------------------------------------------------------------------------

\* The types of rings, connections, stores, calls and requests under way.
TypeOK ==
  /\ up \subseteq Nodes
  /\ ring \in [Nodes -> SUBSET Nodes]
  /\ conns \in [Nodes -> SUBSET Nodes]
  /\ dials \in [Nodes -> [Nodes -> Nat]]
  /\ dead \in [Nodes -> SUBSET Nodes]
  /\ scans \in [Nodes -> [Nodes -> SUBSET Keys]]
  /\ jobs \subseteq Job
  /\ store \in [Nodes -> [Keys -> Values]]
  /\ sequence \in [Nodes -> Nat]
  /\ calls \in [Clients -> Call \cup {Idle}]
  /\ sends \subseteq Request
  /\ {issued, crashes, starts, losses, falseDeaths} \subseteq Nat

(***************************************************************************)
(* A call proxied from node to node never comes back to a node it has been *)
(* at, however much the rings of the nodes disagree and change meanwhile   *)
(* (the "If not primary, proxy to primary" step of Get, Set, Delete and    *)
(* Expire has no hop limit).                                               *)
(***************************************************************************)
NoForwardingLoop ==
  \A c \in Clients : calls[c] # Idle => calls[c].at \notin calls[c].via

\* Nothing under way, and every running node knows and is connected to
\* exactly the running nodes.
Quiet ==
  /\ \A c \in Clients : calls[c] = Idle
  /\ sends = {} /\ jobs = {}
  /\ \A n \in up : /\ ring[n] = up /\ conns[n] = up \ {n}
                   /\ dead[n] = {}
                   /\ \A j \in Nodes : dials[n][j] = 0 /\ scans[n][j] = {}

(***************************************************************************)
(* Once the cluster is quiet, what the primary of a key holds is held by   *)
(* all its secondaries, crashes during the write, its replication and      *)
(* earlier re-replications included (HandleNodeFailure).  It is about one  *)
(* write, no lost request, no false death and no later start, and rests on *)
(* the timing RemoveNode states: a late request of a crashed primary       *)
(* breaks it.                                                              *)
(***************************************************************************)
FailoverRestoresReplicas ==
  Quiet => \A k \in Keys : \A p \in up :
    (First(up, k, p) /\ store[p][k] # Absent) =>
      \A s \in GetNodes(up, k) : store[s][k] = store[p][k]

(***************************************************************************)
(* "Monotonically increasing sequence number for ordering replicated       *)
(* writes" (replication.go:29): once the cluster is quiet, every secondary *)
(* holds what the primary holds, whichever order the writes arrived in.    *)
(***************************************************************************)
ReplicatedInOrder ==
  Quiet => \A k \in Keys : \A p \in up :
    First(up, k, p) => \A s \in GetNodes(up, k) : store[s][k] = store[p][k]
=============================================================================
