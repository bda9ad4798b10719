----------------------------- MODULE Membership -----------------------------
(***************************************************************************)
(* The SWIM membership protocol of internal/cluster: what the nodes of a   *)
(* cluster believe of each other, and how the updates piggybacked on UDP   *)
(* packets change it.  A step is one packet handled, one packet sent by    *)
(* the ping loop, one probe that fails or one suspicion timer that fires.  *)
(*                                                                         *)
(* applyUpdate and the timers are atomic here; their interleaving inside   *)
(* one node is not modelled.  Which probes fail is left open within the    *)
(* bounds below.                                                           *)
(*                                                                         *)
(* The updates of a packet are about different nodes, and the update queue *)
(* holds at most one per node: both are functions from nodes.  This is the *)
(* queue of the code as long as a cluster has no more than                 *)
(* maxPiggybackUpdates (10) nodes, so that a drain takes them all.         *)
(***************************************************************************)
EXTENDS Integers, FiniteSets

CONSTANTS
  Nodes,
  Seeds,            \* [Nodes -> SUBSET Nodes]: the seeds a node is started with
  InitialMembers,   \* nodes that form a cluster already, all updates long drained
  MaxSends,         \* an update is piggybacked this many times (3)
  MaxInFlight,      \* bound: the ping loops pause while so many packets are under way
  MaxCopies,        \* bound: identical packets under way that are told apart
  MaxSpurious,      \* bound: probes that fail although the peer is reachable
  MaxLosses,        \* bound: packets the network loses
  MaxFaults,        \* bound: faults injected
  MaxStops,         \* bound: nodes that crash or leave
  MaxStarts         \* bound: processes started

ASSUME MembershipConstants ==
  /\ Seeds \in [Nodes -> SUBSET Nodes]
  /\ InitialMembers \subseteq Nodes
  /\ MaxSends \in Nat \ {0}
  /\ MaxCopies \in Nat \ {0}
  /\ {MaxInFlight, MaxSpurious, MaxLosses, MaxFaults, MaxStops, MaxStarts} \subseteq Nat

VARIABLES
  phase,        \* "down", "up", or "leaving" (Stop has been called)
  incarnation,  \* Membership.incarnation
  registry,     \* what each node knows of each node: status and incarnation
  timers,       \* the nodes each node has a suspicion timer running for
  queue,        \* Membership.updateQueue
  net,          \* UDP packets under way
  failed,       \* nodes whose FaultInjector simulates a crash
  parted,       \* the peers each FaultInjector is partitioned from
  spent,        \* how much of each bound has been used
  highest       \* auxiliary: the highest incarnation each node ever had

vars == <<phase, incarnation, registry, timers, queue, net, failed, parted, spent, highest>>
faultVars == <<failed, parted>>

Status == {"alive", "suspect", "dead", "left"}

(***************************************************************************)
(* A registry entry, and an update: "none" stands for a node that is not   *)
(* in the registry, and for no update.                                     *)
(***************************************************************************)
Member == [status : Status \cup {"none"}, inc : Nat]
Queued == [status : Status \cup {"none"}, inc : Nat, sent : Nat]

None == [status |-> "none", inc |-> 0]
NotQueued == [status |-> "none", inc |-> 0, sent |-> 0]
AliveAt(i) == [status |-> "alive", inc |-> i]

NoUpdates == [j \in Nodes |-> None]
Only(j, u) == [NoUpdates EXCEPT ![j] = u]

Packet == [kind : {"ping", "ack", "pingreq", "join"}, from : Nodes, to : Nodes,
           target : Nodes, updates : [Nodes -> Member], copy : Nat]

Pkt(kind, n, j, us) ==
  [kind |-> kind, from |-> n, to |-> j, target |-> j, updates |-> us, copy |-> 1]

\* A packet sent while an identical one is under way is a packet of its own.
Stamp(p) ==
  LET free == {i \in 1..MaxCopies : [p EXCEPT !.copy = i] \notin net}
  IN  [p EXCEPT !.copy = IF free = {} THEN 1 ELSE CHOOSE i \in free : TRUE]

Running(n) == phase[n] # "down"

\* isBlocked: a crashed node talks to nobody, a partitioned one not to the peer.
isBlocked(n, peer) == n \in failed \/ peer \in parted[n]

Bounds == {"spurious", "losses", "faults", "stops", "starts"}
Spend(b) == spent' = [spent EXCEPT ![b] = @ + 1]

-----------------------------------------------------------------------------
(* The update queue                                                        *)

\* queueUpdate: one entry per node, replaced by what is not older.
Enqueue(q, u) ==
  IF q.status = "none" \/ u.inc >= q.inc
  THEN [status |-> u.status, inc |-> u.inc, sent |-> 0] ELSE q

\* drainUpdates: every update goes along, and is discarded after MaxSends packets.
Drained(row) ==
  [j \in Nodes |-> IF row[j].status = "none" \/ row[j].sent + 1 >= MaxSends
                   THEN NotQueued ELSE [row[j] EXCEPT !.sent = @ + 1]]

UpdatesOf(row) == [j \in Nodes |-> [status |-> row[j].status, inc |-> row[j].inc]]

-----------------------------------------------------------------------------
(* applyUpdate: what node n makes of update u about node j                 *)

Known(n, j) == registry[n][j].status # "none"

\* Mutant: a node applies updates about itself like any other.
Current_Self(n, j, u) == u.status # "none" /\ Known(n, j) /\ u.inc >= registry[n][j].inc

\* Mutant: updates are applied however old they are.
Current_Any(n, j, u) == j # n /\ u.status # "none" /\ Known(n, j)

\* Mutant: an update counts only if its incarnation is newer.
Current_Newer(n, j, u) ==
  j # n /\ u.status # "none" /\ Known(n, j) /\ u.inc > registry[n][j].inc

\* An update about a known peer counts unless its incarnation is older.
Current(n, j, u) ==
  j # n /\ u.status # "none" /\ Known(n, j) /\ u.inc >= registry[n][j].inc

Discovers(n, j, u) == j # n /\ ~Known(n, j) /\ u.status = "alive"
Revives(n, j, u) == Current(n, j, u) /\ u.status = "alive" /\ registry[n][j].status # "alive"
Suspects(n, j, u) == Current(n, j, u) /\ u.status = "suspect" /\ registry[n][j].status = "alive"
Buries(n, j, u) == Current(n, j, u) /\ u.status = "dead" /\ registry[n][j].status # "dead"
Departs(n, j, u) == Current(n, j, u) /\ u.status = "left"

\* Only a revival brings a new incarnation; other changes keep the one on record.
MemberAfter(n, j, u) ==
  IF Discovers(n, j, u) \/ Revives(n, j, u) THEN u
  ELSE IF Suspects(n, j, u) \/ Buries(n, j, u) \/ Departs(n, j, u)
       THEN [registry[n][j] EXCEPT !.status = u.status]
       ELSE registry[n][j]

\* Mutant: a suspicion learnt from gossip starts no timer.
TimersAfter_NoStart(n, us) ==
  timers[n] \ {j \in Nodes : Revives(n, j, us[j]) \/ Buries(n, j, us[j])}

\* A LEFT update does not touch the timer.
TimersAfter(n, us) ==
  (timers[n] \ {j \in Nodes : Revives(n, j, us[j]) \/ Buries(n, j, us[j])})
     \cup {j \in Nodes : Suspects(n, j, us[j])}

\* Mutant: a node does not contradict the news of its death.
Accuses_SuspectOnly(u) == u.status = "suspect"

\* The updates about itself that a node refutes.
Accuses(u) == u.status \in {"suspect", "dead"}

\* refute: the incarnation goes past that of the report.
IncarnationAfter(n, u) ==
  IF Accuses(u) /\ u.inc >= incarnation[n] THEN u.inc + 1 ELSE incarnation[n]

QueueAfter(n, us) ==
  [j \in Nodes |->
     IF j = n /\ Accuses(us[n]) THEN Enqueue(queue[n][n], AliveAt(IncarnationAfter(n, us[n])))
     ELSE IF Discovers(n, j, us[j]) THEN Enqueue(queue[n][j], us[j])
     ELSE queue[n][j]]

Apply(n, us) ==
  /\ registry' = [registry EXCEPT ![n] = [j \in Nodes |-> MemberAfter(n, j, us[j])]]
  /\ timers' = [timers EXCEPT ![n] = TimersAfter(n, us)]
  /\ incarnation' = [incarnation EXCEPT ![n] = IncarnationAfter(n, us[n])]
  /\ highest' = [highest EXCEPT ![n] = IF @ < IncarnationAfter(n, us[n])
                                       THEN IncarnationAfter(n, us[n]) ELSE @]

-----------------------------------------------------------------------------
(* A node's life                                                           *)

\* A cluster that has settled, and nodes that are not started.
Init ==
  /\ phase = [n \in Nodes |-> IF n \in InitialMembers THEN "up" ELSE "down"]
  /\ incarnation = [n \in Nodes |-> 0]
  /\ registry = [n \in Nodes |-> [j \in Nodes |->
                   IF n \in InitialMembers /\ j \in InitialMembers THEN AliveAt(0) ELSE None]]
  /\ timers = [n \in Nodes |-> {}]
  /\ queue = [n \in Nodes |-> [j \in Nodes |-> NotQueued]]
  /\ net = {}
  /\ failed = {} /\ parted = [n \in Nodes |-> {}]
  /\ spent = [b \in Bounds |-> 0]
  /\ highest = [n \in Nodes |-> 0]

(***************************************************************************)
(* Start and JoinCluster: a fresh process, incarnation 0, that asks its    *)
(* seeds once.  Nothing survives from an earlier process of the same ID.   *)
(***************************************************************************)
Start(n) ==
  /\ phase[n] = "down" /\ spent["starts"] < MaxStarts
  /\ phase' = [phase EXCEPT ![n] = "up"]
  /\ incarnation' = [incarnation EXCEPT ![n] = 0]
  /\ registry' = [registry EXCEPT ![n] = Only(n, AliveAt(0))]
  /\ timers' = [timers EXCEPT ![n] = {}]
  /\ queue' = [queue EXCEPT ![n] =
                 [j \in Nodes |-> IF j = n THEN Enqueue(NotQueued, AliveAt(0)) ELSE NotQueued]]
  /\ net' = net \cup {Stamp(Pkt("join", n, s, Only(n, AliveAt(0)))) : s \in Seeds[n]}
  /\ Spend("starts")
  /\ UNCHANGED <<faultVars, highest>>

\* Stop, up to the pause that lets the leave message out; the loops still run.
Leave(n) ==
  /\ phase[n] = "up" /\ spent["stops"] < MaxStops
  /\ phase' = [phase EXCEPT ![n] = "leaving"]
  /\ registry' = [registry EXCEPT ![n][n].status = "left"]
  /\ queue' = [queue EXCEPT ![n][n] =
                 Enqueue(@, [status |-> "left", inc |-> incarnation[n]])]
  /\ Spend("stops")
  /\ UNCHANGED <<incarnation, timers, net, faultVars, highest>>

\* The rest of Stop: loops and timers end.
Stopped(n) ==
  /\ phase[n] = "leaving"
  /\ phase' = [phase EXCEPT ![n] = "down"]
  /\ timers' = [timers EXCEPT ![n] = {}]
  /\ UNCHANGED <<incarnation, registry, queue, net, faultVars, spent, highest>>

\* The process dies without a word.
Crash(n) ==
  /\ phase[n] = "up" /\ spent["stops"] < MaxStops
  /\ phase' = [phase EXCEPT ![n] = "down"]
  /\ timers' = [timers EXCEPT ![n] = {}]
  /\ Spend("stops")
  /\ UNCHANGED <<incarnation, registry, queue, net, faultVars, highest>>

-----------------------------------------------------------------------------
(* The ping loop                                                           *)

\* pingRandomMember considers members that are alive or suspect.
Candidates(n) == {j \in Nodes \ {n} : registry[n][j].status \in {"alive", "suspect"}}

\* Mutant: the accuser raises the incarnation of the accused.
Report_Raised(status, i) == [status |-> status, inc |-> i + 1]

\* What markSuspect and markDead queue: the incarnation on record.
Report(status, i) == [status |-> status, inc |-> i]

\* The ping of sendPingAndWait.
Ping(n, j) ==
  /\ Running(n) /\ j \in Candidates(n) /\ ~isBlocked(n, j)
  /\ Cardinality(net) < MaxInFlight
  /\ net' = net \cup {Stamp(Pkt("ping", n, j, UpdatesOf(queue[n])))}
  /\ queue' = [queue EXCEPT ![n] = Drained(@)]
  /\ UNCHANGED <<phase, incarnation, registry, timers, faultVars, spent, highest>>

\* A request of sendPingReqs to a helper; it carries no updates.
PingReq(n, j, h) ==
  /\ Running(n) /\ j \in Candidates(n) /\ ~isBlocked(n, h)
  /\ h \in Nodes \ {n, j} /\ registry[n][h].status = "alive"
  /\ Cardinality(net) < MaxInFlight
  /\ net' = net \cup {Stamp([Pkt("pingreq", n, h, NoUpdates) EXCEPT !.target = j])}
  /\ UNCHANGED <<phase, incarnation, registry, timers, queue, faultVars, spent, highest>>

Unreachable(n, j) == isBlocked(n, j) \/ isBlocked(j, n) \/ ~Running(j)

\* markSuspect, when neither the ping nor the helpers brought an answer.
markSuspect(n, j) ==
  /\ Running(n) /\ j # n /\ registry[n][j].status = "alive"
  /\ IF Unreachable(n, j) THEN UNCHANGED spent
                          ELSE spent["spurious"] < MaxSpurious /\ Spend("spurious")
  /\ registry' = [registry EXCEPT ![n][j].status = "suspect"]
  /\ queue' = [queue EXCEPT ![n][j] =
                 Enqueue(@, Report("suspect", registry[n][j].inc))]
  /\ timers' = [timers EXCEPT ![n] = @ \cup {j}]
  /\ UNCHANGED <<phase, incarnation, net, faultVars, highest>>

\* The suspicion timer: markDead, whatever the status is by now unless it is DEAD.
markDead(n, j) ==
  /\ Running(n) /\ j \in timers[n]
  /\ timers' = [timers EXCEPT ![n] = @ \ {j}]
  /\ IF registry[n][j].status = "dead"
     THEN UNCHANGED <<registry, queue>>
     ELSE /\ registry' = [registry EXCEPT ![n][j].status = "dead"]
          /\ queue' = [queue EXCEPT ![n][j] =
                         Enqueue(@, Report("dead", registry[n][j].inc))]
  /\ UNCHANGED <<phase, incarnation, net, faultVars, spent, highest>>

-----------------------------------------------------------------------------
(* The receive loop                                                        *)

\* What goes out in answer to a packet, after its updates have been applied.
Replies(n, p, q, row) ==
  CASE p.kind = "ping" -> {Pkt("ack", n, p.from, UpdatesOf(q))}
    [] p.kind = "join" -> {Pkt("ack", n, p.from, row)}
    [] p.kind = "pingreq" /\ row[p.target].status # "none" /\ ~isBlocked(n, p.target)
         -> {Pkt("ping", n, p.target, UpdatesOf(q))}
    [] OTHER -> {}

(***************************************************************************)
(* handleMessage: the updates first, then the handler of the kind.  A ping *)
(* and the relayed ping of a ping-req drain the queue; a join is answered  *)
(* with the whole registry, in which a node's own entry still has the      *)
(* incarnation it was created with.                                        *)
(***************************************************************************)
Receive(n, p) ==
  LET q == QueueAfter(n, p.updates)
      row == [j \in Nodes |-> MemberAfter(n, j, p.updates[j])]
      out == Replies(n, p, q, row)
  IN  /\ p.to = n /\ Running(n) /\ ~isBlocked(n, p.from)
      /\ Apply(n, p.updates)
      /\ net' = (net \ {p}) \cup {Stamp(r) : r \in out}
      /\ queue' = [queue EXCEPT ![n] =
                     IF p.kind # "join" /\ out # {} THEN Drained(q) ELSE q]
      /\ UNCHANGED <<phase, faultVars, spent>>

\* receiveLoop drops a packet of a blocked sender; nobody reads for a dead process.
Discard(p) ==
  /\ ~Running(p.to) \/ isBlocked(p.to, p.from)
  /\ net' = net \ {p}
  /\ UNCHANGED <<phase, incarnation, registry, timers, queue, faultVars, spent, highest>>

Lose(p) ==
  /\ spent["losses"] < MaxLosses
  /\ net' = net \ {p}
  /\ Spend("losses")
  /\ UNCHANGED <<phase, incarnation, registry, timers, queue, faultVars, highest>>

-----------------------------------------------------------------------------
(* Fault injection                                                         *)

SetFailed(n) ==
  /\ spent["faults"] < MaxFaults /\ n \notin failed
  /\ failed' = failed \cup {n}
  /\ Spend("faults")
  /\ UNCHANGED <<phase, incarnation, registry, timers, queue, net, parted, highest>>

PartitionNode(n, j) ==
  /\ spent["faults"] < MaxFaults /\ j \notin parted[n]
  /\ parted' = [parted EXCEPT ![n] = @ \cup {j}]
  /\ Spend("faults")
  /\ UNCHANGED <<phase, incarnation, registry, timers, queue, net, failed, highest>>

Recover(n) ==
  /\ n \in failed \/ parted[n] # {}
  /\ failed' = failed \ {n}
  /\ parted' = [parted EXCEPT ![n] = {}]
  /\ UNCHANGED <<phase, incarnation, registry, timers, queue, net, spent, highest>>

Next ==
  \/ \E n \in Nodes :
       \/ Start(n)
       \/ Leave(n)
       \/ Stopped(n)
       \/ Crash(n)
       \/ SetFailed(n)
       \/ Recover(n)
       \/ \E j \in Nodes :
            \/ Ping(n, j)
            \/ markSuspect(n, j)
            \/ markDead(n, j)
            \/ PartitionNode(n, j)
            \/ \E h \in Nodes : PingReq(n, j, h)
  \/ \E p \in net : \/ Receive(p.to, p)
                    \/ Discard(p)
                    \/ Lose(p)

Spec == Init /\ [][Next]_vars

\* n's receive loop comes to a packet, or, when Newsworthy, to one that carries updates.
Handles(n, Newsworthy) ==
  \E p \in net : /\ p.to = n /\ (Newsworthy => p.updates # NoUpdates)
                 /\ Receive(n, p) \/ Discard(p)

(***************************************************************************)
(* The ping loop of a running node ticks for ever and picks each candidate *)
(* again and again; the receive loop reads what arrives, and a packet with *)
(* updates is not overtaken for ever by packets without; timers fire.      *)
(* Nothing is assumed of probes, which may or may not fail.                *)
(***************************************************************************)
FairSpec ==
  /\ Spec
  /\ \A n \in Nodes :
       /\ \A j \in Nodes : SF_vars(Ping(n, j)) /\ WF_vars(markDead(n, j))
       /\ WF_vars(Handles(n, FALSE)) /\ WF_vars(Handles(n, TRUE))

-----------------------------------------------------------------------------
(* Properties                                                              *)

\* The types of the protocol's state.
TypeOK ==
  /\ phase \in [Nodes -> {"down", "up", "leaving"}]
  /\ incarnation \in [Nodes -> Nat]
  /\ registry \in [Nodes -> [Nodes -> Member]]
  /\ timers \in [Nodes -> SUBSET Nodes]
  /\ queue \in [Nodes -> [Nodes -> Queued]]
  /\ net \subseteq Packet
  /\ failed \subseteq Nodes
  /\ parted \in [Nodes -> SUBSET Nodes]
  /\ spent \in [Bounds -> Nat]
  /\ highest \in [Nodes -> Nat]

(***************************************************************************)
(* Only a node itself raises its incarnation: no registry, queue or packet *)
(* ever holds an incarnation of a node that the node has not had.  A       *)
(* refutation can therefore always outbid the reports it answers           *)
(* (refute, membership.go:792).                                            *)
(***************************************************************************)
NoInventedIncarnation ==
  \A j \in Nodes :
    /\ incarnation[j] <= highest[j]
    /\ \A n \in Nodes : registry[n][j].inc <= highest[j] /\ queue[n][j].inc <= highest[j]
    /\ \A p \in net : p.updates[j].inc <= highest[j]

(***************************************************************************)
(* No gossip makes a node doubt itself: in its own registry it is alive    *)
(* until it leaves, so it stays on its own hash ring                       *)
(* (membership.go:693).                                                    *)
(***************************************************************************)
NeverDoubtsItself ==
  \A n \in Nodes :
    Running(n) => /\ registry[n][n].status = IF phase[n] = "up" THEN "alive" ELSE "left"
                  /\ n \notin timers[n]

(***************************************************************************)
(* Whoever is suspected has a timer running against it, so a suspicion,    *)
(* own or hearsay, always ends: in a refutation or in death.               *)
(***************************************************************************)
SuspicionIsTimed ==
  \A n, j \in Nodes : Running(n) /\ registry[n][j].status = "suspect" => j \in timers[n]

(***************************************************************************)
(* The incarnation a running node has on record for a peer never goes      *)
(* back, and a peer once known stays known (membership.go:719).            *)
(***************************************************************************)
RecordsOnlyAdvance ==
  [][\A n, j \in Nodes :
       Running(n) /\ Running(n)' /\ Known(n, j) =>
         registry'[n][j].status # "none" /\ registry'[n][j].inc >= registry[n][j].inc]_vars

\* All running nodes hold j alive.
HeldAlive(j) == \A n \in Nodes : phase[n] = "up" => registry[n][j].status = "alive"

Settled == \A j \in Nodes : phase[j] = "up" => HeldAlive(j)

(***************************************************************************)
(* A node that wrongly takes a running peer for suspect or dead comes back *)
(* to holding it alive for good: the report reaches the peer, which        *)
(* refutes it (applyUpdate and refute, membership.go:693-807).  Each is in *)
(* MaxSends packets: it holds while fewer packets than that are lost.      *)
(***************************************************************************)
FalseReportsOverridden == <>[]Settled

(***************************************************************************)
(* A refutation gets through: "Node A increments its own incarnation       *)
(* counter and broadcasts an ALIVE update, overriding the stale failure    *)
(* reports" (README.md:90).  A node that has raised its incarnation is     *)
(* held alive by every running node in the end.                            *)
(***************************************************************************)
RefutationOverrides ==
  \A j \in Nodes : phase[j] = "up" /\ incarnation[j] > 0 ~> phase[j] # "up" \/ HeldAlive(j)

(***************************************************************************)
(* handleJoin "adds the new node" (membership.go:437): after a join of     *)
(* another node it is on record as alive, or as suspect or dead, which the *)
(* answer tells it and it refutes.  The one thing that shuts it out is its *)
(* own earlier departure under an incarnation above the 0 it starts with:  *)
(* the join is then stale, and nobody refutes a LEFT.                      *)
(***************************************************************************)
OnlyDepartureBarsJoin ==
  [][\A p \in net : p.kind = "join" /\ p.from # p.to /\ Receive(p.to, p) =>
       LET u == registry'[p.to][p.from]
       IN  u.status = "alive" \/ Accuses(u) \/ (u.status = "left" /\ u.inc > 0)]_vars
=============================================================================
