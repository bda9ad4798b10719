-------------------------- MODULE MembershipProofs --------------------------
(***************************************************************************)
(* What module Membership guarantees for every cluster, every number of    *)
(* faults, losses and restarts, and every MaxSends.                        *)
(***************************************************************************)
EXTENDS Membership, TLAPS

\* A leaf goes to Zenon unless it names another prover; SMT has the arithmetic.
USE Zenon

\* Queueing, draining and reporting keep the types of queue entries and updates.
LEMMA QueueTypes ==
  /\ \A q \in Queued, u \in Member : Enqueue(q, u) \in Queued
  /\ \A row \in [Nodes -> Queued] : /\ Drained(row) \in [Nodes -> Queued]
                                    /\ UpdatesOf(row) \in [Nodes -> Member]
  /\ \A i \in Nat : /\ AliveAt(i) \in Member
                    /\ \A s \in Status : Report(s, i) \in Member
  /\ \A m \in Member, s \in Status : [m EXCEPT !.status = s] \in Member
  /\ None \in Member /\ NotQueued \in Queued /\ NoUpdates \in [Nodes -> Member]
<1>1. \A q \in Queued, u \in Member : Enqueue(q, u) \in Queued
  BY DEF Enqueue, Queued, Member
<1>2. NotQueued \in Queued /\ None \in Member
  BY DEF NotQueued, Queued, None, Member
<1>3. ASSUME NEW row \in [Nodes -> Queued]
      PROVE  Drained(row) \in [Nodes -> Queued] /\ UpdatesOf(row) \in [Nodes -> Member]
  <2>1. \A j \in Nodes : [row[j] EXCEPT !.sent = @ + 1] \in Queued
    BY SMT DEF Queued
  <2>2. Drained(row) \in [Nodes -> Queued]
    BY <2>1, <1>2 DEF Drained
  <2>3. UpdatesOf(row) \in [Nodes -> Member]
    BY DEF UpdatesOf, Queued, Member
  <2> QED BY <2>2, <2>3
<1>4. \A i \in Nat : AliveAt(i) \in Member /\ \A s \in Status : Report(s, i) \in Member
  BY DEF AliveAt, Report, Member, Status
<1>5. NoUpdates \in [Nodes -> Member]
  BY <1>2 DEF NoUpdates
<1>6. \A m \in Member, s \in Status : [m EXCEPT !.status = s] \in Member
  BY DEF Member
<1> QED BY <1>1, <1>2, <1>3, <1>4, <1>5, <1>6

\* applyUpdate keeps the types of everything it writes.
LEMMA ApplyTypes ==
  ASSUME TypeOK, NEW n \in Nodes, NEW us \in [Nodes -> Member]
  PROVE  /\ [j \in Nodes |-> MemberAfter(n, j, us[j])] \in [Nodes -> Member]
         /\ TimersAfter(n, us) \in SUBSET Nodes
         /\ IncarnationAfter(n, us[n]) \in Nat
         /\ QueueAfter(n, us) \in [Nodes -> Queued]
<1>1. ASSUME NEW j \in Nodes PROVE MemberAfter(n, j, us[j]) \in Member
  <2>1. us[j] \in Member /\ registry[n][j] \in Member
    BY SMT DEF TypeOK
  <2>2. [registry[n][j] EXCEPT !.status = us[j].status] \in Member
    BY <2>1 DEF Member
  <2> QED BY <2>1, <2>2 DEF MemberAfter
<1>2. TimersAfter(n, us) \in SUBSET Nodes
  BY DEF TimersAfter, TypeOK
<1>3. IncarnationAfter(n, us[n]) \in Nat
  BY SMT DEF IncarnationAfter, TypeOK, Member
<1>4. QueueAfter(n, us) \in [Nodes -> Queued]
  <2>1. \A j \in Nodes : queue[n][j] \in Queued
    BY SMT DEF TypeOK
  <2>2. AliveAt(IncarnationAfter(n, us[n])) \in Member
    BY <1>3, QueueTypes
  <2>3. \A j \in Nodes : us[j] \in Member
    OBVIOUS
  <2> QED BY <2>1, <2>2, <2>3, QueueTypes DEF QueueAfter
<1> QED BY <1>1, <1>2, <1>3, <1>4

\* What a packet and its answers look like.
LEMMA PacketTypes ==
  /\ \A p \in Packet : p.to \in Nodes /\ p.from \in Nodes /\ p.updates \in [Nodes -> Member]
  /\ \A k \in {"ping", "ack", "pingreq", "join"}, n, j \in Nodes, us \in [Nodes -> Member] :
       /\ Pkt(k, n, j, us) \in Packet
       /\ \A t \in Nodes : [Pkt(k, n, j, us) EXCEPT !.target = t] \in Packet
  /\ \A n \in Nodes, p \in Packet, q \in [Nodes -> Queued], row \in [Nodes -> Member] :
       Replies(n, p, q, row) \subseteq Packet
<1>1. \A p \in Packet : p.to \in Nodes /\ p.from \in Nodes /\ p.updates \in [Nodes -> Member]
  BY DEF Packet
<1>2. \A k \in {"ping", "ack", "pingreq", "join"}, n, j \in Nodes, us \in [Nodes -> Member] :
        Pkt(k, n, j, us) \in Packet
  BY DEF Pkt, Packet
<1>3. \A p \in Packet, t \in Nodes : [p EXCEPT !.target = t] \in Packet
  BY DEF Packet
<1>4. ASSUME NEW n \in Nodes, NEW p \in Packet,
             NEW q \in [Nodes -> Queued], NEW row \in [Nodes -> Member]
      PROVE  Replies(n, p, q, row) \subseteq Packet
  <2>1. UpdatesOf(q) \in [Nodes -> Member] /\ p.from \in Nodes /\ p.target \in Nodes
    BY QueueTypes DEF Packet
  <2> QED BY <1>2, <2>1, SMT DEF Replies
<1> QED BY <1>1, <1>2, <1>3, <1>4

\* Telling a packet from its copies changes nothing else about it.
LEMMA StampTypes ==
  ASSUME NEW p \in Packet
  PROVE  /\ Stamp(p) \in Packet /\ Stamp(p).updates = p.updates
         /\ Stamp(p).kind = p.kind /\ Stamp(p).from = p.from
<1> DEFINE free == {i \in 1..MaxCopies : [p EXCEPT !.copy = i] \notin net}
           i0 == IF free = {} THEN 1 ELSE CHOOSE i \in free : TRUE
<1>1. i0 \in Nat
  <2>1. \A i \in free : i \in Nat
    BY MembershipConstants, SMT
  <2>2. free # {} => (CHOOSE i \in free : TRUE) \in free
    <3> HIDE DEF free
    <3> QED OBVIOUS
  <2> HIDE DEF free
  <2> QED BY <2>1, <2>2
<1>2. Stamp(p) = [p EXCEPT !.copy = i0]
  BY DEF Stamp
<1> HIDE DEF i0
<1> QED BY <1>1, <1>2 DEF Packet

\* Every step of the protocol keeps the types of its state.
LEMMA TypeStep == TypeOK /\ [Next]_vars => TypeOK'
<1> SUFFICES ASSUME TypeOK, [Next]_vars PROVE TypeOK'
  OBVIOUS
<1> USE DEF TypeOK
<1>0. 0 \in Nat /\ \A b \in Bounds : [spent EXCEPT ![b] = @ + 1] \in [Bounds -> Nat]
  BY SMT
<1>1. ASSUME NEW n \in Nodes, Start(n) PROVE TypeOK'
  <2>1. AliveAt(0) \in Member /\ Enqueue(NotQueued, AliveAt(0)) \in Queued
    BY QueueTypes
  <2>2. Only(n, AliveAt(0)) \in [Nodes -> Member]
    BY <2>1, QueueTypes DEF Only
  <2>3. {Stamp(Pkt("join", n, s, Only(n, AliveAt(0)))) : s \in Seeds[n]} \subseteq Packet
    <3>1. \A s \in Seeds[n] : Pkt("join", n, s, Only(n, AliveAt(0))) \in Packet
      BY <2>2, PacketTypes, MembershipConstants
    <3> QED BY <3>1, StampTypes
  <2>4. [j \in Nodes |-> IF j = n THEN Enqueue(NotQueued, AliveAt(0)) ELSE NotQueued]
          \in [Nodes -> Queued]
    BY <2>1, QueueTypes
  <2> QED BY <1>1, <1>0, <2>2, <2>3, <2>4 DEF Start, Spend, Bounds, faultVars
<1>2. ASSUME NEW n \in Nodes, Leave(n) PROVE TypeOK'
  <2>1. [status |-> "left", inc |-> incarnation[n]] \in Member
    BY DEF Member, Status
  <2>2. [registry[n][n] EXCEPT !.status = "left"] \in Member
    <3>1. registry[n][n] \in Member /\ "left" \in Status
      BY SMT DEF Status
    <3> QED BY <3>1, QueueTypes
  <2>3. Enqueue(queue[n][n], [status |-> "left", inc |-> incarnation[n]]) \in Queued
    BY <2>1, QueueTypes, SMT
  <2> QED BY <1>2, <1>0, <2>2, <2>3 DEF Leave, Spend, Bounds, faultVars
<1>3. ASSUME NEW n \in Nodes, Stopped(n) \/ Crash(n) PROVE TypeOK'
  <2>1. CASE Stopped(n)
    BY <2>1 DEF Stopped, faultVars
  <2>2. CASE Crash(n)
    <3>1. spent' \in [Bounds -> Nat]
      BY <1>0, <2>2 DEF Crash, Spend, Bounds
    <3> QED BY <2>2, <3>1 DEF Crash, faultVars
  <2> QED BY <1>3, <2>1, <2>2
<1>4. ASSUME NEW n \in Nodes, NEW j \in Nodes, Ping(n, j) PROVE TypeOK'
  <2>1. Drained(queue[n]) \in [Nodes -> Queued] /\ UpdatesOf(queue[n]) \in [Nodes -> Member]
    BY QueueTypes
  <2>2. Stamp(Pkt("ping", n, j, UpdatesOf(queue[n]))) \in Packet
    <3>1. Pkt("ping", n, j, UpdatesOf(queue[n])) \in Packet
      BY <2>1, PacketTypes
    <3> QED BY <3>1, StampTypes
  <2> QED BY <1>4, <2>1, <2>2 DEF Ping, faultVars
<1>5. ASSUME NEW n \in Nodes, NEW j \in Nodes, NEW h \in Nodes, PingReq(n, j, h)
      PROVE  TypeOK'
  <2>1. [Pkt("pingreq", n, h, NoUpdates) EXCEPT !.target = j] \in Packet
    BY PacketTypes, QueueTypes
  <2>2. Stamp([Pkt("pingreq", n, h, NoUpdates) EXCEPT !.target = j]) \in Packet
    BY <2>1, StampTypes
  <2> QED BY <1>5, <2>2 DEF PingReq, faultVars
<1>6. ASSUME NEW n \in Nodes, NEW j \in Nodes, markSuspect(n, j) \/ markDead(n, j)
      PROVE  TypeOK'
  <2>0. registry[n][j] \in Member /\ registry[n][j].inc \in Nat /\ queue[n][j] \in Queued
    BY SMT DEF Member
  <2>1. \A s \in Status : /\ [registry[n][j] EXCEPT !.status = s] \in Member
                          /\ Enqueue(queue[n][j], Report(s, registry[n][j].inc)) \in Queued
    BY <2>0, QueueTypes
  <2>2. CASE markSuspect(n, j)
    <3>1. spent' \in [Bounds -> Nat]
      BY <2>2, <1>0 DEF markSuspect, Spend, Bounds
    <3> QED BY <2>1, <2>2, <3>1 DEF markSuspect, Status, faultVars
  <2>3. CASE markDead(n, j)
    <3>1. "dead" \in Status
      BY DEF Status
    <3>2. registry' \in [Nodes -> [Nodes -> Member]] /\ queue' \in [Nodes -> [Nodes -> Queued]]
      <4>1. CASE registry[n][j].status = "dead"
        BY <4>1, <2>3 DEF markDead
      <4>2. CASE registry[n][j].status # "dead"
        <5>1. /\ registry' = [registry EXCEPT ![n][j].status = "dead"]
              /\ queue' = [queue EXCEPT ![n][j] =
                             Enqueue(queue[n][j], Report("dead", registry[n][j].inc))]
          BY <4>2, <2>3 DEF markDead
        <5>2. /\ [registry[n][j] EXCEPT !.status = "dead"] \in Member
              /\ Enqueue(queue[n][j], Report("dead", registry[n][j].inc)) \in Queued
          BY <2>1, <3>1
        <5> QED BY <5>1, <5>2
      <4> QED BY <4>1, <4>2
    <3> QED BY <2>3, <3>2 DEF markDead, faultVars
  <2> QED BY <1>6, <2>2, <2>3
<1>7. ASSUME NEW p \in net, Receive(p.to, p) PROVE TypeOK'
  <2> DEFINE n == p.to
             q == QueueAfter(n, p.updates)
             row == [j \in Nodes |-> MemberAfter(n, j, p.updates[j])]
  <2>1. n \in Nodes /\ p \in Packet /\ p.updates \in [Nodes -> Member]
    BY PacketTypes
  <2>2. /\ q \in [Nodes -> Queued] /\ row \in [Nodes -> Member]
        /\ TimersAfter(n, p.updates) \in SUBSET Nodes
        /\ IncarnationAfter(n, p.updates[n]) \in Nat
    BY <2>1, ApplyTypes
  <2>3. Replies(n, p, q, row) \subseteq Packet /\ Drained(q) \in [Nodes -> Queued]
    BY <2>1, <2>2, PacketTypes, QueueTypes
  <2>4. registry' \in [Nodes -> [Nodes -> Member]] /\ timers' \in [Nodes -> SUBSET Nodes]
        /\ incarnation' \in [Nodes -> Nat] /\ highest' \in [Nodes -> Nat]
    BY <1>7, <2>1, <2>2 DEF Receive, Apply
  <2>5. queue' \in [Nodes -> [Nodes -> Queued]] /\ net' \subseteq Packet
    <3>1. {Stamp(r) : r \in Replies(n, p, q, row)} \subseteq Packet
      BY <2>3, StampTypes
    <3>2. net' = (net \ {p}) \cup {Stamp(r) : r \in Replies(n, p, q, row)}
      BY <1>7 DEF Receive
    <3>3. queue' \in [Nodes -> [Nodes -> Queued]]
      BY <1>7, <2>1, <2>2, <2>3 DEF Receive
    <3> QED BY <3>1, <3>2, <3>3
  <2> QED BY <1>7, <2>4, <2>5 DEF Receive, faultVars
<1>8. ASSUME NEW p \in net, Discard(p) \/ Lose(p) PROVE TypeOK'
  BY <1>8, <1>0 DEF Discard, Lose, Spend, Bounds, faultVars
<1>9. ASSUME NEW n \in Nodes, SetFailed(n) \/ Recover(n) PROVE TypeOK'
  BY <1>9, <1>0, SMT DEF SetFailed, Recover, Spend, Bounds
<1>10. ASSUME NEW n \in Nodes, NEW j \in Nodes, PartitionNode(n, j) PROVE TypeOK'
  <2>1. spent' \in [Bounds -> Nat]
    BY <1>0, <1>10 DEF PartitionNode, Spend, Bounds
  <2> QED BY <1>10, <2>1 DEF PartitionNode
<1>11. CASE UNCHANGED vars
  BY <1>11 DEF vars
<1> QED BY <1>1, <1>2, <1>3, <1>4, <1>5, <1>6, <1>7, <1>8, <1>9, <1>10, <1>11 DEF Next

\* The protocol's state keeps its types: registries, timers, queues and packets are
\* about nodes, and incarnations and send counts are natural numbers.
THEOREM TypeCorrect == Spec => []TypeOK
<1>1. Init => TypeOK
  <2> SUFFICES ASSUME Init PROVE TypeOK
    OBVIOUS
  <2>1. AliveAt(0) \in Member /\ None \in Member /\ NotQueued \in Queued
    BY QueueTypes
  <2>2. registry \in [Nodes -> [Nodes -> Member]] /\ queue \in [Nodes -> [Nodes -> Queued]]
    BY <2>1 DEF Init
  <2> QED BY <2>2 DEF Init, TypeOK
<1> QED BY <1>1, TypeStep, PTL DEF Spec

-----------------------------------------------------------------------------

\* Queueing brings no incarnation that was not there.
LEMMA EnqueueInventsNone ==
  ASSUME NEW q \in Queued, NEW u \in Member
  PROVE  Enqueue(q, u).inc = q.inc \/ Enqueue(q, u).inc = u.inc
BY DEF Enqueue, Queued, Member

\* Neither does draining the queue, nor the updates that go along.
LEMMA DrainInventsNone ==
  ASSUME NEW row \in [Nodes -> Queued], NEW j \in Nodes
  PROVE  /\ Drained(row)[j].inc = 0 \/ Drained(row)[j].inc = row[j].inc
         /\ UpdatesOf(row)[j].inc = row[j].inc
<1>1. row[j] \in Queued
  OBVIOUS
<1>2. [row[j] EXCEPT !.sent = @ + 1].inc = row[j].inc
  BY <1>1 DEF Queued
<1>3. Drained(row)[j].inc = 0 \/ Drained(row)[j].inc = row[j].inc
  BY <1>2 DEF Drained, NotQueued
<1> QED BY <1>3 DEF UpdatesOf

\* An answer carries the queue's updates or the registry.
LEMMA RepliesInventNone ==
  ASSUME NEW n, NEW p, NEW q \in [Nodes -> Queued], NEW row,
         NEW r \in Replies(n, p, q, row), NEW j \in Nodes
  PROVE  r.updates[j].inc = q[j].inc \/ r.updates[j].inc = row[j].inc
<1>1. r.updates = UpdatesOf(q) \/ r.updates = row
  BY SMT DEF Replies, Pkt
<1> QED BY <1>1, DrainInventsNone

\* A record of the highest value seen is raised to a new value and never lowered.
LEMMA RaisedOnly ==
  ASSUME NEW f \in [Nodes -> Nat], NEW m \in Nodes, NEW v \in Nat, NEW g,
         g = [f EXCEPT ![m] = IF @ < v THEN v ELSE @]
  PROVE  v <= g[m] /\ \A j \in Nodes : g[j] \in Nat /\ f[j] <= g[j]
  BY SMT

\* No step gives a registry, queue or packet an incarnation its node has not had.
LEMMA NoInventedStep ==
  TypeOK /\ NoInventedIncarnation /\ [Next]_vars => NoInventedIncarnation'
<1> SUFFICES ASSUME TypeOK, NoInventedIncarnation, [Next]_vars PROVE NoInventedIncarnation'
  OBVIOUS
<1>0. TypeOK'
  BY TypeStep
<1>a. /\ \A j \in Nodes : highest[j] \in Nat /\ incarnation[j] \in Nat
      /\ \A n, j \in Nodes : /\ registry[n][j] \in Member /\ registry[n][j].inc \in Nat
                             /\ queue[n][j] \in Queued /\ queue[n][j].inc \in Nat
      /\ \A p \in net : p \in Packet
  BY SMT DEF TypeOK, Member, Queued
<1>1. ASSUME NEW n \in Nodes, Start(n) PROVE NoInventedIncarnation'
  <2>1. highest' = highest /\ \A j \in Nodes : incarnation'[j] <= highest'[j]
    BY <1>1, <1>a, SMT DEF Start, NoInventedIncarnation, TypeOK
  <2>2. \A j \in Nodes : Only(n, AliveAt(0))[j].inc = 0
    BY DEF Only, NoUpdates, None, AliveAt
  <2>3. \A m, j \in Nodes : registry'[m][j].inc <= highest'[j]
    BY <1>1, <1>a, <2>1, <2>2, SMT DEF Start, NoInventedIncarnation, TypeOK
  <2>4. Enqueue(NotQueued, AliveAt(0)).inc = 0
    BY DEF Enqueue, NotQueued, AliveAt
  <2>5. \A m, j \in Nodes : queue'[m][j].inc <= highest'[j]
    BY <1>1, <1>a, <2>1, <2>4, SMT DEF Start, NoInventedIncarnation, TypeOK, NotQueued
  <2>6. \A p \in net', j \in Nodes : p.updates[j].inc <= highest'[j]
    <3>1. Only(n, AliveAt(0)) \in [Nodes -> Member]
      BY QueueTypes DEF Only
    <3>2. \A s \in Seeds[n] : /\ Pkt("join", n, s, Only(n, AliveAt(0))) \in Packet
                              /\ Pkt("join", n, s, Only(n, AliveAt(0))).updates = Only(n, AliveAt(0))
      BY <3>1, PacketTypes, MembershipConstants DEF Pkt
    <3>3. \A p \in net' : p \in net \/ p.updates = Only(n, AliveAt(0))
      BY <1>1, <3>2, StampTypes, SMT DEF Start
    <3> QED BY <3>3, <1>a, <2>1, <2>2, SMT DEF NoInventedIncarnation
  <2> QED BY <2>1, <2>3, <2>5, <2>6 DEF NoInventedIncarnation
<1>2. ASSUME NEW n \in Nodes, Leave(n) PROVE NoInventedIncarnation'
  <2>1. highest' = highest /\ incarnation' = incarnation /\ net' = net
    BY <1>2 DEF Leave
  <2>2. \A m, j \in Nodes : registry'[m][j].inc = registry[m][j].inc
    BY <1>2, <1>a, SMT DEF Leave, TypeOK, Member
  <2>3. [status |-> "left", inc |-> incarnation[n]] \in Member
    BY <1>a DEF Member, Status
  <2>4. Enqueue(queue[n][n], [status |-> "left", inc |-> incarnation[n]]).inc
          \in {queue[n][n].inc, incarnation[n]}
    BY <1>a, <2>3, EnqueueInventsNone
  <2>5. \A m, j \in Nodes : queue'[m][j].inc <= highest'[j]
    BY <1>2, <1>a, <2>1, <2>4 DEF Leave, NoInventedIncarnation, TypeOK
  <2> QED BY <2>1, <2>2, <2>5 DEF NoInventedIncarnation
<1>3. ASSUME NEW n \in Nodes, Stopped(n) \/ Crash(n) PROVE NoInventedIncarnation'
  BY <1>3 DEF Stopped, Crash, NoInventedIncarnation
<1>4. ASSUME NEW n \in Nodes, NEW j \in Nodes, Ping(n, j) PROVE NoInventedIncarnation'
  <2>1. /\ UNCHANGED <<highest, incarnation, registry>>
        /\ queue' = [queue EXCEPT ![n] = Drained(queue[n])]
        /\ net' = net \cup {Stamp(Pkt("ping", n, j, UpdatesOf(queue[n])))}
    BY <1>4 DEF Ping
  <2>2. queue[n] \in [Nodes -> Queued]
    BY DEF TypeOK
  <2>3. \A i \in Nodes : /\ Drained(queue[n])[i].inc <= highest[i]
                         /\ UpdatesOf(queue[n])[i].inc <= highest[i]
    BY <1>a, <2>2, DrainInventsNone, SMT DEF NoInventedIncarnation
  <2>4. \A m, i \in Nodes : queue'[m][i].inc <= highest'[i]
    BY <2>1, <2>3 DEF NoInventedIncarnation, TypeOK
  <2>5. \A p \in net', i \in Nodes : p.updates[i].inc <= highest'[i]
    <3>1. /\ Pkt("ping", n, j, UpdatesOf(queue[n])) \in Packet
          /\ Pkt("ping", n, j, UpdatesOf(queue[n])).updates = UpdatesOf(queue[n])
      BY <2>2, PacketTypes, QueueTypes DEF Pkt
    <3>2. \A p \in net' : p \in net \/ p.updates = UpdatesOf(queue[n])
      BY <2>1, <3>1, StampTypes
    <3> QED BY <3>2, <2>1, <2>3 DEF NoInventedIncarnation
  <2> QED BY <2>1, <2>4, <2>5 DEF NoInventedIncarnation
<1>5. ASSUME NEW n \in Nodes, NEW j \in Nodes, NEW h \in Nodes, PingReq(n, j, h)
      PROVE  NoInventedIncarnation'
  <2>1. [Pkt("pingreq", n, h, NoUpdates) EXCEPT !.target = j].updates = NoUpdates
    BY DEF Pkt
  <2>2. \A i \in Nodes : NoUpdates[i].inc = 0
    BY DEF NoUpdates, None
  <2>3. \A p \in net' : p \in net \/ p.updates = NoUpdates
    <3>1. [Pkt("pingreq", n, h, NoUpdates) EXCEPT !.target = j] \in Packet
      BY PacketTypes, QueueTypes
    <3> QED BY <1>5, <2>1, <3>1, StampTypes DEF PingReq
  <2>4. \A p \in net', i \in Nodes : p.updates[i].inc <= highest[i]
    BY <1>a, <2>2, <2>3, SMT DEF NoInventedIncarnation
  <2> QED BY <1>5, <2>4 DEF PingReq, NoInventedIncarnation
<1>6. ASSUME NEW n \in Nodes, NEW j \in Nodes, markSuspect(n, j) \/ markDead(n, j)
      PROVE  NoInventedIncarnation'
  <2>1. UNCHANGED <<highest, incarnation, net>>
    BY <1>6 DEF markSuspect, markDead
  <2>2. \A m, i \in Nodes : registry'[m][i].inc = registry[m][i].inc
    <3>1. CASE registry' = registry
      BY <3>1
    <3>2. CASE \E s \in Status : registry' = [registry EXCEPT ![n][j].status = s]
      BY <3>2, <1>a, SMT DEF TypeOK, Member
    <3> QED BY <1>6, <3>1, <3>2 DEF markSuspect, markDead, Status
  <2>3. ASSUME NEW s \in Status
        PROVE  Enqueue(queue[n][j], Report(s, registry[n][j].inc)).inc
                 \in {queue[n][j].inc, registry[n][j].inc}
    <3>1. Report(s, registry[n][j].inc) \in Member
          /\ Report(s, registry[n][j].inc).inc = registry[n][j].inc
      BY <1>a, QueueTypes DEF Report
    <3> QED BY <1>a, <3>1, EnqueueInventsNone
  <2>4. \/ queue' = queue
        \/ \E s \in Status : queue' = [queue EXCEPT ![n][j] =
                               Enqueue(queue[n][j], Report(s, registry[n][j].inc))]
    BY <1>6 DEF markSuspect, markDead, Status
  <2>5. \A m, i \in Nodes : queue'[m][i].inc <= highest'[i]
    <3>1. CASE queue' = queue
      BY <2>1, <3>1 DEF NoInventedIncarnation
    <3>2. ASSUME NEW s \in Status, queue' = [queue EXCEPT ![n][j] =
                   Enqueue(queue[n][j], Report(s, registry[n][j].inc))]
          PROVE  \A m, i \in Nodes : queue'[m][i].inc <= highest'[i]
      <4>1. Enqueue(queue[n][j], Report(s, registry[n][j].inc)).inc <= highest[j]
        BY <2>3, <1>a DEF NoInventedIncarnation
      <4>2. \A m, i \in Nodes : queue[m][i].inc <= highest[i]
        BY DEF NoInventedIncarnation
      <4> QED BY <3>2, <4>1, <4>2, <2>1 DEF TypeOK
    <3> QED BY <2>4, <3>1, <3>2
  <2> QED BY <2>1, <2>2, <2>5 DEF NoInventedIncarnation
<1>8. ASSUME NEW p \in net, Discard(p) \/ Lose(p) PROVE NoInventedIncarnation'
  BY <1>8 DEF Discard, Lose, NoInventedIncarnation
<1>9. ASSUME NEW n \in Nodes, SetFailed(n) \/ Recover(n) PROVE NoInventedIncarnation'
  BY <1>9 DEF SetFailed, Recover, NoInventedIncarnation
<1>10. ASSUME NEW n \in Nodes, NEW j \in Nodes, PartitionNode(n, j)
       PROVE  NoInventedIncarnation'
  BY <1>10 DEF PartitionNode, NoInventedIncarnation
<1>11. CASE UNCHANGED vars
  BY <1>11 DEF vars, NoInventedIncarnation
<1>7. ASSUME NEW p \in net, Receive(p.to, p) PROVE NoInventedIncarnation'
  <2> DEFINE n == p.to
             us == p.updates
             q == QueueAfter(n, us)
             row == [j \in Nodes |-> MemberAfter(n, j, us[j])]
  <2>1. n \in Nodes /\ p \in Packet /\ us \in [Nodes -> Member]
    BY <1>a, PacketTypes
  <2>2. /\ q \in [Nodes -> Queued] /\ row \in [Nodes -> Member]
        /\ IncarnationAfter(n, us[n]) \in Nat
    BY <2>1, ApplyTypes
  <2>3. \A j \in Nodes : us[j] \in Member /\ us[j].inc \in Nat /\ us[j].inc <= highest[j]
    BY <2>1 DEF Member, NoInventedIncarnation
  <2>4. \A j \in Nodes : highest'[j] \in Nat /\ highest[j] <= highest'[j]
    <3>1. highest' = [highest EXCEPT ![n] = IF @ < IncarnationAfter(n, us[n])
                                            THEN IncarnationAfter(n, us[n]) ELSE @]
      BY <1>7 DEF Receive, Apply
    <3>2. highest \in [Nodes -> Nat]
      BY DEF TypeOK
    <3> HIDE DEF us, n
    <3> QED BY <2>1, <2>2, <3>1, <3>2, RaisedOnly
  <2>5. incarnation' = [incarnation EXCEPT ![n] = IncarnationAfter(n, us[n])]
        /\ IncarnationAfter(n, us[n]) <= highest'[n]
    <3>1. /\ incarnation' = [incarnation EXCEPT ![n] = IncarnationAfter(n, us[n])]
          /\ highest' = [highest EXCEPT ![n] = IF @ < IncarnationAfter(n, us[n])
                                               THEN IncarnationAfter(n, us[n]) ELSE @]
      BY <1>7 DEF Receive, Apply
    <3>2. highest \in [Nodes -> Nat]
      BY DEF TypeOK
    <3> HIDE DEF us, n
    <3> QED BY <2>1, <2>2, <3>1, <3>2, RaisedOnly
  <2>6. \A j \in Nodes : incarnation'[j] <= highest'[j]
    BY <2>1, <2>4, <2>5, <1>a, SMT DEF NoInventedIncarnation, TypeOK
  <2>7. ASSUME NEW j \in Nodes PROVE row[j].inc <= highest'[j]
    <3>1. row[j].inc \in {us[j].inc, registry[n][j].inc}
      <4>1. [registry[n][j] EXCEPT !.status = us[j].status].inc = registry[n][j].inc
        BY <1>a, <2>1, SMT DEF Member
      <4> QED BY <4>1 DEF MemberAfter
    <3> QED BY <3>1, <2>1, <2>3, <2>4, <1>a, SMT DEF NoInventedIncarnation
  <2>8. ASSUME NEW j \in Nodes PROVE q[j].inc <= highest'[j] /\ q[j].inc \in Nat
    <3>1. AliveAt(IncarnationAfter(n, us[n])) \in Member
          /\ AliveAt(IncarnationAfter(n, us[n])).inc = IncarnationAfter(n, us[n])
      BY <2>2, QueueTypes DEF AliveAt
    <3>2. queue[n][j] \in Queued /\ queue[n][n] \in Queued
      BY <1>a, <2>1
    <3>3. q[j].inc \in {queue[n][j].inc, us[j].inc}
            \/ (j = n /\ q[j].inc = IncarnationAfter(n, us[n]))
      <4>1. CASE j = n /\ Accuses(us[n])
        <5>1. q[j] = Enqueue(queue[n][n], AliveAt(IncarnationAfter(n, us[n])))
          BY <4>1 DEF QueueAfter
        <5> HIDE DEF q
        <5> QED BY <5>1, <4>1, <3>1, <3>2, EnqueueInventsNone
      <4>2. CASE ~(j = n /\ Accuses(us[n])) /\ Discovers(n, j, us[j])
        <5>1. q[j] = Enqueue(queue[n][j], us[j])
          BY <4>2 DEF QueueAfter
        <5> HIDE DEF q
        <5> QED BY <5>1, <3>2, <2>3, EnqueueInventsNone, SMT
      <4>3. CASE ~(j = n /\ Accuses(us[n])) /\ ~Discovers(n, j, us[j])
        BY <4>3 DEF QueueAfter
      <4> QED BY <4>1, <4>2, <4>3
    <3>4. /\ queue[n][j].inc \in Nat /\ queue[n][j].inc <= highest[j]
          /\ us[j].inc \in Nat /\ us[j].inc <= highest[j]
          /\ highest[j] \in Nat /\ highest'[j] \in Nat /\ highest[j] <= highest'[j]
      BY <1>a, <2>1, <2>3, <2>4 DEF NoInventedIncarnation
    <3>5. /\ IncarnationAfter(n, us[n]) \in Nat
          /\ IncarnationAfter(n, us[n]) <= highest'[n]
      BY <2>2, <2>5
    <3> HIDE DEF q, us, n
    <3>6. CASE q[j].inc = queue[n][j].inc
      BY <3>4, <3>6, SMT
    <3>7. CASE q[j].inc = us[j].inc
      BY <3>4, <3>7, SMT
    <3>8. CASE j = n /\ q[j].inc = IncarnationAfter(n, us[n])
      BY <3>5, <3>8
    <3> QED BY <3>3, <3>6, <3>7, <3>8
  <2>9. \A m, j \in Nodes : registry'[m][j].inc <= highest'[j]
    <3>1. registry' = [registry EXCEPT ![n] = row]
      BY <1>7 DEF Receive, Apply
    <3> HIDE DEF row
    <3> QED BY <3>1, <1>a, <2>1, <2>4, <2>7, SMT DEF NoInventedIncarnation, TypeOK
  <2>10. \A m, j \in Nodes : queue'[m][j].inc <= highest'[j]
    <3>1. queue' = [queue EXCEPT ![n] = q] \/ queue' = [queue EXCEPT ![n] = Drained(q)]
      BY <1>7 DEF Receive
    <3> HIDE DEF q
    <3>2. \A j \in Nodes : Drained(q)[j].inc <= highest'[j]
      BY <2>2, <2>4, <2>8, DrainInventsNone, SMT
    <3>3. \A m, j \in Nodes : queue[m][j].inc <= highest'[j]
      BY <1>a, <2>4, SMT DEF NoInventedIncarnation
    <3> QED BY <3>1, <3>2, <3>3, <2>1, <2>8 DEF TypeOK
  <2>11. \A r \in net', j \in Nodes : r.updates[j].inc <= highest'[j]
    <3>1. net' = (net \ {p}) \cup {Stamp(r) : r \in Replies(n, p, q, row)}
      BY <1>7 DEF Receive
    <3> HIDE DEF q, row
    <3>2. \A r \in Replies(n, p, q, row) : r \in Packet
      BY <2>1, <2>2, PacketTypes
    <3>3. \A r \in Replies(n, p, q, row), j \in Nodes : r.updates[j].inc <= highest'[j]
      BY <2>2, <2>7, <2>8, RepliesInventNone, SMT
    <3>4. \A r \in net, j \in Nodes : r.updates[j].inc <= highest'[j]
      <4>1. \A r \in net, j \in Nodes : r.updates[j].inc \in Nat
        BY <1>a, PacketTypes DEF Member
      <4> QED BY <4>1, <1>a, <2>4, SMT DEF NoInventedIncarnation
    <3>5. \A r \in net' : r \in net \/ \E o \in Replies(n, p, q, row) : r.updates = o.updates
      BY <3>1, <3>2, StampTypes, SMT
    <3> QED BY <3>3, <3>4, <3>5
  <2> QED BY <2>6, <2>9, <2>10, <2>11 DEF NoInventedIncarnation
<1> QED BY <1>1, <1>2, <1>3, <1>4, <1>5, <1>6, <1>7, <1>8, <1>9, <1>10, <1>11 DEF Next

\* In every cluster, only a node itself raises its incarnation: whatever a registry,
\* queue or packet says of a node, the node has had that incarnation (refute).
THEOREM IncarnationsAreTheirOwners == Spec => []NoInventedIncarnation
<1>1. Init => NoInventedIncarnation
  BY SMT DEF Init, NoInventedIncarnation, AliveAt, None, NotQueued
<1> QED BY <1>1, TypeCorrect, NoInventedStep, PTL DEF Spec

-----------------------------------------------------------------------------

\* What one packet does to the registry and the timers of the node that handles it.
LEMMA ReceiveEffect ==
  ASSUME TypeOK, NEW p \in net, Receive(p.to, p)
  PROVE  /\ p.to \in Nodes /\ phase' = phase
         /\ \A m \in Nodes \ {p.to} : registry'[m] = registry[m] /\ timers'[m] = timers[m]
         /\ \A j \in Nodes : registry'[p.to][j] = MemberAfter(p.to, j, p.updates[j])
         /\ timers'[p.to] = TimersAfter(p.to, p.updates)
<1>1. p.to \in Nodes
  BY PacketTypes DEF TypeOK
<1> QED BY <1>1 DEF Receive, Apply, TypeOK

\* No step makes a running node doubt itself.
LEMMA NeverDoubtsItselfStep ==
  TypeOK /\ NeverDoubtsItself /\ [Next]_vars => NeverDoubtsItself'
<1> SUFFICES ASSUME TypeOK, NeverDoubtsItself, [Next]_vars PROVE NeverDoubtsItself'
  OBVIOUS
<1> USE DEF NeverDoubtsItself, Running, TypeOK
<1>1. ASSUME NEW n \in Nodes, Start(n) PROVE NeverDoubtsItself'
  BY <1>1 DEF Start, Only, NoUpdates, AliveAt
<1>2. ASSUME NEW n \in Nodes, Leave(n) PROVE NeverDoubtsItself'
  <2>1. registry'[n][n].status = "left"
    BY <1>2, SMT DEF Leave, Member
  <2> QED BY <1>2, <2>1 DEF Leave
<1>3. ASSUME NEW n \in Nodes, Stopped(n) \/ Crash(n) PROVE NeverDoubtsItself'
  BY <1>3 DEF Stopped, Crash
<1>4. ASSUME NEW n \in Nodes, NEW j \in Nodes, Ping(n, j) PROVE NeverDoubtsItself'
  BY <1>4 DEF Ping
<1>5. ASSUME NEW n \in Nodes, NEW j \in Nodes, NEW h \in Nodes, PingReq(n, j, h)
      PROVE  NeverDoubtsItself'
  BY <1>5 DEF PingReq
<1>6. ASSUME NEW n \in Nodes, NEW j \in Nodes, markSuspect(n, j) PROVE NeverDoubtsItself'
  BY <1>6, SMT DEF markSuspect
<1>7. ASSUME NEW n \in Nodes, NEW j \in Nodes, markDead(n, j) PROVE NeverDoubtsItself'
  <2>1. j # n
    BY <1>7 DEF markDead
  <2>2. registry' = registry \/ registry' = [registry EXCEPT ![n][j].status = "dead"]
    BY <1>7 DEF markDead
  <2>3. ASSUME NEW m \in Nodes PROVE registry'[m][m] = registry[m][m]
    <3>1. CASE registry' = registry
      BY <3>1
    <3>2. CASE registry' = [registry EXCEPT ![n][j].status = "dead"] /\ m = n
      BY <2>1, <3>2
    <3>3. CASE registry' = [registry EXCEPT ![n][j].status = "dead"] /\ m # n
      BY <3>3
    <3> QED BY <2>2, <3>1, <3>2, <3>3
  <2> QED BY <1>7, <2>3 DEF markDead
<1>8. ASSUME NEW p \in net, Receive(p.to, p) PROVE NeverDoubtsItself'
  <2> DEFINE n == p.to
  <2>1. MemberAfter(n, n, p.updates[n]) = registry[n][n]
    BY DEF MemberAfter, Discovers, Revives, Suspects, Buries, Departs, Current
  <2>2. n \notin timers[n] => n \notin TimersAfter(n, p.updates)
    <3>1. ~Suspects(n, n, p.updates[n])
      BY DEF Suspects, Current
    <3> QED BY <3>1 DEF TimersAfter
  <2> QED BY <1>8, <2>1, <2>2, ReceiveEffect, SMT
<1>9. ASSUME NEW p \in net, Discard(p) \/ Lose(p) PROVE NeverDoubtsItself'
  BY <1>9 DEF Discard, Lose
<1>10. ASSUME NEW n \in Nodes, SetFailed(n) \/ Recover(n) PROVE NeverDoubtsItself'
  BY <1>10 DEF SetFailed, Recover
<1>11. ASSUME NEW n \in Nodes, NEW j \in Nodes, PartitionNode(n, j) PROVE NeverDoubtsItself'
  BY <1>11 DEF PartitionNode
<1>12. CASE UNCHANGED vars
  BY <1>12 DEF vars
<1> QED BY <1>1, <1>2, <1>3, <1>4, <1>5, <1>6, <1>7, <1>8, <1>9, <1>10, <1>11, <1>12 DEF Next

\* In every cluster, a running node holds itself alive until it leaves, whatever the
\* gossip says of it (applyUpdate turns reports about itself into refutations).
THEOREM NoSelfDoubt == Spec => []NeverDoubtsItself
<1>1. Init => NeverDoubtsItself
  BY SMT DEF Init, NeverDoubtsItself, Running, AliveAt
<1> QED BY <1>1, TypeCorrect, NeverDoubtsItselfStep, PTL DEF Spec

\* No step leaves a running node with a suspicion that has no timer.
LEMMA SuspicionIsTimedStep ==
  TypeOK /\ SuspicionIsTimed /\ [Next]_vars => SuspicionIsTimed'
<1> SUFFICES ASSUME TypeOK, SuspicionIsTimed, [Next]_vars PROVE SuspicionIsTimed'
  OBVIOUS
<1> USE DEF SuspicionIsTimed, Running, TypeOK
<1>1. ASSUME NEW n \in Nodes, Start(n) PROVE SuspicionIsTimed'
  <2>1. \A j \in Nodes : Only(n, AliveAt(0))[j].status # "suspect"
    BY DEF Only, NoUpdates, AliveAt, None
  <2> QED BY <1>1, <2>1 DEF Start
<1>2. ASSUME NEW n \in Nodes, Leave(n) PROVE SuspicionIsTimed'
  <2>1. \A m, j \in Nodes : registry'[m][j] = registry[m][j] \/ registry'[m][j].status = "left"
    BY <1>2, SMT DEF Leave, Member
  <2> QED BY <1>2, <2>1, SMT DEF Leave
<1>3. ASSUME NEW n \in Nodes, Stopped(n) \/ Crash(n) PROVE SuspicionIsTimed'
  BY <1>3 DEF Stopped, Crash
<1>4. ASSUME NEW n \in Nodes, NEW j \in Nodes, Ping(n, j) PROVE SuspicionIsTimed'
  BY <1>4 DEF Ping
<1>5. ASSUME NEW n \in Nodes, NEW j \in Nodes, NEW h \in Nodes, PingReq(n, j, h)
      PROVE  SuspicionIsTimed'
  BY <1>5 DEF PingReq
<1>6. ASSUME NEW n \in Nodes, NEW j \in Nodes, markSuspect(n, j) PROVE SuspicionIsTimed'
  <2>1. \A m, i \in Nodes : <<m, i>> # <<n, j>> => registry'[m][i] = registry[m][i]
    BY <1>6 DEF markSuspect
  <2>2. j \in timers'[n] /\ \A m \in Nodes : timers[m] \subseteq timers'[m]
    BY <1>6 DEF markSuspect
  <2> QED BY <1>6, <2>1, <2>2, SMT DEF markSuspect
<1>7. ASSUME NEW n \in Nodes, NEW j \in Nodes, markDead(n, j) PROVE SuspicionIsTimed'
  <2>1. registry'[n][j].status = "dead"
        /\ \A m, i \in Nodes : <<m, i>> # <<n, j>> => registry'[m][i] = registry[m][i]
    BY <1>7, SMT DEF markDead, Member
  <2>2. \A m, i \in Nodes : <<m, i>> # <<n, j>> /\ i \in timers[m] => i \in timers'[m]
    BY <1>7 DEF markDead
  <2> QED BY <1>7, <2>1, <2>2, SMT DEF markDead
<1>8. ASSUME NEW p \in net, Receive(p.to, p) PROVE SuspicionIsTimed'
  <2> DEFINE n == p.to
  <2>1. ASSUME NEW j \in Nodes, Running(n),
               MemberAfter(n, j, p.updates[j]).status = "suspect"
        PROVE  j \in TimersAfter(n, p.updates)
    <3>1. n \in Nodes /\ registry[n][j] \in Member
      BY <1>8, ReceiveEffect, SMT
    <3>2. CASE Suspects(n, j, p.updates[j])
      BY <3>2 DEF TimersAfter
    <3>3. CASE ~Suspects(n, j, p.updates[j])
      <4>1. ~Discovers(n, j, p.updates[j]) /\ ~Revives(n, j, p.updates[j])
        BY <2>1 DEF MemberAfter, Discovers, Revives
      <4>2. ~Buries(n, j, p.updates[j]) /\ ~Departs(n, j, p.updates[j])
        BY <2>1, <3>1, <4>1 DEF MemberAfter, Buries, Departs, Member
      <4>3. registry[n][j].status = "suspect"
        BY <2>1, <3>3, <4>1, <4>2 DEF MemberAfter
      <4> QED BY <2>1, <3>1, <4>1, <4>2, <4>3 DEF TimersAfter
    <3> QED BY <3>2, <3>3
  <2>2. /\ n \in Nodes /\ phase' = phase
        /\ \A m \in Nodes \ {n} : registry'[m] = registry[m] /\ timers'[m] = timers[m]
        /\ \A j \in Nodes : registry'[n][j] = MemberAfter(n, j, p.updates[j])
        /\ timers'[n] = TimersAfter(n, p.updates)
    BY <1>8, ReceiveEffect
  <2>3. ASSUME NEW m \in Nodes, NEW j \in Nodes,
               phase[m] # "down", registry'[m][j].status = "suspect"
        PROVE  j \in timers'[m]
    <3>1. CASE m = n
      BY <3>1, <2>1, <2>2, <2>3, SMT
    <3>2. CASE m # n
      BY <3>2, <2>2, <2>3
    <3> QED BY <3>1, <3>2
  <2> QED BY <2>2, <2>3
<1>9. ASSUME NEW p \in net, Discard(p) \/ Lose(p) PROVE SuspicionIsTimed'
  BY <1>9 DEF Discard, Lose
<1>10. ASSUME NEW n \in Nodes, SetFailed(n) \/ Recover(n) PROVE SuspicionIsTimed'
  BY <1>10 DEF SetFailed, Recover
<1>11. ASSUME NEW n \in Nodes, NEW j \in Nodes, PartitionNode(n, j) PROVE SuspicionIsTimed'
  BY <1>11 DEF PartitionNode
<1>12. CASE UNCHANGED vars
  BY <1>12 DEF vars
<1> QED BY <1>1, <1>2, <1>3, <1>4, <1>5, <1>6, <1>7, <1>8, <1>9, <1>10, <1>11, <1>12 DEF Next

\* In every cluster, a suspicion, own or hearsay, has a timer running against it as long
\* as it lasts (markSuspect, markSuspectLocked, applyUpdate and markDead together).
THEOREM EverySuspicionTimed == Spec => []SuspicionIsTimed
<1>1. Init => SuspicionIsTimed
  BY SMT DEF Init, SuspicionIsTimed, AliveAt, None
<1> QED BY <1>1, TypeCorrect, SuspicionIsTimedStep, PTL DEF Spec

-----------------------------------------------------------------------------

\* What a running node has on record of a peer advances, or the record stays.
Advances(n, j) ==
  Running(n) /\ Running(n)' /\ Known(n, j) =>
    registry'[n][j].status # "none" /\ registry'[n][j].inc >= registry[n][j].inc

\* No step takes a running node's record of a peer back: applyUpdate ignores what is older.
LEMMA AdvancesStep ==
  ASSUME TypeOK, Next, NEW n \in Nodes, NEW j \in Nodes
  PROVE  Advances(n, j)
<1>0. /\ registry[n][j] \in Member /\ registry[n][j].inc \in Nat
      /\ \A s \in Status : [registry[n][j] EXCEPT !.status = s].inc = registry[n][j].inc
    BY SMT DEF TypeOK, Member
<1>1. ASSUME registry'[n][j] = registry[n][j]
             \/ \E s \in Status : registry'[n][j] = [registry[n][j] EXCEPT !.status = s]
      PROVE  Advances(n, j)
  BY <1>0, <1>1, SMT DEF Advances, Known, Member, Status
<1>2. ASSUME NEW m \in Nodes, Start(m) PROVE Advances(n, j)
  BY <1>0, <1>2, SMT DEF Start, Advances, Running, Known, TypeOK
<1>3. ASSUME NEW m \in Nodes, Leave(m) PROVE Advances(n, j)
  <2>1. registry' = [registry EXCEPT ![m][m].status = "left"] /\ "left" \in Status
    BY <1>3 DEF Leave, Status
  <2> QED BY <1>1, <2>1 DEF TypeOK
<1>4. ASSUME NEW m \in Nodes, NEW i \in Nodes, markSuspect(m, i) \/ markDead(m, i)
      PROVE  Advances(n, j)
  <2>1. registry' = registry
          \/ \E s \in Status : registry' = [registry EXCEPT ![m][i].status = s]
    BY <1>4 DEF markSuspect, markDead, Status
  <2>2. CASE registry' = registry
    BY <1>1, <2>2
  <2>3. ASSUME NEW s \in Status, registry' = [registry EXCEPT ![m][i].status = s]
        PROVE  registry'[n][j] = registry[n][j]
               \/ registry'[n][j] = [registry[n][j] EXCEPT !.status = s]
    BY <2>3 DEF TypeOK
  <2> QED BY <1>1, <2>1, <2>2, <2>3
<1>5. ASSUME NEW p \in net, Receive(p.to, p) PROVE Advances(n, j)
  <2>1. /\ p.to \in Nodes /\ (n # p.to => registry'[n] = registry[n])
        /\ n = p.to => registry'[n][j] = MemberAfter(n, j, p.updates[j])
    BY <1>5, ReceiveEffect
  <2>2. p.updates[j] \in Member
    BY PacketTypes DEF TypeOK
  <2>3. CASE n # p.to
    BY <1>1, <2>1, <2>3
  <2>4. CASE n = p.to /\ (Discovers(n, j, p.updates[j]) \/ Revives(n, j, p.updates[j]))
    <3>1. registry'[n][j] = p.updates[j]
      BY <2>1, <2>4 DEF MemberAfter
    <3>2. Known(n, j) => p.updates[j].status = "alive" /\ p.updates[j].inc >= registry[n][j].inc
      BY <2>4 DEF Discovers, Revives, Current
    <3> QED BY <3>1, <3>2 DEF Advances
  <2>5. CASE n = p.to /\ ~(Discovers(n, j, p.updates[j]) \/ Revives(n, j, p.updates[j]))
    <3>1. \/ registry'[n][j] = registry[n][j]
          \/ /\ Current(n, j, p.updates[j])
             /\ registry'[n][j] = [registry[n][j] EXCEPT !.status = p.updates[j].status]
      BY <2>1, <2>5 DEF MemberAfter, Suspects, Buries, Departs
    <3>2. Current(n, j, p.updates[j]) => p.updates[j].status \in Status
      BY <2>2 DEF Current, Member
    <3>3. CASE registry'[n][j] = registry[n][j]
      BY <1>1, <3>3
    <3>4. CASE \E s \in Status : registry'[n][j] = [registry[n][j] EXCEPT !.status = s]
      BY <1>1, <3>4
    <3> QED BY <3>1, <3>2, <3>3, <3>4
  <2> QED BY <2>3, <2>4, <2>5
<1>6. ASSUME UNCHANGED registry PROVE Advances(n, j)
  BY <1>1, <1>6
<1>7. ASSUME NEW m \in Nodes, Stopped(m) \/ Crash(m) \/ SetFailed(m) \/ Recover(m)
      PROVE  UNCHANGED registry
  BY <1>7 DEF Stopped, Crash, SetFailed, Recover
<1>8. ASSUME NEW m \in Nodes, NEW i \in Nodes,
             Ping(m, i) \/ PartitionNode(m, i) \/ \E h \in Nodes : PingReq(m, i, h)
      PROVE  UNCHANGED registry
  BY <1>8 DEF Ping, PartitionNode, PingReq
<1>9. ASSUME NEW p \in net, Discard(p) \/ Lose(p) PROVE UNCHANGED registry
  BY <1>9 DEF Discard, Lose
<1> QED BY <1>2, <1>3, <1>4, <1>5, <1>6, <1>7, <1>8, <1>9 DEF Next

\* In every cluster, a running node never forgets a peer and never goes back to an older
\* incarnation of it: applyUpdate drops what is older than the record.
THEOREM RecordsAdvance == Spec => RecordsOnlyAdvance
<1>1. TypeOK /\ [Next]_vars =>
        [\A n, j \in Nodes :
           Running(n) /\ Running(n)' /\ Known(n, j) =>
             registry'[n][j].status # "none" /\ registry'[n][j].inc >= registry[n][j].inc]_vars
  BY AdvancesStep DEF Advances
<1> QED BY <1>1, TypeCorrect, PTL DEF Spec, RecordsOnlyAdvance

-----------------------------------------------------------------------------

\* A join message tells of its sender, alive at the incarnation of a fresh process.
IsJoin(p) == p.kind = "join" => p.updates[p.from] = AliveAt(0)
JoinsAreFresh == \A p \in net : IsJoin(p)

\* Nothing but JoinCluster sends a join message.
LEMMA JoinsAreFreshStep == TypeOK /\ JoinsAreFresh /\ [Next]_vars => JoinsAreFresh'
<1> SUFFICES ASSUME TypeOK, JoinsAreFresh, [Next]_vars PROVE JoinsAreFresh'
  OBVIOUS
<1>1. ASSUME \A p \in net' : p \in net \/ IsJoin(p) PROVE JoinsAreFresh'
  BY <1>1 DEF JoinsAreFresh, IsJoin
<1>2. ASSUME NEW p \in Packet, IsJoin(p) PROVE IsJoin(Stamp(p))
  BY <1>2, StampTypes DEF IsJoin
<1>3. \A n \in Nodes : /\ Only(n, AliveAt(0)) \in [Nodes -> Member]
                      /\ Only(n, AliveAt(0))[n] = AliveAt(0)
  BY QueueTypes DEF Only, NoUpdates
<1>4. ASSUME NEW n \in Nodes, Start(n) PROVE JoinsAreFresh'
  <2>1. \A s \in Nodes : /\ Pkt("join", n, s, Only(n, AliveAt(0))) \in Packet
                         /\ IsJoin(Pkt("join", n, s, Only(n, AliveAt(0))))
    BY <1>3, PacketTypes DEF Pkt, IsJoin
  <2>2. \A s \in Seeds[n] : IsJoin(Stamp(Pkt("join", n, s, Only(n, AliveAt(0)))))
    BY <1>2, <2>1, MembershipConstants
  <2>3. net' = net \cup {Stamp(Pkt("join", n, s, Only(n, AliveAt(0)))) : s \in Seeds[n]}
    BY <1>4 DEF Start
  <2> QED BY <1>1, <2>2, <2>3
<1>5. ASSUME NEW n \in Nodes, NEW j \in Nodes, Ping(n, j) PROVE JoinsAreFresh'
  <2> DEFINE q == Pkt("ping", n, j, UpdatesOf(queue[n]))
  <2>1. UpdatesOf(queue[n]) \in [Nodes -> Member]
    BY QueueTypes DEF TypeOK
  <2>2. q \in Packet /\ IsJoin(q)
    BY <2>1, PacketTypes DEF Pkt, IsJoin
  <2>3. net' = net \cup {Stamp(q)}
    BY <1>5 DEF Ping
  <2> HIDE DEF q
  <2> QED BY <1>1, <1>2, <2>2, <2>3
<1>6. ASSUME NEW n \in Nodes, NEW j \in Nodes, NEW h \in Nodes, PingReq(n, j, h)
      PROVE  JoinsAreFresh'
  <2> DEFINE q == [Pkt("pingreq", n, h, NoUpdates) EXCEPT !.target = j]
  <2>1. NoUpdates \in [Nodes -> Member]
    BY QueueTypes DEF NoUpdates
  <2>2. q \in Packet /\ IsJoin(q)
    BY <2>1, PacketTypes DEF Pkt, IsJoin
  <2>3. net' = net \cup {Stamp(q)}
    BY <1>6 DEF PingReq
  <2> HIDE DEF q
  <2> QED BY <1>1, <1>2, <2>2, <2>3
<1>7. ASSUME NEW p \in net, Receive(p.to, p) PROVE JoinsAreFresh'
  <2> DEFINE n == p.to
             q == QueueAfter(n, p.updates)
             row == [j \in Nodes |-> MemberAfter(n, j, p.updates[j])]
             out == Replies(n, p, q, row)
  <2>1. p \in Packet /\ n \in Nodes /\ p.updates \in [Nodes -> Member]
    BY PacketTypes DEF TypeOK
  <2>2. q \in [Nodes -> Queued] /\ row \in [Nodes -> Member]
    BY <2>1, ApplyTypes
  <2>3. out \subseteq Packet
    BY <2>1, <2>2, PacketTypes
  <2>4. \A r \in out : IsJoin(r)
    BY SMT DEF Replies, Pkt, IsJoin
  <2>5. net' = (net \ {p}) \cup {Stamp(r) : r \in out}
    BY <1>7 DEF Receive
  <2> HIDE DEF out
  <2> QED BY <1>1, <1>2, <2>3, <2>4, <2>5
<1>8. ASSUME net' \subseteq net PROVE JoinsAreFresh'
  BY <1>8 DEF JoinsAreFresh
<1>9. ASSUME NEW n \in Nodes,
             \/ Leave(n) \/ Stopped(n) \/ Crash(n) \/ SetFailed(n) \/ Recover(n)
             \/ \E j \in Nodes : markSuspect(n, j) \/ markDead(n, j) \/ PartitionNode(n, j)
      PROVE  net' \subseteq net
  BY <1>9 DEF Leave, Stopped, Crash, SetFailed, Recover, markSuspect, markDead, PartitionNode
<1>10. ASSUME (\E p \in net : Discard(p) \/ Lose(p)) \/ UNCHANGED vars PROVE net' \subseteq net
  BY <1>10 DEF Discard, Lose, vars
<1> QED BY <1>4, <1>5, <1>6, <1>7, <1>8, <1>9, <1>10 DEF Next

\* What a node has on record of another one whose join message it has handled.
Admitted(u) == u.status = "alive" \/ Accuses(u) \/ (u.status = "left" /\ u.inc > 0)

\* applyUpdate takes the join for news unless the record has a higher incarnation.
LEMMA JoinAdmits ==
  ASSUME TypeOK, JoinsAreFresh, NEW p \in net, p.kind = "join", p.from # p.to, Receive(p.to, p)
  PROVE  Admitted(registry'[p.to][p.from])
<1> DEFINE n == p.to
           j == p.from
           old == registry[n][j]
<1>1. n \in Nodes /\ j \in Nodes /\ j # n /\ p.updates[j] = AliveAt(0)
  BY PacketTypes DEF TypeOK, JoinsAreFresh, IsJoin
<1>2. registry'[n][j] = MemberAfter(n, j, AliveAt(0))
  BY <1>1, ReceiveEffect
<1>3. old.status \in Status \cup {"none"} /\ old.inc \in Nat
  BY <1>1, SMT DEF TypeOK, Member
<1>4. AliveAt(0).status = "alive" /\ AliveAt(0).inc = 0
  BY DEF AliveAt
<1> HIDE DEF n, j
<1>5. CASE old.status = "none" \/ (old.inc = 0 /\ old.status # "alive")
  <2>1. Discovers(n, j, AliveAt(0)) \/ Revives(n, j, AliveAt(0))
    BY <1>1, <1>3, <1>4, <1>5, SMT DEF Discovers, Revives, Current, Known
  <2>2. registry'[n][j] = AliveAt(0)
    BY <1>2, <2>1 DEF MemberAfter
  <2> QED BY <1>4, <2>2 DEF Admitted, n, j
<1>6. CASE ~(old.status = "none" \/ (old.inc = 0 /\ old.status # "alive"))
  <2>1. ~Discovers(n, j, AliveAt(0)) /\ ~Revives(n, j, AliveAt(0))
    BY <1>1, <1>3, <1>4, <1>6, SMT DEF Discovers, Revives, Current, Known
  <2>2. registry'[n][j] = old
    BY <1>2, <1>4, <2>1 DEF MemberAfter, Suspects, Buries, Departs
  <2>3. old.status = "alive" \/ old.status \in {"suspect", "dead"}
        \/ (old.status = "left" /\ old.inc > 0)
    BY <1>3, <1>6, SMT DEF Status
  <2> QED BY <2>2, <2>3 DEF Admitted, Accuses, n, j
<1> QED BY <1>5, <1>6

\* In every cluster, a node that handles a join of another has it on record as alive,
\* or as something the joining node refutes, unless it left under a higher incarnation.
THEOREM JoinsAreAdmitted == Spec => OnlyDepartureBarsJoin
<1>1. Init => JoinsAreFresh
  BY DEF Init, JoinsAreFresh
<1>2. TypeOK /\ JoinsAreFresh /\ [Next]_vars =>
        [\A p \in net : p.kind = "join" /\ p.from # p.to /\ Receive(p.to, p) =>
           LET u == registry'[p.to][p.from]
           IN  u.status = "alive" \/ Accuses(u) \/ (u.status = "left" /\ u.inc > 0)]_vars
  BY JoinAdmits DEF Admitted
<1> QED BY <1>1, <1>2, TypeCorrect, JoinsAreFreshStep, PTL DEF Spec, OnlyDepartureBarsJoin
=============================================================================
