------------------------- MODULE ReplicationProofs -------------------------
(***************************************************************************)
(* Proofs about Replication, for any number of nodes, keys and calls.      *)
(***************************************************************************)
EXTENDS Replication, FiniteSetTheorems, TLAPS

(***************************************************************************)
(* The fan-out of ReplicateWrite keeps the types: its requests are         *)
(* well-formed and its counter is a number.                                *)
(***************************************************************************)
LEMMA ReplicatingTypes ==
  ASSUME TypeOK, NEW n \in Nodes, NEW k \in Keys, NEW v \in Values,
         Replicating(n, k, v)
  PROVE  sends' \subseteq Request /\ sequence' \in [Nodes -> Nat]
<1>1. getSecondaries(n, k) \subseteq Nodes
  BY DEF TypeOK, getSecondaries, GetNodes
<1>2. \A s \in getSecondaries(n, k) :
        [from |-> n, to |-> s, key |-> k, val |-> v, seq |-> sequence[n] + 1,
         sent |-> FALSE] \in Request
  BY <1>1 DEF TypeOK, Request
<1>3. sends' \subseteq Request
  BY <1>2 DEF TypeOK, Replicating
<1>4. sequence' \in [Nodes -> Nat]
  BY DEF TypeOK, Replicating
<1> QED
  BY <1>3, <1>4

(***************************************************************************)
(* Every step keeps the types.                                             *)
(***************************************************************************)
LEMMA TypeStep == TypeOK /\ [Next]_vars => TypeOK'
<1> SUFFICES ASSUME TypeOK, [Next]_vars PROVE TypeOK'
  OBVIOUS
<1>1. ASSUME NEW c \in Clients, Begin(c) PROVE TypeOK'
  <2>1. issued \in Nat /\ issued < MaxCalls /\ MaxCalls \in Nat
    BY <1>1, ReplicationConstants DEF Begin, TypeOK
  <2>2. PICK op \in Ops, k \in Keys, n \in up :
          calls' = [calls EXCEPT ![c] =
            [op |-> op, key |-> k, val |-> IF op = "set" THEN issued + 1 ELSE Absent,
             at |-> n, to |-> n, via |-> {}, stage |-> "route"]]
    BY <1>1 DEF Begin
  <2>3. (IF op = "set" THEN issued + 1 ELSE Absent) \in Values
    BY <2>1 DEF Values, Absent
  <2>4. calls' \in [Clients -> Call \cup {Idle}]
    BY <2>2, <2>3 DEF TypeOK, Call
  <2> QED
    BY <1>1, <2>1, <2>4 DEF Begin, TypeOK, events, faults
<1>2. ASSUME NEW c \in Clients, At(c, "route") \/ At(c, "proxy") \/ At(c, "local")
                                  \/ At(c, "written") \/ At(c, "primary")
      PROVE  calls[c] \in Call
  BY <1>2 DEF At, TypeOK
<1>3. ASSUME NEW c \in Clients, calls[c] \in Call,
             NEW s \in {"route", "proxy", "local", "written", "primary"},
             Goto(c, s) \/ Return(c)
      PROVE  calls' \in [Clients -> Call \cup {Idle}]
  <2>1. [calls[c] EXCEPT !.stage = s] \in Call
    BY <1>3 DEF Call
  <2>2. CASE Goto(c, s)
    BY <2>1, <2>2 DEF Goto, TypeOK
  <2>3. CASE Return(c)
    BY <2>3 DEF Return, TypeOK
  <2> QED
    BY <1>3, <2>2, <2>3
<1>4. ASSUME NEW c \in Clients, Route(c) PROVE TypeOK'
  <2>1. calls[c] \in Call
    BY <1>2, <1>4 DEF Route
  <2>2. calls' \in [Clients -> Call \cup {Idle}]
    <3>1. CASE Goto(c, "local")
      BY <2>1, <3>1, <1>3
    <3>2. ASSUME NEW p \in ring[calls[c].at],
                 calls' = [calls EXCEPT ![c].to = p, ![c].stage = "proxy"]
          PROVE  calls' \in [Clients -> Call \cup {Idle}]
      <4>1. p \in Nodes
        BY <2>1 DEF TypeOK, Call
      <4>2. [calls[c] EXCEPT !.to = p, !.stage = "proxy"] \in Call
        BY <2>1, <4>1 DEF Call
      <4>3. calls \in [Clients -> Call \cup {Idle}]
        BY DEF TypeOK
      <4>4. calls' = [calls EXCEPT ![c] = [calls[c] EXCEPT !.to = p, !.stage = "proxy"]]
        BY <3>2, <4>3
      <4> QED BY <4>2, <4>3, <4>4
    <3> QED
      BY <1>4, <3>1, <3>2 DEF Route
  <2> QED
    BY <1>4, <2>2 DEF Route, TypeOK, events, faults
<1>5. ASSUME NEW c \in Clients, Proxy(c) PROVE TypeOK'
  <2>1. calls[c] \in Call
    BY <1>2, <1>5 DEF Proxy
  <2>2. calls' \in [Clients -> Call \cup {Idle}]
    <3>1. CASE Goto(c, "local") \/ Return(c)
      BY <2>1, <3>1, <1>3
    <3>2. CASE calls' = [calls EXCEPT ![c].at = calls[c].to,
                           ![c].via = @ \cup {calls[c].at}, ![c].stage = "route"]
      <4> DEFINE d == [calls[c] EXCEPT !.at = calls[c].to, !.via = @ \cup {calls[c].at},
                                       !.stage = "route"]
      <4>1. d \in Call
        BY <2>1 DEF Call
      <4>2. calls \in [Clients -> Call \cup {Idle}]
        BY DEF TypeOK
      <4>3. calls' = [calls EXCEPT ![c] = d]
        BY <3>2, <4>2
      <4> HIDE DEF d
      <4> QED BY <4>1, <4>2, <4>3
    <3> QED
      BY <1>5, <3>1, <3>2 DEF Proxy
  <2> QED
    BY <1>5, <2>2 DEF Proxy, TypeOK, events, faults
<1>6. ASSUME NEW c \in Clients, Perform(c) PROVE TypeOK'
  <2>1. calls[c] \in Call
    BY <1>2, <1>6 DEF Perform
  <2>2. Goto(c, "written") \/ Return(c)
    BY <1>6 DEF Perform
  <2>3. calls' \in [Clients -> Call \cup {Idle}]
    BY <1>3, <2>1, <2>2
  <2>4. calls[c].at \in Nodes /\ calls[c].key \in Keys /\ calls[c].val \in Values
    BY <2>1 DEF Call
  <2>5. \/ UNCHANGED store
        \/ store' = [store EXCEPT ![calls[c].at][calls[c].key] = calls[c].val]
    BY <1>6 DEF Perform
  <2>6. store' \in [Nodes -> [Keys -> Values]]
    <3>1. store \in [Nodes -> [Keys -> Values]]
      BY DEF TypeOK
    <3>2. ASSUME NEW n \in Nodes, NEW k \in Keys, NEW v \in Values
          PROVE  [store EXCEPT ![n][k] = v] \in [Nodes -> [Keys -> Values]]
      BY <3>1
    <3>3. CASE UNCHANGED store
      BY <3>1, <3>3
    <3>4. CASE store' = [store EXCEPT ![calls[c].at][calls[c].key] = calls[c].val]
      <4>1. [store EXCEPT ![calls[c].at][calls[c].key] = calls[c].val]
              \in [Nodes -> [Keys -> Values]]
        BY <2>4, <3>2
      <4> QED BY <3>4, <4>1
    <3> QED BY <2>5, <3>3, <3>4
  <2> QED
    BY <1>6, <2>3, <2>6 DEF Perform, TypeOK, events, faults
<1>7. ASSUME NEW c \in Clients, CheckPrimary(c) PROVE TypeOK'
  <2>1. calls[c] \in Call
    BY <1>2, <1>7 DEF CheckPrimary
  <2>2. calls' \in [Clients -> Call \cup {Idle}]
    BY <1>3, <1>7, <2>1 DEF CheckPrimary
  <2> QED
    BY <1>7, <2>2 DEF CheckPrimary, TypeOK, events, faults
<1>8. ASSUME NEW c \in Clients, Replicate(c) PROVE TypeOK'
  <2>1. calls[c] \in Call
    BY <1>2, <1>8 DEF Replicate
  <2>2. calls' \in [Clients -> Call \cup {Idle}]
    BY <1>3, <1>8, <2>1 DEF Replicate
  <2>3. /\ calls[c].at \in Nodes /\ calls[c].key \in Keys /\ calls[c].val \in Values
        /\ store[calls[c].at][calls[c].key] \in Values
    BY <2>1 DEF TypeOK, Call
  <2>4. \/ Replicating(calls[c].at, calls[c].key, calls[c].val)
        \/ Replicating(calls[c].at, calls[c].key, store[calls[c].at][calls[c].key])
        \/ UNCHANGED <<sends, sequence>>
    BY <1>8 DEF Replicate
  <2>5. sends' \subseteq Request /\ sequence' \in [Nodes -> Nat]
    BY <2>3, <2>4, ReplicatingTypes DEF TypeOK
  <2> QED
    BY <1>8, <2>2, <2>5 DEF Replicate, TypeOK, events, faults
<1>9. ASSUME NEW m \in sends, Send(m) PROVE TypeOK'
  <2>0. m \in Request
    BY DEF TypeOK
  <2>1. [m EXCEPT !.sent = TRUE] \in Request
    BY <2>0 DEF Request
  <2>2. sends' \subseteq Request
    BY <1>9, <2>1 DEF Send, TypeOK
  <2> QED
    BY <1>9, <2>2 DEF Send, TypeOK, events, faults
<1>10. ASSUME NEW m \in sends, HandleReplicate(m) PROVE TypeOK'
  <2>1. m.to \in Nodes /\ m.key \in Keys /\ m.val \in Values
    BY DEF TypeOK, Request
  <2>2. store' \in [Nodes -> [Keys -> Values]]
    BY <1>10, <2>1 DEF HandleReplicate, TypeOK
  <2> QED
    BY <1>10, <2>2 DEF HandleReplicate, TypeOK, events, faults
<1>11. ASSUME NEW m \in sends, Fail(m) PROVE TypeOK'
  <2>1. losses' \in Nat
    BY <1>11 DEF Fail, TypeOK
  <2> QED
    BY <1>11, <2>1 DEF Fail, TypeOK, events, faults
<1>12. ASSUME NEW n \in Nodes, NEW j \in Nodes, AddNode(n, j) PROVE TypeOK'
  BY <1>12 DEF AddNode, TypeOK, faults
<1>13. ASSUME NEW n \in Nodes, NEW j \in Nodes, ConnectToPeer(n, j) PROVE TypeOK'
  BY <1>13 DEF ConnectToPeer, TypeOK, faults
<1>14. ASSUME NEW n \in Nodes, NEW j \in Nodes, RemoveNode(n, j) PROVE TypeOK'
  BY <1>14 DEF RemoveNode, TypeOK, faults
<1>15. ASSUME NEW n \in Nodes, NEW j \in Nodes, HandleNodeFailure(n, j) PROVE TypeOK'
  BY <1>15 DEF HandleNodeFailure, TypeOK, faults
<1>16. ASSUME NEW n \in Nodes, NEW x \in Nodes, NEW k \in Keys, reReplicate(n, x, k)
       PROVE  TypeOK'
  <2>1. jobs' \subseteq Job
    BY <1>16 DEF reReplicate, TypeOK, Job
  <2> QED
    BY <1>16, <2>1 DEF reReplicate, TypeOK, faults
<1>17. ASSUME NEW j \in jobs, RunJob(j) PROVE TypeOK'
  <2>1. j.node \in Nodes /\ j.key \in Keys /\ j.val \in Values
    BY DEF TypeOK, Job
  <2>2. sends' \subseteq Request /\ sequence' \in [Nodes -> Nat]
    BY <1>17, <2>1, ReplicatingTypes DEF RunJob
  <2> QED
    BY <1>17, <2>2 DEF RunJob, TypeOK, events, faults
<1>18. ASSUME NEW n \in Nodes, Crash(n) PROVE TypeOK'
  <2>1. calls' \in [Clients -> Call \cup {Idle}]
    BY <1>18 DEF Crash, TypeOK, faults
  <2> QED
    BY <1>18, <2>1 DEF Crash, TypeOK, faults
<1>19. ASSUME NEW n \in Nodes, Start(n) PROVE TypeOK'
  <2>1. Absent \in Values
    BY ReplicationConstants DEF Values, Absent
  <2> QED
    BY <1>19, <2>1 DEF Start, TypeOK, faults
<1>20. CASE UNCHANGED vars
  BY <1>20 DEF vars, events, faults, TypeOK
<1> QED
  BY <1>1, <1>4, <1>5, <1>6, <1>7, <1>8, <1>9, <1>10, <1>11, <1>12, <1>13, <1>14,
     <1>15, <1>16, <1>17, <1>18, <1>19, <1>20 DEF Next

(***************************************************************************)
(* Type correctness: calls, Replicate requests, rings and stores stay      *)
(* well-formed through every handler, event, crash and start.              *)
(***************************************************************************)
THEOREM TypeCorrect == Spec => []TypeOK
<1>1. Init => TypeOK
  BY ReplicationConstants DEF Init, TypeOK, Values, Absent, Idle
<1> QED
  BY <1>1, TypeStep, PTL DEF Spec


(***************************************************************************)
(* The inductive invariant behind NoForwardingLoop.  A node is always on   *)
(* its own ring, so it proxies only to nodes strictly closer to the key    *)
(* than itself: the nodes a call has left are all farther away than the    *)
(* node it is at.                                                          *)
(***************************************************************************)
Closer(k, m, n) == Pos[k][m] < Pos[k][n]

Descends ==
  /\ \A n \in Nodes : n \in ring[n]
  /\ \A c \in Clients : calls[c] # Idle =>
       /\ \A v \in calls[c].via : Closer(calls[c].key, calls[c].at, v)
       /\ calls[c].stage = "proxy" => Closer(calls[c].key, calls[c].to, calls[c].at)

(***************************************************************************)
(* A node that does not serve a call, and finds p first on its ring, is    *)
(* farther from the key than p (the proxy target GetPrimary returns).      *)
(***************************************************************************)
LEMMA ProxyDescends ==
  ASSUME TypeOK, NEW n \in Nodes, n \in ring[n], NEW k \in Keys, NEW op,
         ~Serves(op, n, k), NEW p \in ring[n], First(ring[n], k, p)
  PROVE  Closer(k, p, n)
<1>1. p \in Nodes /\ ring[n] \subseteq Nodes
  BY DEF TypeOK
<1>2. \A m \in Nodes : Pos[k][m] \in Nat
  BY ReplicationConstants
<1>3. p # n
  <2> SUFFICES ASSUME p = n PROVE FALSE
    OBVIOUS
  <2>1. IsPrimary(n, k)
    BY DEF IsPrimary
  <2>2. {m \in ring[n] : Pos[k][m] < Pos[k][n]} = {}
    BY <1>1, <1>2 DEF First
  <2>3. Cardinality({m \in ring[n] : Pos[k][m] < Pos[k][n]}) = 0
    BY <2>2, FS_EmptySet
  <2>4. IsReplica(n, k)
    BY <2>3, ReplicationConstants DEF IsReplica, GetNodes
  <2> QED
    BY <2>1, <2>4 DEF Serves
<1>4. Pos[k][p] # Pos[k][n]
  BY <1>1, <1>3, ReplicationConstants
<1> QED
  BY <1>1, <1>2, <1>4 DEF First, Closer

(***************************************************************************)
(* Every step keeps calls descending: only Route and Proxy move them, and  *)
(* no event takes a node off its own ring.                                 *)
(***************************************************************************)
LEMMA DescendsStep == TypeOK /\ Descends /\ [Next]_vars => Descends'
<1> SUFFICES ASSUME TypeOK, Descends, [Next]_vars PROVE Descends'
  OBVIOUS
<1>1. ASSUME NEW c \in Clients, Begin(c) PROVE Descends'
  <2>1. PICK op \in Ops, k \in Keys, n \in up :
          calls' = [calls EXCEPT ![c] =
            [op |-> op, key |-> k, val |-> IF op = "set" THEN issued + 1 ELSE Absent,
             at |-> n, to |-> n, via |-> {}, stage |-> "route"]]
    BY <1>1 DEF Begin
  <2>2. ASSUME NEW b \in Clients, calls'[b] # Idle
        PROVE  /\ \A v \in calls'[b].via : Closer(calls'[b].key, calls'[b].at, v)
               /\ calls'[b].stage = "proxy" =>
                    Closer(calls'[b].key, calls'[b].to, calls'[b].at)
    <3>1. CASE b = c
      BY <2>1, <3>1 DEF TypeOK
    <3>2. CASE b # c
      BY <2>1, <2>2, <3>2 DEF TypeOK, Descends
    <3> QED
      BY <3>1, <3>2
  <2> QED
    BY <1>1, <2>2 DEF Begin, events, Descends, Closer
<1>2. ASSUME NEW c \in Clients, calls[c] \in Call, calls[c] # Idle,
             NEW s \in {"route", "local", "written", "primary"},
             Goto(c, s) \/ Return(c), UNCHANGED ring
      PROVE  Descends'
  <2>1. ASSUME NEW b \in Clients, calls'[b] # Idle
        PROVE  /\ \A v \in calls'[b].via : Closer(calls'[b].key, calls'[b].at, v)
               /\ calls'[b].stage = "proxy" =>
                    Closer(calls'[b].key, calls'[b].to, calls'[b].at)
    <3>1. CASE b = c
      <4>1. Goto(c, s)
        BY <1>2, <2>1, <3>1 DEF Return, TypeOK
      <4>2. /\ calls'[c].via = calls[c].via /\ calls'[c].key = calls[c].key
            /\ calls'[c].at = calls[c].at /\ calls'[c].stage = s
        BY <1>2, <4>1 DEF Goto, TypeOK, Call
      <4> QED
        BY <1>2, <3>1, <4>2 DEF Descends
    <3>2. CASE b # c
      <4>1. calls'[b] = calls[b]
        BY <1>2, <3>2 DEF Goto, Return, TypeOK
      <4> QED
        BY <2>1, <4>1 DEF Descends
    <3> QED
      BY <3>1, <3>2
  <2> QED
    BY <1>2, <2>1 DEF Descends, Closer
<1>3. ASSUME NEW c \in Clients, Route(c) PROVE Descends'
  <2>1. calls[c] \in Call /\ calls[c] # Idle
    BY <1>3 DEF Route, At, TypeOK
  <2>2. UNCHANGED ring
    BY <1>3 DEF Route, events
  <2>3. CASE Goto(c, "local")
    BY <1>2, <2>1, <2>2, <2>3
  <2>4. ASSUME NEW p \in ring[calls[c].at], First(ring[calls[c].at], calls[c].key, p),
               ~Serves(calls[c].op, calls[c].at, calls[c].key),
               calls' = [calls EXCEPT ![c].to = p, ![c].stage = "proxy"]
        PROVE  Descends'
    <3>1. calls[c].at \in Nodes /\ calls[c].key \in Keys
      BY <2>1 DEF Call
    <3>2. calls[c].at \in ring[calls[c].at]
      BY <3>1 DEF Descends
    <3>3. Closer(calls[c].key, p, calls[c].at)
      BY <2>4, <3>1, <3>2, ProxyDescends
    <3>4. ASSUME NEW b \in Clients, calls'[b] # Idle
          PROVE  /\ \A v \in calls'[b].via : Closer(calls'[b].key, calls'[b].at, v)
                 /\ calls'[b].stage = "proxy" =>
                      Closer(calls'[b].key, calls'[b].to, calls'[b].at)
      <4>1. CASE b = c
        <5>1. /\ calls'[c].via = calls[c].via /\ calls'[c].key = calls[c].key
              /\ calls'[c].at = calls[c].at /\ calls'[c].to = p
          BY <2>1, <2>4 DEF TypeOK, Call
        <5> QED
          BY <2>1, <3>3, <4>1, <5>1 DEF Descends
      <4>2. CASE b # c
        BY <2>4, <3>4, <4>2 DEF TypeOK, Descends
      <4> QED
        BY <4>1, <4>2
    <3> QED
      BY <2>2, <3>4 DEF Descends, Closer
  <2> QED
    BY <1>3, <2>3, <2>4 DEF Route
<1>4. ASSUME NEW c \in Clients, Proxy(c) PROVE Descends'
  <2>1. calls[c] \in Call /\ calls[c] # Idle /\ calls[c].stage = "proxy"
    BY <1>4 DEF Proxy, At, TypeOK
  <2>2. UNCHANGED ring
    BY <1>4 DEF Proxy, events
  <2>3. CASE Goto(c, "local") \/ Return(c)
    BY <1>2, <2>1, <2>2, <2>3
  <2>4. CASE calls' = [calls EXCEPT ![c].at = calls[c].to,
                         ![c].via = @ \cup {calls[c].at}, ![c].stage = "route"]
    <3>1. /\ Closer(calls[c].key, calls[c].to, calls[c].at)
          /\ \A v \in calls[c].via : Closer(calls[c].key, calls[c].at, v)
      BY <2>1 DEF Descends
    <3>2. \A v \in calls[c].via : Closer(calls[c].key, calls[c].to, v)
      <4>1. \A n \in Nodes : Pos[calls[c].key][n] \in Nat
        BY <2>1, ReplicationConstants DEF Call
      <4>2. calls[c].to \in Nodes /\ calls[c].at \in Nodes /\ calls[c].via \subseteq Nodes
        BY <2>1 DEF Call
      <4> QED
        BY <3>1, <4>1, <4>2 DEF Closer
    <3>3. ASSUME NEW b \in Clients, calls'[b] # Idle
          PROVE  /\ \A v \in calls'[b].via : Closer(calls'[b].key, calls'[b].at, v)
                 /\ calls'[b].stage = "proxy" =>
                      Closer(calls'[b].key, calls'[b].to, calls'[b].at)
      <4>1. CASE b = c
        <5>1. /\ calls'[c].via = calls[c].via \cup {calls[c].at}
              /\ calls'[c].key = calls[c].key
              /\ calls'[c].at = calls[c].to /\ calls'[c].stage = "route"
          BY <2>1, <2>4 DEF TypeOK, Call
        <5> QED
          BY <3>1, <3>2, <4>1, <5>1
      <4>2. CASE b # c
        BY <2>4, <3>3, <4>2 DEF TypeOK, Descends
      <4> QED
        BY <4>1, <4>2
    <3> QED
      BY <2>2, <3>3 DEF Descends, Closer
  <2> QED
    BY <1>4, <2>3, <2>4 DEF Proxy
<1>5. ASSUME NEW c \in Clients, Perform(c) \/ CheckPrimary(c) \/ Replicate(c)
      PROVE  Descends'
  <2>1. calls[c] \in Call /\ calls[c] # Idle
    BY <1>5 DEF Perform, CheckPrimary, Replicate, At, TypeOK
  <2>2. UNCHANGED ring
    BY <1>5 DEF Perform, CheckPrimary, Replicate, events
  <2>3. Goto(c, "written") \/ Goto(c, "primary") \/ Return(c)
    BY <1>5 DEF Perform, CheckPrimary, Replicate
  <2> QED
    BY <1>2, <2>1, <2>2, <2>3
<1>6. ASSUME UNCHANGED <<ring, calls>> PROVE Descends'
  BY <1>6 DEF Descends, Closer
<1>7. ASSUME NEW m \in sends, Send(m) \/ HandleReplicate(m) \/ Fail(m) PROVE Descends'
  BY <1>6, <1>7 DEF Send, HandleReplicate, Fail, events
<1>8. ASSUME NEW j \in jobs, RunJob(j) PROVE Descends'
  BY <1>6, <1>8 DEF RunJob, events
<1>9. ASSUME NEW n \in Nodes, NEW j \in Nodes, NEW k \in Keys, reReplicate(n, j, k)
      PROVE  Descends'
  BY <1>6, <1>9 DEF reReplicate
<1>10. ASSUME \A n \in Nodes : n \in ring'[n], UNCHANGED calls PROVE Descends'
  BY <1>10 DEF Descends, Closer
<1>11. ASSUME NEW n \in Nodes, NEW j \in Nodes, AddNode(n, j) PROVE Descends'
  BY <1>10, <1>11 DEF AddNode, TypeOK, Descends
<1>12. ASSUME NEW n \in Nodes, NEW x \in Nodes, RemoveNode(n, x) PROVE Descends'
  <2>1. x # n
    BY <1>12 DEF RemoveNode
  <2> QED
    BY <1>10, <1>12, <2>1 DEF RemoveNode, TypeOK, Descends
<1>13. ASSUME NEW n \in Nodes, Start(n) PROVE Descends'
  BY <1>10, <1>13 DEF Start, TypeOK, Descends
<1>14. ASSUME NEW n \in Nodes, Crash(n) PROVE Descends'
  <2>1. \A b \in Clients : calls'[b] # Idle => calls'[b] = calls[b]
    BY <1>14 DEF Crash
  <2> QED
    BY <1>14, <2>1 DEF Crash, Descends, Closer
<1>15. CASE UNCHANGED vars
  BY <1>6, <1>15 DEF vars, events
<1>16. ASSUME NEW n \in Nodes, NEW j \in Nodes, ConnectToPeer(n, j) \/ HandleNodeFailure(n, j)
       PROVE  Descends'
  BY <1>6, <1>16 DEF ConnectToPeer, HandleNodeFailure
<1> QED
  BY <1>1, <1>3, <1>4, <1>5, <1>7, <1>8, <1>9, <1>11, <1>12, <1>13, <1>14, <1>15, <1>16
  DEF Next

(***************************************************************************)
(* No call is ever proxied in a circle, whatever the nodes' rings hold and *)
(* however they change, for any number of nodes: Get, Set, Delete and      *)
(* Expire reach a node that serves them after at most as many hops as      *)
(* there are nodes.                                                        *)
(***************************************************************************)
THEOREM ForwardingNeverLoops == Spec => []NoForwardingLoop
<1>1. Init => Descends
  BY DEF Init, Descends
<1>2. TypeOK /\ Descends => NoForwardingLoop
  <2> SUFFICES ASSUME TypeOK, Descends, NEW c \in Clients, calls[c] # Idle,
                      calls[c].at \in calls[c].via
               PROVE  FALSE
    BY DEF NoForwardingLoop
  <2>1. calls[c] \in Call
    BY DEF TypeOK
  <2>2. Pos[calls[c].key][calls[c].at] \in Nat
    BY <2>1, ReplicationConstants DEF Call
  <2>3. Closer(calls[c].key, calls[c].at, calls[c].at)
    BY DEF Descends
  <2> QED
    BY <2>2, <2>3 DEF Closer
<1> QED
  BY <1>1, <1>2, DescendsStep, TypeCorrect, PTL DEF Spec

(***************************************************************************)
(* From here on a leaf goes to Zenon, unless it names another prover: most *)
(* of them are first-order steps without arithmetic.                       *)
(***************************************************************************)
USE Zenon

(***************************************************************************)
(* Failover.  OneWrite says what FailoverRestoresReplicas is about: one    *)
(* client call, no lost request, no false death, nobody started later.     *)
(***************************************************************************)
OneWrite == MaxCalls = 1 /\ MaxLosses = 0 /\ MaxStarts = 0 /\ MaxFalseDeaths = 0

\* Running nodes stay on the rings of, and connected to, each other.
NoChurn ==
  \A n \in up : /\ up \subseteq ring[n] /\ up \ {n} \subseteq conns[n]
                /\ dead[n] \cap up = {}
                /\ \A j \in Nodes : dials[n][j] = 0

\* Requests, jobs and calls that replicate are those of a primary, which is
\* nearer to the key than the node it sends to and on every running node's ring.
PrimaryInv ==
  /\ \A m \in sends : Closer(m.key, m.from, m.to) /\ \A n \in up : m.from \in ring[n]
  /\ \A j \in jobs : j.node \in up /\ IsPrimary(j.node, j.key)
  /\ \A c \in Clients : calls[c] # Idle =>
       /\ calls[c].at \in up
       /\ calls[c].stage = "primary" => IsPrimary(calls[c].at, calls[c].key)

\* All that is written, replicated and stored is v.
OneValue(v) ==
  /\ \A c \in Clients : calls[c] # Idle =>
       calls[c].val = v /\ (calls[c].op # "set" => v = Absent)
  /\ (\A m \in sends : m.val = v) /\ (\A j \in jobs : j.val = v)
  /\ \A n \in Nodes, k \in Keys : store[n][k] \in {Absent, v}

Untouched ==
  /\ sends = {} /\ jobs = {}
  /\ \A c \in Clients : calls[c] = Idle
  /\ \A n \in Nodes, k \in Keys : store[n][k] = Absent

ValueInv == (issued = 0 => Untouched) /\ \E v \in Values : OneValue(v)

\* Call c has yet to replicate what it wrote of k at n.
CallDuty(c, n, k) ==
  /\ calls[c] # Idle /\ calls[c].at = n /\ calls[c].key = k
  /\ calls[c].stage \in {"written", "primary"}

\* n has yet to replicate k: after its write, or after a node failure.
Pending(n, k) ==
  \/ \E c \in Clients : CallDuty(c, n, k)
  \/ \E j \in jobs : j.node = n /\ j.key = k
  \/ dead[n] # {}
  \/ \E x \in Nodes : k \in scans[n][x]

\* Each running secondary has k or is sent it.
Covered(n, k) ==
  \A s \in getSecondaries(n, k) : s \in up =>
    \/ store[s][k] # Absent
    \/ \E m \in sends : m.from = n /\ m.to = s /\ m.key = k

\* A primary that holds a key has replicated it, or is going to.
Duty(n, k) == IsPrimary(n, k) /\ store[n][k] # Absent => Pending(n, k) \/ Covered(n, k)

DutyInv == \A n \in up, k \in Keys : Duty(n, k)

FailoverInv == NoChurn /\ PrimaryInv /\ ValueInv /\ DutyInv

(***************************************************************************)
(* With no false death and no later start, running nodes stay on each      *)
(* other's rings and connected: AddNode and ConnectToPeer have nothing to  *)
(* do, RemoveNode and HandleNodeFailure are about crashed nodes.           *)
(***************************************************************************)
LEMMA NoChurnStep ==
  ASSUME OneWrite, TypeOK, NoChurn, [Next]_vars
  PROVE  NoChurn'
<1>1. ASSUME UNCHANGED <<up, ring, conns, dials, dead>> PROVE NoChurn'
  BY <1>1 DEF NoChurn
<1>2. ASSUME NEW c \in Clients,
             Begin(c) \/ Route(c) \/ Proxy(c) \/ Perform(c) \/ CheckPrimary(c) \/ Replicate(c)
      PROVE  NoChurn'
  BY <1>1, <1>2 DEF Begin, Route, Proxy, Perform, CheckPrimary, Replicate, events
<1>3. ASSUME NEW m \in sends, Send(m) \/ HandleReplicate(m) \/ Fail(m) PROVE NoChurn'
  BY <1>1, <1>3 DEF Send, HandleReplicate, Fail, events
<1>4. ASSUME NEW n \in Nodes, NEW j \in Nodes, AddNode(n, j) PROVE NoChurn'
  BY <1>4 DEF AddNode, NoChurn
<1>5. ASSUME NEW n \in Nodes, NEW j \in Nodes, ConnectToPeer(n, j) PROVE NoChurn'
  BY <1>5, SMT DEF ConnectToPeer, NoChurn
<1>6. ASSUME NEW n \in Nodes, NEW x \in Nodes, RemoveNode(n, x) PROVE NoChurn'
  <2>1. x \notin up
    BY <1>6, SMT DEF RemoveNode, OneWrite, TypeOK
  <2> QED
    BY <1>6, <2>1, SMT DEF RemoveNode, NoChurn, TypeOK
<1>7. ASSUME NEW n \in Nodes, NEW x \in Nodes, HandleNodeFailure(n, x) PROVE NoChurn'
  <2>1. x \notin up
    BY <1>7 DEF HandleNodeFailure, NoChurn
  <2> QED
    BY <1>7, <2>1 DEF HandleNodeFailure, NoChurn, TypeOK
<1>8. ASSUME NEW n \in Nodes, NEW x \in Nodes, NEW k \in Keys, reReplicate(n, x, k)
      PROVE  NoChurn'
  BY <1>1, <1>8 DEF reReplicate
<1>9. ASSUME NEW j \in jobs, RunJob(j) PROVE NoChurn'
  BY <1>1, <1>9 DEF RunJob, events
<1>10. ASSUME NEW x \in Nodes, Crash(x) PROVE NoChurn'
  <2>1. \A n \in up' : n \in up /\ n # x /\ n \in Nodes
    BY <1>10 DEF Crash, TypeOK
  <2>2. \A n \in up' : dials'[n] = dials[n] /\ dead'[n] = dead[n]
    BY <1>10, <2>1 DEF Crash, TypeOK
  <2>3. up' \subseteq up /\ UNCHANGED <<ring, conns>>
    BY <1>10 DEF Crash
  <2> QED
    BY <2>1, <2>2, <2>3, SMT DEF NoChurn
<1>11. ASSUME NEW n \in Nodes, Start(n) PROVE NoChurn'
  BY <1>11, SMT DEF Start, OneWrite, TypeOK
<1>12. CASE UNCHANGED vars
  BY <1>1, <1>12 DEF vars, events
<1> QED
  BY <1>2, <1>3, <1>4, <1>5, <1>6, <1>7, <1>8, <1>9, <1>10, <1>11, <1>12 DEF Next

\* The requests a fan-out of k from n adds.
FannedOut(m, n, k, v) == m.from = n /\ m.key = k /\ m.val = v

(***************************************************************************)
(* A primary's fan-out (ReplicateWrite, ReplicateDelete) reaches every     *)
(* secondary, and only nodes farther from the key than the primary.        *)
(***************************************************************************)
LEMMA FansOut ==
  ASSUME TypeOK, NEW n \in Nodes, NEW k \in Keys, NEW v, IsPrimary(n, k),
         Replicating(n, k, v)
  PROVE  /\ sends \subseteq sends'
         /\ \A m \in sends' : m \in sends \/ (FannedOut(m, n, k, v) /\ Closer(k, n, m.to))
         /\ \A s \in getSecondaries(n, k) :
              \E m \in sends' : FannedOut(m, n, k, v) /\ m.to = s
<1> DEFINE R(s) == [from |-> n, to |-> s, key |-> k, val |-> v,
                    seq |-> sequence[n] + 1, sent |-> FALSE]
<1>1. sends' = sends \cup {R(s) : s \in getSecondaries(n, k)}
  BY DEF Replicating
<1>2. \A s : FannedOut(R(s), n, k, v) /\ R(s).to = s
  BY DEF FannedOut
<1>3. ASSUME NEW s \in getSecondaries(n, k) PROVE Closer(k, n, s)
  <2>1. s \in ring[n] /\ s # n /\ s \in Nodes
    BY DEF getSecondaries, GetNodes, TypeOK
  <2>2. Pos[k][n] <= Pos[k][s] /\ Pos[k][n] # Pos[k][s]
    BY <2>1, ReplicationConstants DEF IsPrimary, First
  <2>3. Pos[k][n] \in Nat /\ Pos[k][s] \in Nat
    BY <2>1, ReplicationConstants, SMT
  <2> QED
    BY <2>2, <2>3, SMT DEF Closer
<1> HIDE DEF R
<1> QED
  BY <1>1, <1>2, <1>3

(***************************************************************************)
(* Only CheckPrimary's and the scan's answers lead to a fan-out, and rings *)
(* only shrink: a node that was the primary stays it.  A crashed node's    *)
(* requests end before it is taken off a ring (RemoveNode).                *)
(***************************************************************************)
LEMMA PrimaryStep ==
  ASSUME OneWrite, TypeOK, NoChurn, PrimaryInv, [Next]_vars
  PROVE  PrimaryInv'
<1> DEFINE CallOK(d) == /\ d.at \in up
                        /\ d.stage = "primary" => IsPrimary(d.at, d.key)
           SendOK(m) == Closer(m.key, m.from, m.to) /\ \A n \in up : m.from \in ring[n]
           JobOK(j) == j.node \in up /\ IsPrimary(j.node, j.key)
<1>0. /\ \A c \in Clients : calls[c] # Idle => CallOK(calls[c])
      /\ \A m \in sends : SendOK(m)
      /\ \A j \in jobs : JobOK(j)
  BY DEF PrimaryInv
<1>a. ASSUME UNCHANGED <<up, ring>>,
             \A c \in Clients : calls'[c] # Idle => CallOK(calls'[c]),
             \A m \in sends' : SendOK(m),
             \A j \in jobs' : JobOK(j)
      PROVE  PrimaryInv'
  BY <1>a DEF PrimaryInv, IsPrimary, First, Closer
<1>b. ASSUME NEW c \in Clients, UNCHANGED <<up, ring, sends, jobs>>,
             \A b \in Clients : b # c => calls'[b] = calls[b],
             calls'[c] # Idle => CallOK(calls'[c])
      PROVE  PrimaryInv'
  BY <1>0, <1>a, <1>b
<1>1. ASSUME NEW c \in Clients, Begin(c) PROVE PrimaryInv'
  <2>1. PICK op \in Ops, k \in Keys, n \in up :
          calls' = [calls EXCEPT ![c] =
            [op |-> op, key |-> k, val |-> IF op = "set" THEN issued + 1 ELSE Absent,
             at |-> n, to |-> n, via |-> {}, stage |-> "route"]]
    BY <1>1 DEF Begin
  <2>2. CallOK(calls'[c]) /\ \A b \in Clients : b # c => calls'[b] = calls[b]
    BY <2>1 DEF TypeOK
  <2> QED
    BY <1>1, <1>b, <2>2 DEF Begin, events
<1>2. ASSUME NEW c \in Clients, calls[c] # Idle, NEW s \in {"local", "written", "primary"},
             s = "primary" => IsPrimary(calls[c].at, calls[c].key),
             Goto(c, s) \/ Return(c)
      PROVE  /\ \A b \in Clients : b # c => calls'[b] = calls[b]
             /\ calls'[c] # Idle => CallOK(calls'[c])
  <2>1. calls[c] \in Call
    BY <1>2 DEF TypeOK
  <2>2. CASE Return(c)
    BY <2>2 DEF Return, TypeOK
  <2>3. CASE Goto(c, s)
    <3>1. calls'[c].at = calls[c].at /\ calls'[c].key = calls[c].key /\ calls'[c].stage = s
      BY <2>1, <2>3 DEF Goto, TypeOK, Call
    <3> QED
      BY <1>0, <1>2, <2>3, <3>1 DEF Goto, TypeOK
  <2> QED
    BY <1>2, <2>2, <2>3
<1>3. ASSUME NEW c \in Clients, Route(c) PROVE PrimaryInv'
  <2>1. calls[c] # Idle /\ calls[c] \in Call /\ UNCHANGED <<up, ring, sends, jobs>>
    BY <1>3 DEF Route, At, TypeOK, events
  <2>2. CASE Goto(c, "local")
    BY <1>2, <1>b, <2>1, <2>2
  <2>3. ASSUME NEW p, calls' = [calls EXCEPT ![c].to = p, ![c].stage = "proxy"]
        PROVE  PrimaryInv'
    <3>1. calls'[c].at = calls[c].at /\ calls'[c].stage = "proxy"
      BY <2>1, <2>3 DEF TypeOK, Call
    <3>2. \A b \in Clients : b # c => calls'[b] = calls[b]
      BY <2>3 DEF TypeOK
    <3> QED
      BY <1>0, <1>b, <2>1, <3>1, <3>2
  <2> QED
    BY <1>3, <2>2, <2>3 DEF Route
<1>4. ASSUME NEW c \in Clients, Proxy(c) PROVE PrimaryInv'
  <2>1. calls[c] # Idle /\ calls[c] \in Call /\ UNCHANGED <<up, ring, sends, jobs>>
    BY <1>4 DEF Proxy, At, TypeOK, events
  <2>2. CASE Goto(c, "local") \/ Return(c)
    BY <1>2, <1>b, <2>1, <2>2
  <2>3. CASE calls[c].to \in up /\ calls' = [calls EXCEPT ![c].at = calls[c].to,
                         ![c].via = @ \cup {calls[c].at}, ![c].stage = "route"]
    <3>1. calls'[c].at = calls[c].to /\ calls'[c].stage = "route"
      BY <2>1, <2>3 DEF TypeOK, Call
    <3>2. \A b \in Clients : b # c => calls'[b] = calls[b]
      BY <2>3 DEF TypeOK
    <3> QED
      BY <1>b, <2>1, <2>3, <3>1, <3>2
  <2> QED
    BY <1>4, <2>2, <2>3 DEF Proxy
<1>5. ASSUME NEW c \in Clients, Perform(c) PROVE PrimaryInv'
  <2>1. calls[c] # Idle /\ UNCHANGED <<up, ring, sends, jobs>>
    BY <1>5 DEF Perform, At, events
  <2>2. Goto(c, "written") \/ Return(c)
    BY <1>5 DEF Perform
  <2> QED
    BY <1>2, <1>b, <2>1, <2>2
<1>6. ASSUME NEW c \in Clients, CheckPrimary(c) PROVE PrimaryInv'
  <2>1. calls[c] # Idle /\ UNCHANGED <<up, ring, sends, jobs>>
    BY <1>6 DEF CheckPrimary, At, events
  <2>2. \/ IsPrimary(calls[c].at, calls[c].key) /\ Goto(c, "primary")
        \/ Return(c)
    BY <1>6 DEF CheckPrimary
  <2> QED
    BY <1>2, <1>b, <2>1, <2>2
<1>7. ASSUME NEW n \in up, NEW k \in Keys, NEW v, IsPrimary(n, k), Replicating(n, k, v)
      PROVE  \A m \in sends' : SendOK(m)
  <2>1. n \in Nodes /\ \A i \in up : n \in ring[i]
    BY DEF TypeOK, NoChurn
  <2>2. \A m \in sends' : m \in sends \/ (FannedOut(m, n, k, v) /\ Closer(k, n, m.to))
    BY <1>7, <2>1, FansOut
  <2> QED
    BY <1>0, <2>1, <2>2 DEF FannedOut
<1>8. ASSUME NEW c \in Clients, Replicate(c) PROVE PrimaryInv'
  <2>1. calls[c] # Idle /\ calls[c] \in Call /\ calls[c].stage = "primary"
    BY <1>8 DEF Replicate, At, TypeOK
  <2>2. UNCHANGED <<up, ring, jobs>> /\ Return(c)
    BY <1>8 DEF Replicate, events
  <2>3. /\ calls[c].at \in up /\ calls[c].key \in Keys
        /\ IsPrimary(calls[c].at, calls[c].key)
    BY <1>0, <2>1 DEF Call
  <2>4. \/ \E v : Replicating(calls[c].at, calls[c].key, v)
        \/ UNCHANGED sends
    BY <1>8 DEF Replicate
  <2>5. \A m \in sends' : SendOK(m)
    BY <1>0, <1>7, <2>3, <2>4
  <2>6. \A b \in Clients : calls'[b] # Idle => calls'[b] = calls[b]
    BY <2>2 DEF Return, TypeOK
  <2> QED
    BY <1>0, <1>a, <2>2, <2>5, <2>6
<1>9. ASSUME NEW m \in sends, Send(m) \/ HandleReplicate(m) \/ Fail(m) PROVE PrimaryInv'
  <2>1. UNCHANGED <<up, ring, jobs, calls>>
    BY <1>9 DEF Send, HandleReplicate, Fail, events
  <2>2. m \in Request
    BY DEF TypeOK
  <2>3. LET t == [m EXCEPT !.sent = TRUE] IN
          t.from = m.from /\ t.to = m.to /\ t.key = m.key
    BY <2>2 DEF Request
  <2>4. \A r \in sends' : r \in sends \/ r = [m EXCEPT !.sent = TRUE]
    BY <1>9 DEF Send, HandleReplicate, Fail
  <2>5. \A r \in sends' : SendOK(r)
    BY <1>0, <2>3, <2>4
  <2> QED
    BY <1>0, <1>a, <2>1, <2>5
<1>10. ASSUME NEW n \in Nodes, NEW j \in Nodes, AddNode(n, j) PROVE PrimaryInv'
  BY <1>10 DEF AddNode, NoChurn
<1>11. ASSUME NEW n \in Nodes, NEW j \in Nodes, ConnectToPeer(n, j) PROVE PrimaryInv'
  BY <1>11, SMT DEF ConnectToPeer, NoChurn
<1>12. ASSUME NEW n \in Nodes, NEW x \in Nodes, RemoveNode(n, x) PROVE PrimaryInv'
  <2>1. x \notin up /\ (\A m \in sends : m.from # x) /\ x # n
    BY <1>12, SMT DEF RemoveNode, OneWrite, TypeOK
  <2>2. /\ UNCHANGED <<up, jobs, calls, sends>>
        /\ \A i \in Nodes : ring'[i] \subseteq ring[i] /\ ring[i] \ {x} \subseteq ring'[i]
    BY <1>12 DEF RemoveNode, TypeOK
  <2>3. ASSUME NEW i \in up, NEW k, IsPrimary(i, k) PROVE IsPrimary(i, k)'
    BY <2>1, <2>2, <2>3 DEF IsPrimary, First, TypeOK
  <2>4. \A m \in sends' : Closer(m.key, m.from, m.to) /\ \A i \in up : m.from \in ring'[i]
    BY <1>0, <2>1, <2>2 DEF TypeOK
  <2> QED
    BY <1>0, <2>2, <2>3, <2>4 DEF PrimaryInv, Closer
<1>13. ASSUME NEW n \in Nodes, NEW x \in Nodes, HandleNodeFailure(n, x) PROVE PrimaryInv'
  BY <1>0, <1>13, <1>a DEF HandleNodeFailure
<1>14. ASSUME NEW n \in Nodes, NEW x \in Nodes, NEW k \in Keys, reReplicate(n, x, k)
       PROVE  PrimaryInv'
  <2>1. UNCHANGED <<up, ring, sends, calls>> /\ n \in up
    BY <1>14 DEF reReplicate
  <2>2. \A j \in jobs' : j \in jobs \/ (j.node = n /\ j.key = k /\ IsPrimary(n, k))
    BY <1>14, SMT DEF reReplicate
  <2> QED
    BY <1>0, <1>a, <2>1, <2>2
<1>15. ASSUME NEW j \in jobs, RunJob(j) PROVE PrimaryInv'
  <2>1. UNCHANGED <<up, ring, calls>> /\ jobs' \subseteq jobs
    BY <1>15 DEF RunJob, events
  <2>2. j.node \in up /\ j.key \in Keys /\ IsPrimary(j.node, j.key)
    BY <1>0 DEF TypeOK, Job
  <2>3. \A m \in sends' : SendOK(m)
    BY <1>7, <1>15, <2>2 DEF RunJob
  <2> QED
    BY <1>0, <1>a, <2>1, <2>3
<1>16. ASSUME NEW x \in Nodes, Crash(x) PROVE PrimaryInv'
  <2>1. /\ up' = up \ {x} /\ UNCHANGED ring /\ sends' \subseteq sends
        /\ \A j \in jobs' : j \in jobs /\ j.node # x
        /\ \A c \in Clients : calls'[c] # Idle => calls'[c] = calls[c] /\ calls[c].at # x
    BY <1>16 DEF Crash
  <2> QED
    BY <1>0, <2>1 DEF PrimaryInv, IsPrimary, First, Closer
<1>17. ASSUME NEW n \in Nodes, Start(n) PROVE PrimaryInv'
  BY <1>17, SMT DEF Start, OneWrite, TypeOK
<1>18. CASE UNCHANGED vars
  BY <1>0, <1>a, <1>18 DEF vars, events
<1> QED
  BY <1>1, <1>3, <1>4, <1>5, <1>6, <1>8, <1>9, <1>10, <1>11, <1>12, <1>13, <1>14,
     <1>15, <1>16, <1>17, <1>18 DEF Next

\* A write of w to one key of one store leaves the old value or w everywhere.
LEMMA OneStored ==
  ASSUME TypeOK, NEW i \in Nodes, NEW l \in Keys, NEW w,
         store' = [store EXCEPT ![i][l] = w], NEW n \in Nodes, NEW k \in Keys
  PROVE  store'[n][k] \in {store[n][k], w}
<1>1. store'[n] = IF n = i THEN [store[i] EXCEPT ![l] = w] ELSE store[n]
  BY DEF TypeOK
<1>2. [store[i] EXCEPT ![l] = w][k] \in {store[i][k], w}
  BY DEF TypeOK
<1> QED
  BY <1>1, <1>2

(***************************************************************************)
(* One call writes one value: whatever a handler, a goroutine or a scan    *)
(* carries to a store is the value of that call.                           *)
(***************************************************************************)
LEMMA ValueStep ==
  ASSUME OneWrite, TypeOK, ValueInv, [Next]_vars
  PROVE  ValueInv'
<1> DEFINE CallOK(d, v) == d.val = v /\ (d.op # "set" => v = Absent)
<1>0. PICK v \in Values : OneValue(v)
  BY DEF ValueInv
<1>1. /\ \A c \in Clients : calls[c] # Idle => CallOK(calls[c], v)
      /\ (\A m \in sends : m.val = v) /\ (\A j \in jobs : j.val = v)
      /\ \A n \in Nodes, k \in Keys : store[n][k] \in {Absent, v}
  BY <1>0 DEF OneValue
<1>a. ASSUME issued' # 0, NEW w \in Values, OneValue(w)' PROVE ValueInv'
  BY <1>a DEF ValueInv, Values
<1>b. ASSUME issued # 0, UNCHANGED issued,
             \A c \in Clients : calls'[c] # Idle => CallOK(calls'[c], v),
             \A m \in sends' : m.val = v, \A j \in jobs' : j.val = v,
             \A n \in Nodes, k \in Keys : store'[n][k] \in {Absent, v}
      PROVE  ValueInv'
  BY <1>a, <1>b DEF OneValue, Absent
<1>2. ASSUME NEW c \in Clients, Begin(c) PROVE ValueInv'
  <2>1. issued = 0 /\ issued' = 1 /\ 0 \in Values /\ 1 \in Values
    BY <1>2, SMT DEF Begin, OneWrite, TypeOK, Values
  <2>2. Untouched
    BY <2>1 DEF ValueInv
  <2>3. PICK op \in Ops, k \in Keys, n \in up :
          calls' = [calls EXCEPT ![c] =
            [op |-> op, key |-> k, val |-> IF op = "set" THEN issued + 1 ELSE Absent,
             at |-> n, to |-> n, via |-> {}, stage |-> "route"]]
    BY <1>2 DEF Begin
  <2> DEFINE w == IF op = "set" THEN 1 ELSE 0
  <2>4. calls'[c].val = w /\ calls'[c].op = op /\ \A b \in Clients : b # c => calls'[b] = Idle
    BY <2>1, <2>2, <2>3, SMT DEF Untouched, TypeOK, Absent
  <2>5. UNCHANGED <<sends, jobs, store>>
    BY <1>2 DEF Begin
  <2>6. OneValue(w)'
    BY <2>2, <2>4, <2>5 DEF OneValue, Untouched, Absent
  <2>7. w \in Values
    BY <2>1
  <2> QED
    BY <1>a, <2>1, <2>6, <2>7, SMT
<1>3. ASSUME NEW c \in Clients, calls[c] # Idle, UNCHANGED issued,
             \A b \in Clients : b # c => calls'[b] = calls[b],
             calls'[c] # Idle => calls'[c].val = calls[c].val /\ calls'[c].op = calls[c].op
      PROVE  /\ issued # 0
             /\ \A b \in Clients : calls'[b] # Idle => CallOK(calls'[b], v)
  BY <1>1, <1>3 DEF ValueInv, Untouched
<1>4. ASSUME NEW c \in Clients, calls[c] # Idle, NEW s, Goto(c, s) \/ Return(c)
      PROVE  /\ \A b \in Clients : b # c => calls'[b] = calls[b]
             /\ calls'[c] # Idle => calls'[c].val = calls[c].val /\ calls'[c].op = calls[c].op
  <2>1. calls[c] \in Call
    BY <1>4 DEF TypeOK
  <2>2. CASE Return(c)
    BY <2>2 DEF Return, TypeOK
  <2>3. CASE Goto(c, s)
    BY <2>1, <2>3 DEF Goto, TypeOK, Call
  <2> QED
    BY <1>4, <2>2, <2>3
<1>5. ASSUME NEW c \in Clients, Route(c) PROVE ValueInv'
  <2>1. calls[c] # Idle /\ calls[c] \in Call /\ UNCHANGED <<store, sends, jobs, issued>>
    BY <1>5 DEF Route, At, TypeOK
  <2>2. CASE Goto(c, "local")
    BY <1>1, <1>3, <1>4, <1>b, <2>1, <2>2
  <2>3. ASSUME NEW p, calls' = [calls EXCEPT ![c].to = p, ![c].stage = "proxy"]
        PROVE  ValueInv'
    <3>1. calls'[c].val = calls[c].val /\ calls'[c].op = calls[c].op
      BY <2>1, <2>3 DEF TypeOK, Call
    <3>2. \A b \in Clients : b # c => calls'[b] = calls[b]
      BY <2>3 DEF TypeOK
    <3> QED
      BY <1>1, <1>3, <1>b, <2>1, <3>1, <3>2
  <2> QED
    BY <1>5, <2>2, <2>3 DEF Route
<1>6. ASSUME NEW c \in Clients, Proxy(c) PROVE ValueInv'
  <2>1. calls[c] # Idle /\ calls[c] \in Call /\ UNCHANGED <<store, sends, jobs, issued>>
    BY <1>6 DEF Proxy, At, TypeOK
  <2>2. CASE Goto(c, "local") \/ Return(c)
    BY <1>1, <1>3, <1>4, <1>b, <2>1, <2>2
  <2>3. CASE calls' = [calls EXCEPT ![c].at = calls[c].to,
                         ![c].via = @ \cup {calls[c].at}, ![c].stage = "route"]
    <3>1. calls'[c].val = calls[c].val /\ calls'[c].op = calls[c].op
      BY <2>1, <2>3 DEF TypeOK, Call
    <3>2. \A b \in Clients : b # c => calls'[b] = calls[b]
      BY <2>3 DEF TypeOK
    <3> QED
      BY <1>1, <1>3, <1>b, <2>1, <3>1, <3>2
  <2> QED
    BY <1>6, <2>2, <2>3 DEF Proxy
<1>7. ASSUME NEW c \in Clients, Perform(c) PROVE ValueInv'
  <2>1. calls[c] # Idle /\ calls[c] \in Call /\ UNCHANGED <<sends, jobs, issued>>
    BY <1>7 DEF Perform, At, TypeOK
  <2>2. Goto(c, "written") \/ Return(c)
    BY <1>7 DEF Perform
  <2>3. \A n \in Nodes, k \in Keys : store'[n][k] \in {store[n][k], calls[c].val}
    <3>1. calls[c].at \in Nodes /\ calls[c].key \in Keys
      BY <2>1 DEF Call
    <3>2. \/ UNCHANGED store
          \/ store' = [store EXCEPT ![calls[c].at][calls[c].key] = calls[c].val]
      BY <1>7 DEF Perform
    <3> QED
      BY <3>1, <3>2, OneStored
  <2>4. \A n \in Nodes, k \in Keys : store'[n][k] \in {Absent, v}
    BY <1>1, <2>1, <2>3
  <2> QED
    BY <1>1, <1>3, <1>4, <1>b, <2>1, <2>2, <2>4
<1>8. ASSUME NEW c \in Clients, CheckPrimary(c) PROVE ValueInv'
  <2>1. calls[c] # Idle /\ UNCHANGED <<store, sends, jobs, issued>>
    BY <1>8 DEF CheckPrimary, At
  <2>2. Goto(c, "primary") \/ Return(c)
    BY <1>8 DEF CheckPrimary
  <2> QED
    BY <1>1, <1>3, <1>4, <1>b, <2>1, <2>2
<1>9. ASSUME NEW n, NEW k, Replicating(n, k, v) PROVE \A m \in sends' : m.val = v
  BY <1>1, <1>9, SMT DEF Replicating
<1>10. ASSUME NEW c \in Clients, Replicate(c) PROVE ValueInv'
  <2>1. calls[c] # Idle /\ calls[c] \in Call /\ UNCHANGED <<store, jobs, issued>> /\ Return(c)
    BY <1>10 DEF Replicate, At, TypeOK
  <2>2. /\ calls[c].val = v
        /\ store[calls[c].at][calls[c].key] \in {Absent, v}
    BY <1>1, <2>1 DEF Call
  <2>3. \/ Replicating(calls[c].at, calls[c].key, v)
        \/ UNCHANGED sends
    BY <1>10, <2>2 DEF Replicate
  <2>4. \A m \in sends' : m.val = v
    BY <1>1, <1>9, <2>3
  <2> QED
    BY <1>1, <1>3, <1>4, <1>b, <2>1, <2>4
<1>11. ASSUME NEW m \in sends, Send(m) \/ HandleReplicate(m) \/ Fail(m) PROVE ValueInv'
  <2>1. UNCHANGED <<calls, jobs, issued>> /\ issued # 0
    BY <1>11 DEF Send, HandleReplicate, Fail, ValueInv, Untouched
  <2>2. m \in Request /\ m.val = v
    BY <1>1 DEF TypeOK
  <2>3. [m EXCEPT !.sent = TRUE].val = v
    BY <2>2 DEF Request
  <2>4. \A r \in sends' : r.val = v
    <3>1. \A r \in sends' : r \in sends \/ r = [m EXCEPT !.sent = TRUE]
      BY <1>11 DEF Send, HandleReplicate, Fail
    <3> QED
      BY <1>1, <2>3, <3>1
  <2>5. \A n \in Nodes, k \in Keys : store'[n][k] \in {store[n][k], v}
    <3>1. UNCHANGED store \/ store' = [store EXCEPT ![m.to][m.key] = v]
      BY <1>11, <2>2 DEF Send, HandleReplicate, Fail
    <3>2. m.to \in Nodes /\ m.key \in Keys
      BY <2>2 DEF Request
    <3> QED
      BY <3>1, <3>2, OneStored
  <2> QED
    BY <1>1, <1>b, <2>1, <2>4, <2>5
<1>12. ASSUME UNCHANGED <<issued, calls, sends, jobs, store>> PROVE ValueInv'
  BY <1>12 DEF ValueInv, OneValue, Untouched
<1>13. ASSUME NEW n \in Nodes, NEW j \in Nodes,
              AddNode(n, j) \/ ConnectToPeer(n, j) \/ RemoveNode(n, j) \/ HandleNodeFailure(n, j)
       PROVE  ValueInv'
  BY <1>12, <1>13 DEF AddNode, ConnectToPeer, RemoveNode, HandleNodeFailure
<1>14. ASSUME NEW n \in Nodes, NEW x \in Nodes, NEW k \in Keys, reReplicate(n, x, k)
       PROVE  ValueInv'
  <2>1. UNCHANGED <<issued, calls, sends, store>>
    BY <1>14 DEF reReplicate
  <2>2. jobs' = jobs \/ (store[n][k] # Absent /\ \A j \in jobs' : j \in jobs \/ j.val = store[n][k])
    BY <1>14, SMT DEF reReplicate
  <2>3. CASE jobs' = jobs
    BY <1>12, <2>1, <2>3
  <2>4. CASE store[n][k] # Absent /\ \A j \in jobs' : j \in jobs \/ j.val = store[n][k]
    <3>1. issued # 0 /\ store[n][k] = v
      BY <1>1, <2>4 DEF ValueInv, Untouched
    <3> QED
      BY <1>1, <1>b, <2>1, <2>4, <3>1
  <2> QED
    BY <2>2, <2>3, <2>4
<1>15. ASSUME NEW j \in jobs, RunJob(j) PROVE ValueInv'
  <2>1. UNCHANGED <<issued, calls, store>> /\ issued # 0 /\ jobs' \subseteq jobs
    BY <1>15 DEF RunJob, ValueInv, Untouched
  <2>2. \A m \in sends' : m.val = v
    BY <1>1, <1>9, <1>15 DEF RunJob
  <2> QED
    BY <1>1, <1>b, <2>1, <2>2
<1>16. ASSUME NEW x \in Nodes, Crash(x) PROVE ValueInv'
  <2>1. /\ UNCHANGED <<issued, store>> /\ sends' \subseteq sends /\ jobs' \subseteq jobs
        /\ \A c \in Clients : calls'[c] # Idle => calls'[c] = calls[c]
    BY <1>16 DEF Crash
  <2> QED
    BY <1>0, <2>1, SMT DEF ValueInv, OneValue, Untouched
<1>17. ASSUME NEW n \in Nodes, Start(n) PROVE ValueInv'
  BY <1>17, SMT DEF Start, OneWrite, TypeOK
<1>18. CASE UNCHANGED vars
  BY <1>12, <1>18 DEF vars
<1> QED
  BY <1>2, <1>5, <1>6, <1>7, <1>8, <1>10, <1>11, <1>13, <1>14, <1>15, <1>16, <1>17, <1>18
  DEF Next

\* A step ends no call that has yet to replicate k at n.
CallsKept(n, k) == \A c \in Clients : CallDuty(c, n, k) => CallDuty(c, n, k)'

\* A step loses no request with k from n to a running node.
RequestsKept(n, k) ==
  \A m \in sends : m.from = n /\ m.key = k /\ m.to \in up' =>
    \/ store[n][k] # Absent => store'[m.to][k] # Absent
    \/ \E r \in sends' : r.from = n /\ r.to = m.to /\ r.key = k

(***************************************************************************)
(* What n owes for k is still owed, or done, after a step that takes none  *)
(* of n's work for k away, loses no request of n to a running node and     *)
(* takes k from no store.                                                  *)
(***************************************************************************)
LEMMA DutyKept ==
  ASSUME TypeOK, NEW n \in Nodes, NEW k \in Keys, Duty(n, k),
         up' \subseteq up, ring'[n] = ring[n], dead'[n] = dead[n],
         store'[n][k] # Absent => store[n][k] # Absent,
         CallsKept(n, k), RequestsKept(n, k),
         \A j \in jobs : j.node = n /\ j.key = k => j \in jobs',
         \A x \in Nodes : k \in scans[n][x] => k \in scans'[n][x],
         \A s \in Nodes : store[s][k] # Absent => store'[s][k] # Absent
  PROVE  Duty(n, k)'
<1> SUFFICES ASSUME IsPrimary(n, k)', store'[n][k] # Absent
             PROVE  Pending(n, k)' \/ Covered(n, k)'
  BY DEF Duty
<1>1. IsPrimary(n, k) /\ store[n][k] # Absent
  BY DEF IsPrimary, First
<1>2. CASE Pending(n, k)
  <2>1. ASSUME NEW c \in Clients, CallDuty(c, n, k) PROVE Pending(n, k)'
    <3>1. CallDuty(c, n, k)'
      BY <2>1 DEF CallsKept
    <3> QED
      BY <3>1 DEF Pending
  <2>2. ASSUME NEW j \in jobs, j.node = n, j.key = k PROVE Pending(n, k)'
    BY <2>2 DEF Pending
  <2>3. CASE dead[n] # {}
    BY <2>3 DEF Pending
  <2>4. ASSUME NEW x \in Nodes, k \in scans[n][x] PROVE Pending(n, k)'
    BY <2>4 DEF Pending
  <2> QED
    BY <1>2, <2>1, <2>2, <2>3, <2>4 DEF Pending
<1>3. CASE Covered(n, k)
  <2>1. getSecondaries(n, k)' = getSecondaries(n, k)
    BY DEF getSecondaries, GetNodes
  <2>2. ASSUME NEW s \in getSecondaries(n, k), s \in up'
        PROVE  \/ store'[s][k] # Absent
               \/ \E r \in sends' : r.from = n /\ r.to = s /\ r.key = k
    <3>1. s \in up /\ s \in Nodes
      BY <2>2 DEF TypeOK
    <3>2. CASE store[s][k] # Absent
      BY <3>1, <3>2
    <3>3. ASSUME NEW m \in sends, m.from = n, m.to = s, m.key = k
          PROVE  \/ store'[s][k] # Absent
                 \/ \E r \in sends' : r.from = n /\ r.to = s /\ r.key = k
      BY <1>1, <2>2, <3>3 DEF RequestsKept
    <3> QED
      BY <1>3, <2>2, <3>1, <3>2, <3>3 DEF Covered
  <2>3. Covered(n, k)'
    BY <2>1, <2>2 DEF Covered
  <2> QED
    BY <2>3
<1> QED
  BY <1>1, <1>2, <1>3 DEF Duty

\* A primary's fan-out of k discharges its duty for k.
LEMMA FanOutCovers ==
  ASSUME TypeOK, NEW n \in Nodes, NEW k \in Keys, NEW v, IsPrimary(n, k),
         Replicating(n, k, v), UNCHANGED ring
  PROVE  Duty(n, k)'
<1>1. getSecondaries(n, k)' = getSecondaries(n, k)
  BY DEF getSecondaries, GetNodes
<1>2. \A s \in getSecondaries(n, k) : \E m \in sends' : FannedOut(m, n, k, v) /\ m.to = s
  BY FansOut
<1>3. Covered(n, k)'
  BY <1>1, <1>2 DEF Covered, FannedOut
<1> QED
  BY <1>3 DEF Duty

\* No step takes the one value from a store again.
LEMMA HeldStays ==
  ASSUME OneWrite, TypeOK, ValueInv, [Next]_vars, NEW n \in Nodes, NEW k \in Keys,
         store[n][k] # Absent
  PROVE  store'[n][k] # Absent
<1>0. PICK v \in Values : OneValue(v)
  BY DEF ValueInv
<1>1. store[n][k] = v /\ v # Absent
  BY <1>0 DEF OneValue
<1>a. ASSUME NEW i \in Nodes, NEW l \in Keys, store' = [store EXCEPT ![i][l] = v]
      PROVE  store'[n][k] # Absent
  BY <1>1, <1>a DEF TypeOK
<1>2. ASSUME NEW c \in Clients, Perform(c) PROVE store'[n][k] # Absent
  <2>1. calls[c] \in Call /\ calls[c].val = v
    BY <1>0, <1>2 DEF Perform, At, TypeOK, OneValue
  <2>2. UNCHANGED store \/ store' = [store EXCEPT ![calls[c].at][calls[c].key] = v]
    BY <1>2, <2>1 DEF Perform
  <2> QED
    BY <1>a, <2>1, <2>2 DEF Call
<1>3. ASSUME NEW m \in sends, HandleReplicate(m) PROVE store'[n][k] # Absent
  <2>1. m \in Request /\ m.val = v
    BY <1>0 DEF TypeOK, OneValue
  <2> QED
    BY <1>a, <1>3, <2>1 DEF HandleReplicate, Request
<1>4. ASSUME NEW i \in Nodes, Start(i) PROVE FALSE
  BY <1>4, SMT DEF Start, OneWrite, TypeOK
<1>5. CASE UNCHANGED store
  BY <1>5
<1>6. ASSUME NEW c \in Clients,
             Begin(c) \/ Route(c) \/ Proxy(c) \/ CheckPrimary(c) \/ Replicate(c)
      PROVE  UNCHANGED store
  BY <1>6 DEF Begin, Route, Proxy, CheckPrimary, Replicate
<1>7. ASSUME NEW m \in sends, Send(m) \/ Fail(m) PROVE UNCHANGED store
  BY <1>7 DEF Send, Fail
<1>8. ASSUME NEW i \in Nodes, NEW j \in Nodes,
             \/ AddNode(i, j) \/ ConnectToPeer(i, j) \/ RemoveNode(i, j)
             \/ HandleNodeFailure(i, j) \/ \E l \in Keys : reReplicate(i, j, l)
      PROVE  UNCHANGED store
  BY <1>8 DEF AddNode, ConnectToPeer, RemoveNode, HandleNodeFailure, reReplicate
<1>9. ASSUME NEW j \in jobs, RunJob(j) PROVE UNCHANGED store
  BY <1>9 DEF RunJob
<1>10. ASSUME NEW i \in Nodes, Crash(i) PROVE UNCHANGED store
  BY <1>10 DEF Crash
<1>11. CASE UNCHANGED vars
  BY <1>5, <1>11 DEF vars
<1> QED
  BY <1>2, <1>3, <1>4, <1>5, <1>6, <1>7, <1>8, <1>9, <1>10, <1>11 DEF Next

\* A call under way is not the idle value.
LEMMA CallNotIdle == ASSUME NEW d \in Call PROVE d # Idle
<1>1. d.op # "none"
  BY ReplicationConstants DEF Call
<1> QED
  BY <1>1, SMT DEF Idle

(***************************************************************************)
(* Every step leaves the duties done or owed.  A node that becomes the     *)
(* primary of a key, or loses a secondary, does so in RemoveNode and owes  *)
(* a scan; one that gets the key as a secondary is not its primary.        *)
(***************************************************************************)
LEMMA DutyStep ==
  ASSUME OneWrite, TypeOK, NoChurn, PrimaryInv, ValueInv, DutyInv, [Next]_vars
  PROVE  DutyInv'
<1> SUFFICES ASSUME NEW n \in Nodes, n \in up', NEW k \in Keys PROVE Duty(n, k)'
  <2>1. up' \subseteq Nodes
    BY TypeStep DEF TypeOK
  <2> QED
    BY <2>1 DEF DutyInv
<1>1. \A s \in Nodes : store[s][k] # Absent => store'[s][k] # Absent
  BY HeldStays
<1>2. ASSUME n \in up PROVE Duty(n, k)
  BY <1>2 DEF DutyInv
<1>3. ASSUME UNCHANGED <<up, ring, dead, scans, jobs, sends>>,
             store'[n][k] # Absent => store[n][k] # Absent, CallsKept(n, k)
      PROVE  Duty(n, k)'
  <2>1. Duty(n, k)
    BY <1>2, <1>3
  <2>2. RequestsKept(n, k)
    BY <1>3 DEF RequestsKept
  <2> QED
    BY <1>1, <1>3, <2>1, <2>2, DutyKept
<1>4. ASSUME NEW c \in Clients, ~CallDuty(c, n, k),
             \A b \in Clients : b # c => calls'[b] = calls[b]
      PROVE  CallsKept(n, k)
  BY <1>4 DEF CallsKept, CallDuty
<1>5. ASSUME UNCHANGED calls PROVE CallsKept(n, k)
  BY <1>5 DEF CallsKept, CallDuty
<1>6. ASSUME NEW c \in Clients,
             Begin(c) \/ Route(c) \/ Proxy(c) \/ Perform(c) \/ CheckPrimary(c) \/ Replicate(c)
      PROVE  \A b \in Clients : b # c => calls'[b] = calls[b]
  BY <1>6 DEF Begin, Route, Proxy, Perform, CheckPrimary, Replicate, Goto, Return, TypeOK
<1>7. ASSUME NEW c \in Clients, Begin(c) \/ Route(c) \/ Proxy(c) PROVE Duty(n, k)'
  <2>1. UNCHANGED <<up, ring, dead, scans, jobs, sends, store>>
    BY <1>7 DEF Begin, Route, Proxy, events
  <2>2. ~CallDuty(c, n, k)
    BY <1>7 DEF Begin, Route, Proxy, At, CallDuty
  <2> QED
    BY <1>3, <1>4, <1>6, <1>7, <2>1, <2>2
<1>8. ASSUME NEW c \in Clients, Perform(c) PROVE Duty(n, k)'
  <2>1. UNCHANGED <<up, ring, dead, scans, jobs, sends>>
    BY <1>8 DEF Perform, events
  <2>2. ~CallDuty(c, n, k)
    BY <1>8 DEF Perform, At, CallDuty
  <2>3. CASE store'[n][k] # Absent => store[n][k] # Absent
    BY <1>3, <1>4, <1>6, <1>8, <2>1, <2>2, <2>3
  <2>4. CASE ~(store'[n][k] # Absent => store[n][k] # Absent)
    <3>1. /\ store' = [store EXCEPT ![calls[c].at][calls[c].key] = calls[c].val]
          /\ Goto(c, "written")
      BY <1>8, <2>4 DEF Perform
    <3>2. calls[c] \in Call /\ calls[c] # Idle
      BY <1>8 DEF Perform, At, TypeOK
    <3>3. n = calls[c].at /\ k = calls[c].key
      BY <2>4, <3>1, <3>2 DEF TypeOK, Call
    <3>4. calls'[c] = [calls[c] EXCEPT !.stage = "written"]
      BY <3>1 DEF Goto, TypeOK
    <3>5. /\ calls'[c] \in Call /\ calls'[c].at = n /\ calls'[c].key = k
          /\ calls'[c].stage = "written"
      BY <3>2, <3>3, <3>4 DEF Call
    <3>6. calls'[c] # Idle
      BY <3>5, CallNotIdle
    <3>7. CallDuty(c, n, k)'
      BY <3>5, <3>6 DEF CallDuty
    <3> QED
      BY <3>7 DEF Duty, Pending
  <2> QED
    BY <2>3, <2>4
<1>9. ASSUME NEW c \in Clients, CheckPrimary(c) PROVE Duty(n, k)'
  <2>1. UNCHANGED <<up, ring, dead, scans, jobs, sends, store>>
    BY <1>9 DEF CheckPrimary, events
  <2>2. calls[c] \in Call /\ calls[c] # Idle /\ calls[c].stage = "written"
    BY <1>9 DEF CheckPrimary, At, TypeOK
  <2>3. CASE ~CallDuty(c, n, k)
    BY <1>3, <1>4, <1>6, <1>9, <2>1, <2>3
  <2>4. CASE CallDuty(c, n, k)
    <3>1. calls[c].at = n /\ calls[c].key = k
      BY <2>4 DEF CallDuty
    <3>2. CASE IsPrimary(n, k)
      <4>1. calls'[c] = [calls[c] EXCEPT !.stage = "primary"]
        BY <1>9, <3>1, <3>2 DEF CheckPrimary, Goto, TypeOK
      <4>2. /\ calls'[c] \in Call /\ calls'[c].at = n /\ calls'[c].key = k
            /\ calls'[c].stage = "primary"
        BY <2>2, <3>1, <4>1 DEF Call
      <4>3. calls'[c] # Idle
        BY <4>2, CallNotIdle
      <4>4. CallDuty(c, n, k)'
        BY <4>2, <4>3 DEF CallDuty
      <4> QED
        BY <4>4 DEF Duty, Pending
    <3>3. CASE ~IsPrimary(n, k)
      BY <2>1, <3>3 DEF Duty, IsPrimary, First
    <3> QED
      BY <3>2, <3>3
  <2> QED
    BY <2>3, <2>4
<1>10. ASSUME NEW i \in Nodes, NEW l \in Keys, NEW v, IsPrimary(i, l), Replicating(i, l, v),
              UNCHANGED <<up, ring, dead, scans, store>>,
              i # n \/ l # k => CallsKept(n, k),
              \A j \in jobs : j.node = n /\ j.key = k /\ (i # n \/ l # k) => j \in jobs'
       PROVE  Duty(n, k)'
  <2>1. CASE i = n /\ l = k
    BY <1>10, <2>1, FanOutCovers
  <2>2. CASE i # n \/ l # k
    <3>1. sends \subseteq sends'
      BY <1>10, FansOut
    <3>2. RequestsKept(n, k)
      BY <3>1 DEF RequestsKept
    <3>3. Duty(n, k)
      BY <1>2, <1>10
    <3> QED
      BY <1>1, <1>10, <2>2, <3>2, <3>3, DutyKept
  <2> QED
    BY <2>1, <2>2
<1>11. ASSUME NEW c \in Clients, Replicate(c) PROVE Duty(n, k)'
  <2>1. UNCHANGED <<up, ring, dead, scans, jobs, store>>
    BY <1>11 DEF Replicate, events
  <2>2. calls[c] \in Call /\ calls[c] # Idle /\ calls[c].stage = "primary"
    BY <1>11 DEF Replicate, At, TypeOK
  <2>3. /\ calls[c].at \in Nodes /\ calls[c].key \in Keys
        /\ IsPrimary(calls[c].at, calls[c].key)
    BY <2>2 DEF PrimaryInv, Call
  <2>4. calls[c].at # n \/ calls[c].key # k => CallsKept(n, k)
    BY <1>4, <1>6, <1>11 DEF CallDuty
  <2>5. ASSUME NEW v, Replicating(calls[c].at, calls[c].key, v) PROVE Duty(n, k)'
    BY <1>10, <2>1, <2>3, <2>4, <2>5
  <2>6. CASE UNCHANGED sends /\ calls[c].op = "expire"
    <3>1. PICK v \in Values : OneValue(v)
      BY DEF ValueInv
    <3>2. v = Absent
      BY <2>2, <2>6, <3>1 DEF OneValue
    <3>3. store[n][k] = Absent
      BY <3>1, <3>2 DEF OneValue
    <3> QED
      BY <2>1, <3>3 DEF Duty
  <2> QED
    BY <1>11, <2>5, <2>6 DEF Replicate
<1>12. ASSUME NEW m \in sends, Send(m) PROVE Duty(n, k)'
  <2>1. UNCHANGED <<up, ring, dead, scans, jobs, store, calls>>
    BY <1>12 DEF Send, events
  <2>2. m \in Request
    BY DEF TypeOK
  <2>3. ASSUME NEW r \in sends, r.from = n, r.key = k, r.to \in up'
        PROVE  \E t \in sends' : t.from = n /\ t.to = r.to /\ t.key = k
    <3>1. CASE r # m
      BY <1>12, <2>3, <3>1 DEF Send
    <3>2. CASE r = m
      <4>1. m.to \in conns[m.from]
        <5>1. m.to \in up /\ m.from \in up /\ m.to \in Nodes /\ m.from \in Nodes
          BY <2>1, <2>2, <2>3, <3>2 DEF Request
        <5>2. Closer(m.key, m.from, m.to) /\ m.key \in Keys
          BY <2>2 DEF PrimaryInv, Request
        <5>3. m.to # m.from
          BY <5>1, <5>2, ReplicationConstants, SMT DEF Closer
        <5> QED
          BY <5>1, <5>3 DEF NoChurn
      <4> DEFINE t == [m EXCEPT !.sent = TRUE]
      <4>2. t \in sends'
        BY <1>12, <4>1 DEF Send
      <4>3. t.from = m.from /\ t.to = m.to /\ t.key = m.key
        BY <2>2 DEF Request
      <4> HIDE DEF t
      <4> QED
        BY <2>3, <3>2, <4>2, <4>3
    <3> QED
      BY <3>1, <3>2
  <2>4. Duty(n, k)
    BY <1>2, <2>1
  <2>5. RequestsKept(n, k)
    BY <2>3 DEF RequestsKept
  <2>6. CallsKept(n, k)
    BY <1>5, <2>1
  <2> QED
    BY <1>1, <2>1, <2>4, <2>5, <2>6, DutyKept
<1>13. ASSUME NEW m \in sends, HandleReplicate(m) PROVE Duty(n, k)'
  <2>1. UNCHANGED <<up, ring, dead, scans, jobs, calls>>
    BY <1>13 DEF HandleReplicate, events
  <2>2. m \in Request /\ m.to \in Nodes /\ m.from \in Nodes /\ m.key \in Keys
    BY DEF TypeOK, Request
  <2>3. CASE m.to = n /\ m.key = k
    <3>1. Closer(k, m.from, n) /\ m.from \in ring[n]
      BY <2>1, <2>3 DEF PrimaryInv
    <3>2. ~(Pos[k][n] <= Pos[k][m.from])
      BY <2>2, <3>1, ReplicationConstants, SMT DEF Closer
    <3>3. ~IsPrimary(n, k)
      BY <3>1, <3>2 DEF IsPrimary, First
    <3> QED
      BY <2>1, <3>3 DEF Duty, IsPrimary, First
  <2>4. CASE ~(m.to = n /\ m.key = k)
    <3>1. store'[n][k] = store[n][k]
      BY <1>13, <2>2, <2>4 DEF HandleReplicate, TypeOK
    <3>2. store'[m.to][m.key] = m.val
      BY <1>13, <2>2 DEF HandleReplicate, TypeOK
    <3>3. store[n][k] # Absent => m.val # Absent
      <4>1. PICK v \in Values : OneValue(v)
        BY DEF ValueInv
      <4> QED
        BY <4>1 DEF OneValue
    <3>4. ASSUME NEW r \in sends, r.from = n, r.key = k, r.to \in up'
          PROVE  \/ store[n][k] # Absent => store'[r.to][k] # Absent
                 \/ \E t \in sends' : t.from = n /\ t.to = r.to /\ t.key = k
      <4>1. CASE r = m
        BY <3>2, <3>3, <3>4, <4>1
      <4>2. CASE r # m
        BY <1>13, <3>4, <4>2 DEF HandleReplicate
      <4> QED
        BY <4>1, <4>2
    <3>5. Duty(n, k)
      BY <1>2, <2>1
    <3>6. RequestsKept(n, k)
      BY <3>4 DEF RequestsKept
    <3>7. CallsKept(n, k)
      BY <1>5, <2>1
    <3> QED
      BY <1>1, <2>1, <3>1, <3>5, <3>6, <3>7, DutyKept
  <2> QED
    BY <2>3, <2>4
<1>14. ASSUME NEW m \in sends, Fail(m) PROVE Duty(n, k)'
  <2>1. UNCHANGED <<up, ring, dead, scans, jobs, store, calls>>
    BY <1>14 DEF Fail, events
  <2>2. m \in Request /\ m.to \in Nodes /\ m.from \in Nodes /\ m.key \in Keys
    BY DEF TypeOK, Request
  <2>3. m.to \notin up \/ m.from \notin up
    <3>1. m.to \notin up \/ m.from \notin up \/ m.to \notin conns[m.from]
      BY <1>14, SMT DEF Fail, OneWrite, TypeOK
    <3>2. m.to # m.from
      BY <2>2, ReplicationConstants, SMT DEF PrimaryInv, Closer
    <3> QED
      BY <3>1, <3>2 DEF NoChurn
  <2>4. ASSUME NEW r \in sends, r.from = n, r.key = k, r.to \in up'
        PROVE  \E t \in sends' : t.from = n /\ t.to = r.to /\ t.key = k
    <3>1. r # m
      BY <2>1, <2>3, <2>4
    <3> QED
      BY <1>14, <2>4, <3>1 DEF Fail
  <2>5. Duty(n, k)
    BY <1>2, <2>1
  <2>6. RequestsKept(n, k)
    BY <2>4 DEF RequestsKept
  <2>7. CallsKept(n, k)
    BY <1>5, <2>1
  <2> QED
    BY <1>1, <2>1, <2>5, <2>6, <2>7, DutyKept
<1>15. ASSUME NEW i \in Nodes, NEW j \in Nodes, AddNode(i, j) \/ ConnectToPeer(i, j)
       PROVE  FALSE
  BY <1>15, SMT DEF AddNode, ConnectToPeer, NoChurn
<1>16. ASSUME NEW i \in Nodes, NEW x \in Nodes, RemoveNode(i, x) PROVE Duty(n, k)'
  <2>1. UNCHANGED <<up, scans, jobs, sends, store, calls>>
    BY <1>16 DEF RemoveNode
  <2>2. CASE i = n
    <3>1. dead'[n] # {}
      BY <1>16, <2>2 DEF RemoveNode, TypeOK
    <3> QED
      BY <3>1 DEF Duty, Pending
  <2>3. CASE i # n
    <3>1. ring'[n] = ring[n] /\ dead'[n] = dead[n]
      BY <1>16, <2>3 DEF RemoveNode, TypeOK
    <3>2. Duty(n, k) /\ CallsKept(n, k)
      BY <1>2, <1>5, <2>1
    <3>3. RequestsKept(n, k)
      BY <2>1 DEF RequestsKept
    <3> QED
      BY <1>1, <2>1, <3>1, <3>2, <3>3, DutyKept
  <2> QED
    BY <2>2, <2>3
<1>17. ASSUME NEW i \in Nodes, NEW x \in Nodes, HandleNodeFailure(i, x) PROVE Duty(n, k)'
  <2>1. UNCHANGED <<up, ring, jobs, sends, store, calls>>
    BY <1>17 DEF HandleNodeFailure
  <2>2. CASE i = n
    <3>1. k \in scans'[n][x]
      BY <1>17, <2>2 DEF HandleNodeFailure, TypeOK
    <3> QED
      BY <3>1 DEF Duty, Pending
  <2>3. CASE i # n
    <3>1. scans'[n] = scans[n] /\ dead'[n] = dead[n]
      BY <1>17, <2>3 DEF HandleNodeFailure, TypeOK
    <3>2. Duty(n, k) /\ CallsKept(n, k)
      BY <1>2, <1>5, <2>1
    <3>3. RequestsKept(n, k)
      BY <2>1 DEF RequestsKept
    <3> QED
      BY <1>1, <2>1, <3>1, <3>2, <3>3, DutyKept
  <2> QED
    BY <2>2, <2>3
<1>18. ASSUME NEW i \in Nodes, NEW x \in Nodes, NEW l \in Keys, reReplicate(i, x, l)
       PROVE  Duty(n, k)'
  <2>1. UNCHANGED <<up, ring, dead, sends, store, calls>> /\ jobs \subseteq jobs'
    BY <1>18 DEF reReplicate
  <2>2. CASE i = n /\ l = k /\ store[n][k] # Absent /\ IsPrimary(n, k)
    <3> DEFINE j == [node |-> n, key |-> k, val |-> store[n][k]]
    <3>1. j \in jobs' /\ j.node = n /\ j.key = k
      BY <1>18, <2>2 DEF reReplicate
    <3> HIDE DEF j
    <3> QED
      BY <3>1 DEF Duty, Pending
  <2>3. CASE ~(store[n][k] # Absent /\ IsPrimary(n, k))
    BY <2>1, <2>3 DEF Duty, IsPrimary, First
  <2>4. CASE i # n \/ l # k
    <3>1. \A y \in Nodes : k \in scans[n][y] => k \in scans'[n][y]
      BY <1>18, <2>4 DEF reReplicate, TypeOK
    <3>2. Duty(n, k) /\ CallsKept(n, k)
      BY <1>2, <1>5, <2>1
    <3>3. RequestsKept(n, k)
      BY <2>1 DEF RequestsKept
    <3> QED
      BY <1>1, <2>1, <3>1, <3>2, <3>3, DutyKept
  <2> QED
    BY <2>2, <2>3, <2>4
<1>19. ASSUME NEW j \in jobs, RunJob(j) PROVE Duty(n, k)'
  <2>1. UNCHANGED <<up, ring, dead, scans, store, calls>> /\ jobs' = jobs \ {j}
    BY <1>19 DEF RunJob, events
  <2>2. j.node \in Nodes /\ j.key \in Keys /\ IsPrimary(j.node, j.key)
    BY DEF TypeOK, Job, PrimaryInv
  <2>3. Replicating(j.node, j.key, j.val)
    BY <1>19 DEF RunJob
  <2>4. \A i \in jobs : i.node = n /\ i.key = k /\ (j.node # n \/ j.key # k) => i \in jobs'
    BY <2>1
  <2> QED
    BY <1>5, <1>10, <2>1, <2>2, <2>3, <2>4
<1>20. ASSUME NEW x \in Nodes, Crash(x) PROVE Duty(n, k)'
  <2>1. n # x /\ n \in up /\ up' \subseteq up /\ UNCHANGED <<ring, store>>
    BY <1>20 DEF Crash
  <2>2. dead'[n] = dead[n] /\ scans'[n] = scans[n]
    BY <1>20, <2>1 DEF Crash, TypeOK
  <2>3. \A j \in jobs : j.node = n => j \in jobs'
    BY <1>20, <2>1 DEF Crash
  <2>4. RequestsKept(n, k)
    BY <1>20, <2>1 DEF Crash, RequestsKept
  <2>5. CallsKept(n, k)
    BY <1>20, <2>1 DEF Crash, CallsKept, CallDuty
  <2>6. Duty(n, k)
    BY <1>2, <2>1
  <2> QED
    BY <1>1, <2>1, <2>2, <2>3, <2>4, <2>5, <2>6, DutyKept
<1>21. ASSUME NEW i \in Nodes, Start(i) PROVE FALSE
  BY <1>21, SMT DEF Start, OneWrite, TypeOK
<1>22. CASE UNCHANGED vars
  BY <1>3, <1>5, <1>22 DEF vars, events
<1> QED
  BY <1>7, <1>8, <1>9, <1>11, <1>12, <1>13, <1>14, <1>15, <1>16, <1>17, <1>18, <1>19,
     <1>20, <1>21, <1>22 DEF Next

(***************************************************************************)
(* Failover is complete.  For any nodes, keys, placement and replica       *)
(* count, and however many nodes crash and when: after one call, with no   *)
(* request lost between running nodes and no running node taken for dead,  *)
(* a cluster that has come to rest has the value its primary holds on      *)
(* every secondary.  HandleNodeFailure's scans and the fan-out of the      *)
(* write together leave out no secondary.                                  *)
(***************************************************************************)
THEOREM FailoverIsComplete ==
  ASSUME OneWrite
  PROVE  Spec => []FailoverRestoresReplicas
<1>1. Init => FailoverInv
  <2> SUFFICES ASSUME Init PROVE FailoverInv
    OBVIOUS
  <2>1. NoChurn
    BY ReplicationConstants DEF Init, NoChurn
  <2>2. PrimaryInv
    BY DEF Init, PrimaryInv
  <2>3. ValueInv
    <3>1. Untouched
      BY DEF Init, Untouched
    <3>2. 0 \in Values /\ OneValue(0)
      BY <3>1, ReplicationConstants, SMT DEF Untouched, OneValue, Values, Absent
    <3> QED
      BY <3>1, <3>2 DEF ValueInv
  <2>4. DutyInv
    BY ReplicationConstants DEF Init, DutyInv, Duty
  <2> QED
    BY <2>1, <2>2, <2>3, <2>4 DEF FailoverInv
<1>2. TypeOK /\ FailoverInv /\ [Next]_vars => FailoverInv'
  BY NoChurnStep, PrimaryStep, ValueStep, DutyStep DEF FailoverInv
<1>3. TypeOK /\ FailoverInv => FailoverRestoresReplicas
  <2> SUFFICES ASSUME TypeOK, FailoverInv, Quiet, NEW k \in Keys, NEW p \in up,
                      First(up, k, p), store[p][k] # Absent,
                      NEW s \in GetNodes(up, k)
               PROVE  store[s][k] = store[p][k]
    BY DEF FailoverRestoresReplicas
  <2>1. ring[p] = up /\ s \in up /\ s \in Nodes /\ p \in Nodes
    BY DEF Quiet, GetNodes, TypeOK
  <2>2. Pending(p, k) \/ Covered(p, k)
    BY <2>1 DEF FailoverInv, DutyInv, Duty, IsPrimary
  <2>3. ~Pending(p, k)
    BY DEF Quiet, Pending, CallDuty
  <2>4. CASE s # p
    <3>1. s \in getSecondaries(p, k)
      BY <2>1, <2>4 DEF getSecondaries
    <3>2. store[s][k] # Absent
      BY <2>1, <2>2, <2>3, <3>1 DEF Covered, Quiet
    <3> QED
      BY <2>1, <3>2 DEF FailoverInv, ValueInv, OneValue
  <2> QED
    BY <2>4
<1> QED
  BY <1>1, <1>2, <1>3, TypeCorrect, PTL DEF Spec
=============================================================================
