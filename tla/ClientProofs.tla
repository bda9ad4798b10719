---------------------------- MODULE ClientProofs ----------------------------
(***************************************************************************)
(* Proofs about Client, for any number of keys and goroutines, any         *)
(* capacity, any TTLs and any bounds.  The proofs about staleness need of  *)
(* L1 only which entries an operation may add or drop; the one about LRU   *)
(* follows the list.                                                       *)
(***************************************************************************)
EXTENDS Client, TLAPS

\* A leaf goes to Zenon unless it names another prover; SMT has the arithmetic.
USE Zenon

(***************************************************************************)
(* What the operations of L1 do to the entries                             *)
(***************************************************************************)
Items == [Keys -> Entry \cup {None}]

\* The entries of b are entries of a, but for those that are gone.
Shrinks(a, b) == b.items \in Items /\ \A k \in Keys : b.items[k] \in {a.items[k], None}

\* removeElement drops the one entry and changes no other.
LEMMA RemoveShrinks ==
  ASSUME NEW a, a.items \in Items, NEW x
  PROVE  /\ Shrinks(a, removeElement(a, x))
         /\ x \in Keys => removeElement(a, x).items[x] = None
BY DEF removeElement, Shrinks, Items

\* Delete leaves no entry for its key and changes no other.
LEMMA DeleteShrinks ==
  ASSUME NEW a, a.items \in Items, NEW k \in Keys
  PROVE  Shrinks(a, L1Delete(a, k)) /\ L1Delete(a, k).items[k] = None
<1>1. CASE a.items[k] # None
  BY <1>1, RemoveShrinks DEF L1Delete
<1>2. CASE a.items[k] = None
  BY <1>2 DEF L1Delete, Shrinks
<1> QED
  BY <1>1, <1>2

\* Get at most drops an entry (an expired one).
LEMMA GetShrinks ==
  ASSUME NEW a, a.items \in Items, NEW k \in Keys, NEW t
  PROVE  Shrinks(a, L1Get(a, k, t))
<1>1. CASE a.items[k] = None
  BY <1>1 DEF L1Get, Shrinks
<1>2. CASE a.items[k] # None /\ L1Hit(a, k, t)
  <2>1. L1Get(a, k, t) = [evictList |-> MoveToFront(a.evictList, k), items |-> a.items]
    BY <1>2 DEF L1Get
  <2>2. L1Get(a, k, t).items = a.items
    BY <2>1, SMT
  <2> QED
    BY <2>2 DEF Shrinks
<1>3. CASE a.items[k] # None /\ ~L1Hit(a, k, t)
  BY <1>3, RemoveShrinks DEF L1Get
<1> QED
  BY <1>1, <1>2, <1>3

\* Set may add the one entry.
LEMMA SetAdds ==
  ASSUME NEW a, a.items \in Items, NEW k \in Keys, NEW v \in Versions, NEW t \in Nat
  PROVE  LET e == [version |-> v, expiresAt |-> t + DefaultTTL]
             b == L1Set(a, k, v, 0, t)
         IN  /\ e \in Entry
             /\ b.items \in Items
             /\ b.items[k] \in {e, None}
             /\ \A j \in Keys \ {k} : b.items[j] \in {a.items[j], None}
<1> DEFINE e == [version |-> v, expiresAt |-> t + DefaultTTL]
           items == [a.items EXCEPT ![k] = e]
           longer == [evictList |-> <<k>> \o a.evictList, items |-> items]
           b == L1Set(a, k, v, 0, t)
<1>1. ExpiresAt(0, t) = t + DefaultTTL /\ e \in Entry
  BY L1Assumption, SMT DEF ExpiresAt, Entry
<1>2. items \in Items /\ items[k] = e /\ \A j \in Keys \ {k} : items[j] = a.items[j]
  BY <1>1 DEF Items
<1>3. b \in {[evictList |-> MoveToFront(a.evictList, k), items |-> items], evictOldest(longer)}
  BY <1>1 DEF L1Set
<1>4. longer.items = items
  OBVIOUS
<1> HIDE DEF longer
<1>5. evictOldest(longer) = longer \/ \E x : evictOldest(longer) = removeElement(longer, x)
  BY DEF evictOldest
<1> HIDE DEF items
<1>6. b.items = items \/ Shrinks(longer, b)
  BY <1>2, <1>3, <1>4, <1>5, RemoveShrinks, SMT
<1>7. b.items \in Items /\ \A j \in Keys : b.items[j] \in {items[j], None}
  BY <1>2, <1>4, <1>6 DEF Shrinks
<1>8. b.items[k] \in {e, None} /\ \A j \in Keys \ {k} : b.items[j] \in {a.items[j], None}
  BY <1>2, <1>7
<1> QED
  BY <1>1, <1>7, <1>8

(***************************************************************************)
(* Calls                                                                   *)
(***************************************************************************)
OthersStay(p) == \A q \in Procs \ {p} : call'[q] = call[q]

\* A call that is not idle has an operation, a key and times.
LEMMA ActiveCall ==
  ASSUME TypeOK, NEW p \in Procs, call[p].at # "idle"
  PROVE  call[p] \in Underway
BY SMT DEF TypeOK, Idle

\* A call that ends leaves the other goroutines where they are.
LEMMA CallEnds ==
  ASSUME TypeOK, NEW p \in Procs, call' = [call EXCEPT ![p] = Idle]
  PROVE  call' \in [Procs -> Underway \cup {Idle}] /\ OthersStay(p) /\ call'[p].at = "idle"
BY DEF TypeOK, OthersStay, Idle

\* A request leaves with the current time, or not at all (no connection).
LEMMA CallBegins ==
  ASSUME TypeOK, NEW p \in Procs, NEW op \in {"Get"} \cup Writes, NEW k \in Keys,
         NEW ttl \in TTLs \cup {0}, Send(p, op, k, ttl), call[p].at = "idle"
  PROVE  /\ call' \in [Procs -> Underway \cup {Idle}] /\ OthersStay(p)
         /\ \/ call' = call
            \/ call'[p] = [at |-> "request", op |-> op, key |-> k, ttl |-> ttl,
                           since |-> now, version |-> 0, hot |-> FALSE]
<1> DEFINE new == [at |-> "request", op |-> op, key |-> k, ttl |-> ttl,
                   since |-> now, version |-> 0, hot |-> FALSE]
<1>1. new \in Underway
  BY ClientAssumption, SMT DEF TypeOK, Underway
<1>2. call' = call \/ call' = [call EXCEPT ![p] = new]
  BY DEF Send
<1> HIDE DEF new
<1>3. /\ call' \in [Procs -> Underway \cup {Idle}] /\ OthersStay(p)
      /\ call' = call \/ call'[p] = new
  BY <1>1, <1>2 DEF TypeOK, OthersStay
<1> QED
  BY <1>3 DEF new

\* A call that goes on is for the same operation and key.
GoesOn(p, at, since, version) ==
    /\ call' \in [Procs -> Underway \cup {Idle}] /\ OthersStay(p)
    /\ call'[p].at = at /\ call'[p].since = since /\ call'[p].version = version
    /\ call'[p].op = call[p].op /\ call'[p].key = call[p].key

\* Replacing a call by one for the same operation and key lets it go on.
LEMMA CallMoves ==
  ASSUME TypeOK, NEW p \in Procs, NEW c \in Underway, call' = [call EXCEPT ![p] = c],
         c.op = call[p].op, c.key = call[p].key
  PROVE  GoesOn(p, c.at, c.since, c.version)
BY DEF TypeOK, OthersStay, GoesOn

\* A hot answer waits for l1Cache.Set with the version it carries.
LEMMA CallKept ==
  ASSUME TypeOK, NEW p \in Procs, ReturnHot(p)
  PROVE  GoesOn(p, "fill", now, call[p].version)
<1> DEFINE c == [call[p] EXCEPT !.at = "fill", !.since = now]
<1>1. call[p] \in Underway
  BY ActiveCall DEF ReturnHot
<1>2. call' = [call EXCEPT ![p] = c]
  BY DEF ReturnHot
<1>3. c \in Underway /\ c.at = "fill" /\ c.since = now
      /\ c.op = call[p].op /\ c.key = call[p].key /\ c.version = call[p].version
  BY <1>1 DEF Underway, TypeOK
<1> HIDE DEF c
<1>4. GoesOn(p, c.at, c.since, c.version)
  BY <1>2, <1>3, CallMoves
<1> QED
  BY <1>3, <1>4

\* The server answers a Get with the version it holds and changes nothing.
LEMMA GetServed ==
  ASSUME TypeOK, NEW p \in Procs, Serve(p), call[p].op = "Get"
  PROVE  /\ GoesOn(p, "response", call[p].since,
                   IF Holds(call[p].key) THEN server[call[p].key] ELSE 0)
         /\ UNCHANGED <<server, versions, ended>>
<1> DEFINE v == IF Holds(call[p].key) THEN server[call[p].key] ELSE 0
<1>1. call[p] \in Underway
  BY ActiveCall DEF Serve
<1>2. PICK hot \in BOOLEAN :
        call' = [call EXCEPT ![p] = [call[p] EXCEPT !.at = "response", !.hot = hot, !.version = v]]
  BY DEF Serve, Writes
<1>3. v \in 0 .. MaxVersions
  BY <1>1, ClientAssumption, SMT DEF Underway, TypeOK
<1> DEFINE c == [call[p] EXCEPT !.at = "response", !.hot = hot, !.version = v]
<1> HIDE DEF v
<1>4. c \in Underway /\ c.at = "response" /\ c.version = v
      /\ c.op = call[p].op /\ c.key = call[p].key /\ c.since = call[p].since
  BY <1>1, <1>3 DEF Underway
<1>5. call' = [call EXCEPT ![p] = c]
  BY <1>2
<1> HIDE DEF c
<1>6. GoesOn(p, c.at, c.since, c.version)
  BY <1>4, <1>5, CallMoves
<1>7. GoesOn(p, "response", call[p].since, v)
  BY <1>4, <1>6
<1> QED
  BY <1>7 DEF v, Serve, Writes

\* The server carries a write out as the next version of its key.
LEMMA WriteServed ==
  ASSUME TypeOK, NEW p \in Procs, Serve(p), call[p].op # "Get"
  PROVE  /\ GoesOn(p, "response", call[p].since, versions[call[p].key] + 1)
         /\ Apply(call[p].op, call[p].key, call[p].ttl) /\ call[p].op \in Writes
<1> DEFINE v == versions[call[p].key] + 1
           c == [call[p] EXCEPT !.at = "response", !.version = v]
<1>1. call[p] \in Underway
  BY ActiveCall DEF Serve
<1>2. /\ call' = [call EXCEPT ![p] = c]
      /\ Apply(call[p].op, call[p].key, call[p].ttl) /\ call[p].op \in Writes
  BY DEF Serve
<1>3. v \in 0 .. MaxVersions
  BY <1>1, <1>2, ClientAssumption, SMT DEF Underway, TypeOK, Apply, Versions
<1> HIDE DEF v
<1>4. c \in Underway /\ c.at = "response" /\ c.version = v
      /\ c.op = call[p].op /\ c.key = call[p].key /\ c.since = call[p].since
  BY <1>1, <1>3 DEF Underway
<1> HIDE DEF c
<1>5. GoesOn(p, c.at, c.since, c.version)
  BY <1>2, <1>4, CallMoves
<1>6. GoesOn(p, "response", call[p].since, v)
  BY <1>4, <1>5
<1> QED
  BY <1>2, <1>6 DEF v

(***************************************************************************)
(* What the server does with a write                                       *)
(***************************************************************************)
LEMMA Applied ==
  ASSUME TypeOK, NEW op \in Writes, NEW k \in Keys, NEW ttl \in TTLs \cup {0}, Apply(op, k, ttl)
  PROVE  /\ versions' \in [Keys -> Versions] /\ server' \in [Keys -> 0 .. MaxVersions]
         /\ ended' \in [Keys -> [Versions -> Nat \cup {None}]]
         /\ versions'[k] = versions[k] + 1 /\ server'[k] \in {0, versions'[k]}
         /\ \A j \in Keys \ {k} : /\ versions'[j] = versions[j] /\ server'[j] = server[j]
                                  /\ ended'[j] = ended[j]
         /\ \A v \in Versions : v <= versions[k] => ended'[k][v] \in {ended[k][v], now}
<1> DEFINE n == versions[k] + 1
           e == [w \in Versions |->
                    IF w = n THEN IF op = "Set" /\ ttl = 0 THEN None ELSE now + ttl
                    ELSE IF w = server[k] /\ Holds(k) THEN now
                    ELSE ended[k][w]]
<1>1. versions[k] \in Nat /\ n \in Versions
  BY ClientAssumption, SMT DEF Apply, TypeOK, Versions
<1>2. e \in [Versions -> Nat \cup {None}]
  <2>1. /\ now \in Nat /\ ttl \in Nat
        /\ \A w \in Versions : ended[k][w] \in Nat \cup {None}
    BY ClientAssumption, SMT DEF TypeOK
  <2> QED
    BY <2>1, SMT
<1>3. \A v \in Versions : v <= versions[k] => e[v] \in {ended[k][v], now}
  BY <1>1, SMT DEF Versions
<1>4. ended' = [ended EXCEPT ![k] = e] /\ versions' = [versions EXCEPT ![k] = n]
      /\ server' = [server EXCEPT ![k] = IF op = "Set" THEN n ELSE 0]
  BY DEF Apply
<1> HIDE DEF e, n
<1>5. ended' \in [Keys -> [Versions -> Nat \cup {None}]] /\ ended'[k] = e
      /\ \A j \in Keys \ {k} : ended'[j] = ended[j]
  BY <1>2, <1>4 DEF TypeOK
<1>6. /\ versions' \in [Keys -> Versions] /\ server' \in [Keys -> 0 .. MaxVersions]
      /\ versions'[k] = n /\ server'[k] \in {0, n}
      /\ \A j \in Keys \ {k} : versions'[j] = versions[j] /\ server'[j] = server[j]
  BY <1>1, <1>4, ClientAssumption, SMT DEF TypeOK, Versions
<1> QED
  BY <1>3, <1>5, <1>6 DEF n

(***************************************************************************)
(* Type correctness                                                        *)
(***************************************************************************)
LEMMA TypeInit == Init => TypeOK
<1> SUFFICES ASSUME Init PROVE TypeOK
  OBVIOUS
<1>1. l1.items \in [Keys -> Entry \cup {None}]
  BY DEF Init, EmptyL1
<1> QED
  BY <1>1, ClientAssumption, SMT DEF Init, TypeOK, Versions

\* Get fills L1 with a value it has found.
FillInv == \A p \in Procs : call[p].at = "fill" => call[p].op = "Get" /\ call[p].version # 0

\* Every step keeps the types.
LEMMA TypeStep == TypeOK /\ FillInv /\ [Next]_vars => TypeOK'
<1> SUFFICES ASSUME TypeOK, FillInv, [Next]_vars PROVE TypeOK'
  OBVIOUS
<1> USE ClientAssumption DEF ghosts
<1>0. l1.items \in Items
  BY DEF TypeOK, Items
<1>1. ASSUME NEW p \in Procs, NEW k \in Keys, Get(p, k) PROVE TypeOK'
  <2>1. l1'.items \in Items
    BY <1>0, <1>1, GetShrinks DEF Get, Shrinks
  <2>2. call' \in [Procs -> Underway \cup {Idle}]
    BY <1>1, CallBegins DEF Get, Begin, TypeOK
  <2>3. overlapped' \subseteq Keys /\ calls' \in 0 .. MaxCalls
    BY <1>1, SMT DEF Get, Begin, Meets, TypeOK
  <2> QED
    BY <1>1, <2>1, <2>2, <2>3 DEF Get, Begin, TypeOK, Items
<1>2. ASSUME NEW p \in Procs, NEW op \in Writes, NEW k \in Keys, NEW ttl \in TTLs \cup {0},
             Write(p, op, k, ttl)
      PROVE  TypeOK'
  <2>1. l1'.items \in Items
    BY <1>0, <1>2, DeleteShrinks DEF Write, Invalidate, Shrinks
  <2>2. call' \in [Procs -> Underway \cup {Idle}]
    BY <1>2, CallBegins DEF Write, Begin, TypeOK
  <2>3. overlapped' \subseteq Keys /\ calls' \in 0 .. MaxCalls
    BY <1>2, SMT DEF Write, Begin, Meets, TypeOK
  <2> QED
    BY <1>2, <2>1, <2>2, <2>3 DEF Write, Begin, TypeOK, Items
<1>3. ASSUME NEW p \in Procs, Serve(p) PROVE TypeOK'
  <2>1. call[p] \in Underway
    BY <1>3, ActiveCall DEF Serve
  <2>2. /\ call' \in [Procs -> Underway \cup {Idle}]
        /\ versions' \in [Keys -> Versions] /\ server' \in [Keys -> 0 .. MaxVersions]
        /\ ended' \in [Keys -> [Versions -> Nat \cup {None}]]
    <3>1. CASE call[p].op = "Get"
      BY <1>3, <3>1, GetServed DEF GoesOn, TypeOK
    <3>2. CASE call[p].op # "Get"
      <4>1. call[p].key \in Keys /\ call[p].ttl \in TTLs \cup {0}
        BY <2>1 DEF Underway
      <4> QED
        BY <1>3, <3>2, <4>1, WriteServed, Applied DEF GoesOn
    <3> QED
      BY <3>1, <3>2
  <2> QED
    BY <1>3, <2>2 DEF Serve, TypeOK
<1>4. ASSUME NEW p \in Procs, Return(p) PROVE TypeOK'
  <2>1. call' \in [Procs -> Underway \cup {Idle}]
    BY <1>4, CallEnds DEF Return
  <2>2. call[p].version \in 0 .. MaxVersions
    BY <1>4, ActiveCall DEF Return, Underway
  <2>3. written' \in [Keys -> 0 .. MaxVersions]
    BY <1>4, <2>2 DEF Return, TypeOK
  <2> QED
    BY <1>4, <2>1, <2>3 DEF Return, TypeOK
<1>5. ASSUME NEW p \in Procs, ReturnHot(p) PROVE TypeOK'
  BY <1>5, CallKept DEF ReturnHot, TypeOK, GoesOn
<1>6. ASSUME NEW p \in Procs, Fill(p) PROVE TypeOK'
  <2>1. call' \in [Procs -> Underway \cup {Idle}]
    BY <1>6, CallEnds DEF Fill
  <2>2. call[p].key \in Keys /\ call[p].version \in Versions
    <3>1. call[p] \in Underway /\ call[p].version # 0
      BY <1>6, ActiveCall DEF Fill, FillInv
    <3> QED
      BY <3>1, SMT DEF Underway, Versions
  <2>3. l1'.items \in Items
    <3>1. now \in Nat
      BY SMT DEF TypeOK
    <3> QED
      BY <1>0, <1>6, <2>2, <3>1, SetAdds DEF Fill
  <2> QED
    BY <1>6, <2>1, <2>3 DEF Fill, TypeOK, Items
<1>7. ASSUME NEW p \in Procs, Fail(p) PROVE TypeOK'
  BY <1>7, CallEnds DEF Fail, TypeOK
<1>8. ASSUME NEW op \in Writes, NEW k \in Keys, NEW ttl \in TTLs \cup {0}, WriteElsewhere(op, k, ttl)
      PROVE  TypeOK'
  <2>1. /\ versions' \in [Keys -> Versions] /\ server' \in [Keys -> 0 .. MaxVersions]
        /\ ended' \in [Keys -> [Versions -> Nat \cup {None}]]
    BY <1>8, Applied DEF WriteElsewhere
  <2> QED
    BY <1>8, <2>1, SMT DEF WriteElsewhere, TypeOK
<1>9. CASE Close
  <2>1. l1'.items = [k \in Keys |-> None]
    BY <1>9 DEF Close, EmptyL1
  <2> QED
    BY <1>9, <2>1 DEF Close, TypeOK
<1>10. CASE Tick
  BY <1>10, SMT DEF Tick, TypeOK
<1>11. CASE UNCHANGED vars
  BY <1>11 DEF vars, TypeOK
<1> QED
  BY <1>1, <1>2, <1>3, <1>4, <1>5, <1>6, <1>7, <1>8, <1>9, <1>10, <1>11
  DEF Next, Set, Delete, Writes

(***************************************************************************)
(* Staleness.  A call knows since when it has waited and what it was       *)
(* answered: the answer was the server's value at some time after that.    *)
(***************************************************************************)
Waits(p) ==
    /\ call[p].since <= now /\ call[p].version <= versions[call[p].key]
    /\ call[p].at # "fill" => now <= call[p].since + RequestTimeout
    /\ call[p].at = "fill" => now <= call[p].since + MaxPause

Answered(p) ==
    call[p].op = "Get" /\ call[p].version # 0 /\ ended[call[p].key][call[p].version] # None =>
        call[p].since <= ended[call[p].key][call[p].version] +
                         IF call[p].at = "fill" THEN RequestTimeout ELSE 0

CallInv == \A p \in Procs : call[p].at # "idle" => Waits(p) /\ Answered(p)

ServerInv == \A k \in Keys : server[k] \in {0, versions[k]} /\ written[k] <= versions[k]

Fresh(k) ==
    l1.items[k] # None =>
        /\ l1.items[k].version <= versions[k]
        /\ l1.items[k].expiresAt <= now + DefaultTTL
        /\ ended[k][l1.items[k].version] # None =>
              l1.items[k].expiresAt <=
                  ended[k][l1.items[k].version] + RequestTimeout + MaxPause + DefaultTTL

StaleInv == \A k \in Keys : Fresh(k)

\* The clock stands, and versions end now if they end.
ServerMoves ==
    /\ now' = now
    /\ \A k \in Keys :
          /\ versions'[k] \in Versions /\ versions[k] <= versions'[k]
          /\ \A v \in Versions : v <= versions[k] => ended'[k][v] \in {ended[k][v], now}

\* An answer on its way stays recent enough while the server moves.
LEMMA CallStays ==
  ASSUME TypeOK, NEW p \in Procs, call[p].at # "idle", Waits(p), Answered(p), ServerMoves,
         call'[p] = call[p]
  PROVE  Waits(p)' /\ Answered(p)'
<1>1. call[p] \in Underway
  BY ActiveCall
<1>2. /\ call[p].key \in Keys /\ call[p].since \in Nat /\ now \in Nat /\ call[p].version \in Nat
      /\ versions[call[p].key] \in Nat
      /\ call[p].version # 0 => call[p].version \in Versions
  BY <1>1, SMT DEF Underway, TypeOK, Versions
<1>3. Waits(p)'
  BY <1>2, SMT DEF Waits, ServerMoves, Versions
<1>4. Answered(p)'
  <2>1. SUFFICES ASSUME call[p].op = "Get", call[p].version # 0,
                        ended'[call[p].key][call[p].version] # None
                 PROVE  call[p].since <= ended'[call[p].key][call[p].version] +
                                         IF call[p].at = "fill" THEN RequestTimeout ELSE 0
    BY DEF Answered
  <2>2. ended'[call[p].key][call[p].version] \in {ended[call[p].key][call[p].version], now}
    BY <1>2, <2>1 DEF Waits, ServerMoves
  <2> QED
    BY <1>2, <2>1, <2>2, ClientAssumption, SMT DEF Answered, Waits
<1> QED
  BY <1>3, <1>4

\* An L1 entry nobody replaces stays fresh enough while the server moves.
LEMMA EntryStays ==
  ASSUME TypeOK, NEW k \in Keys, Fresh(k), ServerMoves, l1'.items[k] \in {l1.items[k], None}
  PROVE  Fresh(k)'
<1>1. SUFFICES ASSUME l1'.items[k] # None PROVE Fresh(k)'
  BY DEF Fresh
<1>2. l1'.items[k] = l1.items[k] /\ l1.items[k] \in Entry
  BY <1>1 DEF TypeOK
<1>3. /\ l1.items[k].version \in Versions /\ l1.items[k].expiresAt \in Nat /\ now \in Nat
      /\ versions[k] \in Nat
  BY <1>2, SMT DEF Entry, TypeOK, Versions
<1>4. ended'[k][l1.items[k].version] \in {ended[k][l1.items[k].version], now}
  BY <1>1, <1>2, <1>3 DEF Fresh, ServerMoves
<1>5. l1.items[k].version <= versions'[k]
  BY <1>1, <1>2, <1>3, SMT DEF Fresh, ServerMoves, Versions
<1> QED
  BY <1>1, <1>2, <1>3, <1>4, <1>5, ClientAssumption, L1Assumption, SMT DEF Fresh, ServerMoves

\* A step in which no version begins or ends is a harmless move of the server.
LEMMA ServerStands ==
  ASSUME TypeOK, UNCHANGED <<now, versions, ended>>
  PROVE  ServerMoves
<1>1. \A k \in Keys : versions[k] \in Nat /\ versions[k] \in Versions
  BY SMT DEF TypeOK, Versions
<1> QED
  BY <1>1, SMT DEF ServerMoves

\* A write ends versions now and keeps the server consistent.
LEMMA ServerWrites ==
  ASSUME TypeOK, ServerInv, NEW op \in Writes, NEW k \in Keys, NEW ttl \in TTLs \cup {0},
         Apply(op, k, ttl), UNCHANGED <<now, written>>
  PROVE  ServerMoves /\ ServerInv'
<1>1. /\ versions' \in [Keys -> Versions] /\ versions \in [Keys -> Versions]
      /\ versions'[k] = versions[k] + 1 /\ server'[k] \in {0, versions'[k]}
      /\ \A j \in Keys \ {k} : /\ versions'[j] = versions[j] /\ server'[j] = server[j]
                               /\ ended'[j] = ended[j]
      /\ \A v \in Versions : v <= versions[k] => ended'[k][v] \in {ended[k][v], now}
  BY Applied DEF TypeOK
<1>2. ServerMoves
  BY <1>1, SMT DEF ServerMoves, Versions
<1>3. ServerInv'
  <2>1. written \in [Keys -> 0 .. MaxVersions]
    BY DEF TypeOK
  <2> QED
    BY <1>1, <2>1, ClientAssumption, SMT DEF ServerInv, Versions
<1> QED
  BY <1>2, <1>3

StaleParts == CallInv /\ FillInv /\ ServerInv /\ StaleInv

\* Every step keeps what bounds the staleness of L1.
LEMMA StaleStep == TypeOK /\ StaleParts /\ [Next]_vars => StaleParts'
<1> SUFFICES ASSUME TypeOK, StaleParts, [Next]_vars PROVE StaleParts'
  OBVIOUS
<1> USE DEF ghosts
<1>0. l1.items \in Items /\ CallInv /\ FillInv /\ ServerInv /\ StaleInv
  BY DEF TypeOK, Items, StaleParts
<1>1. ASSUME ServerMoves, NEW p \in Procs, OthersStay(p),
             call'[p].at # "idle" => Waits(p)' /\ Answered(p)',
             call'[p].at = "fill" => call'[p].op = "Get" /\ call'[p].version # 0
      PROVE  CallInv' /\ FillInv'
  BY <1>0, <1>1, CallStays DEF CallInv, FillInv, OthersStay
<1>2. ASSUME ServerMoves, UNCHANGED call PROVE CallInv' /\ FillInv'
  BY <1>0, <1>2, CallStays DEF CallInv, FillInv
<1>3. ASSUME ServerMoves, \A k \in Keys : l1'.items[k] \in {l1.items[k], None} PROVE StaleInv'
  BY <1>0, <1>3, EntryStays DEF StaleInv
<1>4. ASSUME UNCHANGED <<server, versions, written>> PROVE ServerInv'
  BY <1>0, <1>4 DEF ServerInv
<1>5. ASSUME NEW p \in Procs, NEW op \in {"Get"} \cup Writes, NEW k \in Keys,
             NEW ttl \in TTLs \cup {0}, Send(p, op, k, ttl), call[p].at = "idle", ServerMoves
      PROVE  CallInv' /\ FillInv'
  <2>1. CASE call' = call
    BY <1>2, <1>5, <2>1
  <2>2. CASE call' # call
    <3>1. OthersStay(p) /\ call'[p] = [at |-> "request", op |-> op, key |-> k, ttl |-> ttl,
                                       since |-> now, version |-> 0, hot |-> FALSE]
      BY <1>5, <2>2, CallBegins
    <3>2. call'[p].at = "request" /\ call'[p].since = now /\ call'[p].version = 0 /\ call'[p].key = k
      BY <3>1, SMT
    <3>3. now \in Nat /\ versions'[k] \in Nat /\ now' = now
      BY <1>5, SMT DEF TypeOK, ServerMoves, Versions
    <3>4. Waits(p)' /\ Answered(p)'
      BY <3>2, <3>3, ClientAssumption, SMT DEF Waits, Answered
    <3> QED
      BY <1>1, <1>5, <3>1, <3>2, <3>4
  <2> QED
    BY <2>1, <2>2
<1>6. ASSUME NEW p \in Procs, NEW k \in Keys, Get(p, k) PROVE StaleParts'
  <2>1. ServerMoves /\ ServerInv'
    BY <1>4, <1>6, ServerStands DEF Get, Begin
  <2>2. StaleInv'
    BY <1>0, <1>3, <1>6, <2>1, GetShrinks DEF Get, Shrinks
  <2>3. CallInv' /\ FillInv'
    BY <1>2, <1>5, <1>6, <2>1 DEF Get, Begin
  <2> QED
    BY <2>1, <2>2, <2>3 DEF StaleParts
<1>7. ASSUME NEW p \in Procs, NEW op \in Writes, NEW k \in Keys, NEW ttl \in TTLs \cup {0},
             Write(p, op, k, ttl)
      PROVE  StaleParts'
  <2>1. ServerMoves /\ ServerInv'
    BY <1>4, <1>7, ServerStands DEF Write, Begin
  <2>2. StaleInv'
    BY <1>0, <1>3, <1>7, <2>1, DeleteShrinks DEF Write, Invalidate, Shrinks
  <2>3. CallInv' /\ FillInv'
    BY <1>5, <1>7, <2>1 DEF Write, Begin
  <2> QED
    BY <2>1, <2>2, <2>3 DEF StaleParts
<1>8. ASSUME NEW p \in Procs, Serve(p), call[p].op = "Get" PROVE StaleParts'
  <2> DEFINE k == call[p].key
             v == IF Holds(k) THEN server[k] ELSE 0
  <2>1. GoesOn(p, "response", call[p].since, v) /\ UNCHANGED <<server, versions, ended, now, written, l1>>
    BY <1>8, GetServed DEF Serve
  <2>2. ServerMoves /\ ServerInv' /\ StaleInv'
    BY <1>3, <1>4, <2>1, ServerStands
  <2>3. /\ k \in Keys /\ call[p].since \in Nat /\ now \in Nat /\ versions[k] \in Nat
        /\ server[k] \in {0, versions[k]} /\ server[k] \in 0 .. MaxVersions
        /\ ended[k] \in [Versions -> Nat \cup {None}]
        /\ call[p].since <= now /\ now <= call[p].since + RequestTimeout
    <3>1. call[p] \in Underway /\ call[p].at = "request"
      BY <1>8, ActiveCall DEF Serve
    <3>2. k \in Keys /\ call[p].since \in Nat
      BY <3>1, SMT DEF Underway
    <3> QED
      BY <1>0, <3>1, <3>2, SMT DEF TypeOK, Versions, CallInv, Waits, ServerInv
  <2>4. v # 0 /\ ended[k][v] # None => call[p].since <= ended[k][v]
    <3> SUFFICES ASSUME v # 0, ended[k][v] # None PROVE call[p].since <= ended[k][v]
      OBVIOUS
    <3>1. Holds(k) /\ v = server[k]
      OBVIOUS
    <3>2. now <= ended[k][v] /\ v # 0
      BY <3>1 DEF Holds
    <3>3. v \in Versions
      BY <2>3, <3>1, <3>2, SMT DEF Versions
    <3>4. ended[k][v] \in Nat
      BY <2>3, <3>3
    <3> QED
      BY <2>3, <3>2, <3>4, SMT
  <2>5. v <= versions[k]
    BY <2>3, SMT
  <2> HIDE DEF v
  <2>6. Waits(p)' /\ Answered(p)'
    <3>1. /\ call'[p].at = "response" /\ call'[p].since = call[p].since /\ call'[p].version = v
          /\ call'[p].key = k
      BY <2>1 DEF GoesOn
    <3>2. Waits(p)'
      BY <2>1, <2>3, <2>5, <3>1 DEF Waits
    <3>3. Answered(p)'
      <4>1. v # 0 => v \in Versions
        BY <2>3, SMT DEF v, Versions
      <4>2. v # 0 /\ ended[k][v] # None => ended[k][v] \in Nat
        BY <2>3, <4>1
      <4> QED
        BY <2>1, <2>3, <2>4, <3>1, <4>2, SMT DEF Answered
    <3> QED
      BY <3>2, <3>3
  <2>7. CallInv' /\ FillInv'
    BY <1>1, <2>1, <2>2, <2>6 DEF GoesOn
  <2> QED
    BY <2>2, <2>7 DEF StaleParts
<1>9. ASSUME NEW p \in Procs, Serve(p), call[p].op # "Get" PROVE StaleParts'
  <2>1. /\ GoesOn(p, "response", call[p].since, versions[call[p].key] + 1)
        /\ Apply(call[p].op, call[p].key, call[p].ttl) /\ call[p].op \in Writes
        /\ UNCHANGED <<now, written, l1>>
    BY <1>9, WriteServed DEF Serve
  <2>2. call[p] \in Underway /\ call[p].at = "request"
    BY <1>9, ActiveCall DEF Serve
  <2>3. /\ call[p].key \in Keys /\ call[p].ttl \in TTLs \cup {0} /\ call[p].since \in Nat
    BY <2>2, SMT DEF Underway
  <2>4. ServerMoves /\ ServerInv' /\ versions'[call[p].key] = versions[call[p].key] + 1
    BY <1>0, <2>1, <2>3, ServerWrites, Applied
  <2>5. StaleInv'
    BY <1>3, <2>1, <2>4
  <2>6. Waits(p)' /\ Answered(p)'
    <3>1. versions[call[p].key] \in Nat /\ now \in Nat /\ call[p].since <= now
          /\ now <= call[p].since + RequestTimeout
      BY <1>0, <2>2, <2>3, SMT DEF TypeOK, Versions, CallInv, Waits
    <3>2. /\ call'[p].at = "response" /\ call'[p].since = call[p].since /\ call'[p].op # "Get"
          /\ call'[p].key = call[p].key /\ call'[p].version = versions[call[p].key] + 1
      BY <1>9, <2>1 DEF GoesOn
    <3>3. Waits(p)'
      BY <2>1, <2>3, <2>4, <3>1, <3>2, SMT DEF Waits
    <3>4. Answered(p)'
      BY <3>2 DEF Answered
    <3> QED
      BY <3>3, <3>4
  <2>7. CallInv' /\ FillInv'
    BY <1>1, <2>1, <2>4, <2>6 DEF GoesOn
  <2> QED
    BY <2>4, <2>5, <2>7 DEF StaleParts
<1>10. ASSUME NEW p \in Procs, Return(p) PROVE StaleParts'
  <2>1. OthersStay(p) /\ call'[p].at = "idle" /\ UNCHANGED <<l1, server, versions, now, ended>>
    BY <1>10, CallEnds DEF Return
  <2>2. ServerMoves /\ StaleInv' /\ CallInv' /\ FillInv'
    BY <1>1, <1>3, <2>1, ServerStands
  <2>3. call[p] \in Underway /\ call[p].key \in Keys /\ call[p].version <= versions[call[p].key]
    BY <1>0, <1>10, ActiveCall DEF Return, Underway, CallInv, Waits
  <2>4. \A k \in Keys : written'[k] = written[k] \/ (k = call[p].key /\ written'[k] = call[p].version)
    BY <1>10, <2>3 DEF Return, TypeOK
  <2>5. ServerInv'
    BY <1>0, <2>1, <2>3, <2>4 DEF ServerInv
  <2> QED
    BY <2>2, <2>5 DEF StaleParts
<1>11. ASSUME NEW p \in Procs, ReturnHot(p) PROVE StaleParts'
  <2>1. GoesOn(p, "fill", now, call[p].version) /\ UNCHANGED <<l1, server, versions, now, ended, written>>
    BY <1>11, CallKept DEF ReturnHot
  <2>2. ServerMoves /\ ServerInv' /\ StaleInv'
    BY <1>3, <1>4, <2>1, ServerStands
  <2>3. call[p] \in Underway /\ call[p].at = "response" /\ call[p].op = "Get" /\ call[p].version # 0
    BY <1>11, ActiveCall DEF ReturnHot
  <2>4. /\ call[p].key \in Keys /\ call[p].since \in Nat /\ now \in Nat /\ call[p].version \in Versions
        /\ ended[call[p].key][call[p].version] \in Nat \cup {None}
    <3>1. call[p].key \in Keys /\ call[p].since \in Nat /\ call[p].version \in Versions
      BY <2>3, SMT DEF Underway, Versions
    <3> QED
      BY <3>1, SMT DEF TypeOK
  <2>5. Waits(p) /\ Answered(p)
    BY <1>0, <2>3 DEF CallInv
  <2>6. /\ call'[p].at = "fill" /\ call'[p].since = now /\ call'[p].version = call[p].version
        /\ call'[p].key = call[p].key /\ call'[p].op = "Get" /\ OthersStay(p)
    BY <2>1, <2>3 DEF GoesOn
  <2>7. Waits(p)'
    BY <2>1, <2>4, <2>5, <2>6, ClientAssumption, SMT DEF Waits
  <2>8. Answered(p)'
    BY <2>1, <2>3, <2>4, <2>5, <2>6, ClientAssumption, SMT DEF Waits, Answered
  <2>9. CallInv' /\ FillInv'
    BY <1>1, <2>2, <2>3, <2>6, <2>7, <2>8
  <2> QED
    BY <2>2, <2>9 DEF StaleParts
<1>12. ASSUME NEW p \in Procs, Fill(p) PROVE StaleParts'
  <2>1. OthersStay(p) /\ call'[p].at = "idle" /\ UNCHANGED <<server, versions, now, ended, written>>
    BY <1>12, CallEnds DEF Fill
  <2>2. ServerMoves /\ ServerInv' /\ CallInv' /\ FillInv'
    BY <1>1, <1>4, <2>1, ServerStands
  <2>3. call[p] \in Underway /\ call[p].at = "fill" /\ call[p].op = "Get" /\ call[p].version # 0
    BY <1>0, <1>12, ActiveCall DEF Fill, FillInv
  <2>4. PICK k \in Keys, v \in Versions : k = call[p].key /\ v = call[p].version
    BY <2>3, SMT DEF Underway, Versions
  <2>5. /\ now \in Nat /\ ended[k][v] \in Nat \cup {None} /\ call[p].since \in Nat
    BY <2>3, SMT DEF TypeOK, Underway
  <2>6. PICK e \in Entry : e = [version |-> v, expiresAt |-> now + DefaultTTL]
    BY <1>0, <2>5, SetAdds
  <2>7. /\ l1'.items[k] \in {e, None}
        /\ \A j \in Keys \ {k} : l1'.items[j] \in {l1.items[j], None}
    BY <1>0, <1>12, <2>4, <2>5, <2>6, SetAdds DEF Fill
  <2>8. v <= versions[k] /\ (ended[k][v] # None => now <= ended[k][v] + RequestTimeout + MaxPause)
    <3>1. Waits(p) /\ Answered(p)
      BY <1>0, <2>3 DEF CallInv
    <3> QED
      BY <2>3, <2>4, <2>5, <3>1, ClientAssumption, SMT DEF Waits, Answered
  <2>9. Fresh(k)'
    <3>1. e.version = v /\ e.expiresAt = now + DefaultTTL
      BY <2>6
    <3>2. CASE l1'.items[k] = e
      BY <2>1, <2>5, <2>8, <3>1, <3>2, ClientAssumption, L1Assumption, SMT DEF Fresh
    <3>3. CASE l1'.items[k] = None
      BY <3>3 DEF Fresh
    <3> QED
      BY <2>7, <3>2, <3>3
  <2>10. \A j \in Keys \ {k} : Fresh(j)'
    BY <1>0, <2>2, <2>7, EntryStays DEF StaleInv
  <2>11. StaleInv'
    BY <2>9, <2>10 DEF StaleInv
  <2> QED
    BY <2>2, <2>11 DEF StaleParts
<1>13. ASSUME NEW p \in Procs, Fail(p) PROVE StaleParts'
  <2>1. /\ OthersStay(p) /\ call'[p].at = "idle"
        /\ UNCHANGED <<l1, server, versions, now, ended, written>>
    BY <1>13, CallEnds DEF Fail
  <2> QED
    BY <1>1, <1>3, <1>4, <2>1, ServerStands DEF StaleParts
<1>14. ASSUME NEW op \in Writes, NEW k \in Keys, NEW ttl \in TTLs \cup {0}, WriteElsewhere(op, k, ttl)
       PROVE  StaleParts'
  <2>1. ServerMoves /\ ServerInv'
    BY <1>0, <1>14, ServerWrites DEF WriteElsewhere
  <2>2. StaleInv' /\ CallInv' /\ FillInv'
    BY <1>2, <1>3, <1>14, <2>1 DEF WriteElsewhere
  <2> QED
    BY <2>1, <2>2 DEF StaleParts
<1>15. CASE Close
  <2>1. ServerMoves /\ ServerInv' /\ CallInv' /\ FillInv'
    BY <1>2, <1>4, <1>15, ServerStands DEF Close
  <2>2. \A k \in Keys : l1'.items[k] = None
    BY <1>15 DEF Close, EmptyL1
  <2> QED
    BY <1>3, <2>1, <2>2 DEF StaleParts
<1>16. CASE Tick
  <2>1. /\ UNCHANGED <<l1, call, server, versions, ended, written>> /\ now' = now + 1 /\ now \in Nat
    BY <1>16, SMT DEF Tick, TypeOK
  <2>2. ServerInv' /\ FillInv'
    BY <1>0, <2>1 DEF ServerInv, FillInv
  <2>3. CallInv'
    <3>1. SUFFICES ASSUME NEW p \in Procs, call[p].at # "idle" PROVE Waits(p)' /\ Answered(p)'
      BY <2>1 DEF CallInv
    <3>2. call[p] \in Underway
      BY <3>1, ActiveCall
    <3>3. /\ call[p].since \in Nat /\ call[p].at \in {"request", "response", "fill"}
      BY <3>2, SMT DEF Underway
    <3>4. /\ call[p].at # "fill" => now < call[p].since + RequestTimeout
          /\ call[p].at = "fill" => now < call[p].since + MaxPause
      BY <1>16, <3>1, <3>3 DEF Tick
    <3>5. Waits(p) /\ Answered(p)
      BY <1>0, <3>1 DEF CallInv
    <3>6. Waits(p)'
      BY <2>1, <3>3, <3>4, <3>5, ClientAssumption, SMT DEF Waits
    <3>7. Answered(p)'
      BY <2>1, <3>5 DEF Answered
    <3> QED
      BY <3>6, <3>7
  <2>4. StaleInv'
    <3>1. SUFFICES ASSUME NEW k \in Keys, l1.items[k] # None PROVE Fresh(k)'
      BY <2>1 DEF StaleInv, Fresh
    <3>2. l1.items[k].expiresAt \in Nat
      BY <3>1 DEF TypeOK, Entry
    <3> QED
      BY <1>0, <2>1, <3>1, <3>2, L1Assumption, SMT DEF StaleInv, Fresh
  <2> QED
    BY <2>2, <2>3, <2>4 DEF StaleParts
<1>17. CASE UNCHANGED vars
  <2>1. UNCHANGED <<l1, call, server, versions, now, ended, written>>
    BY <1>17 DEF vars
  <2> QED
    BY <1>2, <1>3, <1>4, <2>1, ServerStands DEF StaleParts
<1> QED
  BY <1>6, <1>7, <1>8, <1>9, <1>10, <1>11, <1>12, <1>13, <1>14, <1>15, <1>16, <1>17
  DEF Next, Set, Delete, Writes

(***************************************************************************)
(* Reading one's own writes.  Unless a Get and a write of the key met,     *)
(* nothing can enter L1 while a write is under way, and what a Get brings  *)
(* back is no older than the last write that was acknowledged.             *)
(***************************************************************************)
Own(k) ==
    /\ \A p, q \in Procs : ~(InCall(p, {"Get"}, k) /\ InCall(q, Writes, k))
    /\ (\E q \in Procs : InCall(q, Writes, k)) => l1.items[k] = None
    /\ \A p \in Procs : InCall(p, {"Get"}, k) /\ call[p].version # 0 => call[p].version >= written[k]
    /\ l1.items[k] # None => l1.items[k].version >= written[k]

OwnInv == \A k \in Keys \ overlapped : Own(k)

\* p is in no call about k that it was not in before, and has heard nothing new.
NoNews(p, k) ==
    /\ InCall(p, {"Get"}, k)' => InCall(p, {"Get"}, k) /\ call'[p].version = call[p].version
    /\ InCall(p, Writes, k)' => InCall(p, Writes, k)

\* What L1 owes the client's own writes of k stays true without news of k.
LEMMA OwnStays ==
  ASSUME NEW k \in Keys, Own(k), l1'.items[k] \in {l1.items[k], None},
         written'[k] = written[k], \A p \in Procs : NoNews(p, k)
  PROVE  Own(k)'
<1>1. (\A p, q \in Procs : ~(InCall(p, {"Get"}, k) /\ InCall(q, Writes, k)))'
  BY DEF Own, NoNews
<1>2. ((\E q \in Procs : InCall(q, Writes, k)) => l1.items[k] = None)'
  BY DEF Own, NoNews
<1>3. (\A p \in Procs : InCall(p, {"Get"}, k) /\ call[p].version # 0 => call[p].version >= written[k])'
  BY DEF Own, NoNews
<1>4. (l1.items[k] # None => l1.items[k].version >= written[k])'
  BY DEF Own
<1> QED
  BY <1>1, <1>2, <1>3, <1>4 DEF Own

\* A goroutine that stays where it is, or becomes idle, brings no news.
LEMMA StaysNoNews ==
  ASSUME NEW p, NEW k, call'[p] = call[p] \/ call'[p].at = "idle"
  PROVE  NoNews(p, k)
BY DEF NoNews, InCall

\* Every step keeps L1 in line with the client's own writes.
LEMMA OwnStep == TypeOK /\ StaleParts /\ OwnInv /\ [Next]_vars => OwnInv'
<1> SUFFICES ASSUME TypeOK, StaleParts, OwnInv, [Next]_vars, NEW j \in Keys, j \notin overlapped'
             PROVE  Own(j)'
  BY DEF OwnInv
<1> USE DEF ghosts
<1>0. l1.items \in Items
  BY DEF TypeOK, Items
<1>1. ASSUME j \notin overlapped PROVE Own(j)
  BY <1>1 DEF OwnInv
<1>2. ASSUME NEW p \in Procs, NEW op \in {"Get"} \cup Writes, NEW k \in Keys,
             NEW ttl \in TTLs \cup {0}, Send(p, op, k, ttl), call[p].at = "idle", j # k
      PROVE  \A q \in Procs : NoNews(q, j)
  <2>1. OthersStay(p) /\ (call' = call \/ call'[p] = [at |-> "request", op |-> op, key |-> k,
                            ttl |-> ttl, since |-> now, version |-> 0, hot |-> FALSE])
    BY <1>2, CallBegins
  <2>2. call'[p] = call[p] \/ call'[p].key = k
    <3>1. CASE call' = call
      BY <3>1
    <3>2. CASE call'[p] = [at |-> "request", op |-> op, key |-> k, ttl |-> ttl, since |-> now,
                           version |-> 0, hot |-> FALSE]
      BY <3>2, SMT
    <3> QED
      BY <2>1, <3>1, <3>2
  <2>3. NoNews(p, j)
    BY <1>2, <2>2, StaysNoNews DEF NoNews, InCall
  <2> QED
    BY <2>1, <2>3, StaysNoNews DEF OthersStay
<1>3. ASSUME NEW p \in Procs, NEW k \in Keys, Get(p, k) PROVE Own(j)'
  <2>1. Own(j) /\ UNCHANGED written
    BY <1>1, <1>3 DEF Get, Begin, Meets
  <2>2. \A i \in Keys : l1'.items[i] \in {l1.items[i], None}
    BY <1>0, <1>3, GetShrinks DEF Get, Shrinks
  <2>3. CASE call' = call
    BY <2>1, <2>2, <2>3, StaysNoNews, OwnStays
  <2>4. CASE call' # call /\ j # k
    BY <1>2, <1>3, <2>1, <2>2, <2>4, OwnStays DEF Get, Begin
  <2>5. CASE call' # call /\ j = k
    <3>1. OthersStay(p) /\ call'[p] = [at |-> "request", op |-> "Get", key |-> k,
                            ttl |-> 0, since |-> now, version |-> 0, hot |-> FALSE]
      BY <1>3, <2>5, CallBegins, SMT DEF Get, Begin
    <3>2. call'[p].op = "Get" /\ call'[p].version = 0
      BY <3>1, SMT
    <3>3. \A q \in Procs : ~InCall(q, Writes, k)
      BY <1>3, <2>5 DEF Get, Meets
    <3>4. \A q \in Procs : ~InCall(q, Writes, k)'
      BY <3>1, <3>2, <3>3 DEF InCall, OthersStay, Writes
    <3>5. \A q \in Procs : InCall(q, {"Get"}, k)' /\ call'[q].version # 0 =>
             InCall(q, {"Get"}, k) /\ call'[q].version = call[q].version
      BY <3>1, <3>2 DEF InCall, OthersStay
    <3> QED
      BY <2>1, <2>2, <2>5, <3>4, <3>5 DEF Own
  <2> QED
    BY <2>3, <2>4, <2>5
<1>4. ASSUME NEW p \in Procs, NEW op \in Writes, NEW k \in Keys, NEW ttl \in TTLs \cup {0},
             Write(p, op, k, ttl)
      PROVE  Own(j)'
  <2>1. Own(j) /\ UNCHANGED written
    BY <1>1, <1>4 DEF Write, Begin, Meets
  <2>2. l1'.items[k] = None /\ \A i \in Keys : l1'.items[i] \in {l1.items[i], None}
    BY <1>0, <1>4, DeleteShrinks DEF Write, Invalidate, Shrinks
  <2>3. CASE j # k
    BY <1>2, <1>4, <2>1, <2>2, <2>3, OwnStays DEF Write, Begin
  <2>4. CASE j = k
    <3>1. \A q \in Procs : ~InCall(q, {"Get"}, k)
      BY <1>4, <2>4 DEF Write, Meets
    <3>2. OthersStay(p) /\ (call' = call \/ call'[p] = [at |-> "request", op |-> op, key |-> k,
                              ttl |-> ttl, since |-> now, version |-> 0, hot |-> FALSE])
      BY <1>4, CallBegins DEF Write, Begin
    <3>3. call' = call \/ call'[p].op = op
      <4>1. CASE call'[p] = [at |-> "request", op |-> op, key |-> k, ttl |-> ttl, since |-> now,
                             version |-> 0, hot |-> FALSE]
        BY <4>1, SMT
      <4> QED
        BY <3>2, <4>1
    <3>4. \A q \in Procs : ~InCall(q, {"Get"}, k)'
      BY <3>1, <3>2, <3>3 DEF InCall, OthersStay, Writes
    <3> QED
      BY <2>2, <2>4, <3>4 DEF Own
  <2> QED
    BY <2>3, <2>4
<1>5. ASSUME UNCHANGED <<written, overlapped>>, \A i \in Keys : l1'.items[i] \in {l1.items[i], None},
             \A q \in Procs : NoNews(q, j)
      PROVE  Own(j)'
  BY <1>1, <1>5, OwnStays
<1>6. ASSUME NEW p \in Procs, Serve(p), call[p].op = "Get" PROVE Own(j)'
  <2> DEFINE v == IF Holds(call[p].key) THEN server[call[p].key] ELSE 0
  <2>1. GoesOn(p, "response", call[p].since, v) /\ UNCHANGED <<written, overlapped, l1>>
    BY <1>6, GetServed DEF Serve
  <2>2. call[p].at = "request" /\ call[p] \in Underway
    BY <1>6, ActiveCall DEF Serve
  <2>3. v # 0 => v >= written[call[p].key]
    <3>1. call[p].key \in Keys
      BY <2>2 DEF Underway
    <3> QED
      BY <3>1 DEF StaleParts, ServerInv, TypeOK, Versions
  <2> HIDE DEF v
  <2>4. /\ OthersStay(p) /\ call'[p].at = "response" /\ call'[p].version = v
        /\ call'[p].op = "Get" /\ call'[p].key = call[p].key
    BY <1>6, <2>1 DEF GoesOn
  <2>5. \A q \in Procs : (InCall(q, {"Get"}, j)' <=> InCall(q, {"Get"}, j))
                         /\ (InCall(q, Writes, j)' <=> InCall(q, Writes, j))
    BY <1>6, <2>2, <2>4 DEF InCall, OthersStay
  <2>6. \A q \in Procs : InCall(q, {"Get"}, j) => call'[q].version = call[q].version
                                                  \/ (q = p /\ j = call[p].key)
    BY <2>4 DEF InCall, OthersStay
  <2>7. Own(j)
    BY <1>1, <2>1
  <2>8. (\A q \in Procs : InCall(q, {"Get"}, j) /\ call[q].version # 0 => call[q].version >= written[j])'
    BY <2>1, <2>3, <2>4, <2>5, <2>6, <2>7 DEF Own
  <2> QED
    BY <2>1, <2>5, <2>7, <2>8 DEF Own
<1>7. ASSUME NEW p \in Procs, Serve(p), call[p].op # "Get" PROVE Own(j)'
  <2>1. /\ OthersStay(p) /\ call'[p].op = call[p].op /\ call'[p].key = call[p].key
        /\ call[p].at # "idle" /\ UNCHANGED <<written, overlapped, l1>>
    BY <1>7, WriteServed DEF GoesOn, Serve
  <2>2. NoNews(p, j)
    BY <1>7, <2>1 DEF NoNews, InCall
  <2> QED
    BY <1>5, <2>1, <2>2, StaysNoNews DEF OthersStay
<1>8. ASSUME NEW p \in Procs, Return(p) PROVE Own(j)'
  <2>1. OthersStay(p) /\ call'[p].at = "idle" /\ UNCHANGED <<l1, overlapped>>
    BY <1>8, CallEnds DEF Return
  <2>2. \A q \in Procs : NoNews(q, j)
    BY <2>1, StaysNoNews DEF OthersStay
  <2>3. call[p] \in Underway
    BY <1>8, ActiveCall DEF Return
  <2>4. CASE written'[j] = written[j]
    BY <1>1, <2>1, <2>2, <2>4, OwnStays
  <2>5. CASE written'[j] # written[j]
    <3>1. InCall(p, Writes, j)
      BY <1>8, <2>5 DEF Return, TypeOK, InCall
    <3>2. l1.items[j] = None /\ \A q \in Procs : ~InCall(q, {"Get"}, j)
      BY <1>1, <2>1, <3>1 DEF Own
    <3>3. \A q \in Procs : ~InCall(q, {"Get"}, j)'
      BY <2>2, <3>2 DEF NoNews
    <3> QED
      BY <2>1, <3>2, <3>3 DEF Own
  <2> QED
    BY <2>4, <2>5
<1>9. ASSUME NEW p \in Procs, ReturnHot(p) PROVE Own(j)'
  <2>1. /\ OthersStay(p) /\ call'[p].op = call[p].op /\ call'[p].key = call[p].key
        /\ call'[p].version = call[p].version /\ call[p].at # "idle"
        /\ UNCHANGED <<written, overlapped, l1>>
    BY <1>9, CallKept DEF GoesOn, ReturnHot
  <2>2. NoNews(p, j)
    BY <2>1 DEF NoNews, InCall
  <2> QED
    BY <1>5, <2>1, <2>2, StaysNoNews DEF OthersStay
<1>10. ASSUME NEW p \in Procs, Fill(p) PROVE Own(j)'
  <2>1. OthersStay(p) /\ call'[p].at = "idle" /\ UNCHANGED <<written, overlapped>>
    BY <1>10, CallEnds DEF Fill
  <2>2. \A q \in Procs : NoNews(q, j)
    BY <2>1, StaysNoNews DEF OthersStay
  <2>3. call[p] \in Underway /\ call[p].at = "fill" /\ call[p].op = "Get" /\ call[p].version # 0
    BY <1>10, ActiveCall DEF Fill, StaleParts, FillInv
  <2>4. PICK k \in Keys, v \in Versions : k = call[p].key /\ v = call[p].version
    BY <2>3, SMT DEF Underway, Versions
  <2>5. now \in Nat
    BY SMT DEF TypeOK
  <2>6. PICK e \in Entry : e = [version |-> v, expiresAt |-> now + DefaultTTL]
    BY <1>0, <2>5, SetAdds
  <2>7. /\ l1'.items[k] \in {e, None}
        /\ \A i \in Keys \ {k} : l1'.items[i] \in {l1.items[i], None}
    BY <1>0, <1>10, <2>4, <2>5, <2>6, SetAdds DEF Fill
  <2>8. Own(j)
    BY <1>1, <2>1
  <2>9. CASE j # k
    BY <2>1, <2>2, <2>7, <2>8, <2>9, OwnStays
  <2>10. CASE j = k
    <3>1. InCall(p, {"Get"}, j)
      BY <2>3, <2>4, <2>10 DEF InCall
    <3>2. v >= written[j] /\ \A q \in Procs : ~InCall(q, Writes, j)
      BY <2>3, <2>4, <2>8, <3>1 DEF Own
    <3>3. \A q \in Procs : ~InCall(q, Writes, j)'
      BY <2>2, <3>2 DEF NoNews
    <3>4. e.version = v
      BY <2>6
    <3>5. (l1.items[j] # None => l1.items[j].version >= written[j])'
      BY <2>1, <2>7, <2>10, <3>2, <3>4
    <3>6. (\A q \in Procs : InCall(q, {"Get"}, j) /\ call[q].version # 0 => call[q].version >= written[j])'
      BY <2>1, <2>2, <2>8 DEF Own, NoNews
    <3> QED
      BY <3>3, <3>5, <3>6 DEF Own
  <2> QED
    BY <2>9, <2>10
<1>11. ASSUME NEW p \in Procs, Fail(p) PROVE Own(j)'
  <2>1. OthersStay(p) /\ call'[p].at = "idle" /\ UNCHANGED <<l1, written, overlapped>>
    BY <1>11, CallEnds DEF Fail
  <2> QED
    BY <1>5, <2>1, StaysNoNews DEF OthersStay
<1>12. CASE \/ Close \/ Tick \/ UNCHANGED vars
            \/ \E op \in Writes, k \in Keys, ttl \in TTLs \cup {0} : WriteElsewhere(op, k, ttl)
  <2>1. UNCHANGED <<call, written, overlapped>>
    BY <1>12 DEF Close, Tick, WriteElsewhere, vars
  <2>2. \A i \in Keys : l1'.items[i] \in {l1.items[i], None}
    BY <1>12, SMT DEF Close, Tick, WriteElsewhere, vars, EmptyL1
  <2> QED
    BY <1>5, <2>1, <2>2, StaysNoNews
<1> QED
  BY <1>3, <1>4, <1>6, <1>7, <1>8, <1>9, <1>10, <1>11, <1>12 DEF Next, Set, Delete, Writes

(***************************************************************************)
(* The LRU list                                                            *)
(***************************************************************************)

\* The list has keys, in the order of the relation rec.
Ordered(list, rec) ==
  /\ list \in Seq(Keys)
  /\ \A i, j \in 1 .. Len(list) : i < j => <<list[i], list[j]>> \in rec

Listed(list, k) == \E i \in 1 .. Len(list) : list[i] = k

\* The relation after a use of k.
After(rec, k) == {r \in rec : r[2] # k} \cup ({k} \X (Keys \ {k}))

Irreflexive(rec) == \A k \in Keys : <<k, k>> \notin rec

\* Remove takes one key off the list and leaves the others in their order.
LEMMA WithoutOrdered ==
  ASSUME NEW rec, Irreflexive(rec), NEW list, Ordered(list, rec), NEW k \in Keys, Listed(list, k)
  PROVE  /\ Ordered(Without(list, k), rec) /\ Len(Without(list, k)) = Len(list) - 1
         /\ \A x \in Keys : Listed(Without(list, k), x) <=> Listed(list, x) /\ x # k
<1> DEFINE L == Len(list)
           e == CHOOSE i \in DOMAIN list : list[i] = k
           shorter == Without(list, k)
<1>1. /\ list \in Seq(Keys) /\ L \in Nat /\ DOMAIN list = 1 .. L
      /\ \A i \in 1 .. L : list[i] \in Keys
      /\ \A i, j \in 1 .. L : i < j => <<list[i], list[j]>> \in rec
  BY SMT DEF Ordered
<1>2. e \in 1 .. L /\ list[e] = k
  BY <1>1 DEF Listed
<1>3. shorter = [i \in 1 .. L - 1 |-> IF i < e THEN list[i] ELSE list[i + 1]]
  BY DEF Without
<1> HIDE DEF e, L, shorter
<1>4. L - 1 \in Nat /\ e \in Int
  BY <1>1, <1>2, SMT
<1>5. \A i \in 1 .. L - 1 : /\ i < e => shorter[i] = list[i] /\ i \in 1 .. L
                            /\ ~(i < e) => shorter[i] = list[i + 1] /\ i + 1 \in 1 .. L
  BY <1>1, <1>3, SMT
<1>6. shorter \in Seq(Keys) /\ Len(shorter) = L - 1
  <2>1. shorter \in [1 .. L - 1 -> Keys]
    BY <1>1, <1>3, <1>5
  <2> QED
    BY <1>4, <2>1, SMT
<1>7. ASSUME NEW i \in 1 .. L - 1, NEW j \in 1 .. L - 1, i < j
      PROVE  <<shorter[i], shorter[j]>> \in rec
  <2>1. CASE j < e
    BY <1>1, <1>2, <1>5, <1>7, <2>1, SMT
  <2>2. CASE i < e /\ ~(j < e)
    BY <1>1, <1>2, <1>5, <1>7, <2>2, SMT
  <2>3. CASE ~(i < e)
    <3>1. ~(j < e) /\ i + 1 < j + 1
      BY <1>2, <1>4, <1>7, <2>3, SMT
    <3> QED
      BY <1>1, <1>5, <2>3, <3>1
  <2> QED
    BY <1>4, <2>1, <2>2, <2>3
<1>8. \A i \in 1 .. L : i # e => list[i] # k
  <2> TAKE i \in 1 .. L
  <2>1. i < e => <<list[i], k>> \in rec
    BY <1>1, <1>2
  <2>2. e < i => <<k, list[i]>> \in rec
    BY <1>1, <1>2
  <2> QED
    BY <1>2, <2>1, <2>2, SMT DEF Irreflexive
<1>9. ASSUME NEW x \in Keys, Listed(shorter, x) PROVE Listed(list, x) /\ x # k
  <2>1. PICK i \in 1 .. L - 1 : shorter[i] = x
    BY <1>6, <1>9 DEF Listed
  <2>2. CASE i < e
    BY <1>4, <1>5, <1>8, <2>1, <2>2, SMT DEF Listed, L
  <2>3. CASE ~(i < e)
    <3>1. i + 1 \in 1 .. L /\ list[i + 1] = x /\ i + 1 # e
      BY <1>4, <1>5, <2>1, <2>3, SMT
    <3> QED
      BY <1>8, <3>1 DEF Listed, L
  <2> QED
    BY <2>2, <2>3
<1>10. ASSUME NEW x \in Keys, Listed(list, x), x # k PROVE Listed(shorter, x)
  <2>1. PICK i \in 1 .. L : list[i] = x
    BY <1>10 DEF Listed, L
  <2>2. i # e
    BY <1>2, <1>10, <2>1
  <2>3. CASE i < e
    <3>1. i \in 1 .. L - 1 /\ shorter[i] = x
      BY <1>1, <1>2, <1>5, <2>1, <2>3, SMT
    <3> QED
      BY <1>6, <3>1 DEF Listed
  <2>4. CASE e < i
    <3>1. i - 1 \in 1 .. L - 1 /\ ~(i - 1 < e) /\ (i - 1) + 1 = i
      BY <1>1, <1>2, <2>4, SMT
    <3>2. shorter[i - 1] = x
      BY <1>5, <2>1, <3>1
    <3> QED
      BY <1>6, <3>1, <3>2 DEF Listed
  <2> QED
    BY <1>4, <2>2, <2>3, <2>4, SMT
<1>11. Ordered(shorter, rec)
  BY <1>6, <1>7 DEF Ordered
<1> QED
  BY <1>6, <1>9, <1>10, <1>11 DEF shorter, L

\* A key that is put in front has been used after the others on the list.
LEMMA FrontOrdered ==
  ASSUME NEW rec, NEW list, Ordered(list, rec), NEW k \in Keys, ~Listed(list, k)
  PROVE  /\ Ordered(<<k>> \o list, After(rec, k)) /\ Len(<<k>> \o list) = Len(list) + 1
         /\ \A x \in Keys : Listed(<<k>> \o list, x) <=> Listed(list, x) \/ x = k
<1> DEFINE L == Len(list)
           longer == <<k>> \o list
<1>1. /\ list \in Seq(Keys) /\ L \in Nat
      /\ \A i \in 1 .. L : list[i] \in Keys
      /\ \A i, j \in 1 .. L : i < j => <<list[i], list[j]>> \in rec
  BY SMT DEF Ordered
<1>2. /\ longer \in Seq(Keys) /\ Len(longer) = L + 1 /\ longer[1] = k
      /\ \A i \in 2 .. L + 1 : longer[i] = list[i - 1]
  BY <1>1, SMT
<1>3. \A i \in 1 .. L : list[i] # k
  BY DEF Listed
<1> HIDE DEF L, longer
<1>4. \A i \in 2 .. L + 1 : i - 1 \in 1 .. L /\ longer[i] \in Keys /\ longer[i] # k
  BY <1>1, <1>2, <1>3, SMT
<1>5. ASSUME NEW i \in 1 .. L + 1, NEW j \in 1 .. L + 1, i < j
      PROVE  <<longer[i], longer[j]>> \in After(rec, k)
  <2>1. j \in 2 .. L + 1
    BY <1>1, <1>5, SMT
  <2>2. CASE i = 1
    <3>1. <<longer[i], longer[j]>> \in {k} \X (Keys \ {k})
      BY <1>2, <1>4, <2>1, <2>2
    <3> QED
      BY <3>1 DEF After
  <2>3. CASE i # 1
    <3>1. i \in 2 .. L + 1 /\ i - 1 < j - 1
      BY <1>1, <1>5, <2>3, SMT
    <3>2. <<list[i - 1], list[j - 1]>> \in rec
      BY <1>1, <1>4, <2>1, <3>1
    <3>3. <<longer[i], longer[j]>> \in rec /\ longer[j] # k
      BY <1>2, <1>4, <2>1, <3>1, <3>2
    <3> QED
      BY <3>3 DEF After
  <2> QED
    BY <2>2, <2>3
<1>6. ASSUME NEW x \in Keys PROVE Listed(longer, x) <=> Listed(list, x) \/ x = k
  <2>1. ASSUME Listed(longer, x), x # k PROVE Listed(list, x)
    <3>1. PICK i \in 1 .. L + 1 : longer[i] = x
      BY <1>2, <2>1 DEF Listed
    <3>2. i \in 2 .. L + 1
      BY <1>1, <1>2, <2>1, <3>1, SMT
    <3> QED
      BY <1>2, <1>4, <3>1, <3>2 DEF Listed, L
  <2>2. ASSUME Listed(list, x) PROVE Listed(longer, x)
    <3>1. PICK i \in 1 .. L : list[i] = x
      BY <2>2 DEF Listed, L
    <3>2. i + 1 \in 2 .. L + 1 /\ i + 1 \in 1 .. L + 1 /\ (i + 1) - 1 = i
      BY <1>1, SMT
    <3> QED
      BY <1>2, <3>1, <3>2 DEF Listed
  <2>3. Listed(longer, k)
    <3>1. 1 \in 1 .. L + 1
      BY <1>1, SMT
    <3> QED
      BY <1>2, <3>1 DEF Listed
  <2> QED
    BY <2>1, <2>2, <2>3
<1>7. Ordered(longer, After(rec, k))
  BY <1>2, <1>5 DEF Ordered
<1> QED
  BY <1>2, <1>6, <1>7 DEF longer, L

\* The list of the cache a is in the order of rec, and has the keys of the map.
LRU(a, rec) ==
  /\ a.items \in Items /\ Ordered(a.evictList, rec) /\ Irreflexive(rec)
  /\ \A k \in Keys : a.items[k] # None <=> Listed(a.evictList, k)

\* removeElement keeps the cache in order and makes it shorter by one.
LEMMA RemoveLRU ==
  ASSUME NEW rec, NEW a, LRU(a, rec), NEW k \in Keys, a.items[k] # None
  PROVE  /\ LRU(removeElement(a, k), rec)
         /\ Len(removeElement(a, k).evictList) = Len(a.evictList) - 1
<1> DEFINE b == removeElement(a, k)
<1>1. /\ a.items \in Items /\ Ordered(a.evictList, rec) /\ Irreflexive(rec)
      /\ Listed(a.evictList, k)
      /\ \A x \in Keys : a.items[x] # None <=> Listed(a.evictList, x)
  BY DEF LRU
<1>2. b.evictList = Without(a.evictList, k) /\ b.items = [a.items EXCEPT ![k] = None]
  BY DEF removeElement
<1>3. /\ Ordered(b.evictList, rec) /\ Len(b.evictList) = Len(a.evictList) - 1
      /\ \A x \in Keys : Listed(b.evictList, x) <=> Listed(a.evictList, x) /\ x # k
  BY <1>1, <1>2, WithoutOrdered, SMT
<1>4. b.items \in Items /\ b.items[k] = None /\ \A x \in Keys \ {k} : b.items[x] = a.items[x]
  BY <1>1, <1>2 DEF Items
<1> HIDE DEF b
<1>5. \A x \in Keys : b.items[x] # None <=> Listed(b.evictList, x)
  BY <1>1, <1>3, <1>4
<1>6. LRU(b, rec)
  BY <1>1, <1>3, <1>4, <1>5 DEF LRU
<1> QED
  BY <1>3, <1>6 DEF b

\* A use of k keeps the relation irreflexive.
LEMMA AfterIrreflexive ==
  ASSUME NEW rec, Irreflexive(rec), NEW k \in Keys
  PROVE  Irreflexive(After(rec, k))
BY DEF After, Irreflexive

\* MoveToFront, of a key that is cached: what Get and Set do to the list.
LEMMA MoveLRU ==
  ASSUME NEW rec, NEW a, LRU(a, rec), NEW k \in Keys, a.items[k] # None,
         NEW b, b.evictList = MoveToFront(a.evictList, k), b.items \in Items,
         \A x \in Keys : b.items[x] # None <=> a.items[x] # None
  PROVE  LRU(b, After(rec, k)) /\ Len(b.evictList) = Len(a.evictList)
<1> DEFINE shorter == Without(a.evictList, k)
<1>1. /\ Ordered(a.evictList, rec) /\ Irreflexive(rec) /\ Listed(a.evictList, k)
      /\ \A x \in Keys : a.items[x] # None <=> Listed(a.evictList, x)
      /\ Len(a.evictList) \in Nat
  BY SMT DEF LRU, Ordered
<1>2. /\ Ordered(shorter, rec) /\ Len(shorter) = Len(a.evictList) - 1
      /\ \A x \in Keys : Listed(shorter, x) <=> Listed(a.evictList, x) /\ x # k
  BY <1>1, WithoutOrdered
<1>3. b.evictList = <<k>> \o shorter
  BY DEF MoveToFront
<1> HIDE DEF shorter
<1>4. /\ Ordered(b.evictList, After(rec, k)) /\ Len(b.evictList) = Len(shorter) + 1
      /\ \A x \in Keys : Listed(b.evictList, x) <=> Listed(shorter, x) \/ x = k
  BY <1>2, <1>3, FrontOrdered, SMT
<1>5. Irreflexive(After(rec, k))
  BY <1>1, AfterIrreflexive
<1>6. \A x \in Keys : b.items[x] # None <=> Listed(b.evictList, x)
  BY <1>1, <1>2, <1>4
<1>7. Len(b.evictList) = Len(a.evictList)
  BY <1>1, <1>2, <1>4, SMT
<1> QED
  BY <1>4, <1>5, <1>6, <1>7 DEF LRU

\* Set keeps the cache in order and within its capacity.
LEMMA SetLRU ==
  ASSUME NEW rec, NEW a, LRU(a, rec), Len(a.evictList) <= Capacity, NEW k \in Keys,
         NEW v \in Versions, NEW t \in Nat
  PROVE  LET b == L1Set(a, k, v, 0, t)
         IN  LRU(b, After(rec, k)) /\ Len(b.evictList) <= Capacity
<1> DEFINE entry == [version |-> v, expiresAt |-> ExpiresAt(0, t)]
           items == [a.items EXCEPT ![k] = entry]
           moved == [evictList |-> MoveToFront(a.evictList, k), items |-> items]
           pushed == [evictList |-> <<k>> \o a.evictList, items |-> items]
           b == L1Set(a, k, v, 0, t)
<1>1. b = IF a.items[k] # None THEN moved ELSE evictOldest(pushed)
  BY DEF L1Set
<1>2. /\ a.items \in Items /\ Ordered(a.evictList, rec) /\ Irreflexive(rec)
      /\ \A x \in Keys : a.items[x] # None <=> Listed(a.evictList, x)
      /\ Len(a.evictList) \in Nat
  BY SMT DEF LRU, Ordered
<1>3. entry \in Entry /\ entry # None
  BY L1Assumption, ClientAssumption, SMT DEF Entry, ExpiresAt
<1> HIDE DEF entry
<1>4. /\ items \in Items /\ items[k] = entry
      /\ \A x \in Keys \ {k} : items[x] = a.items[x]
  BY <1>2, <1>3 DEF Items
<1>5. /\ moved.evictList = MoveToFront(a.evictList, k) /\ moved.items = items
      /\ pushed.evictList = <<k>> \o a.evictList /\ pushed.items = items
  OBVIOUS
<1> HIDE DEF items, moved, pushed, b
<1>6. ASSUME a.items[k] # None
      PROVE  LRU(b, After(rec, k)) /\ Len(b.evictList) <= Capacity
  <2>1. b = moved
    BY <1>1, <1>6
  <2>2. \A x \in Keys : moved.items[x] # None <=> a.items[x] # None
    BY <1>3, <1>4, <1>5, <1>6
  <2>3. moved.items \in Items
    BY <1>4, <1>5
  <2>4. LRU(moved, After(rec, k)) /\ Len(moved.evictList) = Len(a.evictList)
    BY <1>5, <1>6, <2>2, <2>3, MoveLRU, SMT
  <2> QED
    BY <2>1, <2>4
<1>7. ASSUME a.items[k] = None
      PROVE  LRU(b, After(rec, k)) /\ Len(b.evictList) <= Capacity
  <2>1. ~Listed(a.evictList, k)
    BY <1>2, <1>7
  <2>2. /\ Ordered(pushed.evictList, After(rec, k))
        /\ Len(pushed.evictList) = Len(a.evictList) + 1
        /\ \A x \in Keys : Listed(pushed.evictList, x) <=> Listed(a.evictList, x) \/ x = k
    BY <1>2, <1>5, <2>1, FrontOrdered, SMT
  <2>3. \A x \in Keys : pushed.items[x] # None <=> Listed(pushed.evictList, x)
    BY <1>2, <1>3, <1>4, <1>5, <2>2
  <2>4. LRU(pushed, After(rec, k))
    BY <1>2, <1>4, <1>5, <2>2, <2>3, AfterIrreflexive DEF LRU
  <2>5. CASE Len(pushed.evictList) > Capacity
    <3> DEFINE last == pushed.evictList[Len(pushed.evictList)]
    <3>1. b = removeElement(pushed, last)
      BY <1>1, <1>7, <2>5 DEF evictOldest
    <3>2. Len(pushed.evictList) \in 1 .. Len(pushed.evictList) /\ pushed.evictList \in Seq(Keys)
      BY <1>2, <2>2, SMT DEF Ordered
    <3>3. last \in Keys /\ Listed(pushed.evictList, last)
      BY <3>2, SMT DEF Listed
    <3> HIDE DEF last
    <3>4. pushed.items[last] # None
      BY <2>3, <3>3
    <3>5. LRU(b, After(rec, k)) /\ Len(b.evictList) = Len(pushed.evictList) - 1
      BY <2>4, <3>1, <3>3, <3>4, RemoveLRU
    <3> QED
      BY <1>2, <2>2, <3>5, L1Assumption, SMT
  <2>6. CASE ~(Len(pushed.evictList) > Capacity)
    <3>1. b = pushed
      BY <1>1, <1>7, <2>6 DEF evictOldest
    <3> QED
      BY <1>2, <2>2, <2>4, <2>6, <3>1, L1Assumption, SMT
  <2> QED
    BY <2>5, <2>6
<1> QED
  BY <1>6, <1>7 DEF b

\* A Get that hits keeps the order with the key used last, one that finds the
\* entry expired drops it.
LEMMA GetLRU ==
  ASSUME NEW rec, NEW a, LRU(a, rec), Len(a.evictList) <= Capacity, NEW k \in Keys, NEW t
  PROVE  LET b == L1Get(a, k, t)
         IN  /\ LRU(b, IF L1Hit(a, k, t) THEN After(rec, k) ELSE rec)
             /\ Len(b.evictList) <= Capacity
<1> DEFINE b == L1Get(a, k, t)
<1>1. a.items \in Items /\ Len(a.evictList) \in Nat
  BY SMT DEF LRU, Ordered
<1>2. CASE a.items[k] = None
  <2>1. b = a /\ ~L1Hit(a, k, t)
    BY <1>2 DEF L1Get, L1Hit
  <2> QED
    BY <2>1
<1>3. CASE a.items[k] # None /\ L1Hit(a, k, t)
  <2>1. b = [evictList |-> MoveToFront(a.evictList, k), items |-> a.items]
    BY <1>3 DEF L1Get
  <2>2. b.evictList = MoveToFront(a.evictList, k) /\ b.items = a.items
    BY <2>1, SMT
  <2> HIDE DEF b
  <2>3. LRU(b, After(rec, k)) /\ Len(b.evictList) = Len(a.evictList)
    BY <1>1, <1>3, <2>2, MoveLRU, SMT
  <2> QED
    BY <1>3, <2>3 DEF b
<1>4. CASE a.items[k] # None /\ ~L1Hit(a, k, t)
  <2>1. b = removeElement(a, k)
    BY <1>4 DEF L1Get
  <2> HIDE DEF b
  <2>2. LRU(b, rec) /\ Len(b.evictList) = Len(a.evictList) - 1
    BY <1>4, <2>1, RemoveLRU
  <2>3. Len(b.evictList) <= Capacity
    BY <1>1, <2>2, L1Assumption, SMT
  <2> QED
    BY <1>4, <2>2, <2>3 DEF b
<1> QED
  BY <1>2, <1>3, <1>4

\* Delete drops the entry, if there is one.
LEMMA DeleteLRU ==
  ASSUME NEW rec, NEW a, LRU(a, rec), Len(a.evictList) <= Capacity, NEW k \in Keys
  PROVE  LRU(L1Delete(a, k), rec) /\ Len(L1Delete(a, k).evictList) <= Capacity
<1>1. Len(a.evictList) \in Nat
  BY SMT DEF LRU, Ordered
<1>2. CASE a.items[k] # None
  <2>1. L1Delete(a, k) = removeElement(a, k)
    BY <1>2 DEF L1Delete
  <2> QED
    BY <1>1, <1>2, <2>1, RemoveLRU, L1Assumption, SMT
<1>3. CASE a.items[k] = None
  BY <1>3 DEF L1Delete
<1> QED
  BY <1>2, <1>3

\* The inductive invariant of the list.
LRUInv == LRU(l1, recency) /\ Len(l1.evictList) <= Capacity

\* The empty cache is in order.
LEMMA EmptyLRU ==
  ASSUME NEW rec, Irreflexive(rec)
  PROVE  LRU(EmptyL1, rec) /\ Len(EmptyL1.evictList) <= Capacity
<1>1. /\ EmptyL1.evictList \in Seq(Keys) /\ Len(EmptyL1.evictList) = 0
      /\ EmptyL1.items \in Items /\ \A k \in Keys : EmptyL1.items[k] = None
  BY SMT DEF EmptyL1, Items
<1> QED
  BY <1>1, L1Assumption, SMT DEF LRU, Ordered, Listed

\* Every step of the client keeps the list in order; those of the server, of the
\* clock and of other clients do not touch it.
LEMMA LRUStep == TypeOK /\ FillInv /\ LRUInv /\ [Next]_vars => LRUInv'
<1> SUFFICES ASSUME TypeOK, FillInv, LRUInv, [Next]_vars PROVE LRUInv'
  OBVIOUS
<1>1. LRU(l1, recency) /\ Len(l1.evictList) <= Capacity
  BY DEF LRUInv
<1>2. UNCHANGED <<l1, recency>> => LRUInv'
  BY <1>1 DEF LRUInv
<1>3. ASSUME NEW p \in Procs, NEW k \in Keys, Get(p, k) PROVE LRUInv'
  <2>1. l1' = L1Get(l1, k, now)
        /\ recency' = IF L1Hit(l1, k, now) THEN After(recency, k) ELSE recency
    BY <1>3 DEF Get, Used, After
  <2> QED
    BY <1>1, <2>1, GetLRU DEF LRUInv
<1>4. ASSUME NEW p \in Procs, NEW op, NEW k \in Keys, NEW ttl, Write(p, op, k, ttl)
      PROVE  LRUInv'
  BY <1>1, <1>4, DeleteLRU DEF Write, Invalidate, LRUInv
<1>5. ASSUME NEW p \in Procs, Fill(p) PROVE LRUInv'
  <2>1. call[p].key \in Keys /\ call[p].version \in Versions /\ now \in Nat
    <3>1. call[p] \in Underway /\ call[p].version # 0
      BY <1>5, ActiveCall DEF Fill, FillInv
    <3> QED
      BY <3>1, SMT DEF Underway, Versions, TypeOK
  <2>2. /\ l1' = L1Set(l1, call[p].key, call[p].version, 0, now)
        /\ recency' = After(recency, call[p].key)
    BY <1>5 DEF Fill, Used, After
  <2> QED
    BY <1>1, <2>1, <2>2, SetLRU DEF LRUInv
<1>6. CASE Close
  <2>1. l1' = EmptyL1 /\ recency' = recency /\ Irreflexive(recency)
    BY <1>1, <1>6 DEF Close, ghosts, LRU
  <2> QED
    BY <2>1, EmptyLRU DEF LRUInv
<1>7. ASSUME NEW p \in Procs, Serve(p) \/ Return(p) \/ ReturnHot(p) \/ Fail(p) PROVE LRUInv'
  BY <1>2, <1>7 DEF Serve, Return, ReturnHot, Fail, ghosts
<1>8. ASSUME NEW op, NEW k \in Keys, NEW ttl, WriteElsewhere(op, k, ttl) PROVE LRUInv'
  BY <1>2, <1>8 DEF WriteElsewhere
<1>9. CASE Tick \/ UNCHANGED vars
  BY <1>2, <1>9 DEF Tick, vars, ghosts
<1> QED
  BY <1>3, <1>4, <1>5, <1>6, <1>7, <1>8, <1>9 DEF Next, Set, Delete

(***************************************************************************)
(* The properties, for every instance                                      *)
(***************************************************************************)
ClientInv == TypeOK /\ StaleParts /\ OwnInv /\ LRUInv

\* The invariant holds of a new client.
LEMMA ClientInit == Init => ClientInv
<1> SUFFICES ASSUME Init PROVE ClientInv
  OBVIOUS
<1>1. TypeOK
  BY TypeInit
<1>2. (\A p \in Procs : call[p].at = "idle") /\ (\A k \in Keys : l1.items[k] = None)
  BY DEF Init, Idle, EmptyL1
<1>3. CallInv /\ FillInv /\ StaleInv
  BY <1>2 DEF CallInv, FillInv, StaleInv, Fresh
<1>4. ServerInv
  <2> SUFFICES ASSUME NEW k \in Keys PROVE server[k] \in {0, versions[k]} /\ written[k] <= versions[k]
    BY DEF ServerInv
  <2>1. server[k] = 1 /\ versions[k] = 1 /\ written[k] = 0
    BY DEF Init
  <2>2. server[k] = versions[k]
    BY <2>1
  <2>3. written[k] <= versions[k]
    BY <2>1, SMT
  <2> QED
    BY <2>2, <2>3
<1>5. OwnInv
  BY <1>2 DEF OwnInv, Own, InCall
<1>6. LRUInv
  <2>1. l1 = EmptyL1 /\ Irreflexive(recency)
    BY DEF Init, Irreflexive
  <2> QED
    BY <2>1, EmptyLRU DEF LRUInv
<1> QED
  BY <1>1, <1>3, <1>4, <1>5, <1>6 DEF ClientInv, StaleParts

\* The invariant always holds.
LEMMA ClientInvariant == Spec => []ClientInv
<1>1. ClientInv /\ [Next]_vars => ClientInv'
  BY TypeStep, StaleStep, OwnStep, LRUStep DEF ClientInv, StaleParts
<1> QED
  BY ClientInit, <1>1, PTL DEF Spec

\* Every variable of the client and of its server keeps its type.
THEOREM ClientTyped == Spec => []TypeOK
<1>1. ClientInv => TypeOK
  BY DEF ClientInv
<1> QED
  BY ClientInvariant, <1>1, PTL

\* L1 outlives what the server holds by one request, one pause and one L1
\* lifetime at most.
THEOREM StalenessIsBounded == Spec => []BoundedStaleness
<1>1. ClientInv => BoundedStaleness
  BY DEF ClientInv, StaleParts, StaleInv, Fresh, BoundedStaleness
<1> QED
  BY ClientInvariant, <1>1, PTL

\* Set and Delete drop the key from L1 before the request leaves, and that is
\* enough for the client to read its own writes when no Get of the key meets them.
THEOREM ClientReadsItsWrites == Spec => []ReadsOwnWrites
<1>1. ClientInv => ReadsOwnWrites
  BY DEF ClientInv, OwnInv, Own, ReadsOwnWrites
<1> QED
  BY ClientInvariant, <1>1, PTL

\* The list and the map of L1 have the same keys, at most Capacity of them, and
\* the list has them in the order of their last use: evictOldest evicts what was
\* used least recently.
THEOREM L1EvictsLeastRecent == Spec => []L1IsLRU
<1>1. ClientInv => L1IsLRU
  <2> SUFFICES ASSUME LRUInv PROVE L1IsLRU
    BY DEF ClientInv
  <2>1. DOMAIN l1.evictList = 1 .. Len(l1.evictList)
    BY SMT DEF LRUInv, LRU, Ordered
  <2> QED
    BY <2>1 DEF LRUInv, LRU, Ordered, Listed, L1IsLRU
<1> QED
  BY ClientInvariant, <1>1, PTL
=============================================================================
