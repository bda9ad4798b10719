------------------------------- MODULE Client -------------------------------
(***************************************************************************)
(* The client library (client/client.go) with its L1 cache, used by        *)
(* several goroutines of one program, against the cache service.           *)
(*                                                                         *)
(* A call is at least three steps: what the client does before the request *)
(* leaves (Get looks in L1, Set and Delete drop the key from it), what the *)
(* server does, and what the client does with the answer.  The service is  *)
(* one copy of each key, with the TTL semantics of module TTLCache: where  *)
(* in the cluster the key lives is module Replication, and which answers   *)
(* say that a key is hot is module HotKeys; here any may.                  *)
(*                                                                         *)
(* Each write that the server carries out has a version of its own, so     *)
(* that what L1 holds can be compared with what the server holds.          *)
(***************************************************************************)
EXTENDS L1Cache

CONSTANTS
    Procs,           \* goroutines that use the client
    TTLs,            \* TTLs given to Set, 0 for none
    RequestTimeout,  \* requestTimeout: 3 s unless set
    MaxPause,        \* longest time from the return of Invoke to l1Cache.Set
    MaxTime,         \* bound: the clock
    MaxCalls,        \* bound: calls of Get, Set and Delete, and writes of other clients
    MaxVersions      \* bound: writes of each key that the server carries out

Versions == 1 .. MaxVersions
Entry == [version : Versions, expiresAt : Nat]

ASSUME ClientAssumption ==
    /\ RequestTimeout \in Nat /\ MaxPause \in Nat
    /\ MaxTime \in Nat /\ MaxCalls \in Nat /\ MaxVersions \in Nat \ {0}
    /\ TTLs \subseteq Nat
    /\ None \notin Nat /\ None \notin Entry

VARIABLES
    l1,        \* the L1 cache
    open,      \* FALSE once Close has dropped the connections
    call,      \* goroutine -> the call it is in
    server,    \* key -> version of the value the server holds, 0 for none
    versions,  \* key -> writes the server has carried out
    now,       \* the clock
    calls,     \* what was used of MaxCalls
    ended,     \* ghost: key -> version -> when it ceased (or will cease) to be the value, or None
    written,   \* ghost: key -> latest version whose writer has had the answer
    overlapped,\* ghost: keys for which a Get and a write of this client were under way together
    recency    \* ghost: pairs of keys, L1 stored or found the one after the other

ghosts == <<ended, written, overlapped, recency>>
vars == <<l1, open, call, server, versions, now, calls, ghosts>>

Idle == [at |-> "idle"]
Writes == {"Set", "Delete"}
Underway ==
    [at : {"request", "response", "fill"}, op : {"Get"} \cup Writes, key : Keys,
     ttl : TTLs \cup {0}, since : 0 .. MaxTime, version : 0 .. MaxVersions, hot : BOOLEAN]

\* (L1IsLRU says what the list is.)
TypeOK ==
    /\ l1.items \in [Keys -> Entry \cup {None}]
    /\ open \in BOOLEAN
    /\ call \in [Procs -> Underway \cup {Idle}]
    /\ server \in [Keys -> 0 .. MaxVersions]
    /\ versions \in [Keys -> Versions]
    /\ now \in 0 .. MaxTime
    /\ calls \in 0 .. MaxCalls
    /\ ended \in [Keys -> [Versions -> Nat \cup {None}]]
    /\ written \in [Keys -> 0 .. MaxVersions]
    /\ overlapped \subseteq Keys

\* NewClient has connected to every node; the server has a value of each key.
Init ==
    /\ l1 = EmptyL1
    /\ open = TRUE
    /\ call = [p \in Procs |-> Idle]
    /\ server = [k \in Keys |-> 1] /\ versions = [k \in Keys |-> 1]
    /\ now = 0 /\ calls = 0
    /\ ended = [k \in Keys |-> [v \in Versions |-> None]]
    /\ written = [k \in Keys |-> 0]
    /\ overlapped = {}
    /\ recency = {}

(***************************************************************************)
(* The client                                                              *)
(***************************************************************************)

InCall(p, ops, k) == call[p].at # "idle" /\ call[p].op \in ops /\ call[p].key = k

\* getConn finds a connection unless the client is closed; the request leaves.
Send(p, op, k, ttl) ==
    call' = IF open
            THEN [call EXCEPT ![p] = [at |-> "request", op |-> op, key |-> k, ttl |-> ttl,
                                      since |-> now, version |-> 0, hot |-> FALSE]]
            ELSE call

Meets(ops, k) ==
    overlapped' = IF \E q \in Procs : InCall(q, ops, k) THEN overlapped \cup {k} ELSE overlapped

Begin(p) ==
    /\ call[p].at = "idle" /\ calls < MaxCalls
    /\ calls' = calls + 1
    /\ UNCHANGED <<open, server, versions, now, ended, written>>

\* The key was used after all others.
Used(k) == recency' = {r \in recency : r[2] # k} \cup ({k} \X (Keys \ {k}))

\* Get, up to the request: a hit in L1 is the answer.
Get(p, k) ==
    /\ Begin(p)
    /\ l1' = L1Get(l1, k, now)
    /\ \/ /\ L1Hit(l1, k, now)
          /\ Used(k)
          /\ UNCHANGED <<call, overlapped>>
       \/ /\ ~L1Hit(l1, k, now)
          /\ Send(p, "Get", k, 0)
          /\ Meets(Writes, k)
          /\ UNCHANGED recency

\* Mutant: L1 keeps the key.
Invalidate_Not(k) == UNCHANGED l1

\* Set and Delete drop the key from L1, and then send the request.
Invalidate(k) == l1' = L1Delete(l1, k)

Write(p, op, k, ttl) ==
    /\ Begin(p)
    /\ Invalidate(k)
    /\ Send(p, op, k, ttl)
    /\ Meets({"Get"}, k)
    /\ UNCHANGED recency

Set(p, k, ttl) == Write(p, "Set", k, ttl)
Delete(p, k) == Write(p, "Delete", k, 0)

\* Invoke returns the answer of a write, or that of a Get with nothing to keep.
Return(p) ==
    /\ call[p].at = "response"
    /\ call[p].op = "Get" => ~(call[p].version # 0 /\ call[p].hot)
    /\ written' = IF call[p].op \in Writes /\ call[p].version > written[call[p].key]
                  THEN [written EXCEPT ![call[p].key] = call[p].version]
                  ELSE written
    /\ call' = [call EXCEPT ![p] = Idle]
    /\ UNCHANGED <<l1, open, server, versions, now, calls, ended, overlapped, recency>>

\* Invoke returns the value of a hot key.
ReturnHot(p) ==
    /\ call[p].at = "response" /\ call[p].op = "Get"
    /\ call[p].version # 0 /\ call[p].hot
    /\ call' = [call EXCEPT ![p] = [@ EXCEPT !.at = "fill", !.since = now]]
    /\ UNCHANGED <<l1, open, server, versions, now, calls, ghosts>>

\* The value goes into L1.  The server leaves TtlMs of its answer 0.
Fill(p) ==
    /\ call[p].at = "fill"
    /\ l1' = L1Set(l1, call[p].key, call[p].version, 0, now)
    /\ Used(call[p].key)
    /\ call' = [call EXCEPT ![p] = Idle]
    /\ UNCHANGED <<open, server, versions, now, calls, ended, written, overlapped>>

\* Invoke returns an error: the deadline, a cancelled context, a lost or closed
\* connection.  A write that reaches the server all the same is a write of
\* another client to this one: nobody here hears of it.
Fail(p) ==
    /\ call[p].at \in {"request", "response"}
    /\ call' = [call EXCEPT ![p] = Idle]
    /\ UNCHANGED <<l1, open, server, versions, now, calls, ghosts>>

\* Close drops the connections and clears L1; calls under way are not waited for.
Close ==
    /\ open
    /\ open' = FALSE
    /\ l1' = EmptyL1
    /\ UNCHANGED <<call, server, versions, now, calls, ghosts>>

(***************************************************************************)
(* The server                                                              *)
(***************************************************************************)

\* The entry is there and its TTL is not over.
Holds(k) == server[k] # 0 /\ (ended[k][server[k]] = None \/ now <= ended[k][server[k]])

\* A write ends the version before it, and has an end of its own if it has a TTL.
Apply(op, k, ttl) ==
    LET v == versions[k] + 1 IN
    /\ v <= MaxVersions
    /\ versions' = [versions EXCEPT ![k] = v]
    /\ server' = [server EXCEPT ![k] = IF op = "Set" THEN v ELSE 0]
    /\ ended' = [ended EXCEPT ![k] = [w \in Versions |->
                    IF w = v THEN IF op = "Set" /\ ttl = 0 THEN None ELSE now + ttl
                    ELSE IF w = server[k] /\ Holds(k) THEN now
                    ELSE @[w]]]

Serve(p) ==
    LET c == call[p] IN
    /\ c.at = "request"
    /\ \/ /\ c.op = "Get"
          /\ \E hot \in BOOLEAN :
                call' = [call EXCEPT ![p] = [@ EXCEPT !.at = "response", !.hot = hot,
                           !.version = IF Holds(c.key) THEN server[c.key] ELSE 0]]
          /\ UNCHANGED <<server, versions, ended>>
       \/ /\ c.op \in Writes
          /\ Apply(c.op, c.key, c.ttl)
          /\ call' = [call EXCEPT ![p] = [@ EXCEPT !.at = "response",
                                                  !.version = versions[c.key] + 1]]
    /\ UNCHANGED <<l1, open, now, calls, written, overlapped, recency>>

\* Another client writes.
WriteElsewhere(op, k, ttl) ==
    /\ calls < MaxCalls
    /\ calls' = calls + 1
    /\ Apply(op, k, ttl)
    /\ UNCHANGED <<l1, open, call, now, written, overlapped, recency>>

\* Invoke returns by its deadline, and a goroutine is not held up for more than
\* MaxPause between two statements.
Tick ==
    /\ now < MaxTime
    /\ \A p \in Procs :
          /\ call[p].at \in {"request", "response"} => now < call[p].since + RequestTimeout
          /\ call[p].at = "fill" => now < call[p].since + MaxPause
    /\ now' = now + 1
    /\ UNCHANGED <<l1, open, call, server, versions, calls, ghosts>>

Next ==
    \/ \E p \in Procs :
          \/ \E k \in Keys : Get(p, k) \/ Delete(p, k) \/ \E ttl \in TTLs : Set(p, k, ttl)
          \/ Serve(p) \/ Return(p) \/ ReturnHot(p) \/ Fill(p) \/ Fail(p)
    \/ \E k \in Keys :
          WriteElsewhere("Delete", k, 0) \/ \E ttl \in TTLs : WriteElsewhere("Set", k, ttl)
    \/ Close \/ Tick

Spec == Init /\ [][Next]_vars

(***************************************************************************)
(* Properties                                                              *)
(***************************************************************************)

\* L1 is an LRU cache: the list and the map have the same keys, never more than
\* the capacity, and the list has them in the order of their last use, so that
\* what is evicted is what was used least recently.
L1IsLRU ==
    LET list == l1.evictList IN
    /\ \A i, j \in DOMAIN list : i < j => <<list[i], list[j]>> \in recency
    /\ \A k \in Keys : l1.items[k] # None <=> \E i \in DOMAIN list : list[i] = k
    /\ Len(list) <= Capacity

\* Staleness is bounded: L1 serves a value no longer than one request, one pause
\* and one L1 lifetime after it ceased to be the server's, whoever replaced it
\* and whatever was under way when it was replaced.
BoundedStaleness ==
    \A k \in Keys :
        l1.items[k] # None /\ ended[k][l1.items[k].version] # None =>
            l1.items[k].expiresAt <=
                ended[k][l1.items[k].version] + RequestTimeout + MaxPause + DefaultTTL

\* A client reads its own writes: L1 never holds a value older than one of the
\* client's own acknowledged writes of the key, as long as no Get of the key was
\* under way together with a write of it (such a Get can fill L1 with what it
\* read before the write, after the write has dropped the key from L1).
ReadsOwnWrites ==
    \A k \in Keys \ overlapped :
        l1.items[k] # None => l1.items[k].version >= written[k]
=============================================================================
