------------------------------ MODULE TTLCache ------------------------------
(***************************************************************************)
(* What the node-local cache promises its callers: a map whose operations  *)
(* take effect one at a time, in which an entry is visible until its       *)
(* deadline has passed and invisible ever after.  Nothing is said of how   *)
(* or when the memory of a lapsed entry is reclaimed: here it disappears   *)
(* with the tick of the clock that passes its deadline.  Apart from that,  *)
(* the map changes only by what a caller asks for.                         *)
(***************************************************************************)
EXTENDS Naturals

CONSTANTS Keys, Values, Procs, TTLs, NoEntry

VARIABLES
  live,    \* the visible entries: a record per key, or NoEntry
  now,     \* the clock
  calls,   \* the number of calls made so far
  writes,  \* per caller: the write it has asked for and that is yet to happen
  reply    \* per caller: the answer of its last Get

vars == <<live, now, calls, writes, reply>>

\* A deadline of 0 stands for "no expiry"; the deadline itself is still visible.
Lapsed(e, t) == e.expiresAt # 0 /\ t > e.expiresAt

Visible(c, t) ==
  [k \in Keys |-> IF c[k] # NoEntry /\ Lapsed(c[k], t) THEN NoEntry ELSE c[k]]

Stamped(v, ttl) == [value |-> v, expiresAt |-> IF ttl = 0 THEN 0 ELSE now + ttl]

Init ==
  /\ live = [k \in Keys |-> NoEntry]
  /\ now = 1
  /\ calls = 0
  /\ writes = [p \in Procs |-> NoEntry]
  /\ reply = [p \in Procs |-> NoEntry]

\* A Get answers with the value of the visible entry, or with a miss.
Get(p, k) ==
  /\ reply' = [reply EXCEPT ![p] =
                 IF live[k] = NoEntry THEN NoEntry ELSE live[k].value]
  /\ calls' = calls + 1
  /\ UNCHANGED <<live, now, writes>>

\* A Set counts its TTL from the moment it is called ...
Ask(p, k, v, ttl) ==
  /\ writes[p] = NoEntry
  /\ writes' = [writes EXCEPT ![p] = [key |-> k, entry |-> Stamped(v, ttl)]]
  /\ calls' = calls + 1
  /\ UNCHANGED <<live, now, reply>>

\* ... and takes effect once, later; an entry that comes too late is never visible.
Put(p) ==
  /\ writes[p] # NoEntry
  /\ live' = Visible([live EXCEPT ![writes[p].key] = writes[p].entry], now)
  /\ writes' = [writes EXCEPT ![p] = NoEntry]
  /\ UNCHANGED <<now, calls, reply>>

Remove(k) ==
  /\ live' = [live EXCEPT ![k] = NoEntry]
  /\ calls' = calls + 1
  /\ UNCHANGED <<now, writes, reply>>

\* Only a visible entry can be given a new deadline, and it is counted from now.
Retime(k, ttl) ==
  /\ live[k] # NoEntry
  /\ live' = [live EXCEPT ![k] = Stamped(@.value, ttl)]
  /\ calls' = calls + 1
  /\ UNCHANGED <<now, writes, reply>>

\* A call that changes nothing: a scan, or the new deadline of a key that is gone.
Observe ==
  /\ calls' = calls + 1
  /\ UNCHANGED <<live, now, writes, reply>>

Tick ==
  /\ now' = now + 1
  /\ live' = Visible(live, now')
  /\ UNCHANGED <<calls, writes, reply>>

Next ==
  \/ \E p \in Procs, k \in Keys :
       \/ Get(p, k)
       \/ \E v \in Values, ttl \in TTLs : Ask(p, k, v, ttl)
  \/ \E p \in Procs : Put(p)
  \/ \E k \in Keys : Remove(k) \/ \E ttl \in TTLs : Retime(k, ttl)
  \/ Observe
  \/ Tick

Spec == Init /\ [][Next]_vars
=============================================================================
