-------------------------- MODULE FailureDetector --------------------------
(***************************************************************************)
(* One node's failure detector (internal/cluster/membership.go) and the    *)
(* callbacks it drives (cmd/cachenode/main.go), seen from inside: the      *)
(* goroutines of one process and one remote peer.  Module Membership takes *)
(* each handler as one step and has many nodes; here every critical        *)
(* section is a step of its own, so that the races between the receive     *)
(* loop, the ping loop, the suspicion timers and the event goroutines are  *)
(* in the model.                                                           *)
(*                                                                         *)
(* Everything the peer, the helpers and the network may do is an input:    *)
(* any update about the peer can arrive at any time, and so can an ack or  *)
(* a request to probe the peer for somebody else.                          *)
(***************************************************************************)
EXTENDS Integers

CONSTANTS
    Timers,          \* identities of time.AfterFunc timers (bound: how many exist at once)
    None,            \* no timer, no channel
    MaxIncarnation,  \* bound: incarnations the peer announces
    MaxUpdates,      \* bound: updates about the peer that this node applies
    MaxProbes,       \* bound: rounds of the ping loop aimed at the peer
    MaxHelps         \* bound: ping-req datagrams about the peer

\* The channels that probes of the peer register: sendPingAndWait, sendPingReqs
\* and handlePingReq.
Channels == {"direct", "indirect", "helping"}

ASSUME DetectorAssumption ==
    /\ None \notin Timers \cup Channels
    /\ MaxIncarnation \in Nat

VARIABLES
    status,          \* registry: the peer's status, "unknown" before it is registered
    incarnation,     \* registry: the peer's incarnation
    suspicionTimer,  \* suspicionTimers[peer], or None
    timer,           \* timer -> "idle", "running", or "fired": its goroutine waits for m.mu
    receiving,       \* where the receive loop is
    pinging,         \* where the ping loop is
    pendingAck,      \* pendingAcks[peer]: the channel registered last, or None
    acked,           \* the closed channels some goroutine still waits on
    handlers,        \* event stage -> how many event goroutines are there
    onRing,          \* whether the peer is on this node's hash ring
    connected,       \* whether peerConns has the peer
    stopping,        \* Stop: "no", "stopping" (stopCh is closed), "stopped"
    updates, probes, helps, \* what was used of the bounds
    revivalRaced,    \* ghost: a revival has cancelled the timer of a newer suspicion
    calm             \* ghost: events were handled one by one, no timer met a revival

detector == <<status, incarnation, suspicionTimer, timer>>
loops == <<receiving, pinging, pendingAck, acked>>
wiring == <<handlers, onRing, connected>>
bounds == <<updates, probes, helps>>
vars == <<detector, loops, wiring, stopping, bounds, revivalRaced, calm>>

Status == {"unknown", "alive", "suspect", "dead", "left"}
\* add: EventJoin or EventAlive not looked at yet; callback: onNodeAdded to be
\* called; connect: ConnectToPeer of the event handler itself to be called;
\* remove: EventDead or EventLeft not looked at yet; failed: onNodeRemoved.
Stages == {"add", "callback", "connect", "remove", "failed"}

TypeOK ==
    /\ status \in Status
    /\ incarnation \in 0 .. MaxIncarnation
    /\ suspicionTimer \in Timers \cup {None}
    /\ timer \in [Timers -> {"idle", "running", "fired"}]
    /\ receiving \in {"idle", "revived", "suspecting", "burying", "helping"}
    /\ pinging \in {"idle", "direct", "asking", "indirect", "failed", "marking"}
    /\ pendingAck \in Channels \cup {None}
    /\ acked \subseteq Channels
    /\ handlers \in [Stages -> Nat]
    /\ onRing \in BOOLEAN
    /\ connected \in BOOLEAN
    /\ stopping \in {"no", "stopping", "stopped"}
    /\ updates \in Nat /\ probes \in Nat /\ helps \in Nat
    /\ revivalRaced \in BOOLEAN
    /\ calm \in BOOLEAN

\* The detector has not heard of the peer yet.
Init ==
    /\ status = "unknown" /\ incarnation = 0
    /\ suspicionTimer = None
    /\ timer = [t \in Timers |-> "idle"]
    /\ receiving = "idle" /\ pinging = "idle"
    /\ pendingAck = None /\ acked = {}
    /\ handlers = [s \in Stages |-> 0]
    /\ onRing = FALSE /\ connected = FALSE
    /\ stopping = "no"
    /\ updates = 0 /\ probes = 0 /\ helps = 0
    /\ revivalRaced = FALSE /\ calm = TRUE

(***************************************************************************)
(* Parts of several handlers                                               *)
(***************************************************************************)

\* m.mu is free: markSuspect is the one holder whose reading and writing of the
\* status are two steps here, because a LEFT is written without the mutex.
Unlocked == pinging # "marking"

NoHandler == \A s \in Stages : handlers[s] = 0

\* emitEvent: each event is handed to a goroutine of its own.
emitEvent(stage) ==
    /\ handlers' = [handlers EXCEPT ![stage] = @ + 1]
    /\ UNCHANGED <<onRing, connected>>

\* timer.Stop() of the timer on record: a timer that has fired is not stopped.
Stop(t) ==
    IF t # None /\ timer[t] = "running" THEN [timer EXCEPT ![t] = "idle"] ELSE timer

\* Stop the timer on record and take it off the record.
CancelTimer ==
    /\ timer' = Stop(suspicionTimer)
    /\ suspicionTimer' = None

\* Mutant: the timer on record is replaced without being stopped.
StartTimer_Leak ==
    \E t \in Timers :
        /\ timer[t] = "idle" /\ t # suspicionTimer
        /\ timer' = [timer EXCEPT ![t] = "running"]
        /\ suspicionTimer' = t

\* Stop the timer on record and start another in its place.
StartTimer ==
    \E t \in Timers :
        /\ timer[t] = "idle" /\ t # suspicionTimer
        /\ timer' = [Stop(suspicionTimer) EXCEPT ![t] = "running"]
        /\ suspicionTimer' = t

(***************************************************************************)
(* The receive loop: applyUpdate                                           *)
(***************************************************************************)

\* The receive loop takes the next datagram, one that carries an update.
NextUpdate(i) ==
    /\ receiving = "idle" /\ stopping = "no" /\ updates < MaxUpdates
    /\ i >= incarnation
    /\ updates' = updates + 1
    /\ UNCHANGED <<pinging, pendingAck, acked, stopping, probes, helps, revivalRaced>>

Discover(i) ==
    /\ status = "unknown"
    /\ NextUpdate(i)
    /\ status' = "alive" /\ incarnation' = i
    /\ emitEvent("add")
    /\ calm' = (calm /\ NoHandler)
    /\ UNCHANGED <<suspicionTimer, timer, receiving>>

\* ALIVE, up to the mutex: the new status can be seen, the timer still runs.
Revive(i) ==
    /\ status \notin {"unknown", "alive"}
    /\ NextUpdate(i)
    /\ status' = "alive" /\ incarnation' = i
    /\ receiving' = "revived"
    /\ UNCHANGED <<suspicionTimer, timer, wiring, calm>>

\* ALIVE, from the mutex on: whatever timer is on record now is cancelled.
CancelAfterRevival ==
    /\ receiving = "revived" /\ Unlocked
    /\ CancelTimer
    /\ revivalRaced' = (revivalRaced \/ status = "suspect")
    /\ emitEvent("add")
    /\ calm' = (calm /\ NoHandler)
    /\ receiving' = "idle"
    /\ UNCHANGED <<status, incarnation, pinging, pendingAck, acked, stopping, bounds>>

\* SUSPECT and DEAD look at the status before they take the mutex ...
Accuse(i) ==
    /\ \/ status = "alive" /\ receiving' = "suspecting"
       \/ status \notin {"unknown", "dead"} /\ receiving' = "burying"
    /\ NextUpdate(i)
    /\ UNCHANGED <<detector, wiring, calm>>

\* Mutant: a suspicion learned from gossip starts no timer of its own.
markSuspectLocked_NoTimer ==
    /\ receiving = "suspecting" /\ Unlocked
    /\ status' = "suspect"
    /\ receiving' = "idle"
    /\ UNCHANGED <<incarnation, suspicionTimer, timer, pinging, pendingAck, acked, wiring,
                   stopping, bounds, revivalRaced, calm>>

\* ... and do not look again once they hold it.
markSuspectLocked ==
    /\ receiving = "suspecting" /\ Unlocked
    /\ status' = "suspect"
    /\ StartTimer
    /\ receiving' = "idle"
    /\ UNCHANGED <<incarnation, pinging, pendingAck, acked, wiring, stopping, bounds,
                   revivalRaced, calm>>

Bury ==
    /\ receiving = "burying" /\ Unlocked
    /\ status' = "dead"
    /\ CancelTimer
    /\ emitEvent("remove")
    /\ calm' = (calm /\ NoHandler)
    /\ receiving' = "idle"
    /\ UNCHANGED <<incarnation, pinging, pendingAck, acked, stopping, bounds, revivalRaced>>

\* LEFT takes no mutex and leaves the timer running.
Depart(i) ==
    /\ status # "unknown"
    /\ NextUpdate(i)
    /\ status' = "left"
    /\ emitEvent("remove")
    /\ calm' = (calm /\ NoHandler)
    /\ UNCHANGED <<incarnation, suspicionTimer, timer, receiving>>

(***************************************************************************)
(* The receive loop: acks and requests to probe                            *)
(***************************************************************************)

\* An ack of the peer, or one a helper sends in its name.
handleAck ==
    /\ receiving = "idle" /\ stopping = "no" /\ Unlocked /\ pendingAck # None
    /\ acked' = acked \cup {pendingAck}
    /\ pendingAck' = None
    /\ UNCHANGED <<detector, receiving, pinging, wiring, stopping, bounds, revivalRaced, calm>>

\* handlePingReq waits for the ack inside the receive loop.
handlePingReq ==
    /\ receiving = "idle" /\ stopping = "no" /\ Unlocked /\ helps < MaxHelps
    /\ status # "unknown"
    /\ helps' = helps + 1
    /\ pendingAck' = "helping"
    /\ receiving' = "helping"
    /\ UNCHANGED <<detector, pinging, acked, wiring, stopping, updates, probes, revivalRaced, calm>>

\* Mutant: the timeout leaves the channel registered.
HelpEnds_Leak ==
    /\ receiving = "helping"
    /\ receiving' = "idle"
    /\ UNCHANGED <<detector, pinging, pendingAck, acked, wiring, stopping, bounds,
                   revivalRaced, calm>>

\* The ack could only come through the receive loop, so the wait ends with the
\* timeout (which drops whatever channel is registered) or with stopCh.
HelpEnds ==
    /\ receiving = "helping"
    /\ \/ Unlocked /\ pendingAck' = None
       \/ stopping # "no" /\ UNCHANGED pendingAck
    /\ receiving' = "idle"
    /\ UNCHANGED <<detector, pinging, acked, wiring, stopping, bounds, revivalRaced, calm>>

(***************************************************************************)
(* The ping loop                                                           *)
(***************************************************************************)

\* pingRandomMember picks the peer; a blocked peer is not pinged.
PingDirect ==
    /\ pinging = "idle" /\ stopping = "no" /\ probes < MaxProbes
    /\ status \in {"alive", "suspect"}
    /\ probes' = probes + 1
    /\ \/ pinging' = "direct" /\ pendingAck' = "direct"
       \/ pinging' = "asking" /\ UNCHANGED pendingAck
    /\ UNCHANGED <<detector, receiving, acked, wiring, stopping, updates, helps, revivalRaced, calm>>

\* sendPingReqs; there may be nobody to ask.
PingIndirect ==
    /\ pinging = "asking"
    /\ \/ pinging' = "indirect" /\ pendingAck' = "indirect"
       \/ pinging' = "failed" /\ UNCHANGED pendingAck
    /\ UNCHANGED <<detector, receiving, acked, wiring, stopping, bounds, revivalRaced, calm>>

\* The select of either probe: the ack, or the timeout even when the channel has
\* just been closed, or stopCh, which leaves the channel registered.
ProbeEnds ==
    /\ pinging \in {"direct", "indirect"}
    /\ \/ /\ pinging \in acked
          /\ pinging' = "idle" /\ UNCHANGED pendingAck
       \/ /\ pendingAck' = None
          /\ pinging' = IF pinging = "direct" THEN "asking" ELSE "failed"
       \/ /\ stopping # "no"
          /\ pinging' = IF pinging = "direct" THEN "asking" ELSE "failed"
          /\ UNCHANGED pendingAck
    /\ acked' = acked \ {pinging}
    /\ UNCHANGED <<detector, receiving, wiring, stopping, bounds, revivalRaced, calm>>

\* markSuspect takes the mutex and looks at the status ...
markSuspect ==
    /\ pinging = "failed"
    /\ pinging' = IF status = "alive" THEN "marking" ELSE "idle"
    /\ UNCHANGED <<detector, receiving, pendingAck, acked, wiring, stopping, bounds,
                   revivalRaced, calm>>

\* ... and writes it; in between only a LEFT can have been written.
markSuspectWrites ==
    /\ pinging = "marking"
    /\ status' = "suspect"
    /\ StartTimer
    /\ pinging' = "idle"
    /\ UNCHANGED <<incarnation, receiving, pendingAck, acked, wiring, stopping, bounds,
                   revivalRaced, calm>>

(***************************************************************************)
(* The suspicion timers                                                    *)
(***************************************************************************)

\* suspicionTimeout is over: the runtime starts the timer's goroutine.
Fire(t) ==
    /\ timer[t] = "running"
    /\ timer' = [timer EXCEPT ![t] = "fired"]
    /\ UNCHANGED <<status, incarnation, suspicionTimer, loops, wiring, stopping, bounds,
                   revivalRaced, calm>>

\* markDead, run by the goroutine of timer t, whoever the timer was for.
markDead(t) ==
    /\ timer[t] = "fired" /\ Unlocked
    /\ \/ /\ status = "dead"
          /\ timer' = [timer EXCEPT ![t] = "idle"]
          /\ UNCHANGED <<status, suspicionTimer, wiring, calm>>
       \/ /\ status # "dead"
          /\ status' = "dead"
          /\ timer' = [Stop(suspicionTimer) EXCEPT ![t] = "idle"]
          /\ suspicionTimer' = None
          /\ emitEvent("remove")
          /\ calm' = (calm /\ NoHandler /\ receiving # "revived")
    /\ UNCHANGED <<incarnation, loops, stopping, bounds, revivalRaced>>

(***************************************************************************)
(* Event goroutines: the callbacks of main                                 *)
(***************************************************************************)

Advance(from, to) ==
    /\ handlers[from] > 0
    /\ handlers' = [handlers EXCEPT ![from] = @ - 1, ![to] = @ + 1]

Finish(stage) ==
    /\ handlers[stage] > 0
    /\ handlers' = [handlers EXCEPT ![stage] = @ - 1]

\* ring.AddNode calls onNodeAdded, outside its lock, only for a new node.
AddToRing ==
    /\ onRing' = TRUE
    /\ Advance("add", IF onRing THEN "connect" ELSE "callback")
    /\ UNCHANGED <<detector, loops, connected, stopping, bounds, revivalRaced, calm>>

\* ConnectToPeer, from onNodeAdded and then from the event handler.
ConnectToPeer ==
    /\ connected' = TRUE
    /\ \/ Advance("callback", "connect")
       \/ Finish("connect")
    /\ UNCHANGED <<detector, loops, onRing, stopping, bounds, revivalRaced, calm>>

\* Mutant: the ring drops the node and calls nobody.
RemoveFromRing_Silent ==
    /\ onRing' = FALSE
    /\ Finish("remove")
    /\ UNCHANGED <<detector, loops, connected, stopping, bounds, revivalRaced, calm>>

\* ring.RemoveNode calls onNodeRemoved, outside its lock, if the node was there.
RemoveFromRing ==
    /\ onRing' = FALSE
    /\ \/ onRing /\ Advance("remove", "failed")
       \/ ~onRing /\ Finish("remove")
    /\ UNCHANGED <<detector, loops, connected, stopping, bounds, revivalRaced, calm>>

\* HandleNodeFailure, as far as the connection goes (module Replication has the rest).
HandleNodeFailure ==
    /\ connected' = FALSE
    /\ Finish("failed")
    /\ UNCHANGED <<detector, loops, onRing, stopping, bounds, revivalRaced, calm>>

(***************************************************************************)
(* Stop                                                                    *)
(***************************************************************************)

StopLoops ==
    /\ stopping = "no"
    /\ stopping' = "stopping"
    /\ UNCHANGED <<detector, loops, wiring, bounds, revivalRaced, calm>>

\* wg.Wait has seen both loops out; the timers on record are stopped.
StopTimers ==
    /\ stopping = "stopping" /\ receiving = "idle" /\ pinging = "idle"
    /\ timer' = Stop(suspicionTimer)
    /\ stopping' = "stopped"
    /\ UNCHANGED <<status, incarnation, suspicionTimer, loops, wiring, bounds, revivalRaced, calm>>

ReceiveLoop ==
    \/ \E i \in 0 .. MaxIncarnation : Discover(i) \/ Revive(i) \/ Accuse(i) \/ Depart(i)
    \/ CancelAfterRevival \/ markSuspectLocked \/ Bury
    \/ handleAck \/ handlePingReq \/ HelpEnds

PingLoop == PingDirect \/ PingIndirect \/ ProbeEnds \/ markSuspect \/ markSuspectWrites

TimerGoroutines == \E t \in Timers : Fire(t) \/ markDead(t)

EventGoroutines == AddToRing \/ ConnectToPeer \/ RemoveFromRing \/ HandleNodeFailure

Next ==
    \/ ReceiveLoop \/ PingLoop \/ TimerGoroutines \/ EventGoroutines
    \/ StopLoops \/ StopTimers

Spec == Init /\ [][Next]_vars

(***************************************************************************)
(* Properties                                                              *)
(***************************************************************************)

\* Every suspicion timer that is still running is the one suspicionTimers has
\* for the peer, so that a refutation, a death or Stop reaches it: none runs on
\* unseen, and none runs once Stop has returned.
NoTimerEscapes ==
    /\ \A t \in Timers : timer[t] = "running" => suspicionTimer = t
    /\ stopping = "stopped" => \A t \in Timers : timer[t] # "running"

\* A SUSPECT peer has a timer that will declare it dead, running or already
\* fired, with one exception: applyUpdate writes ALIVE before it takes m.mu, so
\* a suspicion begun in between has its timer cancelled by the older revival.
SuspicionHasTimer ==
    status = "suspect" /\ ~revivalRaced /\ stopping # "stopped" =>
        suspicionTimer # None /\ timer[suspicionTimer] # "idle"

\* pendingAcks holds a channel only as long as the goroutine that registered it
\* waits on it: the probes of the ping loop and those made for other nodes
\* share one entry per peer and drop each other's, and still leave nothing
\* behind that a later ack would close for nobody.
NoAbandonedAck ==
    stopping = "no" /\ pendingAck # None => pendingAck \in {pinging, receiving}

\* The ring and the connections follow the registry once the event goroutines
\* are through: an ALIVE peer is on the ring and connected, a DEAD or LEFT one
\* neither.  It takes that each event was handled before the next was emitted
\* and that no timer declared the peer dead in the middle of its revival:
\* goroutines of two events run in any order.
RingFollowsRegistry ==
    calm /\ NoHandler /\ receiving = "idle" =>
        /\ status = "alive" => onRing /\ connected
        /\ status \in {"unknown", "dead", "left"} => ~onRing /\ ~connected
=============================================================================
