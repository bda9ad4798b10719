----------------------- MODULE FailureDetectorProofs -----------------------
(***************************************************************************)
(* Proofs about FailureDetector, for any number of timers and any bounds.  *)
(***************************************************************************)
EXTENDS FailureDetector, TLAPS

TimerState == {"idle", "running", "fired"}

(***************************************************************************)
(* Timers.  The lemmas say what timer.Stop, a cancellation and a new timer *)
(* do to a map of timers of which only the one on record may be running.   *)
(***************************************************************************)
OnlyOnRecord == \A t \in Timers : timer[t] = "running" => suspicionTimer = t

\* Stopping a timer affects that timer alone, and only if it runs.
LEMMA StopTyped ==
  ASSUME TypeOK, NEW r
  PROVE  /\ Stop(r) \in [Timers -> TimerState]
         /\ \A t \in Timers : Stop(r)[t] = IF t = r /\ timer[t] = "running" THEN "idle" ELSE timer[t]
BY DetectorAssumption DEF Stop, TypeOK, TimerState

\* Cancelling leaves no timer on record, and none running that was on record.
LEMMA CancelLemma ==
  ASSUME TypeOK, CancelTimer
  PROVE  /\ timer' \in [Timers -> TimerState] /\ suspicionTimer' = None
         /\ OnlyOnRecord => \A t \in Timers : timer'[t] # "running"
BY StopTyped DEF CancelTimer, OnlyOnRecord

\* Starting a suspicion timer puts the one that runs on record.
LEMMA StartLemma ==
  ASSUME TypeOK, StartTimer
  PROVE  /\ timer' \in [Timers -> TimerState]
         /\ suspicionTimer' \in Timers /\ timer'[suspicionTimer'] = "running"
         /\ OnlyOnRecord => OnlyOnRecord'
<1>1. PICK t \in Timers :
        /\ timer[t] = "idle" /\ t # suspicionTimer
        /\ timer' = [Stop(suspicionTimer) EXCEPT ![t] = "running"]
        /\ suspicionTimer' = t
  BY DEF StartTimer
<1>2. timer' \in [Timers -> TimerState] /\ timer'[t] = "running"
  BY <1>1, StopTyped DEF TimerState
<1>3. \A s \in Timers : s # t => timer'[s] = Stop(suspicionTimer)[s]
  BY <1>1, StopTyped
<1> QED
  BY <1>1, <1>2, <1>3, StopTyped DEF OnlyOnRecord

\* A timer that fires, or whose callback ends, changes no other timer.
LEMMA FireLemma ==
  ASSUME TypeOK, NEW t \in Timers, NEW s \in TimerState, timer' = [timer EXCEPT ![t] = s]
  PROVE  /\ timer' \in [Timers -> TimerState] /\ timer'[t] = s
         /\ \A u \in Timers \ {t} : timer'[u] = timer[u]
BY DEF TypeOK, TimerState

\* After the callback that declares the peer dead no timer runs.
LEMMA DeadLemma ==
  ASSUME TypeOK, NEW t \in Timers, timer' = [Stop(suspicionTimer) EXCEPT ![t] = "idle"]
  PROVE  /\ timer' \in [Timers -> TimerState]
         /\ OnlyOnRecord => \A u \in Timers : timer'[u] # "running"
<1>1. timer' \in [Timers -> TimerState]
  BY StopTyped DEF TimerState
<1>2. \A u \in Timers : timer'[u] = IF u = t THEN "idle" ELSE Stop(suspicionTimer)[u]
  BY StopTyped
<1> QED
  BY <1>1, <1>2, StopTyped DEF OnlyOnRecord

(***************************************************************************)
(* Event goroutines                                                        *)
(***************************************************************************)
LEMMA EmitLemma ==
  ASSUME TypeOK, NEW s \in Stages, emitEvent(s)
  PROVE  handlers' \in [Stages -> Nat] /\ UNCHANGED <<onRing, connected>>
BY DEF emitEvent, TypeOK

\* An event goroutine that ends leaves the counts numbers.
LEMMA FinishLemma ==
  ASSUME TypeOK, NEW s \in Stages, Finish(s)
  PROVE  handlers' \in [Stages -> Nat]
BY DEF Finish, TypeOK

\* An event goroutine that advances leaves one stage for the next.
LEMMA AdvanceLemma ==
  ASSUME TypeOK, NEW s \in Stages, NEW r \in Stages, s # r, Advance(s, r)
  PROVE  /\ handlers' \in [Stages -> Nat]
         /\ \A x \in Stages : handlers'[x] = IF x = s THEN handlers[x] - 1
                                             ELSE IF x = r THEN handlers[x] + 1 ELSE handlers[x]
BY DEF Advance, TypeOK

(***************************************************************************)
(* Type correctness                                                        *)
(***************************************************************************)
Flags == onRing \in BOOLEAN /\ connected \in BOOLEAN /\ revivalRaced \in BOOLEAN /\ calm \in BOOLEAN

\* Every step keeps the Boolean variables Boolean.
LEMMA FlagsStep == Flags /\ [Next]_vars => Flags'
<1> SUFFICES ASSUME Flags, [Next]_vars PROVE Flags'
  OBVIOUS
<1> USE DEF wiring, emitEvent
<1>1. ASSUME NEW i \in 0 .. MaxIncarnation, Discover(i) PROVE Flags'
  BY <1>1 DEF Discover, NextUpdate, Flags
<1>2. ASSUME NEW i \in 0 .. MaxIncarnation, Depart(i) PROVE Flags'
  BY <1>2 DEF Depart, NextUpdate, Flags
<1>3. ASSUME NEW i \in 0 .. MaxIncarnation, Revive(i) PROVE Flags'
  BY <1>3 DEF Revive, NextUpdate, Flags
<1>4. ASSUME NEW i \in 0 .. MaxIncarnation, Accuse(i) PROVE Flags'
  BY <1>4 DEF Accuse, NextUpdate, Flags
<1>5. CASE CancelAfterRevival
  BY <1>5 DEF CancelAfterRevival, Flags
<1>6. CASE Bury
  BY <1>6 DEF Bury, Flags
<1>7. ASSUME NEW t \in Timers, markDead(t) PROVE Flags'
  BY <1>7 DEF markDead, Flags
<1>8. CASE EventGoroutines
  BY <1>8 DEF EventGoroutines, AddToRing, ConnectToPeer, RemoveFromRing, HandleNodeFailure, Flags
<1>9. CASE UNCHANGED <<wiring, revivalRaced, calm>>
  BY <1>9 DEF Flags
<1>10. CASE markSuspectLocked \/ handleAck \/ handlePingReq \/ HelpEnds \/ StopLoops \/ StopTimers
  BY <1>9, <1>10 DEF markSuspectLocked, handleAck, handlePingReq, HelpEnds, StopLoops, StopTimers
<1>11. CASE PingLoop \/ \E t \in Timers : Fire(t)
  BY <1>9, <1>11 DEF PingLoop, PingDirect, PingIndirect, ProbeEnds, markSuspect, markSuspectWrites, Fire
<1>12. CASE UNCHANGED vars
  BY <1>9, <1>12 DEF vars
<1> QED
  BY <1>1, <1>2, <1>3, <1>4, <1>5, <1>6, <1>7, <1>8, <1>10, <1>11, <1>12
  DEF Next, ReceiveLoop, TimerGoroutines

Ranges ==
    /\ status \in Status /\ incarnation \in 0 .. MaxIncarnation
    /\ suspicionTimer \in Timers \cup {None} /\ timer \in [Timers -> TimerState]
    /\ receiving \in {"idle", "revived", "suspecting", "burying", "helping"}
    /\ pinging \in {"idle", "direct", "asking", "indirect", "failed", "marking"}
    /\ pendingAck \in Channels \cup {None} /\ acked \subseteq Channels
    /\ handlers \in [Stages -> Nat]
    /\ stopping \in {"no", "stopping", "stopped"}
    /\ updates \in Nat /\ probes \in Nat /\ helps \in Nat

\* The types are the ranges and the flags, which different provers handle.
LEMMA TypeParts == TypeOK <=> Ranges /\ Flags
BY DEF TypeOK, Ranges, Flags, TimerState

\* The types hold at the start.
LEMMA TypeInit == Init => TypeOK
<1>1. Init => Ranges
  BY DetectorAssumption DEF Init, Ranges, Status, TimerState
<1>2. Init => Flags
  BY DEF Init, Flags
<1> QED
  BY <1>1, <1>2, TypeParts

\* Every step keeps the ranges of the other variables.
LEMMA RangesStep == TypeOK /\ [Next]_vars => Ranges'
<1> SUFFICES ASSUME TypeOK, Ranges, [Next]_vars PROVE Ranges'
  BY TypeParts
<1> USE DEF Status, Channels, TimerState, detector, loops, wiring, bounds
<1>1. ASSUME NEW i \in 0 .. MaxIncarnation, Discover(i) \/ Depart(i) PROVE Ranges'
  <2>1. handlers' \in [Stages -> Nat] /\ UNCHANGED <<onRing, connected>>
    BY <1>1, EmitLemma DEF Discover, Depart, Stages
  <2>2. updates' \in Nat
    BY <1>1 DEF Discover, Depart, NextUpdate, Ranges
  <2>3. CASE Discover(i)
    BY <2>1, <2>2, <2>3 DEF Discover, NextUpdate, Ranges
  <2>4. CASE Depart(i)
    BY <2>1, <2>2, <2>4 DEF Depart, NextUpdate, Ranges
  <2> QED
    BY <1>1, <2>3, <2>4
<1>2. ASSUME NEW i \in 0 .. MaxIncarnation, Revive(i) \/ Accuse(i) PROVE Ranges'
  <2>1. updates' \in Nat
    BY <1>2 DEF Revive, Accuse, NextUpdate, Ranges
  <2>2. CASE Revive(i)
    BY <2>1, <2>2 DEF Revive, NextUpdate, Ranges
  <2>3. CASE Accuse(i)
    BY <2>1, <2>3 DEF Accuse, NextUpdate, Ranges
  <2> QED
    BY <1>2, <2>2, <2>3
<1>3. CASE CancelAfterRevival \/ Bury
  <2>1. handlers' \in [Stages -> Nat] /\ UNCHANGED <<onRing, connected>>
    BY <1>3, EmitLemma DEF CancelAfterRevival, Bury, Stages
  <2>2. timer' \in [Timers -> TimerState] /\ suspicionTimer' = None
    BY <1>3, CancelLemma DEF CancelAfterRevival, Bury
  <2>3. CASE CancelAfterRevival
    BY <2>1, <2>2, <2>3 DEF CancelAfterRevival, Ranges
  <2>4. CASE Bury
    BY <2>1, <2>2, <2>4 DEF Bury, Ranges
  <2> QED
    BY <1>3, <2>3, <2>4
<1>4. CASE markSuspectLocked \/ markSuspectWrites
  <2>1. timer' \in [Timers -> TimerState] /\ suspicionTimer' \in Timers
    BY <1>4, StartLemma DEF markSuspectLocked, markSuspectWrites
  <2>2. CASE markSuspectLocked
    BY <2>1, <2>2 DEF markSuspectLocked, Ranges
  <2>3. CASE markSuspectWrites
    BY <2>1, <2>3 DEF markSuspectWrites, Ranges
  <2> QED
    BY <1>4, <2>2, <2>3
<1>5. CASE handleAck \/ handlePingReq \/ HelpEnds
  <2>1. CASE handleAck
    BY <2>1 DEF handleAck, Ranges
  <2>2. CASE handlePingReq
    BY <2>2 DEF handlePingReq, Ranges
  <2>3. CASE HelpEnds
    BY <2>3 DEF HelpEnds, Ranges
  <2> QED
    BY <1>5, <2>1, <2>2, <2>3
<1>6. CASE PingDirect \/ PingIndirect \/ ProbeEnds \/ markSuspect
  <2>1. CASE PingDirect
    BY <2>1 DEF PingDirect, Ranges
  <2>2. CASE PingIndirect
    BY <2>2 DEF PingIndirect, Ranges
  <2>3. CASE ProbeEnds
    BY <2>3 DEF ProbeEnds, Ranges
  <2>4. CASE markSuspect
    BY <2>4 DEF markSuspect, Ranges
  <2> QED
    BY <1>6, <2>1, <2>2, <2>3, <2>4
<1>7. ASSUME NEW t \in Timers, Fire(t) PROVE Ranges'
  BY <1>7, FireLemma DEF Fire, Ranges
<1>8. ASSUME NEW t \in Timers, markDead(t) PROVE Ranges'
  <2>1. CASE status = "dead"
    BY <1>8, <2>1, FireLemma DEF markDead, Ranges
  <2>2. CASE status # "dead"
    <3>1. handlers' \in [Stages -> Nat] /\ UNCHANGED <<onRing, connected>>
      BY <1>8, <2>2, EmitLemma DEF markDead, Stages
    <3>2. timer' \in [Timers -> TimerState]
      BY <1>8, <2>2, DeadLemma DEF markDead
    <3> QED
      BY <1>8, <2>2, <3>1, <3>2 DEF markDead, Ranges
  <2> QED
    BY <2>1, <2>2
<1>9. CASE AddToRing
  <2>1. handlers' \in [Stages -> Nat]
    BY <1>9, AdvanceLemma DEF AddToRing, Stages
  <2> QED
    BY <1>9, <2>1 DEF AddToRing, Ranges
<1>10. CASE ConnectToPeer
  <2>1. handlers' \in [Stages -> Nat]
    BY <1>10, AdvanceLemma, FinishLemma DEF ConnectToPeer, Stages
  <2> QED
    BY <1>10, <2>1 DEF ConnectToPeer, Ranges
<1>11. CASE RemoveFromRing
  <2>1. handlers' \in [Stages -> Nat]
    BY <1>11, AdvanceLemma, FinishLemma DEF RemoveFromRing, Stages
  <2> QED
    BY <1>11, <2>1 DEF RemoveFromRing, Ranges
<1>12. CASE HandleNodeFailure
  <2>1. handlers' \in [Stages -> Nat]
    BY <1>12, FinishLemma DEF HandleNodeFailure, Stages
  <2> QED
    BY <1>12, <2>1 DEF HandleNodeFailure, Ranges
<1>13. CASE StopLoops
  BY <1>13 DEF StopLoops, Ranges
<1>14. CASE StopTimers
  <2>1. timer' \in [Timers -> TimerState]
    BY <1>14, StopTyped DEF StopTimers
  <2> QED
    BY <1>14, <2>1 DEF StopTimers, Ranges
<1>15. CASE UNCHANGED vars
  BY <1>15 DEF vars, Ranges
<1> QED
  BY <1>1, <1>2, <1>3, <1>4, <1>5, <1>6, <1>7, <1>8, <1>9, <1>10, <1>11, <1>12, <1>13, <1>14, <1>15
  DEF Next, ReceiveLoop, PingLoop, TimerGoroutines, EventGoroutines

\* Every step keeps the types.
LEMMA TypeStep == TypeOK /\ [Next]_vars => TypeOK'
<1> SUFFICES ASSUME TypeOK, [Next]_vars PROVE TypeOK'
  OBVIOUS
<1>1. Ranges'
  BY RangesStep
<1>2. Flags'
  BY FlagsStep, TypeParts
<1> QED
  BY <1>1, <1>2 DEF TypeOK, Ranges, Flags, TimerState

(***************************************************************************)
(* Timers: both loops are out once Stop has stopped the timers, so none    *)
(* is started after that.                                                  *)
(***************************************************************************)
LoopsOut == stopping = "stopped" => receiving = "idle" /\ pinging = "idle"

TimerInv == NoTimerEscapes /\ LoopsOut /\ SuspicionHasTimer

\* Every step keeps the timers on record, and a suspicion timed.
LEMMA TimerStep == TypeOK /\ TimerInv /\ [Next]_vars => TimerInv'
<1> SUFFICES ASSUME TypeOK, TimerInv, [Next]_vars PROVE TimerInv'
  OBVIOUS
<1> USE DEF detector, loops, wiring, bounds
<1>0. OnlyOnRecord
  BY DEF TimerInv, NoTimerEscapes, OnlyOnRecord
<1>1. ASSUME UNCHANGED <<timer, suspicionTimer, stopping, revivalRaced>>, LoopsOut',
             status' = "suspect" => status = "suspect"
      PROVE  TimerInv'
  BY <1>1 DEF TimerInv, NoTimerEscapes, SuspicionHasTimer
<1>2. ASSUME NEW i \in 0 .. MaxIncarnation, Discover(i) \/ Revive(i) \/ Accuse(i) \/ Depart(i)
      PROVE  TimerInv'
  <2>1. UNCHANGED <<timer, suspicionTimer, stopping, revivalRaced>> /\ stopping = "no"
    BY <1>2 DEF Discover, Revive, Accuse, Depart, NextUpdate
  <2>2. status' = "suspect" => status = "suspect"
    BY <1>2 DEF Discover, Revive, Accuse, Depart
  <2> QED
    BY <1>1, <2>1, <2>2 DEF LoopsOut
<1>3. CASE handleAck \/ handlePingReq \/ HelpEnds
  <2>1. UNCHANGED <<timer, suspicionTimer, stopping, revivalRaced, status, pinging>>
    BY <1>3 DEF handleAck, handlePingReq, HelpEnds
  <2>2. stopping = "stopped" => receiving' = "idle"
    BY <1>3 DEF handleAck, handlePingReq, HelpEnds
  <2> QED
    BY <1>1, <2>1, <2>2 DEF LoopsOut, TimerInv
<1>4. CASE PingDirect \/ PingIndirect \/ ProbeEnds \/ markSuspect
  <2>1. UNCHANGED <<timer, suspicionTimer, stopping, revivalRaced, status, receiving>>
    BY <1>4 DEF PingDirect, PingIndirect, ProbeEnds, markSuspect
  <2>2. stopping # "stopped"
    BY <1>4 DEF PingDirect, PingIndirect, ProbeEnds, markSuspect, TimerInv, LoopsOut
  <2> QED
    BY <1>1, <2>1, <2>2 DEF LoopsOut
<1>5. CASE CancelAfterRevival \/ Bury
  <2>1. /\ suspicionTimer' = None /\ \A t \in Timers : timer'[t] # "running"
    BY <1>0, <1>5, CancelLemma DEF CancelAfterRevival, Bury
  <2>2. status' = "suspect" => revivalRaced'
    BY <1>5 DEF CancelAfterRevival, Bury
  <2>3. stopping' # "stopped"
    BY <1>5 DEF CancelAfterRevival, Bury, TimerInv, LoopsOut
  <2> QED
    BY <2>1, <2>2, <2>3 DEF TimerInv, NoTimerEscapes, LoopsOut, SuspicionHasTimer
<1>6. CASE markSuspectLocked \/ markSuspectWrites
  <2>1. /\ suspicionTimer' \in Timers /\ timer'[suspicionTimer'] = "running" /\ OnlyOnRecord'
    BY <1>0, <1>6, StartLemma DEF markSuspectLocked, markSuspectWrites
  <2>2. stopping' # "stopped"
    BY <1>6 DEF markSuspectLocked, markSuspectWrites, TimerInv, LoopsOut
  <2> QED
    BY <2>1, <2>2, DetectorAssumption
    DEF TimerInv, NoTimerEscapes, LoopsOut, SuspicionHasTimer, OnlyOnRecord
<1>7. ASSUME NEW t \in Timers, Fire(t) PROVE TimerInv'
  <2>1. timer'[t] = "fired" /\ \A u \in Timers \ {t} : timer'[u] = timer[u]
    BY <1>7, FireLemma DEF Fire, TimerState
  <2>2. timer[t] = "running" /\ UNCHANGED <<status, suspicionTimer, stopping, receiving, pinging,
                                            revivalRaced>>
    BY <1>7 DEF Fire
  <2>3. suspicionTimer \in Timers \cup {None}
    BY DEF TypeOK
  <2> QED
    BY <2>1, <2>2, <2>3 DEF TimerInv, NoTimerEscapes, LoopsOut, SuspicionHasTimer
<1>8. ASSUME NEW t \in Timers, markDead(t) PROVE TimerInv'
  <2>1. status' # "suspect" /\ UNCHANGED <<stopping, receiving, pinging>>
    BY <1>8 DEF markDead
  <2>2. CASE status = "dead"
    <3>1. timer'[t] = "idle" /\ (\A u \in Timers \ {t} : timer'[u] = timer[u]) /\ UNCHANGED suspicionTimer
      BY <1>8, <2>2, FireLemma DEF markDead, TimerState
    <3> QED
      BY <2>1, <3>1 DEF TimerInv, NoTimerEscapes, LoopsOut, SuspicionHasTimer
  <2>3. CASE status # "dead"
    <3>1. \A u \in Timers : timer'[u] # "running"
      BY <1>0, <1>8, <2>3, DeadLemma DEF markDead
    <3> QED
      BY <2>1, <3>1 DEF TimerInv, NoTimerEscapes, LoopsOut, SuspicionHasTimer
  <2> QED
    BY <2>2, <2>3
<1>9. CASE EventGoroutines \/ StopLoops \/ UNCHANGED vars
  <2>1. UNCHANGED <<timer, suspicionTimer, revivalRaced, status, receiving, pinging>>
    BY <1>9 DEF EventGoroutines, AddToRing, ConnectToPeer, RemoveFromRing, HandleNodeFailure,
                StopLoops, vars
  <2>2. stopping' = stopping \/ (stopping = "no" /\ stopping' = "stopping")
    <3>1. CASE StopLoops
      BY <3>1 DEF StopLoops
    <3>2. ASSUME EventGoroutines \/ UNCHANGED vars PROVE stopping' = stopping
      BY <3>2 DEF EventGoroutines, AddToRing, ConnectToPeer, RemoveFromRing, HandleNodeFailure, vars
    <3> QED
      BY <1>9, <3>1, <3>2
  <2> QED
    BY <2>1, <2>2 DEF TimerInv, NoTimerEscapes, LoopsOut, SuspicionHasTimer
<1>10. CASE StopTimers
  <2>1. \A t \in Timers : timer'[t] # "running"
    BY <1>0, <1>10, StopTyped DEF StopTimers, OnlyOnRecord
  <2>2. stopping' = "stopped" /\ receiving' = "idle" /\ pinging' = "idle"
    BY <1>10 DEF StopTimers
  <2> QED
    BY <2>1, <2>2 DEF TimerInv, NoTimerEscapes, LoopsOut, SuspicionHasTimer
<1> QED
  BY <1>2, <1>3, <1>4, <1>5, <1>6, <1>7, <1>8, <1>9, <1>10
  DEF Next, ReceiveLoop, PingLoop, TimerGoroutines

(***************************************************************************)
(* Acks: a closed channel belongs to the probe under way, and is no longer *)
(* the one registered.                                                     *)
(***************************************************************************)
AckInv == NoAbandonedAck /\ acked \subseteq {pinging} \ {pendingAck}

\* Every step keeps a registered ack channel with the goroutine that waits.
LEMMA AckStep == TypeOK /\ AckInv /\ [Next]_vars => AckInv'
<1> SUFFICES ASSUME TypeOK, AckInv, [Next]_vars PROVE AckInv'
  OBVIOUS
<1> USE DEF detector, loops, wiring, bounds
<1>1. /\ acked \subseteq Channels /\ pendingAck \in Channels \cup {None}
      /\ acked \subseteq {pinging} \ {pendingAck}
      /\ stopping = "no" /\ pendingAck # None => pendingAck \in {pinging, receiving}
      /\ receiving \in {"idle", "revived", "suspecting", "burying", "helping"}
      /\ None \notin Channels
  BY DetectorAssumption DEF TypeOK, AckInv, NoAbandonedAck
<1> USE DEF Channels
<1>2. ASSUME UNCHANGED <<pinging, pendingAck, acked>>, stopping' = "no" => stopping = "no",
             receiving' = receiving \/ receiving # "helping"
      PROVE  AckInv'
  BY <1>1, <1>2 DEF AckInv, NoAbandonedAck
<1>3. ASSUME NEW i \in 0 .. MaxIncarnation, Discover(i) \/ Revive(i) \/ Accuse(i) \/ Depart(i)
      PROVE  AckInv'
  BY <1>2, <1>3 DEF Discover, Revive, Accuse, Depart, NextUpdate
<1>4. CASE CancelAfterRevival \/ markSuspectLocked \/ Bury
  BY <1>2, <1>4 DEF CancelAfterRevival, markSuspectLocked, Bury
<1>5. CASE handleAck
  BY <1>1, <1>5 DEF handleAck, AckInv, NoAbandonedAck
<1>6. CASE handlePingReq
  BY <1>1, <1>6 DEF handlePingReq, AckInv, NoAbandonedAck, TypeOK
<1>7. CASE HelpEnds
  BY <1>1, <1>7 DEF HelpEnds, AckInv, NoAbandonedAck, TypeOK
<1>8. CASE PingDirect
  BY <1>1, <1>8 DEF PingDirect, AckInv, NoAbandonedAck
<1>9. CASE PingIndirect
  BY <1>1, <1>9 DEF PingIndirect, AckInv, NoAbandonedAck
<1>10. CASE ProbeEnds
  BY <1>1, <1>10 DEF ProbeEnds, AckInv, NoAbandonedAck
<1>11. CASE markSuspect \/ markSuspectWrites
  BY <1>1, <1>11 DEF markSuspect, markSuspectWrites, AckInv, NoAbandonedAck
<1>12. CASE TimerGoroutines
  BY <1>2, <1>12 DEF TimerGoroutines, Fire, markDead
<1>13. CASE EventGoroutines \/ StopLoops \/ StopTimers \/ UNCHANGED vars
  BY <1>2, <1>13 DEF EventGoroutines, AddToRing, ConnectToPeer, RemoveFromRing, HandleNodeFailure,
                     StopLoops, StopTimers, vars
<1> QED
  BY <1>3, <1>4, <1>5, <1>6, <1>7, <1>8, <1>9, <1>10, <1>11, <1>12, <1>13
  DEF Next, ReceiveLoop, PingLoop

(***************************************************************************)
(* The ring: as long as the events were handled one by one there is at     *)
(* most one event goroutine, and how far it has come says what the ring    *)
(* and the connections look like.  An event of the wrong kind for the      *)
(* status is possible only while a revival is on its way to emitting the   *)
(* event that makes up for it.                                             *)
(***************************************************************************)
Only(s) == \A x \in Stages : handlers[x] = IF x = s THEN 1 ELSE 0

Reviving == receiving = "revived"
MayBeIn == status \in {"alive", "suspect"}
MayBeOut == status \in {"dead", "left", "suspect"} \/ Reviving

Settled ==
    /\ onRing <=> connected
    /\ ~Reviving /\ status = "alive" => onRing
    /\ ~Reviving /\ status \in {"unknown", "dead", "left"} => ~onRing

CalmInv ==
    calm =>
      /\ Reviving => MayBeIn
      /\ \/ NoHandler /\ Settled
         \/ Only("add") /\ MayBeIn /\ (onRing <=> connected)
         \/ Only("callback") /\ MayBeIn /\ onRing
         \/ Only("connect") /\ MayBeIn /\ onRing
         \/ Only("remove") /\ MayBeOut /\ (onRing <=> connected)
         \/ Only("failed") /\ MayBeOut /\ ~onRing

\* An event emitted when no handler is under way is the only one.
LEMMA EmitAlone ==
  ASSUME TypeOK, NEW s \in Stages, emitEvent(s), NoHandler
  PROVE  Only(s)'
BY DEF emitEvent, NoHandler, Only, TypeOK

\* The only event goroutine is the one that advances, and stays the only one.
LEMMA AdvanceAlone ==
  ASSUME TypeOK, NEW s \in Stages, NEW r \in Stages, s # r, Advance(s, r), NEW x \in Stages, Only(x)
  PROVE  x = s /\ Only(r)'
<1>1. x = s
  BY DEF Advance, Only
<1> QED
  BY <1>1, AdvanceLemma DEF Only

\* The only event goroutine is the one that ends, and leaves none.
LEMMA FinishAlone ==
  ASSUME TypeOK, NEW s \in Stages, Finish(s), NEW x \in Stages, Only(x)
  PROVE  x = s /\ NoHandler'
BY DEF Finish, Only, NoHandler, TypeOK

\* Without an event goroutine no stage has one to advance.
LEMMA NobodyMoves ==
  ASSUME TypeOK, NoHandler, NEW s \in Stages
  PROVE  ~(handlers[s] > 0)
BY DEF NoHandler, TypeOK

\* calm is never restored once it is lost.
LEMMA CalmBefore == [Next]_vars /\ calm' => calm
<1> SUFFICES ASSUME [Next]_vars, calm' PROVE calm
  OBVIOUS
<1>1. CASE ReceiveLoop
  BY <1>1 DEF ReceiveLoop, Discover, Revive, CancelAfterRevival, Accuse, markSuspectLocked, Bury,
              Depart, handleAck, handlePingReq, HelpEnds
<1>2. CASE PingLoop
  BY <1>2 DEF PingLoop, PingDirect, PingIndirect, ProbeEnds, markSuspect, markSuspectWrites
<1>3. CASE TimerGoroutines
  BY <1>3 DEF TimerGoroutines, Fire, markDead
<1>4. CASE EventGoroutines
  BY <1>4 DEF EventGoroutines, AddToRing, ConnectToPeer, RemoveFromRing, HandleNodeFailure
<1>5. CASE StopLoops \/ StopTimers \/ UNCHANGED vars
  BY <1>5 DEF StopLoops, StopTimers, vars
<1> QED
  BY <1>1, <1>2, <1>3, <1>4, <1>5 DEF Next

\* While calm, every step keeps ring and connection at what the stage says.
LEMMA CalmStep == TypeOK /\ CalmInv /\ [Next]_vars => CalmInv'
<1> SUFFICES ASSUME TypeOK, CalmInv, calm', [Next]_vars PROVE CalmInv'
  BY DEF CalmInv
<1> USE DEF detector, loops, wiring, bounds
<1>1. calm
  BY CalmBefore
<1>2. ASSUME UNCHANGED wiring, status' = status \/ status' = "suspect",
             receiving' = receiving \/ (receiving # "revived" /\ receiving' # "revived")
      PROVE  CalmInv'
  <2>1. (NoHandler <=> NoHandler') /\ \A x \in Stages : (Only(x) <=> Only(x)')
    BY <1>2 DEF NoHandler, Only
  <2>2. (Reviving <=> Reviving') /\ (MayBeIn => MayBeIn') /\ (MayBeOut => MayBeOut')
    BY <1>2 DEF Reviving, MayBeIn, MayBeOut
  <2>3. Settled => Settled'
    BY <1>2, <2>2 DEF Settled
  <2> QED
    <3>1. onRing' = onRing /\ connected' = connected
      BY <1>2
    <3>2. Reviving' => MayBeIn'
      BY <1>1, <2>2 DEF CalmInv
    <3>3. CASE NoHandler /\ Settled
      BY <2>1, <2>3, <3>2, <3>3 DEF CalmInv
    <3>4. CASE /\ MayBeIn
               /\ \/ Only("add") /\ (onRing <=> connected)
                  \/ onRing /\ (Only("callback") \/ Only("connect"))
      BY <2>1, <2>2, <3>1, <3>2, <3>4 DEF CalmInv, Stages
    <3>5. CASE /\ MayBeOut
               /\ \/ Only("remove") /\ (onRing <=> connected)
                  \/ Only("failed") /\ ~onRing
      BY <2>1, <2>2, <3>1, <3>2, <3>5 DEF CalmInv, Stages
    <3> QED
      BY <1>1, <3>3, <3>4, <3>5 DEF CalmInv
<1>3. ASSUME NoHandler, emitEvent("add"), MayBeIn', ~Reviving' PROVE CalmInv'
  <2>1. Only("add")' /\ (onRing' <=> connected')
    <3>1. Only("add")'
      BY <1>3, EmitAlone DEF Stages
    <3>2. onRing <=> connected
      BY <1>1, <1>3 DEF CalmInv, Settled, NoHandler, Only, Stages
    <3> QED
      BY <1>3, <3>1, <3>2 DEF emitEvent
  <2> QED
    BY <1>3, <2>1 DEF CalmInv
<1>4. ASSUME NoHandler, emitEvent("remove"), status' \in {"dead", "left"}, ~Reviving' PROVE CalmInv'
  <2>1. Only("remove")' /\ (onRing' <=> connected')
    <3>1. Only("remove")'
      BY <1>4, EmitAlone DEF Stages
    <3>2. onRing <=> connected
      BY <1>1, <1>4 DEF CalmInv, Settled, NoHandler, Only, Stages
    <3> QED
      BY <1>4, <3>1, <3>2 DEF emitEvent
  <2> QED
    BY <1>4, <2>1 DEF CalmInv, MayBeOut
<1>5. ASSUME NEW i \in 0 .. MaxIncarnation, Discover(i) PROVE CalmInv'
  BY <1>3, <1>5 DEF Discover, NextUpdate, MayBeIn, Reviving
<1>6. ASSUME NEW i \in 0 .. MaxIncarnation, Depart(i) PROVE CalmInv'
  BY <1>4, <1>6 DEF Depart, NextUpdate, Reviving
<1>7. ASSUME NEW i \in 0 .. MaxIncarnation, Accuse(i) PROVE CalmInv'
  BY <1>2, <1>7 DEF Accuse, NextUpdate
<1>8. ASSUME NEW i \in 0 .. MaxIncarnation, Revive(i) PROVE CalmInv'
  <2>1. (NoHandler <=> NoHandler') /\ \A x \in Stages : (Only(x) <=> Only(x)')
    BY <1>8 DEF Revive, NoHandler, Only
  <2>2. Reviving' /\ MayBeIn' /\ MayBeOut' /\ UNCHANGED <<onRing, connected>>
    BY <1>8 DEF Revive, Reviving, MayBeIn, MayBeOut
  <2> QED
    BY <1>1, <2>1, <2>2 DEF CalmInv, Settled, Stages
<1>9. CASE CancelAfterRevival
  <2>1. MayBeIn' /\ ~Reviving'
    BY <1>1, <1>9 DEF CancelAfterRevival, CalmInv, Reviving, MayBeIn
  <2> QED
    BY <1>3, <1>9, <2>1 DEF CancelAfterRevival
<1>10. CASE Bury
  BY <1>4, <1>10 DEF Bury, Reviving
<1>11. CASE markSuspectLocked \/ handleAck \/ handlePingReq \/ HelpEnds
  BY <1>2, <1>11 DEF markSuspectLocked, handleAck, handlePingReq, HelpEnds
<1>12. CASE PingLoop
  BY <1>2, <1>12 DEF PingLoop, PingDirect, PingIndirect, ProbeEnds, markSuspect, markSuspectWrites
<1>13. ASSUME NEW t \in Timers, Fire(t) PROVE CalmInv'
  BY <1>2, <1>13 DEF Fire
<1>14. ASSUME NEW t \in Timers, markDead(t) PROVE CalmInv'
  BY <1>2, <1>4, <1>14 DEF markDead, Reviving
<1>15. CASE AddToRing
  <2>1. UNCHANGED <<status, receiving>> /\ onRing'
    BY <1>15 DEF AddToRing
  <2>2. PICK r \in {"connect", "callback"} : Advance("add", r)
    BY <1>15 DEF AddToRing
  <2>3. Only("add") /\ Only(r)'
    BY <1>1, <2>2, AdvanceAlone, NobodyMoves DEF CalmInv, Stages, Advance
  <2>4. MayBeIn
    BY <1>1, <2>3 DEF CalmInv, Only, Stages, NoHandler
  <2> QED
    BY <1>1, <2>1, <2>2, <2>3, <2>4 DEF CalmInv, MayBeIn, Reviving
<1>16. CASE ConnectToPeer
  <2>1. UNCHANGED <<status, receiving, onRing>> /\ connected'
    BY <1>16 DEF ConnectToPeer
  <2>2. CASE Advance("callback", "connect")
    <3>1. Only("callback") /\ Only("connect")'
      BY <1>1, <2>2, AdvanceAlone, NobodyMoves DEF CalmInv, Stages, Advance
    <3>2. MayBeIn /\ onRing
      BY <1>1, <3>1 DEF CalmInv, Only, Stages, NoHandler
    <3> QED
      BY <1>1, <2>1, <3>1, <3>2 DEF CalmInv, MayBeIn, Reviving
  <2>3. CASE Finish("connect")
    <3>1. Only("connect") /\ NoHandler'
      BY <1>1, <2>3, FinishAlone, NobodyMoves DEF CalmInv, Stages, Finish
    <3>2. MayBeIn /\ onRing
      BY <1>1, <3>1 DEF CalmInv, Only, Stages, NoHandler
    <3> QED
      BY <1>1, <2>1, <3>1, <3>2 DEF CalmInv, MayBeIn, Reviving, Settled
  <2> QED
    BY <1>16, <2>2, <2>3 DEF ConnectToPeer
<1>17. CASE RemoveFromRing
  <2>1. UNCHANGED <<status, receiving, connected>> /\ ~onRing'
    BY <1>17 DEF RemoveFromRing
  <2>2. CASE onRing /\ Advance("remove", "failed")
    <3>1. Only("remove") /\ Only("failed")'
      BY <1>1, <2>2, AdvanceAlone, NobodyMoves DEF CalmInv, Stages, Advance
    <3>2. MayBeOut /\ (Reviving => MayBeIn)
      BY <1>1, <3>1 DEF CalmInv, Only, Stages, NoHandler
    <3> QED
      BY <2>1, <3>1, <3>2 DEF CalmInv, MayBeIn, MayBeOut, Reviving
  <2>3. CASE ~onRing /\ Finish("remove")
    <3>1. Only("remove") /\ NoHandler'
      BY <1>1, <2>3, FinishAlone, NobodyMoves DEF CalmInv, Stages, Finish
    <3>2. MayBeOut /\ ~connected /\ (Reviving => MayBeIn)
      BY <1>1, <2>3, <3>1 DEF CalmInv, Only, Stages, NoHandler
    <3> QED
      BY <2>1, <3>1, <3>2 DEF CalmInv, MayBeIn, MayBeOut, Reviving, Settled
  <2> QED
    BY <1>17, <2>2, <2>3 DEF RemoveFromRing
<1>18. CASE HandleNodeFailure
  <2>1. UNCHANGED <<status, receiving, onRing>> /\ ~connected'
    BY <1>18 DEF HandleNodeFailure
  <2>2. Only("failed") /\ NoHandler'
    BY <1>1, <1>18, FinishAlone, NobodyMoves DEF CalmInv, Stages, Finish, HandleNodeFailure
  <2>3. MayBeOut /\ ~onRing /\ (Reviving => MayBeIn)
    BY <1>1, <2>2 DEF CalmInv, Only, Stages, NoHandler
  <2> QED
    BY <2>1, <2>2, <2>3 DEF CalmInv, MayBeIn, MayBeOut, Reviving, Settled
<1>19. CASE StopLoops \/ StopTimers \/ UNCHANGED vars
  BY <1>2, <1>19 DEF StopLoops, StopTimers, vars
<1> QED
  BY <1>5, <1>6, <1>7, <1>8, <1>9, <1>10, <1>11, <1>12, <1>13, <1>14, <1>15, <1>16, <1>17, <1>18,
     <1>19
  DEF Next, ReceiveLoop, TimerGoroutines, EventGoroutines

(***************************************************************************)
(* The properties, for every instance                                      *)
(***************************************************************************)
DetectorInv == TypeOK /\ TimerInv /\ AckInv /\ CalmInv

\* The invariant holds of a new detector.
LEMMA DetectorInit == Init => DetectorInv
<1> SUFFICES ASSUME Init PROVE DetectorInv
  OBVIOUS
<1>1. TypeOK
  BY TypeInit
<1>2. TimerInv
  BY DEF Init, TimerInv, NoTimerEscapes, LoopsOut, SuspicionHasTimer
<1>3. AckInv
  BY DEF Init, AckInv, NoAbandonedAck
<1>4. CalmInv
  BY DEF Init, CalmInv, NoHandler, Settled, Reviving
<1> QED
  BY <1>1, <1>2, <1>3, <1>4 DEF DetectorInv

\* The invariant always holds.
LEMMA DetectorInvariant == Spec => []DetectorInv
<1>1. DetectorInv /\ [Next]_vars => DetectorInv'
  BY TypeStep, TimerStep, AckStep, CalmStep DEF DetectorInv
<1> QED
  BY DetectorInit, <1>1, PTL DEF Spec

\* Every variable of the detector keeps its type.
THEOREM DetectorTyped == Spec => []TypeOK
<1>1. DetectorInv => TypeOK
  BY DEF DetectorInv
<1> QED
  BY DetectorInvariant, <1>1, PTL

\* suspicionTimers has the one timer that runs for the peer, and Stop stops it.
THEOREM TimersStayOnRecord == Spec => []NoTimerEscapes
<1>1. DetectorInv => NoTimerEscapes
  BY DEF DetectorInv, TimerInv
<1> QED
  BY DetectorInvariant, <1>1, PTL

\* A SUSPECT peer has a timer, but for the race of a revival with a new suspicion.
THEOREM SuspicionsEnd == Spec => []SuspicionHasTimer
<1>1. DetectorInv => SuspicionHasTimer
  BY DEF DetectorInv, TimerInv
<1> QED
  BY DetectorInvariant, <1>1, PTL

\* pendingAcks keeps no channel that nobody waits on.
THEOREM AcksAreAwaited == Spec => []NoAbandonedAck
<1>1. DetectorInv => NoAbandonedAck
  BY DEF DetectorInv, AckInv
<1> QED
  BY DetectorInvariant, <1>1, PTL

\* The callbacks of main bring ring and connections in line with the registry
\* as long as the events are handled one by one.
THEOREM RingSettles == Spec => []RingFollowsRegistry
<1>1. ASSUME DetectorInv, calm, NoHandler, receiving = "idle" PROVE Settled /\ ~Reviving
  <2>1. \A x \in Stages : ~Only(x)
    BY <1>1 DEF NoHandler, Only
  <2> QED
    BY <1>1, <2>1 DEF DetectorInv, CalmInv, Stages, Reviving
<1>2. DetectorInv => RingFollowsRegistry
  BY <1>1 DEF RingFollowsRegistry, Settled
<1> QED
  BY DetectorInvariant, <1>2, PTL
=============================================================================
