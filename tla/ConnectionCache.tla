-------------------------- MODULE ConnectionCache --------------------------
(***************************************************************************)
(* The manager-level connection cache of internal/connection/cache.go: a   *)
(* lock-free snapshot that the connection reconciler publishes (Rebuild),  *)
(* that every dependent reconciler reads before it calls LiteLLM           *)
(* (Snapshot) and that any of them may knock down when LiteLLM answers 401 *)
(* (InvalidateOn401).  Every atomic load, store, swap and channel operation *)
(* of the code is a step of its own.                                       *)
(*                                                                         *)
(* Around it, only what decides who calls the cache when: the connection   *)
(* reconciler's work queue and probe (its full state machine is in module  *)
(* Connection), and for each dependent kind one resource, its queue entry, *)
(* its Subscribe channel and the safety relist.                            *)
(***************************************************************************)
EXTENDS Integers, FiniteSets

CONSTANTS Dependents,   \* dependent kinds: one worker, one resource each
          MaxFlaps      \* bound: how often LiteLLM's answers change

ASSUME FlapsAssumption == MaxFlaps \in Nat

VARIABLES
  snapshot,     \* *ConnectionSnapshot: [ready, client, src]
  invalidated,  \* the storm gate
  lastReady,
  closed,       \* the shutdown flag
  ch,           \* an event is buffered in the 401 channel (capacity 1)
  chClosed,
  sub,          \* an event is buffered in a dependent's Subscribe channel
  subsClosed,
  cq,           \* the connection is in its work queue
  timer,        \* the RequeueAfter of a successful probe is armed
  cpc,          \* where the connection worker is
  out,          \* outcome of its probe
  toEmit,       \* subscribers that emitRebuilt has yet to send to
  dq,           \* the dependent's resource is in its work queue
  dpc,          \* where the dependent's worker is
  cur,          \* Client != nil in the snapshot InvalidateOn401 loaded
  status,       \* the dependent resource's Ready reason
  upstream,     \* what LiteLLM answers (external)
  flaps

cacheVars == <<snapshot, invalidated, lastReady, closed, ch, chClosed, sub, subsClosed>>
connVars  == <<cq, timer, cpc, out, toEmit>>
depVars   == <<dq, dpc, cur, status>>
envVars   == <<upstream, flaps>>
vars == <<snapshot, invalidated, lastReady, closed, ch, chClosed, sub, subsClosed,
          cq, timer, cpc, out, toEmit, dq, dpc, cur, status, upstream, flaps>>

\* src tells apart no snapshot yet, a probe's outcome, a 401 placeholder.
Snapshots == [ready : BOOLEAN, client : BOOLEAN, src : {"zero", "probe", "401"}]
Usable(s) == s.ready /\ s.client

Outcomes == {"ok", "401", "down"}
\* A dependent inside InvalidateOn401 with the gate raised by itself.
Invalidating == {"load", "unready", "place", "send"}
DepPCs  == {"idle", "call", "check", "cas"} \cup Invalidating
ConnPCs == {"idle", "probe", "store", "gate", "edge", "emit"}

TypeOK ==
  /\ snapshot \in Snapshots
  /\ invalidated \in BOOLEAN /\ lastReady \in BOOLEAN /\ closed \in BOOLEAN
  /\ ch \in BOOLEAN /\ chClosed \in BOOLEAN
  /\ sub \in [Dependents -> BOOLEAN] /\ subsClosed \in BOOLEAN
  /\ cq \in BOOLEAN /\ timer \in BOOLEAN
  /\ cpc \in ConnPCs
  /\ out \in Outcomes
  /\ toEmit \subseteq Dependents
  /\ dq \in [Dependents -> BOOLEAN]
  /\ dpc \in [Dependents -> DepPCs]
  /\ cur \in [Dependents -> BOOLEAN]
  /\ status \in [Dependents -> {"Unknown", "Synced", "LiteLLMUnavailable"}]
  /\ upstream \in Outcomes
  /\ flaps \in 0 .. MaxFlaps

\* The process starts: an empty cache, everything queued by the initial list.
Init ==
  /\ snapshot = [ready |-> FALSE, client |-> FALSE, src |-> "zero"]
  /\ invalidated = FALSE /\ lastReady = FALSE /\ closed = FALSE
  /\ ch = FALSE /\ chClosed = FALSE
  /\ sub = [d \in Dependents |-> FALSE] /\ subsClosed = FALSE
  /\ cq = TRUE /\ timer = FALSE
  /\ cpc = "idle"
  /\ out = "ok"
  /\ toEmit = {}
  /\ dq = [d \in Dependents |-> TRUE]
  /\ dpc = [d \in Dependents |-> "idle"]
  /\ cur = [d \in Dependents |-> FALSE]
  /\ status = [d \in Dependents |-> "Unknown"]
  /\ upstream = "ok"
  /\ flaps = 0

-----------------------------------------------------------------------------
(* InvalidateOn401, one step per atomic operation.                         *)

\* The call is over: the dependent's reconcile writes LiteLLMUnavailable and
\* returns nil, so nothing but an event brings the resource back.
Park(d) == /\ dpc' = [dpc EXCEPT ![d] = "idle"]
           /\ status' = [status EXCEPT ![d] = "LiteLLMUnavailable"]

\* if c.closed.Load() { return }
CheckClosed(d) ==
  /\ dpc[d] = "check"
  /\ IF closed THEN Park(d)
               ELSE dpc' = [dpc EXCEPT ![d] = "cas"] /\ UNCHANGED status
  /\ UNCHANGED <<cacheVars, connVars, dq, cur, envVars>>

\* c.invalidated.CompareAndSwap(false, true)
RaiseGate(d) ==
  /\ dpc[d] = "cas"
  /\ IF invalidated
       THEN Park(d) /\ UNCHANGED invalidated
       ELSE /\ invalidated' = TRUE
            /\ dpc' = [dpc EXCEPT ![d] = "load"]
            /\ UNCHANGED status
  /\ UNCHANGED <<snapshot, lastReady, closed, ch, chClosed, sub, subsClosed,
                 connVars, dq, cur, envVars>>

\* cur := c.snapshot.Load()
LoadCur(d) ==
  /\ dpc[d] = "load"
  /\ cur' = [cur EXCEPT ![d] = snapshot.client]
  /\ dpc' = [dpc EXCEPT ![d] = "unready"]
  /\ UNCHANGED <<cacheVars, connVars, dq, status, envVars>>

\* c.lastReady.Store(false)
Unready(d) ==
  /\ dpc[d] = "unready"
  /\ lastReady' = FALSE
  /\ dpc' = [dpc EXCEPT ![d] = "place"]
  /\ UNCHANGED <<snapshot, invalidated, closed, ch, chClosed, sub, subsClosed,
                 connVars, dq, cur, status, envVars>>

\* c.snapshot.Store(&placeholder), the client preserved.
Place(d) ==
  /\ dpc[d] = "place"
  /\ snapshot' = [ready |-> FALSE, client |-> cur[d], src |-> "401"]
  /\ cur' = [cur EXCEPT ![d] = FALSE]
  /\ dpc' = [dpc EXCEPT ![d] = "send"]
  /\ UNCHANGED <<invalidated, lastReady, closed, ch, chClosed, sub, subsClosed,
                 connVars, dq, status, envVars>>

\* Wrong variant of Send: gives up when the worker has not taken its turn.
SendIfIdle(d) ==
  /\ dpc[d] = "send"
  /\ ch' = (ch \/ (~chClosed /\ cpc = "idle"))
  /\ Park(d)
  /\ UNCHANGED <<snapshot, invalidated, lastReady, closed, chClosed, sub, subsClosed,
                 connVars, dq, cur, envVars>>

\* The non-blocking send: a full buffer keeps its event, and the panic of a
\* send on the closed channel is recovered.
Send(d) ==
  /\ dpc[d] = "send"
  /\ ch' = (ch \/ ~chClosed)
  /\ Park(d)
  /\ UNCHANGED <<snapshot, invalidated, lastReady, closed, chClosed, sub, subsClosed,
                 connVars, dq, cur, envVars>>

InvalidateOn401(d) == \/ CheckClosed(d) \/ RaiseGate(d) \/ LoadCur(d)
                      \/ Unready(d) \/ Place(d) \/ Send(d)

-----------------------------------------------------------------------------
(* The connection worker: probe, then Rebuild, one step per operation.     *)

\* The worker takes the connection off its queue.
StartProbe ==
  /\ cpc = "idle" /\ cq
  /\ cq' = FALSE
  /\ cpc' = "probe"
  /\ UNCHANGED <<cacheVars, timer, out, toEmit, depVars, envVars>>

\* LiteLLM answers the probe.
Probe ==
  /\ cpc = "probe"
  /\ out' = upstream
  /\ cpc' = "store"
  /\ UNCHANGED <<cacheVars, cq, timer, toEmit, depVars, envVars>>

\* c.snapshot.Store(&snap)
RebuildStore ==
  /\ cpc = "store"
  /\ snapshot' = [ready |-> out = "ok", client |-> out = "ok", src |-> "probe"]
  /\ cpc' = "gate"
  /\ UNCHANGED <<invalidated, lastReady, closed, ch, chClosed, sub, subsClosed,
                 cq, timer, out, toEmit, depVars, envVars>>

\* Wrong variant of RebuildGate: only a successful probe resets the gate.
RebuildGateOnSuccess ==
  /\ cpc = "gate"
  /\ invalidated' = (invalidated /\ out # "ok")
  /\ cpc' = "edge"
  /\ UNCHANGED <<snapshot, lastReady, closed, ch, chClosed, sub, subsClosed,
                 cq, timer, out, toEmit, depVars, envVars>>

\* c.invalidated.Store(false)
RebuildGate ==
  /\ cpc = "gate"
  /\ invalidated' = FALSE
  /\ cpc' = "edge"
  /\ UNCHANGED <<snapshot, lastReady, closed, ch, chClosed, sub, subsClosed,
                 cq, timer, out, toEmit, depVars, envVars>>

\* lastReady.Swap(true), or Store(false); emitRebuilt's own check of closed
\* and its copy of the subscriber list.
RebuildEdge ==
  /\ cpc = "edge"
  /\ lastReady' = (out = "ok")
  /\ toEmit' = IF out = "ok" /\ ~lastReady /\ ~closed THEN Dependents ELSE {}
  /\ cpc' = "emit"
  /\ UNCHANGED <<snapshot, invalidated, closed, ch, chClosed, sub, subsClosed,
                 cq, timer, out, depVars, envVars>>

\* One turn of the fan-out loop; a closed channel ends the loop (recover).
Emit(d) ==
  /\ cpc = "emit" /\ d \in toEmit
  /\ sub' = [sub EXCEPT ![d] = @ \/ ~subsClosed]
  /\ toEmit' = IF subsClosed THEN {} ELSE toEmit \ {d}
  /\ UNCHANGED <<snapshot, invalidated, lastReady, closed, ch, chClosed, subsClosed,
                 cq, timer, cpc, out, depVars, envVars>>

\* Wrong variant of EndProbe: a transient failure is not returned as an error.
EndProbeNoBackoff ==
  /\ cpc = "emit" /\ toEmit = {}
  /\ timer' = (out = "ok")
  /\ out' = "ok"
  /\ cpc' = "idle"
  /\ UNCHANGED <<cacheVars, cq, toEmit, depVars, envVars>>

\* Reconcile returns: an error after a transient failure (backoff requeue),
\* RequeueAfter after a success, nothing after a 401.
EndProbe ==
  /\ cpc = "emit" /\ toEmit = {}
  /\ cq' = (cq \/ out = "down")
  /\ timer' = (out = "ok")
  /\ out' = "ok"
  /\ cpc' = "idle"
  /\ UNCHANGED <<cacheVars, toEmit, depVars, envVars>>

Rebuild == RebuildStore \/ RebuildGate \/ RebuildEdge \/ \E d \in Dependents : Emit(d)

\* Wrong variant of Deliver: the event is dropped while a reconcile runs.
DeliverIfIdle ==
  /\ ch
  /\ ch' = FALSE
  /\ cq' = (cq \/ cpc = "idle")
  /\ UNCHANGED <<snapshot, invalidated, lastReady, closed, chClosed, sub, subsClosed,
                 timer, cpc, out, toEmit, depVars, envVars>>

\* source.Channel's goroutine moves the 401 event to the work queue.
Deliver ==
  /\ ch
  /\ ch' = FALSE
  /\ cq' = TRUE
  /\ UNCHANGED <<snapshot, invalidated, lastReady, closed, chClosed, sub, subsClosed,
                 timer, cpc, out, toEmit, depVars, envVars>>

\* The five-minute requeue of a successful probe.
PeriodicProbe ==
  /\ timer /\ cpc = "idle"
  /\ timer' = FALSE
  /\ cq' = TRUE
  /\ UNCHANGED <<cacheVars, cpc, out, toEmit, depVars, envVars>>

-----------------------------------------------------------------------------
(* The dependent reconcilers.                                              *)

\* A reconcile begins by reading the snapshot; without a usable one it writes
\* LiteLLMUnavailable and returns nil.
ReadSnapshot(d) ==
  /\ dpc[d] = "idle" /\ dq[d]
  /\ dq' = [dq EXCEPT ![d] = FALSE]
  /\ IF Usable(snapshot)
       THEN dpc' = [dpc EXCEPT ![d] = "call"] /\ UNCHANGED status
       ELSE Park(d)
  /\ UNCHANGED <<cacheVars, connVars, cur, envVars>>

\* Its LiteLLM calls: success, 401, or a transient error that is retried.
Call(d) ==
  /\ dpc[d] = "call"
  /\ \/ /\ upstream = "ok"
        /\ status' = [status EXCEPT ![d] = "Synced"]
        /\ dpc' = [dpc EXCEPT ![d] = "idle"]
        /\ UNCHANGED dq
     \/ /\ upstream = "401"
        /\ dpc' = [dpc EXCEPT ![d] = "check"]
        /\ UNCHANGED <<dq, status>>
     \/ /\ upstream = "down"
        /\ dq' = [dq EXCEPT ![d] = TRUE]
        /\ dpc' = [dpc EXCEPT ![d] = "idle"]
        /\ UNCHANGED status
  /\ UNCHANGED <<cacheVars, connVars, cur, envVars>>

\* ConnectionRebuiltSource's goroutine: one event, the resource is queued.
Rebuilt(d) ==
  /\ sub[d]
  /\ sub' = [sub EXCEPT ![d] = FALSE]
  /\ dq' = [dq EXCEPT ![d] = TRUE]
  /\ UNCHANGED <<snapshot, invalidated, lastReady, closed, ch, chClosed, subsClosed,
                 connVars, dpc, cur, status, envVars>>

\* Wrong variant of Relist: resources that are not Ready are passed over.
RelistReadyOnly(d) ==
  /\ ~closed /\ status[d] = "Synced"
  /\ dq' = [dq EXCEPT ![d] = TRUE]
  /\ UNCHANGED <<cacheVars, connVars, dpc, cur, status, envVars>>

\* The kind's SafetyRelistRunnable ticks.
Relist(d) ==
  /\ ~closed
  /\ dq' = [dq EXCEPT ![d] = TRUE]
  /\ UNCHANGED <<cacheVars, connVars, dpc, cur, status, envVars>>

-----------------------------------------------------------------------------
(* Shutdown (Cache.Start after its context ended) and LiteLLM.             *)

StopFlag ==
  /\ ~closed
  /\ closed' = TRUE
  /\ UNCHANGED <<snapshot, invalidated, lastReady, ch, chClosed, sub, subsClosed,
                 connVars, depVars, envVars>>

StopCh ==
  /\ closed /\ ~chClosed
  /\ chClosed' = TRUE
  /\ UNCHANGED <<snapshot, invalidated, lastReady, closed, ch, sub, subsClosed,
                 connVars, depVars, envVars>>

StopSubs ==
  /\ chClosed /\ ~subsClosed
  /\ subsClosed' = TRUE
  /\ UNCHANGED <<snapshot, invalidated, lastReady, closed, ch, chClosed, sub,
                 connVars, depVars, envVars>>

\* LiteLLM starts refusing the key, or goes down, by itself; it comes back up
\* by itself; a refused key is repaired through the Secret, whose watch
\* queues the connection.
Flap ==
  /\ flaps < MaxFlaps
  /\ flaps' = flaps + 1
  /\ \/ /\ upstream = "ok" /\ upstream' \in {"401", "down"}
        /\ UNCHANGED cq
     \/ /\ upstream = "down" /\ upstream' = "ok"
        /\ UNCHANGED cq
     \/ /\ upstream = "401" /\ upstream' = "ok"
        /\ cq' = TRUE
  /\ UNCHANGED <<cacheVars, timer, cpc, out, toEmit, depVars>>

ConnectionStep == StartProbe \/ Probe \/ Rebuild \/ EndProbe
DependentStep(d) == ReadSnapshot(d) \/ Call(d) \/ InvalidateOn401(d)

Next ==
  \/ ConnectionStep
  \/ Deliver
  \/ PeriodicProbe
  \/ \E d \in Dependents : DependentStep(d) \/ Rebuilt(d) \/ Relist(d)
  \/ StopFlag \/ StopCh \/ StopSubs
  \/ Flap

\* Workers that have work go on, the channel goroutines drain their channels,
\* the RequeueAfter and the relist ticker fire.  Shutdown and LiteLLM's
\* changes of mind are not forced.
Fairness ==
  /\ WF_vars(ConnectionStep)
  /\ WF_vars(Deliver)
  /\ WF_vars(PeriodicProbe)
  /\ \A d \in Dependents : /\ WF_vars(DependentStep(d))
                           /\ WF_vars(Rebuilt(d))
                           /\ WF_vars(Relist(d))

Spec == Init /\ [][Next]_vars
FairSpec == Spec /\ Fairness

-----------------------------------------------------------------------------
(* Properties.                                                             *)

\* A probe is on its way: its event, its queue entry, or the probe itself.
ReprobeComing == ch \/ cq \/ cpc \in {"probe", "store"}

\* No 401 is lost: while the snapshot is a placeholder, the re-probe that will
\* replace it is coming, or the goroutine that placed it is about to ask.
NoLostReprobe ==
  snapshot.src = "401" /\ ~closed => ReprobeComing \/ \E d \in Dependents : dpc[d] = "send"

\* The storm gate is never left raised for good: a raised gate has a probe
\* coming that resets it, or a goroutine that is going to ask for one.
NoStuckGate ==
  invalidated /\ ~closed =>
    ReprobeComing \/ cpc = "gate" \/ \E d \in Dependents : dpc[d] \in Invalidating

\* The inductive form of the two.
CacheInv == /\ TypeOK
            /\ chClosed => closed
            /\ NoLostReprobe
            /\ NoStuckGate

\* Nobody is inside the cache and no re-probe is on its way.
AtRest == /\ cpc = "idle" /\ ~ch /\ ~cq
          /\ \A d \in Dependents : dpc[d] = "idle"

\* What the comments on lastReady and emitRebuilt promise: a resource parked on
\* an unusable snapshot is woken when the snapshot is Ready again, without
\* waiting for the safety relist.
ParkedIsWoken ==
  AtRest /\ ~closed /\ Usable(snapshot) =>
    \A d \in Dependents : status[d] = "LiteLLMUnavailable" => dq[d] \/ sub[d]

\* If LiteLLM ends up answering, the snapshot ends up Ready.
ConnectionRecovers == <>[](upstream = "ok") => <>[](closed \/ Usable(snapshot))

\* If LiteLLM ends up answering, every dependent resource ends up Synced.
DependentsRecover ==
  <>[](upstream = "ok") => <>[](closed \/ \A d \in Dependents : status[d] = "Synced")
=============================================================================
