----------------------------- MODULE Connection -----------------------------
(***************************************************************************)
(* The LiteLLMConnection state machine of                                  *)
(* internal/controller/litellmconnection_controller.go (Reconcile) and what *)
(* hangs on it: the snapshot it publishes, here with atomic Rebuild and     *)
(* InvalidateOn401 (module ConnectionCache takes those apart), and the      *)
(* resources that use the snapshot to apply themselves to LiteLLM or, when *)
(* deleted, to remove themselves from it before their finalizer goes.       *)
(*                                                                         *)
(* A connection is described by the endpoint it names; its Secret, and what *)
(* each endpoint answers, are the environment's.  Reconcile reads the      *)
(* manager's informer copy, which may lag behind any write, its own too.   *)
(* Status writes are merge patches: only what changed in the worker's copy *)
(* reaches the API server, and the answer replaces that copy.              *)
(***************************************************************************)
EXTENDS Integers, FiniteSets

INSTANCE DeletionPolicy

CONSTANTS Dependents,    \* resources that use the connection
          Endpoints,     \* LiteLLM instances a spec may name
          Invalid,       \* endpoints ValidateEndpoint refuses
          Insecure,      \* plain http to a remote host
          RequireHTTPS,  \* LITELLM_OPERATOR_REQUIRE_HTTPS_REMOTE
          Answers,       \* what an endpoint may answer
          NoEndpoint,
          MaxEvents,     \* bound: changes made from outside
          MaxUpsets      \* bound: failed API calls and operator restarts

ASSUME ConnectionAssumption ==
  /\ Invalid \subseteq Endpoints /\ Insecure \subseteq Endpoints
  /\ NoEndpoint \notin Endpoints
  /\ RequireHTTPS \in BOOLEAN
  /\ Answers \subseteq {"ok", "401", "down"} /\ "ok" \in Answers
  /\ MaxEvents \in Nat /\ MaxUpsets \in Nat

VARIABLES
  cr,        \* the LiteLLMConnection in the API server
  seen,      \* the informer's copy of it
  lag,       \* that copy is not the newest version
  wk,        \* the worker's copy of it
  cpc,       \* where Reconcile is
  missed,    \* ghost: the pass's copy was older than the last status write
  out,       \* the reason this reconcile arrived at
  cq, timer, \* queue entry, RequeueAfter of a successful probe
  snapshot, gate, lastReady,   \* the cache
  muddled,   \* ghost: the snapshot comes from such a pass
  dep,       \* each dependent: phase and Ready reason
  pol,       \* its effective deletion policy, once it is deleted
  dpc,       \* where its reconcile is
  held,      \* the client its reconcile took from the snapshot
  row,       \* endpoints that hold its LiteLLM entry (external)
  secret,    \* whether the Secret is there, with the master key in it
  answer,    \* what each endpoint answers (external)
  events, fails, crashes

connVars  == <<cr, seen, lag, wk, cpc, missed, out, cq, timer>>
cacheVars == <<snapshot, gate, lastReady, muddled>>
depVars   == <<dep, pol, dpc, held, row>>
envVars   == <<secret, answer, events, fails, crashes>>
vars == <<cr, seen, lag, wk, cpc, missed, out, cq, timer, snapshot, gate, lastReady, muddled,
          dep, pol, dpc, held, row, secret, answer, events, fails, crashes>>

Failures == {"SecretNotFound", "InvalidEndpoint", "InsecureEndpoint",
             "BadMasterKey", "Unreachable"}
Reasons == Failures \cup {"none", "Connecting", "Synced"}

\* obs is status.observedGeneration.
CRs == [phase : {"gone", "live", "deleting"}, fin : BOOLEAN, gen : 0 .. MaxEvents + 1,
        ep : Endpoints \cup {NoEndpoint}, reason : Reasons, obs : 0 .. MaxEvents + 1]
Snapshots == [ready : BOOLEAN, reason : Reasons \cup {"Absent"},
              client : Endpoints \cup {NoEndpoint}]
Deps == [phase : {"live", "deleting", "drained"},
         reason : {"none", "Synced", "LiteLLMUnavailable"}]

TypeOK ==
  /\ cr \in CRs /\ seen \in CRs /\ wk \in CRs
  /\ lag \in BOOLEAN
  /\ cpc \in {"idle", "fetched", "drop", "shield", "secret", "probe", "write", "publish"}
  /\ out \in Reasons
  /\ cq \in BOOLEAN /\ timer \in BOOLEAN
  /\ snapshot \in Snapshots /\ gate \in BOOLEAN /\ lastReady \in BOOLEAN
  /\ missed \in BOOLEAN /\ muddled \in BOOLEAN
  /\ dep \in [Dependents -> Deps]
  /\ pol \in [Dependents -> Policies]
  /\ dpc \in [Dependents -> {"idle", "apply", "delete"}]
  /\ held \in [Dependents -> Endpoints \cup {NoEndpoint}]
  /\ row \in [Dependents -> SUBSET Endpoints]
  /\ secret \in BOOLEAN
  /\ answer \in [Endpoints -> Answers]
  /\ events \in 0 .. MaxEvents /\ fails \in 0 .. MaxUpsets /\ crashes \in 0 .. MaxUpsets

ZeroSnapshot == [ready |-> FALSE, reason |-> "none", client |-> NoEndpoint]
Usable(s) == s.ready /\ s.client # NoEndpoint

NewCR(e) == [phase |-> "live", fin |-> FALSE, gen |-> 1, ep |-> e, reason |-> "none", obs |-> 0]

\* The worker's copy between two reconciles.
NoObject == [phase |-> "gone", fin |-> FALSE, gen |-> 0, ep |-> NoEndpoint,
             reason |-> "none", obs |-> 0]

\* Endpoints that are refused before they are called.
Refused == Invalid \cup (IF RequireHTTPS THEN Insecure ELSE {})

\* The process starts beside a connection and its resources, none reconciled.
Init ==
  /\ \E e \in Endpoints \ Refused : cr = NewCR(e)
  /\ seen = cr /\ lag = FALSE /\ wk = NoObject
  /\ cpc = "idle" /\ missed = FALSE /\ out = "none"
  /\ cq = TRUE /\ timer = FALSE
  /\ snapshot = ZeroSnapshot /\ gate = FALSE /\ lastReady = FALSE /\ muddled = FALSE
  /\ dep = [d \in Dependents |-> [phase |-> "live", reason |-> "none"]]
  /\ pol = [d \in Dependents |-> "Delete"]
  /\ dpc = [d \in Dependents |-> "idle"]
  /\ held = [d \in Dependents |-> NoEndpoint]
  /\ row = [d \in Dependents |-> {}]
  /\ secret = TRUE
  /\ answer = [e \in Endpoints |-> "ok"]
  /\ events = 0 /\ fails = 0 /\ crashes = 0

-----------------------------------------------------------------------------
(* The cache's two writers, as ConnectionCache shows them from outside.     *)

\* Who wakes up for a Ready snapshot is ConnectionCache's; here a dependent may
\* reconcile at any time.
Rebuild(s) ==
  /\ snapshot' = s
  /\ gate' = FALSE
  /\ lastReady' = s.ready
  /\ muddled' = missed

\* Wrong variant of InvalidateOn401: nobody is told to probe.
InvalidateQuietly ==
  IF gate THEN UNCHANGED <<cacheVars, cq>>
  ELSE /\ gate' = TRUE
       /\ lastReady' = FALSE
       /\ snapshot' = [ready |-> FALSE, reason |-> "BadMasterKey", client |-> snapshot.client]
       /\ UNCHANGED muddled
       /\ UNCHANGED cq

\* Behind the storm gate: keep the client, ask for a probe.
InvalidateOn401 ==
  IF gate THEN UNCHANGED <<cacheVars, cq>>
  ELSE /\ gate' = TRUE
       /\ lastReady' = FALSE
       /\ snapshot' = [ready |-> FALSE, reason |-> "BadMasterKey", client |-> snapshot.client]
       /\ UNCHANGED muddled
       /\ cq' = TRUE

-----------------------------------------------------------------------------
(* Reconcile, a step for every call that leaves the process.               *)

\* A failed API call: counted, and an error return puts the request back.
Fail == fails + crashes < MaxUpsets /\ fails' = fails + 1
NoFail == UNCHANGED fails
GoTo(pc) == cpc' = pc
Return == GoTo("idle") /\ wk' = NoObject /\ missed' = FALSE

\* A write that changes the object leaves the informer's copy behind.
Store(c) == /\ cr' = c
            /\ lag' = (lag \/ c # cr)

\* The informer catches up; its event, which no predicate filters, queues the
\* connection.
Sync ==
  /\ lag
  /\ seen' = cr /\ lag' = FALSE
  /\ cq' = TRUE
  /\ UNCHANGED <<cr, wk, cpc, missed, out, timer, cacheVars, depVars, envVars>>

\* Step 1: fetch, from the copy. Without an object there is nothing to do.
Fetch ==
  /\ cpc = "idle" /\ cq
  /\ cq' = FALSE
  /\ IF seen.phase = "gone"
       THEN UNCHANGED <<cpc, missed, wk>>
       ELSE /\ wk' = seen
            /\ missed' = (seen.reason # cr.reason \/ seen.obs # cr.obs)
            /\ GoTo("fetched")
  /\ UNCHANGED <<cr, seen, lag, out, timer, cacheVars, depVars, envVars>>

\* Step 2a: deletion invalidates the cache first.
Absent ==
  /\ cpc = "fetched" /\ wk.phase = "deleting"
  /\ IF wk.fin THEN Rebuild([ZeroSnapshot EXCEPT !.reason = "Absent"]) /\ GoTo("drop")
                    /\ UNCHANGED <<wk, missed>>
               ELSE Return /\ UNCHANGED cacheVars
  /\ UNCHANGED <<cr, seen, lag, out, cq, timer, dep, pol, dpc, held, row, envVars>>

\* An Update carries the resourceVersion: it fails on an object that moved, and
\* on one that was not fetched in its newest version.
Unmoved == ~lag /\ cr = wk

\* ... and then drops the finalizer: the object is gone.
DropFinalizer ==
  /\ cpc = "drop"
  /\ Return
  /\ \/ /\ Unmoved /\ NoFail
        /\ Store([cr EXCEPT !.phase = "gone", !.fin = FALSE])
        /\ timer' = FALSE /\ UNCHANGED cq
     \/ /\ ~Unmoved /\ NoFail
        /\ cq' = TRUE /\ UNCHANGED <<cr, lag, timer>>
     \/ /\ Fail
        /\ cq' = TRUE /\ UNCHANGED <<cr, lag, timer>>
  /\ UNCHANGED <<seen, out, cacheVars, depVars, secret, answer, events, crashes>>

\* Step 2b: the first reconcile only adds the finalizer; the update's own
\* event brings the next one.
AddFinalizer ==
  /\ cpc = "fetched" /\ wk.phase = "live" /\ ~wk.fin
  /\ Return
  /\ \/ Unmoved /\ NoFail /\ Store([cr EXCEPT !.fin = TRUE]) /\ UNCHANGED cq
     \/ ~Unmoved /\ NoFail /\ cq' = TRUE /\ UNCHANGED <<cr, lag>>
     \/ Fail /\ cq' = TRUE /\ UNCHANGED <<cr, lag>>
  /\ UNCHANGED <<seen, out, timer, cacheVars, depVars, secret, answer, events, crashes>>

\* The status the worker's copy is given: a reason, at its own generation.
Described(reason) == [wk EXCEPT !.reason = reason, !.obs = wk.gen]

\* The merge patch of the status from the worker's copy to copy new: what did
\* not change in memory is not sent.
Patched(new) ==
  IF cr.phase = "gone" THEN cr
  ELSE [cr EXCEPT !.reason = IF <<new.reason, new.obs>> # <<wk.reason, wk.obs>>
                               THEN new.reason ELSE @,
                  !.obs = IF new.obs # wk.obs THEN new.obs ELSE @]

\* writeStatus and writeReadyAndLoggingHealthy: skipped when nothing changes;
\* an error is only logged.
WriteStatus(new) ==
  \/ NoFail /\ Store(Patched(new))
  \/ Fail /\ UNCHANGED <<cr, lag>>

\* Step 3's outer guard: no condition yet, or a new generation.
NewGeneration == wk.reason = "none" \/ wk.obs # wk.gen

\* The Connecting patch; its answer, when there is one, is what the worker
\* goes on with: a newer spec, or a deletion it does not look at any more.
WriteConnecting ==
  /\ WriteStatus(Described("Connecting"))
  /\ wk' = IF fails' = fails /\ cr.phase # "gone" THEN cr' ELSE Described("Connecting")

\* Wrong variant of ConnectingOnEntry: the status alone says Connecting.
ConnectingInStatusOnly ==
  /\ cpc = "fetched" /\ wk.phase = "live" /\ wk.fin
  /\ IF NewGeneration /\ wk.reason # "Connecting"
       THEN WriteConnecting
       ELSE UNCHANGED <<cr, lag, wk, fails>>
  /\ GoTo("secret")
  /\ UNCHANGED <<seen, missed, out, cq, timer, cacheVars, depVars, secret, answer, events, crashes>>

\* Step 3: on a new generation, say Connecting first, unless the status
\* already does.
ConnectingOnEntry ==
  /\ cpc = "fetched" /\ wk.phase = "live" /\ wk.fin
  /\ IF NewGeneration /\ wk.reason # "Connecting"
       THEN WriteConnecting /\ GoTo("shield")
       ELSE GoTo("secret") /\ UNCHANGED <<cr, lag, wk, fails>>
  /\ UNCHANGED <<seen, missed, out, cq, timer, cacheVars, depVars, secret, answer, events, crashes>>

\* ... and take the old client away from the dependents.
Shield ==
  /\ cpc = "shield"
  /\ Rebuild([ZeroSnapshot EXCEPT !.reason = "Connecting"])
  /\ GoTo("secret")
  /\ UNCHANGED <<cr, seen, lag, wk, missed, out, cq, timer, dep, pol, dpc, held, row, envVars>>

\* Step 4: the Secret and its key; another error is returned for backoff.
ResolveSecret ==
  /\ cpc = "secret"
  /\ \/ /\ NoFail
        /\ IF secret THEN GoTo("probe") /\ UNCHANGED out
                             ELSE out' = "SecretNotFound" /\ GoTo("write")
        /\ UNCHANGED <<wk, missed, cq>>
     \/ Fail /\ cq' = TRUE /\ Return /\ UNCHANGED out
  /\ UNCHANGED <<cr, seen, lag, timer, cacheVars, depVars, secret, answer, events, crashes>>

\* Steps 4b to 6: wire-level validation of the endpoint, then a fresh client,
\* the probe and its classification.
Probe ==
  /\ cpc = "probe"
  /\ out' = CASE wk.ep \in Invalid                  -> "InvalidEndpoint"
              [] wk.ep \in Insecure \ Invalid /\ RequireHTTPS -> "InsecureEndpoint"
              [] OTHER -> CASE answer[wk.ep] = "ok"   -> "Synced"
                            [] answer[wk.ep] = "401"  -> "BadMasterKey"
                            [] answer[wk.ep] = "down" -> "Unreachable"
  /\ GoTo("write")
  /\ UNCHANGED <<cr, seen, lag, wk, missed, cq, timer, cacheVars, depVars, envVars>>

\* The terminal status.  The client is built already: of the answer only
\* settings that play no part here are used.
WriteOutcome ==
  /\ cpc = "write"
  /\ WriteStatus(Described(out)) /\ wk' = Described(out)
  /\ GoTo("publish")
  /\ UNCHANGED <<seen, missed, out, cq, timer, cacheVars, depVars, secret, answer, events, crashes>>

\* Wrong variant of Publish: an unreachable LiteLLM is not retried.
PublishNoBackoff ==
  /\ cpc = "publish"
  /\ Rebuild([ready |-> out = "Synced", reason |-> out,
              client |-> IF out = "Synced" THEN wk.ep ELSE NoEndpoint])
  /\ timer' = (timer \/ out = "Synced")
  /\ out' = "none"
  /\ Return
  /\ UNCHANGED <<cr, seen, lag, cq, dep, pol, dpc, held, row, envVars>>

\* The terminal Rebuild, and the return: backoff after Unreachable, five
\* minutes after a success, nothing after what a user must repair.
Publish ==
  /\ cpc = "publish"
  /\ Rebuild([ready |-> out = "Synced", reason |-> out,
              client |-> IF out = "Synced" THEN wk.ep ELSE NoEndpoint])
  /\ cq' = (cq \/ out = "Unreachable")
  /\ timer' = (timer \/ out = "Synced")
  /\ out' = "none"
  /\ Return
  /\ UNCHANGED <<cr, seen, lag, dep, pol, dpc, held, row, envVars>>

Reconcile == \/ Fetch \/ Absent \/ DropFinalizer \/ AddFinalizer
             \/ ConnectingOnEntry \/ Shield \/ ResolveSecret \/ Probe
             \/ WriteOutcome \/ Publish

PeriodicProbe ==
  /\ timer /\ cpc = "idle"
  /\ timer' = FALSE /\ cq' = TRUE
  /\ UNCHANGED <<cr, seen, lag, wk, cpc, missed, out, cacheVars, depVars, envVars>>

-----------------------------------------------------------------------------
(* The dependents: read the snapshot, then call LiteLLM.                   *)

\* The resource leaves; its LiteLLM entry may not have.
Drain(d) == dep' = [dep EXCEPT ![d] = [phase |-> "drained", reason |-> "none"]]

\* A reconcile starts: for an event, a retry or the kind's safety relist, so at
\* any time.  Without a usable snapshot a live resource writes
\* LiteLLMUnavailable; a deleted one asks its policy whether it may go without
\* LiteLLM's word.
DepRead(d) ==
  /\ dpc[d] = "idle" /\ dep[d].phase # "drained"
  /\ IF Usable(snapshot)
       THEN /\ held' = [held EXCEPT ![d] = snapshot.client]
            /\ dpc' = [dpc EXCEPT ![d] = IF dep[d].phase = "live" THEN "apply" ELSE "delete"]
            /\ UNCHANGED dep
       ELSE /\ IF dep[d].phase = "live"
                 THEN dep' = [dep EXCEPT ![d].reason = "LiteLLMUnavailable"]
                 ELSE IF MayDrain(pol[d], AckUnavailable(snapshot.reason)) THEN Drain(d)
                 ELSE UNCHANGED dep
            /\ UNCHANGED <<held, dpc>>
  /\ UNCHANGED <<connVars, cacheVars, pol, row, envVars>>

\* Done with the client.
Release(d) == /\ held' = [held EXCEPT ![d] = NoEndpoint]
              /\ dpc' = [dpc EXCEPT ![d] = "idle"]

\* Create or update: success, the 401 fast path, or backoff.
DepApply(d) ==
  /\ dpc[d] = "apply"
  /\ Release(d)
  /\ \/ /\ answer[held[d]] = "ok"
        /\ row' = [row EXCEPT ![d] = @ \cup {held[d]}]
        /\ dep' = [dep EXCEPT ![d].reason = "Synced"]
        /\ UNCHANGED <<cacheVars, cq>>
     \/ /\ answer[held[d]] = "401"
        /\ InvalidateOn401
        /\ dep' = [dep EXCEPT ![d].reason = "LiteLLMUnavailable"]
        /\ UNCHANGED row
     \/ /\ answer[held[d]] = "down"
        /\ UNCHANGED <<cacheVars, cq, row, dep>>
  /\ UNCHANGED <<cr, seen, lag, wk, cpc, missed, out, timer, pol, envVars>>

\* Delete: an answer drains; a 401, which does not invalidate, and a
\* transient error are retried with backoff.
DepDelete(d) ==
  /\ dpc[d] = "delete"
  /\ Release(d)
  /\ \/ /\ answer[held[d]] = "ok"
        /\ row' = [row EXCEPT ![d] = @ \ {held[d]}]
        /\ Drain(d)
     \/ /\ answer[held[d]] # "ok"
        /\ IF MayDrain(pol[d], FALSE) THEN Drain(d) ELSE UNCHANGED dep
        /\ UNCHANGED row
  /\ UNCHANGED <<connVars, cacheVars, pol, envVars>>

DepStep(d) == DepRead(d) \/ DepApply(d) \/ DepDelete(d)

-----------------------------------------------------------------------------
(* The world outside: users, the Secret, LiteLLM, the process.             *)

Event == events < MaxEvents /\ events' = events + 1

\* A user points the connection elsewhere.
EditSpec ==
  /\ Event
  /\ cr.phase # "gone"
  /\ \E e \in Endpoints \ {cr.ep} : Store([cr EXCEPT !.ep = e, !.gen = @ + 1])
  /\ UNCHANGED <<seen, cq, wk, cpc, missed, out, timer, cacheVars, depVars, secret, answer, fails, crashes>>

DeleteConnection ==
  /\ Event
  /\ cr.phase = "live"
  /\ Store([cr EXCEPT !.phase = IF cr.fin THEN "deleting" ELSE "gone"])
  /\ UNCHANGED <<seen, cq, wk, cpc, missed, out, timer, cacheVars, depVars, secret, answer, fails, crashes>>

RecreateConnection ==
  /\ Event
  /\ cr.phase = "gone"
  /\ \E e \in Endpoints : Store(NewCR(e))
  /\ UNCHANGED <<seen, cq, wk, cpc, missed, out, timer, cacheVars, depVars, secret, answer, fails, crashes>>

\* A user deletes a resource; its policy matters from then on.
DeleteDependent(d) ==
  /\ Event
  /\ dep[d].phase = "live"
  /\ dep' = [dep EXCEPT ![d].phase = "deleting"]
  /\ \E p \in Policies : pol' = [pol EXCEPT ![d] = p]
  /\ UNCHANGED <<connVars, cacheVars, dpc, held, row, secret, answer, fails, crashes>>

\* The Secret comes, goes or loses its key: secretToConnection.
ChangeSecret ==
  /\ Event
  /\ secret' = ~secret
  /\ cq' = (cq \/ seen.phase # "gone")
  /\ UNCHANGED <<cr, seen, lag, wk, cpc, missed, out, timer, cacheVars, depVars, answer, fails, crashes>>

\* LiteLLM changes its answer; a refused key is repaired through the Secret.
Flap ==
  /\ Event
  /\ \E e \in Endpoints \ Refused, a \in Answers :
       /\ a # answer[e]
       /\ answer' = [answer EXCEPT ![e] = a]
       /\ cq' = (cq \/ (answer[e] = "401" /\ seen.phase # "gone"))
  /\ UNCHANGED <<cr, seen, lag, wk, cpc, missed, out, timer, cacheVars, depVars, secret, fails, crashes>>

\* The operator dies and restarts: an empty cache, everything listed again.
Crash ==
  /\ fails + crashes < MaxUpsets
  /\ crashes' = crashes + 1
  /\ Return /\ out' = "none" /\ timer' = FALSE
  /\ cq' = (cr.phase # "gone") /\ seen' = cr /\ lag' = FALSE
  /\ snapshot' = ZeroSnapshot /\ gate' = FALSE /\ lastReady' = FALSE /\ muddled' = FALSE
  /\ dpc' = [d \in Dependents |-> "idle"]
  /\ held' = [d \in Dependents |-> NoEndpoint]
  /\ UNCHANGED <<cr, dep, pol, row, secret, answer, events, fails>>

Outside == \/ EditSpec \/ DeleteConnection \/ RecreateConnection
           \/ ChangeSecret \/ Flap \/ Crash
           \/ \E d \in Dependents : DeleteDependent(d)

Next == \/ Reconcile
        \/ Sync \/ PeriodicProbe
        \/ \E d \in Dependents : DepStep(d)
        \/ Outside

Spec == Init /\ [][Next]_vars

\* Workers with work go on; the watch delivers, the requeues and the relist fire.
Fairness == /\ WF_vars(Reconcile)
            /\ WF_vars(Sync) /\ WF_vars(PeriodicProbe)
            /\ \A d \in Dependents : WF_vars(DepStep(d))
FairSpec == Spec /\ Fairness

-----------------------------------------------------------------------------
(* Properties.                                                             *)

\* The worker has nothing to do and nothing is on its way to it.
AtRest == cpc = "idle" /\ ~cq /\ ~lag

\* With no work left, what the status tells the user, what the snapshot tells
\* the dependents and what the spec asks for are one and the same, however
\* edits, Secret changes, 401s and restarts were interleaved with the probes.
\* (A status write that fails is only logged; the next probe repairs it.)
AgreeAtRest ==
  AtRest /\ cr.phase = "live" /\ fails = 0 =>
    /\ cr.fin
    /\ cr.obs = cr.gen
    /\ snapshot.reason = cr.reason
    /\ snapshot.ready <=> cr.reason = "Synced"
    /\ snapshot.ready => snapshot.client = cr.ep

\* The comment on the Connecting rebuild: while a probe of some spec is under
\* way no dependent can pick up a client built from another spec.
ShieldHolds ==
  cpc \in {"secret", "probe", "write"} /\ Usable(snapshot)
    => snapshot.client = wk.ep

\* Not so when a pass reads a copy from before the reconciler's own last status
\* write: a Connecting in it switches the shield off, and what it publishes may
\* be an older spec's client.  Those are the only ways: while neither the pass
\* nor the one the snapshot comes from missed a status write, the shield holds,
\* however edits, deletions, 401s and restarts fall between the steps (as long
\* as no API call has failed).
NoStaleClient == fails = 0 /\ ~missed /\ ~muddled => ShieldHolds

\* Once Absent is published and stays so, a deleted resource under Orphan
\* drains, whatever its reconcile was doing when the connection went.
AbsentDrains ==
  \A d \in Dependents :
    (snapshot.reason = "Absent" /\ dep[d].phase = "deleting" /\ pol[d] = "Orphan")
      ~> (dep[d].phase = "drained" \/ snapshot.reason # "Absent")

\* deletion-semantics.md, "deleting the LiteLLMConnection or the namespace
\* never wedges on LiteLLM": once the connection's finalizer has published
\* Absent and the connection is gone, a deleted resource under Orphan drains
\* (unless the connection comes back).
TeardownDrains ==
  \A d \in Dependents :
    (/\ cr.phase = "gone" /\ snapshot.reason = "Absent"
     /\ dep[d].phase = "deleting" /\ pol[d] = "Orphan")
      ~> (dep[d].phase = "drained" \/ cr.phase # "gone")

\* The connection is live, well-formed, and LiteLLM accepts it.
Healthy == /\ cr.phase = "live" /\ secret /\ cr.ep \notin Refused
           /\ answer[cr.ep] = "ok"

\* If the connection ends up healthy, the status and the snapshot end up saying
\* so, whatever failed before, and every resource ends up applied at the
\* endpoint in use or, when deleted, gone.
DependentsSettle ==
  <>[]Healthy =>
    <>[](/\ Usable(snapshot)
         /\ cr.reason = "Synced" /\ cr.obs = cr.gen
         /\ \A d \in Dependents :
              \/ dep[d].phase = "drained"
              \/ dep[d].phase = "live" /\ dep[d].reason = "Synced" /\ cr.ep \in row[d])
=============================================================================
