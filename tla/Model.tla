------------------------------- MODULE Model -------------------------------
(***************************************************************************)
(* The LiteLLMModel reconciler, internal/controller/model_controller.go,    *)
(* for one resource: the object in the API server, the informer's possibly *)
(* older view of it, the worker's copy, and the deployment rows LiteLLM     *)
(* keeps under the model's name.  Every HTTP call and every write to the    *)
(* API server is a step, so that edits, out-of-band deletes, requests that *)
(* are applied without an answer or long after it, and restarts fall        *)
(* between any two of them.                                                *)
(*                                                                         *)
(* A rendered body is what hashing tells apart: the version of the spec's   *)
(* params, whether they carry an optional key, the version of the Secret    *)
(* substituted into them, and the version of model_info.                    *)
(***************************************************************************)
EXTENDS Integers, FiniteSets, DeletionPolicy

CONSTANTS PolicySettings,  \* [owned, ann, spec] a resource may be created with
          BadSpecs,        \* spec versions with duplicate names, or that do not decode
          IsRouter,        \* an auto_router/complexity_router pseudo-model
          Legacy,          \* start from a status written before InfoHash
          StaleReads,      \* a reconcile may start before the informer caught up
          CanHide,         \* LiteLLM may stop listing what it holds
          Reverts,         \* edits may return to an earlier content
          RecreateLimit,   \* recreates per window
          MaxIds,          \* bound: rows LiteLLM ever creates
          MaxEvents,       \* bound: changes made from outside
          MaxFaults,       \* bound: calls that do not simply succeed
          MaxCrashes       \* bound: operator restarts

ASSUME ModelAssumption ==
  /\ PolicySettings \subseteq [owned : BOOLEAN, ann : Written, spec : Written]
  /\ IsRouter \in BOOLEAN /\ Legacy \in BOOLEAN /\ Reverts \in BOOLEAN
  /\ CanHide \in BOOLEAN /\ StaleReads \in BOOLEAN
  /\ RecreateLimit \in Nat \ {0} /\ MaxIds \in Nat \ {0}
  /\ MaxEvents \in Nat /\ MaxFaults \in Nat /\ MaxCrashes \in Nat
  /\ BadSpecs \subseteq Nat /\ (Legacy => 1 \notin BadSpecs)

VARIABLES
  obj,      \* the LiteLLMModel in the API server
  seen,     \* the informer's copy
  wk,       \* the worker's copy
  aged,     \* that copy lacks the record last written to the status
  pc,       \* where Reconcile is
  body,     \* what this reconcile rendered
  found,    \* ids a lookup by name returned
  mq,       \* the resource is queued
  churn,    \* recreates the churn guard counts in its window
  policy,   \* deletion policy: owner, annotation, spec
  secret,   \* version of the referenced Secret, 0 when missing
  conn,     \* reason of the connection snapshot; usable when Synced
  rows,     \* LiteLLM's deployments under the model's name (external)
  late,     \* create requests LiteLLM has yet to apply (external)
  nextId,   \* next deployment id (external)
  listing,  \* GET /model/info shows the rows (external)
  leftOnCause,  \* the finalizer was dropped without LiteLLM's word
  slipped,      \* LiteLLM put a request off or hid its rows, ever
  offRecord,    \* LiteLLM holds a key that a reconcile left off the record
  events, faults, crashes

objVars == <<obj, seen, offRecord>>
wkVars  == <<wk, pc, body, found, aged>>
llmVars == <<rows, late, nextId, listing, slipped>>
envVars == <<policy, secret, events, crashes>>
vars == <<obj, seen, offRecord, wk, pc, body, found, aged, mq, churn, policy, secret, conn,
          rows, late, nextId, listing, slipped, leftOnCause, events, faults, crashes>>

Versions == 0 .. MaxEvents + 1
Ids == 0 .. MaxIds          \* 0: no id
Bodies == [v : Versions, wide : BOOLEAN, sec : Versions, info : Versions]
NoBody == [v |-> 0, wide |-> FALSE, sec |-> 0, info |-> 0]
Rows == [id : Ids \ {0}, body : Bodies]

\* Spec (v, wide, info), metadata and status; id, hash and ihash are
\* status.lastRendered's.  NoBody and 0 are the empty hashes.
Objs == [phase : {"live", "deleting", "gone"}, fin : BOOLEAN, gen : 0 .. MaxEvents + 1,
         v : Versions, wide : BOOLEAN, info : Versions,
         id : Ids, hash : Bodies, ihash : Versions, obs : 0 .. MaxEvents + 1,
         reason : {"none", "Synced", "LiteLLMUnavailable", "LiteLLMRejected",
                   "InvalidConfig", "SecretNotFound", "RecreateThrottled"}]

PCs == {"idle", "start", "resolved", "drop", "render", "probe", "prune", "decide",
        "find", "adopt", "create", "recreate", "update", "synced"}

TypeOK ==
  /\ obj \in Objs /\ seen \in Objs /\ wk \in Objs
  /\ pc \in PCs
  /\ body \in Bodies
  /\ found \subseteq Ids \ {0}
  /\ mq \in BOOLEAN
  /\ churn \in 0 .. RecreateLimit
  /\ policy \in [owned : BOOLEAN, ann : Written, spec : Written]
  /\ secret \in Versions
  /\ conn \in {"Synced", "Unreachable", "BadMasterKey", "Absent"}
  /\ rows \subseteq Rows /\ late \subseteq Bodies
  /\ nextId \in 1 .. MaxIds + 1
  /\ listing \in BOOLEAN /\ slipped \in BOOLEAN /\ leftOnCause \in BOOLEAN
  /\ aged \in BOOLEAN /\ offRecord \in BOOLEAN
  /\ events \in 0 .. MaxEvents /\ faults \in 0 .. MaxFaults /\ crashes \in 0 .. MaxCrashes

NewObj == [phase |-> "live", fin |-> FALSE, gen |-> 1, v |-> 1, wide |-> TRUE, info |-> 1,
           id |-> 0, hash |-> NoBody, ihash |-> 0, obs |-> 0, reason |-> "none"]

Rendered(o, s) == [v |-> o.v, wide |-> o.wide, sec |-> s, info |-> o.info]

\* A resource that an operator without InfoHash had applied.
LegacyObj == [NewObj EXCEPT !.fin = TRUE, !.id = 1, !.hash = Rendered(NewObj, 1),
                            !.obs = 1, !.reason = "Synced"]

Init ==
  /\ \/ obj = NewObj /\ rows = {} /\ nextId = 1
     \/ Legacy /\ obj = LegacyObj /\ rows = {[id |-> 1, body |-> LegacyObj.hash]} /\ nextId = 2
  /\ seen = obj /\ wk = NewObj
  /\ pc = "idle" /\ body = NoBody /\ found = {} /\ aged = FALSE /\ offRecord = FALSE
  /\ mq = TRUE /\ churn = 0
  /\ policy \in PolicySettings
  /\ secret = 1
  /\ conn = "Synced"
  /\ late = {} /\ listing = TRUE /\ slipped = FALSE /\ leftOnCause = FALSE
  /\ events = 0 /\ faults = 0 /\ crashes = 0

-----------------------------------------------------------------------------
(* LiteLLM (external): what it does with a request, and what comes back.   *)

\* ok: done and answered.  401, 4xx: refused.  down: never arrived.
\* lost: done, but the answer did not come.  late: may be done later.
Outcome(o) == IF o = "ok" THEN UNCHANGED faults
                          ELSE faults < MaxFaults /\ faults' = faults + 1
Refusals == {"401", "4xx", "down"}
Done == {"ok", "lost"}

RowOf(i) == {r \in rows : r.id = i}
IdsOf(rs) == {r.id : r \in rs}
Listed == IF listing /\ ~IsRouter THEN IdsOf(rows) ELSE {}

\* POST /model/new is not idempotent: every request is a row.
Create(b, o) ==
  /\ o \in Done \/ o = "late" => nextId <= MaxIds
  /\ IF o \in Done
       THEN /\ rows' = rows \cup {[id |-> nextId, body |-> b]}
            /\ nextId' = nextId + 1
            /\ UNCHANGED late
       ELSE /\ late' = IF o = "late" THEN late \cup {b} ELSE late
            /\ UNCHANGED <<rows, nextId>>
  /\ slipped' = (slipped \/ o = "late")

\* POST /model/update rewrites params, never drops a key, leaves model_info.
Updated(r, b) ==
  [r EXCEPT !.body = [b EXCEPT !.wide = b.wide \/ r.body.wide, !.info = r.body.info]]
Update(i, b, o) ==
  rows' = IF o \in Done THEN (rows \ RowOf(i)) \cup {Updated(r, b) : r \in RowOf(i)} ELSE rows

\* POST /model/delete.
Delete(i, o) == rows' = IF o \in Done THEN rows \ RowOf(i) ELSE rows

-----------------------------------------------------------------------------
(* How a reconcile ends.                                                   *)

\* Return: what the worker held is forgotten.
Finish == pc' = "idle" /\ wk' = NewObj /\ body' = NoBody /\ found' = {} /\ aged' = FALSE

\* Go on to step p.
GoOn(p) == pc' = p /\ UNCHANGED <<wk, body, found, aged, mq>>

\* An error return, or RequeueAfter.
Requeue == Finish /\ mq' = TRUE

\* Wrong variant of KeepPersistedID: the copy in memory wins.
KeepNothing(want, got) == want

\* keepPersistedID: a cleared id never overwrites a persisted one.
KeepPersistedID(want, got) == IF want = 0 THEN got ELSE want

\* Wrong variant of WriteStatus: claims the generation the object has now.
WriteStatusLatest(w, r) ==
  /\ seen = obj
  /\ obj' = [obj EXCEPT !.id = KeepPersistedID(w.id, obj.id), !.hash = w.hash,
                        !.ihash = w.ihash, !.obs = obj.gen, !.reason = r]

\* writeStatus: the worker's lastRendered and generation over a fresh copy,
\* which is the informer's: until that has caught up the update conflicts.
WriteStatus(w, r) ==
  /\ seen = obj
  /\ obj' = [obj EXCEPT !.id = KeepPersistedID(w.id, obj.id), !.hash = w.hash,
                        !.ihash = w.ihash, !.obs = w.gen, !.reason = r]

\* The retries run out before the informer catches up.
StatusConflict == seen # obj /\ UNCHANGED obj

\* A status write that fails, by conflict or because the API server does.
StatusLost == \/ StatusConflict /\ UNCHANGED faults
              \/ faults < MaxFaults /\ faults' = faults + 1 /\ UNCHANGED obj

\* A deterministic end: status r, nil returned; a failed write is only logged.
EndWith(r) ==
  /\ \/ WriteStatus(wk, r) /\ UNCHANGED faults
     \/ StatusLost

\* InvalidateOn401.
InvalidateOn401 == conn' = IF conn = "Synced" THEN "BadMasterKey" ELSE conn

\* classifyMutationError, for a call that ended in o.
ClassifyMutationError(o) ==
  \/ /\ o = "401"
     /\ InvalidateOn401
     /\ WriteStatus(wk, "LiteLLMUnavailable") \/ StatusConflict
     /\ Finish /\ UNCHANGED mq
  \/ /\ o = "4xx"
     /\ WriteStatus(wk, "LiteLLMRejected") \/ StatusConflict
     /\ Requeue /\ UNCHANGED conn
  \/ /\ o \in {"down", "lost", "late"}
     /\ Requeue /\ UNCHANGED <<obj, conn>>

\* The record of a row: its id and what was sent to it.
RecordOf(o) == <<o.id, o.hash>>

\* Every key LiteLLM holds is one the record of its row names.
KeysOnRecord == \A r \in rows : r.body.wide => obj.hash.wide /\ obj.id = r.id

\* A call or a status write leaves a key off the record: the reconcile sent it
\* and has not recorded it, or writes a record older than the one there was.
Note == offRecord' = (~KeysOnRecord' /\ (offRecord \/ body.wide \/ aged))

-----------------------------------------------------------------------------
(* The queue.                                                              *)

\* The informer catches up; the event queues the resource.
Sync ==
  /\ seen # obj
  /\ seen' = obj
  /\ mq' = TRUE
  /\ UNCHANGED <<obj, offRecord, wkVars, churn, conn, llmVars, leftOnCause, envVars, faults>>

\* SafetyRelistRunnable ticks; a tick during a reconcile is one after it.
Relist ==
  /\ ~mq /\ pc = "idle" /\ seen.phase # "gone"
  /\ mq' = TRUE
  /\ UNCHANGED <<objVars, wkVars, churn, conn, llmVars, leftOnCause, envVars, faults>>

\* Step 1.
Fetch ==
  /\ pc = "idle" /\ mq
  /\ StaleReads \/ seen = obj
  /\ mq' = FALSE
  /\ IF seen.phase = "gone" THEN UNCHANGED <<wk, pc, aged>>
                            ELSE wk' = seen /\ pc' = "start" /\ aged' = (RecordOf(seen) # RecordOf(obj))
  /\ UNCHANGED <<objVars, body, found, churn, conn, llmVars, leftOnCause, envVars, faults>>

-----------------------------------------------------------------------------
(* Step 2a: deletion.                                                      *)

Deleting == pc = "start" /\ wk.phase = "deleting" /\ wk.fin
Effective == Resolve(policy.owned, policy.ann, policy.spec)

\* onAckMissing: go without LiteLLM's word, or come back later.
AckMissing(permanent) ==
  IF MayDrain(Effective, permanent)
    THEN GoOn("drop") /\ leftOnCause' = TRUE
    ELSE Requeue /\ UNCHANGED leftOnCause

\* The connection is not usable.
DeleteUnavailable ==
  /\ Deleting /\ conn # "Synced"
  /\ AckMissing(AckUnavailable(conn))
  /\ UNCHANGED <<objVars, churn, conn, llmVars, envVars, faults>>

\* Wrong variant of DeleteCall: any 4xx is taken for an absent row.
DeleteCallLenient(i) ==
  \E o \in Done \cup Refusals :
    /\ Outcome(o)
    /\ Delete(i, o)
    /\ IF o \in {"ok", "4xx"}
         THEN GoOn("drop") /\ UNCHANGED leftOnCause
         ELSE Requeue /\ UNCHANGED leftOnCause
    /\ UNCHANGED <<late, nextId, listing, slipped>>

\* DeleteModel on the way out.  404 and success are both an answer; a 401
\* is transient and invalidates nothing; another 4xx is permanent.
DeleteCall(i) ==
  \E o \in Done \cup Refusals :
    /\ Outcome(o)
    /\ Delete(i, o)
    /\ \/ o = "ok" /\ GoOn("drop") /\ UNCHANGED leftOnCause
       \/ o = "401" /\ AckMissing(FALSE)
       \/ o = "4xx" /\ AckMissing(TRUE)
       \/ o \in {"down", "lost"} /\ Requeue /\ UNCHANGED leftOnCause
    /\ UNCHANGED <<late, nextId, listing, slipped>>

DeleteTracked ==
  /\ Deleting /\ conn = "Synced" /\ wk.id # 0
  /\ DeleteCall(wk.id)
  /\ UNCHANGED <<objVars, churn, conn, envVars>>

\* Without an id the row is looked up by name first.
ResolveByName ==
  /\ Deleting /\ conn = "Synced" /\ wk.id = 0
  /\ \E o \in {"ok"} \cup Refusals :
       /\ Outcome(o)
       /\ \/ o = "ok" /\ Listed = {} /\ GoOn("drop") /\ UNCHANGED leftOnCause
          \/ /\ o = "ok"
             /\ \E i \in Listed : found' = {i}
             /\ pc' = "resolved" /\ UNCHANGED <<leftOnCause, wk, body, aged, mq>>
          \/ o = "401" /\ AckMissing(FALSE)
          \/ o \in {"4xx", "down"} /\ Requeue /\ UNCHANGED leftOnCause
  /\ UNCHANGED <<objVars, churn, conn, llmVars, envVars>>

DeleteResolved ==
  /\ pc = "resolved"
  /\ \E i \in found : DeleteCall(i)
  /\ UNCHANGED <<objVars, churn, conn, envVars>>

\* An Update carries the resourceVersion of the worker's copy.
Unmoved == obj = wk

\* Churn.Forget, then the finalizer goes: the object with it.
DropFinalizer ==
  /\ pc = "drop"
  /\ churn' = 0
  /\ \/ /\ Unmoved /\ UNCHANGED faults
        /\ obj' = [obj EXCEPT !.phase = "gone", !.fin = FALSE]
        /\ Finish /\ UNCHANGED <<mq, leftOnCause>>
     \/ /\ \/ ~Unmoved /\ UNCHANGED faults
           \/ faults < MaxFaults /\ faults' = faults + 1
        /\ Requeue
        /\ leftOnCause' = (leftOnCause /\ obj.phase = "gone") /\ UNCHANGED obj
  /\ UNCHANGED <<seen, offRecord, conn, llmVars, envVars>>

\* Step 2b, and a deleting object that has no finalizer any more.
AddFinalizer ==
  /\ pc = "start" /\ ~wk.fin
  /\ \/ wk.phase = "deleting" /\ Finish /\ UNCHANGED <<obj, mq, faults>>
     \/ /\ wk.phase = "live" /\ Unmoved
        /\ obj' = [obj EXCEPT !.fin = TRUE]
        /\ Finish /\ UNCHANGED <<mq, faults>>
     \/ /\ wk.phase = "live"
        /\ \/ ~Unmoved /\ UNCHANGED faults
           \/ faults < MaxFaults /\ faults' = faults + 1
        /\ Requeue /\ UNCHANGED obj
  /\ UNCHANGED <<seen, offRecord, churn, conn, llmVars, leftOnCause, envVars>>

-----------------------------------------------------------------------------
(* Steps 3 to 8: gate, render, probe, prune, steady state.                 *)

\* Step 3: no usable connection.
Gate ==
  /\ pc = "start" /\ wk.phase = "live" /\ wk.fin
  /\ IF conn = "Synced" THEN GoOn("render") /\ UNCHANGED <<obj, faults>>
                        ELSE EndWith("LiteLLMUnavailable") /\ Finish /\ UNCHANGED mq
  /\ UNCHANGED <<seen, churn, conn, llmVars, leftOnCause, envVars>>
  /\ Note

\* Steps 3.5 to 7: a bad spec waits for an edit, a missing Secret is looked for
\* again.  Duplicate names are noticed before the Secret is read, a bag that
\* does not decode after it.
Render ==
  /\ pc = "render"
  /\ \/ /\ wk.v \in BadSpecs
        /\ EndWith("InvalidConfig") /\ Finish /\ UNCHANGED mq
     \/ /\ secret = 0
        /\ EndWith("SecretNotFound") /\ Requeue
     \/ /\ wk.v \notin BadSpecs /\ secret # 0
        /\ body' = Rendered(wk, secret)
        /\ pc' = "probe" /\ UNCHANGED <<obj, wk, found, aged, mq, faults>>
  /\ UNCHANGED <<seen, churn, conn, llmVars, leftOnCause, envVars>>
  /\ Note

\* Step 7b: is the tracked id among the rows of this name?  A 401 leaves it
\* alone; any other error is returned; an absent id is cleared in memory.
Probe ==
  /\ pc = "probe"
  /\ \/ /\ IsRouter \/ wk.id = 0 \/ wk.hash = NoBody
        /\ GoOn("decide") /\ UNCHANGED <<conn, faults>>
     \/ /\ ~IsRouter /\ wk.id # 0 /\ wk.hash # NoBody
        /\ \E o \in {"ok"} \cup Refusals :
             /\ Outcome(o)
             /\ \/ /\ o = "ok"
                   /\ found' = Listed
                   /\ wk' = IF wk.id \in Listed THEN wk ELSE [wk EXCEPT !.id = 0]
                   /\ pc' = "prune" /\ UNCHANGED <<body, aged, mq, conn>>
                \/ /\ o = "401"
                   /\ InvalidateOn401
                   /\ GoOn("prune")
                \/ o \in {"4xx", "down"} /\ Requeue /\ UNCHANGED conn
  /\ UNCHANGED <<objVars, churn, llmVars, leftOnCause, envVars>>

\* Step 7c: delete the rows of this name other than the tracked one; a failed
\* delete is left to the next relist.
Extra == IF wk.id = 0 THEN {} ELSE found \ {wk.id}
PruneOne ==
  /\ pc = "prune"
  /\ \E i \in Extra, o \in Done \cup Refusals :
       /\ Outcome(o)
       /\ Delete(i, o)
       /\ found' = found \ {i}
  /\ UNCHANGED <<objVars, wk, pc, body, aged, mq, churn, conn, late, nextId, listing, slipped,
                 leftOnCause, envVars>>

\* Wrong variant of PruneDone: never prunes.
PruneSkip ==
  /\ pc = "prune"
  /\ pc' = "decide" /\ found' = {}
  /\ UNCHANGED <<objVars, wk, body, aged, mq, churn, conn, llmVars, leftOnCause, envVars, faults>>

PruneDone ==
  /\ pc = "prune" /\ Extra = {}
  /\ pc' = "decide" /\ found' = {}
  /\ UNCHANGED <<objVars, wk, body, aged, mq, churn, conn, llmVars, leftOnCause, envVars, faults>>

\* Step 8's guard.
InSteadyState == wk.hash = body /\ wk.id # 0 /\ wk.obs = wk.gen

\* Step 8: nothing to apply; a Ready condition left False is healed, and a
\* failure to write it is returned.
Steady ==
  /\ pc = "decide" /\ InSteadyState
  /\ \/ /\ wk.reason = "Synced"
        /\ Finish /\ churn' = 0 /\ UNCHANGED <<obj, mq, faults>>
     \/ /\ wk.reason # "Synced"
        /\ WriteStatus(wk, "Synced")
        /\ Finish /\ churn' = 0 /\ UNCHANGED <<mq, faults>>
     \/ /\ wk.reason # "Synced"
        /\ StatusLost
        /\ Finish /\ mq' = (mq \/ faults' # faults) /\ UNCHANGED churn
  /\ UNCHANGED <<seen, conn, llmVars, leftOnCause, envVars>>
  /\ Note

-----------------------------------------------------------------------------
(* Steps 9 and 11: create, adopt, update, recreate, record.                *)

FirstReconcile == wk.obs = 0 \/ wk.hash = NoBody

\* Wrong variant of Throttle: no circuit breaker.
ThrottleNever ==
  /\ pc = "decide" /\ ~InSteadyState /\ wk.id = 0
  /\ GoOn("find") /\ UNCHANGED <<obj, faults>>
  /\ UNCHANGED <<seen, churn, conn, llmVars, leftOnCause, envVars>>
  /\ Note

\* The recreate circuit breaker.
Throttle ==
  /\ pc = "decide" /\ ~InSteadyState /\ wk.id = 0
  /\ IF ~FirstReconcile /\ churn >= RecreateLimit
       THEN EndWith("RecreateThrottled") /\ Requeue
       ELSE GoOn("find") /\ UNCHANGED <<obj, faults>>
  /\ UNCHANGED <<seen, churn, conn, llmVars, leftOnCause, envVars>>
  /\ Note

\* Wrong variant of FindByName: the idempotency probe is skipped.
FindNothing ==
  /\ pc = "find"
  /\ pc' = "create"
  /\ UNCHANGED <<objVars, wk, body, found, aged, mq, churn, conn, llmVars, leftOnCause, envVars, faults>>

\* The idempotency probe; its errors are all returned.
FindByName ==
  /\ pc = "find"
  /\ \E o \in {"ok"} \cup Refusals :
       /\ Outcome(o)
       /\ \/ o = "ok" /\ Listed = {} /\ GoOn("create")
          \/ /\ o = "ok"
             /\ \E i \in Listed : found' = {i}
             /\ pc' = "adopt" /\ UNCHANGED <<wk, body, aged, mq>>
          \/ o # "ok" /\ Requeue
  /\ UNCHANGED <<objVars, churn, conn, llmVars, leftOnCause, envVars>>

\* Step 11's lastRendered, in the worker's copy.
Record(i) == wk' = [wk EXCEPT !.id = i, !.hash = body, !.ihash = body.info]

\* A mutation succeeded and left row i to record.
Applied(i) == Record(i) /\ pc' = "synced" /\ UNCHANGED <<obj, body, found, aged, mq, conn>>

\* A row of that name exists: adopt it with an update.  One that is gone by
\* now is a 4xx.
Adopt ==
  /\ pc = "adopt"
  /\ \E i \in found, o \in Done \cup Refusals :
       /\ Outcome(o)
       /\ Update(i, body, o)
       /\ \/ o = "ok" /\ RowOf(i) # {} /\ Applied(i)
          \/ o = "ok" /\ RowOf(i) = {} /\ ClassifyMutationError("4xx")
          \/ o # "ok" /\ ClassifyMutationError(o)
  /\ UNCHANGED <<seen, churn, late, nextId, listing, slipped, leftOnCause, envVars>>
  /\ Note

\* POST /model/new; a recreate is recorded with the churn guard.
CreateNew ==
  /\ pc \in {"create", "recreate"}
  /\ \E o \in Done \cup Refusals \cup {"late"} :
       /\ Outcome(o)
       /\ Create(body, o)
       /\ \/ /\ o = "ok"
             /\ Applied(nextId)
             /\ churn' = IF pc = "create" /\ ~FirstReconcile THEN churn + 1 ELSE churn
          \/ o # "ok" /\ ClassifyMutationError(o) /\ UNCHANGED churn
  /\ UNCHANGED <<seen, listing, leftOnCause, envVars>>
  /\ Note

\* Wrong variant of MustRecreate: a key that is gone from params is overlooked.
MustRecreateForInfo == wk.ihash # 0 /\ wk.ihash # body.info

\* Params lost a key, or model_info changed since it was last recorded: an
\* update would not carry it over.
MustRecreate == \/ wk.hash.wide /\ ~body.wide
                \/ wk.ihash # 0 /\ wk.ihash # body.info

\* A status from before InfoHash has model_info's keys alone: an edit since may
\* have removed one, or not.
MayRecreate == MustRecreate \/ (wk.ihash = 0 /\ wk.hash # NoBody /\ wk.hash.info # body.info)

\* First half of delete-and-recreate; a 404 here is a rejection.
DeleteOld ==
  /\ pc = "decide" /\ ~InSteadyState /\ wk.id # 0 /\ MayRecreate
  /\ \E o \in Done \cup Refusals :
       /\ Outcome(o)
       /\ Delete(wk.id, o)
       /\ \/ /\ o = "ok" /\ RowOf(wk.id) # {}
             /\ GoOn("recreate") /\ UNCHANGED <<obj, conn>>
          \/ o = "ok" /\ RowOf(wk.id) = {} /\ ClassifyMutationError("4xx")
          \/ o # "ok" /\ ClassifyMutationError(o)
  /\ UNCHANGED <<seen, churn, late, nextId, listing, slipped, leftOnCause, envVars>>
  /\ Note

\* POST /model/update on the tracked row.
UpdateTracked ==
  /\ pc = "decide" /\ ~InSteadyState /\ wk.id # 0 /\ ~MustRecreate
  /\ \E o \in Done \cup Refusals :
       /\ Outcome(o)
       /\ Update(wk.id, body, o)
       /\ \/ o = "ok" /\ RowOf(wk.id) # {} /\ Applied(wk.id)
          \/ o = "ok" /\ RowOf(wk.id) = {} /\ ClassifyMutationError("4xx")
          \/ o # "ok" /\ ClassifyMutationError(o)
  /\ UNCHANGED <<seen, churn, late, nextId, listing, slipped, leftOnCause, envVars>>
  /\ Note

\* Step 11: the status write.  A conflict returns nil: the informer's event
\* comes back with fresh state.  Another error is returned.
WriteSynced ==
  /\ pc = "synced"
  /\ \/ WriteStatus(wk, "Synced") /\ UNCHANGED <<mq, faults>>
     \/ StatusLost /\ mq' = (mq \/ faults' # faults)
  /\ Finish
  /\ UNCHANGED <<seen, churn, conn, llmVars, leftOnCause, envVars>>
  /\ Note

Reconcile ==
  \/ Fetch \/ DeleteUnavailable \/ DeleteTracked \/ ResolveByName \/ DeleteResolved
  \/ DropFinalizer \/ AddFinalizer \/ Gate \/ Render \/ Probe \/ PruneOne \/ PruneDone
  \/ Steady \/ Throttle \/ FindByName \/ Adopt \/ CreateNew \/ DeleteOld
  \/ UpdateTracked \/ WriteSynced

-----------------------------------------------------------------------------
(* The world outside.                                                      *)

Event == events < MaxEvents /\ events' = events + 1

\* A content version not used before, or any when edits may revert.
Fresh(now) == IF Reverts THEN (1 .. MaxEvents + 1) \ {now} ELSE {events + 2}

\* An edit of the spec: params, their optional key, or info.
EditSpec ==
  /\ Event
  /\ obj.phase = "live"
  /\ \/ \E n \in Fresh(obj.v), w \in BOOLEAN :
          obj' = [obj EXCEPT !.v = n, !.wide = w, !.gen = @ + 1]
     \/ \E n \in Fresh(obj.info) : obj' = [obj EXCEPT !.info = n, !.gen = @ + 1]
  /\ UNCHANGED <<seen, offRecord, wkVars, mq, churn, conn, llmVars, leftOnCause, policy, secret, faults, crashes>>

DeleteObj ==
  /\ Event
  /\ obj.phase = "live"
  /\ obj' = [obj EXCEPT !.phase = IF obj.fin THEN "deleting" ELSE "gone"]
  /\ UNCHANGED <<seen, offRecord, wkVars, mq, churn, conn, llmVars, leftOnCause, policy, secret, faults, crashes>>

\* The break-glass annotation.
Annotate ==
  /\ Event
  /\ obj.phase # "gone" /\ policy.ann # "Orphan"
  /\ policy' = [policy EXCEPT !.ann = "Orphan"]
  /\ mq' = TRUE
  /\ UNCHANGED <<objVars, wkVars, churn, conn, llmVars, leftOnCause, secret, faults, crashes>>

\* The Secret goes, comes or is rotated: secretToModels queues the resource.
RotateSecret ==
  /\ Event
  /\ \E n \in Fresh(secret) \cup {0} : n # secret /\ secret' = n
  /\ mq' = TRUE
  /\ UNCHANGED <<objVars, wkVars, churn, conn, llmVars, leftOnCause, policy, faults, crashes>>

\* Somebody deletes a row behind the operator's back.
OutOfBandDelete ==
  /\ Event
  /\ \E r \in rows : rows' = rows \ {r}
  /\ UNCHANGED <<objVars, wkVars, mq, churn, conn, late, nextId, listing, slipped, leftOnCause,
                 policy, secret, faults, crashes>>

\* The name stops being listed, or is listed again.
FlipListing ==
  /\ Event
  /\ CanHide
  /\ listing' = ~listing
  /\ slipped' = TRUE
  /\ UNCHANGED <<objVars, wkVars, mq, churn, conn, rows, late, nextId, leftOnCause,
                 policy, secret, faults, crashes>>

\* A request that was given up on is applied after all.
LateApply ==
  /\ nextId <= MaxIds
  /\ \E b \in late : /\ late' = late \ {b}
                     /\ rows' = rows \cup {[id |-> nextId, body |-> b]}
  /\ nextId' = nextId + 1
  /\ UNCHANGED <<obj, seen, wkVars, mq, churn, conn, listing, slipped, leftOnCause, envVars, faults>>
  /\ offRecord' = (offRecord \/ ~KeysOnRecord')

\* The connection's probe: LiteLLM lost, the connection deleted; or back, and
\* the rebuilt fan-in queues the resource.
ConnDown ==
  /\ Event
  /\ conn = "Synced"
  /\ conn' \in {"Unreachable", "Absent"}
  /\ UNCHANGED <<objVars, wkVars, mq, churn, llmVars, leftOnCause, policy, secret, faults, crashes>>

ConnUp ==
  /\ conn \in {"Unreachable", "BadMasterKey"}
  /\ conn' = "Synced"
  /\ mq' = TRUE
  /\ UNCHANGED <<objVars, wkVars, churn, llmVars, leftOnCause, envVars, faults>>

\* The churn window passes (bound: while LiteLLM has an id to spare).
Expire ==
  /\ churn > 0 /\ nextId < MaxIds
  /\ churn' = churn - 1
  /\ UNCHANGED <<objVars, wkVars, mq, conn, llmVars, leftOnCause, envVars, faults>>

\* The operator restarts: nothing of the worker or the guard survives.
Crash ==
  /\ crashes < MaxCrashes
  /\ crashes' = crashes + 1
  /\ Finish
  /\ seen' = obj
  /\ mq' = TRUE /\ churn' = 0
  /\ leftOnCause' = (leftOnCause /\ obj.phase = "gone")
  /\ UNCHANGED <<obj, offRecord, conn, llmVars, policy, secret, events, faults>>

Outside == \/ EditSpec \/ DeleteObj \/ Annotate \/ RotateSecret \/ OutOfBandDelete
           \/ FlipListing \/ LateApply \/ ConnDown \/ ConnUp \/ Expire \/ Crash

Next == Reconcile \/ Sync \/ Relist \/ Outside

Spec == Init /\ [][Next]_vars

\* The worker goes on while it has work, informer and relist come round, the
\* connection recovers (module Connection), the window passes.
Fairness == /\ WF_vars(Reconcile)
            /\ WF_vars(Sync) /\ WF_vars(Relist)
            /\ WF_vars(ConnUp) /\ WF_vars(Expire)
FairSpec == Spec /\ Fairness

-----------------------------------------------------------------------------
(* Properties.                                                             *)

AtRest == pc = "idle" /\ ~mq /\ seen = obj

\* Ready=True, Synced, for the current generation, with the connection up.
ClaimsSynced == /\ obj.phase = "live" /\ obj.reason = "Synced" /\ obj.obs = obj.gen
                /\ conn = "Synced"

\* A body carries another's params, every key of them, under the same Secret;
\* the model_info next to them is not part of this.
SameParams(b, c) == b.v = c.v /\ b.sec = c.sec /\ (c.wide => b.wide)

\* A key the spec does not ask for is in the row only off the record: the call
\* that brought it was never recorded, or its record was overwritten with an older.
NoKeyLeft(b) == b.wide => obj.wide \/ offRecord

\* LiteLLM applies requests in time and lists what it holds; a pseudo-model it
\* never lists.
InTime == ~slipped /\ ~IsRouter

\* Not so with rows that were hidden: a status write from an old copy takes the
\* record back, and a later one keeps the id in it next to the newer hash.
SyncedServes ==
  AtRest /\ ClaimsSynced =>
    \A r \in RowOf(obj.id) : SameParams(r.body, Rendered(obj, secret)) /\ NoKeyLeft(r.body)

\* A resource at rest that says Synced for its generation has, in the row it
\* tracks, the params it asks for, as long as LiteLLM applies requests in time
\* and lists what it holds: no lost answer, conflict, restart or error path makes
\* the operator believe in an update that did not happen.  A key the spec gave up
\* is gone from the row as well (an update never drops one, so the row has to be
\* made anew), unless it was there off the record.
SyncedMatches == InTime => SyncedServes

\* What D-02 is for, with no exception: the row has no key the spec gave up.  It
\* fails: a create whose answer is lost, an edit that removes the key and an
\* adoption by name, which merges, leave it in the row of a Synced resource.
RemovedKeyGone ==
  InTime /\ AtRest /\ ClaimsSynced => \A r \in RowOf(obj.id) : r.body.wide => obj.wide

\* A resource leaves its tracked row behind only under Orphan and only after
\* a permanent cause; a 401, an outage or a conflict never lets it go.
NoSilentLeak ==
  obj.phase = "gone" /\ obj.id # 0 /\ RowOf(obj.id) # {} =>
    Effective = "Orphan" /\ leftOnCause

\* deletion-semantics.md, Delete: LiteLLM does not end up with orphan entries.
DeleteLeavesNothing ==
  obj.phase = "gone" /\ Effective = "Delete" => rows = {}

\* Once an id is persisted no error path blanks it.
IdNeverBlanked == [][obj.id # 0 => obj'.id # 0]_vars

\* As long as LiteLLM applies requests in time and lists what it holds, lost
\* answers, conflicts, retries and restarts never make a second row.
OneRow == InTime => Cardinality(rows) <= 1

\* If LiteLLM lists its rows, the Secret is there, the spec decodes and the
\* connection stays, the resource ends up applied in exactly one row, or gone.
Converges ==
  <>[](listing /\ secret # 0 /\ obj.v \notin BadSpecs /\ conn # "Absent") =>
    <>[](\/ obj.phase = "gone"
         \/ /\ obj.phase = "live" /\ obj.reason = "Synced" /\ obj.obs = obj.gen
            /\ \E r \in rows : /\ rows = {r} /\ r.id = obj.id
                               /\ SameParams(r.body, Rendered(obj, secret))
                               /\ NoKeyLeft(r.body))
=============================================================================
