------------------------------- MODULE Team -------------------------------
(***************************************************************************)
(* The LiteLLMTeam reconciler, internal/controller/team_controller.go, for  *)
(* one name: an ordinary team, or "default", which LiteLLM must always have *)
(* and which the operator therefore also reconciles while no resource of    *)
(* that name exists (TeamDefaultRunnable).  All work on a name goes through *)
(* one queue key, so at most one reconcile of it runs; every HTTP call and  *)
(* every write to the API server is a step, and edits, group changes,       *)
(* out-of-band changes, unanswered calls and restarts fall between them.    *)
(*                                                                         *)
(* A body is what hashing tells apart: the version of budget and rate       *)
(* limits, and what the attached access groups grant (the group row's id    *)
(* and models, as one version; 0 grants nothing).                           *)
(***************************************************************************)
EXTENDS Integers, Sequences, FiniteSets, DeletionPolicy

CONSTANTS Names,           \* of "default" and "team": which is reconciled
          Groups,          \* access groups a spec may attach
          PolicySettings,  \* [owned, ann, spec] a resource may be created with
          Reverts,         \* an edit may keep the budget
          RecreateLimit,   \* recreates per window
          ServerIds,       \* bound: ids LiteLLM assigns, in this order
          MaxUpsets        \* bound: outside changes, failed calls and restarts

\* The id the operator asks for: the resource's name.  An assigned id may
\* sort before or after it.
NamedId == 2

ASSUME TeamAssumption ==
  /\ Names \subseteq {"default", "team"}
  /\ PolicySettings \subseteq [owned : BOOLEAN, ann : Written, spec : Written]
  /\ Reverts \in BOOLEAN
  /\ RecreateLimit \in Nat \ {0} /\ MaxUpsets \in Nat
  /\ ServerIds \in Seq(Nat \ {0, NamedId}) /\ Len(ServerIds) > MaxUpsets
  /\ \A j, k \in 1 .. Len(ServerIds) : ServerIds[j] = ServerIds[k] => j = k
  /\ IsFiniteSet(Groups)

VARIABLES
  name,     \* the name reconciled
  obj,      \* the LiteLLMTeam in the API server
  seen,     \* the informer's copy
  wk,       \* the worker's copy
  pc,       \* where Reconcile is
  body,     \* what this reconcile rendered
  target,   \* the team_id a lookup returned, 0 for none
  queued,   \* the name is queued
  churn,    \* recreates the churn guard counts in its window
  cache,    \* implicitDefaultHash and implicitDefaultTeamID
  policy,   \* deletion policy: owner, annotation, spec
  groups,   \* LiteLLM's access group rows: version of each, 0 for none
  conn,     \* reason of the connection snapshot; usable when Synced
  rows,     \* LiteLLM's teams under the alias (external)
  minted,   \* how many ids LiteLLM has assigned (external)
  past,     \* history, for the properties
  upsets

wkVars  == <<wk, pc, body, target>>
llmVars == <<rows, minted>>
vars == <<name, obj, seen, wkVars, queued, churn, cache, policy, groups, conn, llmVars, past, upsets>>

Versions == 0 .. MaxUpsets + 1
Ids == {NamedId} \cup {ServerIds[k] : k \in 1 .. Len(ServerIds)}

\* A key the wire leaves out: LiteLLM keeps the old value.
Omitted == [g \in Groups |-> -1]
NoGrant == [g \in Groups |-> 0]
Bodies == [v : -1 .. MaxUpsets + 1, grant : [Groups -> Versions] \cup {Omitted}]
NoBody == [v |-> -1, grant |-> NoGrant]
Rows == [id : Ids, body : Bodies]

\* Spec (v, attach), metadata and status; id and hash are lastRendered's.
Objs == [phase : {"absent", "live", "deleting"}, fin : BOOLEAN, gen : Versions,
         v : Versions, attach : SUBSET Groups,
         id : Ids \cup {0}, hash : Bodies, obs : Versions,
         reason : {"none", "Synced", "LiteLLMUnavailable", "LiteLLMRejected",
                   "AccessGroupNotFound", "RecreateThrottled"}]

PCs == {"idle", "groups", "probe", "decide", "create", "update", "narrow", "synced", "park",
        "implicit", "bootstrap", "refresh",
        "resolve", "reapply", "delete", "drop"}

\* Things that happened: a reconcile ended or began without the record of a
\* write that LiteLLM had applied, the default
\* team was let go without being reset, a finalizer was dropped without
\* LiteLLM's word, somebody else created a team of this alias.
Pasts == {"unrecorded", "notReset", "leftOnCause", "duplicate"}

TypeOK ==
  /\ name \in Names
  /\ obj \in Objs /\ seen \in Objs /\ wk \in Objs
  /\ pc \in PCs
  /\ body \in Bodies
  /\ target \in Ids \cup {0}
  /\ queued \in BOOLEAN
  /\ churn \in 0 .. RecreateLimit
  /\ cache \in [hash : Bodies, id : Ids \cup {0}]
  /\ policy \in [owned : BOOLEAN, ann : Written, spec : Written]
  /\ groups \in [Groups -> Versions]
  /\ conn \in {"Synced", "Unreachable", "BadMasterKey", "Absent"}
  /\ rows \subseteq Rows
  /\ minted \in 0 .. Len(ServerIds)
  /\ past \subseteq Pasts
  /\ upsets \in 0 .. MaxUpsets

Absent == [phase |-> "absent", fin |-> FALSE, gen |-> 0, v |-> 0, attach |-> {},
           id |-> 0, hash |-> NoBody, obs |-> 0, reason |-> "none"]
NewObj(attach) == [Absent EXCEPT !.phase = "live", !.gen = 1, !.v = 1, !.attach = attach]
NoCache == [hash |-> NoBody, id |-> 0]

Init ==
  /\ name \in Names
  /\ IF name = "default" THEN obj = Absent ELSE \E a \in SUBSET Groups : obj = NewObj(a)
  /\ seen = obj /\ wk = Absent /\ pc = "idle" /\ body = NoBody /\ target = 0
  /\ queued = TRUE /\ churn = 0 /\ cache = NoCache
  /\ policy \in PolicySettings
  /\ groups = [g \in Groups |-> 1]
  /\ conn = "Synced"
  /\ rows = {} /\ minted = 0
  /\ past = {}
  /\ upsets = 0

-----------------------------------------------------------------------------
(* LiteLLM (external): what it does with a request, and what comes back.   *)

\* ok: done and answered.  401, 4xx: refused.  down: never arrived.
\* lost: done, but the answer did not come.
Upset == upsets < MaxUpsets /\ upsets' = upsets + 1
Outcome(o) == IF o = "ok" THEN UNCHANGED upsets ELSE Upset
Refusals == {"401", "4xx", "down"}
Done == {"ok", "lost"}

RowOf(i) == {r \in rows : r.id = i}
Listed == {r.id : r \in rows}

\* POST /team/new, with the id asked for or one of LiteLLM's own.
NextServerId == ServerIds[minted + 1]
Create(i, b, o) ==
  /\ rows' = IF o \in Done THEN rows \cup {[id |-> i, body |-> b]} ELSE rows
  /\ minted' = IF o \in Done /\ i # NamedId THEN minted + 1 ELSE minted

\* POST /team/update merges by field; no such team is a 404.
Merged(r, b) == [r EXCEPT !.body.v = b.v,
                          !.body.grant = IF b.grant = Omitted THEN @ ELSE b.grant]
Update(i, b, o) ==
  /\ rows' = IF o \in Done THEN (rows \ RowOf(i)) \cup {Merged(r, b) : r \in RowOf(i)} ELSE rows
  /\ UNCHANGED minted
Answer(i, o) == IF o \in Done /\ RowOf(i) = {} THEN "4xx" ELSE o

\* POST /team/delete.
Delete(i, o) == rows' = IF o \in Done THEN rows \ RowOf(i) ELSE rows

\* spec 7.1: of several teams under an alias the smallest id counts.
Smallest == IF Listed = {} THEN 0 ELSE CHOOSE i \in Listed : \A j \in Listed : i <= j

-----------------------------------------------------------------------------
(* How a reconcile ends.                                                   *)

GoOn(p) == pc' = p /\ UNCHANGED <<wk, body, target, queued>>

\* Return; again: with an error or RequeueAfter, so that the name comes back.
Return(again) ==
  /\ pc' = "idle" /\ wk' = Absent /\ body' = NoBody /\ target' = 0
  /\ queued' = (queued \/ again)

\* Something happened that the status does not record.
Unrecorded(o) == past' = IF o = "lost" THEN past \cup {"unrecorded"} ELSE past

\* keepPersistedID: a cleared id never overwrites a persisted one.
KeepPersistedID(want, got) == IF want = 0 THEN got ELSE want

\* writeStatus: the worker's lastRendered and generation over a fresh copy,
\* which is the informer's: until that has caught up the update conflicts, and
\* without a resource there is nothing to write on.
Writable == seen = obj /\ obj.phase # "absent"
WriteStatus(w, r) ==
  /\ Writable
  /\ obj' = [obj EXCEPT !.id = KeepPersistedID(w.id, obj.id), !.hash = w.hash,
                        !.obs = w.gen, !.reason = r]

\* The write fails: no resource, the retries end in a conflict, or the API
\* server does not answer.
StatusLost == /\ UNCHANGED obj
              /\ \/ ~Writable /\ UNCHANGED upsets
                 \/ Upset

\* Status r, then return; a failed write is only logged.
EndWith(r, again) ==
  /\ \/ WriteStatus(wk, r) /\ UNCHANGED upsets
     \/ StatusLost
  /\ Return(again)

InvalidateOn401 == conn' = IF conn = "Synced" THEN "BadMasterKey" ELSE conn

\* classifyMutationError, for a call that ended in o.  The synthetic default
\* has no resource to write a status on; a failed write is only logged.
ClassifyMutationError(o) ==
  LET Say(r) == IF wk.phase = "absent" THEN UNCHANGED obj
                ELSE WriteStatus(wk, r) \/ ((~Writable \/ upsets' # upsets) /\ UNCHANGED obj)
  IN \/ o = "401" /\ InvalidateOn401 /\ Say("LiteLLMUnavailable") /\ Return(FALSE)
     \/ o = "4xx" /\ Say("LiteLLMRejected") /\ Return(TRUE) /\ UNCHANGED conn
     \/ o \in {"down", "lost"} /\ Return(TRUE) /\ UNCHANGED <<obj, conn>>

-----------------------------------------------------------------------------
(* Starting.                                                               *)

\* closedTeamGrant and attachedGroupModels, over the groups that resolve.
\* Wrong variant: an empty grant is left out of the body.
ClosedTeamGrantSparse(resolved) ==
  IF resolved = {} THEN Omitted
  ELSE [g \in Groups |-> IF g \in resolved THEN groups[g] ELSE 0]

ClosedTeamGrant(resolved) == [g \in Groups |-> IF g \in resolved THEN groups[g] ELSE 0]

Registered == {g \in Groups : groups[g] # 0}
ImplicitDefaultBody == [v |-> 0, grant |-> NoGrant]

\* Step 1: dispatch on the resource and on the connection.
Fetch ==
  /\ pc = "idle" /\ queued
  /\ queued' = FALSE
  /\ wk' = seen
  /\ pc' = CASE seen.phase = "absent"   -> IF name = "default" THEN "implicit" ELSE "idle"
             [] seen.phase = "deleting" -> IF seen.fin THEN "resolve" ELSE "idle"
             [] seen.phase = "live"     -> "groups"
  /\ past' = IF seen.hash # obj.hash THEN past \cup {"unrecorded"} ELSE past
  /\ UNCHANGED <<name, seen, obj, body, target, churn, cache, policy, groups, conn, llmVars, upsets>>

\* How a resource went counts from when it has gone.
Kept(p) == IF obj.phase = "absent" THEN p ELSE p \ {"leftOnCause", "notReset"}

\* An Update carries the resourceVersion of the worker's copy.
Unmoved == obj = wk

\* Step 1.6: the finalizer, and nothing else in this pass.  A conflict returns
\* nil: the event behind it comes.
AddFinalizer ==
  /\ pc = "groups" /\ ~wk.fin
  /\ \/ /\ Unmoved /\ obj' = [obj EXCEPT !.fin = TRUE]
        /\ Return(FALSE) /\ UNCHANGED upsets
     \/ ~Unmoved /\ Return(FALSE) /\ UNCHANGED <<obj, upsets>>
     \/ Upset /\ Return(TRUE) /\ UNCHANGED obj
  /\ UNCHANGED <<name, seen, churn, cache, policy, groups, conn, llmVars, past>>

\* Step 2: no usable connection.
Gate ==
  /\ pc = "groups" /\ wk.fin /\ conn # "Synced"
  /\ EndWith("LiteLLMUnavailable", FALSE)
  /\ UNCHANGED <<name, seen, churn, cache, policy, groups, conn, llmVars, past>>

\* Steps 7 and 7b: the body, over the groups LiteLLM lists now; a name that
\* does not resolve leads to narrowAndPark.
Render ==
  /\ pc = "groups" /\ wk.fin /\ conn = "Synced"
  /\ \E o \in {"ok"} \cup Refusals :
       /\ Outcome(o)
       /\ o # "ok" => wk.attach # {}
       /\ \/ /\ o = "ok"
             /\ body' = [v |-> wk.v, grant |-> ClosedTeamGrant(wk.attach \cap Registered)]
             /\ pc' = IF wk.attach \subseteq Registered THEN "probe" ELSE "narrow"
             /\ UNCHANGED <<obj, wk, target, queued, conn>>
          \/ o # "ok" /\ ClassifyMutationError(o)
  /\ UNCHANGED <<name, seen, churn, cache, policy, groups, llmVars, past>>

-----------------------------------------------------------------------------
(* narrowAndPark: a group is missing.                                      *)

\* Wrong variant of Narrow: parks without narrowing what was granted before.
NarrowNever ==
  /\ pc = "narrow"
  /\ GoOn("park")
  /\ UNCHANGED <<name, seen, obj, churn, cache, policy, groups, conn, llmVars, past, upsets>>

\* A team that exists is first cut down to the groups that resolve, unless
\* lastRendered says it already is.
Narrow ==
  /\ pc = "narrow"
  /\ IF wk.id = 0 \/ wk.hash = body
       THEN GoOn("park") /\ UNCHANGED <<obj, conn, llmVars, past, upsets>>
       ELSE \E o \in Done \cup Refusals :
              /\ Outcome(o)
              /\ Update(wk.id, body, o)
              /\ \/ /\ Answer(wk.id, o) = "ok"
                    /\ wk' = [wk EXCEPT !.hash = body]
                    /\ pc' = "park"
                    /\ UNCHANGED <<obj, body, target, queued, conn>>
                 \/ Answer(wk.id, o) # "ok" /\ ClassifyMutationError(Answer(wk.id, o))
              /\ Unrecorded(o)
  /\ UNCHANGED <<name, seen, churn, cache, policy, groups>>

Park ==
  /\ pc = "park"
  /\ EndWith("AccessGroupNotFound", TRUE)
  /\ past' = IF obj'.hash # wk.hash THEN past \cup {"unrecorded"} ELSE past
  /\ UNCHANGED <<name, seen, churn, cache, policy, groups, conn, llmVars>>

-----------------------------------------------------------------------------
(* Steps 8b to 11: probe, steady state, create or update, record.          *)

\* Wrong variant of Probe: an id once recorded is never doubted.
ProbeNever ==
  /\ pc = "probe"
  /\ GoOn("decide")
  /\ UNCHANGED <<name, seen, obj, churn, cache, policy, groups, conn, llmVars, past, upsets>>

\* Step 8b: does the tracked id still carry the alias?  A 401 leaves it
\* alone; any other error is returned; an absent id is cleared in memory.
Probe ==
  /\ pc = "probe"
  /\ \/ /\ wk.id = 0 \/ wk.hash = NoBody
        /\ GoOn("decide") /\ UNCHANGED <<conn, upsets>>
     \/ /\ wk.id # 0 /\ wk.hash # NoBody
        /\ \E o \in {"ok"} \cup Refusals :
             /\ Outcome(o)
             /\ \/ /\ o = "ok"
                   /\ wk' = IF wk.id \in Listed THEN wk ELSE [wk EXCEPT !.id = 0]
                   /\ pc' = "decide" /\ UNCHANGED <<body, target, queued, conn>>
                \/ o = "401" /\ InvalidateOn401 /\ GoOn("decide")
                \/ o \in {"4xx", "down"} /\ Return(TRUE) /\ UNCHANGED conn
  /\ UNCHANGED <<name, seen, obj, churn, cache, policy, groups, llmVars, past>>

InSteadyState == wk.hash = body /\ wk.id # 0 /\ wk.obs = wk.gen

\* Step 9: nothing to apply; a Ready condition left False is healed.
Steady ==
  /\ pc = "decide" /\ InSteadyState
  /\ \/ /\ wk.reason = "Synced"
        /\ Return(FALSE) /\ churn' = 0 /\ UNCHANGED <<obj, upsets>>
     \/ /\ wk.reason # "Synced"
        /\ WriteStatus(wk, "Synced")
        /\ Return(FALSE) /\ churn' = 0 /\ UNCHANGED upsets
     \/ /\ wk.reason # "Synced"
        /\ StatusLost /\ Return(upsets' # upsets) /\ UNCHANGED churn
  /\ UNCHANGED <<name, seen, cache, policy, groups, conn, llmVars, past>>

FirstReconcile == wk.obs = 0 \/ wk.hash = NoBody

\* Wrong variant of Lookup: the breaker lets one recreate too many through.
LookupOnce ==
  /\ pc = "decide" /\ ~InSteadyState
  /\ target' = Smallest
  /\ pc' = IF Smallest = 0 THEN "create" ELSE "update"
  /\ UNCHANGED <<name, seen, obj, wk, body, queued, churn, cache, policy, groups, conn, llmVars, past, upsets>>

\* Step 10: who has the alias?  Nobody: create, unless the recreate circuit
\* breaker is open.  Somebody: update the smallest id.
Lookup ==
  /\ pc = "decide" /\ ~InSteadyState
  /\ \/ /\ Smallest # 0 \/ FirstReconcile \/ churn < RecreateLimit
        /\ target' = Smallest
        /\ pc' = IF Smallest = 0 THEN "create" ELSE "update"
        /\ UNCHANGED <<obj, wk, body, queued, conn, upsets>>
     \/ /\ Smallest = 0 /\ ~FirstReconcile /\ churn >= RecreateLimit
        /\ EndWith("RecreateThrottled", TRUE)
        /\ UNCHANGED conn
     \/ /\ Upset
        /\ \E o \in Refusals : ClassifyMutationError(o)
  /\ UNCHANGED <<name, seen, churn, cache, policy, groups, llmVars, past>>

\* Step 11's lastRendered, in the worker's copy.
Applied(i) == /\ wk' = [wk EXCEPT !.id = i, !.hash = body]
              /\ pc' = "synced" /\ UNCHANGED <<obj, body, target, queued, conn>>

\* POST /team/new under the resource's name; a recreate is recorded with the
\* churn guard.
CreateNamed ==
  /\ pc = "create"
  /\ \E o \in Done \cup Refusals :
       /\ Outcome(o)
       /\ Create(NamedId, body, o)
       /\ \/ /\ o = "ok" /\ Applied(NamedId)
             /\ churn' = IF FirstReconcile THEN churn ELSE churn + 1
          \/ o # "ok" /\ ClassifyMutationError(o) /\ UNCHANGED churn
       /\ Unrecorded(o)
  /\ UNCHANGED <<name, seen, cache, policy, groups>>

\* POST /team/update on the team the lookup found.
UpdateFound ==
  /\ pc = "update"
  /\ \E o \in Done \cup Refusals :
       /\ Outcome(o)
       /\ Update(target, body, o)
       /\ \/ Answer(target, o) = "ok" /\ Applied(target)
          \/ Answer(target, o) # "ok" /\ ClassifyMutationError(Answer(target, o))
       /\ Unrecorded(o)
  /\ UNCHANGED <<name, seen, churn, cache, policy, groups>>

\* Step 11: the status write.  A conflict returns nil, another error is
\* returned.
WriteSynced ==
  /\ pc = "synced"
  /\ \/ WriteStatus(wk, "Synced") /\ UNCHANGED <<past, upsets>>
     \/ StatusLost /\ past' = past \cup {"unrecorded"}
  /\ Return(upsets' # upsets)
  /\ UNCHANGED <<name, seen, churn, cache, policy, groups, conn, llmVars>>

-----------------------------------------------------------------------------
(* reconcileImplicitDefault: no resource named default.                    *)

\* Wrong variant of ImplicitLookup: a lookup that failed is taken for empty.
ImplicitLookupBlind ==
  /\ pc = "implicit"
  /\ \E o \in {"ok", "down"} :
       /\ Outcome(o)
       /\ target' = IF o = "ok" THEN Smallest ELSE 0
       /\ pc' = IF target' = 0 THEN "bootstrap" ELSE "refresh"
  /\ UNCHANGED <<name, seen, obj, wk, body, queued, churn, cache, policy, groups, conn, llmVars, past>>

ImplicitLookup ==
  /\ pc = "implicit"
  /\ IF conn # "Synced"
       THEN Return(FALSE) /\ UNCHANGED <<obj, conn, upsets>>
       ELSE \E o \in {"ok"} \cup Refusals :
              /\ Outcome(o)
              /\ \/ /\ o = "ok" /\ target' = Smallest
                    /\ pc' = IF Smallest = 0 THEN "bootstrap" ELSE "refresh"
                    /\ UNCHANGED <<obj, wk, body, queued, conn>>
                 \/ o # "ok" /\ ClassifyMutationError(o)
  /\ UNCHANGED <<name, seen, churn, cache, policy, groups, llmVars, past>>

\* What the operator remembers of the implicit default, in memory only.
Remember(i) == cache' = [hash |-> ImplicitDefaultBody, id |-> i]

Bootstrap ==
  /\ pc = "bootstrap"
  /\ \E o \in Done \cup Refusals :
       /\ Outcome(o)
       /\ Create(NextServerId, ImplicitDefaultBody, o)
       /\ \/ o = "ok" /\ Remember(NextServerId) /\ Return(FALSE) /\ UNCHANGED <<obj, conn>>
          \/ o # "ok" /\ ClassifyMutationError(o) /\ UNCHANGED cache
  /\ UNCHANGED <<name, seen, churn, policy, groups, past>>

\* The cached hash and id match: no call.  Else the implicit body is applied.
Remembered(i) == cache = [hash |-> ImplicitDefaultBody, id |-> i]
Refresh ==
  /\ pc = "refresh"
  /\ \/ /\ Remembered(target)
        /\ Return(FALSE) /\ UNCHANGED <<obj, conn, cache, llmVars, upsets>>
     \/ /\ ~Remembered(target)
        /\ \E o \in Done \cup Refusals :
             /\ Outcome(o)
             /\ Update(target, ImplicitDefaultBody, o)
             /\ \/ /\ Answer(target, o) = "ok"
                   /\ Remember(target) /\ Return(FALSE) /\ UNCHANGED <<obj, conn>>
                \/ /\ Answer(target, o) # "ok"
                   /\ ClassifyMutationError(Answer(target, o)) /\ UNCHANGED cache
  /\ UNCHANGED <<name, seen, churn, policy, groups, past>>

-----------------------------------------------------------------------------
(* reconcileDeletion.                                                      *)

Effective == Resolve(policy.owned, policy.ann, policy.spec)

\* onAckMissing: go without LiteLLM's word, or come back later.
AckMissing(permanent) ==
  IF MayDrain(Effective, permanent)
    THEN GoOn("drop") /\ past' = past \cup {"leftOnCause"}
    ELSE Return(TRUE) /\ UNCHANGED past

\* The connection is not usable: the default waits for it, whatever the policy.
DeleteUnavailable ==
  /\ pc = "resolve" /\ conn # "Synced"
  /\ IF name = "default" THEN Return(FALSE) /\ UNCHANGED past
                         ELSE AckMissing(AckUnavailable(conn))
  /\ UNCHANGED <<name, seen, obj, churn, cache, policy, groups, conn, llmVars, upsets>>

\* Which team: the tracked id, or else the smallest under the alias.  With
\* none there is nothing to do.
NextCall == IF name = "default" THEN "reapply" ELSE "delete"
ResolveTeam ==
  /\ pc = "resolve" /\ conn = "Synced"
  /\ \/ /\ wk.id # 0
        /\ target' = wk.id /\ pc' = NextCall
        /\ UNCHANGED <<obj, wk, body, queued, conn, past, upsets>>
     \/ /\ wk.id = 0
        /\ \E o \in {"ok"} \cup Refusals :
             /\ Outcome(o)
             /\ \/ /\ o = "ok"
                   /\ target' = Smallest
                   /\ pc' = IF Smallest = 0 THEN "drop" ELSE NextCall
                   /\ UNCHANGED <<obj, wk, body, queued, conn, past>>
                \/ /\ o # "ok" /\ name = "default"
                   /\ ClassifyMutationError(o) /\ UNCHANGED past
                \/ /\ o = "401" /\ name # "default"
                   /\ AckMissing(FALSE) /\ UNCHANGED <<obj, conn>>
                \/ /\ o \in {"4xx", "down"} /\ name # "default"
                   /\ ClassifyMutationError(o) /\ UNCHANGED past
  /\ UNCHANGED <<name, seen, churn, cache, policy, groups, llmVars>>

\* The default is never deleted: it is reset to the implicit body.  A refusal
\* lets the resource go all the same.
Reapply ==
  /\ pc = "reapply"
  /\ \E o \in Done \cup Refusals :
       /\ Outcome(o)
       /\ Update(target, ImplicitDefaultBody, o)
       /\ \/ Answer(target, o) = "ok" /\ Remember(target) /\ GoOn("drop") /\ UNCHANGED <<conn, past>>
          \/ /\ Answer(target, o) = "401" /\ InvalidateOn401
             /\ GoOn("drop") /\ past' = past \cup {"notReset"} /\ UNCHANGED cache
          \/ /\ Answer(target, o) = "4xx"
             /\ GoOn("drop") /\ past' = past \cup {"notReset"} /\ UNCHANGED <<conn, cache>>
          \/ /\ Answer(target, o) \in {"down", "lost"}
             /\ Return(TRUE) /\ UNCHANGED <<conn, past, cache>>
  /\ UNCHANGED <<name, seen, obj, churn, policy, groups>>

\* Wrong variant of DeleteTeam: any 4xx is taken for an absent team.
DeleteTeamLenient ==
  /\ pc = "delete"
  /\ \E o \in Done \cup Refusals :
       /\ Outcome(o)
       /\ Delete(target, o)
       /\ \/ o \in {"ok", "4xx"} /\ GoOn("drop")
          \/ o \in {"401", "down", "lost"} /\ Return(TRUE)
  /\ UNCHANGED <<name, seen, obj, churn, cache, policy, groups, conn, minted, past>>

\* POST /team/delete: success and 404 are an answer; a 401 is transient and
\* invalidates nothing; another 4xx keeps the finalizer.
DeleteTeam ==
  /\ pc = "delete"
  /\ \E o \in Done \cup Refusals :
       /\ Outcome(o)
       /\ Delete(target, o)
       /\ \/ o = "ok" /\ GoOn("drop") /\ UNCHANGED <<obj, conn, past>>
          \/ o = "401" /\ AckMissing(FALSE) /\ UNCHANGED <<obj, conn>>
          \/ o \in {"4xx", "down", "lost"} /\ ClassifyMutationError(o) /\ UNCHANGED past
  /\ UNCHANGED <<name, seen, churn, cache, policy, groups, minted>>

\* The finalizer goes, the object with it.
DropFinalizer ==
  /\ pc = "drop"
  /\ \/ /\ Unmoved /\ obj' = [obj EXCEPT !.phase = "absent", !.fin = FALSE]
        /\ Return(FALSE) /\ UNCHANGED <<past, upsets>>
     \/ /\ \/ ~Unmoved /\ UNCHANGED upsets
           \/ Upset
        /\ Return(upsets' # upsets)
        /\ past' = Kept(past) /\ UNCHANGED obj
  /\ UNCHANGED <<name, seen, churn, cache, policy, groups, conn, llmVars>>

Reconcile ==
  \/ Fetch \/ AddFinalizer \/ Gate \/ Render \/ Narrow \/ Park \/ Probe \/ Steady \/ Lookup
  \/ CreateNamed \/ UpdateFound \/ WriteSynced
  \/ ImplicitLookup \/ Bootstrap \/ Refresh
  \/ DeleteUnavailable \/ ResolveTeam \/ Reapply \/ DeleteTeam \/ DropFinalizer

-----------------------------------------------------------------------------
(* The queue and the world outside.                                        *)

\* The informer catches up; the event queues the name.
Sync ==
  /\ seen # obj
  /\ seen' = obj
  /\ queued' = TRUE
  /\ UNCHANGED <<name, obj, wkVars, churn, cache, policy, groups, conn, llmVars, past, upsets>>

\* SafetyRelistRunnable lists the resources, TeamDefaultRunnable knows one.
Relist ==
  /\ ~queued /\ pc = "idle"
  /\ seen.phase # "absent" \/ name = "default"
  /\ queued' = TRUE
  /\ UNCHANGED <<name, seen, obj, wkVars, churn, cache, policy, groups, conn, llmVars, past, upsets>>

\* A user applies, edits or deletes the resource.
ApplyObj ==
  /\ Upset
  /\ obj.phase = "absent"
  /\ \E a \in SUBSET Groups : obj' = NewObj(a)
  /\ past' = past \ {"leftOnCause", "notReset"}
  /\ UNCHANGED <<name, seen, wkVars, queued, churn, cache, policy, groups, conn, llmVars>>

EditSpec ==
  /\ Upset
  /\ obj.phase = "live"
  /\ \E a \in SUBSET Groups, n \in {upsets + 2} \cup (IF Reverts THEN {obj.v} ELSE {}) :
       obj' = [obj EXCEPT !.attach = a, !.v = n, !.gen = @ + 1]
  /\ UNCHANGED <<name, seen, wkVars, queued, churn, cache, policy, groups, conn, llmVars, past>>

DeleteObj ==
  /\ Upset
  /\ obj.phase = "live"
  /\ obj' = [obj EXCEPT !.phase = IF obj.fin THEN "deleting" ELSE "absent"]
  /\ UNCHANGED <<name, seen, wkVars, queued, churn, cache, policy, groups, conn, llmVars, past>>

\* A group's row goes, comes or changes: through its own resource, whose
\* events accessGroupToTeams turns into a request, or in LiteLLM's UI.
ChangeGroup ==
  /\ Upset
  /\ \E g \in Groups, n \in {0, upsets + 2} :
       /\ n # groups[g]
       /\ groups' = [groups EXCEPT ![g] = n]
       /\ queued' \in {queued, queued \/ (seen.phase # "absent" /\ g \in seen.attach)}
  /\ UNCHANGED <<name, seen, obj, wkVars, churn, cache, policy, conn, llmVars, past>>

\* Somebody deletes a team, or makes another of this alias.
OutOfBandDelete ==
  /\ Upset
  /\ \E r \in rows : rows' = rows \ {r}
  /\ UNCHANGED <<name, seen, obj, wkVars, queued, churn, cache, policy, groups, conn, minted, past>>

OutOfBandCreate ==
  /\ Upset
  /\ rows' = rows \cup {[id |-> NextServerId, body |-> ImplicitDefaultBody]}
  /\ minted' = minted + 1
  /\ past' = past \cup {"duplicate"}
  /\ UNCHANGED <<name, seen, obj, wkVars, queued, churn, cache, policy, groups, conn>>

\* LiteLLM is lost or the connection deleted; or back, and the fan-in queues
\* the resource.
ConnDown ==
  /\ Upset
  /\ conn = "Synced"
  /\ conn' \in {"Unreachable", "Absent"}
  /\ UNCHANGED <<name, seen, obj, wkVars, queued, churn, cache, policy, groups, llmVars, past>>

ConnUp ==
  /\ conn \in {"Unreachable", "BadMasterKey"}
  /\ conn' = "Synced"
  /\ queued' = (queued \/ seen.phase # "absent")
  /\ UNCHANGED <<name, seen, obj, wkVars, churn, cache, policy, groups, llmVars, past, upsets>>

\* The churn window passes.
Expire ==
  /\ churn > 0
  /\ churn' = churn - 1
  /\ UNCHANGED <<name, seen, obj, wkVars, queued, cache, policy, groups, conn, llmVars, past, upsets>>

\* The operator restarts: worker, guard and implicit cache are gone; every
\* resource, and the default, is queued.
Crash ==
  /\ Upset
  /\ pc' = "idle" /\ wk' = Absent /\ body' = NoBody /\ target' = 0
  /\ seen' = obj
  /\ queued' = TRUE /\ churn' = 0 /\ cache' = NoCache
  /\ past' = Kept(IF pc \in {"synced", "park"} /\ wk.hash # obj.hash
                    THEN past \cup {"unrecorded"} ELSE past)
  /\ UNCHANGED <<name, obj, policy, groups, conn, llmVars>>

Outside == \/ ApplyObj \/ EditSpec \/ DeleteObj \/ ChangeGroup \/ OutOfBandDelete
           \/ OutOfBandCreate \/ ConnDown \/ ConnUp \/ Expire \/ Crash

Next == Reconcile \/ Sync \/ Relist \/ Outside

Spec == Init /\ [][Next]_vars

\* The worker goes on while it has work, informer and tickers come round, the
\* connection recovers (module Connection), the window passes.
Fairness == /\ WF_vars(Reconcile) /\ WF_vars(Sync) /\ WF_vars(Relist)
            /\ WF_vars(ConnUp) /\ WF_vars(Expire)
FairSpec == Spec /\ Fairness

-----------------------------------------------------------------------------
(* Properties.                                                             *)

AtRest == pc = "idle" /\ ~queued /\ seen = obj

\* With the connection up, a team at rest that says Synced for its generation
\* is what LiteLLM holds under the id it tracks.
SyncedServes ==
  AtRest /\ conn = "Synced" /\ obj.phase = "live" /\ obj.reason = "Synced" /\ obj.obs = obj.gen =>
    \A r \in RowOf(obj.id) : r.body = obj.hash /\ r.body.v = obj.v

\* No synthetic default, lost answer, edit in flight, restart or error path
\* makes the operator record a body LiteLLM does not have, as long as nobody
\* else makes a team of the alias.
SyncedMatches == "duplicate" \notin past => SyncedServes

\* A team parked for a missing group has been cut down first: as long as no
\* applied write went unrecorded, its row is what lastRendered says, and that
\* lacks a group the spec attaches.
Narrowed ==
  pc = "idle" /\ obj.phase = "live" /\ obj.reason = "AccessGroupNotFound"
    /\ obj.obs = obj.gen /\ "unrecorded" \notin past =>
    \A r \in RowOf(obj.id) : /\ r.body = obj.hash
                             /\ \E g \in obj.attach : r.body.grant[g] = 0

\* An ordinary team leaves its tracked row behind only under Orphan and only
\* once the connection is gone for good; a 401, an outage, a rejection or a
\* conflict never lets it go.
NoSilentLeak ==
  name # "default" /\ obj.phase = "absent" /\ obj.id # 0 /\ RowOf(obj.id) # {} =>
    Effective = "Orphan" /\ "leftOnCause" \in past

\* The synthetic reconcile and the resource's own, lost answers, retries and
\* restarts never make a second team of the alias.
OneRow == "duplicate" \notin past => Cardinality(rows) <= 1

\* The default team as it is without a resource.
IsReset == \E r \in rows : r.id = Smallest /\ r.body = ImplicitDefaultBody

\* A live team whose groups are there ends up Synced with the row it asks for.
Settled ==
  /\ obj.reason = "Synced" /\ obj.obs = obj.gen
  /\ \E r \in RowOf(obj.id) :
       r.body = [v |-> obj.v, grant |-> ClosedTeamGrant(obj.attach)]

\* The tracked row grants nothing of a group that is gone.
NothingLingers == \A r \in RowOf(obj.id), g \in Groups \ Registered : r.body.grant[g] = 0

\* While the connection can come back: a team whose groups exist is applied;
\* one with a group missing is parked and, unless a record was lost, has none
\* of it; a deleted one goes; and LiteLLM ends up with a default team, the
\* implicit one unless a resource says otherwise or a refusal kept it from
\* being reset.
Converges ==
  <>[](conn # "Absent") =>
    <>[](\/ obj.phase = "live" /\ obj.attach \subseteq Registered /\ Settled
         \/ /\ obj.phase = "live" /\ ~(obj.attach \subseteq Registered)
            /\ obj.reason \in {"AccessGroupNotFound", "LiteLLMRejected"}
            /\ NothingLingers \/ "unrecorded" \in past
         \/ obj.phase = "absent" /\ name = "team"
         \/ /\ obj.phase = "absent" /\ name = "default" /\ rows # {}
            /\ IsReset \/ "notReset" \in past)

\* narrowAndPark: a team does not keep its access to a vanished group
\* indefinitely.
VanishedGroupIsLost ==
  <>[](conn # "Absent") => <>[](obj.phase = "live" => NothingLingers)

\* docs/user-guide/team.md: deleting the declared default "falls back to the
\* empty state"; reconcileDeletion expects the next reconcile to bootstrap it
\* again when the reset was refused.
DefaultIsReset ==
  <>[](conn # "Absent" /\ obj.phase = "absent" /\ name = "default") => <>[]IsReset
=============================================================================
