----------------------------- MODULE MCPServer -----------------------------
(***************************************************************************)
(* The LiteLLMMCPServer reconciler, mcpserver_controller.go, for resources  *)
(* whose names all sanitize to one LiteLLM server_name, so that at most one *)
(* of them may own the entry.  Servers are numbered in the order of their   *)
(* <namespace>/<name>; the controller has one worker.  Every HTTP call and  *)
(* every write to the API server is a step.                                 *)
(*                                                                         *)
(* The vanish probe reads LiteLLM through the client's list cache, here one *)
(* entry that answered mutations drop (module ListCache has its inside).    *)
(***************************************************************************)
EXTENDS Integers, FiniteSets, FiniteSetsExt, DeletionPolicy

CONSTANTS Servers,        \* the resources, in name order
          Raw,            \* those whose own name is not a legal server_name
          LegacyRows,     \* a row may exist under the raw name of one of them
          PolicySet,      \* effective deletion policies
          BadSpecs,       \* spec versions that do not decode
          RecreateLimit,  \* recreates per window
          MaxEvents,      \* bound: changes made from outside
          MaxFaults       \* bound: calls that do not simply succeed, reconciles
                          \* that start from old copies, operator restarts

ASSUME MCPServerAssumption ==
  /\ Servers \subseteq Nat \ {0} /\ IsFiniteSet(Servers) /\ Servers # {}
  /\ Raw \subseteq Servers /\ LegacyRows \in BOOLEAN
  /\ PolicySet \subseteq Policies /\ PolicySet # {}
  /\ BadSpecs \subseteq Nat /\ RecreateLimit \in Nat \ {0}
  /\ MaxEvents \in Nat /\ MaxFaults \in Nat

VARIABLES
  obj,      \* the LiteLLMMCPServers in the API server
  seen,     \* the informer's copies
  q,        \* queued resources
  cur,      \* the one being reconciled, 0 when the worker is idle
  pc, wk, body,  \* where Reconcile is, its copy, what it rendered
  target,   \* the row a finalizer is to delete
  lcache,   \* the client's list cache
  churn,    \* recreates counted per resource
  policy, secret, conn,
  rows,     \* LiteLLM's entries for this server_name (external)
  left,     \* resources that dropped the finalizer on a permanent cause
  blind,    \* resources that went without knowing whether they had a row
  kept,     \* resources that left their row to a live sibling
  misled,   \* resources whose hash may not describe the row their id names: they
            \* missed a winner, or had the record changed without a call to LiteLLM
  events, faults

apiVars == <<obj, seen>>
wkVars  == <<cur, pc, wk, body, target>>
ghosts  == <<left, blind, kept, misled>>
envVars == <<policy, secret, events>>
vars == <<obj, seen, q, cur, pc, wk, body, target, lcache, churn, policy, secret, conn,
          rows, left, blind, kept, misled, events, faults>>

Versions == 0 .. MaxEvents + 1
NoId == ""
Pinned == "pinned"   \* server_id = sanitized name, as every create asks for
Ids == {Pinned, "legacy", "manual"}

\* What a hash tells apart: whose spec, which version, which Secret.
Bodies == [by : Servers \cup {0}, v : Versions, sec : Versions]
NoBody == [by |-> 0, v |-> 0, sec |-> 0]
LoserHash == [by |-> 0, v |-> 1, sec |-> 0]   \* mcpLoserHash, matches no body
ForeignBody == [by |-> 0, v |-> 1, sec |-> 1]

\* name 0 is the sanitized server_name, n the raw name of server n.
Rows == [id : Ids, name : Raw \cup {0}, body : Bodies]

Objs == [phase : {"absent", "live", "deleting", "gone"}, fin : BOOLEAN,
         gen : 0 .. MaxEvents + 1, v : Versions,
         id : Ids \cup {NoId}, hash : Bodies, obs : 0 .. MaxEvents + 1,
         reason : {"none", "Synced", "Conflict", "LiteLLMUnavailable", "LiteLLMRejected",
                   "InvalidConfig", "SecretNotFound", "RecreateThrottled"}]

PCs == {"idle", "start", "delete", "drop", "probe", "decide",
        "create", "update", "synced"}

\* A cached listing, or a cached error; both live until the TTL ends.
Listing == [ok : {TRUE}, rows : SUBSET [id : Ids, name : Raw \cup {0}]]
           \cup [ok : {FALSE}, err : {"401", "4xx", "down"}]
NoList == [ok |-> FALSE, err |-> "none"]

TypeOK ==
  /\ obj \in [Servers -> Objs] /\ seen \in [Servers -> Objs]
  /\ q \subseteq Servers
  /\ cur \in Servers \cup {0} /\ pc \in PCs /\ (cur = 0 <=> pc = "idle")
  /\ wk \in Objs /\ body \in Bodies /\ target \in Ids \cup {NoId}
  /\ lcache \in Listing \cup {NoList}
  /\ churn \in [Servers -> 0 .. RecreateLimit]
  /\ policy \in Policies /\ secret \in Versions
  /\ conn \in {"Synced", "Unreachable", "BadMasterKey", "Absent"}
  /\ rows \subseteq Rows /\ \A r, s \in rows : r.id = s.id => r = s
  /\ left \subseteq Servers /\ blind \subseteq Servers
  /\ kept \subseteq Servers /\ misled \subseteq Servers
  /\ events \in 0 .. MaxEvents /\ faults \in 0 .. MaxFaults

Nothing == [phase |-> "absent", fin |-> FALSE, gen |-> 0, v |-> 0, id |-> NoId,
            hash |-> NoBody, obs |-> 0, reason |-> "none"]
NewObj == [Nothing EXCEPT !.phase = "live", !.gen = 1, !.v = 1]

Init ==
  /\ \E made \in SUBSET Servers \ {{}} :
       /\ obj = [c \in Servers |-> IF c \in made THEN NewObj ELSE Nothing]
       /\ q = made
  /\ seen = obj
  /\ cur = 0 /\ pc = "idle" /\ wk = Nothing /\ body = NoBody /\ target = NoId
  /\ lcache = NoList /\ churn = [c \in Servers |-> 0]
  /\ policy \in PolicySet /\ secret = 1 /\ conn = "Synced"
  /\ \/ rows = {}
     \/ LegacyRows /\ \E n \in Raw : rows = {[id |-> "legacy", name |-> n, body |-> ForeignBody]}
  /\ left = {} /\ blind = {} /\ kept = {} /\ misled = {}
  /\ events = 0 /\ faults = 0

-----------------------------------------------------------------------------
(* LiteLLM (external) and the client's list cache.                         *)

\* ok: done and answered.  401, 4xx: refused.  down: never arrived.
\* lost: done, but the answer did not come.
Fault == faults < MaxFaults /\ faults' = faults + 1
Outcome(o) == IF o = "ok" THEN UNCHANGED faults ELSE Fault
Refusals == {"401", "4xx", "down"}
Done == {"ok", "lost"}

RowOf(i) == {r \in rows : r.id = i}
Served == {r \in rows : r.name = 0}
Refs(rs) == {[id |-> r.id, name |-> r.name] : r \in rs}

\* The rows a resource takes for its own: its sanitized or its raw name.
Mine(refs, c) == {r \in refs : r.name = 0 \/ (c \in Raw /\ r.name = c)}

\* POST /v1/mcp/server with the pinned id: a duplicate is refused.
CreateRefused == Served # {} \/ RowOf(Pinned) # {}
Create(b, o) ==
  rows' = IF o \in Done /\ ~CreateRefused
            THEN rows \cup {[id |-> Pinned, name |-> 0, body |-> b]} ELSE rows

\* PUT /v1/mcp/server replaces the row, its name included; unknown id: 404.
Update(i, b, o) ==
  rows' = IF o \in Done THEN (rows \ RowOf(i)) \cup {[r EXCEPT !.name = 0, !.body = b] : r \in RowOf(i)}
                        ELSE rows

\* DELETE /v1/mcp/server/{id}; 404 is success.
Delete(i, o) == rows' = IF o \in Done THEN rows \ RowOf(i) ELSE rows

\* A mutation that is answered drops the cached listing.
InvalidateMCPCache(o) == lcache' = IF o = "ok" THEN NoList ELSE lcache

\* CachedListMCPServers' entry after a call of the reconciler's own.
ListingOf(o) == IF o = "ok" THEN [ok |-> TRUE, rows |-> Refs(rows)] ELSE [ok |-> FALSE, err |-> o]

-----------------------------------------------------------------------------
(* How a reconcile ends.                                                   *)

Finish == cur' = 0 /\ pc' = "idle" /\ wk' = Nothing /\ body' = NoBody /\ target' = NoId
GoOn(p) == pc' = p /\ UNCHANGED <<cur, wk, body, target, q>>
Requeue == Finish /\ q' = q \cup {cur}

\* keepPersistedID: a cleared id never overwrites a persisted one.
KeepPersistedID(want, got) == IF want = NoId THEN got ELSE want

\* writeStatus: over the informer's copy, which must have caught up.
WriteStatus(w, r) ==
  /\ seen[cur] = obj[cur]
  /\ obj' = [obj EXCEPT ![cur].id = KeepPersistedID(w.id, @), ![cur].hash = w.hash,
                        ![cur].obs = w.gen, ![cur].reason = r]
StatusConflict == seen[cur] # obj[cur] /\ UNCHANGED obj
StatusLost == \/ StatusConflict /\ UNCHANGED faults
              \/ Fault /\ UNCHANGED obj

\* A status write that follows no answered mutation and is no demotion changes
\* the record only with an adopted id whose row was not updated, or from a copy
\* older than the record: the hash may then describe another row.
RecordOf(o) == <<o.id, o.hash>>
Note ==
  /\ misled' = IF RecordOf(obj'[cur]) # RecordOf(obj[cur]) THEN misled \cup {cur} ELSE misled
  /\ UNCHANGED <<left, blind, kept>>

\* A failed write is only logged.
EndWith(r) == \/ WriteStatus(wk, r) /\ UNCHANGED faults
              \/ StatusLost

InvalidateOn401 == conn' = IF conn = "Synced" THEN "BadMasterKey" ELSE conn

\* classifyMutationError, for a call that ended in o.
ClassifyMutationError(o) ==
  \/ /\ o = "401"
     /\ InvalidateOn401
     /\ WriteStatus(wk, "LiteLLMUnavailable") \/ StatusConflict
     /\ Finish /\ UNCHANGED q
  \/ /\ o = "4xx"
     /\ WriteStatus(wk, "LiteLLMRejected") \/ StatusConflict
     /\ Requeue /\ UNCHANGED conn
  \/ /\ o \in {"down", "lost"}
     /\ Requeue /\ UNCHANGED <<obj, conn>>

-----------------------------------------------------------------------------
(* The queue and its watches.                                              *)

\* The objects the informer lists.
Present == {c \in Servers : seen[c].phase \in {"live", "deleting"}}

\* enqueueMCPServerSiblings.
Siblings(c) == Present \ {c}

\* Wrong variant of FannedOut: a resource's events concern only itself.
FannedOutNever(c) == {c}

\* The informer's event for c: c itself, and the siblings when c appears or
\* disappears (mcpServerSiblingCreateDelete drops updates).
FannedOut(c) ==
  {c} \cup IF seen[c].phase = "absent" \/ obj[c].phase = "gone" THEN Siblings(c) ELSE {}

\* The informer, one watch for all of them, catches up.
Sync ==
  /\ seen # obj
  /\ seen' = obj
  /\ q' = q \cup UNION {FannedOut(c) : c \in {d \in Servers : seen[d] # obj[d]}}
  /\ UNCHANGED <<obj, wkVars, lcache, churn, conn, rows, ghosts, envVars, faults>>

\* SafetyRelistRunnable queues all of them; a tick while there is other work is
\* one after it.
Relist ==
  /\ q = {} /\ cur = 0 /\ Present # {}
  /\ q' = Present
  /\ UNCHANGED <<apiVars, wkVars, lcache, churn, conn, rows, ghosts, envVars, faults>>

\* Step 1: from the informer's copy, however old it and its siblings are.
Fetch(c) ==
  /\ cur = 0 /\ c \in q
  /\ IF seen = obj THEN UNCHANGED faults ELSE Fault
  /\ q' = q \ {c}
  /\ IF seen[c].phase \in {"live", "deleting"}
       THEN cur' = c /\ wk' = seen[c] /\ pc' = "start" /\ UNCHANGED <<body, target>>
       ELSE UNCHANGED wkVars
  /\ UNCHANGED <<apiVars, lcache, churn, conn, rows, ghosts, envVars>>

-----------------------------------------------------------------------------
(* Who owns the entry.                                                     *)

\* Wrong variant of Candidates: a deleting resource still counts.
CandidatesAll == {c \in Servers : seen[c].phase \in {"live", "deleting"}}

\* conflictWinner's candidates: not deleting, as the informer shows them.
Candidates == {c \in Servers : seen[c].phase = "live"}

\* ResolveWinner and IsLoser: the last in name order wins.
Loser == Candidates # {} /\ cur # Max(Candidates)

\* Wrong variant of SharedEntryOwner: every row is one's own.
OwnerNobody == 0

\* sharedEntryOwner: the sibling whose entry a deleting resource must leave
\* alone; a distinct id is a row of one's own.
SharedEntryOwner ==
  IF Candidates = {} THEN 0
  ELSE LET o == Max(Candidates)
       IN IF wk.id \notin {NoId, Pinned, seen[o].id} THEN 0 ELSE o

-----------------------------------------------------------------------------
(* Step 2a: deletion.                                                      *)

Deleting == pc = "start" /\ wk.phase = "deleting" /\ wk.fin

\* onAckMissing.
AckMissing(permanent) ==
  IF MayDrain(policy, permanent)
    THEN GoOn("drop") /\ left' = left \cup {cur}
    ELSE Requeue /\ UNCHANGED left

DeleteUnavailable ==
  /\ Deleting /\ conn # "Synced"
  /\ AckMissing(AckUnavailable(conn))
  /\ UNCHANGED <<apiVars, lcache, churn, conn, rows, blind, kept, misled, envVars, faults>>

\* A live sibling owns the entry: no DELETE.
DeleteSkipped ==
  /\ Deleting /\ conn = "Synced" /\ SharedEntryOwner # 0
  /\ GoOn("drop") /\ kept' = kept \cup {cur}
  /\ UNCHANGED <<apiVars, lcache, churn, conn, rows, left, blind, misled, envVars, faults>>

\* DeleteMCPServer.  A 401 is transient and invalidates nothing; another 4xx
\* is permanent.
DeleteCall(i) ==
  \E o \in Done \cup Refusals :
    /\ Outcome(o)
    /\ Delete(i, o) /\ InvalidateMCPCache(o)
    /\ \/ o = "ok" /\ GoOn("drop") /\ UNCHANGED left
       \/ o = "401" /\ AckMissing(FALSE)
       \/ o = "4xx" /\ AckMissing(TRUE)
       \/ o \in {"down", "lost"} /\ Requeue /\ UNCHANGED left

DeleteTracked ==
  /\ Deleting /\ conn = "Synced" /\ SharedEntryOwner = 0 /\ wk.id # NoId
  /\ DeleteCall(wk.id)
  /\ UNCHANGED <<apiVars, churn, conn, blind, kept, misled, envVars>>

\* resolveServerIDByName: the sanitized name first, then the raw one.
Preferred(refs) == IF \E r \in refs : r.name = 0 THEN {r \in refs : r.name = 0} ELSE refs

\* Without an id: look the row up by name; an error is taken for absence.
DeleteByName ==
  /\ Deleting /\ conn = "Synced" /\ SharedEntryOwner = 0 /\ wk.id = NoId
  /\ \E o \in {"ok"} \cup Refusals :
       /\ Outcome(o)
       /\ \/ /\ o = "ok"
             /\ \E r \in Preferred(Mine(Refs(rows), cur)) : target' = r.id
             /\ pc' = "delete" /\ UNCHANGED <<cur, wk, body, q, blind>>
          \/ /\ o = "ok" /\ Mine(Refs(rows), cur) = {}
             /\ GoOn("drop") /\ UNCHANGED blind
          \/ /\ o # "ok"
             /\ GoOn("drop") /\ blind' = blind \cup {cur}
       /\ IF o = "401" THEN InvalidateOn401 ELSE UNCHANGED conn
  /\ UNCHANGED <<apiVars, lcache, churn, rows, left, kept, misled, envVars>>

DeleteResolved ==
  /\ pc = "delete"
  /\ DeleteCall(target)
  /\ UNCHANGED <<apiVars, churn, conn, blind, kept, misled, envVars>>

\* An Update carries the resourceVersion of the worker's copy.
Unmoved == obj[cur] = wk
UpdateFails == \/ ~Unmoved /\ UNCHANGED faults
               \/ Fault

\* The ghosts tell how a resource went; one that has not gone may go otherwise.
Still(s) == {c \in s : c # cur \/ obj[c].phase = "gone"}

\* The finalizer goes, and the object with it.
DropFinalizer ==
  /\ pc = "drop"
  /\ \/ /\ Unmoved /\ UNCHANGED faults
        /\ obj' = [obj EXCEPT ![cur].phase = "gone", ![cur].fin = FALSE]
        /\ Finish /\ UNCHANGED <<q, left, blind, kept>>
     \/ /\ UpdateFails
        /\ Requeue /\ UNCHANGED obj
        /\ left' = Still(left) /\ blind' = Still(blind) /\ kept' = Still(kept)
  /\ UNCHANGED <<seen, lcache, churn, conn, rows, misled, envVars>>

\* Step 2b, and a deleting object that has no finalizer any more.
AddFinalizer ==
  /\ pc = "start" /\ ~wk.fin
  /\ \/ wk.phase = "deleting" /\ Finish /\ UNCHANGED <<obj, q, faults>>
     \/ /\ wk.phase = "live" /\ Unmoved
        /\ obj' = [obj EXCEPT ![cur].fin = TRUE]
        /\ Finish /\ UNCHANGED <<q, faults>>
     \/ wk.phase = "live" /\ UpdateFails /\ Requeue /\ UNCHANGED obj
  /\ UNCHANGED <<seen, lcache, churn, conn, rows, ghosts, envVars>>

-----------------------------------------------------------------------------
(* Steps 3 to 8.                                                           *)

Live == pc = "start" /\ wk.phase = "live" /\ wk.fin

\* Step 3: the connection is not usable.
Park ==
  /\ Live /\ conn # "Synced"
  /\ EndWith("LiteLLMUnavailable") /\ Note /\ Finish
  /\ UNCHANGED <<seen, q, lcache, churn, conn, rows, envVars>>

\* Wrong variant of Demoted: the loser keeps its hash.
DemotedQuietly(w) == [w EXCEPT !.reason = "Conflict", !.obs = w.gen]

\* The loser's status: Conflict, and a hash no body has.
Demoted(w) == [w EXCEPT !.reason = "Conflict", !.obs = w.gen, !.hash = LoserHash]

\* A loser says so and stops.  A conflicting write is tried again.
Demote ==
  /\ Live /\ conn = "Synced" /\ Loser
  /\ \/ Unmoved /\ obj' = [obj EXCEPT ![cur] = Demoted(wk)] /\ Finish /\ UNCHANGED <<q, faults>>
     \/ UpdateFails /\ Requeue /\ UNCHANGED obj
  /\ UNCHANGED <<seen, lcache, churn, conn, rows, ghosts, envVars>>

\* The winner goes on with steps 3.5 to 7.  Duplicate names are noticed before
\* the Secret is read, a bag that does not decode after it.
Rendered(c, o) == [by |-> c, v |-> o.v, sec |-> secret]
Render ==
  /\ Live /\ conn = "Synced" /\ ~Loser
  /\ \/ wk.v \in BadSpecs /\ EndWith("InvalidConfig") /\ Finish /\ UNCHANGED q
     \/ secret = 0 /\ EndWith("SecretNotFound") /\ Requeue
     \/ /\ wk.v \notin BadSpecs /\ secret # 0
        /\ body' = Rendered(cur, wk)
        /\ pc' = "probe" /\ UNCHANGED <<obj, cur, wk, target, q, faults>>
  /\ Note
  /\ UNCHANGED <<seen, lcache, churn, conn, rows, envVars>>

\* Step 7b's question is put only for a recorded id with a recorded hash.
Probes == wk.id # NoId /\ wk.hash # NoBody

\* What probeVanishedResourceID makes of a listing: the first entry of either
\* name must be the tracked one; an error other than 401 or 404 is returned.
Judge(l) ==
  \/ /\ l.ok
     /\ LET mine == Mine(l.rows, cur) IN
          \/ /\ \E r \in mine : r.id = wk.id
             /\ GoOn("decide")
          \/ /\ mine = {} \/ \E r \in mine : r.id # wk.id
             /\ wk' = [wk EXCEPT !.id = NoId]
             /\ pc' = "decide" /\ UNCHANGED <<cur, body, target, q>>
     /\ UNCHANGED conn
  \/ /\ ~l.ok /\ l.err = "401"
     /\ InvalidateOn401 /\ GoOn("decide")
  \/ /\ ~l.ok /\ l.err = "4xx"
     /\ wk' = [wk EXCEPT !.id = NoId]
     /\ pc' = "decide" /\ UNCHANGED <<cur, body, target, q, conn>>
  \/ /\ ~l.ok /\ l.err # "401"
     /\ Requeue /\ UNCHANGED conn

\* Step 7b, through the list cache.
Probe ==
  /\ pc = "probe"
  /\ \/ ~Probes /\ GoOn("decide") /\ UNCHANGED <<lcache, conn, faults>>
     \/ /\ Probes /\ lcache # NoList
        /\ Judge(lcache) /\ UNCHANGED <<lcache, faults>>
     \/ /\ Probes /\ lcache = NoList
        /\ \E o \in {"ok"} \cup Refusals :
             Outcome(o) /\ lcache' = ListingOf(o) /\ Judge(lcache')
  /\ UNCHANGED <<apiVars, churn, rows, ghosts, envVars>>

\* Wrong variant of InSteadyState: nothing has changed but perhaps the Secret.
SteadyByGeneration == wk.id # NoId /\ wk.obs = wk.gen

InSteadyState == wk.hash = body /\ wk.id # NoId /\ wk.obs = wk.gen

\* Step 8.
Steady ==
  /\ pc = "decide" /\ InSteadyState
  /\ \/ /\ wk.reason = "Synced"
        /\ Finish /\ churn' = [churn EXCEPT ![cur] = 0] /\ UNCHANGED <<obj, q, faults>>
     \/ /\ wk.reason # "Synced" /\ WriteStatus(wk, "Synced")
        /\ Finish /\ churn' = [churn EXCEPT ![cur] = 0] /\ UNCHANGED <<q, faults>>
     \/ /\ wk.reason # "Synced" /\ StatusLost
        /\ Finish /\ q' = (IF faults' # faults THEN q \cup {cur} ELSE q) /\ UNCHANGED churn
  /\ Note
  /\ UNCHANGED <<seen, lcache, conn, rows, envVars>>

-----------------------------------------------------------------------------
(* Steps 9 and 11.                                                         *)

FirstReconcile == wk.obs = 0 \/ wk.hash = NoBody

\* Orphan adoption: without an id, look for a row of either name first; an
\* error is taken for absence.
FindByName ==
  /\ pc = "decide" /\ ~InSteadyState /\ wk.id = NoId
  /\ \E o \in {"ok"} \cup Refusals :
       /\ Outcome(o)
       /\ \/ /\ o = "ok"
             /\ \E r \in Preferred(Mine(Refs(rows), cur)) : wk' = [wk EXCEPT !.id = r.id]
             /\ pc' = "update" /\ UNCHANGED <<cur, body, target, q>>
          \/ o = "ok" /\ Mine(Refs(rows), cur) = {} /\ GoOn("create")
          \/ o # "ok" /\ GoOn("create")
       /\ IF o = "401" THEN InvalidateOn401 ELSE UNCHANGED conn
  /\ UNCHANGED <<apiVars, lcache, churn, rows, ghosts, envVars>>

Throttled == ~FirstReconcile /\ churn[cur] >= RecreateLimit

\* The recreate circuit breaker.
Throttle ==
  /\ pc = "create" /\ Throttled
  /\ EndWith("RecreateThrottled") /\ Note /\ Requeue
  /\ UNCHANGED <<seen, lcache, churn, conn, rows, envVars>>

\* A mutation was answered: step 11's lastRendered, in the worker's copy.
Applied(i) ==
  /\ wk' = [wk EXCEPT !.id = i, !.hash = body]
  /\ pc' = "synced"
  /\ UNCHANGED <<obj, cur, body, target, q, conn>>

\* POST /v1/mcp/server; a recreate is recorded with the churn guard.
CreateNew ==
  /\ pc = "create" /\ ~Throttled
  /\ \E o \in Done \cup Refusals :
       /\ Outcome(o)
       /\ Create(body, o)
       /\ \/ /\ o = "ok" /\ ~CreateRefused
             /\ Applied(Pinned) /\ InvalidateMCPCache(o)
             /\ churn' = IF FirstReconcile THEN churn ELSE [churn EXCEPT ![cur] = @ + 1]
          \/ /\ o # "ok" \/ CreateRefused
             /\ ClassifyMutationError(IF o = "ok" THEN "4xx" ELSE o)
             /\ UNCHANGED <<churn, lcache>>
  /\ Note
  /\ UNCHANGED <<seen, envVars>>

\* PUT /v1/mcp/server on the tracked or adopted row; 404 is a rejection.
UpdateRow ==
  /\ pc = "update" \/ (pc = "decide" /\ ~InSteadyState /\ wk.id # NoId)
  /\ \E o \in Done \cup Refusals :
       /\ Outcome(o)
       /\ Update(wk.id, body, o)
       /\ \/ /\ o = "ok" /\ RowOf(wk.id) # {} /\ Applied(wk.id) /\ InvalidateMCPCache(o)
          \/ /\ o # "ok" \/ RowOf(wk.id) = {}
             /\ ClassifyMutationError(IF o = "ok" THEN "4xx" ELSE o)
             /\ UNCHANGED lcache
  /\ Note
  /\ UNCHANGED <<seen, churn, envVars>>

\* Step 11: a conflict returns nil, the informer's event comes back; another
\* error is returned.
WriteSynced ==
  /\ pc = "synced"
  /\ \/ WriteStatus(wk, "Synced") /\ misled' = misled \ {cur} /\ UNCHANGED <<q, faults>>
     \/ StatusLost /\ q' = (IF faults' # faults THEN q \cup {cur} ELSE q) /\ UNCHANGED misled
  /\ Finish
  /\ UNCHANGED <<seen, lcache, churn, conn, rows, left, blind, kept, envVars>>

Reconcile ==
  \/ \E c \in Servers : Fetch(c)
  \/ DeleteUnavailable \/ DeleteSkipped \/ DeleteTracked \/ DeleteByName \/ DeleteResolved
  \/ DropFinalizer \/ AddFinalizer \/ Park \/ Demote \/ Render \/ Probe \/ Steady
  \/ FindByName \/ Throttle \/ CreateNew \/ UpdateRow \/ WriteSynced

-----------------------------------------------------------------------------
(* The world outside.                                                      *)

Event == events < MaxEvents /\ events' = events + 1

CreateObj(c) ==
  /\ Event
  /\ obj[c].phase = "absent"
  /\ obj' = [obj EXCEPT ![c] = NewObj]
  /\ UNCHANGED <<seen, q, wkVars, lcache, churn, conn, rows, ghosts, policy, secret, faults>>

\* Endpoint, transport or params are edited.
EditSpec(c) ==
  /\ Event
  /\ obj[c].phase = "live"
  /\ obj' = [obj EXCEPT ![c].v = events + 2, ![c].gen = @ + 1]
  /\ UNCHANGED <<seen, q, wkVars, lcache, churn, conn, rows, ghosts, policy, secret, faults>>

\* A user deletes c.  misled and blind record what c's siblings and c itself
\* did not get to see.
DeleteObj(c) ==
  /\ Event
  /\ obj[c].phase = "live"
  /\ obj' = [obj EXCEPT ![c].phase = IF obj[c].fin THEN "deleting" ELSE "gone"]
  /\ misled' = misled \cup {d \in Servers : /\ d < c /\ obj[d].phase = "live"
                                            /\ \/ /\ obj[d].reason # "Conflict"
                                                  /\ obj[d].hash \notin {NoBody, LoserHash}
                                               \/ seen[d] # obj[d] \/ d = cur}
  /\ blind' = IF obj[c].fin THEN blind ELSE blind \cup {c}
  /\ UNCHANGED <<seen, q, wkVars, lcache, churn, conn, rows, left, kept, policy, secret, faults>>

\* The Secret goes, comes or is rotated: secretToMCPServers.
RotateSecret ==
  /\ Event
  /\ \E n \in {0, events + 2} : n # secret /\ secret' = n
  /\ q' = q \cup Present
  /\ UNCHANGED <<apiVars, wkVars, lcache, churn, conn, rows, ghosts, policy, faults>>

\* Somebody deletes an entry by hand, or creates one of that name, with an id
\* nobody has seen.
OutOfBand ==
  /\ Event
  /\ \/ \E r \in rows : rows' = rows \ {r}
     \/ /\ Served = {} /\ wk.id # "manual" /\ \A c \in Servers : obj[c].id # "manual"
        /\ rows' = rows \cup {[id |-> "manual", name |-> 0, body |-> ForeignBody]}
  /\ UNCHANGED <<apiVars, q, wkVars, lcache, churn, conn, ghosts, policy, secret, faults>>

\* Another reconciler (access groups) fills the list cache, or its TTL ends
\* (bound: between two reconciles).
ListElsewhere ==
  /\ lcache = NoList /\ conn = "Synced" /\ cur = 0
  /\ lcache' = ListingOf("ok")
  /\ UNCHANGED <<apiVars, q, wkVars, churn, conn, rows, ghosts, envVars, faults>>

ListExpires ==
  /\ lcache # NoList /\ cur = 0
  /\ lcache' = NoList
  /\ UNCHANGED <<apiVars, q, wkVars, churn, conn, rows, ghosts, envVars, faults>>

ConnDown ==
  /\ Event
  /\ conn = "Synced"
  /\ conn' \in {"Unreachable", "Absent"}
  /\ UNCHANGED <<apiVars, q, wkVars, lcache, churn, rows, ghosts, policy, secret, faults>>

\* The connection is back with a new client: connectionToMCPServers.
ConnUp ==
  /\ conn \in {"Unreachable", "BadMasterKey"}
  /\ conn' = "Synced" /\ lcache' = NoList
  /\ q' = q \cup Present
  /\ UNCHANGED <<apiVars, wkVars, churn, rows, ghosts, envVars, faults>>

\* The churn window passes.
Expire(c) ==
  /\ churn[c] > 0
  /\ churn' = [churn EXCEPT ![c] = @ - 1]
  /\ UNCHANGED <<apiVars, q, wkVars, lcache, conn, rows, ghosts, envVars, faults>>

\* The operator restarts.
Crash ==
  /\ Fault
  /\ Finish
  /\ seen' = obj
  /\ q' = {c \in Servers : obj[c].phase \in {"live", "deleting"}}
  /\ lcache' = NoList /\ churn' = [c \in Servers |-> 0]
  /\ left' = Still(left) /\ blind' = Still(blind) /\ kept' = Still(kept)
  /\ UNCHANGED <<obj, conn, rows, misled, policy, secret, events>>

Outside == \/ \E c \in Servers : CreateObj(c) \/ EditSpec(c) \/ DeleteObj(c) \/ Expire(c)
           \/ RotateSecret \/ OutOfBand \/ ListElsewhere \/ ListExpires
           \/ ConnDown \/ ConnUp \/ Crash

Next == \/ Reconcile
        \/ Sync \/ Relist
        \/ Outside

Spec == Init /\ [][Next]_vars

\* The worker goes on while it has work; informer, relist, TTL and churn
\* window come round; the connection recovers (module Connection).
Fairness == /\ WF_vars(Reconcile) /\ WF_vars(ConnUp) /\ SF_vars(ListExpires)
            /\ WF_vars(Sync) /\ WF_vars(Relist)
            /\ \A c \in Servers : WF_vars(Expire(c)) /\ SF_vars(Fetch(c))
FairSpec == Spec /\ Fairness

-----------------------------------------------------------------------------
(* Properties.                                                             *)

AtRest == cur = 0 /\ q = {} /\ seen = obj

ClaimsSynced(c) == /\ obj[c].phase = "live" /\ obj[c].reason = "Synced"
                   /\ obj[c].obs = obj[c].gen

Serves(c) == \A r \in RowOf(obj[c].id) : r.body = Rendered(c, obj[c])

\* api-reference, "Synced": a resource never says so at rest over a body that
\* is not its own, be it a sibling's or one somebody made by hand.  Fails.
SyncedServes ==
  \A c \in Servers : AtRest /\ conn = "Synced" /\ ClaimsSynced(c) => Serves(c)

\* The same but for the three gaps misled stands for: a winner that came and went
\* before this resource could say Conflict; an adopted id recorded although the
\* update of its row failed; a record replaced, by a status write that follows no
\* mutation, with the one of an older copy.  Everything else (lost answers, old
\* copies, conflicts, edits, rotations, demotions, restarts) makes no status lie.
HonestSynced ==
  \A c \in Servers :
    AtRest /\ conn = "Synced" /\ ClaimsSynced(c) /\ c \notin misled => Serves(c)

\* Of the resources that share an entry no two say Synced at rest: whoever
\* appears or goes, the others are told.
OneClaims ==
  AtRest /\ conn = "Synced" =>
    \A c, d \in Servers : ClaimsSynced(c) /\ ClaimsSynced(d) => c = d

\* The finalizer of one resource deletes neither the row that the owner of the
\* entry tracks nor the pinned one while a live sibling tracks it, as far as the
\* informer shows.  Another row of a sibling that is not the owner may go.
SiblingSpared ==
  [][\A c \in Servers \ {cur} :
       /\ events' = events /\ obj[c].phase = "live" /\ seen[c] = obj[c]
       /\ c = Max(Candidates) \/ obj[c].id = Pinned
       /\ RowOf(obj[c].id) # {}
       => RowOf(obj[c].id)' # {}]_vars

\* docs/concepts/conflict-resolution.md:75: "deleting a CR never deletes the
\* LiteLLM entry while another live CR in the namespace still sanitizes to the
\* same `server_name`": not even the row of a sibling that is not the owner.
LiveRowSpared ==
  [][\A c \in Servers \ {cur} :
       /\ events' = events /\ obj[c].phase = "live" /\ seen[c] = obj[c]
       /\ RowOf(obj[c].id) # {}
       => RowOf(obj[c].id)' # {}]_vars

\* Somebody is left who will deal with the row c left: a sibling that is still
\* around, or one that went and had no chance to, or tracked another row.
Heir(c) ==
  \E h \in Servers \ {c} : \/ obj[h].phase \in {"live", "deleting"}
                           \/ h \in left \cup blind
                           \/ obj[h].id \notin {NoId, obj[c].id}

\* A resource that is gone left the row with its own body behind only on a
\* permanent cause under Orphan, or to a sibling that was live then.
NoSilentLeak ==
  \A c \in Servers :
    obj[c].phase = "gone" /\ (\E r \in RowOf(obj[c].id) : r.body.by = c) =>
      \/ policy = "Orphan" /\ c \in left
      \/ c \in kept /\ Heir(c)

\* conflict-resolution.md:77: "The entry is deleted only when the last such CR
\* goes away": a row left to a sibling goes with that one, whatever row it had.
LastTakesRow ==
  \A c \in Servers :
    c \in kept /\ obj[c].phase = "gone" /\ (\E r \in RowOf(obj[c].id) : r.body.by = c) =>
      \E h \in Servers \ {c} : obj[h].phase \in {"live", "deleting"} \/ h \in left \cup blind

LiveOnes == {c \in Servers : obj[c].phase = "live"}

\* The states the code takes for impossible or does not look for: a hash that
\* does not describe the row, or an id without a hash, which an error path
\* writes from a stale copy and for which the probe is then skipped.
Gap == misled # {} \/ \E c \in Servers : obj[c].id # NoId /\ obj[c].hash = NoBody

\* Outside those, if the Secret is there, specs decode and the connection stays,
\* the last in name order ends up applied, the others in Conflict, the deleted
\* ones gone.
Converges ==
  <>[](secret # 0 /\ conn # "Absent" /\ ~Gap /\ \A c \in Servers : obj[c].v \notin BadSpecs) =>
    <>[](/\ \A c \in Servers : obj[c].phase # "deleting"
         /\ \A c \in LiveOnes :
              IF c = Max(LiveOnes)
                THEN ClaimsSynced(c) /\ RowOf(obj[c].id) # {} /\ Serves(c)
                ELSE obj[c].reason = "Conflict")
=============================================================================
