----------------------------- MODULE ModelProofs -----------------------------
(***************************************************************************)
(* What module Model promises, for every policy, every bound and every      *)
(* number of ids: the type invariant, that a persisted id is not blanked,   *)
(* that no row is left behind silently, that no second row is made, and     *)
(* that Synced tells the truth.                                             *)
(***************************************************************************)
EXTENDS Model, TLAPS, FiniteSetTheorems

-----------------------------------------------------------------------------
(* The inductive invariant.                                                *)

DelPCs == {"resolved", "drop"}
BodyPCs == {"probe", "prune", "decide", "find", "adopt", "create", "recreate", "update"}
LivePCs == {"render", "synced"} \cup BodyPCs

\* The reconcile works on a live resource that has its finalizer.
Running == pc \in LivePCs \/ (pc = "start" /\ wk.phase = "live" /\ wk.fin)

\* Where a reconcile is says what it fetched.
Paths ==
  /\ pc # "idle" => wk.phase # "gone"
  /\ pc \in LivePCs => wk.phase = "live" /\ wk.fin
  /\ pc \in DelPCs => wk.phase = "deleting"
  /\ pc = "resolved" => wk.id = 0
  /\ pc \in {"find", "create"} => FirstReconcile \/ churn < RecreateLimit

\* A generation costs an event; no copy and no status is of one to come.
Counted ==
  /\ obj.gen <= events + 1 /\ obj.obs <= obj.gen /\ seen.gen <= obj.gen
  /\ pc # "idle" => wk.gen <= obj.gen

\* No copy is ahead of the resource, and the finalizer keeps the resource
\* while a live copy that has it is around.
Pinned ==
  /\ obj.phase = "deleting" => obj.fin
  /\ seen.phase # "live" => obj.phase # "live"
  /\ pc # "idle" /\ wk.phase = "deleting" => seen.phase # "live"
  /\ seen.phase = "live" /\ seen.fin => obj.phase # "gone" /\ obj.fin
  /\ Running => obj.phase # "gone" /\ obj.fin

\* A new id is nobody's.
IdsKnown ==
  /\ obj.id < nextId /\ seen.id < nextId /\ wk.id < nextId
  /\ \A r \in rows : r.id < nextId

\* When the finalizer goes, the tracked row is gone, or was left on a
\* permanent cause under Orphan.
Leaves ==
  /\ obj.phase = "live" /\ ~obj.fin => obj.id = 0
  /\ pc = "drop" => RowOf(wk.id) = {} \/ (Effective = "Orphan" /\ leftOnCause)
  /\ NoSilentLeak

\* As long as LiteLLM lists what it holds a row is made only when there is none.
Single ==
  InTime => /\ listing /\ late = {}
            /\ \A r, s \in rows : r = s
            /\ pc \in {"create", "recreate"} => rows = {}

SafeInv == TypeOK /\ Paths /\ Counted /\ Pinned /\ IdsKnown /\ Leaves /\ Single

-----------------------------------------------------------------------------
(* With content that does not return (Reverts FALSE), also:                *)

\* Versions only grow; a record is of a Secret there was.
Old(h) == h.v <= events + 1 /\ h.sec <= events + 1 /\ (h.v # 0 => h.sec # 0)
Versioned ==
  /\ Old(obj.hash) /\ Old(seen.hash) /\ Old(wk.hash) /\ Old(body)
  /\ obj.v # 0 /\ obj.v <= events + 1 /\ seen.v <= events + 1 /\ wk.v <= events + 1
  /\ secret <= events + 1

\* A generation has one spec.
SameSpec(c) == c.gen = obj.gen => c.v = obj.v
Generations == SameSpec(seen) /\ (pc # "idle" => SameSpec(wk))

\* A copy from before an edit: no record is of the params there are now.
Outrun ==
  /\ seen.v # obj.v => obj.hash.v # obj.v /\ seen.hash.v # obj.v
  /\ pc # "idle" /\ wk.v # obj.v =>
       obj.hash.v # obj.v /\ seen.hash.v # obj.v /\ wk.hash.v # obj.v

\* What was rendered is of the worker's copy, and of the Secret there is unless
\* its change has queued the resource again.
Rendering ==
  /\ pc \in BodyPCs \cup {"synced"} =>
       /\ body.v = wk.v /\ wk.v \notin BadSpecs
       /\ ~mq => body.sec = secret
  /\ pc = "synced" => wk.hash = body
  /\ obj.reason = "Synced" /\ obj.obs = obj.gen => obj.hash.v = obj.v /\ obj.v \notin BadSpecs

\* The body carries the params asked for now.
IsNow(h) == h.v = obj.v /\ h.sec = secret

\* A record of the params asked for now is true of whatever is about to be sent
\* and of whatever LiteLLM holds.
Records(h) == h = obj.hash \/ h = seen.hash \/ (pc # "idle" /\ h = wk.hash)
Truthful ==
  \A h \in Bodies : Records(h) /\ IsNow(h) =>
    /\ pc \in BodyPCs => IsNow(body)
    /\ InTime => \A r \in rows : IsNow(r.body) /\ (obj.wide => r.body.wide)

\* A version of the params has the optional key or not, wherever it is found.
Kin ==
  /\ seen.v = obj.v => seen.wide = obj.wide
  /\ pc # "idle" /\ wk.v = obj.v => wk.wide = obj.wide
  /\ pc \in BodyPCs \cup {"synced"} => body.wide = wk.wide
  /\ obj.reason = "Synced" /\ obj.obs = obj.gen => obj.hash.wide = obj.wide

\* A reconcile that nothing has queued again works on the latest copy.
Latest ==
  pc # "idle" /\ ~mq =>
    /\ seen.v = wk.v /\ seen.gen = wk.gen
    /\ pc # "synced" => seen.hash = wk.hash

SyncedHolds == AtRest /\ ClaimsSynced => IsNow(obj.hash)

Told == /\ Versioned /\ Generations /\ Outrun /\ Rendering /\ Kin
        /\ Truthful /\ Latest /\ SyncedHolds

\* What a reconcile that saw the last record knows: the record, and that the row
\* is gone when the id was cleared.
Working == pc \notin {"idle", "synced"}
Informed ==
  /\ Working /\ ~aged => wk.hash = obj.hash /\ wk.id \in {obj.id, 0}
  /\ Working /\ ~aged /\ InTime /\ wk.id = 0 => RowOf(obj.id) = {}
  /\ pc \in {"find", "adopt"} => wk.id = 0

\* A key is on record or known not to be, and a reconcile that has applied params
\* without it, having seen the last record, has not left it where it was on record.
Keyed ==
  InTime =>
    /\ KeysOnRecord \/ offRecord
    /\ pc = "synced" /\ ~aged /\ ~body.wide =>
         \A r \in rows : r.body.wide => ~(obj.hash.wide /\ obj.id = r.id)

SyncedInv == SafeInv /\ Informed /\ Keyed /\ (~Reverts => Told)

-----------------------------------------------------------------------------
(* Constants and operators.                                                *)

LEMMA Bounds == /\ MaxEvents \in Nat /\ MaxFaults \in Nat /\ MaxCrashes \in Nat
                /\ MaxIds \in Nat /\ MaxIds # 0 /\ RecreateLimit \in Nat /\ RecreateLimit # 0
  BY ModelAssumption

Reasons == {"Synced", "LiteLLMUnavailable", "LiteLLMRejected", "InvalidConfig", "SecretNotFound",
            "RecreateThrottled"}

LEMMA NewFacts ==
  /\ NoBody \in Bodies /\ NoBody.v = 0 /\ NoBody.sec = 0 /\ NoBody.wide = FALSE
  /\ NewObj \in Objs
  /\ NewObj.phase = "live" /\ ~NewObj.fin /\ NewObj.gen = 1 /\ NewObj.v = 1
  /\ NewObj.id = 0 /\ NewObj.hash = NoBody /\ NewObj.obs = 0 /\ NewObj.reason = "none"
<1>1. 0 \in Versions /\ 1 \in Versions /\ 0 \in 0 .. MaxEvents + 1 /\ 1 \in 0 .. MaxEvents + 1
      /\ 0 \in Ids
  BY Bounds DEF Versions, Ids
<1>2. NoBody \in Bodies /\ NoBody.v = 0 /\ NoBody.sec = 0 /\ NoBody.wide = FALSE
  BY <1>1 DEF NoBody, Bodies
<1> QED
  BY <1>1, <1>2 DEF NewObj, Objs

LEMMA LegacyFacts ==
  /\ LegacyObj \in Objs
  /\ LegacyObj.phase = "live" /\ LegacyObj.fin /\ LegacyObj.gen = 1 /\ LegacyObj.v = 1
  /\ LegacyObj.id = 1 /\ LegacyObj.hash = Rendered(NewObj, 1) /\ LegacyObj.obs = 1
  /\ Rendered(NewObj, 1) \in Bodies /\ Rendered(NewObj, 1).v = 1 /\ Rendered(NewObj, 1).sec = 1
<1>1. 1 \in Versions /\ 1 \in 0 .. MaxEvents + 1 /\ 1 \in Ids
  BY Bounds DEF Versions, Ids
<1>2. /\ Rendered(NewObj, 1) \in Bodies /\ Rendered(NewObj, 1).v = 1 /\ Rendered(NewObj, 1).sec = 1
  BY <1>1 DEF NewObj, Rendered, Bodies
<1>3. LegacyObj = [NewObj EXCEPT !.fin = TRUE, !.id = 1, !.hash = Rendered(NewObj, 1),
                                 !.obs = 1, !.reason = "Synced"]
  BY DEF LegacyObj
<1>4. LegacyObj \in Objs
  BY <1>1, <1>2, <1>3, NewFacts, ZenonT(60) DEF Objs
<1> QED
  BY <1>2, <1>3, <1>4 DEF NewObj

LEMMA RenderedFacts ==
  ASSUME NEW o \in Objs, NEW s \in Versions
  PROVE  /\ Rendered(o, s) \in Bodies /\ Rendered(o, s).v = o.v /\ Rendered(o, s).sec = s
         /\ Rendered(o, s).wide = o.wide
  BY DEF Rendered, Bodies, Objs

\* A status write changes the record and nothing of the spec; an id is kept.
LEMMA WriteFacts ==
  ASSUME TypeOK, NEW r \in Reasons, WriteStatus(wk, r)
  PROVE  /\ seen = obj
         /\ obj' \in Objs
         /\ obj'.phase = obj.phase /\ obj'.fin = obj.fin /\ obj'.gen = obj.gen
         /\ obj'.v = obj.v /\ obj'.wide = obj.wide
         /\ obj'.id = IF wk.id = 0 THEN obj.id ELSE wk.id
         /\ obj'.hash = wk.hash /\ obj'.obs = wk.gen /\ obj'.reason = r
<1>1. obj \in Objs /\ wk \in Objs
  BY DEF TypeOK
<1>2. KeepPersistedID(wk.id, obj.id) \in Ids
  BY <1>1 DEF KeepPersistedID, Objs
<1>3. obj' = [obj EXCEPT !.id = KeepPersistedID(wk.id, obj.id), !.hash = wk.hash,
                         !.ihash = wk.ihash, !.obs = wk.gen, !.reason = r]
  BY DEF WriteStatus
<1>4. wk.hash \in Bodies /\ wk.gen \in 0 .. MaxEvents + 1 /\ wk.ihash \in Versions
  BY <1>1 DEF Objs
<1>5. obj' \in Objs
  BY <1>1, <1>2, <1>3, <1>4, ZenonT(60) DEF Objs, Reasons
<1> QED
  BY <1>1, <1>3, <1>5 DEF WriteStatus, KeepPersistedID, Objs

\* The other changes of the object.
LEMMA ObjFacts ==
  ASSUME NEW o \in Objs, NEW p \in {"deleting", "gone"}, NEW w \in BOOLEAN,
         NEW n \in Versions, NEW g \in 0 .. MaxEvents + 1
  PROVE  /\ [o EXCEPT !.fin = TRUE] \in Objs
         /\ [o EXCEPT !.phase = p] \in Objs
         /\ [o EXCEPT !.phase = "gone", !.fin = FALSE] \in Objs
         /\ [o EXCEPT !.v = n, !.wide = w, !.gen = g] \in Objs
         /\ [o EXCEPT !.info = n, !.gen = g] \in Objs
<1>1. /\ [o EXCEPT !.fin = TRUE] \in Objs
      /\ [o EXCEPT !.phase = p] \in Objs
  BY ZenonT(60) DEF Objs
<1>2. [o EXCEPT !.phase = "gone", !.fin = FALSE] \in Objs
  BY ZenonT(60) DEF Objs
<1>3. [o EXCEPT !.v = n, !.wide = w, !.gen = g] \in Objs
  BY ZenonT(60) DEF Objs
<1>4. [o EXCEPT !.info = n, !.gen = g] \in Objs
  BY ZenonT(60) DEF Objs
<1> QED
  BY <1>1, <1>2, <1>3, <1>4

\* The worker's changes of its copy.
LEMMA CopyFacts ==
  ASSUME NEW o \in Objs, NEW i \in Ids, NEW b \in Bodies
  PROVE  LET y == [o EXCEPT !.id = i, !.hash = b, !.ihash = b.info]
             z == [o EXCEPT !.id = i]
         IN /\ y \in Objs /\ z \in Objs
            /\ y.phase = o.phase /\ y.fin = o.fin /\ y.gen = o.gen /\ y.v = o.v /\ y.wide = o.wide
            /\ y.id = i /\ y.hash = b /\ y.obs = o.obs /\ y.reason = o.reason
            /\ z.phase = o.phase /\ z.fin = o.fin /\ z.gen = o.gen /\ z.v = o.v /\ z.wide = o.wide
            /\ z.id = i /\ z.hash = o.hash /\ z.obs = o.obs /\ z.reason = o.reason
<1>1. b.info \in Versions
  BY DEF Bodies
<1>2. [o EXCEPT !.id = i, !.hash = b, !.ihash = b.info] \in Objs
  BY <1>1, ZenonT(60) DEF Objs
<1>3. [o EXCEPT !.id = i] \in Objs
  BY ZenonT(60) DEF Objs
<1> QED
  BY <1>2, <1>3 DEF Objs

\* An updated row keeps its id and takes the params.
LEMMA UpdatedFacts ==
  ASSUME NEW r \in Rows, NEW b \in Bodies
  PROVE  /\ Updated(r, b) \in Rows /\ Updated(r, b).id = r.id
         /\ Updated(r, b).body.v = b.v /\ Updated(r, b).body.sec = b.sec
         /\ Updated(r, b).body.wide = (b.wide \/ r.body.wide)
<1> DEFINE c == [b EXCEPT !.wide = b.wide \/ r.body.wide, !.info = r.body.info]
<1>1. r.body \in Bodies /\ r.id \in Ids \ {0}
  BY DEF Rows
<1>2. r.body.info \in Versions /\ b.wide \in BOOLEAN /\ r.body.wide \in BOOLEAN
  BY <1>1 DEF Bodies
<1>3. (b.wide \/ r.body.wide) \in BOOLEAN
  OBVIOUS
<1>4. c \in Bodies
  BY <1>2, <1>3, ZenonT(60) DEF Bodies
<1>5. c.v = b.v /\ c.sec = b.sec /\ c.wide = (b.wide \/ r.body.wide)
  BY DEF Bodies
<1>6. Updated(r, b) = [r EXCEPT !.body = c]
  BY DEF Updated
<1> HIDE DEF c
<1> QED
  BY <1>4, <1>5, <1>6 DEF Rows

-----------------------------------------------------------------------------
(* The steps, by what they do to the worker, the object, the rows.         *)

\* A mutation that failed ends the reconcile, which comes back unless the
\* connection was taken down.
LEMMA ClassifyFacts ==
  ASSUME TypeOK, NEW o, ClassifyMutationError(o)
  PROVE  /\ Finish
         /\ mq' \in BOOLEAN /\ (mq' \/ (mq' = mq /\ conn' # "Synced"))
         /\ conn' \in {conn, "BadMasterKey"}
         /\ obj' = obj \/ \E r \in Reasons \ {"Synced"} : WriteStatus(wk, r)
<1>1. mq \in BOOLEAN
  BY DEF TypeOK
<1>2. CASE o = "401"
  <2>1. /\ InvalidateOn401 /\ Finish /\ mq' = mq
        /\ WriteStatus(wk, "LiteLLMUnavailable") \/ StatusConflict
    BY <1>2 DEF ClassifyMutationError
  <2>2. conn' # "Synced" /\ conn' \in {conn, "BadMasterKey"}
    BY <2>1 DEF InvalidateOn401
  <2>3. mq' \in BOOLEAN
    BY <1>1, <2>1
  <2>4. obj' = obj \/ \E r \in Reasons \ {"Synced"} : WriteStatus(wk, r)
    BY <2>1 DEF StatusConflict, Reasons
  <2> QED
    BY <2>1, <2>2, <2>3, <2>4
<1>3. CASE o = "4xx"
  BY <1>3 DEF ClassifyMutationError, Requeue, StatusConflict, Reasons
<1>4. CASE o \in {"down", "lost", "late"}
  BY <1>4 DEF ClassifyMutationError, Requeue
<1> QED
  BY <1>2, <1>3, <1>4 DEF ClassifyMutationError

LEMMA EndWithFacts ==
  ASSUME NEW r \in Reasons \ {"Synced"}, EndWith(r)
  PROVE  \/ obj' = obj
         \/ \E s \in Reasons \ {"Synced"} : WriteStatus(wk, s)
  BY DEF EndWith, StatusLost, StatusConflict

\* How the worker goes on, and with what copy.
Starts == /\ pc = "idle" /\ pc' = "start" /\ wk' = seen /\ seen.phase # "gone"
          /\ body' = body /\ ~mq'
Ends == pc' = "idle" /\ wk' = NewObj /\ body' = NoBody
Leaving == /\ pc \in {"start", "resolved"} /\ pc' \in DelPCs /\ wk' = wk /\ body' = body
           /\ pc = "start" => wk.phase = "deleting"
           /\ pc' = "resolved" => pc = "start" /\ wk.id = 0
Passes == pc = "start" /\ wk.phase = "live" /\ wk.fin /\ pc' = "render" /\ wk' = wk /\ body' = body
Renders == /\ pc = "render" /\ pc' = "probe" /\ wk' = wk
           /\ body' = Rendered(wk, secret) /\ secret # 0 /\ wk.v \notin BadSpecs
Seeks == /\ pc \in BodyPCs /\ pc' \in BodyPCs /\ body' = body
         /\ wk' = wk \/ wk' = [wk EXCEPT !.id = 0]
         /\ pc' \in {"find", "create"} => wk' = wk
         /\ pc' = "find" => FirstReconcile \/ churn < RecreateLimit
         /\ pc' = "create" => pc = "find"
Applies == /\ pc \in BodyPCs /\ pc' = "synced" /\ body' = body
           /\ \E i \in Ids \ {0} : /\ i < nextId'
                                   /\ wk' = [wk EXCEPT !.id = i, !.hash = body, !.ihash = body.info]

Goes == Leaving \/ Passes \/ Renders \/ Seeks \/ Applies

\* The worker rests, starts, ends or goes on; while it goes on the queue is left
\* alone and so are the copies.
WorkStep ==
  \/ UNCHANGED <<wk, pc, body>>
  \/ Starts /\ UNCHANGED <<obj, seen, secret>>
  \/ Ends
  \/ Goes /\ UNCHANGED <<obj, seen, mq, secret>>

LEMMA WorkMoves ==
  ASSUME TypeOK, IdsKnown, Next
  PROVE  WorkStep
<1> USE DEF BodyPCs, DelPCs
<1>1. ASSUME Finish PROVE WorkStep
  BY <1>1 DEF Finish, WorkStep, Ends
<1>2. CASE Fetch
  <2>1. CASE seen.phase = "gone"
    BY <1>2, <2>1 DEF Fetch, WorkStep
  <2>2. CASE seen.phase # "gone"
    BY <1>2, <2>2 DEF Fetch, WorkStep, Starts, objVars, envVars
  <2> QED
    BY <2>1, <2>2
<1>3. ASSUME NEW p, AckMissing(p), Deleting, UNCHANGED <<objVars, envVars>>
      PROVE  WorkStep
  <2>1. Finish \/ GoOn("drop")
    BY <1>3 DEF AckMissing, Requeue
  <2>2. CASE GoOn("drop")
    BY <1>3, <2>2 DEF Deleting, GoOn, WorkStep, Goes, Leaving, objVars, envVars
  <2> QED
    BY <1>1, <2>1, <2>2
<1>4. CASE DeleteUnavailable
  BY <1>3, <1>4 DEF DeleteUnavailable
<1>5. ASSUME NEW i, DeleteCall(i), Deleting \/ pc = "resolved", UNCHANGED <<objVars, envVars>>
      PROVE  WorkStep
  <2>1. Finish \/ GoOn("drop")
    BY <1>5 DEF DeleteCall, AckMissing, Requeue
  <2>2. CASE GoOn("drop")
    BY <1>5, <2>2 DEF Deleting, GoOn, WorkStep, Goes, Leaving, objVars, envVars
  <2> QED
    BY <1>1, <2>1, <2>2
<1>6. CASE DeleteTracked \/ DeleteResolved
  BY <1>5, <1>6 DEF DeleteTracked, DeleteResolved
<1>7. CASE ResolveByName
  <2>1. \/ Finish \/ GoOn("drop")
        \/ pc' = "resolved" /\ UNCHANGED <<wk, body, mq>>
    BY <1>7 DEF ResolveByName, AckMissing, Requeue
  <2>2. Deleting /\ wk.id = 0 /\ UNCHANGED <<objVars, envVars>>
    BY <1>7 DEF ResolveByName
  <2>3. CASE GoOn("drop")
    BY <2>2, <2>3 DEF Deleting, GoOn, WorkStep, Goes, Leaving, objVars, envVars
  <2>4. CASE pc' = "resolved" /\ UNCHANGED <<wk, body, mq>>
    BY <2>2, <2>4 DEF Deleting, WorkStep, Goes, Leaving, objVars, envVars
  <2> QED
    BY <1>1, <2>1, <2>3, <2>4
<1>8. CASE DropFinalizer \/ AddFinalizer
  BY <1>1, <1>8 DEF DropFinalizer, AddFinalizer, Requeue
<1>9. CASE Gate
  <2>1. CASE conn = "Synced"
    BY <1>9, <2>1 DEF Gate, GoOn, WorkStep, Goes, Passes, envVars
  <2>2. CASE conn # "Synced"
    BY <1>1, <1>9, <2>2 DEF Gate
  <2> QED
    BY <2>1, <2>2
<1>10. CASE Render
  <2>1. \/ Finish
        \/ /\ wk.v \notin BadSpecs /\ secret # 0
           /\ body' = Rendered(wk, secret)
           /\ pc' = "probe" /\ UNCHANGED <<obj, wk, found, mq, faults>>
    BY <1>10 DEF Render, Requeue
  <2> QED
    BY <1>1, <1>10, <2>1 DEF Render, WorkStep, Goes, Renders, envVars
<1>11. CASE Probe
  <2>1. UNCHANGED <<obj, seen, secret>> /\ pc = "probe"
    BY <1>11 DEF Probe, objVars, envVars
  <2>2. \/ GoOn("decide") \/ GoOn("prune") \/ Finish
        \/ /\ wk' = (IF wk.id \in Listed THEN wk ELSE [wk EXCEPT !.id = 0])
           /\ pc' = "prune" /\ UNCHANGED <<body, mq>>
    BY <1>11 DEF Probe, Requeue
  <2>3. CASE GoOn("decide") \/ GoOn("prune")
    BY <2>1, <2>3 DEF GoOn, WorkStep, Goes, Seeks
  <2>4. CASE /\ wk' = (IF wk.id \in Listed THEN wk ELSE [wk EXCEPT !.id = 0])
             /\ pc' = "prune" /\ UNCHANGED <<body, mq>>
    BY <2>1, <2>4 DEF WorkStep, Goes, Seeks
  <2> QED
    BY <1>1, <2>2, <2>3, <2>4
<1>12. CASE PruneOne
  BY <1>12 DEF PruneOne, WorkStep
<1>13. CASE PruneDone
  BY <1>13 DEF PruneDone, WorkStep, Goes, Seeks, objVars, envVars
<1>14. CASE Steady \/ WriteSynced
  BY <1>1, <1>14 DEF Steady, WriteSynced
<1>15. CASE Throttle
  <2>1. CASE ~FirstReconcile /\ churn >= RecreateLimit
    BY <1>1, <1>15, <2>1 DEF Throttle, Requeue
  <2>2. CASE ~(~FirstReconcile /\ churn >= RecreateLimit)
    <3>1. FirstReconcile \/ churn < RecreateLimit
      BY <2>2, Bounds DEF TypeOK
    <3>2. pc = "decide" /\ GoOn("find") /\ UNCHANGED <<obj, seen, secret>>
      BY <1>15, <2>2 DEF Throttle, envVars
    <3> QED
      BY <3>1, <3>2 DEF GoOn, WorkStep, Goes, Seeks
  <2> QED
    BY <2>1, <2>2
<1>16. CASE FindByName
  <2>1. UNCHANGED <<obj, seen, secret>> /\ pc = "find"
    BY <1>16 DEF FindByName, objVars, envVars
  <2>2. \/ Finish \/ GoOn("create")
        \/ pc' = "adopt" /\ UNCHANGED <<wk, body, mq>>
    BY <1>16 DEF FindByName, Requeue
  <2> QED
    BY <1>1, <2>1, <2>2 DEF GoOn, WorkStep, Goes, Seeks
<1>17. ASSUME NEW i \in Ids \ {0}, Applied(i), pc \in BodyPCs, i < nextId', UNCHANGED <<seen, secret>>
       PROVE  WorkStep
  BY <1>17 DEF Applied, Record, WorkStep, Goes, Applies
<1>18. ASSUME NEW i, RowOf(i) # {}
       PROVE  i \in Ids \ {0} /\ i < nextId
  BY <1>18 DEF TypeOK, IdsKnown, RowOf, Rows
<1>19. ASSUME NEW o, ClassifyMutationError(o) PROVE WorkStep
  BY <1>1, <1>19, ClassifyFacts
<1>20. CASE Adopt
  <2>1. PICK i \in found, o \in Done \cup Refusals :
           \/ RowOf(i) # {} /\ Applied(i)
           \/ ClassifyMutationError("4xx")
           \/ ClassifyMutationError(o)
    BY <1>20 DEF Adopt
  <2>2. pc \in BodyPCs /\ UNCHANGED <<seen, secret, nextId>>
    BY <1>20 DEF Adopt, envVars
  <2>3. CASE RowOf(i) # {} /\ Applied(i)
    BY <1>17, <1>18, <2>2, <2>3
  <2> QED
    BY <1>19, <2>1, <2>3
<1>21. CASE CreateNew
  <2>1. PICK o \in Done \cup Refusals \cup {"late"} :
           /\ Create(body, o)
           /\ (o = "ok" /\ Applied(nextId)) \/ ClassifyMutationError(o)
    BY <1>21 DEF CreateNew
  <2>2. pc \in BodyPCs /\ UNCHANGED <<seen, secret>>
    BY <1>21 DEF CreateNew, envVars
  <2>3. CASE o = "ok" /\ Applied(nextId)
    <3>1. nextId <= MaxIds /\ nextId' = nextId + 1
      BY <2>1, <2>3 DEF Create, Done
    <3>2. nextId \in Ids \ {0} /\ nextId < nextId'
      BY <3>1, Bounds DEF TypeOK, Ids
    <3> QED
      BY <1>17, <2>2, <2>3, <3>2
  <2> QED
    BY <1>19, <2>1, <2>3
<1>22. CASE DeleteOld
  <2>1. \/ GoOn("recreate") /\ UNCHANGED obj
        \/ ClassifyMutationError("4xx")
        \/ \E o \in Done \cup Refusals : ClassifyMutationError(o)
    BY <1>22 DEF DeleteOld
  <2>2. pc = "decide" /\ UNCHANGED <<seen, secret>>
    BY <1>22 DEF DeleteOld, envVars
  <2>3. CASE GoOn("recreate") /\ UNCHANGED obj
    BY <2>2, <2>3 DEF GoOn, WorkStep, Goes, Seeks
  <2> QED
    BY <1>19, <2>1, <2>3
<1>23. CASE UpdateTracked
  <2>1. \/ RowOf(wk.id) # {} /\ Applied(wk.id)
        \/ ClassifyMutationError("4xx")
        \/ \E o \in Done \cup Refusals : ClassifyMutationError(o)
    BY <1>23 DEF UpdateTracked
  <2>2. pc \in BodyPCs /\ UNCHANGED <<seen, secret, nextId>>
    BY <1>23 DEF UpdateTracked, envVars
  <2>3. CASE RowOf(wk.id) # {} /\ Applied(wk.id)
    BY <1>17, <1>18, <2>2, <2>3
  <2> QED
    BY <1>19, <2>1, <2>3
<1>24. CASE UNCHANGED wkVars
  BY <1>24 DEF WorkStep, wkVars
<1>25. CASE Crash
  BY <1>1, <1>25 DEF Crash
<1> QED
  BY <1>2, <1>4, <1>6, <1>7, <1>8, <1>9, <1>10, <1>11, <1>12, <1>13, <1>14, <1>15, <1>16, <1>20,
     <1>21, <1>22, <1>23, <1>24, <1>25
  DEF Next, Reconcile, Outside, Sync, Relist, EditSpec, DeleteObj, Annotate, RotateSecret,
      OutOfBandDelete, FlipListing, LateApply, ConnDown, ConnUp, Expire

\* What becomes of the object: the worker writes a status for a live resource
\* that has its finalizer, adds the finalizer or drops it; a user edits or
\* deletes it.  No copy changes with it.
StatusStep == \E r \in Reasons :
  /\ WriteStatus(wk, r) /\ Running /\ Ends /\ UNCHANGED <<seen, secret>>
  /\ r = "Synced" => pc = "synced" \/ (pc = "decide" /\ wk.hash = body)
AddsFin == /\ pc = "start" /\ obj = wk /\ wk.phase = "live" /\ ~wk.fin /\ Ends
           /\ obj' = [obj EXCEPT !.fin = TRUE] /\ UNCHANGED <<seen, secret>>
Drops == /\ pc = "drop" /\ obj = wk /\ Ends
         /\ obj' = [obj EXCEPT !.phase = "gone", !.fin = FALSE]
         /\ UNCHANGED <<seen, secret, rows, leftOnCause, policy>>

\* Or nothing, and the informer may catch up.
Watches == /\ obj' = obj
           /\ \/ seen' = seen
              \/ seen' = obj /\ mq' = TRUE /\ secret' = secret /\ (Ends \/ UNCHANGED <<wk, pc, body>>)

ObjStep == Watches \/ StatusStep \/ AddsFin \/ Drops \/ EditSpec \/ DeleteObj

LEMMA ObjMoves ==
  ASSUME TypeOK, Next
  PROVE  ObjStep
<1> USE DEF ObjStep
<1>1. CASE UNCHANGED objVars
  BY <1>1 DEF objVars, Watches
<1>2. ASSUME NEW r \in Reasons \ {"Synced"}, WriteStatus(wk, r), Running, Finish, UNCHANGED <<seen, secret>>
      PROVE  StatusStep
  BY <1>2 DEF StatusStep, Finish, Ends
<1>3. CASE obj' = obj /\ seen' = seen
  BY <1>3 DEF Watches
<1>4. CASE DropFinalizer
  <2>1. \/ obj' = obj /\ seen' = seen
        \/ /\ Unmoved /\ Finish /\ UNCHANGED leftOnCause
           /\ obj' = [obj EXCEPT !.phase = "gone", !.fin = FALSE]
    BY <1>4 DEF DropFinalizer
  <2> QED
    BY <1>3, <1>4, <2>1 DEF DropFinalizer, Drops, Unmoved, Finish, Ends, llmVars, envVars
<1>5. CASE AddFinalizer
  <2>1. \/ obj' = obj /\ seen' = seen
        \/ /\ wk.phase = "live" /\ Unmoved /\ Finish /\ obj' = [obj EXCEPT !.fin = TRUE]
    BY <1>5 DEF AddFinalizer
  <2> QED
    BY <1>3, <1>5, <2>1 DEF AddFinalizer, AddsFin, Unmoved, Finish, Ends, envVars
<1>6. ASSUME NEW r \in Reasons \ {"Synced"}, EndWith(r), Finish, Running, UNCHANGED <<seen, secret>>
      PROVE  ObjStep
  BY <1>2, <1>3, <1>6, EndWithFacts
<1>7. CASE Gate
  <2>1. CASE conn = "Synced"
    BY <1>3, <1>7, <2>1 DEF Gate
  <2>2. CASE conn # "Synced"
    BY <1>6, <1>7, <2>2 DEF Gate, Running, Reasons, envVars
  <2> QED
    BY <2>1, <2>2
<1>8. CASE Render
  <2>1. Running /\ UNCHANGED <<seen, secret>>
    BY <1>8 DEF Render, Running, LivePCs, envVars
  <2>2. \/ EndWith("InvalidConfig") /\ Finish
        \/ EndWith("SecretNotFound") /\ Finish
        \/ obj' = obj
    BY <1>8 DEF Render, Requeue
  <2> QED
    BY <1>3, <1>6, <2>1, <2>2 DEF Reasons
<1>9. CASE Steady
  <2>1. pc = "decide" /\ wk.hash = body /\ Finish /\ UNCHANGED <<seen, secret>>
    BY <1>9 DEF Steady, InSteadyState, envVars
  <2>2. obj' = obj \/ WriteStatus(wk, "Synced")
    BY <1>9 DEF Steady, StatusLost, StatusConflict
  <2> QED
    BY <1>3, <2>1, <2>2 DEF StatusStep, Running, LivePCs, BodyPCs, Finish, Ends, Reasons
<1>10. CASE WriteSynced
  <2>1. pc = "synced" /\ Finish /\ UNCHANGED <<seen, secret>>
    BY <1>10 DEF WriteSynced, envVars
  <2>2. obj' = obj \/ WriteStatus(wk, "Synced")
    BY <1>10 DEF WriteSynced, StatusLost, StatusConflict
  <2> QED
    BY <1>3, <2>1, <2>2 DEF StatusStep, Running, LivePCs, Finish, Ends, Reasons
<1>11. CASE Throttle
  <2>1. pc = "decide" /\ UNCHANGED <<seen, secret>>
    BY <1>11 DEF Throttle, envVars
  <2>2. (EndWith("RecreateThrottled") /\ Finish) \/ obj' = obj
    BY <1>11 DEF Throttle, Requeue
  <2> QED
    BY <1>3, <1>6, <2>1, <2>2 DEF Running, LivePCs, BodyPCs, Reasons
<1>12. ASSUME NEW o, ClassifyMutationError(o), pc \in BodyPCs, UNCHANGED <<seen, secret>>
       PROVE  ObjStep
  <2>1. Running
    BY <1>12 DEF Running, LivePCs
  <2>2. Finish /\ (obj' = obj \/ \E r \in Reasons \ {"Synced"} : WriteStatus(wk, r))
    BY <1>12, ClassifyFacts
  <2> QED
    BY <1>2, <1>3, <1>12, <2>1, <2>2
<1>13. CASE Adopt \/ CreateNew \/ DeleteOld \/ UpdateTracked
  <2>1. pc \in BodyPCs /\ UNCHANGED <<seen, secret>>
    BY <1>13 DEF Adopt, CreateNew, DeleteOld, UpdateTracked, BodyPCs, envVars
  <2>2. obj' = obj \/ \E o : ClassifyMutationError(o)
    BY <1>13 DEF Adopt, CreateNew, DeleteOld, UpdateTracked, Applied
  <2> QED
    BY <1>3, <1>12, <2>1, <2>2
<1>14. CASE Fetch \/ DeleteUnavailable \/ DeleteTracked \/ ResolveByName \/ DeleteResolved \/ Probe \/ PruneOne
            \/ PruneDone \/ FindByName \/ Relist
  BY <1>1, <1>14 DEF Fetch, DeleteUnavailable, DeleteTracked, ResolveByName, DeleteResolved, Probe, PruneOne,
     PruneDone, FindByName, Relist
<1>15. CASE Sync
  BY <1>15 DEF Sync, Watches, wkVars, envVars
<1>16. CASE Crash
  BY <1>16 DEF Crash, Watches, Finish, Ends
<1>17. CASE Annotate \/ RotateSecret \/ OutOfBandDelete \/ FlipListing \/ LateApply \/ ConnDown \/ ConnUp \/ Expire
  BY <1>1, <1>3, <1>17 DEF Annotate, RotateSecret, OutOfBandDelete, FlipListing, LateApply, ConnDown, ConnUp, Expire
<1> QED
  BY <1>4, <1>5, <1>7, <1>8, <1>9, <1>10, <1>11, <1>13, <1>14, <1>15, <1>16, <1>17
  DEF Next, Reconcile, Outside

\* What becomes of the rows.
Removes == rows' \subseteq rows /\ UNCHANGED <<late, nextId>>
Rewrites == /\ pc \in BodyPCs /\ UNCHANGED <<late, nextId>>
            /\ \E i : rows' = (rows \ RowOf(i)) \cup {Updated(r, body) : r \in RowOf(i)}
Makes == /\ pc \in {"create", "recreate"} /\ pc' \in {"idle", "synced"}
         /\ nextId <= MaxIds /\ nextId' = nextId + 1 /\ UNCHANGED late
         /\ rows' = rows \cup {[id |-> nextId, body |-> body]}
PutsOff == pc \in BodyPCs /\ late' = late \cup {body} /\ UNCHANGED <<rows, nextId>> /\ slipped' = TRUE
RowStep ==
  /\ Removes \/ Rewrites \/ Makes \/ PutsOff \/ LateApply
  /\ slipped' \in BOOLEAN /\ listing' \in BOOLEAN
  /\ slipped' = FALSE => slipped = FALSE /\ listing' = listing

LEMMA RowMoves ==
  ASSUME TypeOK, Next
  PROVE  RowStep
<1>1. slipped \in BOOLEAN /\ listing \in BOOLEAN
  BY DEF TypeOK
<1>2. ASSUME UNCHANGED <<slipped, listing>>, Removes \/ Rewrites \/ Makes \/ LateApply
      PROVE  RowStep
  BY <1>1, <1>2 DEF RowStep
<1>3. CASE UNCHANGED llmVars
  BY <1>2, <1>3 DEF llmVars, Removes
<1>4. ASSUME NEW i, NEW o, Delete(i, o), UNCHANGED <<late, nextId, listing, slipped>>
      PROVE  RowStep
  BY <1>2, <1>4 DEF Delete, Removes
<1>5. CASE DeleteTracked \/ DeleteResolved \/ PruneOne
  BY <1>4, <1>5 DEF DeleteTracked, DeleteResolved, PruneOne, DeleteCall
<1>6. CASE DeleteOld
  BY <1>4, <1>6 DEF DeleteOld
<1>7. ASSUME NEW i, NEW o, Update(i, body, o), pc \in BodyPCs, UNCHANGED <<late, nextId, listing, slipped>>
      PROVE  RowStep
  BY <1>2, <1>7 DEF Update, Removes, Rewrites
<1>8. CASE Adopt \/ UpdateTracked
  BY <1>7, <1>8 DEF Adopt, UpdateTracked, BodyPCs
<1>9. CASE CreateNew
  <2>1. pc \in {"create", "recreate"} /\ UNCHANGED listing
    BY <1>9 DEF CreateNew
  <2>2. PICK o \in Done \cup Refusals \cup {"late"} :
           Create(body, o) /\ (Applied(nextId) \/ ClassifyMutationError(o))
    BY <1>9 DEF CreateNew
  <2>3. pc' \in {"idle", "synced"}
    BY <2>2, ClassifyFacts DEF Applied, Finish
  <2>4. slipped' = (slipped \/ o = "late")
    BY <2>2 DEF Create
  <2>5. slipped' \in BOOLEAN /\ (slipped' = FALSE => slipped = FALSE /\ o # "late")
    BY <1>1, <2>4
  <2>6. o = "late" => slipped' = TRUE
    BY <1>1, <2>4
  <2>7. CASE o \in Done
    <3>1. Makes
      BY <2>1, <2>2, <2>3, <2>7 DEF Makes, Create
    <3> QED
      BY <1>1, <2>1, <2>5, <3>1 DEF RowStep
  <2>8. CASE o = "late"
    <3>1. PutsOff
      BY <2>1, <2>2, <2>6, <2>8 DEF PutsOff, Create, Done, BodyPCs
    <3> QED
      BY <1>1, <2>1, <2>5, <3>1 DEF RowStep
  <2>9. CASE o \notin Done /\ o # "late"
    <3>1. Removes
      BY <2>2, <2>9 DEF Removes, Create
    <3> QED
      BY <1>1, <2>1, <2>5, <3>1 DEF RowStep
  <2> QED
    BY <2>7, <2>8, <2>9
<1>10. CASE OutOfBandDelete
  BY <1>2, <1>10 DEF OutOfBandDelete, Removes
<1>11. CASE FlipListing
  <2>1. listing' = ~listing /\ slipped' = TRUE /\ Removes
    BY <1>11 DEF FlipListing, Removes
  <2>2. listing' \in BOOLEAN
    BY <1>1, <2>1
  <2> QED
    BY <2>1, <2>2 DEF RowStep
<1>12. CASE LateApply
  BY <1>2, <1>12 DEF LateApply
<1> QED
  BY <1>3, <1>5, <1>6, <1>8, <1>9, <1>10, <1>11, <1>12
  DEF Next, Reconcile, Outside, Sync, Relist, Fetch, DeleteUnavailable, ResolveByName, DropFinalizer,
      AddFinalizer, Gate, Render, Probe, PruneDone, Steady, Throttle, FindByName, WriteSynced,
      EditSpec, DeleteObj, Annotate, RotateSecret, ConnDown, ConnUp, Expire, Crash

LEMMA FreshFacts ==
  ASSUME TypeOK, Event, NEW now
  PROVE  Fresh(now) \subseteq Versions /\ 0 \in Versions
<1>1. events \in 0 .. MaxEvents /\ events < MaxEvents
  BY DEF TypeOK, Event
<1>2. CASE Reverts
  BY <1>2, Bounds DEF Fresh, Versions
<1>3. CASE ~Reverts
  BY <1>1, <1>3, Bounds DEF Fresh, Versions
<1> QED
  BY <1>2, <1>3

\* The fields each change of the object touches.
LEMMA EditFacts ==
  ASSUME TypeOK, Counted, EditSpec
  PROVE  /\ obj' \in Objs
         /\ obj.phase = "live" /\ obj'.phase = "live" /\ obj'.fin = obj.fin
         /\ obj'.gen = obj.gen + 1 /\ obj'.v \in {obj.v} \cup Fresh(obj.v)
         /\ obj'.id = obj.id /\ obj'.hash = obj.hash /\ obj'.obs = obj.obs /\ obj'.reason = obj.reason
         /\ obj'.v = obj.v => obj'.wide = obj.wide \/ obj.v \in Fresh(obj.v)
         /\ events < MaxEvents /\ events' = events + 1
         /\ UNCHANGED <<seen, wk, pc, body, mq, secret>>
<1>1. obj \in Objs /\ events \in 0 .. MaxEvents /\ obj.gen \in 0 .. MaxEvents + 1
  BY DEF TypeOK, Objs
<1>2. events < MaxEvents /\ events' = events + 1 /\ obj.phase = "live"
      /\ UNCHANGED <<seen, wk, pc, body, mq, secret>>
  BY DEF EditSpec, Event, wkVars
<1>3. obj.gen + 1 \in 0 .. MaxEvents + 1
  BY <1>1, <1>2, Bounds DEF Counted
<1>4. ASSUME NEW now PROVE Fresh(now) \subseteq Versions
  BY FreshFacts DEF EditSpec
<1>5. ASSUME NEW n \in Fresh(obj.v), NEW w \in BOOLEAN, obj' = [obj EXCEPT !.v = n, !.wide = w, !.gen = @ + 1]
      PROVE  /\ obj' \in Objs
             /\ obj'.phase = "live" /\ obj'.fin = obj.fin /\ obj'.gen = obj.gen + 1 /\ obj'.v = n
             /\ obj'.id = obj.id /\ obj'.hash = obj.hash /\ obj'.obs = obj.obs /\ obj'.reason = obj.reason
  <2>1. obj' = [obj EXCEPT !.v = n, !.wide = w, !.gen = obj.gen + 1]
    BY <1>5
  <2>2. obj' \in Objs
    BY <1>1, <1>3, <1>4, <2>1, ObjFacts
  <2> QED
    BY <1>1, <1>2, <2>1, <2>2 DEF Objs
<1>6. ASSUME NEW n \in Fresh(obj.info), obj' = [obj EXCEPT !.info = n, !.gen = @ + 1]
      PROVE  /\ obj' \in Objs
             /\ obj'.phase = "live" /\ obj'.fin = obj.fin /\ obj'.gen = obj.gen + 1 /\ obj'.v = obj.v
             /\ obj'.wide = obj.wide
             /\ obj'.id = obj.id /\ obj'.hash = obj.hash /\ obj'.obs = obj.obs /\ obj'.reason = obj.reason
  <2>1. obj' = [obj EXCEPT !.info = n, !.gen = obj.gen + 1]
    BY <1>6
  <2>2. obj' \in Objs
    BY <1>1, <1>3, <1>4, <2>1, ObjFacts
  <2> QED
    BY <1>1, <1>2, <2>1, <2>2 DEF Objs
<1> QED
  BY <1>2, <1>5, <1>6 DEF EditSpec

LEMMA DeleteFacts ==
  ASSUME TypeOK, DeleteObj
  PROVE  /\ obj' \in Objs
         /\ obj.phase = "live" /\ obj'.phase = (IF obj.fin THEN "deleting" ELSE "gone")
         /\ obj'.fin = obj.fin /\ obj'.gen = obj.gen /\ obj'.v = obj.v /\ obj'.wide = obj.wide
         /\ obj'.id = obj.id /\ obj'.hash = obj.hash /\ obj'.obs = obj.obs /\ obj'.reason = obj.reason
         /\ UNCHANGED <<seen, wk, pc, body, mq, secret, rows, nextId, leftOnCause, policy>>
<1> DEFINE p == IF obj.fin THEN "deleting" ELSE "gone"
<1>1. obj \in Objs /\ p \in {"deleting", "gone"}
  BY DEF TypeOK
<1>2. obj' = [obj EXCEPT !.phase = p]
  BY DEF DeleteObj
<1>3. obj.phase = "live" /\ UNCHANGED <<seen, wk, pc, body, mq, secret, rows, nextId, leftOnCause, policy>>
  BY DEF DeleteObj, wkVars, llmVars
<1> HIDE DEF p
<1>4. obj' \in Objs
  BY <1>1, <1>2, ZenonT(60) DEF Objs
<1>5. /\ obj'.phase = p /\ obj'.fin = obj.fin /\ obj'.gen = obj.gen /\ obj'.v = obj.v
      /\ obj'.wide = obj.wide
      /\ obj'.id = obj.id /\ obj'.hash = obj.hash /\ obj'.obs = obj.obs /\ obj'.reason = obj.reason
  BY <1>1, <1>2 DEF Objs
<1> QED
  BY <1>3, <1>4, <1>5 DEF p

LEMMA FinFacts ==
  ASSUME TypeOK, AddsFin \/ Drops
  PROVE  /\ obj' \in Objs
         /\ AddsFin => obj'.phase = obj.phase /\ obj'.fin = TRUE
         /\ Drops => obj'.phase = "gone" /\ obj'.fin = FALSE
         /\ obj'.gen = obj.gen /\ obj'.v = obj.v /\ obj'.wide = obj.wide
         /\ obj'.id = obj.id /\ obj'.hash = obj.hash /\ obj'.obs = obj.obs /\ obj'.reason = obj.reason
<1>1. obj \in Objs
  BY DEF TypeOK
<1>2. CASE AddsFin
  <2>1. obj' = [obj EXCEPT !.fin = TRUE] /\ pc = "start"
    BY <1>2 DEF AddsFin
  <2>2. obj' \in Objs
    BY <1>1, <2>1, ZenonT(60) DEF Objs
  <2> QED
    BY <1>1, <2>1, <2>2 DEF Objs, Drops
<1>3. CASE Drops
  <2>1. obj' = [obj EXCEPT !.phase = "gone", !.fin = FALSE] /\ pc = "drop"
    BY <1>3 DEF Drops
  <2>2. obj' \in Objs
    BY <1>1, <2>1, ZenonT(60) DEF Objs
  <2> QED
    BY <1>1, <2>1, <2>2 DEF Objs, AddsFin
<1> QED
  BY <1>2, <1>3

\* The worker's copy, of whatever it works on, keeps all but the id; a record
\* follows an applied body.
LEMMA GoesFacts ==
  ASSUME TypeOK, Goes
  PROVE  /\ wk' \in Objs /\ body' \in Bodies /\ pc' \in LivePCs \cup DelPCs /\ pc # "idle"
         /\ wk'.phase = wk.phase /\ wk'.fin = wk.fin /\ wk'.gen = wk.gen /\ wk'.v = wk.v
         /\ wk'.wide = wk.wide
         /\ pc' \in DelPCs => pc \in {"start", "resolved"} /\ wk' = wk
         /\ pc' \in LivePCs => Running
         /\ ~Applies => wk'.hash = wk.hash /\ wk'.id \in {wk.id, 0} /\ pc' # "synced"
         /\ Applies => wk'.hash = body /\ wk'.id # 0 /\ wk'.id < nextId'
<1>1. wk \in Objs /\ body \in Bodies /\ secret \in Versions /\ 0 \in Ids
  BY Bounds DEF TypeOK, Ids
<1>2. CASE Leaving \/ Passes
  BY <1>1, <1>2 DEF Leaving, Passes, Applies, LivePCs, BodyPCs, DelPCs, Running
<1>3. CASE Renders
  BY <1>1, <1>3, RenderedFacts DEF Renders, Applies, LivePCs, BodyPCs, DelPCs, Running
<1>4. CASE Seeks
  <2> DEFINE z == [wk EXCEPT !.id = 0]
  <2>1. /\ z \in Objs
        /\ z.phase = wk.phase /\ z.fin = wk.fin /\ z.gen = wk.gen /\ z.v = wk.v /\ z.wide = wk.wide
        /\ z.id = 0 /\ z.hash = wk.hash
    BY <1>1, CopyFacts
  <2>2. wk' = wk \/ wk' = z
    BY <1>4 DEF Seeks
  <2>3. pc \in BodyPCs /\ pc' \in BodyPCs /\ body' = body
    BY <1>4 DEF Seeks
  <2>4. pc' # "synced" /\ pc' \notin DelPCs /\ pc # "idle" /\ Running /\ ~Applies
    BY <2>3 DEF Applies, LivePCs, BodyPCs, DelPCs, Running
  <2> HIDE DEF z
  <2> QED
    BY <1>1, <2>1, <2>2, <2>3, <2>4 DEF LivePCs
<1>5. CASE Applies
  <2>1. PICK i \in Ids \ {0} : /\ i < nextId'
                               /\ wk' = [wk EXCEPT !.id = i, !.hash = body, !.ihash = body.info]
    BY <1>5 DEF Applies
  <2>2. body.info \in Versions /\ i \in Ids
    BY <1>1 DEF Bodies
  <2>3. wk' \in Objs
    BY <1>1, <2>1, <2>2, ZenonT(60) DEF Objs
  <2>4. /\ wk'.phase = wk.phase /\ wk'.fin = wk.fin /\ wk'.gen = wk.gen /\ wk'.v = wk.v
        /\ wk'.wide = wk.wide
        /\ wk'.id = i /\ wk'.hash = body
    BY <1>1, <2>1 DEF Objs
  <2>5. pc \in BodyPCs /\ pc' = "synced" /\ body' = body
    BY <1>5 DEF Applies
  <2>6. pc' \notin DelPCs /\ pc # "idle" /\ Running
    BY <2>5 DEF LivePCs, BodyPCs, DelPCs, Running
  <2> QED
    BY <1>1, <1>5, <2>1, <2>3, <2>4, <2>5, <2>6 DEF LivePCs
<1> QED
  BY <1>2, <1>3, <1>4, <1>5 DEF Goes

\* Objects and copies keep their types.
LEMMA CopiesTyped ==
  ASSUME TypeOK, Counted, WorkStep, ObjStep
  PROVE  obj' \in Objs /\ seen' \in Objs /\ wk' \in Objs /\ pc' \in PCs /\ body' \in Bodies
<1>1. obj \in Objs /\ seen \in Objs /\ wk \in Objs /\ pc \in PCs /\ body \in Bodies
  BY DEF TypeOK
<1>2. obj' \in Objs /\ seen' \in Objs
  <2>1. CASE Watches
    BY <1>1, <2>1 DEF Watches
  <2>2. CASE StatusStep
    BY <1>1, <2>2, WriteFacts DEF StatusStep
  <2>3. CASE AddsFin \/ Drops
    BY <1>1, <2>3, FinFacts DEF AddsFin, Drops
  <2>4. CASE EditSpec
    BY <1>1, <2>4, EditFacts
  <2>5. CASE DeleteObj
    BY <1>1, <2>5, DeleteFacts
  <2> QED
    BY <2>1, <2>2, <2>3, <2>4, <2>5 DEF ObjStep
<1>3. wk' \in Objs /\ pc' \in PCs /\ body' \in Bodies
  <2>1. CASE Starts \/ Ends \/ UNCHANGED <<wk, pc, body>>
    BY <1>1, <2>1, NewFacts DEF Starts, Ends, PCs
  <2>2. CASE Goes
    BY <2>2, GoesFacts DEF LivePCs, BodyPCs, DelPCs, PCs
  <2> QED
    BY <2>1, <2>2 DEF WorkStep
<1> QED
  BY <1>2, <1>3

LEMMA RowsTyped ==
  ASSUME TypeOK, IdsKnown, RowStep
  PROVE  /\ rows' \subseteq Rows /\ late' \subseteq Bodies
         /\ nextId' \in 1 .. MaxIds + 1 /\ nextId' >= nextId
         /\ \A r \in rows' : r.id < nextId'
<1>1. rows \subseteq Rows /\ late \subseteq Bodies /\ body \in Bodies /\ nextId \in 1 .. MaxIds + 1
  BY DEF TypeOK
<1>2. \A r \in rows : r.id < nextId /\ r.id \in Nat
  BY <1>1, Bounds DEF IdsKnown, Rows, Ids
<1>3. CASE Removes
  BY <1>1, <1>2, <1>3, Bounds DEF Removes
<1>4. CASE Rewrites
  <2>1. PICK i : rows' = (rows \ RowOf(i)) \cup {Updated(r, body) : r \in RowOf(i)}
    BY <1>4 DEF Rewrites
  <2>2. \A s \in rows' : s \in Rows /\ s.id < nextId
    BY <1>1, <1>2, <2>1, UpdatedFacts DEF RowOf
  <2> QED
    BY <1>1, <1>4, <2>2, Bounds DEF Rewrites
<1>5. ASSUME NEW b \in Bodies, nextId <= MaxIds, nextId' = nextId + 1,
             rows' = rows \cup {[id |-> nextId, body |-> b]}
      PROVE  /\ rows' \subseteq Rows
             /\ nextId' \in 1 .. MaxIds + 1 /\ nextId' >= nextId
             /\ \A r \in rows' : r.id < nextId'
  <2>1. [id |-> nextId, body |-> b] \in Rows
    BY <1>1, <1>5, Bounds DEF Rows, Ids
  <2> QED
    BY <1>1, <1>2, <1>5, <2>1, Bounds
<1>6. CASE Makes
  BY <1>1, <1>5, <1>6 DEF Makes
<1>7. CASE PutsOff
  BY <1>1, <1>2, <1>7, Bounds DEF PutsOff
<1>8. CASE LateApply
  <2>1. PICK b \in late : late' = late \ {b} /\ rows' = rows \cup {[id |-> nextId, body |-> b]}
    BY <1>8 DEF LateApply
  <2> QED
    BY <1>1, <1>5, <1>8, <2>1 DEF LateApply
<1> QED
  BY <1>3, <1>4, <1>6, <1>7, <1>8 DEF RowStep

LEMMA FlagsTyped ==
  ASSUME TypeOK, Next
  PROVE  mq' \in BOOLEAN /\ leftOnCause' \in BOOLEAN
<1>1. mq \in BOOLEAN /\ leftOnCause \in BOOLEAN
  BY DEF TypeOK
<1>2. /\ (mq \/ faults' # faults) \in BOOLEAN
      /\ (leftOnCause /\ obj.phase = "gone") \in BOOLEAN
  BY <1>1
<1>3. mq' \in BOOLEAN
  <2>1. CASE UNCHANGED mq
    BY <1>1, <2>1
  <2>2. ASSUME NEW p, GoOn(p) PROVE mq' \in BOOLEAN
    BY <1>1, <2>2 DEF GoOn
  <2>3. ASSUME Requeue PROVE mq' \in BOOLEAN
    BY <2>3 DEF Requeue
  <2>4. ASSUME NEW p, AckMissing(p) PROVE mq' \in BOOLEAN
    BY <2>2, <2>3, <2>4 DEF AckMissing
  <2>5. CASE DeleteUnavailable \/ DeleteTracked \/ ResolveByName \/ DeleteResolved
    BY <2>1, <2>2, <2>3, <2>4, <2>5
    DEF DeleteUnavailable, DeleteTracked, ResolveByName, DeleteResolved, DeleteCall
  <2>6. CASE DropFinalizer \/ AddFinalizer
    BY <2>1, <2>3, <2>6 DEF DropFinalizer, AddFinalizer
  <2>7. CASE Gate
    BY <2>1, <2>2, <2>7 DEF Gate
  <2>8. CASE Render
    BY <2>1, <2>3, <2>8 DEF Render
  <2>9. CASE Probe
    BY <2>1, <2>2, <2>3, <2>9 DEF Probe
  <2>10. CASE Steady \/ WriteSynced
    BY <1>2, <2>1, <2>10 DEF Steady, WriteSynced
  <2>11. CASE Throttle
    BY <2>2, <2>3, <2>11 DEF Throttle
  <2>12. CASE FindByName
    BY <2>1, <2>2, <2>3, <2>12 DEF FindByName
  <2>13. CASE Adopt \/ CreateNew \/ DeleteOld \/ UpdateTracked
    <3>1. \/ GoOn("recreate") \/ (\E i : Applied(i)) \/ (\E o : ClassifyMutationError(o))
      BY <2>13 DEF Adopt, CreateNew, DeleteOld, UpdateTracked
    <3> QED
      BY <1>1, <2>2, <3>1, ClassifyFacts DEF Applied
  <2>14. CASE Fetch
    BY <2>14 DEF Fetch
  <2>15. CASE Sync \/ Relist \/ Annotate \/ RotateSecret \/ ConnUp \/ Crash
    BY <2>15 DEF Sync, Relist, Annotate, RotateSecret, ConnUp, Crash
  <2> QED
    BY <2>1, <2>5, <2>6, <2>7, <2>8, <2>9, <2>10, <2>11, <2>12, <2>13, <2>14, <2>15
    DEF Next, Reconcile, Outside, PruneOne, PruneDone, EditSpec, DeleteObj, OutOfBandDelete,
        FlipListing, LateApply, ConnDown, Expire
<1>4. leftOnCause' \in BOOLEAN
  <2>1. CASE UNCHANGED leftOnCause
    BY <1>1, <2>1
  <2>2. ASSUME NEW p, AckMissing(p) PROVE leftOnCause' \in BOOLEAN
    BY <1>1, <2>2 DEF AckMissing
  <2>3. CASE DeleteUnavailable \/ DeleteTracked \/ ResolveByName \/ DeleteResolved
    BY <2>1, <2>2, <2>3 DEF DeleteUnavailable, DeleteTracked, ResolveByName, DeleteResolved, DeleteCall
  <2>4. CASE DropFinalizer \/ Crash
    BY <1>2, <2>1, <2>4 DEF DropFinalizer, Crash
  <2> QED
    BY <2>1, <2>3, <2>4
    DEF Next, Reconcile, Outside, Sync, Relist, Fetch, AddFinalizer, Gate, Render, Probe, PruneOne,
        PruneDone, Steady, Throttle, FindByName, Adopt, CreateNew, DeleteOld, UpdateTracked, WriteSynced,
        EditSpec, DeleteObj, Annotate, RotateSecret, OutOfBandDelete, FlipListing, LateApply, ConnDown,
        ConnUp, Expire
<1> QED
  BY <1>3, <1>4

\* What is noted of a reconcile and of the record.
LEMMA NoteMoves ==
  ASSUME TypeOK, ObjStep, Next
  PROVE  \/ Note
         \/ LateApply
         \/ /\ offRecord' = offRecord /\ rows' \subseteq rows
            /\ obj'.id = obj.id /\ obj'.hash = obj.hash
<1>1. CASE Gate \/ Render \/ Steady \/ Throttle \/ Adopt \/ CreateNew \/ DeleteOld \/ UpdateTracked \/ WriteSynced
  BY <1>1 DEF Gate, Render, Steady, Throttle, Adopt, CreateNew, DeleteOld, UpdateTracked, WriteSynced
<1>2. ASSUME offRecord' = offRecord, UNCHANGED obj, rows' \subseteq rows
      PROVE  offRecord' = offRecord /\ rows' \subseteq rows /\ obj'.id = obj.id /\ obj'.hash = obj.hash
  BY <1>2
<1>3. CASE UNCHANGED objVars /\ UNCHANGED llmVars
  BY <1>2, <1>3 DEF objVars, llmVars
<1>4. CASE DeleteTracked \/ DeleteResolved \/ PruneOne \/ OutOfBandDelete \/ FlipListing
  BY <1>2, <1>4
  DEF DeleteTracked, DeleteResolved, PruneOne, OutOfBandDelete, FlipListing, DeleteCall, Delete, objVars
<1>5. CASE DropFinalizer \/ AddFinalizer
  <2>1. offRecord' = offRecord /\ rows' = rows
    BY <1>5 DEF DropFinalizer, AddFinalizer, llmVars
  <2>2. obj' = obj \/ obj' = [obj EXCEPT !.phase = "gone", !.fin = FALSE] \/ obj' = [obj EXCEPT !.fin = TRUE]
    BY <1>5 DEF DropFinalizer, AddFinalizer
  <2>3. obj \in Objs
    BY DEF TypeOK
  <2>4. obj'.id = obj.id /\ obj'.hash = obj.hash
    BY <2>2, <2>3 DEF Objs
  <2> QED
    BY <2>1, <2>4
<1>6. CASE EditSpec \/ DeleteObj
  <2>1. offRecord' = offRecord /\ rows' = rows
    BY <1>6 DEF EditSpec, DeleteObj, llmVars
  <2>2. obj \in Objs
    BY DEF TypeOK
  <2>3. obj'.id = obj.id /\ obj'.hash = obj.hash
    BY <1>6, <2>2 DEF EditSpec, DeleteObj, Objs
  <2> QED
    BY <2>1, <2>3
<1>7. CASE Sync \/ Crash
  BY <1>2, <1>7 DEF Sync, Crash, llmVars
<1> QED
  BY <1>1, <1>3, <1>4, <1>5, <1>6, <1>7
  DEF Next, Reconcile, Outside, Relist, Fetch, DeleteUnavailable, ResolveByName, Probe, PruneDone,
      FindByName, Annotate, RotateSecret, ConnDown, ConnUp, Expire

LEMMA AgedMoves ==
  ASSUME TypeOK, Next
  PROVE  \/ Ends /\ aged' = FALSE
         \/ aged' = aged /\ (pc # "idle" \/ pc' = pc)
         \/ Starts /\ aged' = (RecordOf(seen) # RecordOf(obj)) /\ UNCHANGED <<obj, rows>>
<1>1. ASSUME Finish PROVE Ends /\ aged' = FALSE
  BY <1>1 DEF Finish, Ends
<1>2. ASSUME NEW p, GoOn(p) PROVE aged' = aged
  BY <1>2 DEF GoOn
<1>3. ASSUME NEW o, ClassifyMutationError(o) PROVE Finish
  BY <1>3, ClassifyFacts
<1>4. CASE Fetch
  <2>1. CASE seen.phase = "gone"
    BY <1>4, <2>1 DEF Fetch
  <2>2. CASE seen.phase # "gone"
    BY <1>4, <2>2 DEF Fetch, Starts, objVars, llmVars
  <2> QED
    BY <2>1, <2>2
<1>5. CASE DeleteUnavailable \/ DeleteTracked \/ DeleteResolved \/ ResolveByName
  <2>1. Finish \/ aged' = aged
    BY <1>2, <1>5
    DEF DeleteUnavailable, DeleteTracked, DeleteResolved, ResolveByName, DeleteCall, AckMissing, Requeue
  <2>2. pc # "idle"
    BY <1>5 DEF DeleteUnavailable, DeleteTracked, DeleteResolved, ResolveByName, Deleting
  <2> QED
    BY <1>1, <2>1, <2>2
<1>6. CASE DropFinalizer \/ AddFinalizer \/ Steady \/ WriteSynced \/ Crash
  BY <1>1, <1>6 DEF DropFinalizer, AddFinalizer, Steady, WriteSynced, Crash, Requeue
<1>7. CASE Gate \/ Render \/ Probe \/ Throttle \/ FindByName
  <2>1. Finish \/ aged' = aged
    BY <1>2, <1>7 DEF Gate, Render, Probe, Throttle, FindByName, Requeue
  <2>2. pc # "idle"
    BY <1>7 DEF Gate, Render, Probe, Throttle, FindByName
  <2> QED
    BY <1>1, <2>1, <2>2
<1>8. CASE Adopt \/ CreateNew \/ DeleteOld \/ UpdateTracked
  <2>1. \/ GoOn("recreate") \/ (\E i : Applied(i)) \/ (\E o : ClassifyMutationError(o))
    BY <1>8 DEF Adopt, CreateNew, DeleteOld, UpdateTracked
  <2>2. Finish \/ aged' = aged
    BY <1>2, <1>3, <2>1 DEF Applied
  <2>3. pc # "idle"
    BY <1>8 DEF Adopt, CreateNew, DeleteOld, UpdateTracked
  <2> QED
    BY <1>1, <2>2, <2>3
<1>9. CASE PruneOne \/ PruneDone
  BY <1>9 DEF PruneOne, PruneDone
<1>10. CASE UNCHANGED wkVars
  BY <1>10 DEF wkVars
<1> QED
  BY <1>4, <1>5, <1>6, <1>7, <1>8, <1>9, <1>10
  DEF Next, Reconcile, Outside, Sync, Relist, EditSpec, DeleteObj, Annotate, RotateSecret,
      OutOfBandDelete, FlipListing, LateApply, ConnDown, ConnUp, Expire

LEMMA GhostsTyped ==
  ASSUME TypeOK, ObjStep, Next
  PROVE  aged' \in BOOLEAN /\ offRecord' \in BOOLEAN
<1>1. aged \in BOOLEAN /\ offRecord \in BOOLEAN
  BY DEF TypeOK
<1>2. aged' \in BOOLEAN
  BY <1>1, AgedMoves
<1>3. /\ (~KeysOnRecord' /\ (offRecord \/ body.wide \/ aged)) \in BOOLEAN
      /\ (offRecord \/ ~KeysOnRecord') \in BOOLEAN
  OBVIOUS
<1>4. offRecord' \in BOOLEAN
  BY <1>1, <1>3, NoteMoves DEF Note, LateApply
<1> QED
  BY <1>2, <1>4

\* Bounds are kept, and a lookup returns ids.
LEMMA CountsTyped ==
  ASSUME TypeOK, Paths, Next
  PROVE  /\ found' \subseteq Ids \ {0} /\ churn' \in 0 .. RecreateLimit
         /\ events' \in 0 .. MaxEvents /\ events' >= events
         /\ faults' \in 0 .. MaxFaults /\ crashes' \in 0 .. MaxCrashes
<1>1. /\ found \subseteq Ids \ {0} /\ churn \in 0 .. RecreateLimit /\ events \in 0 .. MaxEvents
      /\ faults \in 0 .. MaxFaults /\ crashes \in 0 .. MaxCrashes
  BY DEF TypeOK
<1>2. Listed \subseteq Ids \ {0}
  BY DEF TypeOK, Listed, IdsOf, Rows
<1>3. ASSUME NEW o, ClassifyMutationError(o) PROVE found' = {}
  BY <1>3, ClassifyFacts DEF Finish
<1>4. found' \subseteq Ids \ {0}
  <2>1. CASE found' = found \/ found' = {}
    BY <1>1, <2>1
  <2>2. CASE DeleteUnavailable \/ DeleteTracked \/ DeleteResolved
    BY <2>1, <2>2 DEF DeleteUnavailable, DeleteTracked, DeleteResolved, DeleteCall, AckMissing, GoOn, Requeue, Finish
  <2>3. CASE ResolveByName
    <3>1. found' = found \/ found' = {} \/ \E i \in Listed : found' = {i}
      BY <2>3 DEF ResolveByName, AckMissing, GoOn, Requeue, Finish
    <3> QED
      BY <1>2, <2>1, <3>1
  <2>4. CASE DropFinalizer \/ AddFinalizer \/ Gate \/ Render
    BY <2>1, <2>4 DEF DropFinalizer, AddFinalizer, Gate, Render, GoOn, Requeue, Finish
  <2>5. CASE Probe
    BY <1>2, <2>1, <2>5 DEF Probe, GoOn, Requeue, Finish
  <2>6. CASE PruneOne \/ PruneDone
    BY <1>1, <2>6 DEF PruneOne, PruneDone
  <2>7. CASE Steady \/ WriteSynced \/ Throttle
    BY <2>1, <2>7 DEF Steady, WriteSynced, Throttle, GoOn, Requeue, Finish
  <2>8. CASE FindByName
    <3>1. found' = found \/ found' = {} \/ \E i \in Listed : found' = {i}
      BY <2>8 DEF FindByName, GoOn, Requeue, Finish
    <3> QED
      BY <1>2, <2>1, <3>1
  <2>9. CASE Adopt \/ CreateNew \/ DeleteOld \/ UpdateTracked
    <3>1. \/ GoOn("recreate") \/ (\E i : Applied(i)) \/ (\E o : ClassifyMutationError(o))
      BY <2>9 DEF Adopt, CreateNew, DeleteOld, UpdateTracked
    <3> QED
      BY <1>3, <2>1, <3>1 DEF GoOn, Applied
  <2>10. CASE Crash \/ Fetch \/ UNCHANGED wkVars
    BY <2>1, <2>10 DEF Crash, Fetch, Finish, wkVars
  <2> QED
    BY <2>2, <2>3, <2>4, <2>5, <2>6, <2>7, <2>8, <2>9, <2>10
    DEF Next, Reconcile, Outside, Sync, Relist, EditSpec, DeleteObj, Annotate, RotateSecret,
        OutOfBandDelete, FlipListing, LateApply, ConnDown, ConnUp, Expire
<1>5. churn' \in 0 .. RecreateLimit
  <2>1. CASE churn' = churn \/ churn' = 0
    BY <1>1, <2>1, Bounds
  <2>2. CASE CreateNew
    <3>1. CASE pc = "create" /\ ~FirstReconcile
      <4>1. churn < RecreateLimit
        BY <3>1 DEF Paths
      <4> QED
        BY <1>1, <2>2, <4>1, Bounds DEF CreateNew
    <3>2. CASE ~(pc = "create" /\ ~FirstReconcile)
      BY <1>1, <2>2, <3>2 DEF CreateNew
    <3> QED
      BY <3>1, <3>2
  <2>3. CASE Expire
    BY <1>1, <2>3, Bounds DEF Expire
  <2> QED
    BY <2>1, <2>2, <2>3
    DEF Next, Reconcile, Outside, Sync, Relist, Fetch, DeleteUnavailable, DeleteTracked, ResolveByName,
        DeleteResolved, DropFinalizer, AddFinalizer, Gate, Render, Probe, PruneOne,
        PruneDone, Steady, Throttle, FindByName, Adopt, DeleteOld, UpdateTracked, WriteSynced,
        EditSpec, DeleteObj, Annotate, RotateSecret, OutOfBandDelete, FlipListing, LateApply, ConnDown,
        ConnUp, Crash
<1>6. events' \in 0 .. MaxEvents /\ events' >= events
  <2>1. CASE events' = events
    BY <1>1, <2>1
  <2>2. CASE Event
    BY <1>1, <2>2, Bounds DEF Event
  <2> QED
    BY <2>1, <2>2
    DEF Next, Reconcile, Outside, Sync, Relist, Fetch, DeleteUnavailable, DeleteTracked, ResolveByName,
        DeleteResolved, DropFinalizer, AddFinalizer, Gate, Render, Probe, PruneOne, CreateNew,
        PruneDone, Steady, Throttle, FindByName, Adopt, DeleteOld, UpdateTracked, WriteSynced,
        EditSpec, DeleteObj, Annotate, RotateSecret, OutOfBandDelete, FlipListing, LateApply, ConnDown,
        ConnUp, Expire, Crash, envVars
<1>7. faults' \in 0 .. MaxFaults
  <2>1. CASE faults' = faults
    BY <1>1, <2>1
  <2>2. CASE faults < MaxFaults /\ faults' = faults + 1
    BY <1>1, <2>2, Bounds
  <2>3. CASE \E o : Outcome(o)
    BY <2>1, <2>2, <2>3 DEF Outcome
  <2> QED
    BY <2>1, <2>2, <2>3
    DEF Next, Reconcile, Outside, Sync, Relist, Fetch, DeleteUnavailable, DeleteTracked, ResolveByName,
        DeleteResolved, DropFinalizer, AddFinalizer, Gate, Render, Probe, PruneOne, CreateNew,
        PruneDone, Steady, Throttle, FindByName, Adopt, DeleteOld, UpdateTracked, WriteSynced, DeleteCall,
        EditSpec, DeleteObj, Annotate, RotateSecret, OutOfBandDelete, FlipListing, LateApply, ConnDown,
        ConnUp, Expire, Crash, EndWith, StatusLost
<1>8. crashes' \in 0 .. MaxCrashes
  <2>1. CASE crashes' = crashes
    BY <1>1, <2>1
  <2>2. CASE Crash
    BY <1>1, <2>2, Bounds DEF Crash
  <2> QED
    BY <2>1, <2>2
    DEF Next, Reconcile, Outside, Sync, Relist, Fetch, DeleteUnavailable, DeleteTracked, ResolveByName,
        DeleteResolved, DropFinalizer, AddFinalizer, Gate, Render, Probe, PruneOne, CreateNew,
        PruneDone, Steady, Throttle, FindByName, Adopt, DeleteOld, UpdateTracked, WriteSynced,
        EditSpec, DeleteObj, Annotate, RotateSecret, OutOfBandDelete, FlipListing, LateApply, ConnDown,
        ConnUp, Expire, envVars
<1> QED
  BY <1>4, <1>5, <1>6, <1>7, <1>8

\* What changes outside LiteLLM and the object.
LEMMA WorldTyped ==
  ASSUME TypeOK, Next
  PROVE  /\ policy' \in [owned : BOOLEAN, ann : Written, spec : Written]
         /\ Effective' = Effective \/ Effective # "Orphan"
         /\ secret' \in Versions /\ conn' \in {"Synced", "Unreachable", "BadMasterKey", "Absent"}
<1>1. /\ policy \in [owned : BOOLEAN, ann : Written, spec : Written]
      /\ secret \in Versions /\ conn \in {"Synced", "Unreachable", "BadMasterKey", "Absent"}
  BY DEF TypeOK
<1>2. /\ policy' \in [owned : BOOLEAN, ann : Written, spec : Written]
      /\ Effective' = Effective \/ Effective # "Orphan"
  <2>1. CASE policy' = policy
    BY <1>1, <2>1 DEF Effective
  <2>2. CASE Annotate
    <3>1. policy' = [policy EXCEPT !.ann = "Orphan"]
      BY <2>2 DEF Annotate
    <3>0. "Orphan" \in Written
      BY DEF Written, Policies
    <3>2. policy' \in [owned : BOOLEAN, ann : Written, spec : Written]
      BY <1>1, <3>1, <3>0, ZenonT(60)
    <3>3. policy'.ann = "Orphan" /\ policy'.owned \in BOOLEAN
      BY <1>1, <3>1, <3>2
    <3>4. Parses(policy'.ann)
      BY <3>3 DEF Parses, Policies
    <3>5. Effective' = Resolve(policy'.owned, policy'.ann, policy'.spec)
      BY DEF Effective
    <3>6. Effective' = "Orphan"
      BY <3>3, <3>4, <3>5 DEF Resolve
    <3> QED
      BY <3>2, <3>6
  <2> QED
    BY <2>1, <2>2
    DEF Next, Reconcile, Outside, Sync, Relist, Fetch, DeleteUnavailable, DeleteTracked, ResolveByName,
        DeleteResolved, DropFinalizer, AddFinalizer, Gate, Render, Probe, PruneOne, CreateNew,
        PruneDone, Steady, Throttle, FindByName, Adopt, DeleteOld, UpdateTracked, WriteSynced,
        EditSpec, DeleteObj, RotateSecret, OutOfBandDelete, FlipListing, LateApply, ConnDown,
        ConnUp, Expire, Crash, envVars
<1>3. secret' \in Versions
  <2>1. CASE secret' = secret
    BY <1>1, <2>1
  <2>2. CASE RotateSecret
    BY <2>2, FreshFacts DEF RotateSecret
  <2> QED
    BY <2>1, <2>2
    DEF Next, Reconcile, Outside, Sync, Relist, Fetch, DeleteUnavailable, DeleteTracked, ResolveByName,
        DeleteResolved, DropFinalizer, AddFinalizer, Gate, Render, Probe, PruneOne, CreateNew,
        PruneDone, Steady, Throttle, FindByName, Adopt, DeleteOld, UpdateTracked, WriteSynced,
        EditSpec, DeleteObj, Annotate, OutOfBandDelete, FlipListing, LateApply, ConnDown,
        ConnUp, Expire, Crash, envVars
<1>4. conn' \in {"Synced", "Unreachable", "BadMasterKey", "Absent"}
  <2>1. CASE conn' = conn
    BY <1>1, <2>1
  <2>2. CASE Probe
    BY <1>1, <2>2 DEF Probe, InvalidateOn401
  <2>3. CASE Adopt \/ CreateNew \/ DeleteOld \/ UpdateTracked
    <3>1. conn' = conn \/ \E o : ClassifyMutationError(o)
      BY <2>3 DEF Adopt, CreateNew, DeleteOld, UpdateTracked, Applied
    <3> QED
      BY <1>1, <3>1, ClassifyFacts
  <2>4. CASE ConnDown \/ ConnUp
    BY <2>4 DEF ConnDown, ConnUp
  <2> QED
    BY <2>1, <2>2, <2>3, <2>4
    DEF Next, Reconcile, Outside, Sync, Relist, Fetch, DeleteUnavailable, DeleteTracked, ResolveByName,
        DeleteResolved, DropFinalizer, AddFinalizer, Gate, Render, PruneOne,
        PruneDone, Steady, Throttle, FindByName, WriteSynced,
        EditSpec, DeleteObj, Annotate, RotateSecret, OutOfBandDelete, FlipListing, LateApply,
        Expire, Crash, envVars
<1> QED
  BY <1>2, <1>3, <1>4

-----------------------------------------------------------------------------
(* What a step leaves alone.                                               *)

LEMMA ChurnMoves ==
  ASSUME TypeOK, Next
  PROVE  churn' <= churn \/ pc' \in {"idle", "synced"}
<1>1. churn \in Nat
  BY Bounds DEF TypeOK
<1>2. CASE churn' = churn \/ churn' = 0
  BY <1>1, <1>2
<1>3. CASE CreateNew
  BY <1>3, ClassifyFacts DEF CreateNew, Applied, Finish
<1>4. CASE Expire
  BY <1>1, <1>4 DEF Expire
<1> QED
  BY <1>2, <1>3, <1>4
  DEF Next, Reconcile, Outside, Sync, Relist, Fetch, DeleteUnavailable, DeleteTracked, ResolveByName,
      DeleteResolved, DropFinalizer, AddFinalizer, Gate, Render, Probe, PruneOne,
      PruneDone, Steady, Throttle, FindByName, Adopt, DeleteOld, UpdateTracked, WriteSynced,
      EditSpec, DeleteObj, Annotate, RotateSecret, OutOfBandDelete, FlipListing, LateApply, ConnDown,
      ConnUp, Crash

\* A permanent cause is not forgotten while the reconcile goes on, nor once the
\* resource is gone.
LEMMA LeftMoves ==
  ASSUME TypeOK, Next, leftOnCause
  PROVE  leftOnCause' \/ (Ends /\ obj.phase # "gone")
<1>1. CASE leftOnCause' = leftOnCause \/ leftOnCause' = TRUE
  BY <1>1
<1>2. CASE DropFinalizer \/ Crash
  BY <1>2 DEF DropFinalizer, Crash, Requeue, Finish, Ends
<1> QED
  BY <1>1, <1>2
  DEF Next, Reconcile, Outside, Sync, Relist, Fetch, AddFinalizer, Gate, Render, Probe, PruneOne,
      PruneDone, Steady, Throttle, FindByName, Adopt, CreateNew, DeleteOld, UpdateTracked, WriteSynced,
      EditSpec, DeleteObj, Annotate, RotateSecret, OutOfBandDelete, FlipListing, LateApply, ConnDown,
      ConnUp, Expire, DeleteUnavailable, DeleteTracked, DeleteResolved, ResolveByName, DeleteCall,
      AckMissing

\* The object: what a step may do to its generation, its id and its life.
LEMMA ObjKeeps ==
  ASSUME TypeOK, Paths, Counted, Pinned, ObjStep
  PROVE  /\ obj' \in Objs /\ seen' \in Objs
         /\ seen' = seen \/ (seen' = obj /\ obj' = obj /\ (Ends \/ UNCHANGED <<wk, pc>>))
         /\ EditSpec \/ (obj'.gen = obj.gen /\ obj'.v = obj.v /\ obj'.wide = obj.wide)
         /\ obj'.id = obj.id \/ (obj'.id = wk.id /\ wk.id # 0 /\ obj.fin)
         /\ obj'.obs = obj.obs \/ (obj'.obs = wk.gen /\ pc # "idle")
         /\ obj'.phase = "live" => obj.phase = "live"
         /\ obj'.phase = "deleting" => obj'.fin
         /\ obj.phase # "gone" /\ obj.fin /\ ~(obj'.phase # "gone" /\ obj'.fin) => Drops
         /\ obj.phase = "gone" => obj' = obj
         /\ obj.phase # "gone" /\ obj'.phase = "gone" => Drops \/ (DeleteObj /\ ~obj.fin)
<1>1. obj \in Objs /\ seen \in Objs /\ wk \in Objs
  BY DEF TypeOK
<1>2. CASE Watches
  BY <1>1, <1>2 DEF Watches, Pinned
<1>3. CASE StatusStep
  <2>1. PICK r \in Reasons : WriteStatus(wk, r) /\ Running /\ Ends /\ UNCHANGED seen
    BY <1>3 DEF StatusStep
  <2>2. pc # "idle" /\ obj.phase # "gone" /\ obj.fin
    BY <2>1 DEF Running, LivePCs, BodyPCs, Pinned
  <2> QED
    BY <1>1, <2>1, <2>2, WriteFacts
<1>4. CASE AddsFin
  <2>1. obj.phase = "live" /\ seen' = seen
    BY <1>4 DEF AddsFin
  <2> QED
    BY <1>1, <1>4, <2>1, FinFacts
<1>5. CASE Drops
  <2>1. obj.phase = "deleting" /\ seen' = seen
    BY <1>5 DEF Drops, Paths, DelPCs
  <2> QED
    BY <1>1, <1>5, <2>1, FinFacts
<1>6. CASE EditSpec
  BY <1>1, <1>6, EditFacts
<1>7. CASE DeleteObj
  BY <1>1, <1>7, DeleteFacts
<1> QED
  BY <1>2, <1>3, <1>4, <1>5, <1>6, <1>7 DEF ObjStep

\* No row takes an id that was given out before.
LEMMA RowIds ==
  ASSUME TypeOK, IdsKnown, RowStep, NEW i \in Nat, i < nextId, RowOf(i) = {}
  PROVE  \A r \in rows' : r.id # i
<1>1. rows \subseteq Rows /\ body \in Bodies /\ nextId \in Nat
  BY Bounds DEF TypeOK
<1>2. \A r \in rows : r.id # i
  BY DEF RowOf
<1>3. CASE Removes
  BY <1>2, <1>3 DEF Removes
<1>4. CASE Rewrites
  BY <1>1, <1>2, <1>4, UpdatedFacts DEF Rewrites, RowOf
<1>5. CASE Makes \/ LateApply
  <2>1. \E b : rows' = rows \cup {[id |-> nextId, body |-> b]}
    BY <1>5 DEF Makes, LateApply
  <2> QED
    BY <1>1, <1>2, <2>1
<1>6. CASE PutsOff
  BY <1>2, <1>6 DEF PutsOff
<1> QED
  BY <1>3, <1>4, <1>5, <1>6 DEF RowStep

-----------------------------------------------------------------------------
(* Every step keeps the invariant.                                         *)

LEMMA PathsStep ==
  ASSUME TypeOK, Paths, Next, WorkStep
  PROVE  Paths'
<1>1. CASE Ends
  BY <1>1 DEF Ends, Paths, LivePCs, BodyPCs, DelPCs
<1>2. CASE Starts
  BY <1>2 DEF Starts, Paths, LivePCs, BodyPCs, DelPCs
<1>3. pc' \in {"find", "create"} /\ wk' = wk /\ (FirstReconcile \/ churn < RecreateLimit)
        => FirstReconcile' \/ churn' < RecreateLimit
  <2>1. churn \in Nat /\ RecreateLimit \in Nat
    BY Bounds DEF TypeOK
  <2>2. churn' \in 0 .. RecreateLimit
    BY CountsTyped
  <2> QED
    BY <2>1, <2>2, ChurnMoves DEF FirstReconcile
<1>4. CASE UNCHANGED <<wk, pc, body>>
  BY <1>3, <1>4 DEF Paths
<1>5. CASE Goes
  <2>1. /\ pc' \in LivePCs \cup DelPCs /\ wk'.phase = wk.phase /\ wk'.fin = wk.fin /\ pc # "idle"
        /\ pc' \in DelPCs => wk' = wk
        /\ pc' \in LivePCs => Running
    BY <1>5, GoesFacts
  <2>2. Running => wk.phase = "live" /\ wk.fin
    BY DEF Running, Paths
  <2>3. pc' \in DelPCs => wk.phase = "deleting" /\ (pc' = "resolved" => wk.id = 0)
    BY <1>5 DEF Goes, Leaving, Passes, Renders, Seeks, Applies, DelPCs, BodyPCs, Paths
  <2>4. pc' \in {"find", "create"} => wk' = wk /\ (FirstReconcile \/ churn < RecreateLimit)
    BY <1>5 DEF Goes, Leaving, Passes, Renders, Seeks, Applies, DelPCs, Paths
  <2>5. LivePCs \cap DelPCs = {} /\ pc' # "idle"
    BY <2>1 DEF LivePCs, BodyPCs, DelPCs
  <2> QED
    BY <1>3, <2>1, <2>2, <2>3, <2>4, <2>5 DEF Paths, DelPCs
<1> QED
  BY <1>1, <1>2, <1>4, <1>5 DEF WorkStep

LEMMA CountedStep ==
  ASSUME TypeOK, Paths, Counted, Pinned, Next, WorkStep, ObjStep
  PROVE  Counted'
<1>1. /\ obj.gen \in Nat /\ seen.gen \in Nat /\ wk.gen \in Nat /\ obj.obs \in Nat /\ events \in Nat
  BY Bounds DEF TypeOK, Objs
<1>2. /\ seen' = seen \/ (seen' = obj /\ obj' = obj)
      /\ EditSpec \/ obj'.gen = obj.gen
      /\ EditSpec => obj'.gen = obj.gen + 1 /\ events' = events + 1
      /\ obj'.obs = obj.obs \/ (obj'.obs = wk.gen /\ pc # "idle")
  BY ObjKeeps, EditFacts
<1>3. events' \in 0 .. MaxEvents /\ events' >= events
  BY CountsTyped
<1>4. obj'.gen <= events' + 1 /\ obj.gen <= obj'.gen /\ obj'.gen \in Nat
  BY <1>1, <1>2, <1>3, Bounds DEF Counted
<1>5. obj'.obs <= obj'.gen /\ seen'.gen <= obj'.gen
  BY <1>1, <1>2, <1>4 DEF Counted
<1>6. pc' # "idle" => wk'.gen <= obj'.gen
  <2>1. CASE UNCHANGED <<wk, pc, body>> \/ Ends
    BY <1>1, <1>4, <2>1 DEF Counted, Ends
  <2>2. CASE Starts /\ UNCHANGED <<obj, seen, secret>>
    BY <2>2 DEF Counted, Starts
  <2>3. CASE Goes /\ UNCHANGED <<obj, seen, mq, secret>>
    BY <2>3, GoesFacts DEF Counted
  <2> QED
    BY <2>1, <2>2, <2>3 DEF WorkStep
<1> QED
  BY <1>4, <1>5, <1>6 DEF Counted

LEMMA PinnedStep ==
  ASSUME TypeOK, Paths, Counted, Pinned, WorkStep, ObjStep
  PROVE  Pinned'
<1>1. obj \in Objs /\ seen \in Objs /\ wk \in Objs
  BY DEF TypeOK
<1>2. /\ seen' = seen \/ (seen' = obj /\ obj' = obj /\ (Ends \/ UNCHANGED <<wk, pc>>))
      /\ obj'.phase = "live" => obj.phase = "live"
      /\ obj'.phase = "deleting" => obj'.fin
      /\ obj.phase # "gone" /\ obj.fin /\ ~(obj'.phase # "gone" /\ obj'.fin) => Drops
  BY ObjKeeps
<1>3. Drops => wk.phase = "deleting" /\ pc # "idle" /\ seen.phase # "live" /\ seen' = seen /\ pc' = "idle"
  BY DEF Drops, Paths, DelPCs, Pinned, Ends
<1>4. seen'.phase # "live" => obj'.phase # "live"
  BY <1>2 DEF Pinned
<1>5. seen'.phase = "live" /\ seen'.fin => obj'.phase # "gone" /\ obj'.fin
  BY <1>2, <1>3 DEF Pinned
<1>6. CASE UNCHANGED <<wk, pc, body>>
  <2>1. pc' # "idle" /\ wk'.phase = "deleting" => seen'.phase # "live"
    BY <1>2, <1>6 DEF Pinned
  <2>2. Running' => Running /\ pc' # "idle"
    BY <1>6 DEF Running, LivePCs, BodyPCs
  <2>3. Running' => obj'.phase # "gone" /\ obj'.fin
    BY <1>2, <1>3, <2>2 DEF Pinned
  <2> QED
    BY <1>2, <1>4, <1>5, <2>1, <2>3 DEF Pinned
<1>7. CASE Starts /\ UNCHANGED <<obj, seen, secret>>
  <2>1. pc' = "start" /\ wk' = seen /\ obj' = obj /\ seen' = seen
    BY <1>7 DEF Starts
  <2>2. Running' => wk'.phase = "live" /\ wk'.fin
    BY <2>1 DEF Running, LivePCs, BodyPCs
  <2> QED
    BY <1>2, <1>4, <1>5, <2>1, <2>2 DEF Pinned
<1>8. CASE Ends
  <2>1. pc' = "idle" /\ ~Running'
    BY <1>8 DEF Ends, Running, LivePCs, BodyPCs
  <2> QED
    BY <1>2, <1>4, <1>5, <2>1 DEF Pinned
<1>9. CASE Goes /\ UNCHANGED <<obj, seen, mq, secret>>
  <2>1. wk'.phase = wk.phase /\ pc # "idle" /\ pc' \in LivePCs \cup DelPCs /\ (pc' \in LivePCs => Running)
    BY <1>9, GoesFacts
  <2>2. Running' => Running
    BY <2>1 DEF Running, LivePCs, BodyPCs, DelPCs
  <2> QED
    BY <1>2, <1>4, <1>5, <1>9, <2>1, <2>2 DEF Pinned
<1> QED
  BY <1>6, <1>7, <1>8, <1>9 DEF WorkStep

LEMMA IdsKnownStep ==
  ASSUME TypeOK, Paths, Counted, Pinned, IdsKnown, WorkStep, ObjStep, RowStep
  PROVE  IdsKnown'
<1>1. /\ obj.id \in Nat /\ seen.id \in Nat /\ wk.id \in Nat /\ nextId \in Nat /\ nextId # 0
      /\ obj \in Objs /\ seen \in Objs /\ wk \in Objs
  BY Bounds DEF TypeOK, Objs, Ids
<1>2. nextId' \in Nat /\ nextId' >= nextId /\ \A r \in rows' : r.id < nextId'
  BY RowsTyped, Bounds
<1>3. obj'.id \in {obj.id, wk.id} /\ (seen' = seen \/ seen' = obj)
  BY ObjKeeps
<1>4. obj'.id < nextId' /\ seen'.id < nextId'
  BY <1>1, <1>2, <1>3 DEF IdsKnown
<1>5. wk'.id < nextId'
  <2>1. CASE UNCHANGED <<wk, pc, body>> \/ Starts
    BY <1>1, <1>2, <2>1 DEF IdsKnown, Starts
  <2>2. CASE Ends
    BY <1>1, <1>2, <2>2, NewFacts DEF Ends
  <2>3. CASE Goes
    BY <1>1, <1>2, <2>3, GoesFacts DEF IdsKnown
  <2> QED
    BY <2>1, <2>2, <2>3 DEF WorkStep
<1> QED
  BY <1>2, <1>4, <1>5 DEF IdsKnown

\* A reconcile comes to drop the finalizer with LiteLLM's word, or on a
\* permanent cause under Orphan.
LEMMA DropEntered ==
  ASSUME TypeOK, Paths, Next, pc' = "drop", pc # "drop"
  PROVE  \/ \A r \in rows' : r.id # wk.id
         \/ Effective' = "Orphan" /\ leftOnCause'
<1>1. \A r \in rows : r.id # 0
  BY DEF TypeOK, Rows
<1>2. policy.owned \in BOOLEAN /\ policy.ann \in Written /\ policy.spec \in Written
  BY DEF TypeOK
<1>3. Effective \in Policies
  BY <1>2 DEF Effective, Resolve, Parses, Policies
<1>4. ASSUME Finish PROVE FALSE
  BY <1>4 DEF Finish
<1>5. ASSUME NEW p, AckMissing(p), UNCHANGED policy
      PROVE  Effective' = "Orphan" /\ leftOnCause'
  <2>1. MayDrain(Effective, p) /\ leftOnCause' = TRUE
    BY <1>4, <1>5 DEF AckMissing, Requeue
  <2>2. Effective = "Orphan"
    BY <1>3, <2>1 DEF MayDrain, Policies
  <2>3. Effective' = Effective
    BY <1>5 DEF Effective
  <2> QED
    BY <2>1, <2>2, <2>3
<1>6. ASSUME NEW i, DeleteCall(i), UNCHANGED policy, i = wk.id \/ wk.id = 0
      PROVE  \/ \A r \in rows' : r.id # wk.id
             \/ Effective' = "Orphan" /\ leftOnCause'
  <2>1. PICK o \in Done \cup Refusals :
          /\ Delete(i, o)
          /\ \/ o = "ok"
             \/ AckMissing(FALSE) \/ AckMissing(TRUE) \/ Requeue
    BY <1>6 DEF DeleteCall
  <2>2. CASE o = "ok"
    BY <1>1, <1>6, <2>1, <2>2 DEF Delete, Done, RowOf
  <2> QED
    BY <1>4, <1>5, <1>6, <2>1, <2>2 DEF Requeue
<1>7. CASE DeleteUnavailable
  BY <1>5, <1>7 DEF DeleteUnavailable, envVars
<1>8. CASE DeleteTracked
  BY <1>6, <1>8 DEF DeleteTracked, envVars
<1>9. CASE DeleteResolved
  <2>1. wk.id = 0 /\ UNCHANGED policy /\ \E i \in found : DeleteCall(i)
    BY <1>9 DEF DeleteResolved, Paths, envVars
  <2> QED
    BY <1>6, <2>1
<1>10. CASE ResolveByName
  <2>1. wk.id = 0 /\ rows' = rows
    BY <1>10 DEF ResolveByName, llmVars
  <2> QED
    BY <1>1, <2>1
<1>11. CASE Adopt \/ CreateNew \/ DeleteOld \/ UpdateTracked
  <2>1. \/ GoOn("recreate") \/ (\E i : Applied(i)) \/ (\E o : ClassifyMutationError(o))
    BY <1>11 DEF Adopt, CreateNew, DeleteOld, UpdateTracked
  <2>2. (\E o : ClassifyMutationError(o)) => Finish
    BY ClassifyFacts
  <2> QED
    BY <1>4, <2>1, <2>2 DEF GoOn, Applied
<1>12. CASE pc' \in {pc, "idle", "start", "render", "probe", "decide", "prune", "find", "create", "adopt"}
  BY <1>12
<1> QED
  BY <1>7, <1>8, <1>9, <1>10, <1>11, <1>12
  DEF Next, Reconcile, Outside, Sync, Relist, Fetch, DropFinalizer, AddFinalizer, Gate, Render, Probe,
      PruneOne, PruneDone, Steady, Throttle, FindByName, WriteSynced, EditSpec, DeleteObj, Annotate,
      RotateSecret, OutOfBandDelete, FlipListing, LateApply, ConnDown, ConnUp, Expire, Crash,
      GoOn, Requeue, Finish, wkVars

LEMMA LeavesStep ==
  ASSUME TypeOK, Paths, Counted, Pinned, IdsKnown, Leaves, Next, WorkStep, ObjStep, RowStep
  PROVE  Leaves'
<1>1. /\ obj.id \in Nat /\ wk.id \in Nat /\ obj.id < nextId /\ wk.id < nextId
      /\ obj \in Objs
  BY Bounds DEF TypeOK, Objs, Ids, IdsKnown
<1>2. Effective = "Orphan" => Effective' = "Orphan"
  BY WorldTyped
<1>3. obj'.phase = "live" /\ ~obj'.fin => obj'.id = 0
  <2>1. /\ obj'.phase = "live" => obj.phase = "live"
        /\ obj'.id = obj.id \/ obj.fin
        /\ obj.phase # "gone" /\ obj.fin /\ ~(obj'.phase # "gone" /\ obj'.fin) => Drops
    BY ObjKeeps
  <2>2. Drops => obj'.phase = "gone"
    BY FinFacts
  <2> QED
    BY <2>1, <2>2 DEF Leaves
<1>4. pc' = "drop" => RowOf(wk.id)' = {} \/ (Effective' = "Orphan" /\ leftOnCause')
  <2> SUFFICES ASSUME pc' = "drop" PROVE RowOf(wk.id)' = {} \/ (Effective' = "Orphan" /\ leftOnCause')
    OBVIOUS
  <2>1. wk' = wk
    <3>1. CASE Ends \/ Starts
      BY <3>1 DEF Ends, Starts
    <3>2. CASE Goes
      BY <3>2, GoesFacts DEF DelPCs
    <3> QED
      BY <3>1, <3>2 DEF WorkStep
  <2>2. (\A r \in rows' : r.id # wk.id) => RowOf(wk.id)' = {}
    BY <2>1 DEF RowOf
  <2>3. CASE pc = "drop"
    <3>1. RowOf(wk.id) = {} \/ (Effective = "Orphan" /\ leftOnCause)
      BY <2>3 DEF Leaves
    <3>2. CASE RowOf(wk.id) = {}
      BY <1>1, <2>2, <3>2, RowIds
    <3>3. CASE Effective = "Orphan" /\ leftOnCause
      BY <1>2, <3>3, LeftMoves DEF Ends
    <3> QED
      BY <3>1, <3>2, <3>3
  <2>4. CASE pc # "drop"
    BY <2>2, <2>4, DropEntered
  <2> QED
    BY <2>3, <2>4
<1>5. NoSilentLeak'
  <2> SUFFICES ASSUME obj'.phase = "gone", obj'.id # 0, RowOf(obj.id)' # {}
               PROVE  Effective' = "Orphan" /\ leftOnCause'
    BY DEF NoSilentLeak
  <2>1. PICK r \in rows' : r.id = obj'.id
    BY DEF RowOf
  <2>2. CASE obj.phase = "gone"
    <3>1. obj' = obj
      BY <2>2, ObjKeeps
    <3>2. RowOf(obj.id) # {}
      BY <1>1, <2>1, <3>1, RowIds
    <3>3. Effective = "Orphan" /\ leftOnCause
      BY <2>2, <3>1, <3>2 DEF Leaves, NoSilentLeak
    <3> QED
      BY <1>2, <2>2, <3>3, LeftMoves
  <2>3. CASE obj.phase # "gone"
    <3>1. Drops \/ (DeleteObj /\ ~obj.fin)
      BY <2>3, ObjKeeps
    <3>2. CASE Drops
      <4>1. /\ pc = "drop" /\ obj = wk /\ obj'.id = obj.id
            /\ rows' = rows /\ leftOnCause' = leftOnCause /\ policy' = policy
        BY <3>2, FinFacts DEF Drops
      <4>2. RowOf(wk.id) # {}
        BY <2>1, <4>1 DEF RowOf
      <4>3. Effective = "Orphan" /\ leftOnCause
        BY <4>1, <4>2 DEF Leaves
      <4> QED
        BY <1>2, <4>1, <4>3
    <3>3. CASE DeleteObj /\ ~obj.fin
      <4>1. obj.phase = "live" /\ obj'.id = obj.id
        BY <3>3, DeleteFacts
      <4> QED
        BY <3>3, <4>1 DEF Leaves
    <3> QED
      BY <3>1, <3>2, <3>3
  <2> QED
    BY <2>2, <2>3
<1> QED
  BY <1>3, <1>4, <1>5 DEF Leaves

\* A reconcile comes to make a row when none is listed, or when the one it
\* tracks has been deleted.
LEMMA MakeEntered ==
  ASSUME TypeOK, Next, pc' \in {"create", "recreate"}, pc' # pc
  PROVE  \/ Listed = {} /\ rows' = rows
         \/ RowOf(wk.id) # {} /\ rows' = rows \ RowOf(wk.id)
<1>1. ASSUME Finish PROVE FALSE
  BY <1>1 DEF Finish
<1>2. ASSUME NEW o, ClassifyMutationError(o) PROVE FALSE
  BY <1>1, <1>2, ClassifyFacts
<1>3. CASE FindByName
  BY <1>1, <1>3 DEF FindByName, GoOn, Requeue, llmVars
<1>4. CASE DeleteOld
  <2>1. PICK o \in Done \cup Refusals :
          /\ Delete(wk.id, o)
          /\ (o = "ok" /\ RowOf(wk.id) # {}) \/ ClassifyMutationError("4xx") \/ ClassifyMutationError(o)
    BY <1>4 DEF DeleteOld
  <2>2. o = "ok" /\ RowOf(wk.id) # {}
    BY <1>2, <2>1
  <2> QED
    BY <2>1, <2>2 DEF Delete, Done
<1>5. CASE Adopt \/ CreateNew \/ UpdateTracked
  <2>1. (\E i : Applied(i)) \/ (\E o : ClassifyMutationError(o))
    BY <1>5 DEF Adopt, CreateNew, UpdateTracked
  <2> QED
    BY <1>2, <2>1 DEF Applied
<1>6. CASE DeleteUnavailable \/ DeleteTracked \/ ResolveByName \/ DeleteResolved
  BY <1>1, <1>6
  DEF DeleteUnavailable, DeleteTracked, ResolveByName, DeleteResolved, DeleteCall, AckMissing, GoOn, Requeue
<1>7. CASE pc' \in {pc, "idle", "start", "render", "probe", "decide", "prune", "find"}
  BY <1>7
<1> QED
  BY <1>3, <1>4, <1>5, <1>6, <1>7
  DEF Next, Reconcile, Outside, Sync, Relist, Fetch, DropFinalizer, AddFinalizer, Gate, Render, Probe,
      PruneOne, PruneDone, Steady, Throttle, WriteSynced, EditSpec, DeleteObj, Annotate,
      RotateSecret, OutOfBandDelete, FlipListing, LateApply, ConnDown, ConnUp, Expire, Crash,
      GoOn, Requeue, Finish, wkVars

LEMMA SingleStep ==
  ASSUME TypeOK, Single, Next, RowStep
  PROVE  Single'
<1> SUFFICES ASSUME InTime'
             PROVE  /\ listing' /\ late' = {}
                    /\ \A r, s \in rows' : r = s
                    /\ pc' \in {"create", "recreate"} => rows' = {}
  BY DEF Single
<1>1. slipped' = FALSE /\ ~IsRouter
  BY DEF InTime, RowStep
<1>2. slipped = FALSE /\ listing' = listing
  BY <1>1 DEF RowStep
<1>3. InTime
  BY <1>1, <1>2 DEF InTime
<1>4. /\ listing /\ late = {}
      /\ \A r, s \in rows : r = s
      /\ pc \in {"create", "recreate"} => rows = {}
  BY <1>3 DEF Single
<1>5. ~PutsOff /\ ~LateApply
  BY <1>1, <1>4 DEF PutsOff, LateApply
<1>6. CASE Removes \/ Rewrites
  <2>1. late' = late /\ \A r, s \in rows' : r = s
    <3>1. CASE Removes
      BY <1>4, <3>1 DEF Removes
    <3>2. CASE Rewrites
      <4>1. late' = late
        BY <3>2 DEF Rewrites
      <4>2. PICK i : rows' = (rows \ RowOf(i)) \cup {Updated(r, body) : r \in RowOf(i)}
        BY <3>2 DEF Rewrites
      <4>3. \A r \in rows : rows \ RowOf(i) = {} \/ RowOf(i) = {}
        BY <1>4 DEF RowOf
      <4>4. ASSUME NEW x \in rows', NEW y \in rows' PROVE x = y
        BY <1>4, <4>2 DEF RowOf
      <4> QED
        BY <4>1, <4>4
    <3> QED
      BY <1>6, <3>1, <3>2
  <2>2. rows = {} => rows' = {}
    BY <1>6 DEF Removes, Rewrites, RowOf
  <2>3. pc' \in {"create", "recreate"} => rows' = {}
    <3>1. CASE pc' = pc
      BY <1>4, <2>2, <3>1
    <3>2. CASE pc' \in {"create", "recreate"} /\ pc' # pc
      <4>1. \/ Listed = {} /\ rows' = rows
            \/ RowOf(wk.id) # {} /\ rows' = rows \ RowOf(wk.id)
        BY <3>2, MakeEntered
      <4>2. Listed = {} => rows = {}
        BY <1>1, <1>4 DEF Listed, IdsOf
      <4>3. RowOf(wk.id) # {} => rows \ RowOf(wk.id) = {}
        BY <1>4 DEF RowOf
      <4> QED
        BY <4>1, <4>2, <4>3
    <3> QED
      BY <3>1, <3>2
  <2> QED
    BY <1>2, <1>4, <2>1, <2>3
<1>7. CASE Makes
  <2>1. rows = {}
    BY <1>4, <1>7 DEF Makes
  <2> QED
    BY <1>2, <1>4, <1>7, <2>1 DEF Makes
<1> QED
  BY <1>5, <1>6, <1>7 DEF RowStep

LEMMA SafeInit ==
  ASSUME Init
  PROVE  SafeInv
<1> DEFINE row == [id |-> 1, body |-> LegacyObj.hash]
<1>1. /\ seen = obj /\ wk = NewObj /\ pc = "idle" /\ body = NoBody /\ found = {}
      /\ mq = TRUE /\ churn = 0 /\ policy \in PolicySettings /\ secret = 1 /\ conn = "Synced"
      /\ late = {} /\ listing = TRUE /\ slipped = FALSE /\ leftOnCause = FALSE
      /\ events = 0 /\ faults = 0 /\ crashes = 0 /\ aged = FALSE /\ offRecord = FALSE
  BY DEF Init
<1>2. \/ obj = NewObj /\ rows = {} /\ nextId = 1
      \/ obj = LegacyObj /\ rows = {row} /\ nextId = 2
  BY DEF Init
<1>3. 1 \in Versions /\ 1 \in 1 .. MaxIds + 1 /\ 2 \in 1 .. MaxIds + 1 /\ 1 \in Ids \ {0}
  BY Bounds DEF Versions, Ids
<1>4. row \in Rows /\ row.id = 1
  BY <1>3, LegacyFacts DEF Rows
<1> HIDE DEF row
<1>5. /\ obj \in Objs /\ rows \subseteq Rows /\ nextId \in 1 .. MaxIds + 1
      /\ obj.phase = "live" /\ (~obj.fin => obj.id = 0) /\ obj.gen = 1 /\ obj.obs <= 1
      /\ obj.id < nextId /\ 0 < nextId /\ (\A r \in rows : r.id < nextId)
      /\ \A r, s \in rows : r = s
  BY <1>2, <1>3, <1>4, NewFacts, LegacyFacts
<1>6. policy \in [owned : BOOLEAN, ann : Written, spec : Written]
  BY <1>1, ModelAssumption
<1>7. /\ churn \in 0 .. RecreateLimit /\ events \in 0 .. MaxEvents /\ faults \in 0 .. MaxFaults
      /\ crashes \in 0 .. MaxCrashes
  BY <1>1, Bounds
<1>8. /\ seen \in Objs /\ wk \in Objs /\ body \in Bodies /\ pc \in PCs
      /\ found \subseteq Ids \ {0} /\ late \subseteq Bodies
  BY <1>1, <1>5, NewFacts DEF PCs
<1>9. /\ aged \in BOOLEAN /\ offRecord \in BOOLEAN
      /\ mq \in BOOLEAN /\ listing \in BOOLEAN /\ slipped \in BOOLEAN /\ leftOnCause \in BOOLEAN
      /\ conn \in {"Synced", "Unreachable", "BadMasterKey", "Absent"} /\ secret \in Versions
  BY <1>1, <1>3
<1>10. TypeOK
  BY <1>5, <1>6, <1>7, <1>8, <1>9 DEF TypeOK
<1>11. Paths /\ ~Running
  BY <1>1 DEF Paths, Running, LivePCs, BodyPCs, DelPCs
<1>12. Counted /\ Pinned
  BY <1>1, <1>5, <1>11 DEF Counted, Pinned
<1>13. IdsKnown
  BY <1>1, <1>5, NewFacts DEF IdsKnown
<1>14. Leaves
  BY <1>1, <1>5 DEF Leaves, NoSilentLeak
<1>15. Single
  BY <1>1, <1>5 DEF Single
<1> QED
  BY <1>10, <1>11, <1>12, <1>13, <1>14, <1>15 DEF SafeInv

LEMMA SafeStep ==
  ASSUME SafeInv, [Next]_vars
  PROVE  SafeInv'
<1>1. CASE Next
  <2>1. TypeOK /\ Paths /\ Counted /\ Pinned /\ IdsKnown /\ Leaves /\ Single
    BY DEF SafeInv
  <2>2. WorkStep /\ ObjStep /\ RowStep
    BY <1>1, <2>1, WorkMoves, ObjMoves, RowMoves
  <2>3. slipped' \in BOOLEAN /\ listing' \in BOOLEAN
    BY <2>2 DEF RowStep
  <2>4. TypeOK'
    BY <1>1, <2>1, <2>2, <2>3, CopiesTyped, RowsTyped, FlagsTyped, GhostsTyped, CountsTyped, WorldTyped DEF TypeOK
  <2>5. Paths' /\ Counted' /\ Pinned'
    BY <1>1, <2>1, <2>2, PathsStep, CountedStep, PinnedStep
  <2>6. IdsKnown' /\ Leaves' /\ Single'
    BY <1>1, <2>1, <2>2, IdsKnownStep, LeavesStep, SingleStep
  <2> QED
    BY <2>4, <2>5, <2>6 DEF SafeInv
<1>2. CASE UNCHANGED vars
  <2>1. TypeOK'
    BY <1>2 DEF vars, SafeInv, TypeOK
  <2>2. Paths' /\ Counted' /\ IdsKnown'
    BY <1>2 DEF vars, SafeInv, Paths, FirstReconcile, Counted, IdsKnown
  <2>3. Pinned'
    BY <1>2 DEF vars, SafeInv, Pinned, Running
  <2>4. Leaves'
    BY <1>2 DEF vars, SafeInv, Leaves, RowOf, Effective, NoSilentLeak
  <2>5. Single'
    BY <1>2 DEF vars, SafeInv, Single, InTime
  <2> QED
    BY <2>1, <2>2, <2>3, <2>4, <2>5 DEF SafeInv
<1> QED
  BY <1>1, <1>2

LEMMA SafeAlways == Spec => []SafeInv
<1>1. Init => SafeInv
  BY SafeInit
<1>2. SafeInv /\ [Next]_vars => SafeInv'
  BY SafeStep
<1> QED
  BY <1>1, <1>2, PTL DEF Spec

\* The object, the copies, the rows and the counters keep their types: no
\* generation, id or recreate count leaves its bound.
THEOREM TypeCorrect == Spec => []TypeOK
<1>1. SafeInv => TypeOK
  BY DEF SafeInv
<1> QED
  BY <1>1, SafeAlways, PTL

\* keepPersistedID: once an id is persisted no status write blanks it, whichever
\* path wrote it and whatever its copy had cleared.
THEOREM IdKept == Spec => IdNeverBlanked
<1>1. SafeInv /\ [Next]_vars => [obj.id # 0 => obj'.id # 0]_vars
  <2> SUFFICES ASSUME SafeInv, Next PROVE obj.id # 0 => obj'.id # 0
    OBVIOUS
  <2>1. TypeOK /\ Paths /\ Counted /\ Pinned /\ ObjStep
    BY ObjMoves DEF SafeInv
  <2> QED
    BY <2>1, ObjKeeps
<1> QED
  BY <1>1, SafeAlways, PTL DEF Spec, IdNeverBlanked

\* onAckMissing and the finalizer: a resource that is gone left the row it
\* tracked only under Orphan and on a permanent cause.
THEOREM NoLeak == Spec => []NoSilentLeak
<1>1. SafeInv => NoSilentLeak
  BY DEF SafeInv, Leaves
<1> QED
  BY <1>1, SafeAlways, PTL

\* The lookup before a create, and the delete before a recreate: while LiteLLM
\* applies requests in time and lists what it holds there is one row at most.
THEOREM OneRowKept == Spec => []OneRow
<1>1. SafeInv => OneRow
  <2> SUFFICES ASSUME SafeInv, InTime PROVE Cardinality(rows) <= 1
    BY DEF OneRow
  <2>1. \A r, s \in rows : r = s
    BY DEF SafeInv, Single
  <2>2. CASE rows = {}
    BY <2>2, FS_EmptySet
  <2>3. CASE rows # {}
    <3>1. PICK r \in rows : TRUE
      BY <2>3
    <3>2. rows = {r}
      BY <2>1, <3>1
    <3>3. Cardinality({r}) = 1
      BY FS_Singleton
    <3> QED
      BY <3>2, <3>3
  <2> QED
    BY <2>2, <2>3
<1> QED
  BY <1>1, SafeAlways, PTL

-----------------------------------------------------------------------------
(* Synced tells the truth.                                                 *)

LEMMA SecretMoves ==
  ASSUME TypeOK, Next
  PROVE  \/ secret' = secret
         \/ /\ secret' \in Fresh(secret) \cup {0} /\ secret' # secret /\ mq' = TRUE
            /\ events' = events + 1 /\ UNCHANGED <<obj, seen, wk, pc, body, rows>>
<1>1. CASE RotateSecret
  BY <1>1 DEF RotateSecret, Event, objVars, wkVars, llmVars
<1>2. CASE secret' = secret
  BY <1>2
<1> QED
  BY <1>1, <1>2
  DEF Next, Reconcile, Outside, Sync, Relist, Fetch, DeleteUnavailable, DeleteTracked, ResolveByName,
      DeleteResolved, DropFinalizer, AddFinalizer, Gate, Render, Probe, PruneOne, CreateNew,
      PruneDone, Steady, Throttle, FindByName, Adopt, DeleteOld, UpdateTracked, WriteSynced,
      EditSpec, DeleteObj, Annotate, OutOfBandDelete, FlipListing, LateApply, ConnDown,
      ConnUp, Expire, Crash, envVars

\* Only a new reconcile takes the resource off the queue.
LEMMA QueueMoves ==
  ASSUME TypeOK, Next, mq
  PROVE  mq' = TRUE \/ (pc = "idle" /\ (pc' = "start" \/ seen'.phase = "gone"))
<1>1. CASE Fetch
  BY <1>1 DEF Fetch, objVars
<1>2. mq = TRUE
  BY DEF TypeOK
<1>3. CASE mq' = mq \/ mq' = TRUE \/ mq' = (mq \/ faults' # faults)
  BY <1>2, <1>3
<1>4. CASE Adopt \/ CreateNew \/ DeleteOld \/ UpdateTracked
  <2>1. \/ mq' = mq \/ (\E o : ClassifyMutationError(o))
    BY <1>4 DEF Adopt, CreateNew, DeleteOld, UpdateTracked, GoOn, Applied
  <2>2. (\E o : ClassifyMutationError(o)) => mq' = mq \/ mq' = TRUE
    BY ClassifyFacts
  <2> QED
    BY <1>3, <2>1, <2>2
<1> QED
  BY <1>1, <1>3, <1>4
  DEF Next, Reconcile, Outside, Sync, Relist, DeleteUnavailable, DeleteTracked, ResolveByName,
      DeleteResolved, DropFinalizer, AddFinalizer, Gate, Render, Probe, PruneOne,
      PruneDone, Steady, Throttle, FindByName, WriteSynced, DeleteCall, AckMissing, GoOn, Requeue,
      EditSpec, DeleteObj, Annotate, RotateSecret, OutOfBandDelete, FlipListing, LateApply, ConnDown,
      ConnUp, Expire, Crash

\* A reconcile that ends with nothing queued and the connection up has applied
\* all, or has a reason that no retry removes.
LEMMA QuietEnds ==
  ASSUME TypeOK, Next, pc # "idle", pc' = "idle", mq' = FALSE, conn' = "Synced"
  PROVE  \/ StatusStep \/ AddsFin \/ Drops
         \/ /\ obj' = obj /\ seen' = seen
            /\ \/ wk.phase = "deleting"
               \/ pc = "render" /\ wk.v \in BadSpecs
               \/ pc = "decide" /\ wk.hash = body
               \/ seen # obj
<1>1. CASE ~(obj' = obj)
  <2>1. Watches \/ EditSpec \/ DeleteObj => obj' = obj \/ pc' = pc
    BY DEF Watches, EditSpec, DeleteObj, wkVars
  <2> QED
    BY <1>1, <2>1, ObjMoves DEF ObjStep
<1>2. CASE obj' = obj
  <2>1. ASSUME Requeue PROVE FALSE
    BY <2>1 DEF Requeue
  <2>2. ASSUME NEW o, ClassifyMutationError(o)
        PROVE  mq' = mq /\ conn' # "Synced"
    BY <2>2, ClassifyFacts
  <2>3. CASE DropFinalizer
    BY <2>1, <2>3, ObjMoves DEF DropFinalizer, Unmoved, Finish, Ends, Drops, llmVars, envVars
  <2>4. CASE AddFinalizer
    BY <2>1, <2>4 DEF AddFinalizer, Unmoved, Finish, Ends, AddsFin, envVars
  <2>5. CASE Gate
    BY <2>5 DEF Gate, GoOn
  <2>6. CASE Render
    BY <1>2, <2>1, <2>6 DEF Render
  <2>7. CASE Steady
    BY <1>2, <2>7 DEF Steady, InSteadyState
  <2>8. CASE WriteSynced
    <3>1. CASE WriteStatus(wk, "Synced")
      BY <2>8, <3>1 DEF WriteSynced, StatusStep, Reasons, Running, LivePCs, Finish, Ends, envVars
    <3>2. CASE StatusLost /\ mq' = (mq \/ faults' # faults)
      <4>1. faults' = faults
        BY <3>2 DEF TypeOK
      <4>2. faults + 1 # faults
        BY Bounds DEF TypeOK
      <4>3. seen # obj
        BY <3>2, <4>1, <4>2 DEF StatusLost, StatusConflict
      <4> QED
        BY <1>2, <2>8, <4>3 DEF WriteSynced
    <3> QED
      BY <2>8, <3>1, <3>2 DEF WriteSynced
  <2>9. CASE Throttle
    BY <2>1, <2>9 DEF Throttle, GoOn
  <2>10. CASE Adopt \/ CreateNew \/ DeleteOld \/ UpdateTracked
    <3>1. \/ GoOn("recreate") \/ (\E i : Applied(i)) \/ (\E o : ClassifyMutationError(o))
      BY <2>10 DEF Adopt, CreateNew, DeleteOld, UpdateTracked
    <3> QED
      BY <2>2, <3>1 DEF GoOn, Applied
  <2>11. CASE DeleteUnavailable \/ DeleteTracked \/ ResolveByName \/ DeleteResolved
    BY <2>1, <2>11
    DEF DeleteUnavailable, DeleteTracked, ResolveByName, DeleteResolved, DeleteCall, AckMissing, GoOn
  <2>12. CASE Probe \/ FindByName
    BY <2>1, <2>12 DEF Probe, FindByName, GoOn
  <2>13. CASE pc' = pc \/ pc' \in {"start", "decide"}
    BY <2>13
  <2> QED
    BY <2>3, <2>4, <2>5, <2>6, <2>7, <2>8, <2>9, <2>10, <2>11, <2>12, <2>13
    DEF Next, Reconcile, Outside, Sync, Relist, Fetch, PruneOne, PruneDone, EditSpec, DeleteObj, Annotate,
        RotateSecret, OutOfBandDelete, FlipListing, LateApply, ConnDown, ConnUp, Expire, Crash, wkVars
<1> QED
  BY <1>1, <1>2

\* While LiteLLM lists what it holds, what was applied is all it holds.
LEMMA AppliedAll ==
  ASSUME TypeOK, Single, Next, InTime, pc' = "synced", pc # "synced"
  PROVE  \A r \in rows' : SameParams(r.body, body)
<1>1. /\ \A r, s \in rows : r = s
      /\ pc \in {"create", "recreate"} => rows = {}
  BY DEF Single
<1>2. rows \subseteq Rows /\ body \in Bodies
  BY DEF TypeOK
<1>3. ASSUME NEW o, ClassifyMutationError(o) PROVE FALSE
  BY <1>3, ClassifyFacts DEF Finish
<1>4. ASSUME NEW i, Update(i, body, "ok"), RowOf(i) # {}
      PROVE  \A r \in rows' : SameParams(r.body, body)
  <2>1. rows' = (rows \ RowOf(i)) \cup {Updated(r, body) : r \in RowOf(i)}
    BY <1>4 DEF Update, Done
  <2>2. rows \ RowOf(i) = {}
    BY <1>1, <1>4 DEF RowOf
  <2>3. \A r \in RowOf(i) : r \in Rows
    BY <1>2 DEF RowOf
  <2>4. \A r \in RowOf(i) : SameParams(Updated(r, body).body, body)
    BY <1>2, <2>3, UpdatedFacts DEF SameParams
  <2> QED
    BY <2>1, <2>2, <2>4
<1>5. CASE Adopt
  <2>1. PICK i \in found, o \in Done \cup Refusals :
          /\ Update(i, body, o)
          /\ (o = "ok" /\ RowOf(i) # {}) \/ ClassifyMutationError("4xx") \/ ClassifyMutationError(o)
    BY <1>5 DEF Adopt
  <2> QED
    BY <1>3, <1>4, <2>1
<1>6. CASE UpdateTracked
  <2>1. PICK o \in Done \cup Refusals :
          /\ Update(wk.id, body, o)
          /\ (o = "ok" /\ RowOf(wk.id) # {}) \/ ClassifyMutationError("4xx") \/ ClassifyMutationError(o)
    BY <1>6 DEF UpdateTracked
  <2> QED
    BY <1>3, <1>4, <2>1
<1>7. CASE CreateNew
  <2>1. PICK o \in Done \cup Refusals \cup {"late"} :
          Create(body, o) /\ (o = "ok" \/ ClassifyMutationError(o))
    BY <1>7 DEF CreateNew
  <2>2. rows = {}
    BY <1>1, <1>7 DEF CreateNew
  <2>3. rows' = rows \cup {[id |-> nextId, body |-> body]}
    BY <1>3, <2>1 DEF Create, Done
  <2> QED
    BY <2>2, <2>3 DEF SameParams
<1>8. CASE DeleteOld
  <2>1. GoOn("recreate") \/ \E o : ClassifyMutationError(o)
    BY <1>8 DEF DeleteOld
  <2> QED
    BY <1>3, <2>1 DEF GoOn
<1>9. CASE DeleteUnavailable \/ DeleteTracked \/ ResolveByName \/ DeleteResolved
  BY <1>9
  DEF DeleteUnavailable, DeleteTracked, ResolveByName, DeleteResolved, DeleteCall, AckMissing, GoOn, Requeue, Finish
<1>10. CASE pc' # "synced" \/ pc' = pc
  BY <1>10
<1> QED
  BY <1>5, <1>6, <1>7, <1>8, <1>9, <1>10
  DEF Next, Reconcile, Outside, Sync, Relist, Fetch, DropFinalizer, AddFinalizer, Gate, Render, Probe,
      PruneOne, PruneDone, Steady, Throttle, FindByName, WriteSynced, EditSpec, DeleteObj, Annotate,
      RotateSecret, OutOfBandDelete, FlipListing, LateApply, ConnDown, ConnUp, Expire, Crash,
      GoOn, Requeue, Finish, wkVars

\* The spec and the record, as the steps move them.
LEMMA RecordMoves ==
  ASSUME TypeOK, Paths, Counted, Pinned, WorkStep, ObjStep
  PROVE  /\ obj'.hash = obj.hash \/ (obj'.hash = wk.hash /\ pc # "idle")
         /\ seen' = seen \/ (seen' = obj /\ obj' = obj)
         /\ \/ UNCHANGED <<wk, pc, body>>
            \/ pc' = "idle" /\ wk'.v = 1 /\ wk'.hash = NoBody /\ body' = NoBody
            \/ wk' = seen /\ pc = "idle" /\ pc' = "start" /\ body' = body /\ UNCHANGED <<obj, seen, secret>>
            \/ /\ pc # "idle" /\ pc' # "idle" /\ wk'.v = wk.v /\ wk'.gen = wk.gen /\ wk'.hash = wk.hash
               /\ wk'.wide = wk.wide
               /\ pc # "synced" /\ pc' # "synced" /\ Goes /\ UNCHANGED <<obj, seen, mq, secret>>
            \/ /\ pc \in BodyPCs /\ pc' = "synced" /\ wk'.v = wk.v /\ wk'.gen = wk.gen /\ wk'.hash = body
               /\ wk'.wide = wk.wide
               /\ body' = body /\ UNCHANGED <<obj, seen, mq, secret>>
<1>1. obj'.hash = obj.hash \/ (obj'.hash = wk.hash /\ pc # "idle")
  <2>1. CASE StatusStep
    <3>1. Running => pc # "idle"
      BY DEF Running, LivePCs, BodyPCs
    <3> QED
      BY <2>1, <3>1, WriteFacts DEF StatusStep
  <2>2. CASE Watches \/ AddsFin \/ Drops \/ EditSpec \/ DeleteObj
    BY <2>2, FinFacts, EditFacts, DeleteFacts DEF Watches
  <2> QED
    BY <2>1, <2>2 DEF ObjStep
<1>2. seen' = seen \/ (seen' = obj /\ obj' = obj)
  BY ObjKeeps
<1>3. CASE UNCHANGED <<wk, pc, body>>
  BY <1>1, <1>2, <1>3
<1>4. CASE Ends
  BY <1>1, <1>2, <1>4, NewFacts DEF Ends
<1>5. CASE Starts /\ UNCHANGED <<obj, seen, secret>>
  BY <1>1, <1>2, <1>5 DEF Starts
<1>6. CASE Goes /\ UNCHANGED <<obj, seen, mq, secret>>
  <2>1. /\ pc # "idle" /\ pc' \in LivePCs \cup DelPCs /\ wk'.v = wk.v /\ wk'.gen = wk.gen
        /\ wk'.wide = wk.wide
        /\ ~Applies => wk'.hash = wk.hash /\ pc' # "synced"
        /\ Applies => wk'.hash = body
    BY <1>6, GoesFacts
  <2>2. pc' # "idle"
    BY <2>1 DEF LivePCs, BodyPCs, DelPCs
  <2>3. Applies => pc \in BodyPCs /\ pc' = "synced" /\ body' = body
    BY DEF Applies
  <2>4. pc # "synced"
    BY <1>6 DEF Goes, Leaving, Passes, Renders, Seeks, Applies, BodyPCs
  <2>5. CASE Applies
    BY <1>1, <1>2, <1>6, <2>1, <2>3, <2>5
  <2>6. CASE ~Applies
    BY <1>1, <1>2, <1>6, <2>1, <2>2, <2>4, <2>6
  <2> QED
    BY <2>5, <2>6
<1> QED
  BY <1>3, <1>4, <1>5, <1>6 DEF WorkStep

\* What a rendering step leaves as the body.
LEMMA BodyMoves ==
  ASSUME TypeOK, Goes
  PROVE  \/ body' = body /\ ~Renders
         \/ Renders /\ body'.v = wk.v /\ body'.wide = wk.wide /\ body'.sec = secret /\ secret # 0
<1>1. wk \in Objs /\ secret \in Versions
  BY DEF TypeOK
<1>2. CASE Renders
  BY <1>1, <1>2, RenderedFacts DEF Renders
<1> QED
  BY <1>2 DEF Goes, Leaving, Passes, Seeks, Applies, Renders

LEMMA VersionedStep ==
  ASSUME TypeOK, Paths, Counted, Pinned, Next, WorkStep, ObjStep, ~Reverts, Versioned
  PROVE  Versioned'
<1>1. /\ events \in Nat /\ events' \in Nat /\ events <= events' /\ secret \in Nat
  BY CountsTyped, Bounds DEF TypeOK, Versions
<1>2. /\ obj.hash \in Bodies /\ seen.hash \in Bodies /\ wk.hash \in Bodies /\ body \in Bodies
      /\ obj.v \in Nat /\ seen.v \in Nat /\ wk.v \in Nat
      /\ seen \in Objs /\ wk \in Objs /\ obj \in Objs
  BY Bounds DEF TypeOK, Objs, Versions
<1>3. ASSUME NEW h \in Bodies, Old(h)
      PROVE  h.v <= events' + 1 /\ h.sec <= events' + 1 /\ (h.v # 0 => h.sec # 0)
  <2>1. h.v \in Nat /\ h.sec \in Nat
    BY Bounds DEF Bodies, Versions
  <2> QED
    BY <1>1, <1>3, <2>1 DEF Old
<1>4. Old(NoBody)
  BY <1>1, NewFacts DEF Old
<1>5. Old(obj.hash)' /\ Old(seen.hash)'
  <2>1. /\ obj'.hash \in {obj.hash, wk.hash} /\ seen'.hash \in {seen.hash, obj.hash}
    BY RecordMoves
  <2> QED
    BY <1>2, <1>3, <2>1 DEF Versioned, Old
<1>6. Old(wk.hash)'
  <2>1. wk'.hash \in {wk.hash, NoBody, seen.hash, body}
    BY RecordMoves
  <2>2. Old(wk'.hash) /\ wk'.hash \in Bodies
    BY <1>2, <1>4, <2>1, NewFacts DEF Versioned
  <2> QED
    BY <1>3, <2>2 DEF Old
<1>7. Old(body)'
  <2>1. \/ body' \in {body, NoBody}
        \/ body'.v = wk.v /\ body'.sec = secret /\ secret # 0
    BY RecordMoves, BodyMoves
  <2>2. CASE body' \in {body, NoBody}
    BY <1>2, <1>3, <1>4, <2>2, NewFacts DEF Versioned, Old
  <2>3. CASE body'.v = wk.v /\ body'.sec = secret /\ secret # 0
    BY <1>1, <1>2, <2>3 DEF Versioned, Old
  <2> QED
    BY <2>1, <2>2, <2>3
<1>8. Fresh(obj.v) = {events + 2} /\ Fresh(secret) = {events + 2}
  BY DEF Fresh
<1>9. obj'.v # 0 /\ obj'.v <= events' + 1
  <2>1. CASE EditSpec
    <3>1. obj'.v \in {obj.v, events + 2} /\ events' = events + 1
      BY <1>8, <2>1, EditFacts
    <3> QED
      BY <1>1, <1>2, <3>1 DEF Versioned
  <2>2. CASE obj'.v = obj.v
    BY <1>1, <1>2, <2>2 DEF Versioned
  <2> QED
    BY <2>1, <2>2, ObjKeeps
<1>10. seen'.v <= events' + 1
  <2>1. seen'.v \in {seen.v, obj.v}
    BY RecordMoves
  <2> QED
    BY <1>1, <1>2, <2>1 DEF Versioned
<1>11. wk'.v <= events' + 1
  <2>1. wk'.v \in {wk.v, 1, seen.v}
    BY RecordMoves
  <2> QED
    BY <1>1, <1>2, <2>1 DEF Versioned
<1>12. secret' <= events' + 1
  <2>1. secret' = secret \/ (secret' \in {events + 2, 0} /\ events' = events + 1)
    BY <1>8, SecretMoves
  <2> QED
    BY <1>1, <2>1 DEF Versioned
<1> QED
  BY <1>5, <1>6, <1>7, <1>9, <1>10, <1>11, <1>12 DEF Versioned

LEMMA GenerationsStep ==
  ASSUME TypeOK, Paths, Counted, Pinned, WorkStep, ObjStep, Generations
  PROVE  Generations'
<1>1. obj.gen \in Nat /\ seen.gen \in Nat /\ wk.gen \in Nat
  BY Bounds DEF TypeOK, Objs
<1>2. \/ obj'.gen = obj.gen /\ obj'.v = obj.v
      \/ obj'.gen = obj.gen + 1 /\ UNCHANGED <<seen, wk, pc>>
  BY ObjKeeps, EditFacts
<1>3. CASE obj'.gen = obj.gen + 1 /\ UNCHANGED <<seen, wk, pc>>
  BY <1>1, <1>3 DEF Generations, SameSpec, Counted
<1>4. CASE obj'.gen = obj.gen /\ obj'.v = obj.v
  <2>1. SameSpec(seen)'
    BY <1>4, RecordMoves DEF Generations, SameSpec
  <2>2. pc' # "idle" => SameSpec(wk)'
    BY <1>4, RecordMoves DEF Generations, SameSpec, BodyPCs
  <2> QED
    BY <2>1, <2>2 DEF Generations
<1> QED
  BY <1>2, <1>3, <1>4

LEMMA OutrunStep ==
  ASSUME TypeOK, Paths, Counted, Pinned, WorkStep, ObjStep, ~Reverts, Versioned, Outrun, Rendering
  PROVE  Outrun'
<1>1. CASE EditSpec
  <2>1. /\ obj'.v \in {obj.v} \cup Fresh(obj.v) /\ obj'.hash = obj.hash
        /\ UNCHANGED <<seen, wk, pc>>
    BY <1>1, EditFacts
  <2>2. Fresh(obj.v) = {events + 2}
    BY DEF Fresh
  <2>3. events \in Nat /\ obj.hash.v \in Nat /\ seen.hash.v \in Nat /\ wk.hash.v \in Nat
    BY Bounds DEF TypeOK, Objs, Bodies, Versions
  <2>4. CASE obj'.v = obj.v
    BY <2>1, <2>4 DEF Outrun
  <2>5. CASE obj'.v = events + 2
    BY <2>1, <2>3, <2>5 DEF Outrun, Versioned, Old
  <2> QED
    BY <2>1, <2>2, <2>4, <2>5
<1>2. CASE StatusStep
  BY <1>2, WriteFacts DEF StatusStep, Ends, Outrun
<1>3. CASE ~EditSpec /\ ~StatusStep
  <2>1. obj'.v = obj.v /\ obj'.hash = obj.hash
    <3>1. CASE Watches \/ AddsFin \/ Drops \/ DeleteObj
      BY <3>1, FinFacts, DeleteFacts DEF Watches
    <3> QED
      BY <1>3, <3>1 DEF ObjStep
  <2>2. seen' = seen \/ seen' = obj
    BY RecordMoves
  <2>3. seen'.v # obj'.v => obj'.hash.v # obj'.v /\ seen'.hash.v # obj'.v
    BY <2>1, <2>2 DEF Outrun
  <2>4. pc' # "idle" /\ wk'.v # obj'.v =>
          obj'.hash.v # obj'.v /\ seen'.hash.v # obj'.v /\ wk'.hash.v # obj'.v
    <3>1. CASE UNCHANGED <<wk, pc, body>>
      BY <2>1, <2>2, <3>1 DEF Outrun
    <3>2. CASE wk' = seen /\ UNCHANGED <<obj, seen, secret>>
      BY <2>1, <3>2 DEF Outrun
    <3>3. CASE pc # "idle" /\ wk'.v = wk.v /\ wk'.hash = wk.hash
      BY <2>1, <2>2, <3>3 DEF Outrun
    <3>4. CASE pc \in BodyPCs /\ wk'.v = wk.v /\ wk'.hash = body
      <4>1. body.v = wk.v /\ pc # "idle"
        BY <3>4 DEF Rendering, BodyPCs
      <4> QED
        BY <2>1, <2>2, <3>4, <4>1 DEF Outrun
    <3> QED
      BY <3>1, <3>2, <3>3, <3>4, RecordMoves
  <2> QED
    BY <2>3, <2>4 DEF Outrun
<1> QED
  BY <1>1, <1>2, <1>3

LEMMA LatestStep ==
  ASSUME TypeOK, Paths, Counted, Pinned, Next, WorkStep, ObjStep, Latest
  PROVE  Latest'
<1> SUFFICES ASSUME pc' # "idle", ~mq'
             PROVE  /\ seen'.v = wk'.v /\ seen'.gen = wk'.gen
                    /\ pc' # "synced" => seen'.hash = wk'.hash
  BY DEF Latest
<1>1. CASE pc = "idle"
  <2>1. wk' = seen /\ seen' = seen
    BY <1>1, RecordMoves DEF BodyPCs
  <2> QED
    BY <2>1
<1>2. CASE pc # "idle"
  <2>1. ~mq
    BY <1>2, QueueMoves
  <2>2. seen' = seen
    BY EditFacts, DeleteFacts DEF ObjStep, Watches, StatusStep, AddsFin, Drops
  <2> QED
    BY <1>2, <2>1, <2>2, RecordMoves DEF Latest, BodyPCs
<1> QED
  BY <1>1, <1>2

\* The connection comes back only with an event.
LEMMA ConnMoves ==
  ASSUME TypeOK, Next, conn' = "Synced", ~mq'
  PROVE  conn = "Synced"
<1>1. CASE conn' = conn
  BY <1>1
<1>2. CASE Probe
  BY <1>2 DEF Probe, InvalidateOn401
<1>3. CASE Adopt \/ CreateNew \/ DeleteOld \/ UpdateTracked
  <2>1. conn' = conn \/ \E o : ClassifyMutationError(o)
    BY <1>3 DEF Adopt, CreateNew, DeleteOld, UpdateTracked, Applied
  <2> QED
    BY <2>1, ClassifyFacts
<1>4. CASE ConnDown \/ ConnUp
  BY <1>4 DEF ConnDown, ConnUp
<1> QED
  BY <1>1, <1>2, <1>3, <1>4
  DEF Next, Reconcile, Outside, Sync, Relist, Fetch, DeleteUnavailable, DeleteTracked, ResolveByName,
      DeleteResolved, DropFinalizer, AddFinalizer, Gate, Render, PruneOne,
      PruneDone, Steady, Throttle, FindByName, WriteSynced,
      EditSpec, DeleteObj, Annotate, RotateSecret, OutOfBandDelete, FlipListing, LateApply,
      Expire, Crash, envVars

LEMMA RenderingStep ==
  ASSUME TypeOK, Paths, Counted, Pinned, Next, WorkStep, ObjStep, Generations, Rendering
  PROVE  Rendering'
<1>1. pc' \in BodyPCs \cup {"synced"} =>
        /\ body'.v = wk'.v /\ wk'.v \notin BadSpecs
        /\ ~mq' => body'.sec = secret'
  <2> SUFFICES ASSUME pc' \in BodyPCs \cup {"synced"}
               PROVE  /\ body'.v = wk'.v /\ wk'.v \notin BadSpecs
                      /\ ~mq' => body'.sec = secret'
    OBVIOUS
  <2>1. CASE UNCHANGED <<wk, pc, body>>
    <3>1. pc # "idle"
      BY <2>1 DEF BodyPCs
    <3>2. ~mq' => ~mq /\ secret' = secret
      BY <3>1, QueueMoves, SecretMoves
    <3> QED
      BY <2>1, <3>2 DEF Rendering
  <2>2. CASE Goes /\ UNCHANGED <<obj, seen, mq, secret>>
    <3>1. wk'.v = wk.v
      BY <2>2, GoesFacts
    <3>2. CASE Renders
      BY <2>2, <3>1, <3>2, BodyMoves, RenderedFacts DEF Renders, TypeOK
    <3>3. CASE Seeks \/ Applies
      BY <2>2, <3>1, <3>3 DEF Seeks, Applies, Rendering
    <3>4. CASE Leaving \/ Passes
      BY <3>4 DEF Leaving, Passes, BodyPCs, DelPCs
    <3> QED
      BY <2>2, <3>2, <3>3, <3>4 DEF Goes
  <2>3. CASE Starts \/ Ends
    BY <2>3 DEF Starts, Ends, BodyPCs
  <2> QED
    BY <2>1, <2>2, <2>3 DEF WorkStep
<1>2. pc' = "synced" => wk'.hash = body'
  <2>1. pc' = "synced" => \/ UNCHANGED <<wk, pc, body>>
                          \/ wk'.hash = body /\ body' = body
    BY RecordMoves
  <2> QED
    BY <2>1 DEF Rendering
<1>3. obj'.reason = "Synced" /\ obj'.obs = obj'.gen => obj'.hash.v = obj'.v /\ obj'.v \notin BadSpecs
  <2>1. CASE StatusStep
    <3>1. PICK r \in Reasons :
            /\ WriteStatus(wk, r) /\ Running
            /\ r = "Synced" => pc = "synced" \/ (pc = "decide" /\ wk.hash = body)
      BY <2>1 DEF StatusStep
    <3>2. /\ obj'.reason = r /\ obj'.hash = wk.hash /\ obj'.obs = wk.gen /\ obj'.gen = obj.gen /\ obj'.v = obj.v
      BY <3>1, WriteFacts
    <3>3. CASE r = "Synced"
      <4>1. /\ pc \in BodyPCs \cup {"synced"} /\ pc # "idle" /\ wk.hash = body
            /\ body.v = wk.v /\ wk.v \notin BadSpecs
        BY <3>1, <3>3 DEF Rendering, BodyPCs
      <4>2. wk.gen = obj.gen => wk.v = obj.v
        BY <4>1 DEF Generations, SameSpec
      <4> QED
        BY <3>2, <4>1, <4>2
    <3> QED
      BY <3>2, <3>3
  <2>2. CASE EditSpec
    <3>1. obj'.gen = obj.gen + 1 /\ obj'.obs = obj.obs
      BY <2>2, EditFacts
    <3>2. obj.gen \in Nat /\ obj.obs \in Nat /\ obj.obs <= obj.gen
      BY Bounds DEF TypeOK, Objs, Counted
    <3> QED
      BY <3>1, <3>2
  <2>3. CASE Watches \/ AddsFin \/ Drops \/ DeleteObj
    BY <2>3, FinFacts, DeleteFacts DEF Watches, Rendering
  <2> QED
    BY <2>1, <2>2, <2>3 DEF ObjStep
<1> QED
  BY <1>1, <1>2, <1>3 DEF Rendering

\* After an edit of the params or a change of the Secret no record is current.
LEMMA NothingCurrent ==
  ASSUME TypeOK, Paths, Counted, Pinned, Next, ObjStep, ~Reverts, Versioned,
         ~(obj'.v = obj.v /\ secret' = secret), NEW h \in Bodies, Records(h)'
  PROVE  ~IsNow(h)'
<1>1. events \in Nat /\ h.v \in Nat /\ h.sec \in Nat /\ obj.v \in Nat
  BY Bounds DEF TypeOK, Bodies, Versions, Objs
<1>2. Fresh(obj.v) = {events + 2} /\ Fresh(secret) = {events + 2}
  BY DEF Fresh
<1>3. \/ obj'.v = events + 2
      \/ obj'.v = obj.v /\ secret' \in {events + 2, 0}
  BY <1>2, ObjKeeps, EditFacts, SecretMoves
<1>4. obj'.hash = obj.hash /\ UNCHANGED <<seen, wk, pc>>
  <2>1. CASE EditSpec
    BY <2>1, EditFacts
  <2>2. CASE ~EditSpec
    BY <2>2, ObjKeeps, SecretMoves
  <2> QED
    BY <2>1, <2>2
<1>5. Old(h)
  BY <1>4 DEF Records, Versioned
<1>6. obj.v # 0
  BY DEF Versioned
<1>7. IsNow(h)' => h.v = obj'.v /\ h.sec = secret'
  BY DEF IsNow
<1> QED
  BY <1>1, <1>3, <1>5, <1>6, <1>7 DEF Old

\* What was rendered, and what is said to be Synced, has the key its spec has.
LEMMA KinSent ==
  ASSUME TypeOK, Paths, Counted, Pinned, WorkStep, ObjStep, Kin
  PROVE  pc' \in BodyPCs \cup {"synced"} => body'.wide = wk'.wide
<1> SUFFICES ASSUME pc' \in BodyPCs \cup {"synced"} PROVE body'.wide = wk'.wide
  OBVIOUS
<1>1. CASE UNCHANGED <<wk, pc, body>>
  BY <1>1 DEF Kin
<1>2. CASE Goes
  <2>1. wk'.wide = wk.wide
    BY <1>2, GoesFacts
  <2>2. CASE Renders
    BY <1>2, <2>1, <2>2, BodyMoves
  <2>3. CASE Seeks \/ Applies
    BY <2>1, <2>3 DEF Seeks, Applies, Kin
  <2>4. CASE Leaving \/ Passes
    BY <2>4 DEF Leaving, Passes, BodyPCs, DelPCs
  <2> QED
    BY <1>2, <2>2, <2>3, <2>4 DEF Goes
<1>3. CASE Starts \/ Ends
  BY <1>3 DEF Starts, Ends, BodyPCs
<1> QED
  BY <1>1, <1>2, <1>3 DEF WorkStep

LEMMA KinTold ==
  ASSUME TypeOK, Paths, Counted, Pinned, ObjStep, Generations, Rendering, Kin,
         obj'.reason = "Synced", obj'.obs = obj'.gen
  PROVE  obj'.hash.wide = obj'.wide
<1>1. CASE StatusStep
  <2>1. PICK r \in Reasons :
          /\ WriteStatus(wk, r)
          /\ r = "Synced" => pc = "synced" \/ (pc = "decide" /\ wk.hash = body)
    BY <1>1 DEF StatusStep
  <2>2. /\ obj'.reason = r /\ obj'.hash = wk.hash /\ obj'.obs = wk.gen /\ obj'.gen = obj.gen
        /\ obj'.wide = obj.wide
    BY <2>1, WriteFacts
  <2>3. pc \in BodyPCs \cup {"synced"} /\ pc # "idle" /\ wk.hash = body
    BY <2>1, <2>2 DEF Rendering, BodyPCs
  <2>4. wk.v = obj.v
    BY <2>2, <2>3 DEF Generations, SameSpec
  <2>5. body.wide = wk.wide /\ wk.wide = obj.wide
    BY <2>3, <2>4 DEF Kin
  <2> QED
    BY <2>2, <2>3, <2>5
<1>2. CASE EditSpec
  <2>1. obj'.gen = obj.gen + 1 /\ obj'.obs = obj.obs
    BY <1>2, EditFacts
  <2>2. obj.gen \in Nat /\ obj.obs \in Nat /\ obj.obs <= obj.gen
    BY Bounds DEF TypeOK, Objs, Counted
  <2> QED
    BY <2>1, <2>2
<1>3. CASE Watches \/ AddsFin \/ Drops \/ DeleteObj
  BY <1>3, FinFacts, DeleteFacts DEF Watches, Kin
<1> QED
  BY <1>1, <1>2, <1>3 DEF ObjStep

\* The params keep their version only with their key.
LEMMA KeyKept ==
  ASSUME TypeOK, Paths, Counted, Pinned, ObjStep, ~Reverts, Versioned, obj'.v = obj.v
  PROVE  obj'.wide = obj.wide
<1>1. Fresh(obj.v) = {events + 2}
  BY DEF Fresh
<1>2. events \in Nat /\ obj.v \in Nat /\ obj.v <= events + 1
  BY Bounds DEF TypeOK, Objs, Versions, Versioned
<1>3. obj.v \notin Fresh(obj.v)
  BY <1>1, <1>2
<1> QED
  BY <1>3, ObjKeeps, EditFacts

LEMMA KinStep ==
  ASSUME TypeOK, Paths, Counted, Pinned, Next, WorkStep, ObjStep, ~Reverts, Versioned, Generations,
         Rendering, Kin
  PROVE  Kin'
<1>1. CASE obj'.v = obj.v
  <2>1. obj'.wide = obj.wide
    BY <1>1, KeyKept
  <2>2. seen'.v = obj'.v => seen'.wide = obj'.wide
    BY <1>1, <2>1, RecordMoves DEF Kin
  <2>3. pc' # "idle" /\ wk'.v = obj'.v => wk'.wide = obj'.wide
    BY <1>1, <2>1, RecordMoves DEF Kin, BodyPCs
  <2> QED
    BY <2>2, <2>3, KinSent, KinTold DEF Kin
<1>2. CASE obj'.v # obj.v
  <2>1. EditSpec
    BY <1>2, ObjKeeps
  <2>2. obj'.v = events + 2 /\ UNCHANGED <<seen, wk, pc, body>>
    BY <1>2, <2>1, EditFacts DEF Fresh
  <2>3. events \in Nat /\ seen.v \in Nat /\ wk.v \in Nat /\ seen.v <= events + 1 /\ wk.v <= events + 1
    BY Bounds DEF TypeOK, Objs, Versions, Versioned
  <2>4. seen'.v # obj'.v /\ wk'.v # obj'.v
    BY <2>2, <2>3
  <2> QED
    BY <2>4, KinSent, KinTold DEF Kin
<1> QED
  BY <1>1, <1>2

LEMMA TruthfulStep ==
  ASSUME SafeInv, Next, WorkStep, ObjStep, RowStep, ~Reverts,
         Versioned, Outrun, Rendering, Kin, Truthful
  PROVE  Truthful'
<1> USE DEF SafeInv
<1> SUFFICES ASSUME NEW h \in Bodies, Records(h)', IsNow(h)'
             PROVE  /\ pc' \in BodyPCs => IsNow(body)'
                    /\ InTime' => \A r \in rows' : IsNow(r.body)' /\ (obj'.wide => r.body.wide)
  BY DEF Truthful
<1>1. obj'.v = obj.v /\ secret' = secret
  BY NothingCurrent
<1>11. obj'.wide = obj.wide
  BY <1>1, KeyKept
<1>2. h.v = obj.v /\ h.sec = secret
  BY <1>1 DEF IsNow
<1>3. \A b : IsNow(b)' <=> (b.v = obj.v /\ b.sec = secret)
  BY <1>1 DEF IsNow
<1>4. \A b : IsNow(b) <=> (b.v = obj.v /\ b.sec = secret)
  BY DEF IsNow
<1>5. Records(h) \/ (pc' = "synced" /\ pc # "synced" /\ body' = body /\ h = body)
  BY RecordMoves DEF Records, BodyPCs
<1>6. InTime' => InTime
  BY DEF InTime, RowStep, TypeOK
<1>7. CASE Records(h)
  <2>1. /\ pc \in BodyPCs => body.v = obj.v /\ body.sec = secret
        /\ InTime => \A r \in rows : r.body.v = obj.v /\ r.body.sec = secret /\ (obj.wide => r.body.wide)
    BY <1>2, <1>4, <1>7 DEF Truthful
  <2>2. pc # "idle" => wk.v = obj.v
    BY <1>2, <1>7 DEF Outrun, Records
  <2>3. pc' \in BodyPCs => body'.v = obj.v /\ body'.sec = secret
    <3>1. CASE UNCHANGED <<wk, pc, body>>
      BY <2>1, <3>1
    <3>2. CASE Starts \/ Ends
      BY <3>2 DEF Starts, Ends, BodyPCs
    <3>3. CASE Renders
      BY <2>2, <3>3, RenderedFacts DEF Renders, TypeOK
    <3>4. CASE Seeks
      BY <2>1, <3>4 DEF Seeks
    <3>5. CASE Leaving \/ Passes \/ Applies
      BY <3>5 DEF Leaving, Passes, Applies, BodyPCs, DelPCs
    <3> QED
      BY <3>1, <3>2, <3>3, <3>4, <3>5 DEF WorkStep, Goes
  <2>7. pc \in BodyPCs => body.wide = obj.wide
    BY <2>2 DEF Kin, BodyPCs
  <2>4. ASSUME InTime' PROVE \A r \in rows' : r.body.v = obj.v /\ r.body.sec = secret /\ (obj.wide => r.body.wide)
    <3>1. \A r \in rows : r.body.v = obj.v /\ r.body.sec = secret /\ (obj.wide => r.body.wide)
      BY <1>6, <2>1, <2>4
    <3>2. CASE Removes
      BY <3>1, <3>2 DEF Removes
    <3>3. CASE Rewrites
      <4>1. body.v = obj.v /\ body.sec = secret /\ body.wide = obj.wide
        BY <2>1, <2>7, <3>3 DEF Rewrites
      <4>2. PICK i : rows' = (rows \ RowOf(i)) \cup {Updated(r, body) : r \in RowOf(i)}
        BY <3>3 DEF Rewrites
      <4>3. \A r \in RowOf(i) : /\ Updated(r, body).body.v = obj.v /\ Updated(r, body).body.sec = secret
                                /\ obj.wide => Updated(r, body).body.wide
        BY <4>1, UpdatedFacts DEF RowOf, TypeOK
      <4> QED
        BY <3>1, <4>2, <4>3
    <3>4. CASE Makes
      <4>1. body.v = obj.v /\ body.sec = secret /\ body.wide = obj.wide
        BY <2>1, <2>7, <3>4 DEF Makes, BodyPCs
      <4> QED
        BY <3>1, <3>4, <4>1 DEF Makes
    <3>5. CASE PutsOff
      BY <3>1, <3>5 DEF PutsOff
    <3>6. CASE LateApply
      <4>1. late = {}
        BY <1>6, <2>4 DEF Single
      <4> QED
        BY <3>6, <4>1 DEF LateApply
    <3> QED
      BY <3>2, <3>3, <3>4, <3>5, <3>6 DEF RowStep
  <2>5. pc' \in BodyPCs => IsNow(body)'
    BY <1>1, <2>3 DEF IsNow
  <2>6. InTime' => \A r \in rows' : IsNow(r.body)' /\ (obj'.wide => r.body.wide)
    BY <1>3, <1>11, <2>4
  <2> QED
    BY <2>5, <2>6
<1>8. CASE pc' = "synced" /\ pc # "synced" /\ body' = body /\ h = body
  <2>1. pc' \notin BodyPCs
    BY <1>8 DEF BodyPCs
  <2>2. InTime' => \A r \in rows' : /\ r.body.v = body.v /\ r.body.sec = body.sec
                                    /\ body.wide => r.body.wide
    BY <1>6, <1>8, AppliedAll DEF SameParams
  <2>3. pc \in BodyPCs
    BY <1>8, RecordMoves
  <2>4. body.wide = obj.wide
    <3>1. body.v = wk.v /\ wk.v = obj.v /\ pc # "idle"
      BY <1>2, <1>8, <2>3 DEF Rendering, BodyPCs
    <3> QED
      BY <2>3, <3>1 DEF Kin
  <2> QED
    BY <1>2, <1>3, <1>8, <1>11, <2>1, <2>2, <2>4
<1> QED
  BY <1>5, <1>7, <1>8

LEMMA SyncedStep ==
  ASSUME SafeInv, Next, WorkStep, ObjStep, ~Reverts, Rendering, Rendering', Latest, SyncedHolds
  PROVE  SyncedHolds'
<1> USE DEF SafeInv
<1> SUFFICES ASSUME AtRest', ClaimsSynced'
             PROVE  IsNow(obj.hash)'
  BY DEF SyncedHolds
<1>1. /\ pc' = "idle" /\ ~mq' /\ seen' = obj' /\ obj'.phase = "live" /\ obj'.reason = "Synced"
      /\ obj'.obs = obj'.gen /\ conn' = "Synced"
  BY DEF AtRest, ClaimsSynced
<1>2. obj'.hash.v = obj'.v /\ obj'.v \notin BadSpecs
  BY <1>1 DEF Rendering
<1>3. ~mq /\ secret' = secret
  BY <1>1, QueueMoves, SecretMoves
<1>4. SUFFICES obj'.hash.sec = secret
  BY <1>2, <1>3 DEF IsNow
<1>5. obj \in Objs /\ mq \in BOOLEAN /\ mq' \in BOOLEAN
  BY FlagsTyped DEF TypeOK
<1>6. ~EditSpec
  <2>1. SUFFICES ASSUME EditSpec PROVE FALSE
    OBVIOUS
  <2>2. obj'.gen = obj.gen + 1 /\ obj'.obs = obj.obs
    BY <2>1, EditFacts
  <2>3. obj.gen \in Nat /\ obj.obs \in Nat /\ obj.obs <= obj.gen
    BY Bounds DEF TypeOK, Objs, Counted
  <2> QED
    BY <1>1, <2>2, <2>3
<1>7. ~DeleteObj /\ ~Drops
  BY <1>1, DeleteFacts, FinFacts
<1>8. ~AddsFin
  <2>1. SUFFICES ASSUME AddsFin PROVE FALSE
    OBVIOUS
  <2>2. obj'.fin = TRUE /\ seen' = seen /\ obj.fin # TRUE
    BY <2>1, FinFacts DEF AddsFin
  <2> QED
    BY <1>1, <2>2 DEF Pinned
<1>9. CASE pc = "idle"
  <2>1. ~StatusStep
    BY <1>9 DEF StatusStep, Running, LivePCs, BodyPCs
  <2>2. obj' = obj /\ seen' = seen
    BY <1>1, <1>6, <1>7, <1>8, <2>1 DEF ObjStep, Watches
  <2>3. conn = "Synced"
    BY <1>1, <1>9, ConnMoves
  <2>4. AtRest /\ ClaimsSynced
    BY <1>1, <1>3, <1>9, <2>2, <2>3 DEF AtRest, ClaimsSynced
  <2> QED
    BY <2>2, <2>4 DEF SyncedHolds, IsNow
<1>10. CASE pc # "idle"
  <2>1. \/ StatusStep
        \/ /\ obj' = obj /\ seen' = seen
           /\ \/ wk.phase = "deleting"
              \/ pc = "render" /\ wk.v \in BadSpecs
              \/ pc = "decide" /\ wk.hash = body
              \/ seen # obj
    BY <1>1, <1>5, <1>7, <1>8, <1>10, QuietEnds
  <2>2. CASE StatusStep
    <3>1. PICK r \in Reasons :
            /\ WriteStatus(wk, r)
            /\ r = "Synced" => pc = "synced" \/ (pc = "decide" /\ wk.hash = body)
      BY <2>2 DEF StatusStep
    <3>2. obj'.reason = r /\ obj'.hash = wk.hash
      BY <3>1, WriteFacts
    <3>3. pc \in BodyPCs \cup {"synced"} /\ wk.hash = body
      BY <1>1, <3>1, <3>2 DEF Rendering, BodyPCs
    <3>4. body.sec = secret
      BY <1>3, <3>3 DEF Rendering
    <3> QED
      BY <3>2, <3>3, <3>4
  <2>3. CASE obj' = obj /\ seen' = seen
    <3>1. seen = obj
      BY <1>1, <2>3
    <3>2. seen.v = wk.v /\ (pc # "synced" => seen.hash = wk.hash)
      BY <1>3, <1>10 DEF Latest
    <3>3. wk.phase # "deleting"
      BY <1>1, <1>10, <2>3, <3>1 DEF Pinned
    <3>4. ~(wk.v \in BadSpecs)
      BY <1>2, <2>3, <3>1, <3>2
    <3>5. CASE StatusStep
      BY <2>2, <3>5
    <3>6. CASE pc = "decide" /\ wk.hash = body
      <4>1. body.sec = secret
        BY <1>3, <3>6 DEF Rendering, BodyPCs
      <4> QED
        BY <2>3, <3>1, <3>2, <3>6, <4>1
    <3> QED
      BY <2>1, <3>1, <3>3, <3>4, <3>5, <3>6
  <2> QED
    BY <2>1, <2>2, <2>3
<1> QED
  BY <1>9, <1>10

LEMMA ToldInit ==
  ASSUME Init, ~Reverts
  PROVE  Told
<1>1. /\ seen = obj /\ wk = NewObj /\ pc = "idle" /\ body = NoBody /\ mq = TRUE /\ secret = 1 /\ events = 0
  BY DEF Init
<1>2. \/ obj = NewObj /\ rows = {}
      \/ Legacy /\ obj = LegacyObj /\ rows = {[id |-> 1, body |-> LegacyObj.hash]}
  BY DEF Init
<1>3. /\ obj.v = 1 /\ Old(obj.hash) /\ Old(NoBody) /\ obj.hash \in Bodies
      /\ obj.reason = "Synced" => obj.hash.v = 1 /\ 1 \notin BadSpecs
      /\ obj.reason = "Synced" => obj.hash.wide = obj.wide
      /\ obj.hash = NoBody \/ (\A r \in rows : obj.wide => r.body.wide)
      /\ obj.hash = NoBody \/ \A r \in rows : r.body = obj.hash
  <2>1. LegacyObj.hash.wide = LegacyObj.wide
    BY LegacyFacts DEF LegacyObj, NewObj, Rendered
  <2> QED
    BY <1>1, <1>2, <2>1, NewFacts, LegacyFacts, ModelAssumption DEF Old
<1>4. Versioned
  BY <1>1, <1>3, NewFacts DEF Versioned
<1>5. Generations /\ Outrun /\ Latest
  BY <1>1 DEF Generations, SameSpec, Outrun, Latest
<1>6. Rendering
  BY <1>1, <1>3 DEF Rendering, BodyPCs
<1>7. Truthful
  <2>1. \A h \in Bodies : Records(h) => h = obj.hash
    BY <1>1 DEF Records
  <2>2. ~IsNow(NoBody)
    BY <1>3, NewFacts DEF IsNow
  <2>3. pc \notin BodyPCs
    BY <1>1 DEF BodyPCs
  <2> QED
    BY <1>3, <2>1, <2>2, <2>3 DEF Truthful
<1>8. SyncedHolds
  BY <1>1 DEF SyncedHolds, AtRest
<1>9. Kin
  BY <1>1, <1>3 DEF Kin, BodyPCs
<1> QED
  BY <1>4, <1>5, <1>6, <1>7, <1>8, <1>9 DEF Told

LEMMA ToldStep ==
  ASSUME SafeInv, Told, ~Reverts, [Next]_vars
  PROVE  Told'
<1>1. CASE Next
  <2>1. TypeOK /\ Paths /\ Counted /\ Pinned /\ IdsKnown /\ Single
    BY DEF SafeInv
  <2>2. WorkStep /\ ObjStep /\ RowStep
    BY <1>1, <2>1, WorkMoves, ObjMoves, RowMoves
  <2>3. Versioned /\ Generations /\ Outrun /\ Rendering /\ Kin /\ Truthful /\ Latest /\ SyncedHolds
    BY DEF Told
  <2>4. Versioned' /\ Generations' /\ Outrun' /\ Rendering' /\ Latest' /\ Kin'
    BY <1>1, <2>1, <2>2, <2>3, VersionedStep, GenerationsStep, OutrunStep, RenderingStep, LatestStep, KinStep
  <2>5. Truthful' /\ SyncedHolds'
    BY <1>1, <2>2, <2>3, <2>4, TruthfulStep, SyncedStep
  <2> QED
    BY <2>4, <2>5 DEF Told
<1>2. CASE UNCHANGED vars
  <2>1. Versioned' /\ Generations' /\ Outrun'
    BY <1>2 DEF vars, Told, Versioned, Old, Generations, SameSpec, Outrun
  <2>2. Rendering' /\ Kin' /\ Latest' /\ SyncedHolds'
    BY <1>2 DEF vars, Told, Rendering, Kin, Latest, SyncedHolds, AtRest, ClaimsSynced, IsNow
  <2>3. Truthful'
    BY <1>2 DEF vars, Told, Truthful, Records, InTime, IsNow
  <2> QED
    BY <2>1, <2>2, <2>3 DEF Told
<1> QED
  BY <1>1, <1>2

-----------------------------------------------------------------------------
(* No key is left that was on record.                                      *)

\* An id is cleared when its row is not listed; a row is looked for by name when
\* none is tracked.
LEMMA SeekMoves ==
  ASSUME TypeOK, Next, WorkStep, pc # "idle", pc' \notin {"idle", "synced"}
  PROVE  /\ wk' = wk \/ (wk' = [wk EXCEPT !.id = 0] /\ wk.id \notin Listed /\ rows' = rows)
         /\ pc' \in {"find", "adopt"} /\ pc' # pc => wk' = wk /\ (wk.id = 0 \/ pc = "find")
<1>1. ASSUME Finish PROVE FALSE
  BY <1>1 DEF Finish
<1>2. ASSUME NEW p, GoOn(p) PROVE wk' = wk /\ pc' = p
  BY <1>2 DEF GoOn
<1>3. CASE DeleteUnavailable \/ DeleteTracked \/ DeleteResolved \/ ResolveByName
  <2>1. ASSUME NEW p, AckMissing(p) PROVE GoOn("drop")
    BY <1>1, <2>1 DEF AckMissing, Requeue
  <2>2. GoOn("drop") \/ (pc' = "resolved" /\ wk' = wk)
    BY <1>1, <1>3, <2>1
    DEF DeleteUnavailable, DeleteTracked, DeleteResolved, ResolveByName, DeleteCall, Requeue
  <2> QED
    BY <1>2, <2>2
<1>4. CASE Probe
  BY <1>1, <1>2, <1>4 DEF Probe, Requeue, llmVars
<1>5. CASE Gate \/ Render \/ Throttle \/ FindByName
  BY <1>1, <1>2, <1>5 DEF Gate, Render, Throttle, FindByName, Requeue
<1>6. CASE Adopt \/ CreateNew \/ DeleteOld \/ UpdateTracked
  <2>1. \/ GoOn("recreate") \/ (\E i : Applied(i)) \/ (\E o : ClassifyMutationError(o))
    BY <1>6 DEF Adopt, CreateNew, DeleteOld, UpdateTracked
  <2> QED
    BY <1>1, <1>2, <2>1, ClassifyFacts DEF Applied
<1>7. CASE PruneOne \/ PruneDone
  BY <1>7 DEF PruneOne, PruneDone
<1>8. CASE UNCHANGED wkVars
  BY <1>8 DEF wkVars
<1> QED
  BY <1>1, <1>3, <1>4, <1>5, <1>6, <1>7, <1>8
  DEF Next, Reconcile, Outside, Sync, Relist, Fetch, DropFinalizer, AddFinalizer, Steady, WriteSynced,
      Requeue, EditSpec, DeleteObj, Annotate, RotateSecret,
      OutOfBandDelete, FlipListing, LateApply, ConnDown, ConnUp, Expire, Crash

LEMMA InformedStep ==
  ASSUME SafeInv, Next, WorkStep, ObjStep, RowStep, Informed
  PROVE  Informed'
<1> USE DEF SafeInv
<1>1. CASE pc' \in {"idle", "synced"}
  BY <1>1 DEF Informed, Working
<1>2. CASE pc' \notin {"idle", "synced"} /\ pc = "idle"
  <2>1. Starts /\ aged' = (RecordOf(seen) # RecordOf(obj)) /\ UNCHANGED <<obj, rows>>
    BY <1>2, AgedMoves DEF Ends
  <2>2. wk' = seen /\ pc' = "start"
    BY <2>1 DEF Starts
  <2>3. ~aged' => seen.id = obj.id /\ seen.hash = obj.hash
    BY <2>1 DEF RecordOf
  <2>4. \A r \in rows : r.id # 0
    BY DEF TypeOK, Rows
  <2> QED
    BY <2>1, <2>2, <2>3, <2>4 DEF Informed, Working, RowOf
<1>3. CASE pc' \notin {"idle", "synced"} /\ pc # "idle"
  <2>1. pc # "synced" /\ Working /\ aged' = aged
    <3>1. pc # "synced"
      BY <1>3, RecordMoves DEF BodyPCs
    <3> QED
      BY <1>3, <3>1, AgedMoves DEF Ends, Starts, Working
  <2>2. obj'.id = obj.id /\ obj'.hash = obj.hash
    BY <1>3, FinFacts, EditFacts, DeleteFacts DEF ObjStep, Watches, StatusStep, AddsFin, Drops, Ends
  <2>3. wk' = wk \/ (wk' = [wk EXCEPT !.id = 0] /\ wk.id \notin Listed /\ rows' = rows)
    BY <1>3, SeekMoves
  <2>4. wk \in Objs /\ obj.id \in Nat /\ obj.id < nextId
    BY Bounds DEF TypeOK, Objs, Ids, IdsKnown
  <2>5. wk'.hash = wk.hash /\ wk'.id \in {wk.id, 0}
    BY <2>3, <2>4 DEF Objs
  <2>6. ~aged' => wk'.hash = obj'.hash /\ wk'.id \in {obj'.id, 0}
    BY <2>1, <2>2, <2>5 DEF Informed
  <2>7. ASSUME ~aged', InTime', wk'.id = 0 PROVE RowOf(obj.id)' = {}
    <3>1. InTime /\ listing /\ ~IsRouter
      <4>1. InTime
        BY <2>7 DEF InTime, RowStep, TypeOK
      <4> QED
        BY <4>1 DEF InTime, Single
    <3>2. RowOf(obj.id) = {}
      <4>1. CASE wk.id = 0
        BY <2>1, <2>7, <3>1, <4>1 DEF Informed
      <4>2. CASE wk.id # 0
        <5>1. wk.id = obj.id /\ wk' # wk
          BY <2>1, <2>7, <4>2 DEF Informed
        <5>2. obj.id \notin IdsOf(rows)
          BY <2>3, <3>1, <5>1 DEF Listed
        <5> QED
          BY <5>2 DEF IdsOf, RowOf
      <4> QED
        BY <4>1, <4>2
    <3>3. \A r \in rows' : r.id # obj.id
      BY <2>4, <3>2, RowIds
    <3> QED
      BY <2>2, <3>3 DEF RowOf
  <2>8. pc' \in {"find", "adopt"} => wk'.id = 0
    <3>1. CASE pc' = pc
      BY <2>5, <3>1 DEF Informed
    <3>2. CASE pc' # pc
      BY <1>3, <3>2, SeekMoves DEF Informed
    <3> QED
      BY <3>1, <3>2
  <2> QED
    BY <2>6, <2>7, <2>8 DEF Informed
<1> QED
  BY <1>1, <1>2, <1>3

\* Rows come by the key only from a body that has it.
LEMMA KeyMoves ==
  ASSUME TypeOK, RowStep, ~LateApply, ~body.wide, NEW r \in rows', r.body.wide
  PROVE  \E s \in rows : s.id = r.id /\ s.body.wide
<1>1. rows \subseteq Rows /\ body \in Bodies
  BY DEF TypeOK
<1>2. CASE Rewrites
  <2>1. PICK i : rows' = (rows \ RowOf(i)) \cup {Updated(s, body) : s \in RowOf(i)}
    BY <1>2 DEF Rewrites
  <2>2. CASE r \in rows
    BY <2>2
  <2>3. CASE r \notin rows
    <3>1. PICK s \in RowOf(i) : r = Updated(s, body)
      BY <2>1, <2>3
    <3>2. s \in rows /\ s \in Rows
      BY <1>1, <3>1 DEF RowOf
    <3>3. r.id = s.id /\ r.body.wide = (body.wide \/ s.body.wide)
      BY <1>1, <3>1, <3>2, UpdatedFacts
    <3> QED
      BY <3>2, <3>3
  <2> QED
    BY <2>2, <2>3
<1>3. CASE Makes
  BY <1>3 DEF Makes
<1>4. CASE Removes \/ PutsOff
  BY <1>4 DEF Removes, PutsOff
<1> QED
  BY <1>2, <1>3, <1>4 DEF RowStep

\* Params without the key are applied to the row on record only if the record
\* does not name it.
LEMMA AppliedNarrow ==
  ASSUME TypeOK, Single, Informed, Next, InTime, pc' = "synced", pc # "synced", ~body.wide
  PROVE  pc = "adopt" \/ ~wk.hash.wide \/ rows = {}
<1>1. ASSUME NEW o, ClassifyMutationError(o) PROVE FALSE
  BY <1>1, ClassifyFacts DEF Finish
<1>2. CASE Adopt
  BY <1>2 DEF Adopt
<1>3. CASE UpdateTracked
  BY <1>3 DEF UpdateTracked, MustRecreate
<1>4. CASE CreateNew
  BY <1>4 DEF CreateNew, Single
<1>5. CASE DeleteOld
  <2>1. GoOn("recreate") \/ \E o : ClassifyMutationError(o)
    BY <1>5 DEF DeleteOld
  <2> QED
    BY <1>1, <2>1 DEF GoOn
<1>6. CASE DeleteUnavailable \/ DeleteTracked \/ ResolveByName \/ DeleteResolved
  BY <1>6
  DEF DeleteUnavailable, DeleteTracked, ResolveByName, DeleteResolved, DeleteCall, AckMissing, GoOn, Requeue, Finish
<1>7. CASE pc' # "synced" \/ pc' = pc
  BY <1>7
<1> QED
  BY <1>2, <1>3, <1>4, <1>5, <1>6, <1>7
  DEF Next, Reconcile, Outside, Sync, Relist, Fetch, DropFinalizer, AddFinalizer, Gate, Render, Probe,
      PruneOne, PruneDone, Steady, Throttle, FindByName, WriteSynced, EditSpec, DeleteObj, Annotate,
      RotateSecret, OutOfBandDelete, FlipListing, LateApply, ConnDown, ConnUp, Expire, Crash,
      GoOn, Requeue, Finish, wkVars

LEMMA KeyedStep ==
  ASSUME SafeInv, Next, WorkStep, ObjStep, RowStep, Informed, Keyed
  PROVE  Keyed'
<1> USE DEF SafeInv
<1> SUFFICES ASSUME InTime'
             PROVE  /\ KeysOnRecord' \/ offRecord'
                    /\ pc' = "synced" /\ ~aged' /\ ~body'.wide =>
                         \A r \in rows' : r.body.wide => ~(obj'.hash.wide /\ obj'.id = r.id)
  BY DEF Keyed
<1>1. InTime
  BY DEF InTime, RowStep, TypeOK
<1>2. ~LateApply
  <2>1. late = {}
    BY <1>1 DEF Single
  <2> QED
    BY <2>1 DEF LateApply
<1>3. /\ KeysOnRecord \/ offRecord
      /\ pc = "synced" /\ ~aged /\ ~body.wide =>
           \A r \in rows : r.body.wide => ~(obj.hash.wide /\ obj.id = r.id)
  BY <1>1 DEF Keyed
<1>4. ASSUME ~body.wide, ~aged, KeysOnRecord, ~KeysOnRecord'
      PROVE  FALSE
  <2>1. PICK r \in rows' : r.body.wide /\ ~(obj'.hash.wide /\ obj'.id = r.id)
    BY <1>4 DEF KeysOnRecord
  <2>2. PICK s \in rows : s.id = r.id /\ s.body.wide
    BY <1>2, <1>4, <2>1, KeyMoves
  <2>3. obj.hash.wide /\ obj.id = r.id
    BY <1>4, <2>2 DEF KeysOnRecord
  <2>4. StatusStep
    <3>1. Watches \/ AddsFin \/ Drops \/ EditSpec \/ DeleteObj => obj'.id = obj.id /\ obj'.hash = obj.hash
      BY FinFacts, EditFacts, DeleteFacts DEF Watches
    <3> QED
      BY <2>1, <2>3, <3>1 DEF ObjStep
  <2>5. /\ obj'.hash = wk.hash /\ obj'.id = (IF wk.id = 0 THEN obj.id ELSE wk.id)
        /\ pc # "idle"
    BY <2>4, WriteFacts DEF StatusStep, Running, LivePCs, BodyPCs
  <2>6. CASE pc = "synced"
    BY <1>3, <1>4, <2>2, <2>3, <2>6
  <2>7. CASE pc # "synced"
    <3>1. wk.hash = obj.hash /\ wk.id \in {obj.id, 0}
      BY <1>4, <2>5, <2>7 DEF Informed, Working
    <3> QED
      BY <2>1, <2>3, <2>5, <3>1
  <2> QED
    BY <2>6, <2>7
<1>5. KeysOnRecord' \/ offRecord'
  <2>1. CASE Note
    <3>1. SUFFICES ASSUME ~KeysOnRecord' PROVE offRecord \/ body.wide \/ aged
      BY <2>1 DEF Note
    <3> QED
      BY <1>3, <1>4, <3>1
  <2>2. CASE offRecord' = offRecord /\ rows' \subseteq rows /\ obj'.id = obj.id /\ obj'.hash = obj.hash
    BY <1>3, <2>2 DEF KeysOnRecord
  <2> QED
    BY <1>2, <2>1, <2>2, NoteMoves
<1>6. ASSUME pc' = "synced", ~aged', ~body'.wide, NEW r \in rows', r.body.wide, obj'.hash.wide, obj'.id = r.id
      PROVE  FALSE
  <2>1. pc # "idle" /\ body' = body /\ aged' = aged
    <3>1. pc # "idle" /\ body' = body
      BY <1>6, RecordMoves DEF BodyPCs
    <3> QED
      BY <1>6, <3>1, AgedMoves DEF Ends, Starts
  <2>2. obj'.id = obj.id /\ obj'.hash = obj.hash
    BY <1>6, FinFacts, EditFacts, DeleteFacts DEF ObjStep, Watches, StatusStep, AddsFin, Drops, Ends
  <2>3. PICK s \in rows : s.id = r.id /\ s.body.wide
    BY <1>2, <1>6, <2>1, KeyMoves
  <2>4. CASE pc = "synced"
    BY <1>3, <1>6, <2>1, <2>2, <2>3, <2>4
  <2>5. CASE pc # "synced"
    <3>1. wk.hash = obj.hash /\ (wk.id = 0 => RowOf(obj.id) = {})
      BY <1>1, <1>6, <2>1, <2>5 DEF Informed, Working
    <3>2. s \in RowOf(obj.id)
      BY <1>6, <2>2, <2>3 DEF RowOf
    <3>3. pc # "adopt"
      BY <3>1, <3>2 DEF Informed
    <3> QED
      BY <1>1, <1>6, <2>1, <2>2, <2>3, <2>5, <3>1, <3>3, AppliedNarrow
  <2> QED
    BY <2>4, <2>5
<1> QED
  BY <1>5, <1>6

LEMMA KeysInit ==
  ASSUME Init
  PROVE  Informed /\ Keyed
<1>1. pc = "idle"
  BY DEF Init
<1>2. \/ rows = {}
      \/ obj = LegacyObj /\ rows = {[id |-> 1, body |-> LegacyObj.hash]}
  BY DEF Init
<1>3. KeysOnRecord
  BY <1>2, LegacyFacts DEF KeysOnRecord
<1> QED
  BY <1>1, <1>3 DEF Informed, Working, Keyed

LEMMA KeysStep ==
  ASSUME SafeInv, Informed, Keyed, [Next]_vars
  PROVE  Informed' /\ Keyed'
<1>1. CASE Next
  <2>1. WorkStep /\ ObjStep /\ RowStep
    BY <1>1, WorkMoves, ObjMoves, RowMoves DEF SafeInv
  <2> QED
    BY <1>1, <2>1, InformedStep, KeyedStep
<1>2. CASE UNCHANGED vars
  BY <1>2 DEF vars, Informed, Working, Keyed, KeysOnRecord, InTime, RowOf
<1> QED
  BY <1>1, <1>2

LEMMA SyncedAlways == Spec => []SyncedInv
<1>1. Init => SyncedInv
  BY SafeInit, ToldInit, KeysInit DEF SyncedInv
<1>2. SyncedInv /\ [Next]_vars => SyncedInv'
  BY SafeStep, ToldStep, KeysStep DEF SyncedInv
<1> QED
  BY <1>1, <1>2, PTL DEF Spec

\* Step 11, the steady state and delete-and-recreate: with content that does not
\* return, a resource at rest that says Synced has what it asks for in the row it
\* tracks, whatever was lost, retried, edited, rotated or restarted on the way, and
\* no key that it gave up, unless the key was left off the record.
THEOREM SyncedTrue == Spec => [](~Reverts => SyncedMatches)
<1>1. SyncedInv => (~Reverts => SyncedMatches)
  <2> SUFFICES ASSUME SyncedInv, ~Reverts, InTime, AtRest, ClaimsSynced, NEW r \in RowOf(obj.id)
               PROVE  SameParams(r.body, Rendered(obj, secret)) /\ NoKeyLeft(r.body)
    BY DEF SyncedMatches, SyncedServes
  <2>1. obj.hash \in Bodies /\ Records(obj.hash) /\ IsNow(obj.hash)
    BY DEF SyncedInv, SafeInv, TypeOK, Objs, Told, SyncedHolds, Records
  <2>2. \A s \in rows : IsNow(s.body) /\ (obj.wide => s.body.wide)
    BY <2>1 DEF SyncedInv, Told, Truthful
  <2>3. r \in rows /\ r.id = obj.id
    BY DEF RowOf
  <2>4. obj \in Objs /\ secret \in Versions
    BY DEF SyncedInv, SafeInv, TypeOK
  <2>5. SameParams(r.body, Rendered(obj, secret))
    BY <2>2, <2>3, <2>4, RenderedFacts DEF IsNow, SameParams
  <2>6. obj.hash.wide = obj.wide
    BY DEF SyncedInv, Told, Kin, ClaimsSynced
  <2>7. NoKeyLeft(r.body)
    BY <2>3, <2>6 DEF SyncedInv, Keyed, KeysOnRecord, NoKeyLeft
  <2> QED
    BY <2>5, <2>7
<1> QED
  BY <1>1, SyncedAlways, PTL
=============================================================================
