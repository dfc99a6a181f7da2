----------------------------- MODULE TeamProofs -----------------------------
(***************************************************************************)
(* What module Team promises, for every set of groups, every policy and     *)
(* every number of upsets: the type invariant, that no row is left behind   *)
(* silently, that no second row is made, that a parked team has been cut    *)
(* down, and that Synced tells the truth.                                   *)
(***************************************************************************)
EXTENDS Team, TLAPS, FiniteSetTheorems, WellFoundedInduction

-----------------------------------------------------------------------------
(* The inductive invariant.                                                *)

LivePCs == {"groups", "probe", "decide", "create", "update", "narrow", "synced", "park"}
ImplicitPCs == {"implicit", "bootstrap", "refresh"}
DelPCs == {"resolve", "reapply", "delete", "drop"}

\* The copies that are of the resource there is: it has its finalizer, so it
\* cannot have gone since the copy was made.
SeenOurs == seen.phase = "live" /\ seen.fin
WkOurs == pc \in LivePCs /\ wk.fin

\* Where a reconcile is says what it fetched.
Paths ==
  /\ pc \in ImplicitPCs => name = "default" /\ wk.phase = "absent"
  /\ pc \in LivePCs => wk.phase = "live"
  /\ pc \in LivePCs \ {"groups"} => wk.fin
  /\ pc \in DelPCs => wk.phase = "deleting" /\ wk.fin
  /\ pc = "reapply" => name = "default"
  /\ pc = "delete" => name # "default"

\* Edits and assigned ids are paid for with upsets, except for the first
\* bootstrap of an alias that has no team.
Counted ==
  /\ obj.gen <= upsets + 1
  /\ minted <= upsets + 1
  /\ rows = {} \/ pc = "bootstrap" \/ name # "default" => minted <= upsets
  /\ pc = "create" => FirstReconcile \/ churn < RecreateLimit

\* Ids anybody knows: a new one is none of them.
Known == {0, NamedId} \cup {ServerIds[k] : k \in 1 .. minted}
IdsKnown ==
  /\ obj.id \in Known /\ seen.id \in Known /\ wk.id \in Known /\ target \in Known
  /\ \A r \in rows : r.id \in Known

\* The finalizer keeps the resource while a copy that has it is around.
Pinned ==
  /\ obj.phase = "deleting" => obj.fin
  /\ obj.phase = "absent" => ~obj.fin
  /\ SeenOurs => obj.fin
  /\ seen.phase = "deleting" /\ obj.fin => obj.phase = "deleting"
  /\ WkOurs => obj.fin /\ seen.fin
  /\ pc = "groups" /\ ~wk.fin => obj.fin \/ seen.phase # "deleting"
  /\ pc \in DelPCs /\ obj.fin => obj.phase = "deleting" /\ (seen = wk \/ seen = obj)

\* A resource the worker has not seen yet has no status.
Untouched ==
  (seen.phase # "live" \/ pc \in DelPCs \cup ImplicitPCs) /\ obj.phase = "live" =>
    obj.id = 0 /\ obj.hash = NoBody

OneAlias ==
  "duplicate" \notin past => /\ \A r, s \in rows : r = s
                             /\ pc \in {"create", "bootstrap"} => rows = {}

Gone(i) == RowOf(i) = {}

\* What a resource that goes leaves behind.
LeftBehind == Effective = "Orphan" /\ "leftOnCause" \in past /\ conn = "Absent"
Leaves ==
  /\ pc = "delete" /\ wk.id # 0 => target = wk.id
  /\ obj.phase = "live" /\ ~obj.fin => Gone(obj.id)
  /\ seen.phase = "live" /\ ~seen.fin => Gone(seen.id)
  /\ name # "default" =>
       /\ seen.phase = "deleting" /\ ~obj.fin => conn = "Absent" \/ Gone(seen.id)
       /\ pc = "resolve" /\ ~obj.fin => conn = "Absent" \/ Gone(wk.id)
       /\ pc = "delete" /\ ~obj.fin => Gone(wk.id)
       /\ pc = "drop" /\ obj.fin => Gone(wk.id) \/ LeftBehind
  /\ NoSilentLeak

SafeInv == TypeOK /\ Paths /\ Counted /\ IdsKnown /\ Pinned /\ Untouched /\ OneAlias /\ Leaves

\* Without an id there is no lastRendered.
IdHash ==
  /\ obj.id = 0 => obj.hash = NoBody
  /\ seen.id = 0 => seen.hash = NoBody
  /\ SeenOurs /\ obj.id = 0 => seen.id = 0
  /\ wk.id = 0 /\ pc \in DelPCs \cup {"groups", "narrow", "probe", "park"} => wk.hash = NoBody
  /\ WkOurs /\ obj.id = 0 /\ pc \notin {"synced", "park"} => wk.hash = NoBody
  /\ pc = "synced" => wk.id # 0

\* A generation has one spec.
SameSpec(c) == c.gen <= obj.gen /\ (c.gen = obj.gen => c.attach = obj.attach /\ c.v = obj.v)
Generations ==
  /\ obj.phase = "live" /\ SeenOurs => SameSpec(seen)
  /\ obj.phase = "live" /\ WkOurs => SameSpec(wk)
  /\ obj.phase = "live" /\ obj.reason \in {"Synced", "AccessGroupNotFound"} => obj.obs <= obj.gen

Lacks(h, attach) == \E g \in attach : h.grant[g] = 0
Rendering ==
  /\ pc \in LivePCs \ {"groups"} => body.v = wk.v /\ body.grant \in [Groups -> Versions]
  /\ pc = "create" => Gone(NamedId)
  /\ pc = "synced" => wk.hash = body
  /\ pc = "narrow" => Lacks(body, wk.attach)
  /\ pc = "park" => Lacks(wk.hash, wk.attach)
  /\ obj.phase = "live" /\ obj.obs = obj.gen /\ obj.reason = "AccessGroupNotFound" =>
       Lacks(obj.hash, obj.attach)
  /\ obj.phase = "live" /\ obj.obs = obj.gen /\ obj.reason = "Synced" => obj.hash.v = obj.v

\* LiteLLM holds h under the id i.
Holds(i, h) == \A r \in RowOf(i) : r.body = h

\* As long as every applied write got recorded, a record is true.
Applying == pc \in {"synced", "park"}
Recorded ==
  "unrecorded" \notin past /\ obj.phase = "live" =>
    /\ ~Applying => /\ Holds(obj.id, obj.hash)
                    /\ SeenOurs /\ seen.hash = obj.hash => Holds(seen.id, obj.hash)
                    /\ WkOurs => wk.hash = obj.hash /\ Holds(wk.id, wk.hash)
    /\ Applying => /\ Holds(wk.id, wk.hash)
                   /\ obj.id # wk.id => Holds(obj.id, obj.hash)
                   /\ SeenOurs /\ seen.hash = obj.hash /\ seen.id # wk.id => Holds(seen.id, obj.hash)
                   /\ wk.id = 0 => wk.hash = obj.hash

NarrowInv == SafeInv /\ IdHash /\ Generations /\ Rendering /\ Recorded

-----------------------------------------------------------------------------
(* With content that does not return (Reverts FALSE), also:                *)

\* Versions only grow.
Old(h) == h.v <= upsets + 1 /\ \A g \in Groups : h.grant[g] <= upsets + 1
Versioned ==
  /\ Old(obj.hash) /\ Old(seen.hash) /\ Old(wk.hash) /\ Old(body)
  /\ obj.v <= upsets + 1 /\ seen.v <= upsets + 1 /\ wk.v <= upsets + 1
  /\ \A g \in Groups : groups[g] <= upsets + 1

\* What a reconcile would render now; a body that is something else, or that
\* lacks a group, is not rendered as Synced again before the next edit.
RenderNow == [v |-> obj.v, grant |-> ClosedTeamGrant(obj.attach)]
Outdated(h) == h # RenderNow \/ Lacks(h, obj.attach)
Fits(b, h) == b = h \/ Outdated(h)

\* A copy from before an edit: no record is of the spec there is now.
Outrun ==
  obj.phase = "live" =>
    /\ SeenOurs /\ seen.v = obj.v => seen.attach = obj.attach
    /\ SeenOurs /\ seen.v # obj.v => obj.hash.v # obj.v /\ seen.hash.v # obj.v
    /\ WkOurs /\ wk.v = obj.v => wk.attach = obj.attach
    /\ WkOurs /\ wk.v # obj.v => /\ obj.hash.v # obj.v /\ wk.hash.v # obj.v
                                 /\ SeenOurs => seen.hash.v # obj.v

Tracked(i) == i = obj.id \/ (SeenOurs /\ i = seen.id) \/ (WkOurs /\ i = wk.id)
FitsAll(b) == /\ Fits(b, obj.hash)
              /\ SeenOurs => Fits(b, seen.hash)
              /\ WkOurs => Fits(b, wk.hash)

\* A row that some copy tracks is what every record says, or the record is
\* outdated; so is what is about to be sent.  A steady copy is true, and so is
\* the record about to be written.
RowsFit == \A r \in rows : Tracked(r.id) => FitsAll(r.body)
BodyFits == pc \in {"probe", "decide", "create", "update", "narrow"} => FitsAll(body)
SteadyHolds == pc \in {"probe", "decide"} /\ wk.v = obj.v /\ wk.hash = body => Holds(wk.id, wk.hash)
AppliedHolds == pc = "synced" => Holds(wk.id, wk.hash)
Truthful ==
  obj.phase = "live" /\ "duplicate" \notin past =>
    RowsFit /\ BodyFits /\ SteadyHolds /\ AppliedHolds

\* A reconcile that nothing has queued again works on the latest copy.
Latest ==
  pc # "idle" /\ ~queued =>
    /\ seen.v = wk.v /\ seen.phase = wk.phase /\ seen.fin = wk.fin
    /\ pc = "groups" => seen = wk
    /\ ~Applying => seen.hash = wk.hash /\ wk.id \in {0, seen.id}

SyncedHolds ==
  AtRest /\ conn = "Synced" /\ "duplicate" \notin past
    /\ obj.phase = "live" /\ obj.reason = "Synced" /\ obj.obs = obj.gen => Holds(obj.id, obj.hash)

SyncedInv ==
  NarrowInv /\ (~Reverts => Versioned /\ Outrun /\ Truthful /\ Latest /\ SyncedHolds)

-----------------------------------------------------------------------------
(* Constants and lookups.                                                  *)

LEMMA Bounds == MaxUpsets \in Nat /\ RecreateLimit \in Nat /\ Len(ServerIds) \in Nat
  BY TeamAssumption

LEMMA IdFacts == Ids \subseteq Nat /\ 0 \notin Ids /\ NamedId \in Ids /\ NamedId # 0
  BY TeamAssumption DEF Ids, NamedId

LEMMA BodyFacts ==
  /\ NoGrant \in [Groups -> Versions] /\ NoBody \in Bodies /\ ImplicitDefaultBody \in Bodies
  /\ NoBody.v = -1 /\ NoBody.grant = NoGrant
  /\ ImplicitDefaultBody.v = 0 /\ ImplicitDefaultBody.grant = NoGrant
<1>1. NoGrant \in [Groups -> Versions]
  BY Bounds DEF NoGrant, Versions
<1> QED
  BY <1>1, Bounds DEF NoBody, ImplicitDefaultBody, Bodies

LEMMA AbsentFacts ==
  /\ Absent \in Objs
  /\ Absent.phase = "absent" /\ ~Absent.fin /\ Absent.id = 0 /\ Absent.hash = NoBody
  /\ Absent.v = 0
<1>1. 0 \in Versions /\ 1 \in Versions
  BY Bounds DEF Versions
<1> QED
  BY <1>1, BodyFacts DEF Absent, Objs

LEMMA NewFacts ==
  ASSUME NEW a \in SUBSET Groups
  PROVE  LET y == NewObj(a) IN
         /\ y \in Objs
         /\ y.phase = "live" /\ ~y.fin /\ y.gen = 1 /\ y.v = 1 /\ y.attach = a
         /\ y.id = 0 /\ y.hash = NoBody /\ y.obs = 0 /\ y.reason = "none"
<1>1. 0 \in Versions /\ 1 \in Versions
  BY Bounds DEF Versions
<1> QED
  BY <1>1, BodyFacts, AbsentFacts DEF NewObj, Absent, Objs

\* An id LiteLLM assigns is nobody's yet.
LEMMA NextIdFacts ==
  ASSUME minted \in 0 .. Len(ServerIds), minted < Len(ServerIds)
  PROVE  /\ NextServerId \in Ids /\ NextServerId # NamedId /\ NextServerId # 0
         /\ NextServerId \notin Known
         /\ minted' = minted + 1 => Known' = Known \cup {NextServerId}
<1>1. minted + 1 \in 1 .. Len(ServerIds)
  BY Bounds
<1>2. NextServerId \in Nat \ {0, NamedId}
  BY <1>1, TeamAssumption DEF NextServerId
<1>3. \A k \in 1 .. minted : k \in 1 .. Len(ServerIds) /\ k # minted + 1
  BY Bounds
<1>4. NextServerId \notin Known
  BY <1>1, <1>2, <1>3, TeamAssumption DEF NextServerId, Known
<1>5. ASSUME minted' = minted + 1 PROVE Known' = Known \cup {NextServerId}
  <2>1. 1 .. minted' = (1 .. minted) \cup {minted + 1}
    BY <1>5, Bounds
  <2> QED
    BY <2>1 DEF Known, NextServerId
<1> QED
  BY <1>1, <1>2, <1>4, <1>5 DEF Ids, NextServerId

\* A nonempty set of ids has a smallest, so the lookup finds one when there is
\* one.
LEMMA SmallestFacts ==
  ASSUME rows \subseteq Rows
  PROVE  /\ Smallest = 0 <=> rows = {}
         /\ Smallest # 0 => Smallest \in Ids /\ \E r \in rows : r.id = Smallest
<1>1. Listed \subseteq Ids
  BY DEF Listed, Rows
<1>2. Listed = {} <=> rows = {}
  BY DEF Listed
<1>3. ASSUME Listed # {} PROVE \E i \in Listed : \A j \in Listed : i <= j
  <2>1. \E i \in Listed : \A j \in Listed : ~(<<j, i>> \in OpToRel(<, Nat))
    BY <1>1, <1>3, IdFacts, NatLessThanWellFounded, WFMin
  <2>2. PICK i \in Listed : \A j \in Listed : ~(<<j, i>> \in OpToRel(<, Nat))
    BY <2>1
  <2>3. \A j \in Listed : ~(j < i)
    BY <1>1, <2>2, IdFacts DEF OpToRel
  <2> QED
    BY <1>1, <2>3, IdFacts
<1>4. Listed # {} => Smallest \in Listed
  BY <1>3 DEF Smallest
<1>5. Listed = {} => Smallest = 0
  BY DEF Smallest
<1> QED
  BY <1>1, <1>2, <1>4, <1>5, IdFacts DEF Listed

-----------------------------------------------------------------------------
(* What the operators do.                                                  *)

Reasons == {"Synced", "LiteLLMUnavailable", "LiteLLMRejected",
            "AccessGroupNotFound", "RecreateThrottled"}

\* A status write changes the record and nothing of the spec.
LEMMA WriteFacts ==
  ASSUME TypeOK, NEW r \in Reasons, WriteStatus(wk, r)
  PROVE  /\ seen = obj /\ obj.phase # "absent"
         /\ obj' \in Objs
         /\ obj'.phase = obj.phase /\ obj'.fin = obj.fin /\ obj'.gen = obj.gen
         /\ obj'.v = obj.v /\ obj'.attach = obj.attach
         /\ obj'.id = IF wk.id = 0 THEN obj.id ELSE wk.id
         /\ obj'.hash = wk.hash /\ obj'.obs = wk.gen /\ obj'.reason = r
<1>1. obj \in Objs /\ wk \in Objs
  BY DEF TypeOK
<1>2. KeepPersistedID(wk.id, obj.id) \in Ids \cup {0}
  BY <1>1 DEF KeepPersistedID, Objs
<1>3. obj' = [obj EXCEPT !.id = KeepPersistedID(wk.id, obj.id), !.hash = wk.hash,
                         !.obs = wk.gen, !.reason = r]
  BY DEF WriteStatus
<1>4. wk.hash \in Bodies /\ wk.gen \in Versions
  BY <1>1 DEF Objs
<1>5. obj' \in Objs
  BY <1>1, <1>2, <1>3, <1>4, ZenonT(60) DEF Objs, Reasons
<1> QED
  BY <1>1, <1>3, <1>5 DEF WriteStatus, Writable, KeepPersistedID, Objs

\* The reconcile is over; it may have written one of R.
Ended(R) ==
  /\ pc' = "idle" /\ wk' = Absent /\ body' = NoBody /\ target' = 0
  /\ queued' \in BOOLEAN /\ (queued => queued')
  /\ obj' = obj \/ \E r \in R : WriteStatus(wk, r)
  /\ conn' = conn \/ (conn = "Synced" /\ conn' = "BadMasterKey")

Errors == {"LiteLLMUnavailable", "LiteLLMRejected"}

LEMMA ClassifyFacts ==
  ASSUME TypeOK, NEW o, ClassifyMutationError(o)
  PROVE  /\ Ended(Errors)
         /\ wk.phase = "absent" => obj' = obj
         /\ queued' \/ conn' # "Synced"
<1>1. queued \in BOOLEAN
  BY DEF TypeOK
<1>2. CASE o = "401"
  BY <1>1, <1>2, Zenon DEF ClassifyMutationError, InvalidateOn401, Return, Ended, Errors
<1>3. CASE o = "4xx"
  BY <1>1, <1>3, Zenon DEF ClassifyMutationError, Return, Ended, Errors
<1>4. CASE o \in {"down", "lost"}
  BY <1>1, <1>4, Zenon DEF ClassifyMutationError, Return, Ended, Errors
<1> QED
  BY <1>2, <1>3, <1>4 DEF ClassifyMutationError

LEMMA EndWithFacts ==
  ASSUME TypeOK, NEW r, NEW again \in BOOLEAN, EndWith(r, again), UNCHANGED conn
  PROVE  Ended({r}) /\ (again => queued') /\ upsets' \in {upsets, upsets + 1}
<1>1. queued \in BOOLEAN
  BY DEF TypeOK
<1>2. Return(again) => /\ pc' = "idle" /\ wk' = Absent /\ body' = NoBody /\ target' = 0
                       /\ queued' \in BOOLEAN /\ (queued => queued') /\ (again => queued')
  BY <1>1, Zenon DEF Return
<1> QED
  BY <1>2, Zenon DEF EndWith, Ended, StatusLost, Upset

LEMMA ReturnFacts ==
  ASSUME TypeOK, NEW again \in BOOLEAN, Return(again), UNCHANGED <<obj, conn>>
  PROVE  Ended({}) /\ (again => queued')
  BY Zenon DEF Return, Ended, TypeOK

\* POST /team/update: rows keep their ids; those of i get the body b.
LEMMA UpdateFacts ==
  ASSUME TypeOK, NEW i, NEW b \in Bodies, b.grant \in [Groups -> Versions], NEW o,
         Update(i, b, o)
  PROVE  /\ rows' \subseteq Rows /\ minted' = minted
         /\ \A s \in rows' : \E r \in rows : r.id = s.id
         /\ \A j : Gone(j) <=> Gone(j)'
         /\ \A j : j # i => RowOf(j)' = RowOf(j)
         /\ o \in Done => \A r \in RowOf(i)' : r.body = b
         /\ o \notin Done \/ Gone(i) => rows' = rows
         /\ (\A r, s \in rows : r = s) => (\A r, s \in rows' : r = s)
         /\ rows = {} <=> rows' = {}
<1>1. rows \subseteq Rows
  BY DEF TypeOK
<1>2. ASSUME NEW r \in rows PROVE Merged(r, b) = [id |-> r.id, body |-> b]
  <2>1. r \in Rows /\ r.id \in Ids /\ r.body \in Bodies
    BY <1>1 DEF Rows
  <2>2. b.grant = Omitted => Groups = {}
    BY Bounds DEF Omitted, Versions
  <2>3. b.grant = Omitted => r.body.grant = b.grant
    BY <2>1, <2>2 DEF Omitted, Bodies
  <2>4. Merged(r, b) = [r EXCEPT !.body = [[r.body EXCEPT !.v = b.v] EXCEPT !.grant = b.grant]]
    BY <2>1, <2>3 DEF Merged, Rows, Bodies
  <2>5. [[r.body EXCEPT !.v = b.v] EXCEPT !.grant = b.grant] = b
    BY <2>1 DEF Bodies
  <2> QED
    BY <2>1, <2>4, <2>5 DEF Rows
<1>3. rows' = IF o \in Done THEN (rows \ RowOf(i)) \cup {[id |-> r.id, body |-> b] : r \in RowOf(i)}
              ELSE rows
  BY <1>2 DEF Update, RowOf
<1>4. rows' \subseteq Rows
  BY <1>1, <1>3 DEF RowOf, Rows
<1>5. \A s \in rows' : s \in rows \/ \E r \in rows : r.id = i /\ s.id = i /\ s = [id |-> r.id, body |-> b]
  BY <1>3 DEF RowOf
<1>6. ASSUME NEW r \in rows PROVE \E s \in rows' : s.id = r.id
  <2>1. CASE o \in Done /\ r.id = i
    <3>1. [id |-> r.id, body |-> b] \in rows'
      BY <1>3, <2>1 DEF RowOf
    <3> QED
      BY <3>1
  <2>2. CASE ~(o \in Done /\ r.id = i)
    BY <1>3, <2>2 DEF RowOf
  <2> QED
    BY <2>1, <2>2
<1>7. \A j : j # i => RowOf(j)' = RowOf(j)
  BY <1>3 DEF RowOf
<1>8. o \in Done => \A r \in RowOf(i)' : r.body = b
  BY <1>3 DEF RowOf
<1>9. o \notin Done \/ Gone(i) => rows' = rows
  <2>1. ASSUME Gone(i) PROVE rows \ RowOf(i) = rows /\ {[id |-> r.id, body |-> b] : r \in RowOf(i)} = {}
    BY <2>1 DEF Gone
  <2> QED
    BY <1>3, <2>1
<1>10. (\A r, s \in rows : r = s) => (\A r, s \in rows' : r = s)
  BY <1>3 DEF RowOf
<1>11. \A j : Gone(j) <=> Gone(j)'
  BY <1>5, <1>6 DEF Gone, RowOf
<1>12. rows = {} <=> rows' = {}
  BY <1>5, <1>6
<1> QED
  BY <1>4, <1>5, <1>7, <1>8, <1>9, <1>10, <1>11, <1>12 DEF Update

\* POST /team/new.
LEMMA CreateFacts ==
  ASSUME TypeOK, NEW i \in Ids, NEW b \in Bodies, NEW o, Create(i, b, o)
  PROVE  /\ rows' \subseteq Rows
         /\ rows' = rows \/ rows' = rows \cup {[id |-> i, body |-> b]}
         /\ o \in Done => rows' = rows \cup {[id |-> i, body |-> b]}
         /\ o \notin Done => rows' = rows
         /\ minted' = minted \/ (minted' = minted + 1 /\ i # NamedId /\ o \in Done)
         /\ o \in Done /\ i # NamedId => minted' = minted + 1
  BY DEF TypeOK, Create, Rows

-----------------------------------------------------------------------------
(* The steps of a reconcile: it goes on, or it is over.                    *)

Tick == upsets' \in 0 .. MaxUpsets /\ upsets <= upsets' /\ upsets' <= upsets + 1

LEMMA TickFacts ==
  ASSUME TypeOK
  PROVE  /\ Upset => Tick /\ upsets' = upsets + 1 /\ upsets < MaxUpsets
         /\ UNCHANGED upsets => Tick
         /\ \A o : Outcome(o) => Tick
         /\ \A o : Outcome(o) /\ o # "ok" => upsets' = upsets + 1 /\ upsets < MaxUpsets
  BY Bounds DEF TypeOK, Upset, Tick, Outcome

\* Over, and the name comes back or the connection is down.
Failed == Ended(Errors) /\ (queued' \/ conn' # "Synced")

LEMMA AddFinalizerForm ==
  ASSUME TypeOK, AddFinalizer
  PROVE  /\ pc = "groups" /\ ~wk.fin /\ Tick
         /\ UNCHANGED <<name, seen, churn, cache, policy, groups, conn, rows, minted, past>>
         /\ \/ /\ obj = wk /\ obj' = [obj EXCEPT !.fin = TRUE]
               /\ pc' = "idle" /\ wk' = Absent /\ body' = NoBody /\ target' = 0
               /\ UNCHANGED <<queued, upsets>>
            \/ Ended({}) /\ UNCHANGED obj /\ (obj # wk \/ queued')
<1>1. CASE Unmoved /\ obj' = [obj EXCEPT !.fin = TRUE] /\ Return(FALSE) /\ UNCHANGED upsets
  BY <1>1, TickFacts DEF AddFinalizer, llmVars, Return, Unmoved, TypeOK
<1>2. CASE ~Unmoved /\ Return(FALSE) /\ UNCHANGED <<obj, upsets>>
  BY <1>2, TickFacts, ReturnFacts DEF AddFinalizer, llmVars, Unmoved
<1>3. CASE Upset /\ Return(TRUE) /\ UNCHANGED obj
  BY <1>3, TickFacts, ReturnFacts DEF AddFinalizer, llmVars
<1> QED
  BY <1>1, <1>2, <1>3 DEF AddFinalizer

LEMMA GateForm ==
  ASSUME TypeOK, Gate
  PROVE  /\ pc = "groups" /\ wk.fin /\ conn # "Synced" /\ Tick
         /\ UNCHANGED <<name, seen, churn, cache, policy, groups, conn, rows, minted, past>>
         /\ Ended({"LiteLLMUnavailable"})
<1>1. Tick
  BY TickFacts DEF Gate, EndWith, StatusLost
<1> QED
  BY <1>1, EndWithFacts DEF Gate, llmVars

LEMMA RenderForm ==
  ASSUME TypeOK, Render
  PROVE  /\ pc = "groups" /\ wk.fin /\ Tick
         /\ UNCHANGED <<name, seen, churn, cache, policy, groups, rows, minted, past>>
         /\ \/ /\ body' = [v |-> wk.v, grant |-> ClosedTeamGrant(wk.attach \cap Registered)]
               /\ pc' = IF wk.attach \subseteq Registered THEN "probe" ELSE "narrow"
               /\ UNCHANGED <<obj, wk, target, queued, conn>>
            \/ Failed
  BY TickFacts, ClassifyFacts DEF Render, llmVars, Failed

\* A write that is not recorded is one of the past's.
Unanswered == Failed /\ (rows' = rows \/ "unrecorded" \in past')

LEMMA UnansweredFacts ==
  ASSUME TypeOK, NEW i, NEW b \in Bodies, b.grant \in [Groups -> Versions], NEW o,
         Update(i, b, o), Unrecorded(o), Answer(i, o) # "ok", ClassifyMutationError(Answer(i, o))
  PROVE  Unanswered
<1>1. rows' = rows \/ o = "lost"
  BY UpdateFacts DEF Answer, Done, Gone
<1>2. o = "lost" => "unrecorded" \in past'
  BY DEF Unrecorded
<1> QED
  BY <1>1, <1>2, ClassifyFacts DEF Unanswered, Failed

LEMMA NarrowForm ==
  ASSUME TypeOK, Narrow, body.grant \in [Groups -> Versions]
  PROVE  /\ pc = "narrow" /\ Tick
         /\ UNCHANGED <<name, seen, churn, cache, policy, groups, minted>>
         /\ past' = past \/ past' = past \cup {"unrecorded"}
         /\ \/ /\ wk.id = 0 \/ wk.hash = body
               /\ pc' = "park" /\ UNCHANGED <<obj, wk, body, target, queued, conn, rows, past, upsets>>
            \/ /\ wk.id # 0 /\ Update(wk.id, body, "ok")
               /\ wk' = [wk EXCEPT !.hash = body] /\ pc' = "park"
               /\ UNCHANGED <<obj, body, target, queued, conn, past>>
            \/ \E o : wk.id # 0 /\ Update(wk.id, body, o) /\ Unanswered
<1>0. body \in Bodies
  BY DEF TypeOK
<1>1. CASE wk.id = 0 \/ wk.hash = body
  BY <1>1, TickFacts DEF Narrow, GoOn, llmVars
<1>2. CASE ~(wk.id = 0 \/ wk.hash = body)
  <2>1. PICK o \in Done \cup Refusals :
              /\ Outcome(o)
              /\ Update(wk.id, body, o)
              /\ \/ /\ Answer(wk.id, o) = "ok"
                    /\ wk' = [wk EXCEPT !.hash = body]
                    /\ pc' = "park"
                    /\ UNCHANGED <<obj, body, target, queued, conn>>
                 \/ Answer(wk.id, o) # "ok" /\ ClassifyMutationError(Answer(wk.id, o))
              /\ Unrecorded(o)
    BY <1>2 DEF Narrow
  <2>2. Tick /\ minted' = minted
    BY <1>0, <2>1, TickFacts, UpdateFacts
  <2>3. past' = past \/ past' = past \cup {"unrecorded"}
    BY <2>1 DEF Unrecorded
  <2>4. CASE Answer(wk.id, o) = "ok"
    <3>1. o = "ok"
      BY <2>4 DEF Answer
    <3>2. past' = past
      BY <2>1, <3>1 DEF Unrecorded
    <3> QED
      BY <1>2, <2>1, <2>2, <2>4, <3>1, <3>2 DEF Narrow
  <2>5. CASE Answer(wk.id, o) # "ok"
    BY <1>0, <1>2, <2>1, <2>2, <2>3, <2>5, UnansweredFacts DEF Narrow
  <2> QED
    BY <2>4, <2>5
<1> QED
  BY <1>1, <1>2

LEMMA ParkForm ==
  ASSUME TypeOK, Park
  PROVE  /\ pc = "park" /\ Tick
         /\ UNCHANGED <<name, seen, churn, cache, policy, groups, conn, rows, minted>>
         /\ past' = IF obj'.hash # wk.hash THEN past \cup {"unrecorded"} ELSE past
         /\ Ended({"AccessGroupNotFound"}) /\ queued'
<1>1. Tick
  BY TickFacts DEF Park, EndWith, StatusLost
<1> QED
  BY <1>1, EndWithFacts DEF Park, llmVars

LEMMA ProbeForm ==
  ASSUME TypeOK, Probe
  PROVE  /\ pc = "probe" /\ Tick
         /\ UNCHANGED <<name, seen, obj, churn, cache, policy, groups, rows, minted, past>>
         /\ \/ /\ pc' = "decide" /\ UNCHANGED <<body, target, queued>>
               /\ wk' = wk \/ wk' = [wk EXCEPT !.id = 0]
               /\ conn' = conn \/ (conn = "Synced" /\ conn' = "BadMasterKey")
            \/ Ended({}) /\ UNCHANGED obj /\ queued'
<1>1. CASE (wk.id = 0 \/ wk.hash = NoBody) /\ GoOn("decide") /\ UNCHANGED <<conn, upsets>>
  BY <1>1, TickFacts DEF Probe, GoOn, llmVars
<1>2. CASE \E o \in {"ok"} \cup Refusals :
             /\ Outcome(o)
             /\ \/ /\ o = "ok"
                   /\ wk' = IF wk.id \in Listed THEN wk ELSE [wk EXCEPT !.id = 0]
                   /\ pc' = "decide" /\ UNCHANGED <<body, target, queued, conn>>
                \/ o = "401" /\ InvalidateOn401 /\ GoOn("decide")
                \/ o \in {"4xx", "down"} /\ Return(TRUE) /\ UNCHANGED conn
  BY <1>2, TickFacts, ReturnFacts DEF Probe, GoOn, InvalidateOn401, llmVars
<1> QED
  BY <1>1, <1>2 DEF Probe

LEMMA SteadyForm ==
  ASSUME TypeOK, Steady
  PROVE  /\ pc = "decide" /\ InSteadyState /\ Tick
         /\ UNCHANGED <<name, seen, cache, policy, groups, conn, rows, minted, past>>
         /\ churn' \in {0, churn}
         /\ \/ wk.reason = "Synced" /\ Ended({}) /\ UNCHANGED obj
            \/ WriteStatus(wk, "Synced") /\ Ended({"Synced"})
            \/ Ended({}) /\ UNCHANGED obj /\ (~Writable \/ queued')
<1>1. CASE wk.reason = "Synced" /\ Return(FALSE) /\ churn' = 0 /\ UNCHANGED <<obj, upsets>>
  BY <1>1, TickFacts, ReturnFacts DEF Steady, llmVars
<1>2. CASE WriteStatus(wk, "Synced") /\ Return(FALSE) /\ churn' = 0 /\ UNCHANGED upsets
  <2>1. Ended({"Synced"})
    BY <1>2, Zenon DEF Return, Ended, TypeOK, Steady
  <2> QED
    BY <1>2, <2>1, TickFacts DEF Steady, llmVars
<1>3. CASE StatusLost /\ Return(upsets' # upsets) /\ UNCHANGED churn
  <2>1. UNCHANGED conn /\ UNCHANGED obj /\ (upsets' # upsets) \in BOOLEAN
    BY <1>3 DEF StatusLost, Steady
  <2>2. Ended({}) /\ (upsets' # upsets => queued')
    BY <1>3, <2>1, ReturnFacts
  <2>3. Tick /\ (~Writable \/ upsets' # upsets)
    BY <1>3, TickFacts DEF StatusLost, TypeOK
  <2> QED
    BY <1>3, <2>1, <2>2, <2>3 DEF Steady, llmVars
<1> QED
  BY <1>1, <1>2, <1>3 DEF Steady

LEMMA LookupForm ==
  ASSUME TypeOK, Lookup
  PROVE  /\ pc = "decide" /\ Tick
         /\ UNCHANGED <<name, seen, churn, cache, policy, groups, rows, minted, past>>
         /\ \/ /\ target' = Smallest
               /\ pc' = IF Smallest = 0 THEN "create" ELSE "update"
               /\ Smallest # 0 \/ FirstReconcile \/ churn < RecreateLimit
               /\ UNCHANGED <<obj, wk, body, queued, conn>>
            \/ Ended({"RecreateThrottled"}) /\ queued'
            \/ Failed
<1>1. CASE /\ Smallest # 0 \/ FirstReconcile \/ churn < RecreateLimit
           /\ target' = Smallest
           /\ pc' = IF Smallest = 0 THEN "create" ELSE "update"
           /\ UNCHANGED <<obj, wk, body, queued, conn, upsets>>
  BY <1>1, TickFacts DEF Lookup, llmVars
<1>2. CASE EndWith("RecreateThrottled", TRUE) /\ UNCHANGED conn
  <2>1. Tick
    BY <1>2, TickFacts DEF EndWith, StatusLost
  <2> QED
    BY <1>2, <2>1, EndWithFacts DEF Lookup, llmVars
<1>3. CASE Upset /\ \E o \in Refusals : ClassifyMutationError(o)
  BY <1>3, TickFacts, ClassifyFacts DEF Lookup, llmVars, Failed
<1> QED
  BY <1>1, <1>2, <1>3 DEF Lookup

LEMMA CreateNamedForm ==
  ASSUME TypeOK, CreateNamed
  PROVE  /\ pc = "create" /\ Tick
         /\ UNCHANGED <<name, seen, cache, policy, groups, minted>>
         /\ past' = past \/ past' = past \cup {"unrecorded"}
         /\ rows' \subseteq Rows
         /\ rows' = rows \/ rows' = rows \cup {[id |-> NamedId, body |-> body]}
         /\ \/ /\ rows' = rows \cup {[id |-> NamedId, body |-> body]}
               /\ wk' = [wk EXCEPT !.id = NamedId, !.hash = body] /\ pc' = "synced"
               /\ churn' = IF FirstReconcile THEN churn ELSE churn + 1
               /\ UNCHANGED <<obj, body, target, queued, conn, past>>
            \/ Unanswered /\ UNCHANGED churn
<1>1. PICK o \in Done \cup Refusals :
       /\ Outcome(o)
       /\ Create(NamedId, body, o)
       /\ \/ /\ o = "ok" /\ Applied(NamedId)
             /\ churn' = IF FirstReconcile THEN churn ELSE churn + 1
          \/ o # "ok" /\ ClassifyMutationError(o) /\ UNCHANGED churn
       /\ Unrecorded(o)
  BY DEF CreateNamed
<1>2. body \in Bodies /\ NamedId \in Ids
  BY IdFacts DEF TypeOK
<1>3. /\ rows' \subseteq Rows /\ minted' = minted
      /\ rows' = rows \/ rows' = rows \cup {[id |-> NamedId, body |-> body]}
      /\ o \in Done => rows' = rows \cup {[id |-> NamedId, body |-> body]}
      /\ o \notin Done => rows' = rows
  BY <1>1, <1>2, CreateFacts
<1>4. Tick
  BY <1>1, TickFacts
<1>5. /\ past' = past \/ past' = past \cup {"unrecorded"}
      /\ o = "ok" => past' = past
      /\ o = "lost" => "unrecorded" \in past'
  BY <1>1 DEF Unrecorded
<1>6. CASE o = "ok"
  BY <1>1, <1>3, <1>4, <1>5, <1>6 DEF CreateNamed, Applied, Done
<1>7. CASE o # "ok"
  <2>1. o = "lost" \/ rows' = rows
    BY <1>3, <1>7 DEF Done
  <2> QED
    BY <1>1, <1>3, <1>4, <1>5, <1>7, <2>1, ClassifyFacts DEF CreateNamed, Unanswered, Failed
<1> QED
  BY <1>6, <1>7

LEMMA UpdateFoundForm ==
  ASSUME TypeOK, UpdateFound, body.grant \in [Groups -> Versions]
  PROVE  /\ pc = "update" /\ Tick
         /\ UNCHANGED <<name, seen, churn, cache, policy, groups, minted>>
         /\ past' = past \/ past' = past \cup {"unrecorded"}
         /\ \/ /\ Update(target, body, "ok") /\ ~Gone(target)
               /\ wk' = [wk EXCEPT !.id = target, !.hash = body] /\ pc' = "synced"
               /\ UNCHANGED <<obj, body, target, queued, conn, past>>
            \/ \E o : Update(target, body, o) /\ Unanswered
<1>0. body \in Bodies
  BY DEF TypeOK
<1>1. PICK o \in Done \cup Refusals :
       /\ Outcome(o)
       /\ Update(target, body, o)
       /\ \/ Answer(target, o) = "ok" /\ Applied(target)
          \/ Answer(target, o) # "ok" /\ ClassifyMutationError(Answer(target, o))
       /\ Unrecorded(o)
  BY DEF UpdateFound
<1>2. Tick /\ minted' = minted
  BY <1>0, <1>1, TickFacts, UpdateFacts
<1>3. past' = past \/ past' = past \cup {"unrecorded"}
  BY <1>1 DEF Unrecorded
<1>4. CASE Answer(target, o) = "ok"
  <2>1. o = "ok" /\ ~Gone(target)
    BY <1>4 DEF Answer, Gone, Done
  <2>2. past' = past
    BY <1>1, <2>1 DEF Unrecorded
  <2> QED
    BY <1>1, <1>2, <1>4, <2>1, <2>2 DEF UpdateFound, Applied
<1>5. CASE Answer(target, o) # "ok"
  BY <1>0, <1>1, <1>2, <1>3, <1>5, UnansweredFacts DEF UpdateFound
<1> QED
  BY <1>4, <1>5

LEMMA WriteSyncedForm ==
  ASSUME TypeOK, WriteSynced
  PROVE  /\ pc = "synced" /\ Tick
         /\ UNCHANGED <<name, seen, churn, cache, policy, groups, conn, rows, minted>>
         /\ \/ WriteStatus(wk, "Synced") /\ Ended({"Synced"}) /\ UNCHANGED past
            \/ /\ Ended({}) /\ UNCHANGED obj /\ (~Writable \/ queued')
               /\ past' = past \cup {"unrecorded"}
<1>1. UNCHANGED conn /\ (upsets' # upsets) \in BOOLEAN
  BY DEF WriteSynced
<1>2. CASE WriteStatus(wk, "Synced") /\ UNCHANGED <<past, upsets>>
  <2>1. Ended({"Synced"})
    BY <1>2, Zenon DEF Return, Ended, TypeOK, WriteSynced
  <2> QED
    BY <1>2, <2>1, TickFacts DEF WriteSynced, llmVars
<1>3. CASE StatusLost /\ past' = past \cup {"unrecorded"}
  <2>1. UNCHANGED obj
    BY <1>3 DEF StatusLost
  <2>2. Ended({}) /\ (upsets' # upsets => queued')
    BY <1>1, <2>1, ReturnFacts DEF WriteSynced
  <2>3. Tick /\ (~Writable \/ upsets' # upsets)
    BY <1>3, TickFacts DEF StatusLost, TypeOK
  <2> QED
    BY <1>3, <2>1, <2>2, <2>3 DEF WriteSynced, llmVars
<1> QED
  BY <1>2, <1>3 DEF WriteSynced

LEMMA ImplicitLookupForm ==
  ASSUME TypeOK, Paths, ImplicitLookup
  PROVE  /\ pc = "implicit" /\ Tick
         /\ UNCHANGED <<name, seen, obj, churn, cache, policy, groups, rows, minted, past>>
         /\ \/ /\ target' = Smallest
               /\ pc' = IF Smallest = 0 THEN "bootstrap" ELSE "refresh"
               /\ UNCHANGED <<wk, body, queued, conn>>
            \/ Ended({})
<1>1. wk.phase = "absent"
  BY DEF Paths, ImplicitPCs, ImplicitLookup
<1>2. CASE conn # "Synced"
  BY <1>2, TickFacts, ReturnFacts DEF ImplicitLookup, llmVars
<1>3. CASE conn = "Synced"
  <2>1. PICK o \in {"ok"} \cup Refusals :
              /\ Outcome(o)
              /\ \/ /\ o = "ok" /\ target' = Smallest
                    /\ pc' = IF Smallest = 0 THEN "bootstrap" ELSE "refresh"
                    /\ UNCHANGED <<obj, wk, body, queued, conn>>
                 \/ o # "ok" /\ ClassifyMutationError(o)
    BY <1>3 DEF ImplicitLookup
  <2>2. CASE o = "ok"
    BY <2>1, <2>2, TickFacts DEF ImplicitLookup, llmVars
  <2>3. CASE o # "ok"
    <3>1. Ended(Errors) /\ obj' = obj
      BY <1>1, <2>1, <2>3, ClassifyFacts
    <3>2. Ended({})
      BY <3>1, Zenon DEF Ended
    <3> QED
      BY <2>1, <3>1, <3>2, TickFacts DEF ImplicitLookup, llmVars
  <2> QED
    BY <2>2, <2>3
<1> QED
  BY <1>2, <1>3

\* A call of the synthetic reconcile: over, and no status.
LEMMA SyntheticEnd ==
  ASSUME TypeOK, wk.phase = "absent",
         \/ Return(FALSE) /\ UNCHANGED <<obj, conn>>
         \/ \E o : ClassifyMutationError(o)
  PROVE  Ended({}) /\ UNCHANGED obj
<1>1. ASSUME NEW o, ClassifyMutationError(o) PROVE Ended({}) /\ UNCHANGED obj
  <2>1. Ended(Errors) /\ obj' = obj
    BY <1>1, ClassifyFacts
  <2> QED
    BY <2>1, Zenon DEF Ended
<1> QED
  BY <1>1, ReturnFacts

LEMMA BootstrapForm ==
  ASSUME TypeOK, Paths, Bootstrap, minted < Len(ServerIds)
  PROVE  /\ pc = "bootstrap" /\ Tick /\ Ended({})
         /\ UNCHANGED <<name, seen, obj, churn, policy, groups, past>>
         /\ cache' = cache \/ cache' = [hash |-> ImplicitDefaultBody, id |-> NextServerId]
         /\ \/ UNCHANGED <<rows, minted>>
            \/ /\ rows' = rows \cup {[id |-> NextServerId, body |-> ImplicitDefaultBody]}
               /\ minted' = minted + 1
<1>1. wk.phase = "absent" /\ minted \in 0 .. Len(ServerIds)
  BY DEF Paths, ImplicitPCs, Bootstrap, TypeOK
<1>2. PICK o \in Done \cup Refusals :
       /\ Outcome(o)
       /\ Create(NextServerId, ImplicitDefaultBody, o)
       /\ \/ o = "ok" /\ Remember(NextServerId) /\ Return(FALSE) /\ UNCHANGED <<obj, conn>>
          \/ o # "ok" /\ ClassifyMutationError(o) /\ UNCHANGED cache
  BY DEF Bootstrap
<1>3. Ended({}) /\ UNCHANGED obj /\ Tick
  BY <1>1, <1>2, SyntheticEnd, TickFacts
<1>4. cache' = cache \/ cache' = [hash |-> ImplicitDefaultBody, id |-> NextServerId]
  BY <1>2 DEF Remember
<1>5. NextServerId # NamedId
  BY <1>1, NextIdFacts
<1>6. \/ UNCHANGED <<rows, minted>>
      \/ /\ rows' = rows \cup {[id |-> NextServerId, body |-> ImplicitDefaultBody]}
         /\ minted' = minted + 1
  BY <1>2, <1>5 DEF Create
<1> QED
  BY <1>3, <1>4, <1>6 DEF Bootstrap

LEMMA RefreshForm ==
  ASSUME TypeOK, Paths, Refresh
  PROVE  /\ pc = "refresh" /\ Tick /\ Ended({})
         /\ UNCHANGED <<name, seen, obj, churn, policy, groups, past, minted>>
         /\ cache' = cache \/ cache' = [hash |-> ImplicitDefaultBody, id |-> target]
         /\ rows' = rows \/ \E o : Update(target, ImplicitDefaultBody, o)
<1>1. wk.phase = "absent"
  BY DEF Paths, ImplicitPCs, Refresh
<1>2. CASE Remembered(target) /\ Return(FALSE) /\ UNCHANGED <<obj, conn, cache, llmVars, upsets>>
  BY <1>1, <1>2, SyntheticEnd, TickFacts DEF Refresh, llmVars
<1>3. CASE \E o \in Done \cup Refusals :
             /\ Outcome(o)
             /\ Update(target, ImplicitDefaultBody, o)
             /\ \/ /\ Answer(target, o) = "ok"
                   /\ Remember(target) /\ Return(FALSE) /\ UNCHANGED <<obj, conn>>
                \/ /\ Answer(target, o) # "ok"
                   /\ ClassifyMutationError(Answer(target, o)) /\ UNCHANGED cache
  <2>1. PICK o \in Done \cup Refusals :
             /\ Outcome(o)
             /\ Update(target, ImplicitDefaultBody, o)
             /\ \/ /\ Answer(target, o) = "ok"
                   /\ Remember(target) /\ Return(FALSE) /\ UNCHANGED <<obj, conn>>
                \/ /\ Answer(target, o) # "ok"
                   /\ ClassifyMutationError(Answer(target, o)) /\ UNCHANGED cache
    BY <1>3
  <2>2. Ended({}) /\ UNCHANGED obj /\ Tick
    BY <1>1, <2>1, SyntheticEnd, TickFacts
  <2>3. cache' = cache \/ cache' = [hash |-> ImplicitDefaultBody, id |-> target]
    BY <2>1 DEF Remember
  <2>4. minted' = minted
    BY <2>1 DEF Update
  <2> QED
    BY <2>1, <2>2, <2>3, <2>4 DEF Refresh
<1> QED
  BY <1>2, <1>3 DEF Refresh

LEMMA EffectiveFacts == TypeOK => Effective \in {"Delete", "Orphan"}
  BY Zenon DEF TypeOK, Effective, Resolve, Written, Policies, Parses

\* Going without LiteLLM's word: only under Orphan, only for good.
LEMMA DeleteUnavailableForm ==
  ASSUME TypeOK, DeleteUnavailable
  PROVE  /\ pc = "resolve" /\ conn # "Synced" /\ Tick
         /\ UNCHANGED <<name, seen, obj, churn, cache, policy, groups, conn, rows, minted>>
         /\ \/ Ended({}) /\ UNCHANGED past
            \/ /\ Effective = "Orphan" /\ conn = "Absent" /\ name # "default"
               /\ pc' = "drop" /\ UNCHANGED <<wk, body, target, queued>>
               /\ past' = past \cup {"leftOnCause"}
  BY TickFacts, ReturnFacts, EffectiveFacts
     DEF DeleteUnavailable, AckMissing, MayDrain, AckUnavailable, GoOn, llmVars

LEMMA ResolveTeamForm ==
  ASSUME TypeOK, ResolveTeam
  PROVE  /\ pc = "resolve" /\ conn = "Synced" /\ Tick
         /\ UNCHANGED <<name, seen, churn, cache, policy, groups, rows, minted, past>>
         /\ \/ /\ wk.id # 0 /\ target' = wk.id /\ pc' = NextCall
               /\ UNCHANGED <<obj, wk, body, queued, conn>>
            \/ /\ wk.id = 0 /\ target' = Smallest
               /\ pc' = IF Smallest = 0 THEN "drop" ELSE NextCall
               /\ UNCHANGED <<obj, wk, body, queued, conn>>
            \/ wk.id = 0 /\ Ended(Errors) /\ (queued' \/ conn' # "Synced")
<1>1. CASE wk.id # 0
  BY <1>1, TickFacts DEF ResolveTeam, llmVars
<1>2. CASE wk.id = 0
  <2>1. PICK o \in {"ok"} \cup Refusals :
             /\ Outcome(o)
             /\ \/ /\ o = "ok"
                   /\ target' = Smallest
                   /\ pc' = IF Smallest = 0 THEN "drop" ELSE NextCall
                   /\ UNCHANGED <<obj, wk, body, queued, conn, past>>
                \/ /\ o # "ok" /\ name = "default"
                   /\ ClassifyMutationError(o) /\ UNCHANGED past
                \/ /\ o = "401" /\ name # "default"
                   /\ AckMissing(FALSE) /\ UNCHANGED <<obj, conn>>
                \/ /\ o \in {"4xx", "down"} /\ name # "default"
                   /\ ClassifyMutationError(o) /\ UNCHANGED past
    BY <1>2 DEF ResolveTeam
  <2>2. Tick
    BY <2>1, TickFacts
  <2>3. CASE o = "ok"
    BY <1>2, <2>1, <2>2, <2>3 DEF ResolveTeam, llmVars
  <2>4. CASE ClassifyMutationError(o) /\ UNCHANGED past
    BY <1>2, <2>2, <2>4, ClassifyFacts DEF ResolveTeam, llmVars
  <2>5. CASE AckMissing(FALSE) /\ UNCHANGED <<obj, conn>>
    <3>1. Return(TRUE) /\ UNCHANGED past
      BY <2>5 DEF AckMissing, MayDrain
    <3>2. Ended({}) /\ queued'
      BY <2>5, <3>1, ReturnFacts
    <3>3. Ended(Errors)
      BY <2>5, <3>2, Zenon DEF Ended
    <3> QED
      BY <1>2, <2>2, <2>5, <3>1, <3>2, <3>3 DEF ResolveTeam, llmVars
  <2> QED
    BY <2>1, <2>3, <2>4, <2>5
<1> QED
  BY <1>1, <1>2

LEMMA ReapplyForm ==
  ASSUME TypeOK, Reapply
  PROVE  /\ pc = "reapply" /\ Tick
         /\ UNCHANGED <<name, seen, obj, churn, policy, groups, minted>>
         /\ \E o : Update(target, ImplicitDefaultBody, o)
         /\ past' = past \/ past' = past \cup {"notReset"}
         /\ cache' = cache \/ cache' = [hash |-> ImplicitDefaultBody, id |-> target]
         /\ conn' = conn \/ (conn = "Synced" /\ conn' = "BadMasterKey")
         /\ \/ pc' = "drop" /\ UNCHANGED <<wk, body, target, queued>>
            \/ Ended({}) /\ queued'
<1>1. PICK o \in Done \cup Refusals :
       /\ Outcome(o)
       /\ Update(target, ImplicitDefaultBody, o)
       /\ \/ Answer(target, o) = "ok" /\ Remember(target) /\ GoOn("drop") /\ UNCHANGED <<conn, past>>
          \/ /\ Answer(target, o) = "401" /\ InvalidateOn401
             /\ GoOn("drop") /\ past' = past \cup {"notReset"} /\ UNCHANGED cache
          \/ /\ Answer(target, o) = "4xx"
             /\ GoOn("drop") /\ past' = past \cup {"notReset"} /\ UNCHANGED <<conn, cache>>
          \/ /\ Answer(target, o) \in {"down", "lost"}
             /\ Return(TRUE) /\ UNCHANGED <<conn, past, cache>>
  BY DEF Reapply
<1>2. Tick /\ minted' = minted
  BY <1>1, TickFacts DEF Update
<1>3. CASE GoOn("drop")
  BY <1>1, <1>2, <1>3 DEF Reapply, GoOn, Remember, InvalidateOn401, Return
<1>4. CASE Return(TRUE) /\ UNCHANGED <<conn, past, cache>>
  BY <1>1, <1>2, <1>4, ReturnFacts DEF Reapply
<1> QED
  BY <1>1, <1>3, <1>4

LEMMA DeleteTeamForm ==
  ASSUME TypeOK, DeleteTeam
  PROVE  /\ pc = "delete" /\ Tick
         /\ UNCHANGED <<name, seen, churn, cache, policy, groups, minted, past>>
         /\ rows' = rows \/ rows' = rows \ RowOf(target)
         /\ \/ /\ rows' = rows \ RowOf(target)
               /\ pc' = "drop" /\ UNCHANGED <<obj, wk, body, target, queued, conn>>
            \/ Ended(Errors) /\ (queued' \/ conn' # "Synced")
<1>1. PICK o \in Done \cup Refusals :
       /\ Outcome(o)
       /\ Delete(target, o)
       /\ \/ o = "ok" /\ GoOn("drop") /\ UNCHANGED <<obj, conn, past>>
          \/ o = "401" /\ AckMissing(FALSE) /\ UNCHANGED <<obj, conn>>
          \/ o \in {"4xx", "down", "lost"} /\ ClassifyMutationError(o) /\ UNCHANGED past
  BY DEF DeleteTeam
<1>2. Tick /\ (rows' = rows \/ rows' = rows \ RowOf(target))
  BY <1>1, TickFacts DEF Delete
<1>3. CASE o = "ok"
  BY <1>1, <1>2, <1>3 DEF DeleteTeam, Delete, GoOn, Done
<1>4. CASE o = "401"
  <2>1. Return(TRUE) /\ UNCHANGED past /\ UNCHANGED <<obj, conn>>
    BY <1>1, <1>4 DEF AckMissing, MayDrain
  <2>2. Ended({}) /\ queued'
    BY <2>1, ReturnFacts
  <2>3. Ended(Errors)
    BY <2>1, <2>2, Zenon DEF Ended
  <2> QED
    BY <1>2, <2>1, <2>2, <2>3 DEF DeleteTeam
<1>5. CASE o \in {"4xx", "down", "lost"}
  BY <1>1, <1>2, <1>5, ClassifyFacts DEF DeleteTeam
<1> QED
  BY <1>1, <1>3, <1>4, <1>5

LEMMA DropFinalizerForm ==
  ASSUME TypeOK, DropFinalizer
  PROVE  /\ pc = "drop" /\ Tick
         /\ UNCHANGED <<name, seen, churn, cache, policy, groups, conn, rows, minted>>
         /\ \/ /\ obj = wk /\ obj' = [obj EXCEPT !.phase = "absent", !.fin = FALSE]
               /\ pc' = "idle" /\ wk' = Absent /\ body' = NoBody /\ target' = 0
               /\ UNCHANGED <<queued, past>>
            \/ Ended({}) /\ UNCHANGED obj /\ past' = Kept(past)
<1>1. CASE Unmoved /\ obj' = [obj EXCEPT !.phase = "absent", !.fin = FALSE]
           /\ Return(FALSE) /\ UNCHANGED <<past, upsets>>
  BY <1>1, TickFacts DEF DropFinalizer, llmVars, Return, Unmoved, TypeOK
<1>2. CASE /\ \/ ~Unmoved /\ UNCHANGED upsets
              \/ Upset
           /\ Return(upsets' # upsets)
           /\ past' = Kept(past) /\ UNCHANGED obj
  <2>1. (upsets' # upsets) \in BOOLEAN /\ UNCHANGED conn
    BY DEF DropFinalizer
  <2>2. Ended({})
    BY <1>2, <2>1, ReturnFacts
  <2> QED
    BY <1>2, <2>2, TickFacts DEF DropFinalizer, llmVars
<1> QED
  BY <1>1, <1>2 DEF DropFinalizer

-----------------------------------------------------------------------------
(* Types and counts.                                                       *)

\* However a reconcile ends, the spec is as it was and the record is the old
\* one or the worker's.
LEMMA EndedFacts ==
  ASSUME TypeOK, NEW R \in SUBSET Reasons, Ended(R)
  PROVE  /\ obj' \in Objs /\ wk' \in Objs /\ pc' = "idle" /\ body' \in Bodies /\ target' = 0
         /\ queued' \in BOOLEAN /\ conn' \in {"Synced", "Unreachable", "BadMasterKey", "Absent"}
         /\ wk' = Absent
         /\ obj'.phase = obj.phase /\ obj'.fin = obj.fin /\ obj'.gen = obj.gen
         /\ obj'.v = obj.v /\ obj'.attach = obj.attach
         /\ \/ obj' = obj
            \/ /\ seen = obj /\ obj.phase # "absent"
               /\ obj'.id = IF wk.id = 0 THEN obj.id ELSE wk.id
               /\ obj'.hash = wk.hash /\ obj'.obs = wk.gen /\ obj'.reason \in R
<1>1. obj \in Objs /\ conn \in {"Synced", "Unreachable", "BadMasterKey", "Absent"}
  BY DEF TypeOK
<1>2. CASE obj' = obj
  BY <1>1, <1>2, AbsentFacts, BodyFacts DEF Ended
<1>3. CASE \E r \in R : WriteStatus(wk, r)
  <2>1. PICK r \in R : WriteStatus(wk, r)
    BY <1>3
  <2>2. r \in Reasons
    OBVIOUS
  <2> QED
    BY <1>1, <2>1, <2>2, WriteFacts, AbsentFacts, BodyFacts DEF Ended
<1> QED
  BY <1>2, <1>3 DEF Ended

LEMMA ReasonSets ==
  /\ {} \in SUBSET Reasons /\ Errors \in SUBSET Reasons /\ {"Synced"} \in SUBSET Reasons
  /\ {"LiteLLMUnavailable"} \in SUBSET Reasons /\ {"AccessGroupNotFound"} \in SUBSET Reasons
  /\ {"RecreateThrottled"} \in SUBSET Reasons
  BY DEF Reasons, Errors

\* What a rendered body looks like.
LEMMA GrantFacts ==
  ASSUME TypeOK, NEW a \in SUBSET Groups
  PROVE  /\ ClosedTeamGrant(a) \in [Groups -> Versions]
         /\ ClosedTeamGrant(a) = ClosedTeamGrant(a \cap Registered)
         /\ \A g \in a : ClosedTeamGrant(a)[g] = groups[g]
         /\ \A g \in Groups \ a : ClosedTeamGrant(a)[g] = 0
<1>1. groups \in [Groups -> Versions] /\ 0 \in Versions
  BY Bounds DEF TypeOK, Versions
<1> QED
  BY <1>1 DEF ClosedTeamGrant, Registered

LEMMA ClearFacts ==
  ASSUME NEW c \in Objs
  PROVE  [c EXCEPT !.id = 0] \in Objs
  BY ZenonT(60) DEF Objs

LEMMA CopyFacts ==
  ASSUME NEW c \in Objs, NEW i \in Ids \cup {0}, NEW b \in Bodies
  PROVE  /\ [c EXCEPT !.hash = b] \in Objs
         /\ [c EXCEPT !.id = i, !.hash = b] \in Objs
         /\ [c EXCEPT !.fin = TRUE] \in Objs
         /\ [c EXCEPT !.phase = "absent", !.fin = FALSE] \in Objs
  BY ZenonT(60) DEF Objs

\* Every step keeps the types; assigned ids do not run out.
LEMMA StepType == SafeInv /\ Rendering /\ [Next]_vars => TypeOK'
<1> SUFFICES ASSUME SafeInv, Rendering, [Next]_vars PROVE TypeOK'
  OBVIOUS
<1>0. /\ TypeOK /\ Paths /\ Counted
      /\ pc \in LivePCs \ {"groups"} => body.grant \in [Groups -> Versions]
  BY DEF SafeInv, Rendering
<1>1. ASSUME NEW R \in SUBSET Reasons, Ended(R), Tick,
             UNCHANGED <<name, seen, policy, groups>>,
             rows' \subseteq Rows, minted' \in 0 .. Len(ServerIds), past' \subseteq Pasts,
             churn' \in 0 .. RecreateLimit, cache' \in [hash : Bodies, id : Ids \cup {0}]
      PROVE  TypeOK'
  BY <1>0, <1>1, EndedFacts DEF TypeOK, PCs, Tick
<1>2. ASSUME NEW R \in SUBSET Reasons, Ended(R), Tick,
             UNCHANGED <<name, seen, policy, groups, rows, minted, past, churn, cache>>
      PROVE  TypeOK'
  BY <1>0, <1>1, <1>2 DEF TypeOK
<1>3. CASE Fetch
  <2>1. seen.phase \in {"absent", "live", "deleting"}
    BY <1>0 DEF TypeOK, Objs
  <2>2. pc' \in PCs
    BY <1>3, <2>1 DEF Fetch, PCs
  <2>3. past' \subseteq Pasts
    BY <1>0, <1>3 DEF Fetch, TypeOK, Pasts
  <2> QED
    BY <1>0, <1>3, <2>2, <2>3 DEF Fetch, TypeOK, llmVars
<1>4. CASE AddFinalizer
  <2>1. CASE obj = wk /\ obj' = [obj EXCEPT !.fin = TRUE]
             /\ pc' = "idle" /\ wk' = Absent /\ body' = NoBody /\ target' = 0 /\ UNCHANGED <<queued, upsets>>
    <3>1. obj' \in Objs
      BY <1>0, <2>1, CopyFacts DEF TypeOK, Objs
    <3> QED
      BY <1>0, <1>4, <2>1, <3>1, AddFinalizerForm, AbsentFacts, BodyFacts DEF TypeOK, PCs
  <2>2. CASE Ended({})
    BY <1>0, <1>2, <1>4, <2>2, AddFinalizerForm, ReasonSets
  <2> QED
    BY <1>0, <1>4, <2>1, <2>2, AddFinalizerForm
<1>5. CASE Gate
  BY <1>0, <1>2, <1>5, GateForm, ReasonSets
<1>6. CASE Render
  <2>1. CASE Failed
    BY <1>0, <1>2, <1>6, <2>1, RenderForm, ReasonSets DEF Failed
  <2>2. CASE /\ body' = [v |-> wk.v, grant |-> ClosedTeamGrant(wk.attach \cap Registered)]
             /\ pc' = IF wk.attach \subseteq Registered THEN "probe" ELSE "narrow"
             /\ UNCHANGED <<obj, wk, target, queued, conn>>
    <3>1. wk.attach \in SUBSET Groups /\ wk.v \in Versions
      BY <1>0 DEF TypeOK, Objs
    <3>2. ClosedTeamGrant(wk.attach \cap Registered) \in [Groups -> Versions]
      BY <1>0, <3>1, GrantFacts
    <3>3. wk.v \in -1 .. MaxUpsets + 1
      BY <3>1, Bounds DEF Versions
    <3>4. body' \in Bodies
      BY <2>2, <3>2, <3>3 DEF Bodies
    <3> QED
      BY <1>0, <1>6, <2>2, <3>4, RenderForm DEF TypeOK, PCs, Tick
  <2> QED
    BY <1>0, <1>6, <2>1, <2>2, RenderForm
<1>7. CASE Narrow
  <2>1. body \in Bodies /\ body.grant \in [Groups -> Versions] /\ wk \in Objs
    BY <1>0, <1>7 DEF Narrow, LivePCs, TypeOK
  <2>2. past' \subseteq Pasts
    BY <1>0, <1>7, <2>1, NarrowForm DEF TypeOK, Pasts
  <2>3. CASE /\ pc' = "park" /\ UNCHANGED <<obj, wk, body, target, queued, conn, rows, past, upsets>>
    BY <1>0, <1>7, <2>1, <2>3, NarrowForm DEF TypeOK, PCs
  <2>4. CASE /\ Update(wk.id, body, "ok")
             /\ wk' = [wk EXCEPT !.hash = body] /\ pc' = "park"
             /\ UNCHANGED <<obj, body, target, queued, conn, past>>
    <3>1. rows' \subseteq Rows /\ wk' \in Objs
      BY <1>0, <2>1, <2>4, UpdateFacts, CopyFacts
    <3> QED
      BY <1>0, <1>7, <2>1, <2>4, <3>1, NarrowForm DEF TypeOK, PCs, Tick
  <2>5. CASE \E o : Update(wk.id, body, o) /\ Unanswered
    <3>1. rows' \subseteq Rows
      BY <1>0, <2>1, <2>5, UpdateFacts
    <3> QED
      BY <1>0, <1>1, <1>7, <2>1, <2>2, <2>5, <3>1, NarrowForm, ReasonSets DEF Unanswered, Failed, TypeOK
  <2> QED
    BY <1>0, <1>7, <2>1, <2>3, <2>4, <2>5, NarrowForm
<1>8. CASE Park
  <2>1. past' \subseteq Pasts
    BY <1>0, <1>8, ParkForm DEF TypeOK, Pasts
  <2> QED
    BY <1>0, <1>1, <1>8, <2>1, ParkForm, ReasonSets DEF TypeOK
<1>9. CASE Probe
  <2>1. CASE Ended({})
    BY <1>0, <1>2, <1>9, <2>1, ProbeForm, ReasonSets
  <2>2. CASE /\ pc' = "decide" /\ UNCHANGED <<body, target, queued>>
             /\ wk' = wk \/ wk' = [wk EXCEPT !.id = 0]
             /\ conn' = conn \/ (conn = "Synced" /\ conn' = "BadMasterKey")
    <3>1. wk' \in Objs
      BY <1>0, <2>2, ClearFacts DEF TypeOK
    <3> QED
      BY <1>0, <1>9, <2>2, <3>1, ProbeForm DEF TypeOK, PCs, Tick
  <2> QED
    BY <1>0, <1>9, <2>1, <2>2, ProbeForm
<1>10. CASE Steady
  <2>1. churn' \in 0 .. RecreateLimit
    BY <1>0, <1>10, SteadyForm, Bounds DEF TypeOK
  <2> QED
    BY <1>0, <1>1, <1>10, <2>1, SteadyForm, ReasonSets DEF TypeOK
<1>11. CASE Lookup
  <2>1. CASE Ended({"RecreateThrottled"}) \/ Failed
    BY <1>0, <1>2, <1>11, <2>1, LookupForm, ReasonSets DEF Failed
  <2>2. CASE /\ target' = Smallest
             /\ pc' = IF Smallest = 0 THEN "create" ELSE "update"
             /\ UNCHANGED <<obj, wk, body, queued, conn>>
    <3>1. target' \in Ids \cup {0}
      BY <1>0, <2>2, SmallestFacts DEF TypeOK
    <3> QED
      BY <1>0, <1>11, <2>2, <3>1, LookupForm DEF TypeOK, PCs, Tick
  <2> QED
    BY <1>0, <1>11, <2>1, <2>2, LookupForm
<1>12. CASE CreateNamed
  <2>1. past' \subseteq Pasts
    BY <1>0, <1>12, CreateNamedForm DEF TypeOK, Pasts
  <2>2. CASE Unanswered /\ UNCHANGED churn
    BY <1>0, <1>1, <1>12, <2>1, <2>2, CreateNamedForm, ReasonSets DEF Unanswered, Failed, TypeOK
  <2>3. CASE /\ wk' = [wk EXCEPT !.id = NamedId, !.hash = body] /\ pc' = "synced"
             /\ churn' = IF FirstReconcile THEN churn ELSE churn + 1
             /\ UNCHANGED <<obj, body, target, queued, conn, past>>
    <3>1. wk' \in Objs
      BY <1>0, <2>3, CopyFacts, IdFacts DEF TypeOK
    <3>2. churn' \in 0 .. RecreateLimit
      BY <1>0, <1>12, <2>3, CreateNamedForm, Bounds DEF TypeOK, Counted
    <3> QED
      BY <1>0, <1>12, <2>3, <3>1, <3>2, CreateNamedForm DEF TypeOK, PCs, Tick
  <2> QED
    BY <1>0, <1>12, <2>2, <2>3, CreateNamedForm
<1>13. CASE UpdateFound
  <2>1. body \in Bodies /\ body.grant \in [Groups -> Versions] /\ wk \in Objs /\ target \in Ids \cup {0}
    BY <1>0, <1>13 DEF UpdateFound, LivePCs, TypeOK
  <2>2. past' \subseteq Pasts
    BY <1>0, <1>13, <2>1, UpdateFoundForm DEF TypeOK, Pasts
  <2>3. CASE /\ Update(target, body, "ok")
             /\ wk' = [wk EXCEPT !.id = target, !.hash = body] /\ pc' = "synced"
             /\ UNCHANGED <<obj, body, target, queued, conn, past>>
    <3>1. rows' \subseteq Rows /\ wk' \in Objs
      BY <1>0, <2>1, <2>3, UpdateFacts, CopyFacts
    <3> QED
      BY <1>0, <1>13, <2>1, <2>3, <3>1, UpdateFoundForm DEF TypeOK, PCs, Tick
  <2>4. CASE \E o : Update(target, body, o) /\ Unanswered
    <3>1. rows' \subseteq Rows
      BY <1>0, <2>1, <2>4, UpdateFacts
    <3> QED
      BY <1>0, <1>1, <1>13, <2>1, <2>2, <2>4, <3>1, UpdateFoundForm, ReasonSets DEF Unanswered, Failed, TypeOK
  <2> QED
    BY <1>0, <1>13, <2>1, <2>3, <2>4, UpdateFoundForm
<1>14. CASE WriteSynced
  <2>1. past' \subseteq Pasts
    BY <1>0, <1>14, WriteSyncedForm DEF TypeOK, Pasts
  <2> QED
    BY <1>0, <1>1, <1>14, <2>1, WriteSyncedForm, ReasonSets DEF TypeOK
<1>15. CASE ImplicitLookup
  <2>1. CASE Ended({})
    BY <1>0, <1>2, <1>15, <2>1, ImplicitLookupForm, ReasonSets
  <2>2. CASE /\ target' = Smallest
             /\ pc' = IF Smallest = 0 THEN "bootstrap" ELSE "refresh"
             /\ UNCHANGED <<wk, body, queued, conn>>
    <3>1. target' \in Ids \cup {0}
      BY <1>0, <2>2, SmallestFacts DEF TypeOK
    <3> QED
      BY <1>0, <1>15, <2>2, <3>1, ImplicitLookupForm DEF TypeOK, PCs, Tick
  <2> QED
    BY <1>0, <1>15, <2>1, <2>2, ImplicitLookupForm
<1>16. CASE Bootstrap
  <2>1. minted < Len(ServerIds) /\ minted \in 0 .. Len(ServerIds)
    BY <1>0, <1>16, TeamAssumption DEF Bootstrap, Counted, TypeOK
  <2>2. NextServerId \in Ids
    BY <2>1, NextIdFacts
  <2>3. rows' \subseteq Rows /\ minted' \in 0 .. Len(ServerIds)
        /\ cache' \in [hash : Bodies, id : Ids \cup {0}]
    BY <1>0, <1>16, <2>1, <2>2, BootstrapForm, BodyFacts, Bounds DEF TypeOK, Rows
  <2> QED
    BY <1>0, <1>1, <1>16, <2>1, <2>3, BootstrapForm, ReasonSets DEF TypeOK
<1>17. CASE Refresh
  <2>1. rows' \subseteq Rows
    <3>1. CASE \E o : Update(target, ImplicitDefaultBody, o)
      BY <1>0, <3>1, UpdateFacts, BodyFacts
    <3> QED
      BY <1>0, <1>17, <3>1, RefreshForm DEF TypeOK
  <2>2. cache' \in [hash : Bodies, id : Ids \cup {0}]
    BY <1>0, <1>17, RefreshForm, BodyFacts DEF TypeOK
  <2> QED
    BY <1>0, <1>1, <1>17, <2>1, <2>2, RefreshForm, ReasonSets DEF TypeOK
<1>18. CASE DeleteUnavailable
  <2>1. CASE Ended({}) /\ UNCHANGED past
    BY <1>0, <1>2, <1>18, <2>1, DeleteUnavailableForm, ReasonSets
  <2>2. CASE pc' = "drop" /\ UNCHANGED <<wk, body, target, queued>> /\ past' = past \cup {"leftOnCause"}
    BY <1>0, <1>18, <2>2, DeleteUnavailableForm DEF TypeOK, PCs, Tick, Pasts
  <2> QED
    BY <1>0, <1>18, <2>1, <2>2, DeleteUnavailableForm
<1>19. CASE ResolveTeam
  <2>1. CASE Ended(Errors)
    BY <1>0, <1>2, <1>19, <2>1, ResolveTeamForm, ReasonSets
  <2>2. CASE ~Ended(Errors)
    <3>1. target' \in Ids \cup {0}
      BY <1>0, <1>19, <2>2, ResolveTeamForm, SmallestFacts DEF TypeOK, Objs
    <3> QED
      BY <1>0, <1>19, <2>2, <3>1, ResolveTeamForm DEF TypeOK, PCs, Tick, NextCall
  <2> QED
    BY <2>1, <2>2
<1>20. CASE Reapply
  <2>0. PICK o : Update(target, ImplicitDefaultBody, o)
    BY <1>0, <1>20, ReapplyForm
  <2>1. /\ rows' \subseteq Rows /\ cache' \in [hash : Bodies, id : Ids \cup {0}]
        /\ past' \subseteq Pasts
    <3>1. rows' \subseteq Rows
      BY <1>0, <2>0, UpdateFacts, BodyFacts
    <3>2. cache' \in [hash : Bodies, id : Ids \cup {0}]
      BY <1>0, <1>20, ReapplyForm, BodyFacts DEF TypeOK
    <3>3. past' \subseteq Pasts
      BY <1>0, <1>20, ReapplyForm DEF TypeOK, Pasts
    <3> QED
      BY <3>1, <3>2, <3>3
  <2>2. CASE Ended({})
    BY <1>0, <1>1, <1>20, <2>1, <2>2, ReapplyForm, ReasonSets DEF TypeOK
  <2>3. CASE pc' = "drop" /\ UNCHANGED <<wk, body, target, queued>>
    BY <1>0, <1>20, <2>1, <2>3, ReapplyForm DEF TypeOK, PCs, Tick
  <2> QED
    BY <1>0, <1>20, <2>2, <2>3, ReapplyForm
<1>21. CASE DeleteTeam
  <2>1. rows' \subseteq Rows
    BY <1>0, <1>21, DeleteTeamForm DEF TypeOK
  <2>2. CASE Ended(Errors)
    BY <1>0, <1>1, <1>21, <2>1, <2>2, DeleteTeamForm, ReasonSets DEF TypeOK
  <2>3. CASE pc' = "drop" /\ UNCHANGED <<obj, wk, body, target, queued, conn>>
    BY <1>0, <1>21, <2>1, <2>3, DeleteTeamForm DEF TypeOK, PCs, Tick
  <2> QED
    BY <1>0, <1>21, <2>2, <2>3, DeleteTeamForm
<1>22. CASE DropFinalizer
  <2>1. CASE Ended({}) /\ past' = Kept(past)
    <3>1. past' \subseteq Pasts
      BY <1>0, <2>1 DEF Kept, TypeOK
    <3> QED
      BY <1>0, <1>1, <1>22, <2>1, <3>1, DropFinalizerForm, ReasonSets DEF TypeOK
  <2>2. CASE obj = wk /\ obj' = [obj EXCEPT !.phase = "absent", !.fin = FALSE]
             /\ pc' = "idle" /\ wk' = Absent /\ body' = NoBody /\ target' = 0 /\ UNCHANGED <<queued, past>>
    <3>1. obj' \in Objs
      BY <1>0, <2>2, CopyFacts DEF TypeOK, Objs
    <3> QED
      BY <1>0, <1>22, <2>2, <3>1, DropFinalizerForm, AbsentFacts, BodyFacts DEF TypeOK, PCs, Tick
  <2> QED
    BY <1>0, <1>22, <2>1, <2>2, DropFinalizerForm
<1>23. CASE Sync
  BY <1>0, <1>23 DEF Sync, TypeOK, wkVars, llmVars
<1>24. CASE Relist
  BY <1>0, <1>24 DEF Relist, TypeOK, wkVars, llmVars
<1>25. CASE ApplyObj
  BY <1>0, <1>25, NewFacts, TickFacts DEF ApplyObj, TypeOK, wkVars, llmVars, Tick
<1>26. CASE EditSpec
  <2>1. Tick /\ upsets < MaxUpsets
    BY <1>0, <1>26, TickFacts DEF EditSpec
  <2>2. PICK a \in SUBSET Groups, n \in {upsets + 2} \cup (IF Reverts THEN {obj.v} ELSE {}) :
             obj' = [obj EXCEPT !.attach = a, !.v = n, !.gen = @ + 1]
    BY <1>26 DEF EditSpec
  <2>3. n \in Versions /\ obj.gen + 1 \in Versions
    <3>1. obj.v \in Versions /\ obj.gen \in Versions
      BY <1>0 DEF TypeOK, Objs
    <3>2. obj.gen + 1 \in Versions /\ upsets + 2 \in Versions
      BY <1>0, <2>1, <3>1, Bounds DEF TypeOK, Versions, Counted
    <3>3. n = upsets + 2 \/ n = obj.v
      BY TeamAssumption
    <3> QED
      BY <3>1, <3>2, <3>3
  <2>4. obj' = [obj EXCEPT !.attach = a, !.v = n, !.gen = obj.gen + 1]
    BY <2>2
  <2>5. obj' \in Objs
    BY <1>0, <2>3, <2>4, ZenonT(60) DEF TypeOK, Objs
  <2> QED
    BY <1>0, <1>26, <2>1, <2>5 DEF EditSpec, TypeOK, wkVars, llmVars, Tick
<1>27. CASE DeleteObj
  <2>1. obj' \in Objs
    BY <1>0, <1>27, ZenonT(60) DEF DeleteObj, TypeOK, Objs
  <2> QED
    BY <1>0, <1>27, <2>1, TickFacts DEF DeleteObj, TypeOK, wkVars, llmVars, Tick
<1>28. CASE ChangeGroup
  <2>1. Tick /\ upsets < MaxUpsets
    BY <1>0, <1>28, TickFacts DEF ChangeGroup
  <2>2. groups' \in [Groups -> Versions]
    BY <1>0, <1>28, <2>1, Bounds DEF ChangeGroup, TypeOK, Versions
  <2>3. queued' \in BOOLEAN
    BY <1>0, <1>28, Zenon DEF ChangeGroup, TypeOK
  <2> QED
    BY <1>0, <1>28, <2>1, <2>2, <2>3 DEF ChangeGroup, TypeOK, wkVars, llmVars, Tick
<1>29. CASE OutOfBandDelete
  BY <1>0, <1>29, TickFacts DEF OutOfBandDelete, TypeOK, wkVars, Tick
<1>30. CASE OutOfBandCreate
  <2>1. Tick /\ upsets < MaxUpsets
    BY <1>0, <1>30, TickFacts DEF OutOfBandCreate
  <2>2. minted < Len(ServerIds) /\ minted \in 0 .. Len(ServerIds)
    BY <1>0, <2>1, TeamAssumption DEF Counted, TypeOK
  <2>3. NextServerId \in Ids
    BY <2>2, NextIdFacts
  <2>4. rows' \subseteq Rows /\ minted' \in 0 .. Len(ServerIds) /\ past' \subseteq Pasts
    BY <1>0, <1>30, <2>2, <2>3, BodyFacts, Bounds DEF OutOfBandCreate, TypeOK, Rows, Pasts
  <2> QED
    BY <1>0, <1>30, <2>1, <2>4 DEF OutOfBandCreate, TypeOK, wkVars, Tick
<1>31. CASE ConnDown
  BY <1>0, <1>31, TickFacts DEF ConnDown, TypeOK, wkVars, llmVars, Tick
<1>32. CASE ConnUp
  <2>1. queued' \in BOOLEAN
    BY <1>0, <1>32, Zenon DEF ConnUp, TypeOK
  <2> QED
    BY <1>0, <1>32, <2>1 DEF ConnUp, TypeOK, wkVars, llmVars
<1>33. CASE Expire
  BY <1>0, <1>33, Bounds DEF Expire, TypeOK, wkVars, llmVars
<1>34. CASE Crash
  <2>1. past' \subseteq Pasts
    BY <1>0, <1>34 DEF Crash, Kept, TypeOK, Pasts
  <2>2. cache' \in [hash : Bodies, id : Ids \cup {0}]
    BY <1>34, BodyFacts DEF Crash, NoCache
  <2>3. upsets' \in 0 .. MaxUpsets /\ churn' \in 0 .. RecreateLimit /\ queued' \in BOOLEAN
    BY <1>0, <1>34, TickFacts, Bounds DEF Crash, Tick
  <2>4. /\ obj' \in Objs /\ seen' \in Objs /\ wk' \in Objs /\ pc' \in PCs
        /\ body' \in Bodies /\ target' \in Ids \cup {0}
    BY <1>0, <1>34, AbsentFacts, BodyFacts DEF Crash, TypeOK, PCs
  <2> QED
    BY <1>0, <1>34, <2>1, <2>2, <2>3, <2>4 DEF Crash, TypeOK, llmVars
<1>35. CASE UNCHANGED vars
  BY <1>0, <1>35 DEF vars, TypeOK, wkVars, llmVars
<1> QED
  BY <1>3, <1>4, <1>5, <1>6, <1>7, <1>8, <1>9, <1>10, <1>11, <1>12, <1>13, <1>14, <1>15, <1>16,
     <1>17, <1>18, <1>19, <1>20, <1>21, <1>22, <1>23, <1>24, <1>25, <1>26, <1>27, <1>28, <1>29,
     <1>30, <1>31, <1>32, <1>33, <1>34, <1>35 DEF Next, Reconcile, Outside

-----------------------------------------------------------------------------
(* What a step does to the worker, to the resource, to the informer's copy   *)
(* and to LiteLLM's rows.                                                    *)

Over == pc' = "idle" /\ wk' = Absent /\ body' = NoBody /\ target' = 0

RenderedNow ==
  /\ pc = "groups" /\ wk.fin
  /\ body' = [v |-> wk.v, grant |-> ClosedTeamGrant(wk.attach \cap Registered)]
  /\ pc' = IF wk.attach \subseteq Registered THEN "probe" ELSE "narrow"
  /\ UNCHANGED <<wk, target>>
NarrowedNow ==
  /\ pc = "narrow" /\ pc' = "park" /\ UNCHANGED <<body, target>>
  /\ \/ wk' = wk /\ (wk.id = 0 \/ wk.hash = body)
     \/ wk' = [wk EXCEPT !.hash = body] /\ wk.id # 0
ProbedNow ==
  /\ pc = "probe" /\ pc' = "decide" /\ UNCHANGED <<body, target>>
  /\ wk' = wk \/ wk' = [wk EXCEPT !.id = 0]
LookedUp ==
  /\ pc = "decide" /\ target' = Smallest
  /\ pc' = IF Smallest = 0 THEN "create" ELSE "update"
  /\ Smallest # 0 \/ FirstReconcile \/ churn < RecreateLimit
  /\ UNCHANGED <<wk, body, churn>>
AppliedNow ==
  /\ pc' = "synced" /\ UNCHANGED <<body, target>>
  /\ \/ pc = "create" /\ wk' = [wk EXCEPT !.id = NamedId, !.hash = body]
     \/ pc = "update" /\ ~Gone(target) /\ wk' = [wk EXCEPT !.id = target, !.hash = body]
ImplicitNow ==
  /\ pc = "implicit" /\ target' = Smallest
  /\ pc' = IF Smallest = 0 THEN "bootstrap" ELSE "refresh"
  /\ UNCHANGED <<wk, body>>
ResolvedNow ==
  /\ pc = "resolve" /\ UNCHANGED <<wk, body>>
  /\ \/ conn = "Synced" /\ pc' = NextCall /\ wk.id # 0 /\ target' = wk.id
     \/ conn = "Synced" /\ pc' = NextCall /\ wk.id = 0 /\ target' = Smallest
     \/ conn = "Synced" /\ pc' = "drop" /\ Smallest = 0 /\ target' = Smallest
     \/ pc' = "drop" /\ target' = target /\ name # "default"
          /\ Effective = "Orphan" /\ conn = "Absent" /\ "leftOnCause" \in past'
DeletedNow ==
  /\ pc' = "drop" /\ UNCHANGED <<wk, body, target>>
  /\ pc = "reapply" \/ (pc = "delete" /\ rows' = rows \ RowOf(target))

WalkStep ==
  \/ UNCHANGED <<pc, wk, body, target>>
  \/ Over \/ Fetch
  \/ RenderedNow \/ NarrowedNow \/ ProbedNow \/ LookedUp \/ AppliedNow
  \/ ImplicitNow \/ ResolvedNow \/ DeletedNow

\* A status write: by whom, and what it says.
Wrote ==
  /\ Over /\ UNCHANGED seen /\ seen = obj /\ obj.phase # "absent"
  /\ obj'.phase = obj.phase /\ obj'.fin = obj.fin /\ obj'.gen = obj.gen
  /\ obj'.v = obj.v /\ obj'.attach = obj.attach
  /\ obj'.id = IF wk.id = 0 THEN obj.id ELSE wk.id
  /\ obj'.hash = wk.hash /\ obj'.obs = wk.gen
  /\ \/ pc \in LivePCs /\ wk.fin
     \/ pc = "delete" \/ (pc = "resolve" /\ wk.id = 0)
  /\ obj'.reason = "Synced" => pc = "synced" \/ (pc = "decide" /\ InSteadyState)
  /\ obj'.reason = "AccessGroupNotFound" => pc = "park"
  /\ pc = "synced" => obj'.reason = "Synced" /\ past' = past
  /\ pc \in {"narrow", "create", "update"} => rows' = rows \/ "unrecorded" \in past'

AddedFin ==
  /\ pc = "groups" /\ ~wk.fin /\ obj = wk /\ Over /\ UNCHANGED <<seen, rows>>
  /\ obj' = [obj EXCEPT !.fin = TRUE]
Dropped ==
  /\ pc = "drop" /\ obj = wk /\ Over /\ UNCHANGED <<seen, rows, past, conn>>
  /\ obj' = [obj EXCEPT !.phase = "absent", !.fin = FALSE]

ObjStep == obj' = obj \/ Wrote \/ AddedFin \/ Dropped \/ ApplyObj \/ EditSpec \/ DeleteObj

SeenStep == seen' = seen \/ Sync \/ Crash

Sent(i, b) ==
  \/ pc = "narrow" /\ i = wk.id /\ b = body
  \/ pc = "update" /\ i = target /\ b = body
  \/ pc \in {"refresh", "reapply"} /\ b = ImplicitDefaultBody
RowStep ==
  \/ UNCHANGED <<rows, minted>>
  \/ rows' \subseteq rows /\ UNCHANGED minted /\ (OutOfBandDelete \/ pc = "delete")
  \/ /\ pc = "create" /\ pc' # "create" /\ UNCHANGED minted
     /\ rows' = rows \cup {[id |-> NamedId, body |-> body]}
  \/ /\ pc = "bootstrap" /\ Over /\ minted' = minted + 1
     /\ rows' = rows \cup {[id |-> NextServerId, body |-> ImplicitDefaultBody]}
  \/ OutOfBandCreate
  \/ \E i, o : \E b \in Bodies : Sent(i, b) /\ b.grant \in [Groups -> Versions] /\ Update(i, b, o)

LEMMA EndedObj ==
  ASSUME TypeOK, Paths, NEW R \in SUBSET Reasons, Ended(R), UNCHANGED seen,
         \/ obj' = obj
         \/ /\ pc \in LivePCs /\ wk.fin
            /\ R # Errors => \/ R = {"LiteLLMUnavailable"} /\ pc = "groups"
                             \/ R = {"AccessGroupNotFound"} /\ pc = "park"
                             \/ R = {"RecreateThrottled"} /\ pc = "decide"
                             \/ R = {"Synced"} /\ pc = "decide" /\ InSteadyState
                             \/ R = {"Synced"} /\ pc = "synced" /\ past' = past
            /\ R = Errors => pc \notin {"park", "synced"}
            /\ pc \in {"narrow", "create", "update"} => rows' = rows \/ "unrecorded" \in past'
         \/ R = Errors /\ (pc = "delete" \/ (pc = "resolve" /\ wk.id = 0))
  PROVE  ObjStep /\ Over
<1>1. Over
  BY DEF Ended, Over
<1>2. CASE obj' = obj
  BY <1>1, <1>2 DEF ObjStep
<1>3. CASE obj' # obj
  <2>1. /\ seen = obj /\ obj.phase # "absent"
        /\ obj'.phase = obj.phase /\ obj'.fin = obj.fin /\ obj'.gen = obj.gen
        /\ obj'.v = obj.v /\ obj'.attach = obj.attach
        /\ obj'.id = IF wk.id = 0 THEN obj.id ELSE wk.id
        /\ obj'.hash = wk.hash /\ obj'.obs = wk.gen /\ obj'.reason \in R
    BY <1>3, EndedFacts
  <2>2. Wrote
    BY <1>1, <1>3, <2>1 DEF Wrote, Errors, LivePCs
  <2> QED
    BY <1>1, <2>2 DEF ObjStep
<1> QED
  BY <1>2, <1>3

LEMMA OtherReasons == \A r : {r} # Errors
  BY DEF Errors

Shape == WalkStep /\ ObjStep /\ SeenStep /\ RowStep /\ UNCHANGED <<name, policy>>

LEMMA Shapes == SafeInv /\ Rendering /\ [Next]_vars => Shape
<1> SUFFICES ASSUME SafeInv, Rendering, [Next]_vars PROVE Shape
  OBVIOUS
<1>0. /\ TypeOK /\ Paths /\ Counted
      /\ pc \in LivePCs \ {"groups"} => body.grant \in [Groups -> Versions]
  BY DEF SafeInv, Rendering
<1>1. ASSUME UNCHANGED <<pc, wk, body, target, name, policy>>, ObjStep, SeenStep, RowStep PROVE Shape
  BY <1>1 DEF Shape, WalkStep
<1>2. ASSUME Over, ObjStep, RowStep, UNCHANGED <<seen, name, policy>> PROVE Shape
  BY <1>2 DEF Shape, WalkStep, SeenStep
<1>3. ASSUME UNCHANGED <<obj, seen, name, policy>>, RowStep, WalkStep PROVE Shape
  BY <1>3 DEF Shape, SeenStep, ObjStep
<1>4. UNCHANGED <<rows, minted>> => RowStep
  BY DEF RowStep
<1>5. CASE Fetch
  BY <1>3, <1>4, <1>5 DEF Fetch, WalkStep, llmVars
<1>6. CASE AddFinalizer
  <2>1. ObjStep /\ Over
    BY <1>0, <1>6, AddFinalizerForm DEF ObjStep, AddedFin, Over, Ended
  <2> QED
    BY <1>0, <1>2, <1>4, <1>6, <2>1, AddFinalizerForm
<1>7. CASE Gate
  <2>0. Ended({"LiteLLMUnavailable"}) /\ pc = "groups" /\ pc \in LivePCs /\ wk.fin /\ UNCHANGED seen
    BY <1>0, <1>7, GateForm DEF LivePCs
  <2>1. ObjStep /\ Over
    BY <1>0, <2>0, EndedObj, ReasonSets, OtherReasons
  <2> QED
    BY <1>0, <1>2, <1>4, <1>7, <2>1, GateForm
<1>8. CASE Render
  <2>1. CASE Failed
    <3>1. ObjStep /\ Over
      BY <1>0, <1>8, <2>1, RenderForm, EndedObj, ReasonSets DEF Failed, LivePCs
    <3> QED
      BY <1>0, <1>2, <1>4, <1>8, <3>1, RenderForm
  <2>2. CASE ~Failed
    BY <1>0, <1>3, <1>4, <1>8, <2>2, RenderForm DEF WalkStep, RenderedNow
  <2> QED
    BY <2>1, <2>2
<1>9. CASE Narrow
  <2>1. body \in Bodies /\ body.grant \in [Groups -> Versions] /\ wk.fin
    BY <1>0, <1>9 DEF Narrow, LivePCs, TypeOK, Paths
  <2>2. RowStep
    BY <1>0, <1>4, <1>9, <2>1, NarrowForm DEF RowStep, Sent
  <2>3. CASE Unanswered
    <3>1. ObjStep /\ Over
      BY <1>0, <1>9, <2>1, <2>3, NarrowForm, EndedObj, ReasonSets DEF Unanswered, Failed, LivePCs
    <3> QED
      BY <1>0, <1>2, <1>9, <2>1, <2>2, <3>1, NarrowForm
  <2>4. CASE ~Unanswered
    BY <1>0, <1>3, <1>9, <2>1, <2>2, <2>4, NarrowForm DEF WalkStep, NarrowedNow
  <2> QED
    BY <2>3, <2>4
<1>10. CASE Park
  <2>0. Ended({"AccessGroupNotFound"}) /\ pc = "park" /\ pc \in LivePCs /\ wk.fin /\ UNCHANGED seen
    BY <1>0, <1>10, ParkForm DEF LivePCs, Paths
  <2>1. ObjStep /\ Over
    BY <1>0, <2>0, EndedObj, ReasonSets, OtherReasons
  <2> QED
    BY <1>0, <1>2, <1>4, <1>10, <2>1, ParkForm
<1>11. CASE Probe
  <2>1. CASE Ended({})
    BY <1>0, <1>2, <1>4, <1>11, <2>1, ProbeForm DEF ObjStep, Ended, Over
  <2>2. CASE ~Ended({})
    BY <1>0, <1>3, <1>4, <1>11, <2>2, ProbeForm DEF WalkStep, ProbedNow
  <2> QED
    BY <2>1, <2>2
<1>12. CASE Steady
  <2>0. pc = "decide" /\ InSteadyState /\ pc \in LivePCs /\ wk.fin /\ UNCHANGED seen
    BY <1>0, <1>12, SteadyForm DEF LivePCs, Paths
  <2>1. ObjStep /\ Over
    <3>1. CASE Ended({"Synced"})
      BY <1>0, <2>0, <3>1, EndedObj, ReasonSets, OtherReasons
    <3>2. CASE Ended({}) /\ UNCHANGED obj
      BY <3>2 DEF Ended, Over, ObjStep
    <3> QED
      BY <1>0, <1>12, <3>1, <3>2, SteadyForm
  <2> QED
    BY <1>0, <1>2, <1>4, <1>12, <2>1, SteadyForm
<1>13. CASE Lookup
  <2>1. CASE Ended({"RecreateThrottled"}) \/ Failed
    <3>0. pc = "decide" /\ pc \in LivePCs /\ wk.fin /\ UNCHANGED seen
      BY <1>0, <1>13, LookupForm DEF LivePCs, Paths
    <3>1. ObjStep /\ Over
      <4>1. CASE Ended({"RecreateThrottled"})
        BY <1>0, <3>0, <4>1, EndedObj, ReasonSets, OtherReasons
      <4>2. CASE Failed
        BY <1>0, <3>0, <4>2, EndedObj, ReasonSets DEF Failed
      <4> QED
        BY <2>1, <4>1, <4>2
    <3> QED
      BY <1>0, <1>2, <1>4, <1>13, <3>1, LookupForm
  <2>2. CASE ~(Ended({"RecreateThrottled"}) \/ Failed)
    BY <1>0, <1>3, <1>4, <1>13, <2>2, LookupForm DEF WalkStep, LookedUp
  <2> QED
    BY <2>1, <2>2
<1>14. CASE CreateNamed
  <2>1. RowStep
    BY <1>0, <1>14, CreateNamedForm DEF RowStep, Unanswered, Failed, Ended
  <2>2. CASE Unanswered
    <3>1. ObjStep /\ Over
      BY <1>0, <1>14, <2>2, CreateNamedForm, EndedObj, ReasonSets DEF Unanswered, Failed, LivePCs, Paths
    <3> QED
      BY <1>0, <1>2, <1>14, <2>1, <3>1, CreateNamedForm
  <2>3. CASE ~Unanswered
    BY <1>0, <1>3, <1>14, <2>1, <2>3, CreateNamedForm DEF WalkStep, AppliedNow
  <2> QED
    BY <2>2, <2>3
<1>15. CASE UpdateFound
  <2>1. body \in Bodies /\ body.grant \in [Groups -> Versions] /\ wk.fin
    BY <1>0, <1>15 DEF UpdateFound, LivePCs, TypeOK, Paths
  <2>2. RowStep
    BY <1>0, <1>15, <2>1, UpdateFoundForm DEF RowStep, Sent
  <2>3. CASE Unanswered
    <3>1. ObjStep /\ Over
      BY <1>0, <1>15, <2>1, <2>3, UpdateFoundForm, EndedObj, ReasonSets DEF Unanswered, Failed, LivePCs
    <3> QED
      BY <1>0, <1>2, <1>15, <2>1, <2>2, <3>1, UpdateFoundForm
  <2>4. CASE ~Unanswered
    BY <1>0, <1>3, <1>15, <2>1, <2>2, <2>4, UpdateFoundForm DEF WalkStep, AppliedNow
  <2> QED
    BY <2>3, <2>4
<1>16. CASE WriteSynced
  <2>1. ObjStep /\ Over
    BY <1>0, <1>16, WriteSyncedForm, EndedObj, ReasonSets DEF LivePCs, Paths, Errors
  <2> QED
    BY <1>0, <1>2, <1>4, <1>16, <2>1, WriteSyncedForm
<1>17. CASE ImplicitLookup
  <2>1. CASE Ended({})
    BY <1>0, <1>2, <1>4, <1>17, <2>1, ImplicitLookupForm DEF ObjStep, Ended, Over
  <2>2. CASE ~Ended({})
    BY <1>0, <1>3, <1>4, <1>17, <2>2, ImplicitLookupForm DEF WalkStep, ImplicitNow
  <2> QED
    BY <2>1, <2>2
<1>18. CASE Bootstrap
  <2>1. minted < Len(ServerIds)
    BY <1>0, <1>18, TeamAssumption DEF Bootstrap, Counted, TypeOK
  <2>2. Over /\ ObjStep
    BY <1>0, <1>18, <2>1, BootstrapForm DEF ObjStep, Ended, Over
  <2> QED
    BY <1>0, <1>2, <1>18, <2>1, <2>2, BootstrapForm DEF RowStep
<1>19. CASE Refresh
  <2>1. Over /\ ObjStep
    BY <1>0, <1>19, RefreshForm DEF ObjStep, Ended, Over
  <2>2. RowStep
    BY <1>0, <1>19, RefreshForm, BodyFacts DEF RowStep, Sent
  <2> QED
    BY <1>0, <1>2, <1>19, <2>1, <2>2, RefreshForm
<1>20. CASE DeleteUnavailable
  <2>1. CASE Ended({}) /\ UNCHANGED past
    BY <1>0, <1>2, <1>4, <1>20, <2>1, DeleteUnavailableForm DEF ObjStep, Ended, Over
  <2>2. CASE ~(Ended({}) /\ UNCHANGED past)
    BY <1>0, <1>3, <1>4, <1>20, <2>2, DeleteUnavailableForm DEF WalkStep, ResolvedNow
  <2> QED
    BY <2>1, <2>2
<1>21. CASE ResolveTeam
  <2>1. CASE wk.id = 0 /\ Ended(Errors)
    <3>1. ObjStep /\ Over
      BY <1>0, <1>21, <2>1, ResolveTeamForm, EndedObj, ReasonSets
    <3> QED
      BY <1>0, <1>2, <1>4, <1>21, <3>1, ResolveTeamForm
  <2>2. CASE ~(wk.id = 0 /\ Ended(Errors))
    BY <1>0, <1>3, <1>4, <1>21, <2>2, ResolveTeamForm DEF WalkStep, ResolvedNow
  <2> QED
    BY <2>1, <2>2
<1>22. CASE Reapply
  <2>1. RowStep
    BY <1>0, <1>22, ReapplyForm, BodyFacts DEF RowStep, Sent
  <2>2. CASE Ended({})
    BY <1>0, <1>2, <1>22, <2>1, <2>2, ReapplyForm DEF ObjStep, Ended, Over
  <2>3. CASE ~Ended({})
    BY <1>0, <1>3, <1>22, <2>1, <2>3, ReapplyForm DEF WalkStep, DeletedNow
  <2> QED
    BY <2>2, <2>3
<1>23. CASE DeleteTeam
  <2>1. RowStep
    BY <1>0, <1>23, DeleteTeamForm DEF RowStep
  <2>2. CASE Ended(Errors)
    <3>1. ObjStep /\ Over
      BY <1>0, <1>23, <2>2, DeleteTeamForm, EndedObj, ReasonSets
    <3> QED
      BY <1>0, <1>2, <1>23, <2>1, <3>1, DeleteTeamForm
  <2>3. CASE ~Ended(Errors)
    BY <1>0, <1>3, <1>23, <2>1, <2>3, DeleteTeamForm DEF WalkStep, DeletedNow
  <2> QED
    BY <2>2, <2>3
<1>24. CASE DropFinalizer
  <2>1. ObjStep /\ Over
    BY <1>0, <1>24, DropFinalizerForm DEF ObjStep, Dropped, Over, Ended
  <2> QED
    BY <1>0, <1>2, <1>4, <1>24, <2>1, DropFinalizerForm
<1>25. CASE Sync
  BY <1>1, <1>4, <1>25 DEF ObjStep, SeenStep, Sync, wkVars, llmVars
<1>26. CASE Relist
  BY <1>1, <1>4, <1>26 DEF ObjStep, SeenStep, Relist, wkVars, llmVars
<1>27. CASE ApplyObj
  BY <1>1, <1>4, <1>27 DEF ObjStep, SeenStep, ApplyObj, wkVars, llmVars
<1>28. CASE EditSpec
  BY <1>1, <1>4, <1>28 DEF ObjStep, SeenStep, EditSpec, wkVars, llmVars
<1>29. CASE DeleteObj
  BY <1>1, <1>4, <1>29 DEF ObjStep, SeenStep, DeleteObj, wkVars, llmVars
<1>30. CASE ChangeGroup
  BY <1>1, <1>4, <1>30 DEF ObjStep, SeenStep, ChangeGroup, wkVars, llmVars
<1>31. CASE OutOfBandDelete
  <2>1. RowStep
    BY <1>31 DEF RowStep, OutOfBandDelete
  <2> QED
    BY <1>1, <1>31, <2>1 DEF ObjStep, SeenStep, OutOfBandDelete, wkVars
<1>32. CASE OutOfBandCreate
  <2>1. RowStep
    BY <1>32 DEF RowStep
  <2> QED
    BY <1>1, <1>32, <2>1 DEF ObjStep, SeenStep, OutOfBandCreate, wkVars
<1>33. CASE ConnDown \/ ConnUp \/ Expire
  BY <1>1, <1>4, <1>33 DEF ObjStep, SeenStep, ConnDown, ConnUp, Expire, wkVars, llmVars
<1>34. CASE Crash
  BY <1>4, <1>34 DEF Shape, WalkStep, ObjStep, SeenStep, Crash, Over, llmVars
<1>35. CASE UNCHANGED vars
  BY <1>1, <1>4, <1>35 DEF ObjStep, SeenStep, vars, wkVars, llmVars
<1> QED
  BY <1>5, <1>6, <1>7, <1>8, <1>9, <1>10, <1>11, <1>12, <1>13, <1>14, <1>15, <1>16,
     <1>17, <1>18, <1>19, <1>20, <1>21, <1>22, <1>23, <1>24, <1>25, <1>26, <1>27, <1>28, <1>29,
     <1>30, <1>31, <1>32, <1>33, <1>34, <1>35 DEF Next, Reconcile, Outside

\* What the rest of the state does: what happened is not forgotten while it
\* counts, and a connection that is gone stays so.
PastStep ==
  /\ Tick /\ (churn' <= churn \/ pc' = "synced")
  /\ conn = "Absent" => conn' = "Absent"
  /\ "duplicate" \in past => "duplicate" \in past'
  /\ "unrecorded" \in past => "unrecorded" \in past'
  /\ "leftOnCause" \in past =>
       "leftOnCause" \in past' \/ ApplyObj \/ (Over /\ obj' = obj /\ obj.phase # "absent")

LEMMA PastSteps == SafeInv /\ Rendering /\ [Next]_vars => PastStep
<1> SUFFICES ASSUME SafeInv, Rendering, [Next]_vars PROVE PastStep
  OBVIOUS
<1>0. /\ TypeOK /\ Paths /\ Counted
      /\ pc \in LivePCs \ {"groups"} => body.grant \in [Groups -> Versions]
  BY DEF SafeInv, Rendering
<1>1. churn \in Nat
  BY <1>0, Bounds DEF TypeOK
<1>2. ASSUME Tick, churn' \in {0, churn} \/ pc' = "synced", conn = "Absent" => conn' = "Absent", past \subseteq past'
      PROVE PastStep
  BY <1>1, <1>2 DEF PastStep
<1>3. CASE Fetch
  BY <1>0, <1>2, <1>3, TickFacts DEF Fetch
<1>4. CASE AddFinalizer
  BY <1>0, <1>2, <1>4, AddFinalizerForm DEF Unanswered, Failed, Ended
<1>5. CASE Gate
  BY <1>0, <1>2, <1>5, GateForm DEF Unanswered, Failed, Ended
<1>6. CASE Render
  BY <1>0, <1>2, <1>6, RenderForm DEF Unanswered, Failed, Ended
<1>7. CASE Narrow
  <2>1. body.grant \in [Groups -> Versions]
    BY <1>0, <1>7 DEF Narrow, LivePCs
  <2> QED
    BY <1>0, <1>2, <1>7, <2>1, NarrowForm DEF Unanswered, Failed, Ended
<1>8. CASE Park
  BY <1>0, <1>2, <1>8, ParkForm DEF Unanswered, Failed, Ended
<1>9. CASE Probe
  BY <1>0, <1>2, <1>9, ProbeForm DEF Unanswered, Failed, Ended
<1>10. CASE Steady
  BY <1>0, <1>2, <1>10, SteadyForm DEF Unanswered, Failed, Ended
<1>11. CASE Lookup
  BY <1>0, <1>2, <1>11, LookupForm DEF Unanswered, Failed, Ended
<1>12. CASE CreateNamed
  BY <1>0, <1>2, <1>12, CreateNamedForm DEF Unanswered, Failed, Ended
<1>13. CASE UpdateFound
  <2>1. body.grant \in [Groups -> Versions]
    BY <1>0, <1>13 DEF UpdateFound, LivePCs
  <2> QED
    BY <1>0, <1>2, <1>13, <2>1, UpdateFoundForm DEF Unanswered, Failed, Ended
<1>14. CASE WriteSynced
  BY <1>0, <1>2, <1>14, WriteSyncedForm DEF Unanswered, Failed, Ended
<1>15. CASE ImplicitLookup
  BY <1>0, <1>2, <1>15, ImplicitLookupForm DEF Unanswered, Failed, Ended
<1>16. CASE Bootstrap
  <2>1. minted < Len(ServerIds)
    BY <1>0, <1>16, TeamAssumption DEF Bootstrap, Counted, TypeOK
  <2> QED
    BY <1>0, <1>2, <1>16, <2>1, BootstrapForm DEF Ended
<1>17. CASE Refresh
  BY <1>0, <1>2, <1>17, RefreshForm DEF Unanswered, Failed, Ended
<1>18. CASE DeleteUnavailable
  BY <1>0, <1>2, <1>18, DeleteUnavailableForm DEF Unanswered, Failed, Ended
<1>19. CASE ResolveTeam
  BY <1>0, <1>2, <1>19, ResolveTeamForm DEF Unanswered, Failed, Ended
<1>20. CASE Reapply
  BY <1>0, <1>2, <1>20, ReapplyForm DEF Unanswered, Failed, Ended
<1>21. CASE DeleteTeam
  BY <1>0, <1>2, <1>21, DeleteTeamForm DEF Unanswered, Failed, Ended
<1>22. CASE DropFinalizer
  <2>1. past' = past \/ (Over /\ obj' = obj /\ past' = Kept(past))
    BY <1>0, <1>22, DropFinalizerForm DEF Ended, Over
  <2>2. Tick /\ churn' = churn /\ conn' = conn
    BY <1>0, <1>22, DropFinalizerForm
  <2> QED
    BY <1>1, <2>1, <2>2 DEF PastStep, Kept
<1>23. CASE Sync
  BY <1>0, <1>2, <1>23, TickFacts DEF Sync
<1>24. CASE Relist
  BY <1>0, <1>2, <1>24, TickFacts DEF Relist
<1>25. CASE ApplyObj
  BY <1>0, <1>1, <1>25, TickFacts DEF ApplyObj, PastStep
<1>26. CASE EditSpec
  BY <1>0, <1>2, <1>26, TickFacts DEF EditSpec
<1>27. CASE DeleteObj
  BY <1>0, <1>2, <1>27, TickFacts DEF DeleteObj
<1>28. CASE ChangeGroup
  BY <1>0, <1>2, <1>28, TickFacts DEF ChangeGroup
<1>29. CASE OutOfBandDelete
  BY <1>0, <1>2, <1>29, TickFacts DEF OutOfBandDelete
<1>30. CASE OutOfBandCreate
  BY <1>0, <1>2, <1>30, TickFacts DEF OutOfBandCreate
<1>31. CASE ConnDown
  BY <1>0, <1>2, <1>31, TickFacts DEF ConnDown
<1>32. CASE ConnUp
  BY <1>0, <1>2, <1>32, TickFacts DEF ConnUp
<1>33. CASE Expire
  BY <1>0, <1>1, <1>33, TickFacts DEF Expire, PastStep
<1>34. CASE Crash
  <2>1. Over /\ obj' = obj /\ conn' = conn /\ churn' = 0 /\ Tick
    BY <1>0, <1>34, TickFacts DEF Crash, Over
  <2>2. \E x \in {past, past \cup {"unrecorded"}} : past' = Kept(x)
    BY <1>34 DEF Crash
  <2> QED
    BY <1>1, <2>1, <2>2 DEF PastStep, Kept
<1>35. CASE UNCHANGED vars
  BY <1>0, <1>2, <1>35, TickFacts DEF vars
<1> QED
  BY <1>3, <1>4, <1>5, <1>6, <1>7, <1>8, <1>9, <1>10, <1>11, <1>12, <1>13, <1>14, <1>15, <1>16,
     <1>17, <1>18, <1>19, <1>20, <1>21, <1>22, <1>23, <1>24, <1>25, <1>26, <1>27, <1>28, <1>29,
     <1>30, <1>31, <1>32, <1>33, <1>34, <1>35 DEF Next, Reconcile, Outside

\* A write LiteLLM applied is in the record, or history says that it is not.
Writing == {"narrow", "create", "update"}
Confirmed ==
  /\ Holds(wk.id, wk.hash)'
  /\ \A j : j # wk'.id => RowOf(j)' = RowOf(j)
RecordStep ==
  /\ Applying /\ Over => obj'.hash = wk.hash \/ "unrecorded" \in past'
  /\ pc \in Writing => \/ rows' = rows \/ OutOfBandDelete \/ OutOfBandCreate
                       \/ "unrecorded" \in past' \/ NarrowedNow \/ AppliedNow
  /\ NarrowedNow \/ AppliedNow => (NarrowedNow /\ UNCHANGED <<wk, rows>>) \/ Confirmed

LEMMA RecordSteps == SafeInv /\ Rendering /\ [Next]_vars => RecordStep
<1> SUFFICES ASSUME SafeInv, Rendering, [Next]_vars PROVE RecordStep
  OBVIOUS
<1>0. /\ TypeOK /\ Paths /\ Counted /\ wk \in Objs /\ body \in Bodies
      /\ pc \in LivePCs \ {"groups"} => body.grant \in [Groups -> Versions]
      /\ pc = "create" => Gone(NamedId)
  BY DEF SafeInv, Rendering, TypeOK
<1>1. ASSUME pc' = pc, rows' = rows \/ OutOfBandDelete \/ OutOfBandCreate PROVE RecordStep
  BY <1>1 DEF RecordStep, Applying, Over, NarrowedNow, AppliedNow
<1>2. ASSUME pc \notin Writing \cup {"synced", "park"} PROVE RecordStep
  BY <1>2 DEF RecordStep, Applying, NarrowedNow, AppliedNow, Writing
<1>3. CASE Fetch
  BY <1>2, <1>3 DEF Fetch, Writing
<1>4. CASE AddFinalizer
  BY <1>2, <1>4 DEF AddFinalizer, Writing
<1>5. CASE Gate
  BY <1>2, <1>5 DEF Gate, Writing
<1>6. CASE Render
  BY <1>2, <1>6 DEF Render, Writing
<1>7. CASE Narrow
  <2>1. body.grant \in [Groups -> Versions] /\ pc = "narrow"
    BY <1>0, <1>7 DEF Narrow, LivePCs
  <2>2. CASE (wk.id = 0 \/ wk.hash = body) /\ pc' = "park" /\ UNCHANGED <<wk, rows>>
    BY <2>1, <2>2 DEF RecordStep, Applying, NarrowedNow, AppliedNow
  <2>3. CASE Update(wk.id, body, "ok") /\ wk' = [wk EXCEPT !.hash = body] /\ pc' = "park"
    <3>1. wk'.id = wk.id /\ wk'.hash = body
      BY <1>0, <2>3 DEF Objs
    <3>2. Confirmed
      BY <1>0, <2>1, <2>3, <3>1, UpdateFacts DEF Confirmed, Holds, Done
    <3>3. NarrowedNow \/ rows' = rows
      BY <1>0, <1>7, <2>1, <2>3, NarrowForm DEF NarrowedNow, Unanswered, Failed, Ended
    <3> QED
      BY <2>1, <2>3, <3>2, <3>3 DEF RecordStep, Applying
  <2>4. CASE Unanswered
    BY <2>1, <2>4 DEF RecordStep, Applying, NarrowedNow, AppliedNow, Unanswered, Failed, Ended
  <2> QED
    BY <1>0, <1>7, <2>1, <2>2, <2>3, <2>4, NarrowForm
<1>8. CASE Park
  <2>1. pc = "park" /\ pc' = "idle" /\ (obj'.hash = wk.hash \/ "unrecorded" \in past')
    BY <1>0, <1>8, ParkForm DEF Ended
  <2> QED
    BY <2>1 DEF RecordStep, NarrowedNow, AppliedNow, Writing
<1>9. CASE Probe
  BY <1>2, <1>9 DEF Probe, Writing
<1>10. CASE Steady
  BY <1>2, <1>10 DEF Steady, Writing
<1>11. CASE Lookup
  BY <1>2, <1>11 DEF Lookup, Writing
<1>12. CASE CreateNamed
  <2>1. CASE /\ rows' = rows \cup {[id |-> NamedId, body |-> body]}
             /\ wk' = [wk EXCEPT !.id = NamedId, !.hash = body] /\ pc' = "synced"
             /\ UNCHANGED <<body, target>>
    <3>1. wk'.id = NamedId /\ wk'.hash = body /\ pc = "create"
      BY <1>0, <1>12, <2>1 DEF Objs, CreateNamed
    <3>2. Confirmed
      BY <1>0, <2>1, <3>1 DEF Confirmed, Holds, RowOf, Gone
    <3>3. AppliedNow
      BY <2>1, <3>1 DEF AppliedNow
    <3> QED
      BY <3>1, <3>2, <3>3 DEF RecordStep, Applying
  <2>2. CASE Unanswered /\ pc = "create"
    BY <2>2 DEF RecordStep, Applying, NarrowedNow, AppliedNow, Unanswered, Failed, Ended
  <2> QED
    BY <1>0, <1>12, <2>1, <2>2, CreateNamedForm
<1>13. CASE UpdateFound
  <2>1. body.grant \in [Groups -> Versions] /\ pc = "update"
    BY <1>0, <1>13 DEF UpdateFound, LivePCs
  <2>2. CASE /\ Update(target, body, "ok") /\ ~Gone(target)
             /\ wk' = [wk EXCEPT !.id = target, !.hash = body] /\ pc' = "synced"
             /\ UNCHANGED <<body, target>>
    <3>1. wk'.id = target /\ wk'.hash = body
      BY <1>0, <2>2 DEF Objs
    <3>2. Confirmed
      BY <1>0, <2>1, <2>2, <3>1, UpdateFacts DEF Confirmed, Holds, Done
    <3>3. AppliedNow
      BY <2>1, <2>2 DEF AppliedNow
    <3> QED
      BY <2>1, <3>2, <3>3 DEF RecordStep, Applying
  <2>3. CASE Unanswered
    BY <2>1, <2>3 DEF RecordStep, Applying, NarrowedNow, AppliedNow, Unanswered, Failed, Ended
  <2> QED
    BY <1>0, <1>13, <2>1, <2>2, <2>3, UpdateFoundForm
<1>14. CASE WriteSynced
  <2>1. pc = "synced" /\ pc' = "idle" /\ (WriteStatus(wk, "Synced") \/ "unrecorded" \in past')
    BY <1>0, <1>14, WriteSyncedForm DEF Ended
  <2>2. obj'.hash = wk.hash \/ "unrecorded" \in past'
    BY <1>0, <2>1, WriteFacts DEF Reasons
  <2> QED
    BY <2>1, <2>2 DEF RecordStep, NarrowedNow, AppliedNow, Writing
<1>15. CASE ImplicitLookup
  BY <1>2, <1>15 DEF ImplicitLookup, Writing
<1>16. CASE Bootstrap
  BY <1>2, <1>16 DEF Bootstrap, Writing
<1>17. CASE Refresh
  BY <1>2, <1>17 DEF Refresh, Writing
<1>18. CASE DeleteUnavailable
  BY <1>2, <1>18 DEF DeleteUnavailable, Writing
<1>19. CASE ResolveTeam
  BY <1>2, <1>19 DEF ResolveTeam, Writing
<1>20. CASE Reapply
  BY <1>2, <1>20 DEF Reapply, Writing
<1>21. CASE DeleteTeam
  BY <1>2, <1>21 DEF DeleteTeam, Writing
<1>22. CASE DropFinalizer
  BY <1>2, <1>22 DEF DropFinalizer, Writing
<1>23. CASE Sync
  BY <1>1, <1>23 DEF Sync, wkVars, llmVars
<1>24. CASE Relist
  BY <1>1, <1>24 DEF Relist, wkVars, llmVars
<1>25. CASE ApplyObj
  BY <1>1, <1>25 DEF ApplyObj, wkVars, llmVars
<1>26. CASE EditSpec
  BY <1>1, <1>26 DEF EditSpec, wkVars, llmVars
<1>27. CASE DeleteObj
  BY <1>1, <1>27 DEF DeleteObj, wkVars, llmVars
<1>28. CASE ChangeGroup
  BY <1>1, <1>28 DEF ChangeGroup, wkVars, llmVars
<1>29. CASE OutOfBandDelete
  BY <1>1, <1>29 DEF OutOfBandDelete, wkVars
<1>30. CASE OutOfBandCreate
  BY <1>1, <1>30 DEF OutOfBandCreate, wkVars
<1>31. CASE ConnDown
  BY <1>1, <1>31 DEF ConnDown, wkVars, llmVars
<1>32. CASE ConnUp
  BY <1>1, <1>32 DEF ConnUp, wkVars, llmVars
<1>33. CASE Expire
  BY <1>1, <1>33 DEF Expire, wkVars, llmVars
<1>34. CASE Crash
  <2>1. pc' = "idle" /\ rows' = rows /\ obj' = obj
    BY <1>34 DEF Crash, llmVars
  <2>2. Applying => obj'.hash = wk.hash \/ "unrecorded" \in past'
    BY <1>34, <2>1 DEF Crash, Applying, Kept
  <2> QED
    BY <2>1, <2>2 DEF RecordStep, NarrowedNow, AppliedNow
<1>35. CASE UNCHANGED vars
  BY <1>1, <1>35 DEF vars, wkVars, llmVars
<1> QED
  BY <1>3, <1>4, <1>5, <1>6, <1>7, <1>8, <1>9, <1>10, <1>11, <1>12, <1>13, <1>14, <1>15, <1>16,
     <1>17, <1>18, <1>19, <1>20, <1>21, <1>22, <1>23, <1>24, <1>25, <1>26, <1>27, <1>28, <1>29,
     <1>30, <1>31, <1>32, <1>33, <1>34, <1>35 DEF Next, Reconcile, Outside

\* The fields behind the EXCEPTs.
SameCopy ==
  /\ wk'.phase = wk.phase /\ wk'.fin = wk.fin /\ wk'.gen = wk.gen
  /\ wk'.v = wk.v /\ wk'.attach = wk.attach /\ wk'.obs = wk.obs
SameStatus ==
  obj'.id = obj.id /\ obj'.hash = obj.hash /\ obj'.obs = obj.obs /\ obj'.reason = obj.reason

LEMMA WalkFacts ==
  ASSUME TypeOK
  PROVE  /\ NarrowedNow => /\ SameCopy /\ wk'.id = wk.id
                           /\ wk'.hash = body \/ (wk' = wk /\ wk.id = 0)
         /\ ProbedNow => SameCopy /\ wk'.hash = wk.hash /\ wk'.id \in {0, wk.id}
         /\ AppliedNow => /\ SameCopy /\ wk'.hash = body
                          /\ \/ pc = "create" /\ wk'.id = NamedId
                             \/ pc = "update" /\ wk'.id = target /\ ~Gone(target)
         /\ RenderedNow \/ LookedUp \/ ImplicitNow \/ ResolvedNow \/ DeletedNow => wk' = wk
<1>1. wk \in Objs
  BY DEF TypeOK
<1>2. NarrowedNow => /\ SameCopy /\ wk'.id = wk.id
                     /\ wk'.hash = body \/ (wk' = wk /\ wk.id = 0)
  BY <1>1 DEF NarrowedNow, SameCopy, Objs
<1>3. ProbedNow => SameCopy /\ wk'.hash = wk.hash /\ wk'.id \in {0, wk.id}
  BY <1>1 DEF ProbedNow, SameCopy, Objs
<1>4. AppliedNow => /\ SameCopy /\ wk'.hash = body
                    /\ \/ pc = "create" /\ wk'.id = NamedId
                       \/ pc = "update" /\ wk'.id = target /\ ~Gone(target)
  BY <1>1 DEF AppliedNow, SameCopy, Objs
<1> QED
  BY <1>2, <1>3, <1>4 DEF RenderedNow, LookedUp, ImplicitNow, ResolvedNow, DeletedNow

LEMMA ObjFacts ==
  ASSUME TypeOK
  PROVE  /\ AddedFin => /\ SameStatus /\ obj'.phase = obj.phase /\ obj'.fin
                        /\ obj'.gen = obj.gen /\ obj'.v = obj.v /\ obj'.attach = obj.attach
         /\ Dropped => SameStatus /\ obj'.phase = "absent" /\ ~obj'.fin /\ obj'.gen = obj.gen
         /\ ApplyObj => /\ obj.phase = "absent" /\ obj'.phase = "live" /\ ~obj'.fin
                        /\ obj'.gen = 1 /\ obj'.v = 1 /\ obj'.id = 0 /\ obj'.hash = NoBody
                        /\ obj'.obs = 0 /\ obj'.reason = "none"
         /\ EditSpec => /\ SameStatus /\ obj.phase = "live" /\ obj'.phase = "live"
                        /\ obj'.fin = obj.fin /\ obj'.gen = obj.gen + 1
                        /\ ~Reverts => obj'.v = upsets + 2
         /\ DeleteObj => /\ SameStatus /\ obj.phase = "live" /\ obj'.fin = obj.fin
                         /\ obj'.phase = IF obj.fin THEN "deleting" ELSE "absent"
                         /\ obj'.gen = obj.gen /\ obj'.v = obj.v /\ obj'.attach = obj.attach
<1>1. obj \in Objs /\ Reverts \in BOOLEAN
  BY TeamAssumption DEF TypeOK
<1>2. AddedFin => /\ SameStatus /\ obj'.phase = obj.phase /\ obj'.fin
                  /\ obj'.gen = obj.gen /\ obj'.v = obj.v /\ obj'.attach = obj.attach
  BY <1>1 DEF AddedFin, SameStatus, Objs
<1>3. Dropped => SameStatus /\ obj'.phase = "absent" /\ ~obj'.fin /\ obj'.gen = obj.gen
  BY <1>1 DEF Dropped, SameStatus, Objs
<1>4. ApplyObj => /\ obj.phase = "absent" /\ obj'.phase = "live" /\ ~obj'.fin
                  /\ obj'.gen = 1 /\ obj'.v = 1 /\ obj'.id = 0 /\ obj'.hash = NoBody
                  /\ obj'.obs = 0 /\ obj'.reason = "none"
  BY NewFacts DEF ApplyObj
<1>5. EditSpec => /\ SameStatus /\ obj.phase = "live" /\ obj'.phase = "live"
                  /\ obj'.fin = obj.fin /\ obj'.gen = obj.gen + 1
                  /\ ~Reverts => obj'.v = upsets + 2
  BY <1>1 DEF EditSpec, SameStatus, Objs
<1>6. DeleteObj => /\ SameStatus /\ obj.phase = "live" /\ obj'.fin = obj.fin
                   /\ obj'.phase = IF obj.fin THEN "deleting" ELSE "absent"
                   /\ obj'.gen = obj.gen /\ obj'.v = obj.v /\ obj'.attach = obj.attach
  BY <1>1 DEF DeleteObj, SameStatus, Objs
<1> QED
  BY <1>2, <1>3, <1>4, <1>5, <1>6

LEMMA FetchFacts ==
  ASSUME TypeOK, Fetch
  PROVE  /\ pc = "idle" /\ wk' = seen /\ UNCHANGED <<body, target, obj, seen, conn, rows>>
         /\ \/ pc' = "idle"
            \/ seen.phase = "absent" /\ name = "default" /\ pc' = "implicit"
            \/ seen.phase = "deleting" /\ seen.fin /\ pc' = "resolve"
            \/ seen.phase = "live" /\ pc' = "groups"
<1>1. seen.phase \in {"absent", "live", "deleting"}
  BY DEF TypeOK, Objs
<1> QED
  BY <1>1 DEF Fetch, llmVars

-----------------------------------------------------------------------------
(* Each part of the invariant is preserved.                                *)

LEMMA StepPaths == ASSUME TypeOK, Paths, Shape PROVE Paths'
<1>1. UNCHANGED name
  BY DEF Shape
<1>2. CASE UNCHANGED <<pc, wk, body, target>>
  BY <1>1, <1>2 DEF Paths
<1>3. CASE Over
  BY <1>1, <1>3 DEF Paths, Over, LivePCs, ImplicitPCs, DelPCs
<1>4. CASE Fetch
  BY <1>1, <1>4, FetchFacts DEF Paths, LivePCs, ImplicitPCs, DelPCs
<1>5. CASE RenderedNow
  BY <1>1, <1>5 DEF Paths, RenderedNow, LivePCs, ImplicitPCs, DelPCs
<1>6. CASE NarrowedNow
  BY <1>1, <1>6, WalkFacts DEF NarrowedNow, Paths, SameCopy, LivePCs, ImplicitPCs, DelPCs
<1>7. CASE ProbedNow
  BY <1>1, <1>7, WalkFacts DEF ProbedNow, Paths, SameCopy, LivePCs, ImplicitPCs, DelPCs
<1>8. CASE LookedUp
  BY <1>1, <1>8 DEF LookedUp, Paths, LivePCs, ImplicitPCs, DelPCs
<1>9. CASE AppliedNow
  BY <1>1, <1>9, WalkFacts DEF AppliedNow, Paths, SameCopy, LivePCs, ImplicitPCs, DelPCs
<1>10. CASE ImplicitNow
  BY <1>1, <1>10 DEF ImplicitNow, Paths, LivePCs, ImplicitPCs, DelPCs
<1>11. CASE ResolvedNow
  BY <1>1, <1>11 DEF ResolvedNow, NextCall, Paths, LivePCs, ImplicitPCs, DelPCs
<1>12. CASE DeletedNow
  BY <1>1, <1>12 DEF DeletedNow, Paths, LivePCs, ImplicitPCs, DelPCs
<1> QED
  BY <1>2, <1>3, <1>4, <1>5, <1>6, <1>7, <1>8, <1>9, <1>10, <1>11, <1>12 DEF Shape, WalkStep

\* Where the copies may change, the worker is over or stands still.
LEMMA ShapeCases ==
  Shape => \/ WalkStep /\ UNCHANGED <<obj, seen>>
           \/ Wrote \/ AddedFin \/ Dropped
           \/ ApplyObj \/ EditSpec \/ DeleteObj \/ Sync \/ Crash
  BY DEF Shape, ObjStep, SeenStep, Wrote, AddedFin, Dropped, ApplyObj, EditSpec, DeleteObj

\* Where the worker can get.
LEMMA WalkPCs ==
  ASSUME TypeOK, WalkStep, NEW p \in PCs, pc' = p, pc # p
  PROVE  /\ p \in {"create", "update"} => LookedUp
         /\ p \in {"bootstrap", "refresh"} => ImplicitNow
         /\ p \in {"groups", "implicit", "resolve"} => Fetch
         /\ p \in {"probe", "narrow"} => RenderedNow
         /\ p \in {"synced"} => AppliedNow
         /\ p \in {"park"} => NarrowedNow
         /\ p \in {"decide"} => ProbedNow
         /\ p \in {"reapply", "delete"} => ResolvedNow
         /\ p \in {"drop"} => ResolvedNow \/ DeletedNow
  BY FetchFacts DEF WalkStep, Over, RenderedNow, NarrowedNow, ProbedNow, LookedUp, AppliedNow,
     ImplicitNow, ResolvedNow, DeletedNow, NextCall

LEMMA UpsetFacts ==
  ASSUME TypeOK, Upset PROVE upsets' = upsets + 1 /\ upsets < MaxUpsets
  BY DEF Upset

LEMMA Growing ==
  \A u, v, m \in Nat : /\ u <= v => (m <= u => m <= v) /\ (m <= u + 1 => m <= v + 1)
                       /\ v = u + 1 => /\ m <= u + 1 => m <= v /\ m + 1 <= v + 1
                                       /\ m <= u => m + 1 <= v
                       /\ u <= v => (m <= u => m + 1 <= v + 1)
  OBVIOUS

\* An alias without a team, or about to get its first one, is one id behind.
Early == rows = {} \/ pc = "bootstrap" \/ name # "default"

LEMMA StepCounted == ASSUME TypeOK, TypeOK', Paths, Counted, Shape, PastStep PROVE Counted'
<1>1. /\ upsets \in Nat /\ upsets' \in Nat /\ upsets <= upsets' /\ upsets' <= upsets + 1
      /\ minted \in Nat /\ minted' \in Nat /\ churn \in Nat /\ churn' \in Nat
  BY Bounds DEF TypeOK, PastStep, Tick
<1>0. obj.gen <= upsets + 1 /\ obj.gen \in Nat /\ obj'.gen \in Nat
  BY Bounds DEF Counted, TypeOK, Objs, Versions
<1>6. minted <= upsets + 1 /\ (Early => minted <= upsets)
  BY DEF Counted, Early
<1>2. obj'.gen <= upsets' + 1
  <2>1. CASE obj' = obj \/ Wrote \/ AddedFin \/ Dropped \/ DeleteObj
    BY <1>0, <1>1, <2>1, ObjFacts DEF Wrote
  <2>2. CASE EditSpec \/ ApplyObj
    <3>1. Upset
      BY <2>2 DEF EditSpec, ApplyObj
    <3>2. obj'.gen \in {1, obj.gen + 1}
      BY <2>2, ObjFacts
    <3> QED
      BY <1>0, <1>1, <3>1, <3>2, UpsetFacts
  <2> QED
    BY <2>1, <2>2 DEF Shape, ObjStep
<1>3. \/ minted' = minted /\ (Early' => Early)
      \/ Upset /\ (minted' = minted \/ (minted' = minted + 1 /\ (Early' => Early)))
      \/ minted' = minted + 1 /\ Early /\ ~Early'
  <2>1. UNCHANGED name
    BY DEF Shape
  <2>2. pc' = "bootstrap" => pc = "bootstrap" \/ rows = {}
    <3>1. ASSUME pc' = "bootstrap", pc # "bootstrap" PROVE rows = {}
      <4>1. ImplicitNow
        BY <3>1, WalkPCs DEF Shape, PCs
      <4> QED
        BY <3>1, <4>1, SmallestFacts DEF ImplicitNow, TypeOK
    <3> QED
      BY <3>1
  <2>3. CASE UNCHANGED <<rows, minted>>
    BY <2>1, <2>2, <2>3 DEF Early
  <2>4. CASE OutOfBandDelete
    BY <2>4 DEF OutOfBandDelete
  <2>5. CASE pc = "delete" /\ UNCHANGED minted
    BY <2>1, <2>5 DEF Paths, Early
  <2>6. CASE pc = "create" /\ UNCHANGED minted /\ rows' = rows \cup {[id |-> NamedId, body |-> body]}
    BY <2>1, <2>2, <2>6 DEF Early
  <2>7. CASE /\ pc = "bootstrap" /\ Over /\ minted' = minted + 1
             /\ rows' = rows \cup {[id |-> NextServerId, body |-> ImplicitDefaultBody]}
    BY <2>1, <2>7 DEF Early, Paths, ImplicitPCs, Over
  <2>8. CASE OutOfBandCreate
    BY <2>1, <2>8 DEF OutOfBandCreate, Early, wkVars
  <2>9. ASSUME NEW i, NEW o, NEW b \in Bodies, b.grant \in [Groups -> Versions], Update(i, b, o)
        PROVE  rows = {} <=> rows' = {}
    BY <2>9, UpdateFacts
  <2>10. CASE \E i, o : \E b \in Bodies : Sent(i, b) /\ b.grant \in [Groups -> Versions] /\ Update(i, b, o)
    <3>1. minted' = minted /\ (rows = {} <=> rows' = {})
      BY <2>9, <2>10 DEF Update
    <3> QED
      BY <2>1, <2>2, <3>1 DEF Early
  <2> QED
    BY <2>3, <2>4, <2>5, <2>6, <2>7, <2>8, <2>10 DEF Shape, RowStep
<1>5. minted' <= upsets' + 1 /\ (Early' => minted' <= upsets')
  <2>1. CASE minted' = minted /\ (Early' => Early)
    BY <1>1, <1>6, <2>1, Growing
  <2>2. CASE Upset /\ (minted' = minted \/ (minted' = minted + 1 /\ (Early' => Early)))
    <3>1. upsets' = upsets + 1
      BY <2>2, UpsetFacts
    <3>2. CASE minted' = minted
      BY <1>1, <1>6, <3>1, <3>2, Growing
    <3>3. CASE minted' = minted + 1 /\ (Early' => Early)
      BY <1>1, <1>6, <3>1, <3>3, Growing
    <3> QED
      BY <2>2, <3>2, <3>3
  <2>3. CASE minted' = minted + 1 /\ Early /\ ~Early'
    BY <1>1, <1>6, <2>3, Growing
  <2> QED
    BY <1>3, <2>1, <2>2, <2>3
<1>4. ASSUME pc' = "create" PROVE FirstReconcile' \/ churn' < RecreateLimit
  <2>1. CASE pc = "create"
    <3>1. UNCHANGED wk
      BY <1>4, <2>1 DEF Shape, WalkStep, Fetch, Over, RenderedNow, NarrowedNow, ProbedNow,
                        LookedUp, AppliedNow, ImplicitNow, ResolvedNow, DeletedNow
    <3>2. churn' <= churn
      BY <1>4 DEF PastStep
    <3> QED
      BY <1>1, <2>1, <3>1, <3>2, Bounds DEF Counted, FirstReconcile
  <2>2. CASE pc # "create"
    <3>1. LookedUp
      BY <1>4, <2>2, WalkPCs DEF Shape, PCs
    <3> QED
      BY <1>4, <3>1, SmallestFacts DEF LookedUp, FirstReconcile
  <2> QED
    BY <2>1, <2>2
<1> QED
  BY <1>2, <1>4, <1>5 DEF Counted, Early

\* What becomes of LiteLLM's rows: a row is an old one, perhaps with another
\* body, or the one just made, whose id is the resource's name or a new one.
LEMMA RowFacts ==
  ASSUME TypeOK, Counted, RowStep
  PROVE  /\ Known \subseteq Known'
         /\ \A s \in rows' : \/ \E r \in rows : r.id = s.id
                             \/ pc = "create" /\ pc' # "create" /\ s.id = NamedId
                             \/ s.id \in Known' \ Known
<1>1. minted \in Nat /\ minted \in 0 .. Len(ServerIds)
  BY Bounds DEF TypeOK
<1>2. minted' = minted => Known' = Known
  BY DEF Known
<1>3. CASE UNCHANGED minted /\ rows' \subseteq rows
  BY <1>2, <1>3
<1>4. CASE pc = "create" /\ pc' # "create" /\ UNCHANGED minted
           /\ rows' = rows \cup {[id |-> NamedId, body |-> body]}
  BY <1>2, <1>4
<1>5. CASE /\ (pc = "bootstrap" \/ Upset) /\ minted' = minted + 1
           /\ rows' = rows \cup {[id |-> NextServerId, body |-> ImplicitDefaultBody]}
  <2>1. minted < Len(ServerIds)
    BY <1>1, <1>5, Bounds, TeamAssumption DEF Counted, TypeOK, Upset
  <2>2. NextServerId \notin Known /\ Known' = Known \cup {NextServerId}
    BY <1>1, <1>5, <2>1, NextIdFacts
  <2> QED
    BY <1>5, <2>2
<1>6. CASE OutOfBandCreate
  BY <1>5, <1>6 DEF OutOfBandCreate
<1>7. CASE \E i, o : \E b \in Bodies : Sent(i, b) /\ b.grant \in [Groups -> Versions] /\ Update(i, b, o)
  <2>1. PICK i, o : \E b \in Bodies : Sent(i, b) /\ b.grant \in [Groups -> Versions] /\ Update(i, b, o)
    BY <1>7
  <2>2. PICK b \in Bodies : b.grant \in [Groups -> Versions] /\ Update(i, b, o)
    BY <2>1
  <2>3. minted' = minted /\ \A s \in rows' : \E r \in rows : r.id = s.id
    BY <2>2, UpdateFacts
  <2> QED
    BY <1>2, <2>3
<1> QED
  BY <1>3, <1>4, <1>5, <1>6, <1>7 DEF RowStep

LEMMA StepIdsKnown ==
  ASSUME TypeOK, Counted, IdsKnown, Shape PROVE IdsKnown'
<1>0. Known \subseteq Known' /\ 0 \in Known /\ NamedId \in Known
  BY RowFacts DEF Shape, Known
<1>1. \A s \in rows' : s.id \in Known'
  BY <1>0, RowFacts DEF Shape, IdsKnown
<1>2. obj'.id \in Known'
  <2>1. obj'.id \in {0, obj.id, wk.id}
    BY ObjFacts DEF Shape, ObjStep, Wrote, SameStatus
  <2> QED
    BY <1>0, <2>1 DEF IdsKnown
<1>3. seen'.id \in Known'
  BY <1>0 DEF Shape, SeenStep, Sync, Crash, IdsKnown
<1>4. Smallest \in Known
  BY <1>0, SmallestFacts DEF IdsKnown, TypeOK
<1>5. wk'.id \in Known' /\ target' \in Known'
  <2>1. CASE UNCHANGED <<pc, wk, body, target>> \/ Over \/ Fetch
    BY <1>0, <2>1, AbsentFacts DEF Over, Fetch, IdsKnown
  <2>2. CASE RenderedNow \/ LookedUp \/ ImplicitNow \/ ResolvedNow \/ DeletedNow
    BY <1>0, <1>4, <2>2 DEF RenderedNow, LookedUp, ImplicitNow, ResolvedNow, DeletedNow, IdsKnown
  <2>3. CASE NarrowedNow \/ ProbedNow \/ AppliedNow
    BY <1>0, <2>3, WalkFacts DEF NarrowedNow, ProbedNow, AppliedNow, IdsKnown
  <2> QED
    BY <2>1, <2>2, <2>3 DEF Shape, WalkStep
<1> QED
  BY <1>1, <1>2, <1>3, <1>5 DEF IdsKnown

\* While the worker walks on with a copy, the copy stays the same resource.
LEMMA WalkOurs ==
  ASSUME TypeOK, Paths, WalkStep, ~Over
  PROVE  /\ WkOurs' => WkOurs \/ (Fetch /\ SeenOurs)
         /\ pc' = "groups" => (pc = "groups" /\ wk' = wk) \/ (Fetch /\ seen.phase = "live")
         /\ pc' \in DelPCs => (pc \in DelPCs /\ wk' = wk) \/ (Fetch /\ seen.phase = "deleting")
         /\ pc' \in ImplicitPCs => pc \in ImplicitPCs \/ (Fetch /\ seen.phase = "absent")
<1>1. CASE UNCHANGED <<pc, wk, body, target>>
  BY <1>1 DEF WkOurs
<1>2. CASE Fetch
  BY <1>2, FetchFacts DEF WkOurs, SeenOurs, LivePCs, DelPCs, ImplicitPCs
<1>3. CASE RenderedNow \/ LookedUp \/ ImplicitNow \/ ResolvedNow \/ DeletedNow
  BY <1>3 DEF RenderedNow, LookedUp, ImplicitNow, ResolvedNow, DeletedNow, NextCall, WkOurs,
              LivePCs, DelPCs, ImplicitPCs
<1>4. CASE NarrowedNow \/ ProbedNow \/ AppliedNow
  BY <1>4, WalkFacts DEF NarrowedNow, ProbedNow, AppliedNow, SameCopy, WkOurs,
                         LivePCs, DelPCs, ImplicitPCs
<1> QED
  BY <1>1, <1>2, <1>3, <1>4 DEF WalkStep

LEMMA StepPinned == ASSUME TypeOK, Paths, Pinned, Shape PROVE Pinned'
<1>1. CASE WalkStep /\ UNCHANGED <<obj, seen>>
  <2>1. CASE Over
    BY <1>1, <2>1 DEF Over, Pinned, SeenOurs, WkOurs, LivePCs, DelPCs
  <2>2. CASE ~Over
    <3>1. WkOurs' => obj.fin /\ seen.fin
      BY <1>1, <2>2, WalkOurs DEF Pinned, SeenOurs
    <3>2. pc' = "groups" /\ ~wk'.fin => obj.fin \/ seen.phase # "deleting"
      BY <1>1, <2>2, WalkOurs DEF Pinned
    <3>3. pc' \in DelPCs /\ obj.fin => obj.phase = "deleting" /\ (seen = wk' \/ seen = obj)
      BY <1>1, <2>2, WalkOurs, FetchFacts DEF Pinned
    <3> QED
      BY <1>1, <3>1, <3>2, <3>3 DEF Pinned, SeenOurs
  <2> QED
    BY <2>1, <2>2
<1>2. CASE Wrote
  BY <1>2 DEF Wrote, Over, Pinned, SeenOurs, WkOurs, LivePCs, DelPCs
<1>3. CASE AddedFin
  BY <1>3, ObjFacts DEF AddedFin, Over, Pinned, Paths, SeenOurs, WkOurs, LivePCs, DelPCs
<1>4. CASE Dropped
  BY <1>4, ObjFacts DEF Dropped, Over, Pinned, Paths, SeenOurs, WkOurs, LivePCs, DelPCs
<1>5. CASE ApplyObj \/ EditSpec \/ DeleteObj
  <2>1. UNCHANGED <<seen, wk, pc>>
    BY <1>5 DEF ApplyObj, EditSpec, DeleteObj, wkVars
  <2>2. CASE ApplyObj
    BY <2>1, <2>2, ObjFacts DEF Pinned, SeenOurs, WkOurs
  <2>3. CASE EditSpec
    BY <2>1, <2>3, ObjFacts DEF Pinned, SeenOurs, WkOurs
  <2>4. CASE DeleteObj
    BY <2>1, <2>4, ObjFacts DEF Pinned, SeenOurs, WkOurs
  <2> QED
    BY <1>5, <2>2, <2>3, <2>4
<1>6. CASE Sync
  BY <1>6 DEF Sync, wkVars, Pinned, SeenOurs, WkOurs
<1>7. CASE Crash
  BY <1>7 DEF Crash, Pinned, SeenOurs, WkOurs, LivePCs, DelPCs
<1> QED
  BY <1>1, <1>2, <1>3, <1>4, <1>5, <1>6, <1>7, ShapeCases

LEMMA StepUntouched == ASSUME TypeOK, Paths, Untouched, Shape PROVE Untouched'
<1>1. CASE WalkStep /\ UNCHANGED <<obj, seen>>
  <2>1. CASE Over
    BY <1>1, <2>1 DEF Over, Untouched, DelPCs, ImplicitPCs
  <2>2. CASE ~Over
    BY <1>1, <2>2, WalkOurs DEF Untouched
  <2> QED
    BY <2>1, <2>2
<1>2. CASE Wrote
  BY <1>2 DEF Wrote, Over, Untouched, DelPCs, ImplicitPCs
<1>3. CASE AddedFin
  BY <1>3, ObjFacts DEF AddedFin, Over, Untouched, SameStatus, DelPCs, ImplicitPCs
<1>4. CASE Dropped
  BY <1>4, ObjFacts DEF Untouched
<1>5. CASE ApplyObj \/ EditSpec \/ DeleteObj
  <2>1. UNCHANGED <<seen, pc>>
    BY <1>5 DEF ApplyObj, EditSpec, DeleteObj, wkVars
  <2> QED
    BY <1>5, <2>1, ObjFacts DEF Untouched, SameStatus
<1>6. CASE Sync
  BY <1>6 DEF Sync, wkVars, Untouched
<1>7. CASE Crash
  BY <1>7 DEF Crash, Untouched, DelPCs, ImplicitPCs
<1> QED
  BY <1>1, <1>2, <1>3, <1>4, <1>5, <1>6, <1>7, ShapeCases

LEMMA StepOneAlias == ASSUME TypeOK, OneAlias, Shape, PastStep PROVE OneAlias'
<1> SUFFICES ASSUME "duplicate" \notin past'
             PROVE  /\ \A r, s \in rows' : r = s
                    /\ pc' \in {"create", "bootstrap"} => rows' = {}
  BY DEF OneAlias
<1>1. /\ \A r, s \in rows : r = s
      /\ pc \in {"create", "bootstrap"} => rows = {}
  BY DEF OneAlias, PastStep
<1>2. pc' \in {"create", "bootstrap"} => pc' = pc \/ (pc \in {"decide", "implicit"} /\ rows = {})
  <2>1. ASSUME pc' = "create", pc # "create" PROVE pc = "decide" /\ rows = {}
    BY <2>1, WalkPCs, SmallestFacts DEF Shape, PCs, LookedUp, TypeOK
  <2>2. ASSUME pc' = "bootstrap", pc # "bootstrap" PROVE pc = "implicit" /\ rows = {}
    BY <2>2, WalkPCs, SmallestFacts DEF Shape, PCs, ImplicitNow, TypeOK
  <2> QED
    BY <2>1, <2>2
<1>3. CASE rows' \subseteq rows
  BY <1>1, <1>2, <1>3
<1>4. CASE pc = "create" /\ pc' # "create" /\ rows' = rows \cup {[id |-> NamedId, body |-> body]}
  BY <1>1, <1>2, <1>4
<1>5. CASE pc = "bootstrap" /\ Over /\ rows' = rows \cup {[id |-> NextServerId, body |-> ImplicitDefaultBody]}
  BY <1>1, <1>5 DEF Over
<1>6. CASE OutOfBandCreate
  BY <1>6 DEF OutOfBandCreate
<1>7. CASE \E i, o : \E b \in Bodies : Sent(i, b) /\ b.grant \in [Groups -> Versions] /\ Update(i, b, o)
  <2>1. PICK i, o : \E b \in Bodies : Sent(i, b) /\ b.grant \in [Groups -> Versions] /\ Update(i, b, o)
    BY <1>7
  <2>2. PICK b \in Bodies : b.grant \in [Groups -> Versions] /\ Update(i, b, o)
    BY <2>1
  <2>3. (\A r, s \in rows' : r = s) /\ (rows = {} <=> rows' = {})
    BY <1>1, <2>2, UpdateFacts
  <2> QED
    BY <1>1, <1>2, <2>3
<1> QED
  BY <1>3, <1>4, <1>5, <1>6, <1>7 DEF Shape, RowStep

\* An id without a team stays so, except for the resource's own name while the
\* worker creates.
LEMMA GoneKept ==
  ASSUME TypeOK, Counted, Shape, NEW i \in Known, Gone(i),
         pc # "create" \/ pc' = "create" \/ i # NamedId
  PROVE  Gone(i)'
  BY RowFacts DEF Shape, Gone, RowOf

LEMMA NobodysZero == TypeOK => Gone(0)
  BY IdFacts DEF TypeOK, Gone, RowOf, Rows

LEMMA StepLeaves == ASSUME SafeInv, TypeOK', Shape, PastStep PROVE Leaves'
<1>0. TypeOK /\ Paths /\ Counted /\ IdsKnown /\ Pinned /\ Leaves
  BY DEF SafeInv
<1>1. ASSUME NEW i \in Known, Gone(i), ~obj.fin \/ ~seen.fin \/ pc # "create"
      PROVE \A r \in rows' : r.id # i
  <2>1. pc # "create"
    BY <1>0, <1>1 DEF Pinned, Paths, WkOurs, LivePCs
  <2> QED
    BY <1>0, <1>1, <2>1, GoneKept DEF Gone, RowOf
<1>2. /\ obj.id \in Known /\ seen.id \in Known /\ wk.id \in Known
      /\ UNCHANGED <<name, policy>> /\ (conn = "Absent" => conn' = "Absent")
      /\ \A r \in rows' : r.id # 0
  BY <1>0, IdFacts DEF IdsKnown, Shape, PastStep, TypeOK, Rows
<1>3. pc' = "delete" /\ wk'.id # 0 => target' = wk'.id
  <2>1. pc' = "delete" => (pc = "delete" /\ UNCHANGED <<wk, target>>) \/ ResolvedNow
    BY <1>0, FetchFacts DEF Shape, WalkStep, Over, RenderedNow, NarrowedNow, ProbedNow, LookedUp,
       AppliedNow, ImplicitNow, DeletedNow
  <2> QED
    BY <1>0, <2>1 DEF ResolvedNow, NextCall, Leaves
<1>4. obj'.phase = "live" /\ ~obj'.fin => Gone(obj.id)'
  <2> SUFFICES ASSUME obj'.phase = "live", ~obj'.fin PROVE Gone(obj.id)'
    OBVIOUS
  <2>1. CASE obj' = obj
    BY <1>0, <1>1, <1>2, <2>1 DEF Leaves, Gone, RowOf
  <2>2. CASE Wrote
    <3>1. obj.phase = "live" /\ ~obj.fin /\ seen = obj
      BY <2>2 DEF Wrote
    <3>2. CASE obj'.id = obj.id
      BY <1>0, <1>1, <1>2, <3>1, <3>2 DEF Leaves, Gone, RowOf
    <3>3. CASE obj'.id = wk.id /\ wk.id # 0
      <4>1. pc = "delete" /\ name # "default"
        BY <1>0, <2>2, <3>1, <3>3 DEF Wrote, Pinned, WkOurs, Paths
      <4> QED
        BY <1>0, <1>1, <1>2, <3>1, <3>3, <4>1 DEF Leaves, Gone, RowOf
    <3> QED
      BY <2>2, <3>2, <3>3 DEF Wrote
  <2>3. CASE AddedFin \/ Dropped \/ DeleteObj
    BY <1>0, <2>3, ObjFacts
  <2>4. CASE ApplyObj
    BY <1>0, <1>2, <2>4, ObjFacts DEF Gone, RowOf
  <2>5. CASE EditSpec
    BY <1>0, <1>1, <1>2, <2>5, ObjFacts DEF SameStatus, Leaves, Gone, RowOf
  <2> QED
    BY <2>1, <2>2, <2>3, <2>4, <2>5 DEF Shape, ObjStep
<1>5. seen'.phase = "live" /\ ~seen'.fin => Gone(seen.id)'
  <2>1. CASE seen' = seen
    BY <1>0, <1>1, <1>2, <2>1 DEF Leaves, Gone, RowOf
  <2>2. CASE seen' = obj
    BY <1>0, <1>1, <1>2, <2>2 DEF Leaves, Gone, RowOf
  <2> QED
    BY <2>1, <2>2 DEF Shape, SeenStep, Sync, Crash
<1>6. ASSUME name # "default", seen'.phase = "deleting", ~obj'.fin
      PROVE  conn' = "Absent" \/ Gone(seen.id)'
  <2>1. CASE Dropped
    <3>1. seen = obj /\ seen' = seen /\ obj = wk /\ conn' = conn /\ pc = "drop" /\ obj.fin
      BY <1>0, <2>1 DEF Dropped, Pinned, Paths, DelPCs
    <3>2. conn = "Absent" \/ Gone(wk.id)
      BY <1>0, <1>6, <3>1 DEF Leaves, LeftBehind
    <3> QED
      BY <1>1, <1>2, <3>1, <3>2 DEF Gone, RowOf
  <2>2. CASE ~Dropped
    <3>1. ~obj.fin /\ seen' = seen
      BY <1>0, <1>6, <2>2, ShapeCases, ObjFacts DEF Wrote, AddedFin, ApplyObj, EditSpec, DeleteObj,
         Sync, Crash, Pinned
    <3> QED
      BY <1>0, <1>1, <1>2, <1>6, <3>1 DEF Leaves, Gone, RowOf
  <2> QED
    BY <2>1, <2>2
<1>7. ASSUME pc' \in DelPCs, ~obj'.fin PROVE ~obj.fin
  <2>1. ~Over
    BY <1>7 DEF Over, DelPCs
  <2> QED
    BY <1>0, <1>7, <2>1, ShapeCases, ObjFacts DEF Wrote, AddedFin, Dropped, ApplyObj, Sync, Crash,
       Over, Pinned
<1>8. ASSUME name # "default", pc' = "resolve", ~obj'.fin
      PROVE  conn' = "Absent" \/ Gone(wk.id)'
  <2>1. ~obj.fin
    BY <1>7, <1>8 DEF DelPCs
  <2>2. CASE pc = "resolve" /\ UNCHANGED wk
    BY <1>0, <1>1, <1>2, <1>8, <2>1, <2>2 DEF Leaves, Gone, RowOf
  <2>3. CASE Fetch /\ seen.phase = "deleting"
    BY <1>0, <1>1, <1>2, <1>8, <2>1, <2>3, FetchFacts DEF Leaves, Gone, RowOf
  <2>4. ~Over /\ WalkStep
    BY <1>8 DEF Over, Shape
  <2>5. pc = "resolve" \/ Fetch
    BY <1>0, <1>8, <2>4, WalkPCs DEF PCs
  <2> QED
    BY <1>0, <1>8, <2>2, <2>3, <2>4, <2>5, WalkOurs, FetchFacts DEF DelPCs
<1>9. ASSUME name # "default", pc' = "delete", ~obj'.fin PROVE Gone(wk.id)'
  <2>1. ~obj.fin
    BY <1>7, <1>9 DEF DelPCs
  <2>2. ~Over /\ WalkStep
    BY <1>9 DEF Over, Shape
  <2>3. pc = "delete" \/ ResolvedNow
    BY <1>0, <1>9, <2>2, WalkPCs DEF PCs
  <2>4. UNCHANGED wk
    BY <1>0, <1>9, <2>2, <2>3, WalkOurs, FetchFacts DEF DelPCs, ResolvedNow
  <2>5. Gone(wk.id)
    BY <1>0, <1>9, <2>1, <2>3 DEF Leaves, ResolvedNow
  <2> QED
    BY <1>1, <1>2, <2>1, <2>4, <2>5 DEF Gone, RowOf
<1>10. ASSUME name # "default", pc' = "drop", obj'.fin PROVE Gone(wk.id)' \/ LeftBehind'
  <2>1. ~Over /\ WalkStep
    BY <1>10 DEF Over, Shape
  <2>2. (pc = "drop" /\ UNCHANGED wk) \/ ResolvedNow \/ DeletedNow
    BY <1>0, <1>10, <2>1, WalkPCs, WalkOurs DEF PCs, DelPCs, Fetch
  <2>3. ASSUME LeftBehind PROVE LeftBehind'
    <3>1. ~ApplyObj
      BY <1>0, <1>10, ObjFacts
    <3> QED
      BY <1>2, <2>1, <2>3, <3>1 DEF LeftBehind, PastStep, Effective
  <2>4. CASE pc = "drop" /\ UNCHANGED wk
    <3>1. obj.fin
      BY <1>0, <1>10, <2>1, <2>4, ShapeCases, ObjFacts DEF Wrote, AddedFin, Dropped, Over, Sync, Crash
    <3> QED
      BY <1>0, <1>1, <1>2, <1>10, <2>3, <2>4, <3>1 DEF Leaves, Gone, RowOf
  <2>5. CASE ResolvedNow
    <3>1. CASE Smallest = 0
      <4>1. Gone(wk.id) /\ wk' = wk
        BY <1>0, <2>5, <3>1, SmallestFacts DEF TypeOK, Gone, RowOf, ResolvedNow
      <4> QED
        BY <1>1, <1>2, <2>5, <4>1 DEF Gone, RowOf, ResolvedNow
    <3>2. CASE Effective = "Orphan" /\ conn = "Absent" /\ "leftOnCause" \in past'
      BY <1>2, <3>2 DEF LeftBehind, Effective
    <3> QED
      BY <1>10, <2>5, <3>1, <3>2 DEF ResolvedNow, NextCall
  <2>6. CASE DeletedNow
    <3>1. pc = "delete" /\ wk' = wk /\ rows' = rows \ RowOf(target)
      BY <1>0, <1>10, <2>6 DEF DeletedNow, Paths
    <3>2. wk.id = 0 \/ target = wk.id
      BY <1>0, <3>1 DEF Leaves
    <3> QED
      BY <1>2, <3>1, <3>2 DEF Gone, RowOf
  <2> QED
    BY <2>2, <2>4, <2>5, <2>6
<1>11. NoSilentLeak'
  <2> SUFFICES ASSUME name # "default", obj'.phase = "absent", ~Gone(obj.id)'
               PROVE  LeftBehind' \/ (Effective = "Orphan" /\ "leftOnCause" \in past')
    BY <1>2 DEF NoSilentLeak, LeftBehind, Effective, Gone
  <2>1. CASE Dropped
    <3>1. obj = wk /\ conn' = conn /\ pc = "drop" /\ obj.fin /\ past' = past /\ rows' = rows
      BY <1>0, <2>1 DEF Dropped, Paths, DelPCs
    <3>2. obj'.id = wk.id
      BY <1>0, <2>1, <3>1, ObjFacts DEF SameStatus
    <3> QED
      BY <1>0, <1>2, <3>1, <3>2 DEF Leaves, LeftBehind, Gone, RowOf
  <2>2. CASE DeleteObj
    <3>1. obj.phase = "live" /\ ~obj.fin /\ obj'.id = obj.id
      BY <1>0, <2>2, ObjFacts DEF SameStatus
    <3> QED
      BY <1>0, <1>1, <1>2, <3>1 DEF Leaves, Gone, RowOf
  <2>3. CASE obj' = obj
    <3>1. ~obj.fin /\ ~ApplyObj
      BY <1>0, <2>3, ObjFacts DEF Pinned
    <3>2. ~Gone(obj.id)
      BY <1>1, <1>2, <2>3, <3>1 DEF Gone, RowOf
    <3>3. Effective = "Orphan" /\ "leftOnCause" \in past
      BY <1>0, <2>3, <3>2, NobodysZero DEF Leaves, NoSilentLeak, Gone
    <3> QED
      BY <2>3, <3>1, <3>3 DEF PastStep
  <2> QED
    BY <1>0, <2>1, <2>2, <2>3, ObjFacts DEF Shape, ObjStep, Wrote, AddedFin, Paths, LivePCs
<1> QED
  BY <1>2, <1>3, <1>4, <1>5, <1>6, <1>8, <1>9, <1>10, <1>11 DEF Leaves

LEMMA StepGenerations ==
  ASSUME TypeOK, TypeOK', Paths, Pinned, Generations, Shape PROVE Generations'
<1>0. obj.gen \in Nat /\ seen.gen \in Nat /\ wk.gen \in Nat /\ obj.obs \in Nat
  BY Bounds DEF TypeOK, Objs, Versions
<1>1. CASE WalkStep /\ UNCHANGED <<obj, seen>>
  <2>1. ASSUME obj.phase = "live", WkOurs' PROVE SameSpec(wk)'
    <3>1. ~Over /\ ~(pc = "idle" /\ WkOurs)
      BY <2>1 DEF Over, WkOurs, LivePCs
    <3>2. CASE Fetch /\ SeenOurs
      BY <1>1, <2>1, <3>2 DEF Fetch, Generations, SameSpec
    <3>3. CASE WkOurs /\ SameCopy
      BY <1>1, <2>1, <3>3 DEF SameCopy, Generations, SameSpec
    <3>4. SameCopy \/ Fetch
      <4>1. wk' = wk => SameCopy
        BY DEF SameCopy
      <4> QED
        BY <1>1, <3>1, <4>1, WalkFacts DEF WalkStep
    <3> QED
      BY <1>1, <2>1, <3>1, <3>2, <3>3, <3>4, WalkOurs, FetchFacts
  <2> QED
    BY <1>1, <2>1 DEF Generations, SeenOurs, SameSpec
<1>2. CASE Wrote
  <2>1. ~WkOurs'
    BY <1>2 DEF Wrote, Over, WkOurs, LivePCs
  <2>2. ASSUME obj'.phase = "live", obj'.reason \in {"Synced", "AccessGroupNotFound"}
        PROVE  obj'.obs <= obj'.gen
    <3>1. obj.phase = "live" /\ WkOurs
      BY <1>2, <2>2 DEF Wrote, WkOurs, Paths, LivePCs
    <3> QED
      BY <1>2, <3>1 DEF Wrote, Generations, SameSpec
  <2> QED
    BY <1>2, <2>1, <2>2 DEF Wrote, Generations, SeenOurs, SameSpec
<1>3. CASE AddedFin
  <2>1. ~WkOurs'
    BY <1>3 DEF AddedFin, Over, WkOurs, LivePCs
  <2>2. ~SeenOurs'
    BY <1>3 DEF AddedFin, Pinned, SeenOurs
  <2> QED
    BY <1>3, <2>1, <2>2, ObjFacts DEF Generations, SameStatus
<1>4. CASE Dropped \/ ApplyObj
  <2>1. CASE Dropped
    BY <2>1, ObjFacts DEF Generations
  <2>2. CASE ApplyObj
    <3>1. ~WkOurs' /\ ~SeenOurs'
      BY <2>2 DEF ApplyObj, wkVars, Pinned, SeenOurs, WkOurs
    <3> QED
      BY <2>2, <3>1, ObjFacts DEF Generations
  <2> QED
    BY <1>4, <2>1, <2>2
<1>5. CASE EditSpec
  <2>1. UNCHANGED <<seen, wk, pc>>
    BY <1>5 DEF EditSpec, wkVars
  <2>2. obj.phase = "live" /\ obj'.gen = obj.gen + 1 /\ SameStatus
    BY <1>5, ObjFacts
  <2>3. SeenOurs => seen.gen <= obj.gen
    BY <2>2 DEF Generations, SameSpec
  <2>4. WkOurs => wk.gen <= obj.gen
    BY <2>2 DEF Generations, SameSpec
  <2>5. obj.reason \in {"Synced", "AccessGroupNotFound"} => obj.obs <= obj.gen
    BY <2>2 DEF Generations
  <2>6. \A g \in Nat : g <= obj.gen => g <= obj'.gen /\ g # obj'.gen
    BY <1>0, <2>2
  <2>7. SeenOurs => seen.gen <= obj'.gen /\ seen.gen # obj'.gen
    BY <1>0, <2>3, <2>6
  <2>8. WkOurs => wk.gen <= obj'.gen /\ wk.gen # obj'.gen
    BY <1>0, <2>4, <2>6
  <2>9. obj'.reason \in {"Synced", "AccessGroupNotFound"} => obj'.obs <= obj'.gen
    BY <1>0, <2>2, <2>5, <2>6 DEF SameStatus
  <2> QED
    BY <2>1, <2>7, <2>8, <2>9 DEF Generations, SameSpec, SeenOurs, WkOurs
<1>6. CASE DeleteObj
  <2>1. UNCHANGED <<seen, wk, pc>> /\ obj.phase = "live"
    BY <1>6 DEF DeleteObj, wkVars
  <2> QED
    BY <1>6, <2>1, ObjFacts DEF Generations
<1>7. CASE Sync
  BY <1>0, <1>7 DEF Sync, wkVars, Generations, SeenOurs, WkOurs, SameSpec
<1>8. CASE Crash
  <2>1. ~WkOurs' /\ seen' = obj /\ obj' = obj
    BY <1>8 DEF Crash, WkOurs, LivePCs
  <2> QED
    BY <1>0, <2>1 DEF Generations, SeenOurs, SameSpec
<1> QED
  BY <1>1, <1>2, <1>3, <1>4, <1>5, <1>6, <1>7, <1>8, ShapeCases

LEMMA StepIdHash ==
  ASSUME TypeOK, Paths, Pinned, IdHash, Shape PROVE IdHash'
<1>1. CASE WalkStep /\ UNCHANGED <<obj, seen>>
  <2>1. CASE Over
    BY <1>1, <2>1 DEF Over, IdHash, SeenOurs, WkOurs, LivePCs, DelPCs
  <2>2. CASE Fetch
    <3>1. pc' \in {"idle", "implicit", "resolve", "groups"} /\ wk' = seen /\ (WkOurs' => SeenOurs)
      BY <2>2, FetchFacts DEF WkOurs, SeenOurs, LivePCs
    <3> QED
      BY <1>1, <3>1 DEF IdHash, SeenOurs
  <2>3. CASE UNCHANGED <<pc, wk, body, target>>
    BY <1>1, <2>3 DEF IdHash, SeenOurs, WkOurs
  <2>4. CASE RenderedNow \/ LookedUp \/ ImplicitNow \/ ResolvedNow \/ DeletedNow
    <3>1. wk' = wk /\ pc' # "synced" /\ (WkOurs' => WkOurs /\ pc \notin {"synced", "park"})
      BY <2>4 DEF RenderedNow, LookedUp, ImplicitNow, ResolvedNow, DeletedNow, NextCall, WkOurs,
                  LivePCs, DelPCs
    <3>2. pc' \in DelPCs \cup {"groups", "narrow", "probe", "park"} =>
            pc \in DelPCs \cup {"groups", "narrow", "probe", "park"}
      BY <2>4 DEF RenderedNow, LookedUp, ImplicitNow, ResolvedNow, DeletedNow, NextCall, DelPCs
    <3> QED
      BY <1>1, <3>1, <3>2 DEF IdHash, SeenOurs
  <2>5. CASE NarrowedNow
    BY <1>1, <2>5, WalkFacts DEF NarrowedNow, IdHash, SeenOurs, DelPCs
  <2>6. CASE ProbedNow
    BY <1>1, <2>6, WalkFacts DEF ProbedNow, IdHash, SeenOurs, WkOurs, SameCopy, LivePCs, DelPCs
  <2>7. CASE AppliedNow
    BY <1>1, <2>7, WalkFacts, NobodysZero, IdFacts DEF AppliedNow, IdHash, SeenOurs, DelPCs
  <2> QED
    BY <1>1, <2>1, <2>2, <2>3, <2>4, <2>5, <2>6, <2>7 DEF WalkStep
<1>2. CASE Wrote
  BY <1>2 DEF Wrote, Over, IdHash, SeenOurs, WkOurs, LivePCs, DelPCs
<1>3. CASE AddedFin \/ Dropped
  <2>1. Over /\ UNCHANGED seen /\ SameStatus
    BY <1>3, ObjFacts DEF AddedFin, Dropped
  <2> QED
    BY <2>1 DEF Over, SameStatus, IdHash, SeenOurs, WkOurs, LivePCs, DelPCs
<1>4. CASE ApplyObj
  <2>1. ~WkOurs' /\ ~SeenOurs' /\ UNCHANGED <<seen, wk, pc>>
    BY <1>4 DEF ApplyObj, wkVars, Pinned, SeenOurs, WkOurs
  <2> QED
    BY <1>4, <2>1, ObjFacts DEF IdHash
<1>5. CASE EditSpec \/ DeleteObj
  <2>1. UNCHANGED <<seen, wk, pc>> /\ SameStatus
    BY <1>5, ObjFacts DEF EditSpec, DeleteObj, wkVars
  <2> QED
    BY <2>1 DEF IdHash, SameStatus, SeenOurs, WkOurs
<1>6. CASE Sync
  BY <1>6 DEF Sync, wkVars, IdHash, SeenOurs, WkOurs
<1>7. CASE Crash
  BY <1>7 DEF Crash, IdHash, SeenOurs, WkOurs, LivePCs, DelPCs
<1> QED
  BY <1>1, <1>2, <1>3, <1>4, <1>5, <1>6, <1>7, ShapeCases

\* What is rendered is of the copy's version and lacks what does not resolve.
LEMMA RenderFacts ==
  ASSUME TypeOK, RenderedNow
  PROVE  /\ body'.v = wk.v /\ body'.grant \in [Groups -> Versions]
         /\ body'.grant = ClosedTeamGrant(wk.attach)
         /\ pc' = "probe" => wk.attach \subseteq Registered
         /\ pc' = "narrow" => Lacks(body', wk.attach)
<1>1. wk.attach \in SUBSET Groups /\ wk.attach \cap Registered \in SUBSET Groups
  BY DEF TypeOK, Objs
<1>2. body' = [v |-> wk.v, grant |-> ClosedTeamGrant(wk.attach)]
  BY <1>1, GrantFacts DEF RenderedNow
<1>3. ASSUME pc' = "narrow" PROVE Lacks(body', wk.attach)
  <2>1. PICK g \in wk.attach : g \notin Registered
    BY <1>3 DEF RenderedNow
  <2>2. g \in Groups /\ groups[g] = 0
    BY <1>1, <2>1 DEF Registered
  <2>3. ClosedTeamGrant(wk.attach)[g] = 0
    BY <1>1, <2>2, GrantFacts
  <2> QED
    BY <1>2, <2>1, <2>3 DEF Lacks
<1> QED
  BY <1>1, <1>2, <1>3, GrantFacts DEF RenderedNow

LEMMA StepRendering ==
  ASSUME SafeInv, TypeOK', IdHash, Generations, Rendering, Shape PROVE Rendering'
<1>0. TypeOK /\ Paths /\ Counted /\ Pinned
  BY DEF SafeInv
<1>1. WalkStep
  BY DEF Shape
<1>2. ASSUME pc' \in LivePCs \ {"groups"} PROVE body'.v = wk'.v /\ body'.grant \in [Groups -> Versions]
  <2>1. CASE UNCHANGED <<pc, wk, body, target>>
    BY <1>2, <2>1 DEF Rendering
  <2>2. CASE Over \/ Fetch \/ ImplicitNow \/ ResolvedNow \/ DeletedNow
    BY <1>0, <1>2, <2>2, FetchFacts DEF Over, ImplicitNow, ResolvedNow, DeletedNow, NextCall, LivePCs
  <2>3. CASE RenderedNow
    BY <1>0, <2>3, RenderFacts DEF RenderedNow
  <2>4. CASE NarrowedNow \/ ProbedNow \/ AppliedNow \/ LookedUp
    <3>1. pc \in LivePCs \ {"groups"} /\ body' = body /\ wk'.v = wk.v
      BY <1>0, <2>4, WalkFacts DEF NarrowedNow, ProbedNow, AppliedNow, LookedUp, SameCopy, LivePCs
    <3> QED
      BY <3>1 DEF Rendering
  <2> QED
    BY <1>1, <2>1, <2>2, <2>3, <2>4 DEF WalkStep
<1>3. ASSUME pc' = "create" PROVE Gone(NamedId)'
  <2>1. CASE pc = "create"
    BY <1>0, <1>3, <2>1, GoneKept DEF Rendering, Known
  <2>2. CASE pc # "create"
    <3>1. rows = {}
      BY <1>0, <1>1, <1>3, <2>2, WalkPCs, SmallestFacts DEF PCs, LookedUp, TypeOK
    <3>2. Gone(NamedId) /\ NamedId \in Known
      BY <3>1 DEF Gone, RowOf, Known
    <3> QED
      BY <1>0, <2>2, <3>2, GoneKept
  <2> QED
    BY <2>1, <2>2
<1>4. ASSUME pc' = "synced" PROVE wk'.hash = body'
  <2>1. CASE AppliedNow
    BY <1>0, <2>1, WalkFacts DEF AppliedNow
  <2>2. CASE UNCHANGED <<pc, wk, body, target>>
    BY <1>4, <2>2 DEF Rendering
  <2> QED
    BY <1>0, <1>1, <1>4, <2>1, <2>2, FetchFacts DEF WalkStep, Over, RenderedNow, NarrowedNow,
       ProbedNow, LookedUp, ImplicitNow, ResolvedNow, DeletedNow, NextCall
<1>5. ASSUME pc' = "narrow" PROVE Lacks(body', wk'.attach)
  <2>1. CASE RenderedNow
    BY <1>0, <1>5, <2>1, RenderFacts DEF RenderedNow
  <2>2. CASE UNCHANGED <<pc, wk, body, target>>
    BY <1>5, <2>2 DEF Rendering
  <2> QED
    BY <1>0, <1>1, <1>5, <2>1, <2>2, FetchFacts DEF WalkStep, Over, NarrowedNow, AppliedNow,
       ProbedNow, LookedUp, ImplicitNow, ResolvedNow, DeletedNow, NextCall
<1>6. ASSUME pc' = "park" PROVE Lacks(wk'.hash, wk'.attach)
  <2>1. CASE NarrowedNow
    <3>1. Lacks(body, wk.attach) /\ wk'.attach = wk.attach /\ pc = "narrow"
      BY <1>0, <2>1, WalkFacts DEF Rendering, NarrowedNow, SameCopy
    <3>2. CASE wk'.hash = body
      BY <3>1, <3>2
    <3>3. CASE wk' = wk /\ wk.id = 0
      <4>1. wk.hash = NoBody
        BY <3>1, <3>3 DEF IdHash
      <4>2. \E g \in wk.attach : g \in Groups
        BY <1>0, <3>1 DEF Lacks, TypeOK, Objs
      <4>3. \A g \in Groups : NoBody.grant[g] = 0
        BY BodyFacts DEF NoGrant
      <4> QED
        BY <3>3, <4>1, <4>2, <4>3 DEF Lacks
    <3> QED
      BY <1>0, <2>1, <3>2, <3>3, WalkFacts
  <2>2. CASE UNCHANGED <<pc, wk, body, target>>
    BY <1>6, <2>2 DEF Rendering
  <2> QED
    BY <1>0, <1>1, <1>6, <2>1, <2>2, FetchFacts DEF WalkStep, Over, RenderedNow, AppliedNow,
       ProbedNow, LookedUp, ImplicitNow, ResolvedNow, DeletedNow, NextCall
<1>7. ASSUME obj'.phase = "live", obj'.obs = obj'.gen,
             obj'.reason \in {"AccessGroupNotFound", "Synced"}
      PROVE  /\ obj'.reason = "AccessGroupNotFound" => Lacks(obj'.hash, obj'.attach)
             /\ obj'.reason = "Synced" => obj'.hash.v = obj'.v
  <2>1. CASE obj' = obj
    BY <1>7, <2>1 DEF Rendering
  <2>2. CASE Wrote
    <3>1. obj.phase = "live" /\ WkOurs /\ wk.gen = obj.gen
      BY <1>7, <2>2 DEF Wrote, WkOurs, LivePCs
    <3>2. wk.attach = obj.attach /\ wk.v = obj.v
      BY <3>1 DEF Generations, SameSpec
    <3>3. obj'.reason = "AccessGroupNotFound" => Lacks(wk.hash, wk.attach)
      BY <2>2 DEF Wrote, Rendering
    <3>4. obj'.reason = "Synced" => wk.hash.v = wk.v
      BY <2>2 DEF Wrote, Rendering, InSteadyState, LivePCs
    <3> QED
      BY <2>2, <3>2, <3>3, <3>4 DEF Wrote
  <2>3. CASE AddedFin
    BY <1>0, <1>7, <2>3, ObjFacts DEF SameStatus, Rendering
  <2>4. CASE Dropped \/ ApplyObj \/ DeleteObj
    BY <1>0, <1>7, <2>4, ObjFacts
  <2>5. CASE EditSpec
    <3>1. obj.obs \in Nat /\ obj.gen \in Nat
      BY <1>0, Bounds DEF TypeOK, Objs, Versions
    <3>2. obj.obs <= obj.gen /\ obj.obs = obj.gen + 1
      BY <1>0, <1>7, <2>5, ObjFacts DEF SameStatus, Generations
    <3> QED
      BY <3>1, <3>2
  <2> QED
    BY <2>1, <2>2, <2>3, <2>4, <2>5 DEF Shape, ObjStep
<1> QED
  BY <1>2, <1>3, <1>4, <1>5, <1>6, <1>7 DEF Rendering, Lacks

\* A row is as it was, unless the worker has just written it.
LEMMA HoldsKept ==
  ASSUME TypeOK, Counted, Shape, RecordStep, "unrecorded" \notin past', ~NarrowedNow, ~AppliedNow,
         pc \notin {"refresh", "reapply"}, NEW i \in Known, NEW h, Holds(i, h)
  PROVE  \A r \in rows' : r.id = i => r.body = h
<1>1. CASE rows' \subseteq rows
  BY <1>1 DEF Holds, RowOf
<1>2. CASE pc \in Writing
  <2>1. rows' = rows \/ OutOfBandDelete \/ OutOfBandCreate
    BY <1>2 DEF RecordStep
  <2>2. CASE OutOfBandCreate
    <3>1. minted < Len(ServerIds) /\ minted \in 0 .. Len(ServerIds)
      BY <2>2, Bounds, TeamAssumption DEF Counted, TypeOK, OutOfBandCreate, Upset
    <3>2. NextServerId # i
      BY <3>1, NextIdFacts
    <3> QED
      BY <2>2, <3>2 DEF OutOfBandCreate, Holds, RowOf
  <2> QED
    BY <1>1, <2>1, <2>2 DEF OutOfBandDelete
<1>3. CASE pc \notin Writing
  <2>1. CASE /\ pc = "bootstrap" /\ Over /\ minted' = minted + 1
             /\ rows' = rows \cup {[id |-> NextServerId, body |-> ImplicitDefaultBody]}
    <3>1. minted < Len(ServerIds) /\ minted \in 0 .. Len(ServerIds)
      BY <2>1, Bounds, TeamAssumption DEF Counted, TypeOK
    <3>2. NextServerId # i
      BY <3>1, NextIdFacts
    <3> QED
      BY <2>1, <3>2 DEF Holds, RowOf
  <2>2. CASE OutOfBandCreate
    <3>1. minted < Len(ServerIds) /\ minted \in 0 .. Len(ServerIds)
      BY <2>2, Bounds, TeamAssumption DEF Counted, TypeOK, OutOfBandCreate, Upset
    <3>2. NextServerId # i
      BY <3>1, NextIdFacts
    <3> QED
      BY <2>2, <3>2 DEF OutOfBandCreate, Holds, RowOf
  <2> QED
    BY <1>1, <1>3, <2>1, <2>2 DEF Shape, RowStep, Sent, Writing
<1> QED
  BY <1>2, <1>3

\* What a resource is recorded with, and what its copies are, between writes
\* and right after one.
Between ==
  /\ Holds(obj.id, obj.hash)
  /\ SeenOurs /\ seen.hash = obj.hash => Holds(seen.id, obj.hash)
  /\ WkOurs => wk.hash = obj.hash /\ Holds(wk.id, wk.hash)
JustWritten ==
  /\ Holds(wk.id, wk.hash)
  /\ obj.id # wk.id => Holds(obj.id, obj.hash)
  /\ SeenOurs /\ seen.hash = obj.hash /\ seen.id # wk.id => Holds(seen.id, obj.hash)
  /\ wk.id = 0 => wk.hash = obj.hash

LEMMA StepRecorded ==
  ASSUME SafeInv, TypeOK', IdHash, IdHash', Recorded, Shape, PastStep, RecordStep PROVE Recorded'
<1>0. TypeOK /\ Paths /\ Counted /\ IdsKnown /\ Pinned /\ Untouched /\ Leaves
  BY DEF SafeInv
<1> SUFFICES ASSUME "unrecorded" \notin past', obj'.phase = "live"
             PROVE  (~Applying' => Between') /\ (Applying' => JustWritten')
  BY DEF Recorded, Between, JustWritten
<1>1. "unrecorded" \notin past
  BY DEF PastStep
<1>2. /\ obj.id \in Known /\ seen.id \in Known /\ wk.id \in Known
      /\ \A r \in rows' : r.id # 0
  BY <1>0, IdFacts DEF IdsKnown, TypeOK, Rows
<1>3. obj.phase = "live" => (~Applying => Between) /\ (Applying => JustWritten)
  BY <1>1 DEF Recorded, Between, JustWritten
<1>4. ASSUME NEW i \in Known, NEW h, Holds(i, h), ~NarrowedNow, ~AppliedNow,
             pc \notin {"refresh", "reapply"}
      PROVE  \A r \in rows' : r.id = i => r.body = h
  BY <1>0, <1>4, HoldsKept
<1>5. ASSUME Over, obj' = obj, obj.phase = "live", seen' = seen \/ seen' = obj,
             pc \notin {"refresh", "reapply"}
      PROVE  ~Applying' /\ Between'
  <2>1. ~Applying' /\ ~WkOurs' /\ ~NarrowedNow /\ ~AppliedNow
    BY <1>5 DEF Over, Applying, WkOurs, NarrowedNow, AppliedNow, LivePCs
  <2>2. Applying => obj.hash = wk.hash
    BY <1>5 DEF RecordStep
  <2>3. Holds(obj.id, obj.hash)
    BY <1>3, <1>5, <2>2 DEF Between, JustWritten
  <2>4. SeenOurs /\ seen.hash = obj.hash => Holds(seen.id, obj.hash)
    BY <1>3, <1>5, <2>2 DEF Between, JustWritten
  <2>5. \A r \in rows' : r.id = obj.id => r.body = obj.hash
    BY <1>2, <1>4, <1>5, <2>1, <2>3
  <2>6. SeenOurs /\ seen.hash = obj.hash => \A r \in rows' : r.id = seen.id => r.body = obj.hash
    BY <1>2, <1>4, <1>5, <2>1, <2>4
  <2> QED
    BY <1>5, <2>1, <2>5, <2>6 DEF Between, Holds, RowOf, SeenOurs
<1>6. CASE WalkStep /\ UNCHANGED <<obj, seen>>
  <2>1. obj.phase = "live"
    BY <1>6
  <2>2. CASE pc \in {"refresh", "reapply"}
    <3>1. obj.id = 0 /\ (SeenOurs => seen.id = 0)
      BY <1>0, <2>1, <2>2 DEF Untouched, IdHash, DelPCs, ImplicitPCs
    <3>2. ~Applying' /\ ~WkOurs'
      BY <1>0, <1>6, <2>2, FetchFacts DEF WalkStep, Over, RenderedNow, NarrowedNow, AppliedNow,
         ProbedNow, LookedUp, ImplicitNow, ResolvedNow, DeletedNow, Applying, WkOurs, LivePCs
    <3> QED
      BY <1>2, <1>6, <3>1, <3>2 DEF Between, Holds, RowOf, SeenOurs
  <2>3. CASE Over /\ pc \notin {"refresh", "reapply"}
    BY <1>5, <1>6, <2>1, <2>3
  <2>4. CASE NarrowedNow \/ AppliedNow
    <3>1. WkOurs /\ ~Applying /\ Applying' /\ Between
      BY <1>0, <1>3, <2>1, <2>4 DEF Paths, WkOurs, LivePCs, NarrowedNow, AppliedNow, Applying
    <3>2. CASE UNCHANGED <<wk, rows>>
      BY <1>6, <3>1, <3>2 DEF Between, JustWritten, Holds, RowOf, SeenOurs
    <3>3. CASE Confirmed
      <4>1. \A j : j # wk'.id => \A r \in rows' : r.id = j => r \in RowOf(j)
        BY <3>3 DEF Confirmed, RowOf
      <4>2. wk'.id = 0 => wk' = wk
        BY <1>0, <2>4, WalkFacts DEF IdHash, NarrowedNow, AppliedNow
      <4>3. obj'.id # wk'.id => Holds(obj.id, obj.hash)'
        BY <1>6, <3>1, <4>1 DEF Between, Holds, RowOf
      <4>4. SeenOurs' /\ seen'.hash = obj'.hash /\ seen'.id # wk'.id => Holds(seen.id, obj.hash)'
        BY <1>6, <3>1, <4>1 DEF Between, Holds, RowOf, SeenOurs
      <4>5. Holds(wk.id, wk.hash)'
        BY <3>3 DEF Confirmed
      <4>6. wk'.id = 0 => wk'.hash = obj'.hash
        BY <1>6, <3>1, <4>2 DEF Between
      <4> QED
        BY <3>1, <4>3, <4>4, <4>5, <4>6 DEF JustWritten
    <3> QED
      BY <2>4, <3>2, <3>3 DEF RecordStep
  <2>5. CASE ~(NarrowedNow \/ AppliedNow) /\ pc \notin {"refresh", "reapply"} /\ ~Over
    <3>1. \A i \in Known : \A h : Holds(i, h) => \A r \in rows' : r.id = i => r.body = h
      BY <1>4, <2>5
    <3>5. ASSUME Between
          PROVE  /\ \A r \in rows' : r.id = obj.id => r.body = obj.hash
                 /\ SeenOurs /\ seen.hash = obj.hash =>
                      \A r \in rows' : r.id = seen.id => r.body = obj.hash
                 /\ WkOurs => wk.hash = obj.hash /\ \A r \in rows' : r.id = wk.id => r.body = wk.hash
      BY <1>2, <3>1, <3>5 DEF Between
    <3>6. ASSUME JustWritten
          PROVE  /\ \A r \in rows' : r.id = wk.id => r.body = wk.hash
                 /\ obj.id # wk.id => \A r \in rows' : r.id = obj.id => r.body = obj.hash
                 /\ SeenOurs /\ seen.hash = obj.hash /\ seen.id # wk.id =>
                      \A r \in rows' : r.id = seen.id => r.body = obj.hash
                 /\ wk.id = 0 => wk.hash = obj.hash
      BY <1>2, <3>1, <3>6 DEF JustWritten
    <3>2. CASE UNCHANGED <<pc, wk, body, target>>
      <4>1. CASE Applying
        BY <1>3, <1>6, <2>1, <3>2, <3>6, <4>1 DEF Applying, JustWritten, Holds, RowOf, SeenOurs
      <4>2. CASE ~Applying
        BY <1>3, <1>6, <2>1, <3>2, <3>5, <4>2
           DEF Applying, Between, Holds, RowOf, SeenOurs, WkOurs
      <4> QED
        BY <4>1, <4>2
    <3>3. CASE Fetch
      <4>1. pc = "idle" /\ wk' = seen /\ seen.hash = obj.hash /\ ~Applying /\ ~Applying'
        BY <1>0, <3>3, FetchFacts DEF Fetch, Applying
      <4>2. WkOurs' => SeenOurs
        BY <1>0, <3>3, FetchFacts DEF WkOurs, SeenOurs, LivePCs
      <4> QED
        BY <1>3, <1>6, <2>1, <3>5, <4>1, <4>2 DEF Between, Holds, RowOf, SeenOurs
    <3>4. CASE RenderedNow \/ LookedUp \/ ImplicitNow \/ ResolvedNow \/ DeletedNow \/ ProbedNow
      <4>1. ~Applying /\ ~Applying' /\ (WkOurs' => WkOurs)
        BY <1>0, <3>4, WalkFacts DEF RenderedNow, LookedUp, ImplicitNow, ResolvedNow, DeletedNow,
           ProbedNow, SameCopy, NextCall, Applying, WkOurs, LivePCs
      <4>2. wk'.hash = wk.hash /\ wk'.id \in {0, wk.id}
        BY <1>0, <3>4, WalkFacts
      <4> QED
        BY <1>2, <1>3, <1>6, <2>1, <3>5, <4>1, <4>2 DEF Between, Holds, RowOf, SeenOurs
    <3> QED
      BY <1>6, <2>5, <3>2, <3>3, <3>4 DEF WalkStep
  <2> QED
    BY <2>2, <2>3, <2>4, <2>5
<1>7. CASE Wrote
  <2>1. obj.phase = "live" /\ seen = obj /\ UNCHANGED seen /\ obj'.hash = wk.hash
    BY <1>7 DEF Wrote
  <2>2. ~Applying' /\ ~WkOurs' /\ ~NarrowedNow /\ ~AppliedNow /\ pc \notin {"refresh", "reapply"}
    BY <1>7 DEF Wrote, Over, Applying, WkOurs, NarrowedNow, AppliedNow, LivePCs
  <2>3. CASE WkOurs
    <3>1. obj'.id = IF wk.id = 0 THEN obj.id ELSE wk.id
      BY <1>7 DEF Wrote
    <3>2. Holds(obj.id, obj.hash) \/ (Applying /\ obj.id = wk.id)
      BY <1>3, <2>1 DEF Between, JustWritten
    <3>3. Holds(wk.id, wk.hash) /\ (wk.id = 0 => wk.hash = obj.hash)
      BY <1>3, <2>1, <2>3 DEF Between, JustWritten
    <3>4. \A r \in rows' : r.id = wk.id => r.body = wk.hash
      BY <1>2, <1>4, <2>2, <3>3
    <3>5. \/ \A r \in rows' : r.id = obj.id => r.body = obj.hash
          \/ Applying /\ obj.id = wk.id
      BY <1>2, <1>4, <2>2, <3>2
    <3>6. Holds(obj.id, obj.hash)'
      BY <1>2, <2>1, <3>1, <3>3, <3>4, <3>5 DEF Holds, RowOf
    <3>7. seen.hash = obj'.hash => Holds(seen.id, obj.hash)'
      BY <2>1, <3>4, <3>5 DEF Holds, RowOf
    <3> QED
      BY <2>1, <2>2, <3>6, <3>7 DEF Between
  <2>4. CASE ~WkOurs
    <3>1. pc = "delete" \/ (pc = "resolve" /\ wk.id = 0)
      BY <1>7, <2>4 DEF Wrote, WkOurs
    <3>2. ~obj.fin /\ obj.id = 0
      BY <1>0, <2>1, <3>1 DEF Pinned, Untouched, DelPCs
    <3>3. Gone(wk.id)
      BY <1>0, <3>1, <3>2, NobodysZero DEF Leaves, Paths
    <3>4. \A r \in rows' : r.id # wk.id
      BY <1>0, <1>2, <3>1, <3>3, GoneKept DEF Gone, RowOf
    <3>5. obj'.id = 0 \/ obj'.id = wk.id
      BY <1>7, <3>2 DEF Wrote
    <3> QED
      BY <1>2, <2>1, <2>2, <3>2, <3>4, <3>5 DEF Between, Holds, RowOf, SeenOurs
  <2> QED
    BY <2>3, <2>4
<1>8. CASE AddedFin
  <2>1. obj.phase = "live" /\ pc = "groups" /\ UNCHANGED <<seen, rows>> /\ SameStatus /\ ~SeenOurs
    BY <1>0, <1>8, ObjFacts DEF AddedFin, Pinned
  <2>2. ~Applying' /\ ~WkOurs' /\ ~Applying
    BY <1>8 DEF AddedFin, Over, Applying, WkOurs, LivePCs
  <2> QED
    BY <1>3, <2>1, <2>2 DEF Between, Holds, RowOf, SameStatus, SeenOurs
<1>9. CASE ApplyObj
  <2>1. obj'.id = 0 /\ ~WkOurs' /\ ~SeenOurs' /\ UNCHANGED <<pc, wk>>
    BY <1>0, <1>9, ObjFacts DEF ApplyObj, wkVars, Pinned, SeenOurs, WkOurs
  <2>2. ~Applying'
    BY <1>0, <2>1 DEF Applying, Paths, WkOurs, LivePCs
  <2> QED
    BY <1>2, <2>1, <2>2 DEF Between, Holds, RowOf
<1>10. CASE EditSpec
  <2>1. obj.phase = "live" /\ UNCHANGED <<seen, wk, pc, rows>> /\ SameStatus
    BY <1>0, <1>10, ObjFacts DEF EditSpec, wkVars, llmVars
  <2> QED
    BY <1>3, <2>1 DEF Between, JustWritten, Holds, RowOf, SameStatus, SeenOurs, WkOurs, Applying
<1>11. CASE Sync
  <2>1. obj.phase = "live" /\ UNCHANGED <<obj, wk, pc, rows>> /\ seen' = obj
    BY <1>11 DEF Sync, wkVars, llmVars
  <2> QED
    BY <1>3, <2>1 DEF Between, JustWritten, Holds, RowOf, SeenOurs, WkOurs, Applying
<1>12. CASE Crash
  <2>1. Over /\ obj' = obj /\ seen' = obj
    BY <1>12 DEF Crash, Over
  <2>2. CASE pc \in {"refresh", "reapply"}
    <3>1. obj.id = 0 /\ ~Applying' /\ ~WkOurs'
      BY <1>0, <2>1, <2>2 DEF Untouched, DelPCs, ImplicitPCs, Over, Applying, WkOurs, LivePCs
    <3> QED
      BY <1>2, <2>1, <3>1 DEF Between, Holds, RowOf
  <2>3. CASE pc \notin {"refresh", "reapply"}
    BY <1>5, <2>1, <2>3
  <2> QED
    BY <2>2, <2>3
<1> QED
  BY <1>0, <1>6, <1>7, <1>8, <1>9, <1>10, <1>11, <1>12, ShapeCases, ObjFacts

-----------------------------------------------------------------------------
(* The theorems.                                                           *)

LEMMA Start == Init => NarrowInv
<1> SUFFICES ASSUME Init PROVE NarrowInv
  OBVIOUS
<1>1. \/ obj = Absent /\ name = "default"
      \/ \E a \in SUBSET Groups : obj = NewObj(a)
  BY DEF Init
<1>2. /\ obj \in Objs /\ obj.phase \in {"absent", "live"} /\ ~obj.fin /\ obj.gen \in {0, 1}
      /\ obj.id = 0 /\ obj.hash = NoBody /\ obj.reason = "none"
  <2>1. CASE obj = Absent
    BY <2>1, AbsentFacts DEF Absent
  <2>2. CASE \E a \in SUBSET Groups : obj = NewObj(a)
    BY <2>2, NewFacts
  <2> QED
    BY <1>1, <2>1, <2>2
<1>3. /\ seen = obj /\ wk = Absent /\ pc = "idle" /\ body = NoBody /\ target = 0 /\ rows = {}
      /\ minted = 0 /\ past = {} /\ upsets = 0 /\ churn = 0 /\ conn = "Synced" /\ queued = TRUE
  BY DEF Init
<1>4. TypeOK
  <2>1. groups \in [Groups -> Versions]
    BY Bounds DEF Init, Versions
  <2>2. cache \in [hash : Bodies, id : Ids \cup {0}]
    BY BodyFacts DEF Init, NoCache
  <2>3. name \in Names /\ policy \in [owned : BOOLEAN, ann : Written, spec : Written]
    BY TeamAssumption DEF Init
  <2> QED
    BY <1>2, <1>3, <2>1, <2>2, <2>3, AbsentFacts, BodyFacts, Bounds DEF TypeOK, PCs
<1>5. Paths /\ Pinned /\ Untouched /\ OneAlias /\ IdsKnown /\ IdHash
  BY <1>2, <1>3, AbsentFacts DEF Paths, Pinned, Untouched, OneAlias, IdsKnown, IdHash, Known,
     SeenOurs, WkOurs, LivePCs, DelPCs, ImplicitPCs
<1>6. Counted
  BY <1>2, <1>3 DEF Counted
<1>7. \A i : Gone(i)
  BY <1>3 DEF Gone, RowOf
<1>8. Leaves
  BY <1>2, <1>3, <1>7 DEF Leaves, NoSilentLeak
<1>9. Generations /\ Rendering /\ Recorded
  BY <1>2, <1>3 DEF Generations, Rendering, Recorded, SeenOurs, WkOurs, LivePCs, Applying,
     Holds, RowOf
<1> QED
  BY <1>4, <1>5, <1>6, <1>8, <1>9 DEF NarrowInv, SafeInv

LEMMA Step == NarrowInv /\ [Next]_vars => NarrowInv'
<1> SUFFICES ASSUME NarrowInv, [Next]_vars PROVE NarrowInv'
  OBVIOUS
<1>1. SafeInv /\ IdHash /\ Generations /\ Rendering /\ Recorded
  BY DEF NarrowInv
<1>2. TypeOK /\ Paths /\ Counted /\ IdsKnown /\ Pinned /\ Untouched /\ OneAlias
  BY <1>1 DEF SafeInv
<1>3. TypeOK' /\ Shape /\ PastStep /\ RecordStep
  BY <1>1, StepType, Shapes, PastSteps, RecordSteps
<1>4. Paths' /\ Counted' /\ IdsKnown' /\ Pinned' /\ Untouched' /\ OneAlias' /\ Leaves'
  BY <1>1, <1>2, <1>3, StepPaths, StepCounted, StepIdsKnown, StepPinned, StepUntouched,
     StepOneAlias, StepLeaves
<1>5. IdHash' /\ Generations' /\ Rendering'
  BY <1>1, <1>2, <1>3, StepIdHash, StepGenerations, StepRendering
<1>6. Recorded'
  BY <1>1, <1>3, <1>5, StepRecorded
<1> QED
  BY <1>3, <1>4, <1>5, <1>6 DEF NarrowInv, SafeInv

\* The invariant is inductive.
THEOREM Inductive == Spec => []NarrowInv
  BY Start, Step, PTL DEF Spec

\* Whatever the groups and however many upsets, the state keeps its types; in
\* particular the recreate breaker counts no more than its limit, and LiteLLM
\* does not run out of the ids the model gives it.
THEOREM TypeCorrect == Spec => []TypeOK
<1>1. NarrowInv => TypeOK
  BY DEF NarrowInv, SafeInv
<1> QED
  BY <1>1, Inductive, PTL

\* reconcileDeletion: a row is left behind only under Orphan and only when the
\* connection is gone for good.
THEOREM NoLeak == Spec => []NoSilentLeak
<1>1. NarrowInv => NoSilentLeak
  BY DEF NarrowInv, SafeInv, Leaves
<1> QED
  BY <1>1, Inductive, PTL

\* The synthetic reconcile of "default" and the resource's own never make a
\* second team of the alias, whatever is lost or retried.
THEOREM OneRowKept == Spec => []OneRow
<1>1. ASSUME OneAlias PROVE OneRow
  <2> SUFFICES ASSUME "duplicate" \notin past PROVE Cardinality(rows) <= 1
    BY DEF OneRow
  <2>1. CASE rows = {}
    BY <2>1, FS_EmptySet
  <2>2. CASE rows # {}
    <3>1. PICK r \in rows : TRUE
      BY <2>2
    <3>2. \A s \in rows : s = r
      BY <1>1, <3>1 DEF OneAlias
    <3>3. rows = {r}
      BY <3>1, <3>2
    <3>4. Cardinality({r}) = 1
      BY FS_Singleton, Zenon
    <3> QED
      BY <3>3, <3>4
  <2> QED
    BY <2>1, <2>2
<1>2. NarrowInv => OneRow
  BY <1>1 DEF NarrowInv, SafeInv
<1> QED
  BY <1>2, Inductive, PTL

\* narrowAndPark: a team parked for a missing group holds what its status says,
\* which lacks a group the spec attaches, unless a write went unrecorded.
THEOREM NarrowedFirst == Spec => []Narrowed
<1>1. ASSUME NarrowInv PROVE Narrowed
  <2> SUFFICES ASSUME pc = "idle", obj.phase = "live", obj.reason = "AccessGroupNotFound",
                      obj.obs = obj.gen, "unrecorded" \notin past
               PROVE  \A r \in RowOf(obj.id) : /\ r.body = obj.hash
                                               /\ \E g \in obj.attach : r.body.grant[g] = 0
    BY DEF Narrowed
  <2>1. Holds(obj.id, obj.hash)
    BY <1>1 DEF NarrowInv, Recorded, Applying
  <2>2. Lacks(obj.hash, obj.attach)
    BY <1>1 DEF NarrowInv, Rendering
  <2> QED
    BY <2>1, <2>2 DEF Holds, Lacks
<1>2. NarrowInv => Narrowed
  BY <1>1
<1> QED
  BY <1>2, Inductive, PTL

-----------------------------------------------------------------------------
(* Synced tells the truth.                                                 *)

\* The queue: a reconcile that ends with the name not queued and the
\* connection up has met a conflict, or found or written what it wants.
Content ==
  \/ pc \in ImplicitPCs \cup DelPCs
  \/ pc = "groups" /\ (AddedFin \/ (obj' = obj /\ obj # wk))
  \/ pc = "decide" /\ InSteadyState /\ rows' = rows
  \/ pc = "synced" /\ rows' = rows /\ (~Writable \/ Wrote)
RestStep ==
  /\ groups' = groups \/ ChangeGroup
  /\ ~queued' => ~queued \/ Fetch
  /\ conn' = "Synced" => conn = "Synced" \/ queued' \/ seen.phase = "absent"
  /\ pc # "idle" /\ Over /\ ~queued' /\ conn' = "Synced" => Content

LEMMA RestSteps == SafeInv /\ Rendering /\ [Next]_vars => RestStep
<1> SUFFICES ASSUME SafeInv, Rendering, [Next]_vars PROVE RestStep
  OBVIOUS
<1>0. /\ TypeOK /\ Paths /\ Counted
      /\ pc \in LivePCs \ {"groups"} => body.grant \in [Groups -> Versions]
  BY DEF SafeInv, Rendering
<1>1. ASSUME NEW R, Ended(R), UNCHANGED groups, queued' \/ conn' # "Synced" \/ Content
      PROVE  RestStep
  BY <1>1 DEF RestStep, Ended
<1>2. ASSUME UNCHANGED <<groups, queued>>, pc' # "idle", conn' = conn \/ conn' # "Synced"
      PROVE  RestStep
  BY <1>2 DEF RestStep, Over
<1>3. ASSUME UNCHANGED <<groups, queued, conn, pc>> PROVE RestStep
  BY <1>3 DEF RestStep, Over
<1>4. CASE Fetch
  BY <1>4 DEF Fetch, RestStep
<1>5. CASE AddFinalizer
  <2>1. CASE Ended({}) /\ UNCHANGED obj /\ (obj # wk \/ queued')
    BY <1>0, <1>1, <1>5, <2>1, AddFinalizerForm DEF Content
  <2>2. CASE /\ obj = wk /\ obj' = [obj EXCEPT !.fin = TRUE]
             /\ pc' = "idle" /\ wk' = Absent /\ body' = NoBody /\ target' = 0
             /\ UNCHANGED <<queued, upsets>>
    BY <1>0, <1>5, <2>2, AddFinalizerForm DEF RestStep, Content, AddedFin, Over
  <2> QED
    BY <1>0, <1>5, <2>1, <2>2, AddFinalizerForm
<1>6. CASE Gate
  BY <1>0, <1>1, <1>6, GateForm
<1>7. CASE Render
  <2>1. CASE Failed
    BY <1>0, <1>1, <1>7, <2>1, RenderForm DEF Failed
  <2>2. CASE ~Failed
    BY <1>0, <1>2, <1>7, <2>2, RenderForm
  <2> QED
    BY <2>1, <2>2
<1>8. CASE Narrow
  <2>0. body.grant \in [Groups -> Versions]
    BY <1>0, <1>8 DEF Narrow, LivePCs
  <2>1. CASE Failed
    BY <1>0, <1>1, <1>8, <2>0, <2>1, NarrowForm DEF Failed
  <2>2. CASE ~Failed
    BY <1>0, <1>2, <1>8, <2>0, <2>2, NarrowForm DEF Unanswered
  <2> QED
    BY <2>1, <2>2
<1>9. CASE Park
  BY <1>0, <1>1, <1>9, ParkForm
<1>10. CASE Probe
  <2>1. CASE Ended({}) /\ queued'
    BY <1>0, <1>1, <1>10, <2>1, ProbeForm
  <2>2. CASE ~(Ended({}) /\ queued')
    BY <1>0, <1>2, <1>10, <2>2, ProbeForm
  <2> QED
    BY <2>1, <2>2
<1>11. CASE Steady
  BY <1>0, <1>1, <1>11, SteadyForm DEF Content
<1>12. CASE Lookup
  <2>1. CASE Failed \/ (Ended({"RecreateThrottled"}) /\ queued')
    BY <1>0, <1>1, <1>12, <2>1, LookupForm DEF Failed
  <2>2. CASE ~(Failed \/ (Ended({"RecreateThrottled"}) /\ queued'))
    BY <1>0, <1>2, <1>12, <2>2, LookupForm
  <2> QED
    BY <2>1, <2>2
<1>13. CASE CreateNamed
  <2>1. CASE Failed
    BY <1>0, <1>1, <1>13, <2>1, CreateNamedForm DEF Failed
  <2>2. CASE ~Failed
    BY <1>0, <1>2, <1>13, <2>2, CreateNamedForm DEF Unanswered
  <2> QED
    BY <2>1, <2>2
<1>14. CASE UpdateFound
  <2>0. body.grant \in [Groups -> Versions]
    BY <1>0, <1>14 DEF UpdateFound, LivePCs
  <2>1. CASE Failed
    BY <1>0, <1>1, <1>14, <2>0, <2>1, UpdateFoundForm DEF Failed
  <2>2. CASE ~Failed
    BY <1>0, <1>2, <1>14, <2>0, <2>2, UpdateFoundForm DEF Unanswered
  <2> QED
    BY <2>1, <2>2
<1>15. CASE WriteSynced
  <2>1. CASE Ended({}) /\ (~Writable \/ queued')
    BY <1>0, <1>1, <1>15, <2>1, WriteSyncedForm DEF Content
  <2>2. CASE WriteStatus(wk, "Synced") /\ Ended({"Synced"}) /\ UNCHANGED past
    <3>1. Over /\ pc = "synced" /\ pc \in LivePCs /\ wk.fin /\ UNCHANGED <<seen, rows, groups>>
      BY <1>0, <1>15, <2>2, WriteSyncedForm DEF Ended, Over, LivePCs, Paths
    <3>2. Wrote
      BY <1>0, <2>2, <3>1, WriteFacts DEF Wrote, Reasons
    <3>3. Content
      BY <3>1, <3>2 DEF Content
    <3> QED
      BY <1>1, <2>2, <3>1, <3>3
  <2> QED
    BY <1>0, <1>15, <2>1, <2>2, WriteSyncedForm
<1>16. CASE ImplicitLookup
  <2>1. CASE Ended({})
    BY <1>0, <1>1, <1>16, <2>1, ImplicitLookupForm DEF Content, ImplicitPCs
  <2>2. CASE ~Ended({})
    BY <1>0, <1>2, <1>16, <2>2, ImplicitLookupForm
  <2> QED
    BY <2>1, <2>2
<1>17. CASE Bootstrap
  <2>1. minted < Len(ServerIds)
    BY <1>0, <1>17, TeamAssumption DEF Bootstrap, Counted, TypeOK
  <2> QED
    BY <1>0, <1>1, <1>17, <2>1, BootstrapForm DEF Content, ImplicitPCs
<1>18. CASE Refresh
  BY <1>0, <1>1, <1>18, RefreshForm DEF Content, ImplicitPCs
<1>19. CASE DeleteUnavailable
  <2>1. CASE Ended({})
    BY <1>0, <1>1, <1>19, <2>1, DeleteUnavailableForm DEF Content, DelPCs
  <2>2. CASE ~Ended({})
    BY <1>0, <1>2, <1>19, <2>2, DeleteUnavailableForm
  <2> QED
    BY <2>1, <2>2
<1>20. CASE ResolveTeam
  <2>1. CASE Ended(Errors)
    BY <1>0, <1>1, <1>20, <2>1, ResolveTeamForm DEF Content, DelPCs
  <2>2. CASE ~Ended(Errors)
    BY <1>0, <1>2, <1>20, <2>2, ResolveTeamForm DEF NextCall
  <2> QED
    BY <2>1, <2>2
<1>21. CASE Reapply
  <2>1. CASE Ended({})
    BY <1>0, <1>1, <1>21, <2>1, ReapplyForm DEF Content, DelPCs
  <2>2. CASE ~Ended({})
    BY <1>0, <1>2, <1>21, <2>2, ReapplyForm
  <2> QED
    BY <2>1, <2>2
<1>22. CASE DeleteTeam
  <2>1. CASE Ended(Errors)
    BY <1>0, <1>1, <1>22, <2>1, DeleteTeamForm DEF Content, DelPCs
  <2>2. CASE ~Ended(Errors)
    BY <1>0, <1>2, <1>22, <2>2, DeleteTeamForm
  <2> QED
    BY <2>1, <2>2
<1>23. CASE DropFinalizer
  <2>1. pc = "drop" /\ UNCHANGED <<groups, conn>> /\ (queued => queued')
    BY <1>0, <1>23, DropFinalizerForm DEF Ended
  <2> QED
    BY <2>1 DEF RestStep, Content, DelPCs
<1>24. CASE Sync \/ Relist \/ Crash
  BY <1>24 DEF Sync, Relist, Crash, RestStep
<1>25. CASE ChangeGroup
  <2>1. queued => queued'
    BY <1>0, <1>25, Zenon DEF ChangeGroup, TypeOK
  <2>2. UNCHANGED <<pc, conn>>
    BY <1>25 DEF ChangeGroup, wkVars
  <2> QED
    BY <1>25, <2>1, <2>2 DEF RestStep, Over
<1>26. CASE ConnUp
  <2>1. (queued => queued') /\ (seen.phase # "absent" => queued') /\ UNCHANGED <<pc, groups>>
    BY <1>0, <1>26, Zenon DEF ConnUp, TypeOK, wkVars
  <2> QED
    BY <2>1 DEF RestStep, Over
<1>27. CASE ConnDown
  BY <1>27 DEF ConnDown, wkVars, RestStep, Over
<1>28. CASE ApplyObj \/ EditSpec \/ DeleteObj \/ OutOfBandDelete \/ OutOfBandCreate \/ Expire
  BY <1>3, <1>28 DEF ApplyObj, EditSpec, DeleteObj, OutOfBandDelete, OutOfBandCreate, Expire, wkVars
<1>29. CASE UNCHANGED vars
  BY <1>3, <1>29 DEF vars, wkVars
<1> QED
  BY <1>4, <1>5, <1>6, <1>7, <1>8, <1>9, <1>10, <1>11, <1>12, <1>13, <1>14, <1>15, <1>16,
     <1>17, <1>18, <1>19, <1>20, <1>21, <1>22, <1>23, <1>24, <1>25, <1>26, <1>27, <1>28, <1>29
     DEF Next, Reconcile, Outside

LEMMA BodyInts ==
  ASSUME NEW h \in Bodies
  PROVE  h.v \in Int /\ \A g \in Groups : h.grant[g] \in Int
<1>1. Versions \subseteq Int /\ -1 .. MaxUpsets + 1 \subseteq Int
  BY Bounds DEF Versions
<1>2. h.v \in Int /\ (h.grant \in [Groups -> Versions] \/ h.grant = Omitted)
  BY <1>1 DEF Bodies
<1>3. CASE h.grant \in [Groups -> Versions]
  BY <1>1, <1>2, <1>3
<1>4. CASE h.grant = Omitted
  BY <1>2, <1>4 DEF Omitted
<1> QED
  BY <1>2, <1>3, <1>4

LEMMA StillOld ==
  /\ \A u, w \in Nat, m \in Int : u <= w /\ m <= u + 1 => m <= w + 1
  /\ \A u, w \in Nat : w = u + 1 => u + 2 <= w + 1
  /\ \A w \in Nat : 0 <= w + 1 /\ 1 <= w + 1 /\ -1 <= w + 1
  /\ \A u \in Nat, m \in Int : m <= u + 1 => m # u + 2
  OBVIOUS

LEMMA StepVersioned ==
  ASSUME SafeInv, TypeOK', Rendering, Shape, PastStep, RestStep, ~Reverts, Versioned
  PROVE  Versioned'
<1>0. TypeOK /\ Paths /\ Counted /\ Pinned
  BY DEF SafeInv
<1>1. /\ upsets \in Nat /\ upsets' \in Nat /\ upsets <= upsets'
      /\ obj.hash \in Bodies /\ seen.hash \in Bodies /\ wk.hash \in Bodies /\ body \in Bodies
      /\ obj.v \in Int /\ seen.v \in Int /\ wk.v \in Int
  BY <1>0, Bounds DEF TypeOK, Objs, Versions, PastStep, Tick
<1>2. \A m \in Int : m <= upsets + 1 => m <= upsets' + 1
  BY <1>1, StillOld
<1>3. \A h \in Bodies : Old(h) => h.v <= upsets' + 1 /\ \A g \in Groups : h.grant[g] <= upsets' + 1
  BY <1>2, BodyInts DEF Old
<1>4. NoBody.v <= upsets' + 1 /\ \A g \in Groups : NoBody.grant[g] <= upsets' + 1
  BY <1>1, BodyFacts, StillOld DEF NoGrant
<1>5. \A g \in Groups : groups'[g] <= upsets' + 1
  <2>1. CASE groups' = groups
    <3>1. \A g \in Groups : groups[g] \in Int
      BY <1>0, Bounds DEF TypeOK, Versions
    <3> QED
      BY <1>2, <2>1, <3>1 DEF Versioned
  <2>2. CASE ChangeGroup
    <3>1. PICK k \in Groups, n \in {0, upsets + 2} : groups' = [groups EXCEPT ![k] = n]
      BY <2>2 DEF ChangeGroup
    <3>2. upsets' = upsets + 1
      BY <2>2 DEF ChangeGroup, Upset
    <3>3. n <= upsets' + 1
      BY <1>1, <3>2, StillOld
    <3>4. \A g \in Groups : groups[g] \in Int /\ groups[g] <= upsets' + 1
      <4>1. \A g \in Groups : groups[g] \in Int
        BY <1>0, Bounds DEF TypeOK, Versions
      <4> QED
        BY <1>2, <4>1 DEF Versioned
    <3>5. groups \in [Groups -> Versions]
      BY <1>0 DEF TypeOK
    <3> QED
      BY <3>1, <3>3, <3>4, <3>5
  <2> QED
    BY <2>1, <2>2 DEF RestStep
<1>6. obj'.v <= upsets' + 1 /\ (obj'.hash \in {obj.hash, wk.hash, NoBody})
  <2>1. CASE obj' = obj \/ Wrote \/ AddedFin \/ DeleteObj
    BY <1>0, <1>1, <1>2, <2>1, ObjFacts DEF Wrote, SameStatus, Versioned
  <2>2. CASE Dropped
    BY <1>0, <1>1, <1>2, <2>2 DEF Dropped, Versioned, TypeOK, Objs
  <2>3. CASE ApplyObj
    BY <1>0, <1>1, <2>3, ObjFacts, StillOld
  <2>4. CASE EditSpec
    <3>1. upsets' = upsets + 1 /\ obj'.v = upsets + 2 /\ SameStatus
      BY <1>0, <2>4, ObjFacts DEF EditSpec, Upset
    <3> QED
      BY <1>1, <3>1, StillOld DEF SameStatus
  <2> QED
    BY <2>1, <2>2, <2>3, <2>4 DEF Shape, ObjStep
<1>7. seen' \in {seen, obj}
  BY DEF Shape, SeenStep, Sync, Crash
<1>8. wk'.hash \in {wk.hash, seen.hash, body, NoBody} /\ wk'.v \in {wk.v, seen.v, 0}
  <2>1. CASE UNCHANGED <<pc, wk, body, target>> \/ Over \/ Fetch
    BY <2>1, AbsentFacts DEF Over, Fetch
  <2>2. CASE RenderedNow \/ LookedUp \/ ImplicitNow \/ ResolvedNow \/ DeletedNow
    BY <1>0, <2>2, WalkFacts
  <2>3. CASE NarrowedNow \/ ProbedNow \/ AppliedNow
    BY <1>0, <2>3, WalkFacts DEF SameCopy
  <2> QED
    BY <2>1, <2>2, <2>3 DEF Shape, WalkStep
<1>9. \/ body' \in {body, NoBody}
      \/ body'.v = wk.v /\ \A g \in Groups : body'.grant[g] \in {0, groups[g]}
  <2>1. CASE RenderedNow
    <3>1. body'.v = wk.v /\ body'.grant = ClosedTeamGrant(wk.attach)
      BY <1>0, <2>1, RenderFacts
    <3> QED
      BY <3>1 DEF ClosedTeamGrant
  <2> QED
    BY <2>1 DEF Shape, WalkStep, Over, Fetch, NarrowedNow, ProbedNow, LookedUp, AppliedNow,
       ImplicitNow, ResolvedNow, DeletedNow
<1>10. Old(body)'
  <2>1. CASE body' \in {body, NoBody}
    BY <1>1, <1>3, <1>4, <2>1 DEF Versioned, Old
  <2>2. CASE body'.v = wk.v /\ \A g \in Groups : body'.grant[g] \in {0, groups[g]}
    <3>1. \A g \in Groups : groups[g] \in Int /\ groups[g] <= upsets' + 1
      <4>1. \A g \in Groups : groups[g] \in Int
        BY <1>0, Bounds DEF TypeOK, Versions
      <4> QED
        BY <1>2, <4>1 DEF Versioned
    <3>2. body'.v <= upsets' + 1 /\ \A g \in Groups : body'.grant[g] <= upsets' + 1
      BY <1>1, <1>2, <2>2, <3>1, StillOld DEF Versioned
    <3> QED
      BY <3>2 DEF Old
  <2> QED
    BY <1>9, <2>1, <2>2
<1>11. Old(obj.hash)' /\ Old(seen.hash)' /\ Old(wk.hash)'
  BY <1>1, <1>3, <1>4, <1>6, <1>7, <1>8 DEF Versioned, Old
<1>12. seen'.v <= upsets' + 1 /\ wk'.v <= upsets' + 1
  BY <1>1, <1>2, <1>7, <1>8, StillOld DEF Versioned
<1> QED
  BY <1>5, <1>6, <1>10, <1>11, <1>12 DEF Versioned

\* Copies of another resource are nobody's.
LEMMA ApplyFacts ==
  ASSUME TypeOK, Pinned, ApplyObj
  PROVE  ~WkOurs' /\ ~SeenOurs' /\ UNCHANGED <<seen, wk, pc, body>>
  BY DEF ApplyObj, wkVars, Pinned, SeenOurs, WkOurs

\* A walking worker keeps its copy; only lastRendered may become the body.
LEMMA WalkCopy ==
  ASSUME TypeOK, Paths, WalkStep, WkOurs'
  PROVE  \/ Fetch /\ SeenOurs /\ wk' = seen
         \/ WkOurs /\ SameCopy /\ wk'.hash \in {wk.hash, body}
              /\ (wk'.hash # wk.hash => pc \in LivePCs \ {"groups"})
<1>1. ~Over
  BY DEF Over, WkOurs, LivePCs
<1>2. WkOurs \/ (Fetch /\ SeenOurs)
  BY <1>1, WalkOurs
<1>3. SameCopy \/ Fetch
  <2>1. wk' = wk => SameCopy
    BY DEF SameCopy
  <2> QED
    BY <1>1, <2>1, WalkFacts DEF WalkStep
<1>4. Fetch => wk' = seen /\ ~WkOurs
  BY FetchFacts DEF WkOurs, LivePCs
<1>5. wk'.hash = wk.hash \/ Fetch \/ NarrowedNow \/ AppliedNow
  BY <1>1, WalkFacts DEF WalkStep
<1>6. NarrowedNow \/ AppliedNow => wk'.hash \in {wk.hash, body} /\ pc \in LivePCs \ {"groups"}
  BY WalkFacts DEF NarrowedNow, AppliedNow, LivePCs
<1> QED
  BY <1>2, <1>3, <1>4, <1>5, <1>6

LEMMA StepOutrun ==
  ASSUME SafeInv, TypeOK', Rendering, Shape, ~Reverts, Versioned, Outrun
  PROVE  Outrun'
<1>0. TypeOK /\ Paths /\ Pinned
  BY DEF SafeInv
<1>1. CASE WalkStep /\ UNCHANGED <<obj, seen>>
  <2>1. ASSUME obj.phase = "live", WkOurs'
        PROVE  /\ wk'.v = obj.v => wk'.attach = obj.attach
               /\ wk'.v # obj.v => /\ obj.hash.v # obj.v /\ wk'.hash.v # obj.v
                                   /\ SeenOurs => seen.hash.v # obj.v
    <3>1. CASE Fetch /\ SeenOurs /\ wk' = seen
      BY <2>1, <3>1 DEF Outrun
    <3>2. CASE WkOurs /\ SameCopy /\ wk'.hash = wk.hash
      BY <2>1, <3>2 DEF Outrun, SameCopy
    <3>3. CASE WkOurs /\ SameCopy /\ wk'.hash = body /\ pc \in LivePCs \ {"groups"}
      BY <2>1, <3>3 DEF Outrun, SameCopy, Rendering
    <3> QED
      BY <1>0, <1>1, <2>1, <3>1, <3>2, <3>3, WalkCopy
  <2> QED
    BY <1>1, <2>1 DEF Outrun, SeenOurs
<1>2. CASE Wrote
  BY <1>2 DEF Wrote, Over, Outrun, SeenOurs, WkOurs, LivePCs
<1>3. CASE AddedFin
  <2>1. ~WkOurs' /\ ~SeenOurs'
    BY <1>0, <1>3 DEF AddedFin, Over, Pinned, SeenOurs, WkOurs, LivePCs
  <2> QED
    BY <2>1 DEF Outrun
<1>4. CASE Dropped \/ DeleteObj
  BY <1>0, <1>4, ObjFacts DEF Outrun
<1>5. CASE ApplyObj
  BY <1>0, <1>5, ApplyFacts DEF Outrun
<1>6. CASE EditSpec
  <2>1. UNCHANGED <<seen, wk, pc>> /\ SameStatus /\ obj'.v = upsets + 2 /\ obj.phase = "live"
    BY <1>0, <1>6, ObjFacts DEF EditSpec, wkVars
  <2>2. /\ upsets \in Nat /\ seen.v \in Int /\ wk.v \in Int
        /\ obj.hash \in Bodies /\ seen.hash \in Bodies /\ wk.hash \in Bodies
    BY <1>0, Bounds DEF TypeOK, Objs, Versions
  <2>3. obj.hash.v \in Int /\ seen.hash.v \in Int /\ wk.hash.v \in Int
    BY <2>2, BodyInts
  <2>4. /\ seen.v # upsets + 2 /\ wk.v # upsets + 2
        /\ obj.hash.v # upsets + 2 /\ seen.hash.v # upsets + 2 /\ wk.hash.v # upsets + 2
    BY <2>2, <2>3, StillOld DEF Versioned, Old
  <2> QED
    BY <2>1, <2>4 DEF Outrun, SameStatus, SeenOurs, WkOurs
<1>7. CASE Sync
  BY <1>7 DEF Sync, wkVars, Outrun, SeenOurs, WkOurs
<1>8. CASE Crash
  BY <1>8 DEF Crash, Outrun, SeenOurs, WkOurs, LivePCs
<1> QED
  BY <1>1, <1>2, <1>3, <1>4, <1>5, <1>6, <1>7, <1>8, ShapeCases

\* A body that would not be rendered now will not be rendered later: versions
\* do not return.
LEMMA StaysOutdated ==
  ASSUME TypeOK, TypeOK', Versioned, Shape, RestStep, ~Reverts,
         obj.phase = "live", obj'.phase = "live",
         NEW h \in Bodies, Old(h), Outdated(h)
  PROVE  h # RenderNow' \/ Lacks(h, obj'.attach)
<1>1. /\ upsets \in Nat /\ obj.attach \in SUBSET Groups /\ obj'.attach \in SUBSET Groups
      /\ groups \in [Groups -> Versions] /\ groups' \in [Groups -> Versions]
  BY Bounds DEF TypeOK, Objs
<1>2. h.v \in Int /\ \A g \in Groups : h.grant[g] \in Int
  BY BodyInts
<1>3. CASE EditSpec
  <2>1. obj'.v = upsets + 2
    BY <1>3, ObjFacts
  <2>2. h.v # upsets + 2
    BY <1>1, <1>2, StillOld DEF Old
  <2> QED
    BY <2>1, <2>2 DEF RenderNow
<1>4. CASE obj'.v = obj.v /\ obj'.attach = obj.attach /\ groups' = groups
  BY <1>4 DEF Outdated, RenderNow, ClosedTeamGrant
<1>5. CASE ChangeGroup
  <2>1. PICK k \in Groups, n \in {0, upsets + 2} : groups' = [groups EXCEPT ![k] = n]
    BY <1>5 DEF ChangeGroup
  <2>2. obj' = obj
    BY <1>5 DEF ChangeGroup
  <2>3. CASE k \notin obj.attach
    <3>1. ClosedTeamGrant(obj.attach)' = ClosedTeamGrant(obj.attach)
      BY <1>1, <2>1, <2>2, <2>3 DEF ClosedTeamGrant
    <3> QED
      BY <2>2, <3>1 DEF Outdated, RenderNow
  <2>4. CASE k \in obj.attach /\ h = RenderNow'
    <3>1. h.grant[k] = n
      BY <1>1, <2>1, <2>2, <2>4 DEF RenderNow, ClosedTeamGrant
    <3>2. h.grant[k] # upsets + 2
      BY <1>1, <1>2, StillOld DEF Old
    <3> QED
      BY <2>2, <2>4, <3>1, <3>2 DEF Lacks
  <2> QED
    BY <2>3, <2>4
<1>6. (obj'.v = obj.v /\ obj'.attach = obj.attach) \/ EditSpec
  BY ObjFacts DEF Shape, ObjStep, Wrote
<1> QED
  BY <1>3, <1>4, <1>5, <1>6 DEF RestStep

\* h is b, or a record that will not be rendered as Synced after this step.
Passes(b, h) == b = h \/ h # RenderNow' \/ Lacks(h, obj'.attach)
Record(h) == h = obj.hash \/ (SeenOurs /\ h = seen.hash) \/ (WkOurs /\ h = wk.hash)

LEMMA PassFacts ==
  ASSUME TypeOK, TypeOK', Versioned, Shape, RestStep, ~Reverts,
         obj.phase = "live", obj'.phase = "live"
  PROVE  \A b, h : FitsAll(b) /\ Record(h) => Passes(b, h)
<1> SUFFICES ASSUME NEW b, NEW h, FitsAll(b), Record(h) PROVE Passes(b, h)
  OBVIOUS
<1>1. h \in Bodies /\ Old(h) /\ Fits(b, h)
  BY DEF Record, TypeOK, Objs, Versioned, FitsAll
<1> QED
  BY <1>1, StaysOutdated DEF Fits, Passes

LEMMA PassAll ==
  ASSUME NEW b, Passes(b, obj'.hash), SeenOurs' => Passes(b, seen'.hash),
         WkOurs' => Passes(b, wk'.hash)
  PROVE  FitsAll(b)'
  BY DEF FitsAll, Fits, Outdated, Passes, Lacks

\* Where a row comes from.
LEMMA RowOrigins ==
  ASSUME TypeOK, RowStep, "duplicate" \notin past'
  PROVE  \A s \in rows' : \/ s \in rows
                          \/ pc \in Writing /\ s.body = body
                          \/ pc \in ImplicitPCs \cup DelPCs
<1> SUFFICES ASSUME NEW s \in rows', s \notin rows, pc \notin ImplicitPCs \cup DelPCs
             PROVE  pc \in Writing /\ s.body = body
  OBVIOUS
<1>1. CASE \E i, o : \E b \in Bodies : Sent(i, b) /\ b.grant \in [Groups -> Versions] /\ Update(i, b, o)
  <2>1. PICK i, o : \E b \in Bodies : Sent(i, b) /\ b.grant \in [Groups -> Versions] /\ Update(i, b, o)
    BY <1>1
  <2>2. PICK b \in Bodies : Sent(i, b) /\ b.grant \in [Groups -> Versions] /\ Update(i, b, o)
    BY <2>1
  <2>3. /\ \A j : j # i => RowOf(j)' = RowOf(j)
        /\ o \in Done => \A r \in RowOf(i)' : r.body = b
        /\ o \notin Done => rows' = rows
    BY <2>2, UpdateFacts
  <2>4. s.id = i /\ o \in Done
    <3>1. s \in RowOf(s.id)' /\ s \notin RowOf(s.id)
      BY DEF RowOf
    <3> QED
      BY <2>3, <3>1
  <2>5. s.body = b
    BY <2>3, <2>4 DEF RowOf
  <2> QED
    BY <2>2, <2>5 DEF Sent, Writing, ImplicitPCs, DelPCs
<1>2. CASE OutOfBandCreate
  BY <1>2 DEF OutOfBandCreate
<1> QED
  BY <1>1, <1>2 DEF RowStep, Writing, ImplicitPCs

\* A worker that fetched another resource finds no row that this one tracks.
LEMMA NoneTracked ==
  ASSUME SafeInv, IdHash, obj.phase = "live", pc \in ImplicitPCs \cup DelPCs
  PROVE  obj.id = 0 /\ (SeenOurs => seen.id = 0) /\ ~WkOurs
  BY DEF SafeInv, Untouched, IdHash, WkOurs, LivePCs, ImplicitPCs, DelPCs

LEMMA StepRowsFit ==
  ASSUME SafeInv, TypeOK', IdHash, Rendering, Shape, PastStep, RecordStep, RestStep, ~Reverts,
         Versioned, Outrun, Truthful, OneAlias',
         obj.phase = "live", obj'.phase = "live", "duplicate" \notin past'
  PROVE  RowsFit'
<1>0. /\ TypeOK /\ Paths /\ Counted /\ IdsKnown /\ Pinned /\ Untouched /\ OneAlias /\ Leaves
      /\ RowsFit /\ BodyFits /\ "duplicate" \notin past
  BY DEF SafeInv, PastStep, Truthful
<1>1. \A b, h : FitsAll(b) /\ Record(h) => Passes(b, h)
  BY <1>0, PassFacts
<1>2. \A s \in rows' : s.id # 0
  BY IdFacts DEF TypeOK, Rows
<1> SUFFICES ASSUME NEW s \in rows', Tracked(s.id)' PROVE FitsAll(s.body)'
  BY DEF RowsFit
<1>3. s.id = obj'.id \/ (SeenOurs' /\ s.id = seen'.id) \/ (WkOurs' /\ s.id = wk'.id)
  BY DEF Tracked
<1>4. s \in rows \/ (pc \in Writing /\ s.body = body) \/ pc \in ImplicitPCs \cup DelPCs
  BY <1>0, RowOrigins DEF Shape
<1>5. (s \in rows /\ Tracked(s.id)) \/ (pc \in Writing /\ s.body = body) => FitsAll(s.body)
  BY <1>0 DEF RowsFit, BodyFits, Writing
<1>6. ASSUME FitsAll(s.body), Record(obj'.hash), SeenOurs' => Record(seen'.hash),
             WkOurs' => Record(wk'.hash)
      PROVE  FitsAll(s.body)'
  BY <1>1, <1>6, PassAll
<1>7. CASE WalkStep /\ UNCHANGED <<obj, seen>>
  <2>0. SeenOurs' = SeenOurs
    BY <1>7 DEF SeenOurs
  <2>1. CASE pc \in ImplicitPCs \cup DelPCs
    <3>1. ~WkOurs'
      <4>1. ~WkOurs /\ pc # "idle"
        BY <2>1, NoneTracked DEF ImplicitPCs, DelPCs
      <4>2. CASE Over
        BY <4>2 DEF Over, WkOurs, LivePCs
      <4>3. CASE ~Over
        BY <1>0, <1>7, <4>1, <4>3, WalkOurs, FetchFacts
      <4> QED
        BY <4>2, <4>3
    <3> QED
      BY <1>2, <1>3, <1>7, <2>0, <2>1, <3>1, NoneTracked
  <2>2. CASE Over /\ pc \notin ImplicitPCs \cup DelPCs
    <3>1. ~WkOurs'
      BY <2>2 DEF Over, WkOurs, LivePCs
    <3>2. Tracked(s.id)
      BY <1>3, <1>7, <2>0, <3>1 DEF Tracked
    <3> QED
      BY <1>4, <1>5, <1>6, <1>7, <2>0, <2>2, <3>1, <3>2 DEF Record
  <2>3. CASE Fetch
    <3>1. pc = "idle" /\ wk' = seen /\ (WkOurs' => SeenOurs)
      BY <1>0, <2>3, FetchFacts DEF WkOurs, SeenOurs, LivePCs
    <3>2. Tracked(s.id)
      BY <1>3, <1>7, <2>0, <3>1 DEF Tracked
    <3>3. FitsAll(s.body)
      BY <1>4, <1>5, <3>1, <3>2 DEF Writing, ImplicitPCs, DelPCs
    <3> QED
      BY <1>6, <1>7, <2>0, <3>1, <3>3 DEF Record
  <2>4. CASE NarrowedNow
    <3>1. /\ pc = "narrow" /\ WkOurs /\ wk'.id = wk.id /\ (WkOurs' => WkOurs)
          /\ wk'.hash = body \/ (wk' = wk /\ wk.id = 0)
      BY <1>0, <2>4, WalkFacts DEF NarrowedNow, Paths, WkOurs, LivePCs
    <3>2. Tracked(s.id)
      BY <1>3, <1>7, <2>0, <3>1 DEF Tracked
    <3>3. FitsAll(s.body)
      BY <1>4, <1>5, <3>1, <3>2 DEF ImplicitPCs, DelPCs
    <3>4. Passes(s.body, obj'.hash) /\ (SeenOurs' => Passes(s.body, seen'.hash))
      BY <1>1, <1>7, <2>0, <3>3 DEF Record
    <3>5. CASE wk' = wk
      BY <1>6, <1>7, <2>0, <3>1, <3>3, <3>5 DEF Record
    <3>6. CASE wk'.hash = body
      <4>1. Outdated(body)
        <5>1. body.v = wk.v /\ Lacks(body, wk.attach)
          BY <3>1 DEF Rendering, LivePCs
        <5>2. CASE wk.v = obj.v
          BY <3>1, <5>1, <5>2 DEF Outrun, Outdated
        <5>3. CASE wk.v # obj.v
          BY <5>1, <5>3 DEF Outdated, RenderNow
        <5> QED
          BY <5>2, <5>3
      <4>2. body \in Bodies /\ Old(body)
        BY <1>0 DEF TypeOK, Versioned
      <4>3. Passes(s.body, wk'.hash)
        BY <1>0, <3>6, <4>1, <4>2, StaysOutdated DEF Passes
      <4> QED
        BY <3>4, <4>3, PassAll
    <3> QED
      BY <3>1, <3>5, <3>6
  <2>5. CASE AppliedNow
    <3>1. /\ pc \in {"create", "update"} /\ wk'.hash = body
          /\ pc = "create" => rows = {}
          /\ pc = "update" => wk'.id = target /\ ~Gone(target)
      BY <1>0, <2>5, WalkFacts DEF AppliedNow, OneAlias
    <3>2. Holds(wk.id, wk.hash)' /\ \A j : j # wk'.id => RowOf(j)' = RowOf(j)
      BY <2>5, <3>1 DEF RecordStep, NarrowedNow, Confirmed
    <3>3. s.id = wk'.id
      <4>1. ASSUME s.id # wk'.id PROVE FALSE
        <5>1. s \in rows
          BY <3>2, <4>1 DEF RowOf
        <5>2. PICK r \in rows : r.id = target
          BY <3>1, <5>1 DEF Gone, RowOf
        <5> QED
          BY <1>0, <3>1, <4>1, <5>1, <5>2 DEF OneAlias
      <4> QED
        BY <4>1
    <3>4. s.body = wk'.hash
      BY <3>2, <3>3 DEF Holds, RowOf
    <3>5. FitsAll(body)
      BY <1>0, <3>1 DEF BodyFits
    <3>6. Passes(s.body, obj'.hash) /\ (SeenOurs' => Passes(s.body, seen'.hash))
      BY <1>1, <1>7, <2>0, <3>1, <3>4, <3>5 DEF Record
    <3>7. Passes(s.body, wk'.hash)
      BY <3>4 DEF Passes
    <3> QED
      BY <3>6, <3>7, PassAll
  <2>6. CASE \/ UNCHANGED <<pc, wk, body, target>>
             \/ RenderedNow \/ ProbedNow \/ LookedUp \/ ImplicitNow \/ ResolvedNow \/ DeletedNow
    <3>1. wk'.hash = wk.hash /\ wk'.id \in {0, wk.id}
      BY <1>0, <2>6, WalkFacts
    <3>2. CASE pc \notin ImplicitPCs \cup DelPCs /\ ~Over /\ ~Fetch
      <4>1. WkOurs' => WkOurs
        BY <1>0, <1>7, <3>2, WalkOurs
      <4>2. Tracked(s.id)
        BY <1>2, <1>3, <1>7, <2>0, <3>1, <4>1 DEF Tracked
      <4> QED
        BY <1>4, <1>5, <1>6, <1>7, <2>0, <3>1, <3>2, <4>1, <4>2 DEF Record
    <3> QED
      BY <2>1, <2>2, <2>3, <3>2
  <2> QED
    BY <1>7, <2>1, <2>2, <2>3, <2>4, <2>5, <2>6 DEF WalkStep
<1>8. CASE Wrote
  <2>1. ~WkOurs' /\ seen = obj /\ seen' = obj
    BY <1>8 DEF Wrote, Over, WkOurs, LivePCs
  <2>2. CASE pc \in LivePCs /\ wk.fin
    <3>1. WkOurs /\ SeenOurs
      BY <1>0, <2>1, <2>2 DEF WkOurs, SeenOurs, Pinned
    <3>2. obj'.id \in {obj.id, wk.id} /\ obj'.hash = wk.hash
      BY <1>8 DEF Wrote
    <3>3. Tracked(s.id)
      BY <1>3, <2>1, <3>1, <3>2 DEF Tracked
    <3>4. FitsAll(s.body)
      BY <1>4, <1>5, <2>2, <3>3 DEF LivePCs, ImplicitPCs, DelPCs
    <3> QED
      BY <1>6, <2>1, <3>1, <3>2, <3>4 DEF Record
  <2>3. CASE pc = "delete" \/ (pc = "resolve" /\ wk.id = 0)
    <3>1. obj.id = 0 /\ ~obj.fin
      BY <1>0, <2>3, NoneTracked DEF Pinned, DelPCs
    <3>2. s.id = wk.id /\ pc = "delete"
      BY <1>2, <1>3, <1>8, <2>1, <2>3, <3>1 DEF Wrote, SeenOurs
    <3>3. Gone(wk.id) /\ wk.id \in Known
      BY <1>0, <3>1, <3>2 DEF Leaves, Paths, IdsKnown
    <3>4. \A r \in rows' : r.id # wk.id
      BY <1>0, <3>2, <3>3, RowFacts DEF Shape, Gone, RowOf
    <3> QED
      BY <3>2, <3>4
  <2> QED
    BY <1>8, <2>2, <2>3 DEF Wrote
<1>9. CASE AddedFin
  <2>1. /\ ~WkOurs' /\ ~SeenOurs' /\ obj'.id = obj.id /\ obj'.hash = obj.hash
        /\ pc \notin ImplicitPCs \cup DelPCs \cup Writing
    BY <1>0, <1>9, ObjFacts DEF AddedFin, Over, Pinned, SameStatus, SeenOurs, WkOurs, LivePCs,
       ImplicitPCs, DelPCs, Writing
  <2> QED
    BY <1>3, <1>4, <1>5, <1>6, <2>1 DEF Record, Tracked
<1>10. CASE EditSpec
  <2>1. UNCHANGED <<seen, wk, pc, rows>> /\ SameStatus
    BY <1>0, <1>10, ObjFacts DEF EditSpec, wkVars, llmVars
  <2> QED
    BY <1>3, <1>5, <1>6, <2>1 DEF SameStatus, SeenOurs, WkOurs, Record, Tracked
<1>11. CASE Sync
  <2>1. UNCHANGED <<obj, wk, pc, rows>> /\ seen' = obj
    BY <1>11 DEF Sync, wkVars, llmVars
  <2> QED
    BY <1>3, <1>5, <1>6, <2>1 DEF WkOurs, Record, Tracked
<1>12. CASE Crash
  <2>1. UNCHANGED <<obj, rows>> /\ seen' = obj /\ ~WkOurs'
    BY <1>12 DEF Crash, llmVars, WkOurs, LivePCs
  <2> QED
    BY <1>3, <1>5, <1>6, <2>1 DEF Record, Tracked
<1> QED
  BY <1>0, <1>7, <1>8, <1>9, <1>10, <1>11, <1>12, ShapeCases, ObjFacts

LEMMA StepBodyFits ==
  ASSUME SafeInv, TypeOK', Rendering, Shape, PastStep, RestStep, ~Reverts,
         Versioned, Outrun, Truthful,
         obj.phase = "live", obj'.phase = "live", "duplicate" \notin past'
  PROVE  BodyFits'
<1>0. /\ TypeOK /\ Paths /\ Pinned /\ BodyFits
  BY DEF SafeInv, PastStep, Truthful
<1>1. \A b, h : FitsAll(b) /\ Record(h) => Passes(b, h)
  BY <1>0, PassFacts
<1> DEFINE Sending == {"probe", "decide", "create", "update", "narrow"}
<1> SUFFICES ASSUME pc' \in Sending PROVE FitsAll(body)'
  BY DEF BodyFits
<1>3. WkOurs' => \/ WkOurs /\ wk'.hash = wk.hash
                 \/ Fetch
  <2>1. CASE WalkStep /\ ~Over
    <3>1. WkOurs' => WkOurs \/ Fetch
      BY <1>0, <2>1, WalkOurs
    <3>2. wk'.hash = wk.hash \/ Fetch
      BY <1>0, <2>1, WalkFacts DEF WalkStep, NarrowedNow, AppliedNow
    <3> QED
      BY <3>1, <3>2
  <2> QED
    BY <2>1 DEF Shape, Over
<1>4. ~Over /\ ~Fetch /\ ~Crash
  BY <1>0, FetchFacts DEF Over, Crash
<1>5. obj'.hash = obj.hash /\ (SeenOurs' => seen'.hash = obj.hash \/ (SeenOurs /\ seen'.hash = seen.hash))
  <2>1. obj'.hash = obj.hash
    BY <1>0, <1>4, ObjFacts DEF Shape, ObjStep, Wrote, AddedFin, Dropped, SameStatus, ApplyObj
  <2>2. seen' = seen \/ seen' = obj
    BY DEF Shape, SeenStep, Sync, Crash
  <2> QED
    BY <2>1, <2>2 DEF SeenOurs
<1>6. ASSUME NEW b, FitsAll(b)
      PROVE  /\ Passes(b, obj'.hash) /\ (SeenOurs' => Passes(b, seen'.hash))
             /\ WkOurs' => Passes(b, wk'.hash)
  BY <1>1, <1>3, <1>4, <1>5, <1>6 DEF Record
<1>7. CASE RenderedNow
  <2>1. /\ WkOurs /\ wk' = wk
        /\ body'.v = wk.v /\ body'.grant = ClosedTeamGrant(wk.attach)
        /\ body' = [v |-> wk.v, grant |-> ClosedTeamGrant(wk.attach)]
    <3>1. wk.attach \in SUBSET Groups
      BY <1>0 DEF TypeOK, Objs
    <3> QED
      BY <1>0, <1>7, <3>1, GrantFacts DEF RenderedNow, WkOurs, LivePCs
  <2>2. FitsAll(body')
    <3>1. CASE wk.v = obj.v
      <4>1. body' = RenderNow
        BY <2>1, <3>1 DEF Outrun, RenderNow
      <4> QED
        BY <4>1 DEF FitsAll, Fits, Outdated
    <3>2. CASE wk.v # obj.v
      <4>1. /\ obj.hash.v # obj.v /\ wk.hash.v # obj.v
            /\ SeenOurs => seen.hash.v # obj.v
        BY <2>1, <3>2 DEF Outrun
      <4> QED
        BY <4>1 DEF FitsAll, Fits, Outdated, RenderNow
    <3> QED
      BY <3>1, <3>2
  <2> QED
    BY <1>6, <2>2 DEF FitsAll, Fits, Outdated, Passes, Lacks
<1>8. CASE pc \in Sending /\ body' = body
  <2>1. FitsAll(body)
    BY <1>0, <1>8 DEF BodyFits
  <2> QED
    BY <1>6, <1>8, <2>1 DEF FitsAll, Fits, Outdated, Passes, Lacks
<1>9. RenderedNow \/ (pc \in Sending /\ body' = body)
  BY <1>4 DEF Shape, WalkStep, NarrowedNow, ProbedNow, LookedUp, AppliedNow,
     ImplicitNow, ResolvedNow, DeletedNow, NextCall
<1> QED
  BY <1>7, <1>8, <1>9

LEMMA StepHolds ==
  ASSUME SafeInv, TypeOK', Rendering, Shape, PastStep, RecordStep, ~Reverts,
         Versioned, Outrun, Truthful, obj.phase = "live", obj'.phase = "live",
         "duplicate" \notin past'
  PROVE  SteadyHolds' /\ AppliedHolds'
<1>0. /\ TypeOK /\ Paths /\ Pinned /\ RowsFit /\ SteadyHolds /\ AppliedHolds /\ WalkStep
  BY DEF SafeInv, PastStep, Truthful, Shape
<1>1. ASSUME pc \notin Writing, pc \notin ImplicitPCs \cup DelPCs PROVE rows' \subseteq rows
  <2>1. \A s \in rows' : s \in rows
    BY <1>0, <1>1, RowOrigins DEF Shape
  <2> QED
    BY <2>1
<1>2. ASSUME pc' = "synced" PROVE \A r \in rows' : r.id = wk'.id => r.body = wk'.hash
  <2>1. CASE AppliedNow
    BY <2>1 DEF AppliedNow, NarrowedNow, RecordStep, Confirmed, Holds, RowOf
  <2>2. CASE pc = "synced"
    <3>1. UNCHANGED wk
      BY <1>0, <1>2, <2>2, FetchFacts DEF WalkStep, Over, RenderedNow, NarrowedNow,
         ProbedNow, LookedUp, ImplicitNow, ResolvedNow, DeletedNow, AppliedNow
    <3>2. rows' \subseteq rows
      BY <1>1, <2>2 DEF Writing, ImplicitPCs, DelPCs
    <3> QED
      BY <1>0, <2>2, <3>1, <3>2 DEF AppliedHolds, Holds, RowOf
  <2> QED
    BY <1>0, <1>2, <2>1, <2>2, WalkPCs DEF PCs
<1>3. ASSUME pc' \in {"probe", "decide"}, wk'.v = obj'.v, wk'.hash = body'
      PROVE  \A r \in rows' : r.id = wk'.id => r.body = wk'.hash
  <2>0. obj'.v = obj.v /\ obj'.attach = obj.attach /\ obj'.hash = obj.hash
    <3>1. ~Over
      BY <1>3 DEF Over
    <3>2. ~EditSpec
      <4>1. ASSUME EditSpec PROVE FALSE
        <5>1. UNCHANGED wk /\ obj'.v = upsets + 2
          BY <1>0, <4>1, ObjFacts DEF EditSpec, wkVars
        <5>2. upsets \in Nat /\ wk.v \in Int
          BY <1>0, Bounds DEF TypeOK, Objs, Versions
        <5> QED
          BY <1>3, <5>1, <5>2, StillOld DEF Versioned
      <4> QED
        BY <4>1
    <3> QED
      BY <1>0, <3>1, <3>2, ObjFacts DEF Shape, ObjStep, Wrote, AddedFin, Dropped, ApplyObj, SameStatus
  <2>1. CASE RenderedNow
    <3>1. WkOurs /\ wk' = wk /\ pc = "groups" /\ pc' = "probe" /\ wk.attach \in SUBSET Groups
      BY <1>0, <1>3, <2>1 DEF RenderedNow, WkOurs, LivePCs, TypeOK, Objs
    <3>2. body' = RenderNow /\ wk.attach = obj.attach /\ obj.attach \subseteq Registered
      <4>1. wk.attach = obj.attach /\ wk.v = obj.v
        BY <1>3, <2>0, <3>1 DEF Outrun
      <4> QED
        BY <1>0, <2>1, <3>1, <4>1, GrantFacts DEF RenderedNow, RenderNow
    <3>3. ~Outdated(wk.hash)
      <4>1. ASSUME NEW g \in obj.attach PROVE RenderNow.grant[g] # 0
        <5>1. g \in Groups /\ groups[g] # 0
          BY <3>2, <4>1 DEF Registered
        <5> QED
          BY <5>1 DEF RenderNow, ClosedTeamGrant
      <4> QED
        BY <1>3, <3>1, <3>2, <4>1 DEF Outdated, Lacks
    <3>4. rows' \subseteq rows
      BY <1>1, <3>1 DEF Writing, ImplicitPCs, DelPCs
    <3>5. \A r \in rows : r.id = wk.id => r.body = wk.hash
      BY <1>0, <3>1, <3>3 DEF RowsFit, Tracked, FitsAll, Fits
    <3> QED
      BY <3>1, <3>4, <3>5
  <2>2. CASE pc \in {"probe", "decide"}
    <3>1. wk'.hash = wk.hash /\ wk'.id \in {0, wk.id} /\ wk'.v = wk.v /\ body' = body
      BY <1>0, <1>3, <2>2, WalkFacts, FetchFacts DEF WalkStep, Over, RenderedNow, NarrowedNow,
         ProbedNow, LookedUp, ImplicitNow, ResolvedNow, DeletedNow, AppliedNow, SameCopy
    <3>2. rows' \subseteq rows /\ \A r \in rows' : r.id # 0
      BY <1>1, <2>2, IdFacts DEF Writing, ImplicitPCs, DelPCs, TypeOK, Rows
    <3>3. Holds(wk.id, wk.hash)
      BY <1>0, <1>3, <2>0, <2>2, <3>1 DEF SteadyHolds
    <3> QED
      BY <3>1, <3>2, <3>3 DEF Holds, RowOf
  <2> QED
    BY <1>0, <1>3, <2>1, <2>2, WalkPCs DEF PCs, ProbedNow
<1> QED
  BY <1>2, <1>3 DEF SteadyHolds, AppliedHolds, Holds, RowOf

LEMMA StepTruthful ==
  ASSUME SafeInv, SafeInv', IdHash, Rendering, Shape, PastStep, RecordStep, RestStep, ~Reverts,
         Versioned, Outrun, Truthful
  PROVE  Truthful'
<1> SUFFICES ASSUME obj'.phase = "live", "duplicate" \notin past'
             PROVE  RowsFit' /\ BodyFits' /\ SteadyHolds' /\ AppliedHolds'
  BY DEF Truthful
<1>0. TypeOK /\ Pinned /\ TypeOK' /\ OneAlias' /\ Paths'
  BY DEF SafeInv
<1>1. CASE obj.phase = "live"
  BY <1>0, <1>1, StepRowsFit, StepBodyFits, StepHolds
<1>2. CASE obj.phase # "live"
  <2>1. ApplyObj
    BY <1>0, <1>2, ObjFacts DEF Shape, ObjStep, Wrote
  <2>2. ~WkOurs' /\ ~SeenOurs' /\ obj'.id = 0 /\ \A r \in rows' : r.id # 0
    BY <1>0, <2>1, ApplyFacts, ObjFacts, IdFacts DEF TypeOK, Rows
  <2>3. pc' \notin {"probe", "decide", "create", "update", "narrow", "synced"}
    BY <1>0, <2>2 DEF Paths, WkOurs, LivePCs
  <2> QED
    BY <2>2, <2>3 DEF RowsFit, BodyFits, SteadyHolds, AppliedHolds, Tracked
<1> QED
  BY <1>1, <1>2

LEMMA StepLatest ==
  ASSUME SafeInv, TypeOK', Shape, RestStep, Latest PROVE Latest'
<1>0. TypeOK /\ Paths /\ WalkStep
  BY DEF SafeInv, Shape
<1> SUFFICES ASSUME pc' # "idle", ~queued'
             PROVE  /\ seen'.v = wk'.v /\ seen'.phase = wk'.phase /\ seen'.fin = wk'.fin
                    /\ pc' = "groups" => seen' = wk'
                    /\ ~Applying' => seen'.hash = wk'.hash /\ wk'.id \in {0, seen'.id}
  BY DEF Latest
<1>1. seen' = seen /\ ~Over
  BY DEF Shape, SeenStep, Sync, Crash, Over
<1>2. CASE Fetch
  BY <1>0, <1>1, <1>2, FetchFacts
<1>3. CASE ~Fetch
  <2>1. ~queued /\ pc # "idle"
    BY <1>0, <1>1, <1>3 DEF RestStep, WalkStep, RenderedNow, NarrowedNow, ProbedNow, LookedUp,
       AppliedNow, ImplicitNow, ResolvedNow, DeletedNow
  <2>2. /\ seen.v = wk.v /\ seen.phase = wk.phase /\ seen.fin = wk.fin
        /\ pc = "groups" => seen = wk
        /\ ~Applying => seen.hash = wk.hash /\ wk.id \in {0, seen.id}
    BY <2>1 DEF Latest
  <2>3. CASE UNCHANGED <<pc, wk, body, target>>
    BY <1>1, <2>2, <2>3 DEF Applying
  <2>4. CASE RenderedNow \/ LookedUp \/ ImplicitNow \/ ResolvedNow \/ DeletedNow
    <3>1. wk' = wk /\ pc' # "groups" /\ ~Applying
      BY <2>4 DEF RenderedNow, LookedUp, ImplicitNow, ResolvedNow, DeletedNow, NextCall, Applying
    <3> QED
      BY <1>1, <2>2, <3>1
  <2>5. CASE ProbedNow
    BY <1>0, <1>1, <2>2, <2>5, WalkFacts DEF ProbedNow, SameCopy, Applying
  <2>6. CASE NarrowedNow \/ AppliedNow
    <3>1. SameCopy /\ Applying' /\ pc' # "groups"
      BY <1>0, <2>6, WalkFacts DEF NarrowedNow, AppliedNow, Applying
    <3> QED
      BY <1>1, <2>2, <3>1 DEF SameCopy
  <2> QED
    BY <1>0, <1>1, <1>3, <2>3, <2>4, <2>5, <2>6 DEF WalkStep
<1> QED
  BY <1>2, <1>3

LEMMA StepSyncedHolds ==
  ASSUME SafeInv, TypeOK', IdHash, Generations, Shape, PastStep, RecordStep, RestStep,
         Truthful, Latest, SyncedHolds
  PROVE  SyncedHolds'
<1>0. TypeOK /\ Paths /\ Pinned /\ WalkStep
  BY DEF SafeInv, Shape
<1> SUFFICES ASSUME pc' = "idle", ~queued', seen' = obj', conn' = "Synced",
                    "duplicate" \notin past', obj'.phase = "live", obj'.reason = "Synced",
                    obj'.obs = obj'.gen
             PROVE  \A r \in rows' : r.id = obj'.id => r.body = obj'.hash
  BY DEF SyncedHolds, AtRest, Holds, RowOf
<1>1. seen' = seen /\ seen = obj' /\ "duplicate" \notin past
  BY DEF Shape, SeenStep, Sync, Crash, PastStep
<1>2. ~ApplyObj /\ ~Dropped /\ ~DeleteObj
  BY <1>0, ObjFacts
<1>3. ~EditSpec
  <2>1. ASSUME EditSpec PROVE FALSE
    <3>1. obj.obs \in Nat /\ obj.gen \in Nat
      BY <1>0, Bounds DEF TypeOK, Objs, Versions
    <3>2. obj.obs <= obj.gen /\ obj.obs = obj.gen + 1
      BY <1>0, <2>1, ObjFacts DEF SameStatus, Generations
    <3> QED
      BY <3>1, <3>2
  <2> QED
    BY <2>1
<1>4. CASE pc = "idle"
  <2>1. obj' = obj
    BY <1>0, <1>1, <1>2, <1>3, <1>4 DEF Shape, ObjStep, Wrote, AddedFin, LivePCs
  <2>2. rows' \subseteq rows
    <3>1. \A s \in rows' : s \in rows
      BY <1>0, <1>4, RowOrigins DEF Shape, Writing, ImplicitPCs, DelPCs
    <3> QED
      BY <3>1
  <2>3. ~Fetch
    BY <1>1, <2>1 DEF Fetch
  <2>4. ~queued /\ conn = "Synced"
    BY <1>1, <2>3 DEF RestStep
  <2>5. Holds(obj.id, obj.hash)
    BY <1>1, <1>4, <2>1, <2>4 DEF SyncedHolds, AtRest
  <2> QED
    BY <2>1, <2>2, <2>5 DEF Holds, RowOf
<1>5. CASE pc # "idle"
  <2>1. Over
    BY <1>0, <1>5, FetchFacts DEF WalkStep, RenderedNow, NarrowedNow, ProbedNow, LookedUp,
       AppliedNow, ImplicitNow, ResolvedNow, DeletedNow, NextCall
  <2>2. ~queued
    BY <1>5 DEF RestStep, Fetch
  <2>3. Content
    BY <1>5, <2>1 DEF RestStep
  <2>4. /\ seen.v = wk.v /\ seen.phase = wk.phase /\ seen.fin = wk.fin
        /\ pc = "groups" => seen = wk
        /\ ~Applying => seen.hash = wk.hash /\ wk.id \in {0, seen.id}
    BY <1>5, <2>2 DEF Latest
  <2>5. ~AddedFin
    BY <1>0, <1>1, <2>4, ObjFacts DEF AddedFin
  <2>6. obj' = obj
    BY <1>1, <1>2, <1>3, <2>5 DEF Shape, ObjStep, Wrote
  <2>7. pc \notin ImplicitPCs \cup DelPCs
    BY <1>0, <1>1, <2>4, <2>6 DEF Paths
  <2>8. obj.phase = "live" /\ wk.v = obj.v /\ seen = obj
    BY <1>1, <2>4, <2>6
  <2>9. SteadyHolds /\ AppliedHolds
    BY <1>1, <2>8 DEF Truthful
  <2>10. CASE pc = "groups"
    BY <2>3, <2>4, <2>5, <2>7, <2>8, <2>10 DEF Content
  <2>11. CASE pc = "decide"
    <3>1. InSteadyState /\ rows' = rows
      BY <2>3, <2>7, <2>11 DEF Content
    <3>2. wk.id = obj.id /\ wk.hash = obj.hash
      BY <2>4, <2>8, <2>11, <3>1 DEF InSteadyState, Applying
    <3>3. Holds(wk.id, wk.hash)
      BY <2>8, <2>9, <2>11, <3>1 DEF SteadyHolds, InSteadyState
    <3> QED
      BY <2>6, <3>1, <3>2, <3>3 DEF Holds, RowOf
  <2>12. CASE pc = "synced"
    <3>1. Wrote /\ rows' = rows
      BY <2>3, <2>7, <2>8, <2>12 DEF Content, Writable
    <3>2. wk.id = obj'.id /\ wk.hash = obj'.hash
      BY <2>12, <3>1 DEF Wrote, IdHash
    <3>3. Holds(wk.id, wk.hash)
      BY <2>9, <2>12 DEF AppliedHolds
    <3> QED
      BY <3>1, <3>2, <3>3 DEF Holds, RowOf
  <2> QED
    BY <2>3, <2>7, <2>10, <2>11, <2>12 DEF Content
<1> QED
  BY <1>4, <1>5

LEMMA StartSynced == Init => Versioned /\ Outrun /\ Truthful /\ Latest /\ SyncedHolds
<1> SUFFICES ASSUME Init PROVE Versioned /\ Outrun /\ Truthful /\ Latest /\ SyncedHolds
  OBVIOUS
<1>1. /\ obj.v \in {0, 1} /\ ~obj.fin /\ obj.hash = NoBody
  <2>1. CASE obj = Absent
    BY <2>1, AbsentFacts
  <2>2. CASE \E a \in SUBSET Groups : obj = NewObj(a)
    BY <2>2, NewFacts
  <2> QED
    BY <2>1, <2>2 DEF Init
<1>2. /\ seen = obj /\ wk = Absent /\ pc = "idle" /\ body = NoBody /\ rows = {}
      /\ upsets = 0 /\ queued = TRUE /\ groups = [g \in Groups |-> 1]
  BY DEF Init
<1>3. Old(NoBody)
  BY <1>2, BodyFacts DEF Old, NoGrant
<1>4. Versioned
  BY <1>1, <1>2, <1>3, AbsentFacts DEF Versioned
<1> QED
  BY <1>1, <1>2, <1>4 DEF Outrun, Truthful, Latest, SyncedHolds, AtRest, SeenOurs, WkOurs, LivePCs,
     RowsFit, BodyFits, SteadyHolds, AppliedHolds

LEMMA StepSynced == SyncedInv /\ [Next]_vars => SyncedInv'
<1> SUFFICES ASSUME SyncedInv, [Next]_vars PROVE SyncedInv'
  OBVIOUS
<1>1. NarrowInv /\ NarrowInv'
  BY Step DEF SyncedInv
<1>2. SafeInv /\ IdHash /\ Generations /\ Rendering /\ SafeInv' /\ TypeOK'
  BY <1>1 DEF NarrowInv, SafeInv
<1>3. Shape /\ PastStep /\ RecordStep /\ RestStep
  BY <1>2, Shapes, PastSteps, RecordSteps, RestSteps
<1>4. ASSUME ~Reverts PROVE Versioned' /\ Outrun' /\ Truthful' /\ Latest' /\ SyncedHolds'
  <2>1. Versioned /\ Outrun /\ Truthful /\ Latest /\ SyncedHolds
    BY <1>4 DEF SyncedInv
  <2>2. Versioned' /\ Outrun'
    BY <1>2, <1>3, <1>4, <2>1, StepVersioned, StepOutrun
  <2>3. Truthful'
    BY <1>2, <1>3, <1>4, <2>1, StepTruthful
  <2>4. Latest'
    BY <1>2, <1>3, <2>1, StepLatest
  <2>5. SyncedHolds'
    BY <1>2, <1>3, <2>1, StepSyncedHolds
  <2> QED
    BY <2>2, <2>3, <2>4, <2>5
<1> QED
  BY <1>1, <1>4 DEF SyncedInv

\* Reconcile, steps 8b to 11: with edits that never return to an earlier budget,
\* a team at rest that says Synced holds in LiteLLM, under the id it tracks, the
\* body its status records, of the version its spec asks for.
THEOREM SyncedTrue == Spec => [](~Reverts => SyncedMatches)
<1>1. Init => SyncedInv
  BY Start, StartSynced DEF SyncedInv
<1>2. ASSUME SyncedInv PROVE ~Reverts => SyncedMatches
  <2>1. ASSUME ~Reverts, "duplicate" \notin past, AtRest, conn = "Synced", obj.phase = "live",
               obj.reason = "Synced", obj.obs = obj.gen
        PROVE  \A r \in RowOf(obj.id) : r.body = obj.hash /\ r.body.v = obj.v
    <3>1. Holds(obj.id, obj.hash)
      BY <1>2, <2>1 DEF SyncedInv, SyncedHolds
    <3>2. obj.hash.v = obj.v
      BY <1>2, <2>1 DEF SyncedInv, NarrowInv, Rendering
    <3> QED
      BY <3>1, <3>2 DEF Holds
  <2> QED
    BY <2>1 DEF SyncedMatches, SyncedServes
<1>3. SyncedInv => (~Reverts => SyncedMatches)
  BY <1>2
<1> QED
  BY <1>1, <1>3, StepSynced, PTL DEF Spec
=============================================================================
