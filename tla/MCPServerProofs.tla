--------------------------- MODULE MCPServerProofs ---------------------------
(***************************************************************************)
(* What module MCPServer promises, for every number of servers that share   *)
(* an entry and every bound: the type invariant, that no two of them say    *)
(* Synced at rest, that a finalizer spares the row of the entry's owner,    *)
(* that no row is left behind silently, and that Synced tells the truth.    *)
(***************************************************************************)
EXTENDS MCPServer, TLAPS, FiniteSetTheorems, WellFoundedInduction

-----------------------------------------------------------------------------
(* The inductive invariant.                                                *)

Around == {"live", "deleting"}
DelPCs == {"delete", "drop"}
MidPCs == {"probe", "decide", "create", "update", "synced"}

\* Nobody has reconciled it yet.
Fresh(o) == ~o.fin /\ o.id = NoId /\ o.hash = NoBody /\ o.obs = 0 /\ o.reason = "none"

\* Where a reconcile is says what it fetched, rendered and found.
Paths ==
  /\ cur # 0 => wk.phase \in Around
  /\ pc \in DelPCs => wk.phase = "deleting"
  /\ pc \in MidPCs => /\ wk.phase = "live" /\ wk.fin /\ wk.v \notin BadSpecs
                      /\ body.by = cur /\ body.v = wk.v /\ body.sec # 0
  /\ pc = "delete" => wk.id = NoId /\ target # NoId
  /\ pc = "create" => wk.id = NoId
  /\ pc \in {"update", "synced"} => wk.id # NoId
  /\ pc = "synced" => wk.hash = body /\ \A r \in RowOf(wk.id) : r.body = body

\* The informer is behind the API server: what it does not list yet nobody has
\* reconciled, and the finalizer keeps what it shows with one.
Behind(o, s, c) ==
  /\ s.phase = "absent" => Fresh(o)
  /\ s.phase = "live" => o.phase # "absent"
  /\ s.phase = "deleting" => o.phase \in {"deleting", "gone"} /\ s.fin
  /\ s.phase = "gone" => o.phase = "gone"
  /\ o.phase = "deleting" => o.fin
  /\ o.phase # "gone" /\ ~o.fin => Fresh(o)
  /\ s.phase = "live" /\ s.fin => o.phase \in Around /\ o.fin
  /\ s.phase = "live" /\ o.phase = "gone" => c \in blind
  /\ s.phase = "deleting" /\ o.phase = "gone" => s.id = o.id

\* The worker's copy is behind the informer's.
Life ==
  /\ \A c \in Servers : Behind(obj[c], seen[c], c)
  /\ cur # 0 => seen[cur].phase # "absent"
  /\ cur # 0 /\ wk.phase = "deleting" => /\ wk.fin /\ seen[cur].phase \in {"deleting", "gone"}
                                         /\ obj[cur] = wk => seen[cur] = wk
                                         /\ obj[cur].phase = "gone" => obj[cur].id = wk.id
  /\ cur # 0 /\ wk.phase = "live" /\ wk.fin => obj[cur].phase \in Around /\ obj[cur].fin

\* An edit is one generation.
Grown == \A c \in Servers : obj[c].gen <= events + 1

\* Only a row from before the upgrade has another name; without those there is one row.
Named ==
  /\ \A r \in rows : r.id # "legacy" => r.name = 0
  /\ ~LegacyRows => \A r, s \in rows : r = s /\ r.name = 0

\* While c is reconciled with a sibling after it that the informer shows, or
\* says Synced, it is queued again.
Told ==
  \A c, d \in Servers : c < d /\ seen[d].phase = "live" =>
    /\ obj[c].phase = "live" /\ obj[c].reason = "Synced" /\ conn = "Synced" =>
         c \in q \/ (cur = c /\ pc = "start")
    /\ cur = c /\ pc \in MidPCs => c \in q

\* Who resolved its row by name saw no live sibling.
Alone == pc = "delete" => \A c \in Servers \ {cur} : obj[c].phase = "live" => obj[c].id = NoId

\* How a resource goes is known before it is gone.
Ways ==
  /\ \A c \in left \cup blind \cup kept : obj[c].phase = "gone" \/ (cur = c /\ pc = "drop")
  /\ left # {} => policy = "Orphan"
  /\ \A c \in blind : IF obj[c].phase = "gone" THEN obj[c].id = NoId ELSE wk.id = NoId

\* Nobody's row is left at the worker's next DELETE, or at the end of it.
Emptied == ~LegacyRows => \A r \in rows : r.body.by = 0 \/ (wk.id # NoId /\ r.id # wk.id)
Seized == ~LegacyRows => \A r \in rows : r.body.by = 0 \/ r.id = target

\* A sibling that was live when cur left the row to it.
Successor == \E h \in Servers \ {cur} : obj[h].phase \in Around \/ (obj[h].phase = "gone" /\ h \in blind)

Leaves ==
  /\ pc = "delete" => Seized
  /\ pc = "drop" => cur \in left \/ cur \in blind \/ (cur \in kept /\ Successor) \/ Emptied
  /\ ~LegacyRows => NoSilentLeak

SafeInv == TypeOK /\ Grown /\ Paths /\ Life /\ Named /\ Told /\ Alone /\ Ways /\ Leaves

-----------------------------------------------------------------------------
(* What a status says and what the rows hold.                              *)

\* A winner has nobody above it but resources that were never reconciled.
Highest ==
  pc \in MidPCs => \A c \in Servers : c > cur => /\ obj[c].phase = "live" => Fresh(obj[c])
                                                 /\ seen[c].phase = "live" => ~seen[c].fin

\* Generations and versions only grow; a hash is of a version and a Secret
\* there were.
SoundAt(o, e, s) ==
  /\ o.v <= e + 1 /\ o.obs <= o.gen
  /\ o.hash.v <= o.v /\ o.hash.sec <= e + 1
  /\ o.hash.by # 0 => o.hash.sec # 0
  /\ s # 0 => o.hash.sec <= s
Sound(o) == SoundAt(o, events, secret)
CountedObj(o) ==
  /\ Sound(o)
  /\ IF o.phase = "absent" THEN o.v = 0 /\ o.gen = 0 ELSE o.v # 0
  /\ o.reason = "Conflict" => o.hash = LoserHash
Counted ==
  /\ secret <= events + 1 /\ body.sec <= events + 1
  /\ \A c \in Servers : CountedObj(obj[c]) /\ CountedObj(seen[c])
  /\ cur # 0 => Sound(wk)
  /\ secret # 0 => body.sec <= secret
  /\ pc \in MidPCs => cur \in q \/ body.sec = secret

\* A copy is of an earlier spec, but not of an earlier one than the last record
\* was made from: a status is written over a copy that caught up.
Trail(s, o) == /\ s.gen <= o.gen /\ (s.gen = o.gen => s.v = o.v)
               /\ s.v <= o.v /\ o.hash.v <= s.v
Trails == \A c \in Servers : Trail(seen[c], obj[c])

\* Nobody else writes the status of the resource the worker has; if its copy
\* was old already, the resource comes again.
Held ==
  cur # 0 =>
    /\ Trail(wk, obj[cur])
    /\ pc \in MidPCs => obj[cur].hash.sec <= body.sec
    /\ \/ cur \in q \/ seen[cur] # obj[cur]
       \/ /\ obj[cur].obs = wk.obs /\ obj[cur].reason = wk.reason
          /\ pc # "synced" => obj[cur].hash = wk.hash

\* The recorded hash is that of the body c would send now.
Current(c) == obj[c].hash = Rendered(c, obj[c])
TopLive(c) == obj[c].phase = "live" /\ \A e \in Servers : e > c => obj[e].phase # "live"

\* The last live one, with a record of what it would send now and nothing known
\* to be wrong with it.
Good(c) == c \in Servers \ misled /\ TopLive(c) /\ Current(c)

\* Its record describes the row it names.
Match == \A c \in Servers : Good(c) => \A r \in RowOf(obj[c].id) : r.body = obj[c].hash

\* No resource is reconciled over a good one before it, though the informer may
\* still show one that went before it was reconciled.
Overruled == cur # 0 /\ wk.phase = "live" /\ wk.fin => \A c \in Servers : c < cur => ~Good(c)
Shadowed == \A c, e \in Servers : c < e /\ Good(c) => ~(seen[e].phase = "live" /\ seen[e].fin)

\* A claim that is not of the body to be sent now is looked at again.
Queued ==
  \A c \in Servers : ClaimsSynced(c) =>
    /\ obj[c].v \notin BadSpecs
    /\ conn = "Synced" => c \in q \/ cur = c \/ seen[c] # obj[c] \/ Current(c)

TrueInv == Highest /\ Counted /\ Trails /\ Held /\ Match /\ Overruled /\ Shadowed /\ Queued

-----------------------------------------------------------------------------
(* Constants and operators.                                                *)

LEMMA Bounds ==
  /\ MaxEvents \in Nat /\ MaxFaults \in Nat
  /\ RecreateLimit \in Nat /\ RecreateLimit # 0
  /\ Servers \subseteq Nat /\ 0 \notin Servers /\ IsFiniteSet(Servers)
  /\ Raw \subseteq Servers /\ LegacyRows \in BOOLEAN
BY MCPServerAssumption

\* The greatest of a finite set of naturals: the least of its subsets that have an
\* element above every one of its elements is a singleton.
LEMMA MaxFacts ==
  ASSUME NEW S \in SUBSET Servers, S # {}
  PROVE  Max(S) \in S /\ \A y \in S : Max(S) >= y
<1> DEFINE Tops == {U \in SUBSET S : U # {} /\ \A y \in S : \E x \in U : x >= y}
<1>1. IsFiniteSet(S) /\ S \subseteq Nat
  BY Bounds, FS_Subset
<1>2. \A x \in S : x >= x
  BY <1>1
<1>3. S \in Tops
  BY <1>2
<1>4. IsWellFoundedOn(StrictSubsetOrdering(S), SUBSET S)
  BY <1>1, FS_StrictSubsetOrderingWellFounded, FS_FiniteSubsetsOfFinite
<1>5. PICK U \in Tops : \A V \in Tops : <<V, U>> \notin StrictSubsetOrdering(S)
  <2>1. Tops \subseteq SUBSET S /\ Tops # {}
    BY <1>3
  <2> HIDE DEF Tops
  <2> QED
    BY <1>4, <2>1, WFMin, Zenon
<1>6. ASSUME NEW a \in U, NEW b \in U, a # b, a <= b
      PROVE  FALSE
  <2> DEFINE V == U \ {a}
  <2>1. V \in Tops
    <3>1. b \in V /\ V \subseteq S
      BY <1>6
    <3>2. ASSUME NEW y \in S PROVE \E x \in V : x >= y
      <4>1. PICK x \in U : x >= y
        BY <3>2
      <4>2. CASE x = a
        <5>1. b >= y
          BY <1>1, <1>6, <3>1, <4>1, <4>2
        <5> QED
          BY <3>1, <5>1
      <4>3. CASE x # a
        BY <4>1, <4>3
      <4> QED
        BY <4>2, <4>3
    <3> QED
      BY <3>1, <3>2
  <2>2. <<V, U>> \in StrictSubsetOrdering(S)
    BY <1>6 DEF StrictSubsetOrdering
  <2> QED
    BY <1>5, <2>1, <2>2
<1>7. PICK m : m \in U
  BY <1>5
<1>8. \A y \in S : m >= y
  <2>1. ASSUME NEW a \in U PROVE a = m
    <3>1. a \in Nat /\ m \in Nat
      BY <1>1, <1>7
    <3>2. a <= m \/ m <= a
      BY <3>1
    <3> QED
      BY <1>6, <1>7, <3>2
  <2> QED
    BY <1>5, <2>1
<1>9. \E x \in S : \A y \in S : x >= y
  BY <1>7, <1>8
<1> HIDE DEF Tops
<1> QED
  BY <1>9 DEF Max

LEMMA RenderedFacts ==
  ASSUME NEW c \in Servers, NEW o \in Objs, secret \in Versions
  PROVE  /\ Rendered(c, o) \in Bodies
         /\ Rendered(c, o).by = c /\ Rendered(c, o).v = o.v /\ Rendered(c, o).sec = secret
BY DEF Rendered, Bodies, Objs

LEMMA Numbers == /\ Versions \subseteq Nat /\ Servers \subseteq Nat /\ 0 \notin Servers
                 /\ 0 .. MaxEvents + 1 \subseteq Nat /\ 0 .. MaxEvents \subseteq Nat
BY Bounds DEF Versions

LEMMA NewFacts ==
  /\ NoBody \in Bodies /\ NoBody.by = 0 /\ NoBody.v = 0 /\ NoBody.sec = 0
  /\ LoserHash \in Bodies /\ LoserHash.by = 0 /\ LoserHash.v = 1 /\ LoserHash.sec = 0
  /\ ForeignBody \in Bodies /\ ForeignBody.by = 0
  /\ Nothing \in Objs /\ Nothing.phase = "absent" /\ Nothing.gen = 0 /\ Nothing.v = 0 /\ Fresh(Nothing)
  /\ NewObj \in Objs /\ NewObj.phase = "live" /\ NewObj.gen = 1 /\ NewObj.v = 1 /\ Fresh(NewObj)
<1>1. 0 \in Versions /\ 1 \in Versions /\ 0 \in 0 .. MaxEvents + 1 /\ 1 \in 0 .. MaxEvents + 1
  BY Bounds DEF Versions
<1>2. /\ NoBody \in Bodies /\ NoBody.by = 0 /\ NoBody.v = 0 /\ NoBody.sec = 0
      /\ LoserHash \in Bodies /\ LoserHash.by = 0 /\ LoserHash.v = 1 /\ LoserHash.sec = 0
      /\ ForeignBody \in Bodies /\ ForeignBody.by = 0
  BY <1>1 DEF NoBody, LoserHash, ForeignBody, Bodies
<1>3. /\ Nothing \in Objs /\ Nothing.phase = "absent" /\ Nothing.gen = 0 /\ Nothing.v = 0 /\ Fresh(Nothing)
  BY <1>1, <1>2 DEF Nothing, Objs, Fresh
<1>4. NewObj \in Objs
  <2>1. \A o \in Objs, p \in {"live"}, n \in Versions, g \in 0 .. MaxEvents + 1 :
          [o EXCEPT !.phase = p, !.gen = g, !.v = n] \in Objs
    BY ZenonT(60) DEF Objs
  <2> QED
    BY <1>1, <1>3, <2>1 DEF NewObj
<1>5. NewObj.phase = "live" /\ NewObj.gen = 1 /\ NewObj.v = 1 /\ Fresh(NewObj)
  BY DEF NewObj, Nothing, Fresh
<1> QED
  BY <1>2, <1>3, <1>4, <1>5

Reasons == {"Synced", "LiteLLMUnavailable", "LiteLLMRejected", "InvalidConfig", "SecretNotFound",
            "RecreateThrottled"}

\* A status write changes the record and nothing of the spec; an id is kept.
LEMMA WriteFacts ==
  ASSUME TypeOK, cur # 0, NEW r \in Reasons, WriteStatus(wk, r)
  PROVE  /\ seen[cur] = obj[cur] /\ cur \in Servers
         /\ obj' \in [Servers -> Objs] /\ \A c \in Servers : c # cur => obj'[c] = obj[c]
         /\ obj'[cur].phase = obj[cur].phase /\ obj'[cur].fin = obj[cur].fin
         /\ obj'[cur].gen = obj[cur].gen /\ obj'[cur].v = obj[cur].v
         /\ obj'[cur].id = IF wk.id = NoId THEN obj[cur].id ELSE wk.id
         /\ obj'[cur].hash = wk.hash /\ obj'[cur].obs = wk.gen /\ obj'[cur].reason = r
<1>1. obj[cur] \in Objs /\ wk \in Objs /\ cur \in Servers /\ obj \in [Servers -> Objs]
  BY DEF TypeOK
<1> DEFINE o == obj[cur]
           n == [o EXCEPT !.id = KeepPersistedID(wk.id, o.id), !.hash = wk.hash,
                          !.obs = wk.gen, !.reason = r]
<1>2. KeepPersistedID(wk.id, o.id) \in Ids \cup {NoId}
  BY <1>1 DEF KeepPersistedID, Objs
<1>3. wk.hash \in Bodies /\ wk.gen \in 0 .. MaxEvents + 1
  BY <1>1 DEF Objs
<1>4. n \in Objs
  BY <1>1, <1>2, <1>3, ZenonT(60) DEF Objs, Reasons
<1>5. obj' = [obj EXCEPT ![cur] = n]
  BY <1>1 DEF WriteStatus
<1>6. /\ n.phase = o.phase /\ n.fin = o.fin /\ n.gen = o.gen /\ n.v = o.v
      /\ n.id = KeepPersistedID(wk.id, o.id) /\ n.hash = wk.hash /\ n.obs = wk.gen /\ n.reason = r
  BY <1>1 DEF Objs
<1> HIDE DEF n
<1>7. obj' \in [Servers -> Objs] /\ obj'[cur] = n /\ \A c \in Servers : c # cur => obj'[c] = obj[c]
  BY <1>1, <1>4, <1>5
<1>8. seen[cur] = obj[cur]
  BY DEF WriteStatus
<1> QED
  BY <1>1, <1>6, <1>7, <1>8 DEF KeepPersistedID

\* The other changes of an object.
LEMMA ObjFacts ==
  ASSUME NEW o \in Objs
  PROVE  /\ [o EXCEPT !.fin = TRUE] \in Objs
         /\ \A p \in {"deleting", "gone"} : [o EXCEPT !.phase = p] \in Objs
         /\ [o EXCEPT !.phase = "gone", !.fin = FALSE] \in Objs
         /\ \A n \in Versions, g \in 0 .. MaxEvents + 1 : [o EXCEPT !.v = n, !.gen = g] \in Objs
         /\ Demoted(o) \in Objs
<1>1. /\ [o EXCEPT !.fin = TRUE] \in Objs
      /\ \A p \in {"deleting", "gone"} : [o EXCEPT !.phase = p] \in Objs
  BY ZenonT(60) DEF Objs
<1>2. [o EXCEPT !.phase = "gone", !.fin = FALSE] \in Objs
  BY ZenonT(60) DEF Objs
<1>3. \A n \in Versions, g \in 0 .. MaxEvents + 1 : [o EXCEPT !.v = n, !.gen = g] \in Objs
  BY ZenonT(60) DEF Objs
<1>4. o.gen \in 0 .. MaxEvents + 1
  BY DEF Objs
<1>5. Demoted(o) \in Objs
  BY <1>4, NewFacts, ZenonT(60) DEF Demoted, Objs
<1> QED
  BY <1>1, <1>2, <1>3, <1>5

\* The worker's changes of its copy.
LEMMA IdFacts ==
  ASSUME NEW o \in Objs, NEW i \in Ids \cup {NoId}
  PROVE  LET z == [o EXCEPT !.id = i]
         IN /\ z \in Objs /\ z.id = i /\ z.hash = o.hash
            /\ z.phase = o.phase /\ z.fin = o.fin /\ z.gen = o.gen /\ z.v = o.v
            /\ z.obs = o.obs /\ z.reason = o.reason
<1>1. [o EXCEPT !.id = i] \in Objs
  BY ZenonT(60) DEF Objs
<1> QED
  BY <1>1 DEF Objs

LEMMA RecordFacts ==
  ASSUME NEW o \in Objs, NEW i \in Ids \cup {NoId}, NEW b \in Bodies
  PROVE  LET y == [o EXCEPT !.id = i, !.hash = b]
         IN /\ y \in Objs /\ y.id = i /\ y.hash = b
            /\ y.phase = o.phase /\ y.fin = o.fin /\ y.gen = o.gen /\ y.v = o.v
            /\ y.obs = o.obs /\ y.reason = o.reason
<1>1. [o EXCEPT !.id = i, !.hash = b] \in Objs
  BY ZenonT(60) DEF Objs
<1> QED
  BY <1>1 DEF Objs

\* What an updated row is.
Put(r, b) == [r EXCEPT !.name = 0, !.body = b]

LEMMA PutFacts ==
  ASSUME NEW r \in Rows, NEW b \in Bodies
  PROVE  Put(r, b) \in Rows /\ Put(r, b).id = r.id /\ Put(r, b).name = 0 /\ Put(r, b).body = b
<1>1. Put(r, b) \in Rows
  BY ZenonT(60) DEF Put, Rows
<1> QED
  BY <1>1 DEF Put, Rows

-----------------------------------------------------------------------------
(* The steps, by what they do.                                             *)

Ghost == UNCHANGED <<left, blind, kept, misled>>
World == UNCHANGED <<seen, secret, events>>

\* The worker leaves everything but its queue alone, or the connection changes.
Idles ==
  /\ UNCHANGED <<obj, seen, wkVars, rows>> /\ Ghost
  /\ \/ /\ cur = 0 /\ \E c \in Servers : seen[c].phase \notin Around /\ q' = q \ {c}
        /\ UNCHANGED <<conn, secret, events>>
     \/ q \subseteq q' /\ q' \subseteq q \cup Present /\ UNCHANGED <<conn, secret, events>>
     \/ q' = q /\ conn' # "Synced" /\ secret' = secret /\ events' = events + 1
     \/ q' = q \cup Present /\ UNCHANGED <<secret, events>>
     \/ /\ q' = q \cup Present /\ secret' \in {0, events + 2} /\ secret' # secret
        /\ conn' = conn /\ events' = events + 1

\* It takes a resource from the queue.
Takes ==
  \E c \in Servers :
    /\ cur = 0 /\ c \in q /\ seen[c].phase \in Around
    /\ cur' = c /\ wk' = seen[c] /\ pc' = "start" /\ q' = q \ {c}
    /\ UNCHANGED <<obj, body, target, conn, rows>> /\ World /\ Ghost

\* It goes on with the deletion: nothing but the row and the ghosts change.
Leaving == UNCHANGED <<obj, cur, wk, body, q, misled>> /\ World
LeavesOnCause ==
  /\ Leaving /\ (Deleting \/ pc = "delete")
  /\ pc' = "drop" /\ policy # "Delete" /\ left' = left \cup {cur}
  /\ UNCHANGED <<target, rows, blind, kept>>
LeavesToSibling ==
  /\ Leaving /\ Deleting /\ SharedEntryOwner # 0
  /\ pc' = "drop" /\ kept' = kept \cup {cur}
  /\ UNCHANGED <<target, rows, left, blind>>
LeavesBlind ==
  /\ Leaving /\ Deleting /\ wk.id = NoId
  /\ pc' = "drop" /\ blind' = blind \cup {cur}
  /\ UNCHANGED <<target, rows, left, kept>>
LeavesNone ==
  /\ Leaving /\ Deleting /\ wk.id = NoId /\ Mine(Refs(rows), cur) = {}
  /\ pc' = "drop" /\ UNCHANGED <<target, rows>> /\ Ghost

\* DELETE of the row the worker tracks, or resolved.
DeletesTracked == Deleting /\ SharedEntryOwner = 0 /\ wk.id # NoId /\ rows' = rows \ RowOf(wk.id)
DeletesResolved == pc = "delete" /\ rows' = rows \ RowOf(target)
LeavesDeleted ==
  /\ Leaving /\ (DeletesTracked \/ DeletesResolved)
  /\ pc' = "drop" /\ UNCHANGED target /\ Ghost
Resolves ==
  /\ Leaving /\ Deleting /\ SharedEntryOwner = 0 /\ wk.id = NoId /\ pc' = "delete"
  /\ \E r \in Preferred(Mine(Refs(rows), cur)) : target' = r.id
  /\ UNCHANGED rows /\ Ghost

\* It goes on with the resource's own row.
Working == UNCHANGED <<obj, cur, target, q, rows>> /\ World /\ Ghost
Renders ==
  /\ Working /\ Live /\ conn = "Synced" /\ ~Loser /\ wk.v \notin BadSpecs /\ secret # 0
  /\ pc' = "probe" /\ body' = Rendered(cur, wk) /\ UNCHANGED <<wk, conn>>
Decides ==
  /\ Working /\ pc = "probe" /\ pc' = "decide" /\ body' = body
  /\ wk' = wk \/ wk' = [wk EXCEPT !.id = NoId]
Adopts ==
  /\ Working /\ pc = "decide" /\ wk.id = NoId /\ pc' = "update" /\ body' = body
  /\ \E r \in rows : wk' = [wk EXCEPT !.id = r.id]
Misses ==
  Working /\ pc = "decide" /\ wk.id = NoId /\ pc' = "create" /\ UNCHANGED <<wk, body>>

\* POST and PUT that were applied.
Makes ==
  /\ pc = "create" /\ ~CreateRefused
  /\ rows' = rows \cup {[id |-> Pinned, name |-> 0, body |-> body]}
Updating == pc = "update" \/ (pc = "decide" /\ wk.id # NoId)
Puts ==
  Updating /\ rows' = (rows \ RowOf(wk.id)) \cup {Put(r, body) : r \in RowOf(wk.id)}
Applies ==
  /\ UNCHANGED <<obj, cur, body, target, q, conn>> /\ World /\ Ghost
  /\ pc' = "synced"
  /\ \/ Makes /\ wk' = [wk EXCEPT !.id = Pinned, !.hash = body]
     \/ Puts /\ RowOf(wk.id) # {} /\ wk' = [wk EXCEPT !.id = wk.id, !.hash = body]

\* The reconcile ends.
Ends == pc # "idle" /\ Finish /\ World
Again == q' = q \cup {cur}
Untouched == obj' = obj /\ rows' = rows /\ Ghost

\* Nothing is written, and it comes again.
Retries == Ends /\ pc \notin DelPCs /\ Untouched /\ Again

\* Nothing is written.
Drowned ==
  /\ Ends /\ pc \notin DelPCs /\ Untouched /\ q' = q
  /\ \/ conn' # "Synced"
     \/ Live /\ ~Loser /\ wk.v \in BadSpecs /\ conn' = conn
     \/ pc \in {"decide", "synced"} /\ seen[cur] # obj[cur] /\ conn' = conn
     \/ pc = "decide" /\ InSteadyState /\ wk.reason = "Synced" /\ conn' = conn
     \/ pc = "start" /\ wk.phase = "deleting" /\ ~wk.fin /\ conn' = conn

\* A status that is not Synced.
Reports ==
  /\ Ends /\ rows' = rows /\ Note /\ (q' = q \/ Again)
  /\ Live \/ (pc = "create" /\ wk.id = NoId)
  /\ \E r \in Reasons \ {"Synced"} : WriteStatus(wk, r)

\* Synced, at step 8 and at step 11.
Confirms ==
  /\ Ends /\ rows' = rows /\ Note /\ q' = q /\ conn' = conn
  /\ pc = "decide" /\ InSteadyState /\ WriteStatus(wk, "Synced")
Records ==
  /\ Ends /\ rows' = rows /\ q' = q /\ conn' = conn
  /\ pc = "synced" /\ WriteStatus(wk, "Synced")
  /\ misled' = misled \ {cur} /\ UNCHANGED <<left, blind, kept>>

\* A mutation that did not succeed; one whose answer was lost may have been applied.
FailsToDelete ==
  /\ Ends /\ obj' = obj /\ Ghost /\ Again
  /\ (rows' = rows /\ (Deleting \/ pc = "delete")) \/ DeletesTracked \/ DeletesResolved
Fails ==
  /\ Ends /\ Note
  /\ pc \in MidPCs \ {"synced"} /\ (Again \/ (q' = q /\ conn' # "Synced"))
  /\ \/ obj' = obj /\ (rows' = rows \/ Makes \/ Puts)
     \/ rows' = rows /\ \E r \in Reasons \ {"Synced"} : WriteStatus(wk, r)

\* The finalizer, and the loser's status, over the copy the worker fetched.
Over == Ends /\ obj[cur] = wk /\ rows' = rows /\ Ghost /\ q' = q /\ conn' = conn
AddsFin ==
  /\ Over /\ pc = "start" /\ wk.phase = "live" /\ ~wk.fin
  /\ obj' = [obj EXCEPT ![cur].fin = TRUE]
Demotes ==
  /\ Over /\ Live /\ Loser /\ obj' = [obj EXCEPT ![cur] = Demoted(wk)]
Drops ==
  /\ Over /\ pc = "drop" /\ obj' = [obj EXCEPT ![cur].phase = "gone", ![cur].fin = FALSE]
FailsToDrop ==
  /\ Ends /\ pc = "drop" /\ UNCHANGED <<obj, rows, misled>> /\ Again
  /\ left' = Still(left) /\ blind' = Still(blind) /\ kept' = Still(kept)

Works ==
  \/ LeavesOnCause \/ LeavesToSibling \/ LeavesBlind \/ LeavesNone \/ LeavesDeleted \/ Resolves
  \/ Renders \/ Decides \/ Adopts \/ Misses \/ Applies
Closes ==
  \/ Retries \/ Drowned \/ Reports \/ Confirms \/ Records \/ FailsToDelete \/ Fails
  \/ AddsFin \/ Demotes \/ Drops \/ FailsToDrop
Users == (\E c \in Servers : CreateObj(c) \/ EditSpec(c) \/ DeleteObj(c)) \/ OutOfBand
Kind == (policy' = policy) /\ (Idles \/ Takes \/ Works \/ Closes \/ Sync \/ Users \/ Crash)

\* What is noted when nothing is written.
LEMMA NoteStill == ASSUME Note, obj' = obj PROVE Ghost
BY DEF Note, RecordOf, Ghost

\* How a reconcile ends without success.
LEMMA EndFacts ==
  ASSUME NEW r \in Reasons \ {"Synced"}, EndWith(r)
  PROVE  \/ obj' = obj
         \/ WriteStatus(wk, r)
BY DEF EndWith, StatusLost, StatusConflict

LEMMA ClassifyFacts ==
  ASSUME NEW o \in Done \cup Refusals, ClassifyMutationError(o)
  PROVE  /\ Finish
         /\ Again \/ (q' = q /\ conn' # "Synced")
         /\ obj' = obj \/ (o \notin Done /\ \E r \in Reasons \ {"Synced"} : WriteStatus(wk, r))
<1>1. CASE o = "401"
  <2>1. conn' # "Synced"
    BY <1>1 DEF ClassifyMutationError, InvalidateOn401
  <2>2. obj' = obj \/ WriteStatus(wk, "LiteLLMUnavailable")
    BY <1>1 DEF ClassifyMutationError, StatusConflict
  <2> QED
    BY <1>1, <2>1, <2>2 DEF ClassifyMutationError, Done, Reasons
<1>2. CASE o = "4xx"
  <2>1. obj' = obj \/ WriteStatus(wk, "LiteLLMRejected")
    BY <1>2 DEF ClassifyMutationError, StatusConflict
  <2> QED
    BY <1>2, <2>1 DEF ClassifyMutationError, Done, Reasons, Requeue, Again
<1>3. CASE o \in {"down", "lost"}
  BY <1>3 DEF ClassifyMutationError, Requeue, Again
<1> QED
  BY <1>1, <1>2, <1>3 DEF ClassifyMutationError

LEMMA AckMoves ==
  ASSUME NEW p, AckMissing(p), Deleting \/ pc = "delete", rows' = rows,
         UNCHANGED <<apiVars, blind, kept, misled, envVars>>
  PROVE  LeavesOnCause \/ FailsToDelete
<1>1. CASE MayDrain(policy, p)
  <2>1. GoOn("drop") /\ left' = left \cup {cur} /\ policy # "Delete"
    BY <1>1 DEF AckMissing, MayDrain
  <2> QED
    BY <2>1 DEF GoOn, LeavesOnCause, Leaving, World, apiVars, envVars
<1>2. CASE ~MayDrain(policy, p)
  <2>1. Finish /\ Again /\ left' = left
    BY <1>2 DEF AckMissing, Requeue, Again
  <2> QED
    BY <2>1 DEF FailsToDelete, Ends, Deleting, World, Ghost, apiVars, envVars
<1> QED
  BY <1>1, <1>2

LEMMA CallMoves ==
  ASSUME NEW i, DeleteCall(i),
         \/ Deleting /\ SharedEntryOwner = 0 /\ wk.id # NoId /\ i = wk.id
         \/ pc = "delete" /\ i = target,
         UNCHANGED <<apiVars, blind, kept, misled, envVars>>
  PROVE  LeavesOnCause \/ LeavesDeleted \/ FailsToDelete
<1>1. PICK o \in Done \cup Refusals :
        /\ Delete(i, o)
        /\ \/ o = "ok" /\ GoOn("drop") /\ UNCHANGED left
           \/ o = "401" /\ AckMissing(FALSE)
           \/ o = "4xx" /\ AckMissing(TRUE)
           \/ o \in {"down", "lost"} /\ Requeue /\ UNCHANGED left
  BY DEF DeleteCall
<1>2. CASE o \in {"401", "4xx"}
  <2>1. rows' = rows
    BY <1>1, <1>2 DEF Delete, Done
  <2>2. \E p \in BOOLEAN : AckMissing(p)
    BY <1>1, <1>2
  <2> QED
    BY <2>1, <2>2, AckMoves
<1>3. o \in Done => DeletesTracked \/ DeletesResolved
  BY <1>1 DEF Delete, DeletesTracked, DeletesResolved
<1>4. CASE o = "ok"
  BY <1>1, <1>3, <1>4 DEF Done, GoOn, LeavesDeleted, Leaving, World, Ghost, apiVars, envVars
<1>5. CASE o \in {"down", "lost"}
  <2>1. Finish /\ Again /\ left' = left
    BY <1>1, <1>5 DEF Requeue, Again
  <2>2. rows' = rows \/ DeletesTracked \/ DeletesResolved
    BY <1>1, <1>3 DEF Delete
  <2> QED
    BY <2>1, <2>2 DEF FailsToDelete, Ends, Deleting, World, Ghost, apiVars, envVars
<1> QED
  BY <1>1, <1>2, <1>4, <1>5

\* A status that may not be written.
LEMMA LostMoves ==
  ASSUME TypeOK, StatusLost
  PROVE  /\ obj' = obj
         /\ faults' # faults \/ seen[cur] # obj[cur]
<1>1. faults \in Nat
  BY Bounds DEF TypeOK
<1> QED
  BY <1>1 DEF StatusLost, StatusConflict, Fault

LEMMA EndMoves ==
  ASSUME NEW r \in Reasons \ {"Synced"}, EndWith(r), Finish, World, Note, rows' = rows, q' = q \/ Again,
         Live \/ (pc = "create" /\ wk.id = NoId)
  PROVE  Reports \/ (Ends /\ Untouched)
BY EndFacts, NoteStill DEF Reports, Ends, Untouched, Live

LEMMA JudgeMoves ==
  ASSUME NEW l, Judge(l), pc = "probe"
  PROVE  \/ Requeue
         \/ /\ pc' = "decide" /\ UNCHANGED <<cur, body, target, q>>
            /\ wk' = wk \/ wk' = [wk EXCEPT !.id = NoId]
BY DEF Judge, GoOn

LEMMA Kinds ==
  ASSUME TypeOK, Paths, Next
  PROVE  Kind
<1> USE DEF Kind, Works, Closes, Users, DelPCs
<1>1. CASE \E c \in Servers : Fetch(c)
  <2>1. PICK c \in Servers : Fetch(c)
    BY <1>1
  <2>2. CASE seen[c].phase \in Around
    BY <2>1, <2>2 DEF Fetch, Takes, Around, World, Ghost, apiVars, ghosts, envVars
  <2>3. CASE seen[c].phase \notin Around
    BY <2>1, <2>3 DEF Fetch, Idles, Around, Ghost, apiVars, ghosts, envVars
  <2> QED
    BY <2>2, <2>3
<1>2. CASE DeleteUnavailable
  BY <1>2, AckMoves DEF DeleteUnavailable, envVars
<1>3. CASE DeleteSkipped
  BY <1>3 DEF DeleteSkipped, LeavesToSibling, Leaving, GoOn, World, apiVars, envVars
<1>4. CASE DeleteTracked
  BY <1>4, CallMoves DEF DeleteTracked, envVars
<1>5. CASE DeleteResolved
  BY <1>5, CallMoves DEF DeleteResolved, envVars
<1>6. CASE DeleteByName
  <2>1. /\ Deleting /\ SharedEntryOwner = 0 /\ wk.id = NoId
        /\ UNCHANGED <<obj, seen, rows, left, kept, misled, policy, secret, events>>
    BY <1>6 DEF DeleteByName, apiVars, envVars
  <2>2. \/ /\ \E r \in Preferred(Mine(Refs(rows), cur)) : target' = r.id
           /\ pc' = "delete" /\ UNCHANGED <<cur, wk, body, q, blind>>
        \/ Mine(Refs(rows), cur) = {} /\ GoOn("drop") /\ UNCHANGED blind
        \/ GoOn("drop") /\ blind' = blind \cup {cur}
    BY <1>6 DEF DeleteByName
  <2>3. CASE /\ \E r \in Preferred(Mine(Refs(rows), cur)) : target' = r.id
             /\ pc' = "delete" /\ UNCHANGED <<cur, wk, body, q, blind>>
    BY <2>1, <2>3 DEF Resolves, Leaving, World, Ghost
  <2>4. CASE Mine(Refs(rows), cur) = {} /\ GoOn("drop") /\ UNCHANGED blind
    BY <2>1, <2>4 DEF LeavesNone, GoOn, Leaving, World, Ghost
  <2>5. CASE GoOn("drop") /\ blind' = blind \cup {cur}
    BY <2>1, <2>5 DEF LeavesBlind, GoOn, Leaving, World
  <2> QED
    BY <2>1, <2>2, <2>3, <2>4, <2>5
<1>7. CASE DropFinalizer
  BY <1>7 DEF DropFinalizer, Drops, FailsToDrop, Over, Ends, Again, Requeue, Unmoved, World, Ghost, envVars
<1>8. CASE AddFinalizer
  BY <1>8 DEF AddFinalizer, AddsFin, Retries, Drowned, Over, Ends, Again, Untouched, Requeue, Unmoved,
              World, Ghost, ghosts, envVars
<1>9. CASE Park
  <2>1. /\ EndWith("LiteLLMUnavailable") /\ Finish /\ World /\ Note /\ rows' = rows /\ q' = q
        /\ Live /\ policy' = policy /\ conn' # "Synced"
    BY <1>9 DEF Park, World, envVars
  <2>2. Reports \/ (Ends /\ Untouched)
    BY <2>1, EndMoves DEF Reasons
  <2> QED
    BY <2>1, <2>2 DEF Drowned, Live
<1>10. CASE Demote
  BY <1>10 DEF Demote, Demotes, Retries, Over, Ends, Again, Untouched, Requeue, Unmoved, Live,
               World, Ghost, ghosts, envVars
<1>11. CASE Render
  <2>1. Live /\ ~Loser /\ World /\ Note /\ conn = "Synced" /\ UNCHANGED <<rows, policy, conn>>
    BY <1>11 DEF Render, World, envVars
  <2>2. CASE wk.v \in BadSpecs /\ EndWith("InvalidConfig") /\ Finish /\ UNCHANGED q
    <3>1. Reports \/ (Ends /\ Untouched)
      BY <2>1, <2>2, EndMoves DEF Reasons
    <3> QED
      BY <2>1, <2>2, <3>1 DEF Drowned, Live
  <2>3. CASE secret = 0 /\ EndWith("SecretNotFound") /\ Requeue
    <3>1. Reports \/ (Ends /\ Untouched)
      BY <2>1, <2>3, EndMoves DEF Reasons, Requeue, Again
    <3> QED
      BY <2>1, <2>3, <3>1 DEF Retries, Again, Requeue, Live
  <2>4. CASE /\ wk.v \notin BadSpecs /\ secret # 0 /\ body' = Rendered(cur, wk)
             /\ pc' = "probe" /\ UNCHANGED <<obj, cur, wk, target, q, faults>>
    BY <2>1, <2>4, NoteStill DEF Renders, Working
  <2> QED
    BY <1>11, <2>2, <2>3, <2>4 DEF Render
<1>12. CASE Probe
  <2>1. /\ pc = "probe" /\ World /\ Ghost /\ UNCHANGED <<obj, rows, policy>>
        /\ GoOn("decide") \/ \E l \in {lcache, lcache'} : Judge(l)
    BY <1>12 DEF Probe, World, Ghost, apiVars, ghosts, envVars
  <2>2. \/ Requeue
        \/ /\ pc' = "decide" /\ UNCHANGED <<cur, body, target, q>>
           /\ wk' = wk \/ wk' = [wk EXCEPT !.id = NoId]
    BY <2>1, JudgeMoves DEF GoOn
  <2> QED
    BY <2>1, <2>2 DEF Decides, Retries, Working, Ends, Untouched, Again, Requeue
<1>13. ASSUME StatusLost, Finish, World, Ghost, UNCHANGED <<rows, policy, conn>>,
              pc \in {"decide", "synced"}, q' = IF faults' # faults THEN q \cup {cur} ELSE q
       PROVE  Kind
  <2>1. obj' = obj /\ (faults' # faults \/ seen[cur] # obj[cur])
    BY <1>13, LostMoves
  <2>2. CASE faults' # faults
    BY <1>13, <2>1, <2>2 DEF Retries, Ends, Untouched, Again
  <2>3. CASE ~(faults' # faults)
    BY <1>13, <2>1, <2>3 DEF Drowned, Ends, Untouched
  <2> QED
    BY <2>2, <2>3
<1>14. CASE Steady
  <2>1. pc = "decide" /\ InSteadyState /\ Finish /\ World /\ Note /\ UNCHANGED <<rows, policy, conn>>
    BY <1>14 DEF Steady, World, envVars
  <2>2. \/ wk.reason = "Synced" /\ UNCHANGED <<obj, q>>
        \/ WriteStatus(wk, "Synced") /\ q' = q
        \/ StatusLost /\ q' = (IF faults' # faults THEN q \cup {cur} ELSE q)
    BY <1>14 DEF Steady
  <2>3. CASE wk.reason = "Synced" /\ UNCHANGED <<obj, q>>
    BY <2>1, <2>3, NoteStill DEF Drowned, Ends, Untouched
  <2>4. CASE WriteStatus(wk, "Synced") /\ q' = q
    BY <2>1, <2>4 DEF Confirms, Ends
  <2>5. StatusLost => Ghost
    BY <2>1, LostMoves, NoteStill
  <2> QED
    BY <1>13, <2>1, <2>2, <2>3, <2>4, <2>5
<1>15. CASE FindByName
  <2>1. /\ pc = "decide" /\ wk.id = NoId /\ World /\ Ghost /\ UNCHANGED <<obj, rows, policy>>
        /\ \/ /\ \E r \in Preferred(Mine(Refs(rows), cur)) : wk' = [wk EXCEPT !.id = r.id]
              /\ pc' = "update" /\ UNCHANGED <<cur, body, target, q>>
           \/ GoOn("create")
    BY <1>15 DEF FindByName, World, Ghost, apiVars, ghosts, envVars
  <2>2. \A r \in Preferred(Mine(Refs(rows), cur)) : \E s \in rows : s.id = r.id
    BY DEF Preferred, Mine, Refs
  <2> QED
    BY <2>1, <2>2 DEF Adopts, Misses, Working, GoOn
<1>16. CASE Throttle
  <2>1. EndWith("RecreateThrottled") /\ Finish /\ World /\ Note /\ UNCHANGED <<rows, policy>> /\ Again
    BY <1>16 DEF Throttle, Requeue, Again, World, envVars
  <2>2. pc = "create" /\ wk.id = NoId
    BY <1>16 DEF Throttle, Paths
  <2>3. Reports \/ (Ends /\ Untouched)
    BY <2>1, <2>2, EndMoves DEF Reasons, Again
  <2> QED
    BY <2>1, <2>2, <2>3 DEF Retries
<1>17. CASE CreateNew
  <2>1. PICK o \in Done \cup Refusals :
          /\ Create(body, o)
          /\ \/ o = "ok" /\ ~CreateRefused /\ Applied(Pinned)
             \/ /\ o # "ok" \/ CreateRefused
                /\ ClassifyMutationError(IF o = "ok" THEN "4xx" ELSE o)
    BY <1>17 DEF CreateNew
  <2>2. pc = "create" /\ World /\ Note /\ UNCHANGED policy
    BY <1>17 DEF CreateNew, World, envVars
  <2>3. (o \in Done /\ ~CreateRefused /\ Makes) \/ (~(o \in Done /\ ~CreateRefused) /\ rows' = rows)
    BY <2>1, <2>2 DEF Create, Makes
  <2>4. CASE o = "ok" /\ ~CreateRefused /\ Applied(Pinned)
    BY <2>2, <2>3, <2>4, NoteStill DEF Done, Applied, Applies
  <2>5. CASE /\ o # "ok" \/ CreateRefused
             /\ ClassifyMutationError(IF o = "ok" THEN "4xx" ELSE o)
    <3> DEFINE e == IF o = "ok" THEN "4xx" ELSE o
    <3>1. e \in Done \cup Refusals /\ (e \in Done => o \in Done) /\ (o = "ok" => CreateRefused)
          /\ (o \in Done /\ ~CreateRefused => e \in Done)
      BY <2>5 DEF Done, Refusals
    <3>2. ClassifyMutationError(e)
      BY <2>5
    <3> HIDE DEF e
    <3>3. /\ Finish /\ (Again \/ (q' = q /\ conn' # "Synced"))
          /\ obj' = obj \/ (e \notin Done /\ \E r \in Reasons \ {"Synced"} : WriteStatus(wk, r))
      BY <3>1, <3>2, ClassifyFacts
    <3> QED
      BY <2>2, <2>3, <3>1, <3>3 DEF Fails, Ends, MidPCs
  <2> QED
    BY <2>1, <2>4, <2>5
<1>18. CASE UpdateRow
  <2>1. PICK o \in Done \cup Refusals :
          /\ Update(wk.id, body, o)
          /\ \/ o = "ok" /\ RowOf(wk.id) # {} /\ Applied(wk.id)
             \/ /\ o # "ok" \/ RowOf(wk.id) = {}
                /\ ClassifyMutationError(IF o = "ok" THEN "4xx" ELSE o)
    BY <1>18 DEF UpdateRow
  <2>2. Updating /\ World /\ Note /\ UNCHANGED policy /\ pc \in MidPCs \ {"synced"}
    BY <1>18 DEF UpdateRow, Updating, World, envVars, MidPCs
  <2>3. (o \in Done /\ Puts) \/ (o \notin Done /\ rows' = rows)
    BY <2>1, <2>2 DEF Update, Puts, Put
  <2>4. CASE o = "ok" /\ RowOf(wk.id) # {} /\ Applied(wk.id)
    BY <2>2, <2>3, <2>4, NoteStill DEF Done, Applied, Applies
  <2>5. CASE /\ o # "ok" \/ RowOf(wk.id) = {}
             /\ ClassifyMutationError(IF o = "ok" THEN "4xx" ELSE o)
    <3> DEFINE e == IF o = "ok" THEN "4xx" ELSE o
    <3>1. e \in Done \cup Refusals /\ (o = "ok" => RowOf(wk.id) = {}) /\ (o \in Done /\ o # "ok" => e \in Done)
      BY <2>5 DEF Done, Refusals
    <3>2. ClassifyMutationError(e)
      BY <2>5
    <3> HIDE DEF e
    <3>3. /\ Finish /\ (Again \/ (q' = q /\ conn' # "Synced"))
          /\ obj' = obj \/ (e \notin Done /\ \E r \in Reasons \ {"Synced"} : WriteStatus(wk, r))
      BY <3>1, <3>2, ClassifyFacts
    <3>4. RowOf(wk.id) = {} /\ Puts => rows' = rows
      BY DEF Puts
    <3>5. obj' = obj \/ rows' = rows
      BY <2>3, <3>1, <3>3, <3>4
    <3> QED
      BY <2>2, <2>3, <2>5, <3>3, <3>5 DEF Fails, Ends, MidPCs
  <2> QED
    BY <2>1, <2>4, <2>5
<1>19. CASE WriteSynced
  <2>1. pc = "synced" /\ Finish /\ World /\ UNCHANGED <<rows, policy, conn, left, blind, kept>>
    BY <1>19 DEF WriteSynced, World, envVars
  <2>2. \/ WriteStatus(wk, "Synced") /\ misled' = misled \ {cur} /\ q' = q
        \/ StatusLost /\ q' = (IF faults' # faults THEN q \cup {cur} ELSE q) /\ UNCHANGED misled
    BY <1>19 DEF WriteSynced
  <2>3. CASE WriteStatus(wk, "Synced") /\ misled' = misled \ {cur} /\ q' = q
    BY <2>1, <2>3 DEF Records, Ends
  <2>4. CASE StatusLost /\ q' = (IF faults' # faults THEN q \cup {cur} ELSE q) /\ UNCHANGED misled
    BY <1>13, <2>1, <2>4 DEF Ghost
  <2> QED
    BY <2>2, <2>3, <2>4
<1>20. CASE Sync
  BY <1>20 DEF Sync, envVars
<1>21. CASE Relist
  BY <1>21 DEF Relist, Idles, Ghost, apiVars, ghosts, envVars
<1>22. CASE \E c \in Servers : CreateObj(c) \/ EditSpec(c) \/ DeleteObj(c)
  BY <1>22 DEF CreateObj, EditSpec, DeleteObj
<1>23. CASE \E c \in Servers : Expire(c)
  BY <1>23 DEF Expire, Idles, Ghost, apiVars, ghosts, envVars
<1>24. CASE RotateSecret
  BY <1>24 DEF RotateSecret, Event, Idles, Ghost, apiVars, ghosts
<1>25. CASE OutOfBand
  BY <1>25 DEF OutOfBand
<1>26. CASE ListElsewhere \/ ListExpires
  BY <1>26 DEF ListElsewhere, ListExpires, Idles, Ghost, apiVars, ghosts, envVars
<1>27. CASE ConnDown
  BY <1>27 DEF ConnDown, Event, Idles, Ghost, apiVars, ghosts
<1>28. CASE ConnUp
  BY <1>28 DEF ConnUp, Idles, Ghost, apiVars, ghosts, envVars
<1>29. CASE Crash
  BY <1>29 DEF Crash
<1> QED
  BY <1>1, <1>2, <1>3, <1>4, <1>5, <1>6, <1>7, <1>8, <1>9, <1>10, <1>11, <1>12, <1>14, <1>15, <1>16,
     <1>17, <1>18, <1>19, <1>20, <1>21, <1>22, <1>23, <1>24, <1>25, <1>26, <1>27, <1>28, <1>29
     DEF Next, Reconcile, Outside

-----------------------------------------------------------------------------
(* What a step does to an object.                                          *)

\* obj' is obj with n for c.
Becomes(c, n) == n \in Objs /\ obj'[c] = n /\ \A d \in Servers : d # c => obj'[d] = obj[d]

LEMMA BecomesFacts ==
  ASSUME TypeOK, NEW c \in Servers, NEW n \in Objs, obj' = [obj EXCEPT ![c] = n]
  PROVE  obj' \in [Servers -> Objs] /\ Becomes(c, n)
BY DEF TypeOK, Becomes

LEMMA CurFacts ==
  ASSUME TypeOK, pc # "idle"
  PROVE  cur # 0 /\ cur \in Servers /\ obj[cur] \in Objs /\ wk \in Objs
BY DEF TypeOK

LEMMA AddsFinFacts ==
  ASSUME TypeOK, AddsFin
  PROVE  /\ cur \in Servers /\ obj' \in [Servers -> Objs] /\ \A c \in Servers : c # cur => obj'[c] = obj[c]
         /\ obj'[cur].fin /\ obj[cur].phase = "live" /\ ~obj[cur].fin
         /\ obj'[cur].phase = obj[cur].phase /\ obj'[cur].gen = obj[cur].gen
         /\ obj'[cur].v = obj[cur].v /\ obj'[cur].id = obj[cur].id /\ obj'[cur].hash = obj[cur].hash
         /\ obj'[cur].obs = obj[cur].obs /\ obj'[cur].reason = obj[cur].reason
<1> DEFINE o == obj[cur]
           n == [o EXCEPT !.fin = TRUE]
<1>1. cur \in Servers /\ o \in Objs /\ o.phase = "live" /\ ~o.fin
  BY CurFacts DEF AddsFin, Over
<1>2. obj' = [obj EXCEPT ![cur] = n]
  BY <1>1 DEF AddsFin, TypeOK
<1>3. n \in Objs
  BY <1>1, ObjFacts
<1>4. /\ n.fin /\ n.phase = o.phase /\ n.gen = o.gen /\ n.v = o.v /\ n.id = o.id /\ n.hash = o.hash
      /\ n.obs = o.obs /\ n.reason = o.reason
  BY <1>1 DEF Objs
<1>5. obj' \in [Servers -> Objs] /\ Becomes(cur, n)
  BY <1>1, <1>2, <1>3, BecomesFacts
<1> HIDE DEF n
<1> QED
  BY <1>1, <1>4, <1>5 DEF Becomes

LEMMA DemotesFacts ==
  ASSUME TypeOK, Demotes
  PROVE  /\ cur \in Servers /\ obj' \in [Servers -> Objs] /\ \A c \in Servers : c # cur => obj'[c] = obj[c]
         /\ obj[cur] = wk /\ wk.phase = "live" /\ wk.fin
         /\ obj'[cur].fin = wk.fin /\ obj'[cur].phase = wk.phase /\ obj'[cur].gen = wk.gen
         /\ obj'[cur].v = wk.v /\ obj'[cur].id = wk.id /\ obj'[cur].hash = LoserHash
         /\ obj'[cur].obs = wk.gen /\ obj'[cur].reason = "Conflict"
<1> DEFINE n == Demoted(wk)
<1>1. cur \in Servers /\ wk \in Objs /\ obj[cur] = wk /\ wk.phase = "live" /\ wk.fin
  BY CurFacts DEF Demotes, Over, Live
<1>2. obj' = [obj EXCEPT ![cur] = n]
  BY DEF Demotes
<1>3. n \in Objs
  BY <1>1, ObjFacts
<1>4. /\ n.fin = wk.fin /\ n.phase = wk.phase /\ n.gen = wk.gen /\ n.v = wk.v /\ n.id = wk.id
      /\ n.hash = LoserHash /\ n.obs = wk.gen /\ n.reason = "Conflict"
  BY <1>1 DEF Demoted, Objs
<1>5. obj' \in [Servers -> Objs] /\ Becomes(cur, n)
  BY <1>1, <1>2, <1>3, BecomesFacts
<1> HIDE DEF n
<1> QED
  BY <1>1, <1>4, <1>5 DEF Becomes

LEMMA DropsFacts ==
  ASSUME TypeOK, Drops
  PROVE  /\ cur \in Servers /\ obj' \in [Servers -> Objs] /\ \A c \in Servers : c # cur => obj'[c] = obj[c]
         /\ obj[cur] = wk /\ ~obj'[cur].fin /\ obj'[cur].phase = "gone"
         /\ obj'[cur].gen = wk.gen /\ obj'[cur].v = wk.v /\ obj'[cur].id = wk.id
         /\ obj'[cur].hash = wk.hash /\ obj'[cur].obs = wk.obs /\ obj'[cur].reason = wk.reason
<1> DEFINE n == [wk EXCEPT !.phase = "gone", !.fin = FALSE]
<1>1. cur \in Servers /\ wk \in Objs /\ obj[cur] = wk
  BY CurFacts DEF Drops, Over
<1>2. obj' = [obj EXCEPT ![cur] = n]
  BY <1>1 DEF Drops, TypeOK
<1>3. n \in Objs
  BY <1>1, ObjFacts
<1>4. /\ ~n.fin /\ n.phase = "gone" /\ n.gen = wk.gen /\ n.v = wk.v /\ n.id = wk.id
      /\ n.hash = wk.hash /\ n.obs = wk.obs /\ n.reason = wk.reason
  BY <1>1 DEF Objs
<1>5. obj' \in [Servers -> Objs] /\ Becomes(cur, n)
  BY <1>1, <1>2, <1>3, BecomesFacts
<1> HIDE DEF n
<1> QED
  BY <1>1, <1>4, <1>5 DEF Becomes

LEMMA CreateFacts ==
  ASSUME TypeOK, NEW c \in Servers, CreateObj(c)
  PROVE  /\ obj' \in [Servers -> Objs] /\ \A d \in Servers : d # c => obj'[d] = obj[d]
         /\ obj[c].phase = "absent" /\ obj'[c] = NewObj /\ obj'[c].phase = "live" /\ Fresh(obj'[c])
         /\ obj'[c].gen = 1 /\ obj'[c].v = 1 /\ events' = events + 1
         /\ UNCHANGED <<seen, q, wkVars, conn, rows, secret>> /\ Ghost
<1>1. obj' = [obj EXCEPT ![c] = NewObj] /\ NewObj \in Objs
  BY NewFacts DEF CreateObj
<1>2. obj' \in [Servers -> Objs] /\ Becomes(c, NewObj)
  BY <1>1, BecomesFacts
<1> QED
  BY <1>2, NewFacts DEF Becomes, CreateObj, Event, Ghost, ghosts

LEMMA EditFacts ==
  ASSUME TypeOK, NEW c \in Servers, EditSpec(c), obj[c].gen <= events + 1
  PROVE  /\ obj' \in [Servers -> Objs] /\ \A d \in Servers : d # c => obj'[d] = obj[d]
         /\ obj[c].phase = "live" /\ obj'[c].phase = "live" /\ obj'[c].fin = obj[c].fin
         /\ obj'[c].gen = obj[c].gen + 1 /\ obj'[c].v = events + 2 /\ obj'[c].id = obj[c].id
         /\ obj'[c].hash = obj[c].hash /\ obj'[c].obs = obj[c].obs /\ obj'[c].reason = obj[c].reason
         /\ events' = events + 1
         /\ UNCHANGED <<seen, q, wkVars, conn, rows, secret>> /\ Ghost
<1> DEFINE o == obj[c]
           n == [o EXCEPT !.v = events + 2, !.gen = o.gen + 1]
<1>1. o \in Objs /\ o.phase = "live" /\ events < MaxEvents /\ events \in Nat /\ events' = events + 1
  BY Bounds DEF TypeOK, EditSpec, Event
<1>2. obj' = [obj EXCEPT ![c] = n]
  BY DEF EditSpec, TypeOK
<1>3. events + 2 \in Versions /\ o.gen + 1 \in 0 .. MaxEvents + 1
  BY <1>1, Bounds DEF Versions, Objs
<1>4. n \in Objs
  BY <1>1, <1>3, ObjFacts
<1>5. /\ n.phase = o.phase /\ n.fin = o.fin /\ n.gen = o.gen + 1 /\ n.v = events + 2 /\ n.id = o.id
      /\ n.hash = o.hash /\ n.obs = o.obs /\ n.reason = o.reason
  BY <1>1 DEF Objs
<1>6. obj' \in [Servers -> Objs] /\ Becomes(c, n)
  BY <1>2, <1>4, BecomesFacts
<1>7. UNCHANGED <<seen, q, wkVars, conn, rows, secret>> /\ Ghost
  BY DEF EditSpec, Ghost, ghosts
<1> HIDE DEF n
<1> QED
  BY <1>1, <1>5, <1>6, <1>7 DEF Becomes

LEMMA DeleteFacts ==
  ASSUME TypeOK, NEW c \in Servers, DeleteObj(c)
  PROVE  /\ obj' \in [Servers -> Objs] /\ \A d \in Servers : d # c => obj'[d] = obj[d]
         /\ obj[c].phase = "live" /\ obj'[c].phase = IF obj[c].fin THEN "deleting" ELSE "gone"
         /\ obj'[c].fin = obj[c].fin
         /\ obj'[c].gen = obj[c].gen /\ obj'[c].v = obj[c].v /\ obj'[c].id = obj[c].id
         /\ obj'[c].hash = obj[c].hash /\ obj'[c].obs = obj[c].obs /\ obj'[c].reason = obj[c].reason
         /\ events' = events + 1
         /\ blind' = (IF obj[c].fin THEN blind ELSE blind \cup {c})
         /\ misled \subseteq misled' /\ misled' \subseteq Servers
         /\ UNCHANGED <<seen, q, wkVars, conn, rows, secret, left, kept>>
<1> DEFINE o == obj[c]
           p == IF o.fin THEN "deleting" ELSE "gone"
           n == [o EXCEPT !.phase = p]
<1>1. o \in Objs /\ o.phase = "live" /\ p \in {"deleting", "gone"}
  BY DEF TypeOK, DeleteObj
<1>2. obj' = [obj EXCEPT ![c] = n]
  BY DEF DeleteObj, TypeOK
<1>3. n \in Objs
  BY <1>1, ObjFacts
<1>4. /\ n.phase = p /\ n.fin = o.fin /\ n.gen = o.gen /\ n.v = o.v /\ n.id = o.id
      /\ n.hash = o.hash /\ n.obs = o.obs /\ n.reason = o.reason
  BY <1>1 DEF Objs
<1>5. obj' \in [Servers -> Objs] /\ Becomes(c, n)
  BY <1>2, <1>3, BecomesFacts
<1>6. /\ events' = events + 1 /\ blind' = (IF obj[c].fin THEN blind ELSE blind \cup {c})
      /\ misled \subseteq misled' /\ misled' \subseteq Servers
      /\ UNCHANGED <<seen, q, wkVars, conn, rows, secret, left, kept>>
  BY DEF DeleteObj, Event, TypeOK
<1> HIDE DEF n
<1> QED
  BY <1>1, <1>4, <1>5, <1>6 DEF Becomes

-----------------------------------------------------------------------------
(* The rows.                                                               *)

MadeByHand == [id |-> "manual", name |-> 0, body |-> ForeignBody]

LEMMA RowMoves ==
  ASSUME Kind
  PROVE  \/ rows' \subseteq rows
         \/ Makes /\ (Applies \/ Fails)
         \/ Puts /\ (Applies \/ Fails)
         \/ /\ Served = {} /\ rows' = rows \cup {MadeByHand} /\ OutOfBand
            /\ wk.id # "manual" /\ \A c \in Servers : obj[c].id # "manual"
<1>1. CASE Idles \/ Takes \/ Sync \/ Crash
  BY <1>1 DEF Idles, Takes, Sync, Crash
<1>2. CASE OutOfBand
  BY <1>2 DEF OutOfBand, MadeByHand
<1>3. CASE \E c \in Servers : CreateObj(c) \/ EditSpec(c) \/ DeleteObj(c)
  BY <1>3 DEF CreateObj, EditSpec, DeleteObj
<1>4. CASE LeavesOnCause \/ LeavesToSibling \/ LeavesBlind \/ LeavesNone \/ LeavesDeleted \/ Resolves
  BY <1>4 DEF LeavesOnCause, LeavesToSibling, LeavesBlind, LeavesNone, LeavesDeleted, Resolves,
              DeletesTracked, DeletesResolved
<1>5. CASE Renders \/ Decides \/ Adopts \/ Misses
  BY <1>5 DEF Renders, Decides, Adopts, Misses, Working
<1>6. CASE Applies
  BY <1>6 DEF Applies
<1>7. CASE Retries \/ Drowned \/ Reports \/ Confirms \/ Records \/ AddsFin \/ Demotes \/ Drops \/ FailsToDrop
  BY <1>7 DEF Retries, Drowned, Untouched, Reports, Confirms, Records, AddsFin, Demotes, Drops, Over, FailsToDrop
<1>8. CASE FailsToDelete
  BY <1>8 DEF FailsToDelete, DeletesTracked, DeletesResolved
<1>9. CASE Fails
  BY <1>9 DEF Fails
<1> QED
  BY <1>1, <1>2, <1>3, <1>4, <1>5, <1>6, <1>7, <1>8, <1>9 DEF Kind, Works, Closes, Users

\* A created row, and the rows after an update.
LEMMA MakesFacts ==
  ASSUME TypeOK, Makes
  PROVE  LET n == [id |-> Pinned, name |-> 0, body |-> body]
         IN /\ n \in Rows /\ n.id = Pinned /\ n.name = 0 /\ n.body = body
            /\ rows' = rows \cup {n} /\ Served = {} /\ RowOf(Pinned) = {}
<1>1. body \in Bodies /\ Pinned \in Ids
  BY DEF TypeOK, Ids
<1> QED
  BY <1>1 DEF Makes, CreateRefused, Rows

LEMMA PutsFacts ==
  ASSUME TypeOK, Puts, NEW s \in rows'
  PROVE  \/ s \in rows /\ s.id # wk.id
         \/ /\ s.id = wk.id /\ s.name = 0 /\ s.body = body /\ s \in Rows
            /\ \E r \in rows : r.id = wk.id /\ s = Put(r, body)
<1>1. CASE s \in rows \ RowOf(wk.id)
  BY <1>1 DEF RowOf
<1>2. CASE s \notin rows \ RowOf(wk.id)
  <2>1. PICK r \in RowOf(wk.id) : s = Put(r, body)
    BY <1>2 DEF Puts
  <2>2. r \in rows /\ r.id = wk.id /\ r \in Rows /\ body \in Bodies
    BY <2>1 DEF RowOf, TypeOK
  <2> QED
    BY <2>1, <2>2, PutFacts
<1> QED
  BY <1>1, <1>2

LEMMA HandFacts ==
  /\ MadeByHand \in Rows /\ MadeByHand.id = "manual" /\ MadeByHand.name = 0 /\ MadeByHand.body = ForeignBody
BY NewFacts DEF MadeByHand, Rows, Ids

RowsOK == rows \subseteq Rows /\ \A r, s \in rows : r.id = s.id => r = s

LEMMA RowsTyped ==
  ASSUME TypeOK, Named, Kind
  PROVE  RowsOK' /\ Named'
<1> USE DEF RowsOK, Named
<1>0. rows \subseteq Rows /\ \A r, s \in rows : r.id = s.id => r = s
  BY DEF TypeOK
<1>1. CASE rows' \subseteq rows
  BY <1>0, <1>1
<1>2. CASE Makes
  <2> DEFINE n == [id |-> Pinned, name |-> 0, body |-> body]
  <2>1. n \in Rows /\ n.id = Pinned /\ n.name = 0 /\ rows' = rows \cup {n} /\ Served = {} /\ RowOf(Pinned) = {}
    BY <1>2, MakesFacts
  <2> HIDE DEF n
  <2>2. \A r \in rows : r.id # n.id /\ r.name # 0
    BY <2>1 DEF RowOf, Served
  <2> QED
    BY <1>0, <2>1, <2>2
<1>3. CASE Puts
  <2>1. \A s \in rows' : \/ s \in rows /\ s.id # wk.id
                         \/ /\ s.id = wk.id /\ s.name = 0 /\ s.body = body /\ s \in Rows
                            /\ \E r \in rows : r.id = wk.id /\ s = Put(r, body)
    BY <1>3, PutsFacts
  <2>2. rows' \subseteq Rows /\ (\A r \in rows' : r.id # "legacy" => r.name = 0)
    BY <1>0, <2>1
  <2>3. ASSUME NEW r \in rows', NEW s \in rows', r.id = s.id PROVE r = s
    BY <1>0, <2>1, <2>3
  <2>4. ASSUME ~LegacyRows, NEW r \in rows', NEW s \in rows' PROVE r = s /\ r.name = 0
    BY <1>0, <2>1, <2>3, <2>4
  <2> QED
    BY <2>2, <2>3, <2>4
<1>4. CASE Served = {} /\ rows' = rows \cup {MadeByHand}
  <2>1. \A r \in rows : r.name # 0
    BY <1>4 DEF Served
  <2>2. \A r \in rows : r.id # "manual"
    BY <2>1
  <2> QED
    BY <1>0, <1>4, <2>1, <2>2, HandFacts
<1> QED
  BY <1>1, <1>2, <1>3, <1>4, RowMoves

-----------------------------------------------------------------------------
(* Types.                                                                  *)

LEMMA WorkMoves ==
  ASSUME Kind
  PROVE  UNCHANGED wkVars \/ Finish \/ Takes \/ Works
<1>1. CASE Closes
  BY <1>1 DEF Closes, Retries, Drowned, Reports, Confirms, Records, FailsToDelete, Fails, AddsFin, Demotes,
              Drops, Over, FailsToDrop, Ends
<1>2. CASE Users
  BY <1>2 DEF Users, CreateObj, EditSpec, DeleteObj, OutOfBand
<1> QED
  BY <1>1, <1>2 DEF Kind, Idles, Sync, Crash

\* While it works, the objects, what the informer shows and the queue are left alone.
LEMMA WorksFacts ==
  ASSUME TypeOK, Works
  PROVE  /\ cur # 0 /\ cur \in Servers /\ pc # "idle" /\ pc' # "idle"
         /\ UNCHANGED <<obj, cur, q, seen, secret, events, misled>>
<1>1. pc # "idle" /\ pc' # "idle" /\ UNCHANGED <<obj, cur, q, seen, secret, events, misled>>
  <2>1. CASE LeavesOnCause \/ LeavesToSibling \/ LeavesBlind \/ LeavesNone \/ LeavesDeleted \/ Resolves
    BY <2>1 DEF LeavesOnCause, LeavesToSibling, LeavesBlind, LeavesNone, LeavesDeleted, Resolves,
                DeletesTracked, DeletesResolved, Deleting, Leaving, World
  <2>2. CASE Renders \/ Decides \/ Adopts \/ Misses \/ Applies
    BY <2>2 DEF Renders, Decides, Adopts, Misses, Applies, Working, Live, World, Ghost, Makes, Puts, Updating
  <2> QED
    BY <2>1, <2>2 DEF Works
<1> QED
  BY <1>1 DEF TypeOK

WorkOK == /\ cur \in Servers \cup {0} /\ pc \in PCs /\ (cur = 0 <=> pc = "idle")
          /\ wk \in Objs /\ body \in Bodies /\ target \in Ids \cup {NoId}

LEMMA WorkTyped ==
  ASSUME TypeOK, Kind
  PROVE  WorkOK'
<1> USE DEF WorkOK, PCs
<1>0. WorkOK /\ rows \subseteq Rows
  BY DEF TypeOK
<1>1. CASE UNCHANGED wkVars
  BY <1>0, <1>1 DEF wkVars
<1>2. CASE Finish
  BY <1>2, NewFacts DEF Finish
<1>3. CASE Takes
  <2>1. PICK c \in Servers : cur' = c /\ wk' = seen[c] /\ pc' = "start" /\ UNCHANGED <<body, target>>
    BY <1>3 DEF Takes
  <2> QED
    BY <1>0, <2>1, Bounds DEF TypeOK
<1>4. CASE Works
  <2>1. cur # 0 /\ cur \in Servers /\ cur' = cur
    BY <1>4, WorksFacts
  <2>2. pc' \in PCs \ {"idle"}
    BY <1>4 DEF Works, LeavesOnCause, LeavesToSibling, LeavesBlind, LeavesNone, LeavesDeleted, Resolves,
                Renders, Decides, Adopts, Misses, Applies
  <2>3. wk' \in Objs
    <3>1. CASE LeavesOnCause \/ LeavesToSibling \/ LeavesBlind \/ LeavesNone \/ LeavesDeleted \/ Resolves
      BY <1>0, <3>1 DEF LeavesOnCause, LeavesToSibling, LeavesBlind, LeavesNone, LeavesDeleted, Resolves, Leaving
    <3>2. CASE Renders \/ Misses
      BY <1>0, <3>2 DEF Renders, Misses
    <3>3. CASE Decides
      BY <1>0, <3>3, IdFacts DEF Decides
    <3>4. CASE Adopts
      <4>1. PICK r \in rows : wk' = [wk EXCEPT !.id = r.id]
        BY <3>4 DEF Adopts
      <4>2. r.id \in Ids
        BY <1>0 DEF Rows
      <4> QED
        BY <1>0, <4>1, <4>2, IdFacts
    <3>5. CASE Applies
      <4>1. PICK i \in {Pinned, wk.id} : wk' = [wk EXCEPT !.id = i, !.hash = body]
        BY <3>5 DEF Applies
      <4>2. i \in Ids \cup {NoId}
        BY <1>0 DEF Ids, Objs
      <4> QED
        BY <1>0, <4>1, <4>2, RecordFacts
    <3> QED
      BY <1>4, <3>1, <3>2, <3>3, <3>4, <3>5 DEF Works
  <2>4. body' \in Bodies
    <3>1. CASE Renders
      <4>1. secret \in Versions /\ wk \in Objs /\ body' = Rendered(cur, wk)
        BY <3>1 DEF Renders, TypeOK
      <4> QED
        BY <2>1, <4>1, RenderedFacts
    <3>2. CASE ~Renders
      BY <1>0, <1>4, <3>2 DEF Works, LeavesOnCause, LeavesToSibling, LeavesBlind, LeavesNone, LeavesDeleted,
                Resolves, Leaving, Decides, Adopts, Misses, Applies
    <3> QED
      BY <3>1, <3>2
  <2>5. target' \in Ids \cup {NoId}
    <3>1. CASE Resolves
      <4>1. PICK r \in Preferred(Mine(Refs(rows), cur)) : target' = r.id
        BY <3>1 DEF Resolves
      <4>2. \E s \in rows : s.id = r.id
        BY DEF Preferred, Mine, Refs
      <4> QED
        BY <1>0, <4>1, <4>2 DEF Rows
    <3>2. CASE ~Resolves
      BY <1>0, <1>4, <3>2 DEF Works, LeavesOnCause, LeavesToSibling, LeavesBlind, LeavesNone, LeavesDeleted,
                Working, Renders, Decides, Adopts, Misses, Applies
    <3> QED
      BY <3>1, <3>2
  <2> QED
    BY <2>1, <2>2, <2>3, <2>4, <2>5
<1> QED
  BY <1>1, <1>2, <1>3, <1>4, WorkMoves

LEMMA ObjMoves ==
  ASSUME Kind
  PROVE  \/ obj' = obj
         \/ (\E r \in Reasons \ {"Synced"} : WriteStatus(wk, r)) /\ (Reports \/ Fails)
         \/ WriteStatus(wk, "Synced") /\ (Confirms \/ Records)
         \/ AddsFin \/ Demotes \/ Drops
         \/ \E c \in Servers : CreateObj(c) \/ EditSpec(c) \/ DeleteObj(c)
<1>1. CASE Idles \/ Takes \/ Sync \/ Crash \/ OutOfBand
  BY <1>1 DEF Idles, Takes, Sync, Crash, OutOfBand, apiVars
<1>2. CASE LeavesOnCause \/ LeavesToSibling \/ LeavesBlind \/ LeavesNone \/ LeavesDeleted \/ Resolves
  BY <1>2 DEF LeavesOnCause, LeavesToSibling, LeavesBlind, LeavesNone, LeavesDeleted, Resolves, Leaving
<1>3. CASE Renders \/ Decides \/ Adopts \/ Misses \/ Applies
  BY <1>3 DEF Renders, Decides, Adopts, Misses, Working, Applies
<1>4. CASE Retries \/ Drowned \/ FailsToDelete \/ FailsToDrop
  BY <1>4 DEF Retries, Drowned, Untouched, FailsToDelete, FailsToDrop
<1>5. CASE Reports
  BY <1>5 DEF Reports
<1>6. CASE Fails
  BY <1>6 DEF Fails
<1>7. CASE Confirms \/ Records
  BY <1>7 DEF Confirms, Records
<1> QED
  BY <1>1, <1>2, <1>3, <1>4, <1>5, <1>6, <1>7 DEF Kind, Works, Closes, Users

\* Who writes a status has fetched the resource.
LEMMA WriterFacts ==
  ASSUME TypeOK, Reports \/ Fails \/ Confirms \/ Records
  PROVE  /\ cur # 0 /\ cur \in Servers /\ Ends
         /\ pc \in MidPCs \/ Live
<1>1. pc \in MidPCs \/ Live
  BY DEF Reports, Fails, Confirms, Records, MidPCs
<1>2. cur # 0 /\ cur \in Servers
  BY <1>1 DEF Live, MidPCs, TypeOK
<1> QED
  BY <1>1, <1>2 DEF Reports, Fails, Confirms, Records

LEMMA EventMoves ==
  ASSUME Kind
  PROVE  /\ events' = events \/ events' = events + 1
         /\ seen' = seen \/ (seen' = obj /\ obj' = obj)
<1>1. CASE Idles \/ Takes \/ Sync \/ Crash
  BY <1>1 DEF Idles, Takes, Sync, Crash, World, envVars
<1>2. CASE Users
  BY <1>2 DEF Users, CreateObj, EditSpec, DeleteObj, OutOfBand, Event, apiVars
<1>3. CASE LeavesOnCause \/ LeavesToSibling \/ LeavesBlind \/ LeavesNone \/ LeavesDeleted \/ Resolves
  BY <1>3 DEF LeavesOnCause, LeavesToSibling, LeavesBlind, LeavesNone, LeavesDeleted, Resolves, Leaving, World
<1>4. CASE Renders \/ Decides \/ Adopts \/ Misses \/ Applies
  BY <1>4 DEF Renders, Decides, Adopts, Misses, Working, Applies, World
<1>5. CASE Closes
  BY <1>5 DEF Closes, Retries, Drowned, Reports, Confirms, Records, FailsToDelete, Fails, AddsFin, Demotes,
              Drops, Over, FailsToDrop, Ends, World
<1> QED
  BY <1>1, <1>2, <1>3, <1>4, <1>5 DEF Kind, Works

LEMMA ObjTyped ==
  ASSUME TypeOK, Grown, Kind
  PROVE  obj' \in [Servers -> Objs] /\ seen' \in [Servers -> Objs] /\ Grown'
<1>1. /\ events \in Nat /\ (events' = events \/ events' = events + 1)
      /\ \A c \in Servers : obj[c] \in Objs /\ obj[c].gen \in Nat /\ wk.gen \in Nat
  BY EventMoves, Numbers DEF TypeOK, Objs
<1>2. seen' \in [Servers -> Objs]
  BY EventMoves DEF TypeOK
<1>3. ASSUME obj' \in [Servers -> Objs], \A c \in Servers : obj'[c].gen = obj[c].gen
      PROVE  Grown'
  BY <1>1, <1>3 DEF Grown
<1>4. CASE obj' = obj
  BY <1>2, <1>3, <1>4 DEF TypeOK
<1>5. CASE (\E r \in Reasons : WriteStatus(wk, r)) /\ (Reports \/ Fails \/ Confirms \/ Records)
  BY <1>2, <1>3, <1>5, WriterFacts, WriteFacts
<1>6. CASE AddsFin
  BY <1>2, <1>3, <1>6, AddsFinFacts
<1>7. CASE Demotes
  BY <1>2, <1>3, <1>7, DemotesFacts
<1>8. CASE Drops
  BY <1>2, <1>3, <1>8, DropsFacts
<1>9. ASSUME NEW c \in Servers, CreateObj(c) PROVE obj' \in [Servers -> Objs] /\ Grown'
  <2>1. /\ obj' \in [Servers -> Objs] /\ \A d \in Servers : d # c => obj'[d] = obj[d]
        /\ obj'[c].gen = 1 /\ events' = events + 1
    BY <1>9, CreateFacts
  <2> QED
    BY <1>1, <2>1 DEF Grown
<1>10. ASSUME NEW c \in Servers, EditSpec(c) PROVE obj' \in [Servers -> Objs] /\ Grown'
  <2>1. /\ obj' \in [Servers -> Objs] /\ \A d \in Servers : d # c => obj'[d] = obj[d]
        /\ obj'[c].gen = obj[c].gen + 1 /\ events' = events + 1
    BY <1>10, EditFacts DEF Grown
  <2> QED
    BY <1>1, <2>1 DEF Grown
<1>11. ASSUME NEW c \in Servers, DeleteObj(c) PROVE obj' \in [Servers -> Objs] /\ Grown'
  BY <1>3, <1>11, DeleteFacts
<1>12. "Synced" \in Reasons
  BY DEF Reasons
<1> QED
  BY <1>2, <1>4, <1>5, <1>6, <1>7, <1>8, <1>9, <1>10, <1>11, <1>12, ObjMoves

\* What the worker leaves of the ghosts when it goes.
LEMMA GhostMoves ==
  ASSUME TypeOK, Kind
  PROVE  /\ left' = left \/ left' = Still(left) \/ (left' = left \cup {cur} /\ LeavesOnCause)
         /\ \/ blind' = blind \/ blind' = Still(blind) \/ (blind' = blind \cup {cur} /\ LeavesBlind)
            \/ \E c \in Servers : DeleteObj(c) /\ blind' = blind \cup {c}
         /\ kept' = kept \/ kept' = Still(kept) \/ (kept' = kept \cup {cur} /\ LeavesToSibling)
<1>1. CASE Idles \/ Takes \/ Sync \/ OutOfBand
  BY <1>1 DEF Idles, Takes, Sync, OutOfBand, Ghost, ghosts
<1>2. CASE \E c \in Servers : CreateObj(c) \/ EditSpec(c) \/ DeleteObj(c)
  BY <1>2 DEF CreateObj, EditSpec, DeleteObj, ghosts
<1>3. CASE LeavesOnCause \/ LeavesToSibling \/ LeavesBlind \/ LeavesNone \/ LeavesDeleted \/ Resolves
  BY <1>3 DEF LeavesOnCause, LeavesToSibling, LeavesBlind, LeavesNone, LeavesDeleted, Resolves, Leaving, Ghost
<1>4. CASE Renders \/ Decides \/ Adopts \/ Misses \/ Applies
  BY <1>4 DEF Renders, Decides, Adopts, Misses, Working, Applies, Ghost
<1>5. CASE Retries \/ Drowned \/ Reports \/ Confirms \/ Records \/ FailsToDelete \/ Fails
           \/ AddsFin \/ Demotes \/ Drops
  BY <1>5 DEF Retries, Drowned, Reports, Confirms, Records, FailsToDelete, Fails, AddsFin, Demotes,
              Drops, Over, Untouched, Ghost, Note
<1>6. CASE FailsToDrop \/ Crash
  BY <1>6 DEF FailsToDrop, Crash
<1> QED
  BY <1>1, <1>2, <1>3, <1>4, <1>5, <1>6 DEF Kind, Works, Closes, Users

LEMMA MisledMoves ==
  ASSUME TypeOK, Kind
  PROVE  \/ misled' = misled
         \/ Records /\ misled' = misled \ {cur}
         \/ Note /\ cur \in Servers
         \/ \E c \in Servers : DeleteObj(c) /\ misled \subseteq misled' /\ misled' \subseteq Servers
<1>1. CASE Idles \/ Takes \/ Sync \/ OutOfBand \/ Crash
  BY <1>1 DEF Idles, Takes, Sync, OutOfBand, Ghost, ghosts, Crash
<1>2. CASE \E c \in Servers : CreateObj(c) \/ EditSpec(c)
  BY <1>2 DEF CreateObj, EditSpec, ghosts
<1>3. CASE \E c \in Servers : DeleteObj(c)
  BY <1>3, DeleteFacts
<1>4. CASE Works
  BY <1>4, WorksFacts
<1>5. CASE Retries \/ Drowned \/ FailsToDelete \/ AddsFin \/ Demotes \/ Drops \/ FailsToDrop
  BY <1>5 DEF Retries, Drowned, FailsToDelete, AddsFin, Demotes, Drops, Over, Untouched, Ghost, FailsToDrop
<1>6. CASE Records
  BY <1>6 DEF Records
<1>7. CASE Reports \/ Confirms \/ Fails
  <2>1. cur \in Servers
    BY <1>7, WriterFacts
  <2> QED
    BY <1>7, <2>1 DEF Reports, Confirms, Fails
<1> QED
  BY <1>1, <1>2, <1>3, <1>4, <1>5, <1>6, <1>7 DEF Kind, Closes, Users

GhostsOK == left \subseteq Servers /\ blind \subseteq Servers /\ kept \subseteq Servers /\ misled \subseteq Servers

LEMMA GhostsTyped ==
  ASSUME TypeOK, Kind
  PROVE  GhostsOK'
<1> USE DEF GhostsOK
<1>1. GhostsOK
  BY DEF TypeOK
<1>2. \A s : Still(s) \subseteq s
  BY DEF Still
<1>3. LeavesOnCause \/ LeavesBlind \/ LeavesToSibling => cur \in Servers
  BY WorksFacts DEF Works
<1>4. left' \subseteq Servers /\ kept' \subseteq Servers /\ blind' \subseteq Servers
  BY <1>1, <1>2, <1>3, GhostMoves
<1>5. misled' \subseteq Servers
  BY <1>1, MisledMoves DEF Note
<1> QED
  BY <1>4, <1>5

\* The client's list cache and what bounds the runs.
CacheOK == lcache \in Listing \cup {NoList}
ChurnOK == churn \in [Servers -> 0 .. RecreateLimit]
ConnOK == conn \in {"Synced", "Unreachable", "BadMasterKey", "Absent"}

LEMMA ListingTyped ==
  ASSUME rows \subseteq Rows, NEW o \in {"ok"} \cup Refusals
  PROVE  ListingOf(o) \in Listing
<1>1. CASE o = "ok"
  <2>1. ASSUME NEW r \in rows
        PROVE  [id |-> r.id, name |-> r.name] \in [id : Ids, name : Raw \cup {0}]
    BY <2>1 DEF Rows
  <2>2. Refs(rows) \in SUBSET [id : Ids, name : Raw \cup {0}]
    BY <2>1 DEF Refs
  <2> QED
    BY <1>1, <2>2 DEF ListingOf, Listing
<1>2. CASE o # "ok"
  BY <1>2 DEF ListingOf, Listing, Refusals
<1> QED
  BY <1>1, <1>2

LEMMA CacheTyped ==
  ASSUME TypeOK, Next
  PROVE  CacheOK'
<1> USE DEF CacheOK
<1>0. lcache \in Listing \cup {NoList} /\ rows \subseteq Rows
  BY DEF TypeOK
<1>1. ASSUME lcache' = lcache \/ lcache' = NoList \/ \E o \in {"ok"} \cup Refusals : lcache' = ListingOf(o)
      PROVE  CacheOK'
  BY <1>0, <1>1, ListingTyped
<1>2. CASE \E c \in Servers : Fetch(c) \/ CreateObj(c) \/ EditSpec(c) \/ DeleteObj(c) \/ Expire(c)
  BY <1>1, <1>2 DEF Fetch, CreateObj, EditSpec, DeleteObj, Expire
<1>3. CASE DeleteUnavailable \/ DeleteSkipped \/ DeleteByName \/ DropFinalizer \/ AddFinalizer \/ Park \/ Demote
  BY <1>1, <1>3 DEF DeleteUnavailable, DeleteSkipped, DeleteByName, DropFinalizer, AddFinalizer, Park, Demote
<1>4. CASE DeleteTracked \/ DeleteResolved
  BY <1>1, <1>4 DEF DeleteTracked, DeleteResolved, DeleteCall, InvalidateMCPCache
<1>5. CASE Render \/ Steady \/ FindByName \/ Throttle \/ WriteSynced
  BY <1>1, <1>5 DEF Render, Steady, FindByName, Throttle, WriteSynced
<1>6. CASE CreateNew \/ UpdateRow
  BY <1>1, <1>6 DEF CreateNew, UpdateRow, InvalidateMCPCache
<1>7. CASE Probe
  BY <1>1, <1>7 DEF Probe
<1>8. CASE Sync \/ Relist \/ RotateSecret \/ OutOfBand \/ ListExpires \/ ConnDown \/ ConnUp \/ Crash
  BY <1>1, <1>8 DEF Sync, Relist, RotateSecret, OutOfBand, ListExpires, ConnDown, ConnUp, Crash
<1>9. CASE ListElsewhere
  BY <1>1, <1>9 DEF ListElsewhere
<1> QED
  BY <1>2, <1>3, <1>4, <1>5, <1>6, <1>7, <1>8, <1>9 DEF Next, Reconcile, Outside

LEMMA ConnMoves ==
  ASSUME Next
  PROVE  \/ conn' = conn
         \/ conn = "Synced" /\ conn' \in {"BadMasterKey", "Unreachable", "Absent"}
         \/ ConnUp
<1> DEFINE Goal == \/ conn' = conn
                   \/ conn = "Synced" /\ conn' \in {"BadMasterKey", "Unreachable", "Absent"}
                   \/ ConnUp
<1>1. ASSUME conn' = conn \/ InvalidateOn401 PROVE Goal
  BY <1>1 DEF InvalidateOn401
<1>2. CASE \E c \in Servers : Fetch(c) \/ CreateObj(c) \/ EditSpec(c) \/ DeleteObj(c) \/ Expire(c)
  BY <1>2 DEF Fetch, CreateObj, EditSpec, DeleteObj, Expire
<1>3. CASE DeleteUnavailable \/ DeleteSkipped \/ DropFinalizer \/ AddFinalizer \/ Park \/ Demote
  BY <1>3 DEF DeleteUnavailable, DeleteSkipped, DropFinalizer, AddFinalizer, Park, Demote
<1>4. CASE DeleteTracked \/ DeleteResolved
  BY <1>4 DEF DeleteTracked, DeleteResolved
<1>5. CASE Render \/ Steady \/ Throttle \/ WriteSynced
  BY <1>5 DEF Render, Steady, Throttle, WriteSynced
<1>6. CASE DeleteByName \/ FindByName
  BY <1>1, <1>6 DEF DeleteByName, FindByName
<1>7. ASSUME NEW o, ClassifyMutationError(o) PROVE Goal
  BY <1>1, <1>7 DEF ClassifyMutationError
<1>8. CASE CreateNew \/ UpdateRow
  BY <1>1, <1>7, <1>8 DEF CreateNew, UpdateRow, Applied
<1>9. ASSUME NEW l, Judge(l) PROVE Goal
  BY <1>1, <1>9 DEF Judge
<1>10. CASE Probe
  BY <1>1, <1>9, <1>10 DEF Probe
<1>11. CASE Sync \/ Relist \/ RotateSecret \/ OutOfBand \/ ListElsewhere \/ ListExpires \/ ConnDown \/ ConnUp \/ Crash
  BY <1>11 DEF Sync, Relist, RotateSecret, OutOfBand, ListElsewhere, ListExpires, ConnDown, Crash
<1> QED
  BY <1>2, <1>3, <1>4, <1>5, <1>6, <1>8, <1>10, <1>11 DEF Next, Reconcile, Outside

LEMMA ChurnTyped ==
  ASSUME TypeOK, Next
  PROVE  ChurnOK'
<1> USE DEF ChurnOK
<1>0. churn \in [Servers -> 0 .. RecreateLimit] /\ RecreateLimit \in Nat /\ 0 \in 0 .. RecreateLimit
  BY Bounds DEF TypeOK
<1>2. CASE \E c \in Servers : Fetch(c) \/ CreateObj(c) \/ EditSpec(c) \/ DeleteObj(c)
  BY <1>0, <1>2 DEF Fetch, CreateObj, EditSpec, DeleteObj
<1>3. CASE DeleteUnavailable \/ DeleteSkipped \/ DeleteByName \/ DropFinalizer \/ AddFinalizer \/ Park \/ Demote
  BY <1>0, <1>3 DEF DeleteUnavailable, DeleteSkipped, DeleteByName, DropFinalizer, AddFinalizer, Park, Demote
<1>4. CASE DeleteTracked \/ DeleteResolved \/ Render \/ Probe
  BY <1>0, <1>4 DEF DeleteTracked, DeleteResolved, Render, Probe
<1>5. CASE FindByName \/ Throttle \/ UpdateRow \/ WriteSynced
  BY <1>0, <1>5 DEF FindByName, Throttle, UpdateRow, WriteSynced
<1>6. CASE Steady
  <2>1. churn' = churn \/ churn' = [churn EXCEPT ![cur] = 0]
    BY <1>6 DEF Steady
  <2> QED
    BY <1>0, <2>1
<1>7. CASE CreateNew
  <2>1. churn' = churn \/ (~FirstReconcile /\ churn' = [churn EXCEPT ![cur] = @ + 1])
    BY <1>7 DEF CreateNew
  <2>2. ~Throttled
    BY <1>7 DEF CreateNew
  <2>3. CASE ~FirstReconcile /\ churn' = [churn EXCEPT ![cur] = @ + 1]
    <3>1. ~(churn[cur] >= RecreateLimit)
      BY <2>2, <2>3 DEF Throttled
    <3>2. cur \in Servers => churn[cur] + 1 \in 0 .. RecreateLimit
      BY <1>0, <3>1
    <3> QED
      BY <1>0, <2>3, <3>2
  <2> QED
    BY <1>0, <2>1, <2>3
<1>8. CASE \E c \in Servers : Expire(c)
  <2>1. PICK c \in Servers : churn[c] > 0 /\ churn' = [churn EXCEPT ![c] = @ - 1]
    BY <1>8 DEF Expire
  <2>2. churn[c] - 1 \in 0 .. RecreateLimit
    BY <1>0, <2>1
  <2> QED
    BY <1>0, <2>1, <2>2
<1>9. CASE Crash
  BY <1>0, <1>9 DEF Crash
<1>10. CASE Sync \/ Relist \/ RotateSecret \/ OutOfBand \/ ListElsewhere \/ ListExpires \/ ConnDown \/ ConnUp
  BY <1>0, <1>10 DEF Sync, Relist, RotateSecret, OutOfBand, ListElsewhere, ListExpires, ConnDown, ConnUp
<1> QED
  BY <1>2, <1>3, <1>4, <1>5, <1>6, <1>7, <1>8, <1>9, <1>10 DEF Next, Reconcile, Outside

\* Faults and events are counted up to their bounds.
LEMMA BoundsKept ==
  ASSUME TypeOK, Next
  PROVE  /\ faults' \in 0 .. MaxFaults /\ events' \in 0 .. MaxEvents
         /\ policy' = policy /\ secret' \in Versions
<1>0. /\ faults \in 0 .. MaxFaults /\ events \in 0 .. MaxEvents
      /\ MaxFaults \in Nat /\ MaxEvents \in Nat /\ secret \in Versions
  BY Bounds DEF TypeOK
<1> DEFINE Faults == faults' \in 0 .. MaxFaults
           Rest == UNCHANGED <<events, policy, secret>>
           Goal == Faults /\ events' \in 0 .. MaxEvents
                   /\ policy' = policy /\ secret' \in Versions
<1>1. ASSUME faults' = faults \/ (faults < MaxFaults /\ faults' = faults + 1)
      PROVE  Faults
  BY <1>0, <1>1
<1>2. ASSUME Faults, Rest PROVE Goal
  BY <1>0, <1>2
<1>3. ASSUME NEW o, Outcome(o) PROVE Faults
  BY <1>1, <1>3 DEF Outcome, Fault
<1>4. CASE \E c \in Servers : Fetch(c)
  BY <1>1, <1>2, <1>4 DEF Fetch, Fault, envVars
<1>5. CASE DeleteUnavailable \/ DeleteSkipped
  BY <1>1, <1>2, <1>5 DEF DeleteUnavailable, DeleteSkipped, envVars
<1>6. CASE DeleteTracked \/ DeleteResolved \/ DeleteByName
  BY <1>2, <1>3, <1>6 DEF DeleteTracked, DeleteResolved, DeleteByName, DeleteCall, envVars
<1>7. CASE DropFinalizer \/ AddFinalizer \/ Demote
  BY <1>1, <1>2, <1>7 DEF DropFinalizer, AddFinalizer, Demote, UpdateFails, Fault, envVars
<1>8. ASSUME NEW r, EndWith(r) \/ StatusLost PROVE Faults
  BY <1>1, <1>8 DEF EndWith, StatusLost, Fault
<1>9. CASE Park \/ Throttle \/ Render
  BY <1>1, <1>2, <1>8, <1>9 DEF Park, Throttle, Render, envVars
<1>10. CASE Probe \/ FindByName \/ CreateNew \/ UpdateRow
  BY <1>1, <1>2, <1>3, <1>10 DEF Probe, FindByName, CreateNew, UpdateRow, envVars
<1>11. CASE Steady \/ WriteSynced
  BY <1>1, <1>2, <1>8, <1>11 DEF Steady, WriteSynced, envVars
<1>12. CASE Sync \/ Relist \/ ListElsewhere \/ ListExpires \/ ConnUp \/ \E c \in Servers : Expire(c)
  BY <1>1, <1>2, <1>12 DEF Sync, Relist, ListElsewhere, ListExpires, ConnUp, Expire, envVars
<1>13. CASE \E c \in Servers : CreateObj(c) \/ EditSpec(c) \/ DeleteObj(c)
  BY <1>0, <1>13 DEF CreateObj, EditSpec, DeleteObj, Event
<1>14. CASE OutOfBand \/ ConnDown
  BY <1>0, <1>14 DEF OutOfBand, ConnDown, Event
<1>15. CASE RotateSecret
  <2>1. events < MaxEvents /\ events' = events + 1 /\ UNCHANGED <<policy, faults>>
        /\ secret' \in {0, events + 2}
    BY <1>15 DEF RotateSecret, Event
  <2>2. secret' \in Versions /\ events' \in 0 .. MaxEvents
    BY <1>0, <2>1 DEF Versions
  <2> QED
    BY <1>0, <2>1, <2>2
<1>16. CASE Crash
  BY <1>1, <1>2, <1>16 DEF Crash, Fault
<1> QED
  BY <1>4, <1>5, <1>6, <1>7, <1>9, <1>10, <1>11, <1>12, <1>13, <1>14, <1>15, <1>16
     DEF Next, Reconcile, Outside

LEMMA ClosesFacts ==
  ASSUME TypeOK, Closes
  PROVE  /\ pc # "idle" /\ cur \in Servers /\ obj[cur] \in Objs /\ Ends
         /\ q \subseteq q' /\ q' \subseteq q \cup {cur}
<1>1. Ends /\ q \subseteq q' /\ q' \subseteq q \cup {cur}
  <2>1. CASE Fails
    BY <2>1 DEF Fails, Again
  <2>2. CASE Reports
    BY <2>2 DEF Reports, Again
  <2> QED
    BY <2>1, <2>2 DEF Closes, Retries, Drowned, Confirms, Records, FailsToDelete, AddsFin, Demotes,
                Drops, Over, FailsToDrop, Again
<1> QED
  BY <1>1, CurFacts DEF Ends

\* The queue, by the kind of a step.
LEMMA QueueMoves ==
  ASSUME TypeOK, Kind
  PROVE  \/ \E c \in Servers : q' = q \ {c} /\ (Takes \/ seen[c].phase \notin Around) /\ rows' = rows /\ obj' = obj
         \/ q \subseteq q' /\ q' \subseteq q \cup Servers
         \/ Crash
<1> USE DEF TypeOK
<1>1. Present \subseteq Servers /\ \A c \in Servers : FannedOut(c) \subseteq Servers
  BY DEF Present, FannedOut, Siblings
<1>2. CASE Idles
  <2>1. \/ \E c \in Servers : seen[c].phase \notin Around /\ q' = q \ {c}
        \/ q \subseteq q' /\ q' \subseteq q \cup Servers
        \/ q' = q \cup Present
    BY <1>1, <1>2 DEF Idles
  <2> QED
    BY <1>1, <1>2, <2>1 DEF Idles
<1>3. CASE Takes
  BY <1>3 DEF Takes
<1>4. CASE Sync
  BY <1>1, <1>4 DEF Sync
<1>5. CASE Works
  BY <1>5, WorksFacts
<1>6. CASE Users
  BY <1>6 DEF Users, CreateObj, EditSpec, DeleteObj, OutOfBand
<1>7. CASE Closes
  <2>1. cur \in Servers /\ q \subseteq q' /\ q' \subseteq q \cup {cur}
    BY <1>7, ClosesFacts
  <2> QED
    BY <2>1
<1> QED
  BY <1>2, <1>3, <1>4, <1>5, <1>6, <1>7 DEF Kind

LEMMA TypeStep ==
  ASSUME TypeOK, Grown, Paths, Named, Next
  PROVE  TypeOK' /\ Grown' /\ Named'
<1>1. Kind
  BY Kinds
<1>2. /\ obj' \in [Servers -> Objs] /\ seen' \in [Servers -> Objs] /\ Grown'
  BY <1>1, ObjTyped
<1>3. RowsOK' /\ Named' /\ WorkOK' /\ GhostsOK'
  BY <1>1, RowsTyped, WorkTyped, GhostsTyped
<1>4. CacheOK' /\ ChurnOK'
  BY CacheTyped, ChurnTyped
<1>5. ConnOK'
  <2>1. conn \in {"Synced", "Unreachable", "BadMasterKey", "Absent"}
    BY DEF TypeOK
  <2>2. ConnUp => conn' = "Synced"
    BY DEF ConnUp
  <2> QED
    BY <2>1, <2>2, ConnMoves DEF ConnOK
<1>6. /\ faults' \in 0 .. MaxFaults /\ events' \in 0 .. MaxEvents
      /\ policy' \in Policies /\ secret' \in Versions
  BY BoundsKept DEF TypeOK
<1>7. q' \subseteq Servers
  <2>1. q \subseteq Servers
    BY DEF TypeOK
  <2>2. Crash => q' \subseteq Servers
    BY DEF Crash
  <2> QED
    BY <1>1, <2>1, <2>2, QueueMoves
<1> QED
  BY <1>2, <1>3, <1>4, <1>5, <1>6, <1>7 DEF TypeOK, RowsOK, WorkOK, GhostsOK, CacheOK, ChurnOK, ConnOK

-----------------------------------------------------------------------------
(* Where a reconcile is.                                                   *)

LEMMA PathsStep ==
  ASSUME TypeOK, Paths, Kind
  PROVE  Paths'
<1> USE DEF Around, DelPCs, MidPCs
<1>0. wk \in Objs /\ body \in Bodies /\ rows \subseteq Rows
  BY DEF TypeOK
<1>1. CASE Finish
  BY <1>1 DEF Finish, Paths
<1>2. CASE UNCHANGED wkVars
  <2>1. ASSUME pc = "synced", NEW r \in rows', r.id = wk.id
        PROVE  r.body = body
    <3>1. CASE r \in rows
      BY <2>1, <3>1 DEF Paths, RowOf
    <3>2. CASE r \notin rows
      <4>1. ~Makes
        BY <2>1 DEF Makes
      <4>2. ~Puts
        BY <2>1 DEF Puts, Updating
      <4>3. rows' = rows \cup {MadeByHand} /\ wk.id # "manual"
        BY <3>2, <4>1, <4>2, RowMoves
      <4> QED
        BY <2>1, <3>2, <4>3, HandFacts
    <3> QED
      BY <3>1, <3>2
  <2>2. pc = "synced" => \A r \in RowOf(wk.id)' : r.body = body
    BY <1>2, <2>1 DEF RowOf, wkVars
  <2> QED
    BY <1>2, <2>2 DEF Paths, wkVars
<1>3. CASE Takes
  BY <1>3 DEF Takes, Paths
<1>4. CASE Works
  <2>1. CASE LeavesOnCause \/ LeavesToSibling \/ LeavesBlind \/ LeavesNone \/ LeavesDeleted
    <3>1. pc' = "drop" /\ UNCHANGED <<cur, wk, body>>
      BY <2>1 DEF LeavesOnCause, LeavesToSibling, LeavesBlind, LeavesNone, LeavesDeleted, Leaving
    <3>2. wk.phase = "deleting"
      BY <2>1 DEF LeavesOnCause, LeavesToSibling, LeavesBlind, LeavesNone, LeavesDeleted,
                  DeletesTracked, DeletesResolved, Deleting, Paths
    <3> QED
      BY <3>1, <3>2 DEF Paths
  <2>2. CASE Resolves
    <3>1. PICK r \in Preferred(Mine(Refs(rows), cur)) : target' = r.id
      BY <2>2 DEF Resolves
    <3>2. \E s \in rows : s.id = r.id
      BY DEF Preferred, Mine, Refs
    <3>3. target' # NoId
      BY <1>0, <3>1, <3>2 DEF Rows, Ids, NoId, Pinned
    <3> QED
      BY <2>2, <3>3 DEF Resolves, Leaving, Deleting, Paths
  <2>3. CASE Renders
    <3>1. body'.by = cur /\ body'.v = wk.v /\ body'.sec = secret
      BY <2>3 DEF Renders, Rendered
    <3> QED
      BY <2>3, <3>1 DEF Renders, Working, Live, Paths
  <2>4. CASE Decides
    <3>1. wk'.phase = wk.phase /\ wk'.fin = wk.fin /\ wk'.v = wk.v
      <4>1. CASE wk' = [wk EXCEPT !.id = NoId]
        <5>1. NoId \in Ids \cup {NoId}
          OBVIOUS
        <5> QED
          BY <1>0, <4>1, <5>1, IdFacts
      <4> QED
        BY <2>4, <4>1 DEF Decides
    <3> QED
      BY <2>4, <3>1 DEF Decides, Working, Paths
  <2>5. CASE Adopts
    <3>1. PICK r \in rows : wk' = [wk EXCEPT !.id = r.id]
      BY <2>5 DEF Adopts
    <3>2. r.id \in Ids /\ r.id # NoId
      BY <1>0 DEF Rows, Ids, NoId, Pinned
    <3>3. wk'.id = r.id /\ wk'.phase = wk.phase /\ wk'.fin = wk.fin /\ wk'.v = wk.v
      BY <1>0, <3>1, <3>2, IdFacts
    <3> QED
      BY <2>5, <3>2, <3>3 DEF Adopts, Working, Paths
  <2>6. CASE Misses
    BY <2>6 DEF Misses, Working, Paths
  <2>7. CASE Applies
    <3>1. PICK i \in {Pinned, wk.id} : /\ wk' = [wk EXCEPT !.id = i, !.hash = body]
                                       /\ (Makes /\ i = Pinned) \/ (Puts /\ i = wk.id)
      BY <2>7 DEF Applies
    <3>2. i \in Ids \cup {NoId} /\ i # NoId
      <4>1. Pinned \in Ids /\ Pinned # NoId /\ wk.id \in Ids \cup {NoId}
        BY <1>0 DEF Ids, Objs, NoId, Pinned
      <4>2. Puts => wk.id # NoId
        BY DEF Puts, Updating, Paths
      <4>3. i \in Ids \cup {NoId}
        BY <3>1, <4>1
      <4>4. i # NoId
        BY <3>1, <4>1, <4>2
      <4> QED
        BY <4>3, <4>4
    <3>3. wk'.id = i /\ wk'.hash = body /\ wk'.phase = wk.phase /\ wk'.fin = wk.fin /\ wk'.v = wk.v
      <4> DEFINE y == [wk EXCEPT !.id = i, !.hash = body]
      <4>1. y.id = i /\ y.hash = body /\ y.phase = wk.phase /\ y.fin = wk.fin /\ y.v = wk.v
        BY <1>0 DEF Objs
      <4>2. wk' = y
        BY <3>1
      <4> HIDE DEF y
      <4> QED
        BY <4>1, <4>2
    <3>4. ASSUME NEW r \in rows', r.id = i PROVE r.body = body
      <4>1. CASE Makes /\ i = Pinned
        BY <3>4, <4>1, MakesFacts DEF RowOf
      <4>2. CASE Puts /\ i = wk.id
        BY <3>4, <4>2, PutsFacts
      <4> QED
        BY <3>1, <4>1, <4>2
    <3>5. pc \in MidPCs
      BY <3>1 DEF Makes, Puts, Updating
    <3>6. pc' = "synced" /\ UNCHANGED <<cur, body>>
      BY <2>7 DEF Applies
    <3>7. RowOf(wk.id)' = {r \in rows' : r.id = i}
      BY <3>3 DEF RowOf
    <3> QED
      BY <3>2, <3>3, <3>4, <3>5, <3>6, <3>7 DEF Paths
  <2> QED
    BY <1>4, <2>1, <2>2, <2>3, <2>4, <2>5, <2>6, <2>7 DEF Works
<1> QED
  BY <1>1, <1>2, <1>3, <1>4, WorkMoves

\* The worker's copy keeps the version it was fetched with.
LEMMA CopyMoves ==
  ASSUME TypeOK, Paths, Works
  PROVE  /\ wk'.phase = wk.phase /\ wk'.fin = wk.fin /\ wk'.gen = wk.gen /\ wk'.v = wk.v
         /\ wk'.obs = wk.obs /\ wk'.reason = wk.reason
         /\ wk.phase = "deleting" => wk' = wk
<1>1. wk \in Objs
  BY DEF TypeOK
<1>2. CASE LeavesOnCause \/ LeavesToSibling \/ LeavesBlind \/ LeavesNone \/ LeavesDeleted \/ Resolves
  BY <1>2 DEF LeavesOnCause, LeavesToSibling, LeavesBlind, LeavesNone, LeavesDeleted, Resolves, Leaving
<1>3. CASE Renders \/ Misses
  BY <1>3 DEF Renders, Misses
<1>4. CASE Decides \/ Adopts \/ Applies
  <2>1. wk' = wk \/ \E i, b : wk' = [wk EXCEPT !.id = i] \/ wk' = [wk EXCEPT !.id = i, !.hash = b]
    BY <1>4 DEF Decides, Adopts, Applies
  <2>2. /\ wk'.phase = wk.phase /\ wk'.fin = wk.fin /\ wk'.gen = wk.gen /\ wk'.v = wk.v
        /\ wk'.obs = wk.obs /\ wk'.reason = wk.reason
    BY <1>1, <2>1 DEF Objs
  <2>3. wk.phase # "deleting"
    BY <1>4 DEF Decides, Adopts, Applies, Makes, Puts, Updating, Paths, MidPCs
  <2> QED
    BY <2>2, <2>3
<1> QED
  BY <1>2, <1>3, <1>4 DEF Works

\* A resource that went without its row's id known stays so.
LEMMA BlindKept ==
  ASSUME TypeOK, Kind, NEW c \in blind, obj[c].phase = "gone"
  PROVE  c \in blind'
BY GhostMoves DEF Still

LEMMA LifeStep ==
  ASSUME TypeOK, Grown, Paths, Life, Kind
  PROVE  Life'
<1> USE DEF Around
<1>0. /\ \A c \in Servers : obj[c] \in Objs /\ seen[c] \in Objs
      /\ wk \in Objs /\ cur \in Servers \cup {0} /\ (cur = 0 <=> pc = "idle")
  BY DEF TypeOK
<1>1. \A c \in blind : obj[c].phase = "gone" => c \in blind'
  BY BlindKept
<1>2. \A c \in Servers : obj[c].phase = "absent" => seen[c].phase = "absent"
  BY <1>0 DEF Life, Behind, Objs
<1> DEFINE Copied == /\ cur # 0 => seen[cur].phase # "absent"
                     /\ cur # 0 /\ wk.phase = "deleting" =>
                          /\ wk.fin /\ seen[cur].phase \in {"deleting", "gone"}
                          /\ obj[cur] = wk => seen[cur] = wk
                          /\ obj[cur].phase = "gone" => obj[cur].id = wk.id
                     /\ cur # 0 /\ wk.phase = "live" /\ wk.fin => obj[cur].phase \in Around /\ obj[cur].fin
           Level == \A c \in Servers : Behind(obj[c], seen[c], c)
<1>3. Level /\ Copied
  BY DEF Life
<1>4. ASSUME obj' = obj, seen' = seen PROVE Level'
  BY <1>0, <1>1, <1>3, <1>4 DEF Behind
<1>5. ASSUME obj' = obj, seen' = obj PROVE Level'
  <2>1. ASSUME NEW c \in Servers PROVE Behind(obj[c], obj[c], c)'
    BY <1>0, <1>2, <1>3, <1>5, <2>1 DEF Behind, Objs
  <2> QED
    BY <2>1, <1>5
<1>6. CASE UNCHANGED wkVars /\ obj' = obj /\ seen' = seen
  BY <1>3, <1>4, <1>6 DEF Life, wkVars
<1>7. CASE Sync
  <2>1. obj' = obj /\ seen' = obj /\ UNCHANGED wkVars
    BY <1>7 DEF Sync
  <2>2. cur # 0 => /\ obj[cur].phase # "absent"
                   /\ seen[cur].phase \in {"deleting", "gone"} => obj[cur].phase \in {"deleting", "gone"}
    BY <1>0, <1>2, <1>3 DEF Behind
  <2> QED
    BY <1>3, <1>5, <2>1, <2>2 DEF Life, wkVars
<1>8. CASE Crash
  <2>1. obj' = obj /\ seen' = obj /\ cur' = 0
    BY <1>8 DEF Crash, Finish
  <2> QED
    BY <1>5, <2>1 DEF Life
<1>9. CASE Takes
  <2>1. PICK c \in Servers : /\ cur' = c /\ wk' = seen[c] /\ seen[c].phase \in Around
                             /\ obj' = obj /\ seen' = seen
    BY <1>9 DEF Takes, World
  <2>2. Behind(obj[c], seen[c], c)
    BY <1>3
  <2>3. Copied'
    BY <2>1, <2>2 DEF Behind
  <2> QED
    BY <1>4, <2>1, <2>3 DEF Life
<1>10. CASE Works
  <2>1. UNCHANGED <<obj, seen, cur>>
    BY <1>10, WorksFacts
  <2>2. wk'.phase = wk.phase /\ wk'.fin = wk.fin /\ (wk.phase = "deleting" => wk' = wk)
    BY <1>10, CopyMoves
  <2> QED
    BY <1>3, <1>4, <2>1, <2>2 DEF Life
<1>11. ASSUME NEW c \in Servers, \A d \in Servers : d # c => obj'[d] = obj[d], seen' = seen,
              Behind(obj[c], seen[c], c)'
       PROVE  Level'
  BY <1>0, <1>1, <1>3, <1>11 DEF Behind
<1>12. CASE Closes
  <2>1. seen' = seen /\ cur' = 0 /\ cur \in Servers /\ cur # 0 /\ pc # "idle"
    BY <1>0, <1>12, ClosesFacts DEF Ends, World, Finish
  <2>2. PICK c \in Servers : c = cur
    BY <2>1
  <2>3. obj' = obj \/ (Behind(obj[c], seen[c], c)' /\ \A d \in Servers : d # c => obj'[d] = obj[d])
    <3>1. CASE Demotes
      BY <1>0, <1>3, <2>1, <2>2, <3>1, DemotesFacts DEF Behind
    <3>2. CASE AddsFin
      BY <1>0, <1>3, <2>1, <2>2, <3>2, AddsFinFacts DEF Behind
    <3>3. CASE Drops
      <4>1. wk.phase = "deleting"
        BY <3>3 DEF Drops, DelPCs, Paths
      <4> QED
        BY <1>0, <1>3, <2>1, <2>2, <3>3, <4>1, DropsFacts DEF Behind
    <3>4. CASE (\E r \in Reasons : WriteStatus(wk, r)) /\ (Reports \/ Fails \/ Confirms \/ Records)
      <4>1. wk.phase = "live" /\ wk.fin
        BY <3>4, WriterFacts DEF Live, Paths
      <4>2. PICK r \in Reasons : WriteStatus(wk, r)
        BY <3>4
      <4>3. /\ \A d \in Servers : d # cur => obj'[d] = obj[d]
            /\ obj'[cur].phase = obj[cur].phase /\ obj'[cur].fin = obj[cur].fin
        BY <2>1, <4>2, WriteFacts
      <4>4. obj[cur].phase \in Around /\ obj[cur].fin /\ seen[cur].phase # "absent"
        BY <1>3, <2>1, <4>1
      <4> QED
        BY <1>0, <1>3, <2>1, <2>2, <4>3, <4>4 DEF Behind
    <3>5. ~\E d \in Servers : CreateObj(d) \/ EditSpec(d) \/ DeleteObj(d)
      BY <2>1 DEF CreateObj, EditSpec, DeleteObj, wkVars
    <3>6. "Synced" \in Reasons
      BY DEF Reasons
    <3> QED
      BY <1>12, <3>1, <3>2, <3>3, <3>4, <3>5, <3>6, ObjMoves
  <2> QED
    BY <1>4, <1>11, <2>1, <2>3 DEF Life
<1>13. CASE Users
  <2>1. UNCHANGED wkVars /\ seen' = seen
    BY <1>13 DEF Users, CreateObj, EditSpec, DeleteObj, OutOfBand, apiVars
  <2>2. CASE OutOfBand
    BY <1>6, <2>1, <2>2 DEF OutOfBand, apiVars
  <2>3. ASSUME NEW c \in Servers, CreateObj(c) PROVE Life'
    <3>1. Behind(obj[c], seen[c], c)'
      BY <1>0, <1>3, <2>1, <2>3, CreateFacts DEF Behind
    <3>2. cur = c => FALSE
      BY <1>2, <1>3, <2>3, Bounds DEF CreateObj
    <3> QED
      BY <1>3, <1>11, <2>1, <2>3, <3>1, <3>2, CreateFacts, <1>0 DEF Life, wkVars
  <2>4. ASSUME NEW c \in Servers, EditSpec(c) PROVE Life'
    <3>1. /\ \A d \in Servers : d # c => obj'[d] = obj[d]
          /\ obj[c].phase = "live" /\ obj'[c].phase = "live" /\ obj'[c].fin = obj[c].fin
          /\ obj'[c].id = obj[c].id /\ obj'[c].hash = obj[c].hash
          /\ obj'[c].obs = obj[c].obs /\ obj'[c].reason = obj[c].reason
      BY <2>4, EditFacts DEF Grown
    <3>2. Behind(obj[c], seen[c], c)'
      BY <1>0, <1>3, <2>1, <3>1 DEF Behind, Fresh
    <3> QED
      BY <1>0, <1>3, <1>11, <2>1, <3>1, <3>2 DEF Life, wkVars
  <2>5. ASSUME NEW c \in Servers, DeleteObj(c) PROVE Life'
    <3>1. /\ \A d \in Servers : d # c => obj'[d] = obj[d]
          /\ obj[c].phase = "live" /\ obj'[c].phase = (IF obj[c].fin THEN "deleting" ELSE "gone")
          /\ obj'[c].fin = obj[c].fin
          /\ obj'[c].id = obj[c].id /\ obj'[c].hash = obj[c].hash
          /\ obj'[c].obs = obj[c].obs /\ obj'[c].reason = obj[c].reason
          /\ blind' = (IF obj[c].fin THEN blind ELSE blind \cup {c})
      BY <2>5, DeleteFacts
    <3>2. Behind(obj[c], seen[c], c)'
      <4>1. CASE obj[c].fin
        BY <1>0, <1>3, <2>1, <3>1, <4>1 DEF Behind, Fresh
      <4>2. CASE ~obj[c].fin
        BY <1>0, <1>3, <2>1, <3>1, <4>2 DEF Behind, Fresh
      <4> QED
        BY <4>1, <4>2
    <3>3. cur = c /\ cur # 0 => wk.phase # "deleting"
      BY <1>3, <3>1 DEF Behind
    <3> QED
      BY <1>0, <1>3, <1>11, <2>1, <3>1, <3>2, <3>3 DEF Life, wkVars
  <2> QED
    BY <1>13, <2>2, <2>3, <2>4, <2>5 DEF Users
<1>14. CASE Idles
  BY <1>6, <1>14 DEF Idles
<1> QED
  BY <1>7, <1>8, <1>9, <1>10, <1>12, <1>13, <1>14 DEF Kind

-----------------------------------------------------------------------------
(* A resource that lost the entry is told.                                 *)

LEMMA NotLoser ==
  ASSUME TypeOK, ~Loser
  PROVE  \A d \in Servers : seen[d].phase = "live" => d <= cur
<1>1. CASE Candidates = {}
  BY <1>1 DEF Candidates
<1>2. CASE Candidates # {}
  <2>1. Candidates \in SUBSET Servers /\ cur = Max(Candidates)
    BY <1>2 DEF Candidates, Loser
  <2>2. \A y \in Candidates : cur >= y
    BY <1>2, <2>1, MaxFacts
  <2>3. cur \in Nat /\ Servers \subseteq Nat
    BY Bounds DEF TypeOK
  <2> QED
    BY <2>2, <2>3 DEF Candidates
<1> QED
  BY <1>1, <1>2

\* Who was reconciled is in the informer's list until it is gone.
LEMMA PresentFacts ==
  ASSUME TypeOK, Paths, Life
  PROVE  /\ \A c \in Servers : obj[c].phase = "live" /\ obj[c].reason # "none" => seen[c].phase = "live"
         /\ pc \in MidPCs => cur \in Present
<1>0. \A c \in Servers : seen[c] \in Objs
  BY DEF TypeOK
<1>1. \A c \in Servers : obj[c].phase = "live" /\ obj[c].reason # "none" => seen[c].phase = "live"
  BY <1>0 DEF Life, Behind, Fresh, Objs
<1>2. ASSUME pc \in MidPCs PROVE cur \in Present
  <2>1. cur # 0 /\ cur \in Servers
    BY <1>2, CurFacts DEF MidPCs
  <2>2. obj[cur].phase \in Around /\ seen[cur].phase # "absent"
    BY <1>2, <2>1 DEF Paths, Life
  <2>3. seen[cur].phase # "gone"
    BY <2>1, <2>2 DEF Life, Behind, Around
  <2> QED
    BY <1>0, <2>1, <2>2, <2>3 DEF Objs, Present
<1> QED
  BY <1>1, <1>2

\* What a resource is told about another.
ToldOf(c, d) ==
  /\ obj[c].phase = "live" /\ obj[c].reason = "Synced" /\ conn = "Synced" =>
       c \in q \/ (cur = c /\ pc = "start")
  /\ cur = c /\ pc \in MidPCs => c \in q

LEMMA ToldStep ==
  ASSUME TypeOK, Grown, Paths, Life, Told, Next
  PROVE  Told'
<1>0. Kind /\ \A c \in Servers : c \in Nat /\ obj[c] \in Objs /\ seen[c] \in Objs
  BY Kinds, Bounds DEF TypeOK
<1>1. \A c, d \in Servers : c < d /\ seen[d].phase = "live" => ToldOf(c, d)
  BY DEF Told, ToldOf
<1>2. SUFFICES ASSUME NEW c \in Servers, NEW d \in Servers, c < d, seen'[d].phase = "live"
               PROVE  ToldOf(c, d)'
  BY DEF Told, ToldOf
<1>3. /\ obj[c].phase = "live" /\ obj[c].reason = "Synced" => c \in Present
      /\ cur = c /\ pc \in MidPCs => c \in Present
  BY PresentFacts DEF Present
<1>4. conn' = "Synced" => conn = "Synced" \/ q' = q \cup Present
  BY ConnMoves DEF ConnUp
<1>5. CASE Idles
  <2>1. ToldOf(c, d) /\ UNCHANGED <<obj, seen, cur, pc>>
    BY <1>1, <1>2, <1>5 DEF Idles, wkVars
  <2>2. q \subseteq q' \/ \E e \in Servers : e \notin Present /\ q' = q \ {e}
    BY <1>5 DEF Idles, Present, Around
  <2> QED
    BY <1>3, <1>4, <2>1, <2>2 DEF ToldOf
<1>6. CASE Takes
  <2>1. PICK e \in Servers : /\ cur = 0 /\ q' = q \ {e} /\ cur' = e /\ pc' = "start"
                             /\ obj' = obj /\ seen' = seen /\ conn' = conn
    BY <1>6 DEF Takes, World
  <2>2. ToldOf(c, d)
    BY <1>1, <1>2, <2>1
  <2> QED
    BY <2>1, <2>2, Bounds DEF ToldOf, MidPCs
<1>7. CASE Works
  <2>1. cur # 0 /\ cur \in Servers /\ UNCHANGED <<obj, cur, q, seen>>
    BY <1>7, WorksFacts
  <2>2. ToldOf(c, d)
    BY <1>1, <1>2, <2>1
  <2>3. conn' = "Synced" => conn = "Synced"
    <3>1. ~ConnUp
      BY <1>7, WorksFacts, CopyMoves DEF ConnUp, wkVars, Works, LeavesOnCause, LeavesToSibling, LeavesBlind, LeavesNone,
         LeavesDeleted, Resolves, Renders, Decides, Adopts, Misses, Applies, DeletesTracked, DeletesResolved,
         Deleting, Live, Makes, Puts, Updating
    <3> QED
      BY <3>1, ConnMoves
  <2>4. CASE c # cur
    BY <2>1, <2>2, <2>3, <2>4 DEF ToldOf
  <2>5. CASE c = cur /\ pc \in MidPCs
    BY <2>1, <2>2, <2>5 DEF ToldOf
  <2>6. CASE c = cur /\ pc \notin MidPCs
    <3>1. CASE Renders
      <4>1. ~Loser
        BY <3>1 DEF Renders
      <4> QED
        BY <1>0, <1>2, <2>1, <2>6, <4>1, NotLoser
    <3>2. CASE ~Renders
      <4>1. pc' \notin MidPCs /\ wk.phase = "deleting"
        BY <1>7, <2>6, <3>2 DEF Works, LeavesOnCause, LeavesToSibling, LeavesBlind, LeavesNone,
           LeavesDeleted, Resolves, Decides, Adopts, Misses, Applies, DeletesTracked, DeletesResolved,
           Deleting, Makes, Puts, Updating, MidPCs, DelPCs, Paths
      <4>2. obj[cur].phase # "live"
        BY <2>1, <4>1 DEF Life, Behind
      <4> QED
        BY <2>1, <2>6, <4>1, <4>2 DEF ToldOf
    <3> QED
      BY <3>1, <3>2
  <2> QED
    BY <2>4, <2>5, <2>6
<1>8. CASE Closes
  <2>1. seen' = seen /\ cur' = 0 /\ cur \in Servers /\ cur # 0 /\ pc # "idle" /\ q \subseteq q' /\ pc' = "idle"
    BY <1>8, ClosesFacts, CurFacts DEF Ends, World, Finish
  <2>2. ToldOf(c, d)
    BY <1>1, <1>2, <2>1
  <2>3. conn' = "Synced" => conn = "Synced"
    BY <2>1, ConnMoves DEF ConnUp, wkVars
  <2>4. CASE c # cur
    <3>1. obj'[c] = obj[c]
      <4>1. ~\E e \in Servers : CreateObj(e) \/ EditSpec(e) \/ DeleteObj(e)
        BY <2>1 DEF CreateObj, EditSpec, DeleteObj, wkVars
      <4>2. "Synced" \in Reasons
        BY DEF Reasons
      <4>3. \A r \in Reasons : WriteStatus(wk, r) => obj'[c] = obj[c]
        BY <2>1, <2>4, WriteFacts
      <4> QED
        BY <1>0, <2>4, <4>1, <4>2, <4>3, ObjMoves, AddsFinFacts, DemotesFacts, DropsFacts
    <3> QED
      BY <2>1, <2>2, <2>3, <2>4, <3>1 DEF ToldOf, MidPCs
  <2>5. CASE c = cur
    <3>1. SUFFICES ASSUME obj'[c].phase = "live", obj'[c].reason = "Synced", conn' = "Synced"
                   PROVE  c \in q'
      BY <2>1 DEF ToldOf, MidPCs
    <3>2. CASE pc \in MidPCs
      BY <2>1, <2>2, <2>5, <3>2 DEF ToldOf
    <3>3. CASE pc \notin MidPCs
      <4>1. CASE Retries \/ FailsToDelete \/ FailsToDrop
        BY <2>5, <4>1 DEF Retries, FailsToDelete, FailsToDrop, Again
      <4>2. CASE Drowned
        <5>1. CASE Live /\ ~Loser
          BY <1>0, <1>2, <2>1, <2>5, <5>1, NotLoser
        <5>2. CASE pc = "start" /\ wk.phase = "deleting"
          <6>1. obj[cur].phase # "live" /\ obj' = obj
            BY <2>1, <4>2, <5>2 DEF Life, Behind, Drowned, Untouched
          <6> QED
            BY <2>5, <3>1, <6>1
        <5> QED
          BY <3>1, <3>3, <4>2, <5>1, <5>2 DEF Drowned, MidPCs
      <4>3. CASE Reports
        <5>1. PICK r \in Reasons \ {"Synced"} : WriteStatus(wk, r)
          BY <4>3 DEF Reports
        <5>2. obj'[cur].reason = r
          BY <2>1, <5>1, WriteFacts
        <5> QED
          BY <2>5, <3>1, <5>1, <5>2
      <4>4. CASE AddsFin
        <5>1. obj'[cur].reason = obj[cur].reason /\ ~obj[cur].fin /\ obj[cur].phase = "live"
          BY <4>4, AddsFinFacts
        <5>2. obj[cur].reason = "none"
          BY <2>1, <5>1 DEF Life, Behind, Fresh
        <5> QED
          BY <2>5, <3>1, <5>1, <5>2
      <4>5. CASE Demotes \/ Drops
        BY <2>5, <3>1, <4>5, DemotesFacts, DropsFacts
      <4>6. CASE Confirms \/ Records \/ Fails
        BY <3>3, <4>6 DEF Confirms, Records, Fails, MidPCs
      <4> QED
        BY <1>8, <4>1, <4>2, <4>3, <4>4, <4>5, <4>6 DEF Closes
    <3> QED
      BY <3>2, <3>3
  <2> QED
    BY <2>4, <2>5
<1>9. CASE Sync
  <2>1. /\ obj' = obj /\ seen' = obj /\ UNCHANGED <<cur, pc, conn>>
        /\ q' = q \cup UNION {FannedOut(e) : e \in {f \in Servers : seen[f] # obj[f]}}
    BY <1>9 DEF Sync, wkVars
  <2>2. obj[d].phase = "live"
    BY <1>2, <2>1
  <2>3. CASE seen[d].phase = "live"
    <3>1. ToldOf(c, d)
      BY <1>1, <1>2, <2>3
    <3> QED
      BY <2>1, <3>1 DEF ToldOf
  <2>4. CASE seen[d].phase # "live"
    <3>1. seen[d].phase = "absent"
      BY <1>0, <2>2, <2>4 DEF Life, Behind, Objs
    <3>2. seen[d] # obj[d]
      BY <2>2, <3>1
    <3>3. FannedOut(d) \subseteq q'
      BY <2>1, <3>2
    <3>4. c # d
      BY <1>0, <1>2
    <3>5. c \in Present => c \in q'
      BY <3>1, <3>3, <3>4 DEF FannedOut, Siblings
    <3> QED
      BY <1>3, <2>1, <3>5 DEF ToldOf
  <2> QED
    BY <2>3, <2>4
<1>10. CASE Crash
  BY <1>10 DEF Crash, Finish, ToldOf, MidPCs
<1>11. CASE Users
  <2>1. UNCHANGED <<seen, q, cur, pc, conn>>
    BY <1>11 DEF Users, CreateObj, EditSpec, DeleteObj, OutOfBand, wkVars, apiVars
  <2>2. ToldOf(c, d)
    BY <1>1, <1>2, <2>1
  <2>3. obj'[c].phase = "live" /\ obj'[c].reason = "Synced" => obj[c].phase = "live" /\ obj[c].reason = "Synced"
    <3>1. CASE OutOfBand
      BY <3>1 DEF OutOfBand, apiVars
    <3>2. ASSUME NEW e \in Servers, CreateObj(e)
          PROVE  /\ obj'[c] = obj[c] \/ c = e
                 /\ c = e => obj'[c].reason = "none"
      BY <3>2, CreateFacts DEF Fresh
    <3>3. ASSUME NEW e \in Servers, EditSpec(e)
          PROVE  /\ obj'[c] = obj[c] \/ c = e
                 /\ c = e => obj[c].phase = "live" /\ obj'[c].reason = obj[c].reason
      BY <3>3, EditFacts DEF Grown
    <3>4. ASSUME NEW e \in Servers, DeleteObj(e)
          PROVE  /\ obj'[c] = obj[c] \/ c = e
                 /\ c = e => obj'[c].phase # "live"
      BY <3>4, DeleteFacts
    <3> QED
      BY <1>11, <3>1, <3>2, <3>3, <3>4 DEF Users
  <2> QED
    BY <2>1, <2>2, <2>3 DEF ToldOf
<1> QED
  BY <1>0, <1>5, <1>6, <1>7, <1>8, <1>9, <1>10, <1>11 DEF Kind

-----------------------------------------------------------------------------
(* How resources go.                                                       *)

LEMMA LiveWriter ==
  ASSUME TypeOK, Paths, Life, Reports \/ Fails \/ Confirms \/ Records \/ Demotes \/ AddsFin
  PROVE  /\ cur \in Servers /\ cur # 0 /\ wk.phase = "live" /\ pc \notin DelPCs
         /\ obj[cur].phase \in Around /\ seen[cur].phase # "absent"
         /\ ~AddsFin => wk.fin /\ obj[cur].fin
<1>1. CASE Reports \/ Fails \/ Confirms \/ Records
  <2>1. cur \in Servers /\ cur # 0 /\ (pc \in MidPCs \/ Live)
    BY <1>1, WriterFacts
  <2>2. wk.phase = "live" /\ wk.fin /\ pc \notin DelPCs
    BY <2>1 DEF Live, Paths, MidPCs, DelPCs
  <2> QED
    BY <2>1, <2>2 DEF Life
<1>2. CASE Demotes
  BY <1>2, DemotesFacts, CurFacts DEF Demotes, Live, Around, Life, DelPCs
<1>3. CASE AddsFin
  <2>1. cur \in Servers /\ cur # 0 /\ wk.phase = "live" /\ pc = "start" /\ obj[cur].phase = "live"
    BY <1>3, AddsFinFacts, CurFacts DEF AddsFin
  <2> QED
    BY <1>3, <2>1 DEF Around, Life, DelPCs
<1> QED
  BY <1>1, <1>2, <1>3

\* How the phase and the id of a resource change.
LEMMA PhaseMoves ==
  ASSUME TypeOK, Grown, Paths, Life, Kind, NEW c \in Servers
  PROVE  \/ obj'[c].phase = obj[c].phase /\ obj'[c].id = obj[c].id
         \/ obj[c].phase \in Around /\ obj'[c].phase = obj[c].phase /\ c = cur /\ pc \notin DelPCs
         \/ Drops /\ c = cur /\ obj[c] = wk /\ obj[c].phase = "deleting"
         \/ obj[c].phase = "absent" /\ obj'[c].phase = "live" /\ obj'[c].id = NoId
         \/ /\ DeleteObj(c) /\ obj[c].phase = "live" /\ obj'[c].id = obj[c].id
            /\ \/ obj[c].fin /\ obj'[c].phase = "deleting"
               \/ ~obj[c].fin /\ obj'[c].phase = "gone" /\ obj[c].id = NoId /\ c \in blind'
<1>1. CASE obj' = obj
  BY <1>1
<1>2. CASE (\E r \in Reasons : WriteStatus(wk, r)) /\ (Reports \/ Fails \/ Confirms \/ Records)
  <2>1. cur # 0 /\ obj[cur].phase \in Around /\ pc \notin DelPCs
    BY <1>2, LiveWriter
  <2>2. (c # cur => obj'[c] = obj[c]) /\ obj'[cur].phase = obj[cur].phase
    BY <1>2, <2>1, WriteFacts
  <2> QED
    BY <2>1, <2>2
<1>3. CASE AddsFin
  BY <1>3, AddsFinFacts
<1>4. CASE Demotes
  BY <1>4, DemotesFacts
<1>5. CASE Drops
  <2>1. wk.phase = "deleting"
    BY <1>5 DEF Drops, DelPCs, Paths
  <2> QED
    BY <1>5, <2>1, DropsFacts
<1>6. ASSUME NEW e \in Servers, CreateObj(e)
      PROVE  obj'[c] = obj[c] \/ (obj[c].phase = "absent" /\ obj'[c].phase = "live" /\ obj'[c].id = NoId)
  BY <1>6, CreateFacts DEF Fresh
<1>7. ASSUME NEW e \in Servers, EditSpec(e)
      PROVE  obj'[c].phase = obj[c].phase /\ obj'[c].id = obj[c].id
  BY <1>7, EditFacts DEF Grown
<1>8. ASSUME NEW e \in Servers, DeleteObj(e), e # c
      PROVE  obj'[c] = obj[c]
  BY <1>8, DeleteFacts
<1>9. ASSUME DeleteObj(c)
      PROVE  /\ obj[c].phase = "live" /\ obj'[c].id = obj[c].id
             /\ \/ obj[c].fin /\ obj'[c].phase = "deleting"
                \/ ~obj[c].fin /\ obj'[c].phase = "gone" /\ obj[c].id = NoId /\ c \in blind'
  <2>1. /\ obj[c].phase = "live" /\ obj'[c].phase = (IF obj[c].fin THEN "deleting" ELSE "gone")
        /\ obj'[c].id = obj[c].id /\ blind' = (IF obj[c].fin THEN blind ELSE blind \cup {c})
    BY <1>9, DeleteFacts
  <2>2. CASE obj[c].fin
    BY <2>1, <2>2
  <2>3. CASE ~obj[c].fin
    BY <2>1, <2>3 DEF Life, Behind, Fresh
  <2> QED
    BY <2>2, <2>3
<1>10. "Synced" \in Reasons
  BY DEF Reasons
<1> QED
  BY <1>1, <1>2, <1>3, <1>4, <1>5, <1>6, <1>7, <1>8, <1>9, <1>10, ObjMoves

LEMMA AloneStep ==
  ASSUME TypeOK, Grown, Paths, Life, Alone, Kind
  PROVE  Alone'
<1>0. \A c \in Servers : seen[c] \in Objs /\ obj[c] \in Objs
  BY DEF TypeOK
<1>1. CASE UNCHANGED wkVars
  <2>1. SUFFICES ASSUME pc = "delete", NEW c \in Servers \ {cur}, obj'[c].phase = "live"
                 PROVE  obj'[c].id = NoId
    BY <1>1 DEF Alone, wkVars
  <2>2. obj[c].phase = "live" => obj[c].id = NoId
    BY <2>1 DEF Alone
  <2> QED
    BY <2>1, <2>2, PhaseMoves
<1>2. CASE Finish \/ Takes
  BY <1>2 DEF Finish, Takes, Alone
<1>3. CASE Works
  <2>1. CASE Resolves
    <3>1. SharedEntryOwner = 0 /\ wk.id = NoId /\ obj' = obj
      BY <2>1 DEF Resolves, Leaving
    <3>2. Candidates = {}
      <4>1. SUFFICES ASSUME Candidates # {} PROVE FALSE
        OBVIOUS
      <4>2. Candidates \in SUBSET Servers
        BY DEF Candidates
      <4>3. Max(Candidates) \in Servers
        BY <4>1, <4>2, MaxFacts
      <4>4. SharedEntryOwner = Max(Candidates)
        BY <3>1, <4>1 DEF SharedEntryOwner
      <4> QED
        BY <3>1, <4>3, <4>4, Bounds
    <3>3. ASSUME NEW c \in Servers, obj[c].phase = "live" PROVE obj[c].id = NoId
      BY <1>0, <3>2, <3>3 DEF Candidates, Life, Behind, Fresh, Objs
    <3> QED
      BY <3>1, <3>3 DEF Alone
  <2>2. CASE ~Resolves
    BY <1>3, <2>2 DEF Works, LeavesOnCause, LeavesToSibling, LeavesBlind, LeavesNone, LeavesDeleted,
       Renders, Decides, Adopts, Misses, Applies, Alone
  <2> QED
    BY <2>1, <2>2
<1> QED
  BY <1>1, <1>2, <1>3, WorkMoves

LEMMA WaysStep ==
  ASSUME TypeOK, Grown, Paths, Life, Ways, Next
  PROVE  Ways'
<1>0. Kind /\ policy' = policy /\ policy \in Policies /\ left \cup blind \cup kept \subseteq Servers
  BY Kinds DEF Kind, TypeOK
<1>1. ASSUME NEW c \in Servers, obj[c].phase = "gone" PROVE obj'[c].phase = "gone" /\ obj'[c].id = obj[c].id
  BY <1>0, <1>1, PhaseMoves DEF Around
<1>2. ASSUME NEW c \in left \cup blind \cup kept PROVE obj[c].phase = "gone" \/ (cur = c /\ pc = "drop")
  BY <1>2 DEF Ways
<1>3. ASSUME NEW c \in blind PROVE IF obj[c].phase = "gone" THEN obj[c].id = NoId ELSE wk.id = NoId
  BY <1>3 DEF Ways
<1>4. left' # {} => policy' = "Orphan"
  <2>1. LeavesOnCause => policy = "Orphan"
    BY <1>0 DEF LeavesOnCause, Policies
  <2> QED
    BY <1>0, <2>1, GhostMoves DEF Ways, Still
<1>5. CASE UNCHANGED wkVars /\ ~Crash
  <2>1. left' = left /\ kept' = kept /\ \A c \in blind' : c \in blind \/ (DeleteObj(c) /\ ~obj[c].fin)
    <3>1. CASE \E c \in Servers : CreateObj(c) \/ EditSpec(c) \/ DeleteObj(c)
      BY <3>1, DeleteFacts DEF CreateObj, EditSpec, ghosts
    <3>2. CASE Idles \/ Sync \/ OutOfBand
      BY <3>2 DEF Idles, Sync, OutOfBand, Ghost, ghosts
    <3>3. CASE Works
      BY <1>5, <3>3 DEF wkVars, Works, LeavesOnCause, LeavesToSibling, LeavesBlind, LeavesNone, LeavesDeleted, Resolves,
       Renders, Decides, Adopts, Misses, Applies, Deleting, DeletesTracked, DeletesResolved, Live, Makes, Puts, Updating
    <3>4. CASE Closes
      BY <1>5, <3>4, ClosesFacts DEF Ends, Finish, wkVars
    <3>5. CASE Takes
      BY <1>5, <3>5, Bounds DEF Takes, wkVars
    <3> QED
      BY <1>0, <1>5, <3>1, <3>2, <3>3, <3>4, <3>5 DEF Kind, Users
  <2>2. \A c \in Servers : DeleteObj(c) /\ ~obj[c].fin => obj'[c].phase = "gone" /\ obj'[c].id = NoId
    BY <1>0, PhaseMoves, DeleteFacts DEF Life, Behind, Fresh
  <2>3. blind' \subseteq Servers
    BY <1>0, GhostsTyped DEF GhostsOK
  <2>4. ASSUME NEW c \in left' \cup blind' \cup kept' PROVE obj'[c].phase = "gone" \/ (cur' = c /\ pc' = "drop")
    <3>1. c \in left \cup blind \cup kept \/ (DeleteObj(c) /\ ~obj[c].fin /\ c \in Servers)
      BY <2>1, <2>3
    <3> QED
      BY <1>0, <1>1, <1>2, <1>5, <2>2, <3>1 DEF wkVars
  <2>5. ASSUME NEW c \in blind' PROVE IF obj'[c].phase = "gone" THEN obj'[c].id = NoId ELSE wk'.id = NoId
    <3>1. CASE c \in blind
      <4>1. CASE obj[c].phase = "gone"
        BY <1>0, <1>1, <1>3, <3>1, <4>1
      <4>2. CASE obj[c].phase # "gone"
        <5>1. cur = c /\ pc = "drop" /\ wk.id = NoId /\ wk' = wk /\ c \in Servers
          BY <1>0, <1>2, <1>3, <1>5, <3>1, <4>2 DEF wkVars
        <5>2. obj[c].phase = "deleting"
          BY <4>2, <5>1, CurFacts DEF Paths, DelPCs, Life, Behind
        <5>3. ~Drops
          BY <1>5, <5>1 DEF Drops, Over, Ends, Finish, wkVars
        <5>4. obj'[c].phase # "gone"
          BY <1>0, <5>1, <5>2, <5>3, PhaseMoves
        <5> QED
          BY <5>1, <5>4
      <4> QED
        BY <4>1, <4>2
    <3>2. CASE c \notin blind
      BY <2>1, <2>2, <2>3, <3>2
    <3> QED
      BY <3>1, <3>2
  <2> QED
    BY <1>4, <2>4, <2>5 DEF Ways
<1>6. CASE Works
  <2>1. pc # "drop" /\ obj' = obj /\ cur' = cur /\ cur \in Servers
    BY <1>6, WorksFacts DEF Works, LeavesOnCause, LeavesToSibling, LeavesBlind, LeavesNone, LeavesDeleted, Resolves,
       Renders, Decides, Adopts, Misses, Applies, Deleting, DeletesTracked, DeletesResolved, Live, Makes, Puts, Updating
  <2>2. \A c \in left \cup blind \cup kept : obj[c].phase = "gone"
    BY <1>2, <2>1
  <2>3. LeavesOnCause \/ LeavesToSibling \/ LeavesBlind => pc' = "drop"
    BY DEF LeavesOnCause, LeavesToSibling, LeavesBlind
  <2>4. LeavesBlind => wk'.id = NoId
    BY DEF LeavesBlind, Leaving
  <2>5. ~\E c \in Servers : DeleteObj(c)
    BY <1>6, <2>1, WorksFacts, DeleteFacts DEF TypeOK
  <2>6. ASSUME NEW c \in left' \cup blind' \cup kept' PROVE obj'[c].phase = "gone" \/ (cur' = c /\ pc' = "drop")
    BY <1>0, <2>1, <2>2, <2>3, <2>5, GhostMoves DEF Still
  <2>7. ASSUME NEW c \in blind' PROVE IF obj'[c].phase = "gone" THEN obj'[c].id = NoId ELSE wk'.id = NoId
    <3>1. CASE c \in blind
      BY <1>3, <2>1, <2>2, <3>1
    <3>2. CASE c \notin blind
      <4>1. LeavesBlind /\ c = cur
        BY <1>0, <2>5, <3>2, GhostMoves DEF Still
      <4>2. obj[cur].phase = "gone" => obj[cur].id = NoId
        BY <1>6, <4>1, WorksFacts DEF LeavesBlind, Deleting, Life
      <4> QED
        BY <2>1, <2>4, <4>1, <4>2
    <3> QED
      BY <3>1, <3>2
  <2> QED
    BY <1>4, <2>6, <2>7 DEF Ways
<1>8. CASE Closes
  <2>1. /\ Finish /\ cur \in Servers /\ obj[cur] \in Objs /\ pc # "idle"
        /\ \A e \in Servers : ~DeleteObj(e)
    BY <1>8, ClosesFacts, CurFacts DEF Ends, Finish, DeleteObj, wkVars
  <2>2. CASE Drops
    <3>1. /\ left' = left /\ blind' = blind /\ kept' = kept /\ pc = "drop"
      BY <2>2 DEF Drops, Over, Ghost
    <3>2. /\ obj'[cur].phase = "gone" /\ obj'[cur].id = wk.id /\ obj[cur] = wk
          /\ \A c \in Servers : c # cur => obj'[c] = obj[c]
      BY <2>2, DropsFacts
    <3>3. \A c \in left \cup blind \cup kept : obj'[c].phase = "gone"
      BY <1>0, <1>1, <1>2, <3>2
    <3>4. obj[cur].phase # "gone"
      BY <3>1, <3>2 DEF Paths, DelPCs
    <3>5. \A c \in blind : obj'[c].id = NoId
      BY <1>0, <1>1, <1>2, <1>3, <3>2, <3>4
    <3> QED
      BY <1>4, <3>1, <3>3, <3>5 DEF Ways
  <2>3. CASE FailsToDrop
    <3>1. /\ obj' = obj /\ left' = Still(left) /\ blind' = Still(blind) /\ kept' = Still(kept)
      BY <2>3 DEF FailsToDrop
    <3>2. \A c \in left' \cup blind' \cup kept' : c \in left \cup blind \cup kept /\ obj[c].phase = "gone"
      BY <1>2, <3>1 DEF Still
    <3>3. \A c \in blind' : obj[c].id = NoId
      BY <1>3, <3>1, <3>2 DEF Still
    <3> QED
      BY <1>4, <3>1, <3>2, <3>3 DEF Ways
  <2>4. CASE ~Drops /\ ~FailsToDrop
    <3>1. pc # "drop" /\ left' = left /\ blind' = blind /\ kept' = kept
      BY <1>8, <2>4 DEF Closes, Retries, Drowned, Reports, Confirms, Records, FailsToDelete, Fails, AddsFin,
                Demotes, Over, Untouched, Ghost, Note, DelPCs, MidPCs, Live, Deleting, Updating, DeletesTracked, DeletesResolved
    <3>2. \A c \in left \cup blind \cup kept : obj[c].phase = "gone" /\ obj'[c].phase = "gone" /\ obj'[c].id = obj[c].id
      BY <1>0, <1>1, <1>2, <3>1
    <3>3. \A c \in blind : obj'[c].id = NoId
      BY <1>3, <3>2
    <3> QED
      BY <1>4, <3>1, <3>2, <3>3 DEF Ways
  <2> QED
    BY <2>2, <2>3, <2>4
<1>9. CASE Crash
  <2>1. /\ obj' = obj /\ left' = Still(left) /\ blind' = Still(blind) /\ kept' = Still(kept)
    BY <1>9 DEF Crash
  <2>2. \A c \in left' \cup blind' \cup kept' : c \in left \cup blind \cup kept /\ obj[c].phase = "gone"
    BY <1>2, <2>1 DEF Still
  <2>3. \A c \in blind' : obj[c].id = NoId
    BY <1>3, <2>1, <2>2 DEF Still
  <2> QED
    BY <1>4, <2>1, <2>2, <2>3 DEF Ways
<1>10. CASE Takes
  <2>1. cur = 0 /\ obj' = obj /\ left' = left /\ blind' = blind /\ kept' = kept
    BY <1>10 DEF Takes, Ghost
  <2>2. \A c \in left \cup blind \cup kept : obj[c].phase = "gone"
    BY <1>0, <1>2, <2>1, Bounds
  <2> QED
    BY <1>3, <1>4, <2>1, <2>2 DEF Ways
<1>11. CASE Idles \/ Sync \/ Users
  <2>1. UNCHANGED wkVars
    BY <1>11 DEF Idles, Sync, Users, CreateObj, EditSpec, DeleteObj, OutOfBand
  <2> QED
    BY <1>5, <1>9, <2>1
<1> QED
  BY <1>0, <1>6, <1>8, <1>9, <1>10, <1>11 DEF Kind

-----------------------------------------------------------------------------
(* Nobody's row is left behind.                                            *)

\* A row with the body of a resource is new only while that one is reconciled.
LEMMA RowKept ==
  ASSUME TypeOK, Paths, Life, Kind, NEW c \in Servers, NEW r \in rows', r.body.by = c
  PROVE  r \in rows \/ (obj'[c].phase \in Around /\ (Applies \/ Fails) /\ c = cur)
<1>1. CASE rows' \subseteq rows
  BY <1>1
<1>2. CASE Served = {} /\ rows' = rows \cup {MadeByHand}
  BY <1>2, HandFacts, NewFacts, Bounds
<1>3. CASE (Makes \/ Puts) /\ (Applies \/ Fails)
  <2>1. pc \in MidPCs
    BY <1>3 DEF Makes, Puts, Updating, MidPCs
  <2>2. body.by = cur /\ cur # 0 /\ cur \in Servers /\ obj[cur].phase \in Around
    BY <2>1, CurFacts DEF Paths, Life, MidPCs
  <2>3. r \in rows \/ r.body = body
    BY <1>3, MakesFacts, PutsFacts
  <2>4. obj' = obj \/ rows' = rows
    BY <1>3 DEF Applies, Fails
  <2> QED
    BY <1>3, <2>2, <2>3, <2>4
<1> QED
  BY <1>1, <1>2, <1>3, RowMoves

\* While a finalizer runs no row appears but those made by hand.
LEMMA RowsFall ==
  ASSUME TypeOK, Paths, Kind, pc \in DelPCs
  PROVE  \A r \in rows' : r \in rows \/ r.body.by = 0
<1>1. ~Makes /\ ~Puts
  BY DEF Makes, Puts, Updating, DelPCs
<1> QED
  BY <1>1, RowMoves, HandFacts, NewFacts

\* The one row there is, without rows from before the upgrade, is everybody's.
LEMMA MineFacts ==
  ASSUME TypeOK, Named, ~LegacyRows
  PROVE  /\ Mine(Refs(rows), cur) = {} => rows = {}
         /\ \A r \in Preferred(Mine(Refs(rows), cur)), s \in rows : s.id = r.id
<1>1. ASSUME NEW s \in rows PROVE [id |-> s.id, name |-> s.name] \in Mine(Refs(rows), cur)
  BY <1>1 DEF Named, Mine, Refs
<1>2. \A r \in Preferred(Mine(Refs(rows), cur)) : \E s \in rows : s.id = r.id
  BY DEF Preferred, Mine, Refs
<1>3. \A r, s \in rows : r = s
  BY DEF Named
<1> QED
  BY <1>1, <1>2, <1>3

\* How a resource may be about to go.
Leavable == cur \in left \/ cur \in blind \/ (cur \in kept /\ Successor) \/ Emptied

LEMMA SuccessorKept ==
  ASSUME TypeOK, Grown, Paths, Life, Kind, pc = "drop", cur' = cur, Successor, ~Drops
  PROVE  Successor'
<1>1. PICK h \in Servers \ {cur} : obj[h].phase \in Around \/ (obj[h].phase = "gone" /\ h \in blind)
  BY DEF Successor
<1>2. CASE obj[h].phase \in Around
  BY <1>1, <1>2, PhaseMoves DEF Successor, Around
<1>3. CASE obj[h].phase = "gone" /\ h \in blind
  <2>1. h \in blind'
    BY <1>3, BlindKept
  <2>2. obj'[h].phase = "gone"
    BY <1>1, <1>3, PhaseMoves DEF Around
  <2> QED
    BY <1>1, <2>1, <2>2 DEF Successor
<1> QED
  BY <1>1, <1>2, <1>3

LEMMA LeavableStep ==
  ASSUME TypeOK, Grown, Paths, Life, Named, Leaves, Next, pc' = "drop"
  PROVE  Leavable'
<1>0. Kind
  BY Kinds
<1>1. CASE UNCHANGED wkVars
  <2>1. pc = "drop" /\ cur' = cur /\ wk' = wk /\ Leavable
    BY <1>1 DEF wkVars, Leaves, Leavable
  <2>2. ~Closes /\ ~Crash /\ ~Drops
    BY <1>1, <2>1, ClosesFacts DEF Closes, Ends, Finish, Crash, wkVars
  <2>3. ~Works
    BY <1>1, <2>1 DEF Works, LeavesOnCause, LeavesToSibling, LeavesBlind, LeavesNone, LeavesDeleted, Resolves,
       Renders, Decides, Adopts, Misses, Applies, Deleting, DeletesTracked, DeletesResolved, Live, Makes, Puts, Updating
  <2>4. left' = left /\ kept' = kept /\ blind \subseteq blind'
    <3>1. CASE \E c \in Servers : CreateObj(c) \/ EditSpec(c) \/ DeleteObj(c)
      BY <3>1, DeleteFacts DEF CreateObj, EditSpec, ghosts
    <3>2. CASE Idles \/ Takes \/ Sync \/ OutOfBand
      BY <3>2 DEF Idles, Takes, Sync, OutOfBand, Ghost, ghosts
    <3> QED
      BY <1>0, <2>2, <2>3, <3>1, <3>2 DEF Kind, Users
  <2>5. Successor => Successor'
    BY <1>0, <2>1, <2>2, SuccessorKept
  <2>6. Emptied => Emptied'
    BY <1>0, <2>1, RowsFall DEF Emptied, DelPCs
  <2> QED
    BY <2>1, <2>4, <2>5, <2>6 DEF Leavable
<1>2. CASE Finish \/ Takes
  BY <1>2 DEF Finish, Takes
<1>3. CASE Works
  <2>1. cur' = cur /\ obj' = obj /\ cur \in Servers
    BY <1>3, WorksFacts
  <2>2. CASE LeavesOnCause
    BY <2>1, <2>2 DEF LeavesOnCause, Leavable
  <2>3. CASE LeavesBlind
    BY <2>1, <2>3 DEF LeavesBlind, Leavable
  <2>4. CASE LeavesToSibling
    <3>1. PICK o \in Servers : seen[o].phase = "live"
      <4>1. Candidates # {} /\ Candidates \subseteq Servers
        BY <2>4 DEF LeavesToSibling, SharedEntryOwner, Candidates
      <4> QED
        BY <4>1 DEF Candidates
    <3>2. seen[cur].phase # "live"
      BY <1>3, <2>4, WorksFacts DEF LeavesToSibling, Deleting, Life
    <3>3. obj[o].phase \in Around \/ (obj[o].phase = "gone" /\ o \in blind)
      BY <3>1 DEF Life, Behind, TypeOK, Objs, Around
    <3>4. blind' = blind /\ cur \in kept'
      BY <2>4 DEF LeavesToSibling
    <3> QED
      BY <2>1, <3>1, <3>2, <3>3, <3>4 DEF Leavable, Successor
  <2>5. CASE LeavesNone
    <3>1. ~LegacyRows => rows' = {}
      BY <2>5, MineFacts DEF LeavesNone
    <3> QED
      BY <3>1 DEF Leavable, Emptied
  <2>6. CASE LeavesDeleted
    <3>1. wk' = wk
      BY <2>6 DEF LeavesDeleted, Leaving
    <3>2. CASE DeletesTracked
      BY <3>1, <3>2 DEF DeletesTracked, RowOf, Leavable, Emptied
    <3>3. CASE DeletesResolved
      BY <3>1, <3>3 DEF DeletesResolved, RowOf, Leavable, Emptied, Leaves, Seized
    <3> QED
      BY <2>6, <3>2, <3>3 DEF LeavesDeleted
  <2> QED
    BY <1>3, <2>2, <2>3, <2>4, <2>5, <2>6 DEF Works, Resolves, Renders, Decides, Adopts, Misses, Applies
<1> QED
  BY <1>0, <1>1, <1>2, <1>3, WorkMoves

LEMMA SeizedStep ==
  ASSUME TypeOK, Paths, Named, Leaves, Kind, pc' = "delete"
  PROVE  Seized'
<1>1. CASE UNCHANGED wkVars
  <2>1. Seized /\ pc = "delete" /\ target' = target
    BY <1>1 DEF Leaves, wkVars
  <2> QED
    BY <2>1, RowsFall DEF Seized, DelPCs
<1>2. CASE Finish \/ Takes
  BY <1>2 DEF Finish, Takes
<1>3. CASE Works
  <2>1. Resolves
    BY <1>3 DEF Works, LeavesOnCause, LeavesToSibling, LeavesBlind, LeavesNone, LeavesDeleted,
       Renders, Decides, Adopts, Misses, Applies
  <2>2. rows' = rows /\ \E r \in Preferred(Mine(Refs(rows), cur)) : target' = r.id
    BY <2>1 DEF Resolves
  <2> QED
    BY <2>2, MineFacts DEF Seized
<1> QED
  BY <1>1, <1>2, <1>3, WorkMoves

\* The row of c as it was when c went.
Trace(c, r) == obj[c].phase = "gone" /\ r \in rows /\ r.id = obj[c].id /\ r.body.by = c

\* Whoever is left of those who will deal with a row hands it on.
LEMMA HeirKept ==
  ASSUME TypeOK, Grown, Paths, Life, Named, Ways, Leaves, Kind, ~LegacyRows,
         NEW c \in Servers, NEW r, Trace(c, r), Heir(c)
  PROVE  Heir(c)'
<1>0. r.id # NoId /\ c # 0 /\ left \cup blind \cup kept \subseteq Servers
  BY Bounds DEF Trace, TypeOK, Rows, Ids, NoId, Pinned
<1>1. PICK h \in Servers \ {c} : \/ obj[h].phase \in Around
                                 \/ h \in left \cup blind
                                 \/ obj[h].id \notin {NoId, obj[c].id}
  BY DEF Heir, Around
<1>2. obj'[c].phase = "gone" /\ obj'[c].id = obj[c].id
  BY PhaseMoves DEF Trace, Around
<1>3. c \notin blind
  BY <1>0 DEF Ways, Trace
<1>4. ASSUME obj'[h].phase \in Around \/ h \in left' \cup blind' \/ obj'[h].id \notin {NoId, obj'[c].id}
      PROVE  Heir(c)'
  BY <1>1, <1>4 DEF Heir, Around
<1>5. CASE obj[h].phase \in Around
  <2>1. CASE Drops /\ h = cur /\ obj[h] = wk
    <3>1. pc = "drop" /\ left' = left /\ blind' = blind /\ rows' = rows
      BY <2>1 DEF Drops, Over, Ghost
    <3>2. CASE cur \in left \cup blind
      BY <1>4, <2>1, <3>1, <3>2
    <3>3. CASE Successor
      <4>1. PICK g \in Servers \ {cur} : obj[g].phase \in Around \/ (obj[g].phase = "gone" /\ g \in blind)
        BY <3>3 DEF Successor
      <4>2. g # c
        BY <1>3, <4>1 DEF Trace, Around
      <4>3. obj'[g] = obj[g]
        BY <2>1, <4>1, DropsFacts
      <4> QED
        BY <3>1, <4>1, <4>2, <4>3 DEF Heir, Around
    <3>4. CASE Emptied
      <4>1. wk.id # NoId /\ r.id # wk.id
        BY <1>0, <3>4 DEF Emptied, Trace
      <4>2. obj'[h].id = wk.id
        BY <2>1, DropsFacts
      <4> QED
        BY <1>2, <1>4, <4>1, <4>2 DEF Trace
    <3> QED
      BY <3>1, <3>2, <3>3, <3>4 DEF Leaves
  <2>2. CASE obj'[h].phase \in Around \/ h \in blind'
    BY <1>4, <2>2
  <2> QED
    BY <1>1, <1>5, <2>1, <2>2, PhaseMoves DEF Around
<1>6. CASE h \in left \cup blind /\ obj[h].phase \notin Around
  <2>1. h \in left' \cup blind'
    <3>1. obj[h].phase = "gone" \/ (cur = h /\ pc = "drop")
      BY <1>6 DEF Ways
    <3>2. obj[h].phase = "gone"
      BY <1>6, <3>1, CurFacts DEF Paths, DelPCs, Life, Behind, Around
    <3> QED
      BY <1>6, <3>2, GhostMoves DEF Still
  <2> QED
    BY <1>4, <2>1
<1>7. CASE obj[h].id \notin {NoId, obj[c].id} /\ obj[h].phase \notin Around
  <2>1. obj'[h].id = obj[h].id \/ obj'[h].phase \in Around
    BY <1>1, <1>7, PhaseMoves DEF Around
  <2> QED
    BY <1>2, <1>4, <1>7, <2>1
<1> QED
  BY <1>1, <1>5, <1>6, <1>7

LEMMA LeakStep ==
  ASSUME TypeOK, Grown, Paths, Life, Named, Ways, Leaves, Next, ~LegacyRows
  PROVE  NoSilentLeak'
<1>0. Kind /\ policy' = policy
  BY Kinds DEF Kind
<1>1. SUFFICES ASSUME NEW c \in Servers, NEW r, Trace(c, r)'
               PROVE  (policy = "Orphan" /\ c \in left') \/ (c \in kept' /\ Heir(c)')
  BY <1>0 DEF NoSilentLeak, RowOf, Trace
<1>2. obj'[c].phase = "gone" /\ r \in rows' /\ r.id = obj'[c].id /\ r.body.by = c
  BY <1>1 DEF Trace
<1>3. r \in rows
  BY <1>0, <1>2, RowKept DEF Around
<1>4. r.id # NoId /\ c # 0
  BY <1>3, Bounds DEF TypeOK, Rows, Ids, NoId, Pinned
<1>5. CASE obj[c].phase = "gone"
  <2>1. Trace(c, r)
    BY <1>0, <1>2, <1>3, <1>5, PhaseMoves DEF Trace, Around
  <2>2. (policy = "Orphan" /\ c \in left) \/ (c \in kept /\ Heir(c))
    BY <2>1 DEF Trace, Leaves, NoSilentLeak, RowOf
  <2>3. (c \in left => c \in left') /\ (c \in kept => c \in kept')
    BY <1>0, <1>5, GhostMoves DEF Still
  <2>4. Heir(c) => Heir(c)'
    BY <1>0, <2>1, HeirKept
  <2> QED
    BY <2>2, <2>3, <2>4
<1>6. CASE obj[c].phase # "gone"
  <2>1. Drops /\ c = cur /\ obj[c] = wk
    BY <1>0, <1>2, <1>4, <1>6, PhaseMoves DEF Around
  <2>2. /\ pc = "drop" /\ left' = left /\ blind' = blind /\ kept' = kept /\ obj'[c].id = wk.id
        /\ \A d \in Servers : d # c => obj'[d] = obj[d]
    BY <2>1, DropsFacts DEF Drops, Over, Ghost
  <2>3. CASE c \in left
    BY <2>2, <2>3 DEF Ways
  <2>4. c \notin blind
    BY <1>2, <1>4, <1>6, <2>2, <2>1 DEF Ways
  <2>5. CASE c \in kept /\ Successor
    <3>1. PICK g \in Servers \ {c} : obj[g].phase \in Around \/ (obj[g].phase = "gone" /\ g \in blind)
      BY <2>1, <2>5 DEF Successor
    <3> QED
      BY <2>2, <2>5, <3>1 DEF Heir, Around
  <2>6. ~Emptied
    BY <1>2, <1>3, <1>4, <2>2 DEF Emptied
  <2> QED
    BY <2>1, <2>2, <2>3, <2>4, <2>5, <2>6 DEF Leaves
<1> QED
  BY <1>5, <1>6

LEMMA LeavesStep ==
  ASSUME TypeOK, Grown, Paths, Life, Named, Ways, Leaves, Next
  PROVE  Leaves'
<1>1. Kind
  BY Kinds
<1>2. pc' = "delete" => Seized'
  BY <1>1, SeizedStep
<1>3. pc' = "drop" => Leavable'
  BY LeavableStep
<1>4. ~LegacyRows => NoSilentLeak'
  BY LeakStep
<1> QED
  BY <1>2, <1>3, <1>4 DEF Leaves, Leavable

-----------------------------------------------------------------------------
(* The safety invariant.                                                   *)

LEMMA SafeInit ==
  ASSUME Init
  PROVE  SafeInv
<1>1. PICK made \in SUBSET Servers \ {{}} :
        /\ obj = [c \in Servers |-> IF c \in made THEN NewObj ELSE Nothing]
        /\ q = made
  BY DEF Init
<1>2. \A c \in Servers : (obj[c] = NewObj \/ obj[c] = Nothing) /\ seen[c] = obj[c]
  BY <1>1 DEF Init
<1>3. /\ obj \in [Servers -> Objs] /\ \A c \in Servers : Fresh(obj[c]) /\ obj[c].phase \in {"absent", "live"}
      /\ \A c \in Servers : obj[c].gen <= 1
  BY <1>1, <1>2, NewFacts
<1>4. rows = {} \/ \E n \in Raw : LegacyRows /\ rows = {[id |-> "legacy", name |-> n, body |-> ForeignBody]}
  BY DEF Init
<1>5. \A n \in Raw : LET r == [id |-> "legacy", name |-> n, body |-> ForeignBody]
                     IN r \in Rows /\ r.id = "legacy" /\ r.body.by = 0
  BY NewFacts DEF Rows, Ids
<1>6. RowsOK /\ Named
  BY <1>4, <1>5 DEF RowsOK, Named
<1>7. TypeOK
  <2>1. churn \in [Servers -> 0 .. RecreateLimit] /\ secret \in Versions /\ policy \in Policies
    BY Bounds, MCPServerAssumption DEF Init, Versions
  <2>2. events \in 0 .. MaxEvents /\ faults \in 0 .. MaxFaults
    BY Bounds DEF Init
  <2>3. q \subseteq Servers /\ seen \in [Servers -> Objs]
    BY <1>1, <1>3 DEF Init
  <2>4. WorkOK
    BY NewFacts DEF Init, WorkOK, PCs
  <2> QED
    BY <1>3, <1>6, <2>1, <2>2, <2>3, <2>4 DEF TypeOK, Init, RowsOK, WorkOK
<1>8. Grown /\ Paths /\ Alone /\ Ways
  BY <1>3 DEF Init, Grown, Paths, Alone, Ways, DelPCs, MidPCs
<1>9. Life
  BY <1>2, <1>3 DEF Init, Life, Behind, Fresh
<1>10. Told
  BY <1>3 DEF Init, Told, Fresh, MidPCs
<1>11. Leaves
  BY <1>3 DEF Init, Leaves, NoSilentLeak
<1> QED
  BY <1>6, <1>7, <1>8, <1>9, <1>10, <1>11 DEF SafeInv

LEMMA SafeStep ==
  ASSUME SafeInv, Next
  PROVE  SafeInv'
<1>1. TypeOK /\ Grown /\ Paths /\ Life /\ Named /\ Told /\ Alone /\ Ways /\ Leaves
  BY DEF SafeInv
<1>2. Kind
  BY <1>1, Kinds
<1>3. TypeOK' /\ Grown' /\ Named'
  BY <1>1, TypeStep
<1>4. Paths' /\ Life' /\ Alone'
  BY <1>1, <1>2, PathsStep, LifeStep, AloneStep
<1>5. Told' /\ Ways' /\ Leaves'
  BY <1>1, ToldStep, WaysStep, LeavesStep
<1> QED
  BY <1>3, <1>4, <1>5 DEF SafeInv

LEMMA SafeStutter ==
  ASSUME SafeInv, UNCHANGED vars
  PROVE  SafeInv'
BY DEF SafeInv, vars, TypeOK, Grown, Paths, Life, Behind, Named, Told, Alone, Ways, Leaves, Seized, Emptied,
       Successor, NoSilentLeak, Heir, RowOf

LEMMA SafeAlways == Spec => []SafeInv
<1>1. SafeInv /\ [Next]_vars => SafeInv'
  BY SafeStep, SafeStutter
<1> QED
  BY SafeInit, <1>1, PTL DEF Spec

-----------------------------------------------------------------------------
(* The theorems.                                                           *)

\* Every variable has its type, whatever the informer lags behind, calls do and
\* restarts cut short.
THEOREM TypeCorrect == Spec => []TypeOK
<1>1. SafeInv => TypeOK
  BY DEF SafeInv
<1> QED
  BY SafeAlways, <1>1, PTL

\* Of the resources that share an entry no two say Synced at rest: the creation of
\* a later one queues the earlier ones (enqueueMCPServerSiblings).
THEOREM OneSynced == Spec => []OneClaims
<1>1. SafeInv => OneClaims
  <2>1. SUFFICES ASSUME SafeInv, AtRest, conn = "Synced", NEW c \in Servers, NEW d \in Servers,
                        ClaimsSynced(c), ClaimsSynced(d)
                 PROVE  c = d
    BY DEF OneClaims
  <2>2. ASSUME NEW e \in Servers, NEW f \in Servers, ClaimsSynced(e), ClaimsSynced(f), e < f
        PROVE  FALSE
    BY <2>1, <2>2, Bounds DEF SafeInv, Told, AtRest, ClaimsSynced
  <2>3. c < d \/ d < c \/ c = d
    BY Bounds
  <2> QED
    BY <2>1, <2>2, <2>3
<1> QED
  BY SafeAlways, <1>1, PTL

\* Without rows from before the upgrade, a resource that is gone left the row with
\* its own body only on a permanent cause under Orphan, or to a live sibling, and
\* somebody is left who will deal with it.  A row of the raw name beside one of the
\* sanitized name can be taken for the other; that case is only model-checked.
THEOREM NoLeak ==
  ASSUME ~LegacyRows
  PROVE  Spec => []NoSilentLeak
<1>1. SafeInv => NoSilentLeak
  BY DEF SafeInv, Leaves
<1> QED
  BY SafeAlways, <1>1, PTL

LEMMA RowGoes ==
  ASSUME Kind
  PROVE  rows' = rows \/ Makes \/ Puts \/ DeletesTracked \/ DeletesResolved \/ OutOfBand
<1>1. CASE Idles \/ Takes \/ Sync \/ Crash
  BY <1>1 DEF Idles, Takes, Sync, Crash
<1>2. CASE Users
  BY <1>2 DEF Users, CreateObj, EditSpec, DeleteObj
<1>3. CASE Works
  BY <1>3 DEF Works, LeavesOnCause, LeavesToSibling, LeavesBlind, LeavesNone, LeavesDeleted, Resolves,
              Renders, Decides, Adopts, Misses, Working, Applies
<1>4. CASE Closes
  BY <1>4 DEF Closes, Retries, Drowned, Untouched, Reports, Confirms, Records, FailsToDelete, Fails, AddsFin,
              Demotes, Drops, Over, FailsToDrop
<1> QED
  BY <1>1, <1>2, <1>3, <1>4 DEF Kind

\* The finalizer of one resource spares the row of the entry's owner, and the
\* pinned row while a live sibling tracks it (sharedEntryOwner).
THEOREM OwnerSpared == Spec => SiblingSpared
<1> DEFINE Spared ==
      \A c \in Servers \ {cur} :
         /\ events' = events /\ obj[c].phase = "live" /\ seen[c] = obj[c]
         /\ c = Max(Candidates) \/ obj[c].id = Pinned
         /\ RowOf(obj[c].id) # {}
         => RowOf(obj[c].id)' # {}
<1>1. ASSUME SafeInv, Next PROVE Spared
  <2>0. /\ TypeOK /\ Grown /\ Paths /\ Life /\ Alone /\ Kind
        /\ rows \subseteq Rows /\ events \in Nat /\ \A c \in Servers : obj[c] \in Objs
    BY <1>1, Kinds, Bounds DEF SafeInv, TypeOK
  <2>1. SUFFICES ASSUME NEW c \in Servers \ {cur}, events' = events, obj[c].phase = "live", seen[c] = obj[c],
                        c = Max(Candidates) \/ obj[c].id = Pinned, NEW r \in RowOf(obj[c].id)
                 PROVE  \E s \in rows' : s.id = obj'[c].id
    BY DEF RowOf
  <2>2. r \in rows /\ r.id = obj[c].id /\ r.id # NoId /\ c \in Candidates /\ c # 0
    BY <2>0, <2>1, Bounds DEF RowOf, Rows, Ids, NoId, Pinned, Candidates
  <2>3. obj'[c].id = obj[c].id
    <3>1. ~DeleteObj(c)
      BY <2>0, <2>1 DEF DeleteObj, Event
    <3> QED
      BY <2>0, <2>1, <3>1, PhaseMoves
  <2>4. CASE rows' = rows
    BY <2>2, <2>3, <2>4
  <2>5. CASE Makes
    BY <2>2, <2>3, <2>5 DEF Makes
  <2>6. CASE Puts
    <3>1. CASE r.id = wk.id
      <4>1. Put(r, body) \in rows' /\ r \in Rows /\ body \in Bodies
        BY <2>0, <2>2, <2>6, <3>1 DEF Puts, RowOf, TypeOK
      <4>2. Put(r, body).id = r.id
        BY <4>1, PutFacts
      <4> QED
        BY <2>2, <2>3, <4>1, <4>2
    <3>2. CASE r.id # wk.id
      BY <2>2, <2>3, <2>6, <3>2 DEF Puts, RowOf
    <3> QED
      BY <3>1, <3>2
  <2>7. CASE DeletesTracked
    <3>1. Candidates \in SUBSET Servers /\ Candidates # {}
      BY <2>2 DEF Candidates
    <3>2. Max(Candidates) \in Servers /\ Max(Candidates) # 0
      BY <3>1, MaxFacts, Bounds
    <3>3. wk.id \notin {NoId, Pinned, seen[Max(Candidates)].id}
      BY <2>7, <3>1, <3>2 DEF DeletesTracked, SharedEntryOwner
    <3>4. r.id # wk.id
      BY <2>1, <2>2, <3>3
    <3> QED
      BY <2>2, <2>3, <2>7, <3>4 DEF DeletesTracked, RowOf
  <2>8. CASE DeletesResolved
    BY <2>0, <2>1, <2>2, <2>8 DEF DeletesResolved, Alone
  <2>9. ~OutOfBand
    BY <2>0, <2>1 DEF OutOfBand, Event
  <2> QED
    BY <2>0, <2>4, <2>5, <2>6, <2>7, <2>8, <2>9, RowGoes
<1>2. ASSUME UNCHANGED vars PROVE Spared
  BY <1>2 DEF vars, RowOf
<1>3. SafeInv /\ [Next]_vars => [Spared]_vars
  BY <1>1, <1>2
<1> QED
  BY SafeAlways, <1>3, PTL DEF Spec, SiblingSpared

-----------------------------------------------------------------------------
(* What the status says.                                                   *)

LEMMA HighestStep ==
  ASSUME TypeOK, Grown, Paths, Life, Highest, Kind
  PROVE  Highest'
<1>0. \A c \in Servers : c \in Nat /\ seen[c] \in Objs /\ obj[c] \in Objs
  BY Bounds DEF TypeOK
<1>1. CASE UNCHANGED wkVars
  <2>1. SUFFICES ASSUME pc \in MidPCs, NEW c \in Servers, c > cur
                 PROVE  /\ obj'[c].phase = "live" => Fresh(obj'[c])
                        /\ seen'[c].phase = "live" => ~seen'[c].fin
    BY <1>1 DEF Highest, wkVars
  <2>2. /\ obj[c].phase = "live" => Fresh(obj[c])
        /\ seen[c].phase = "live" => ~seen[c].fin
    BY <2>1 DEF Highest
  <2>3. seen'[c].phase = "live" => ~seen'[c].fin
    BY <2>2, EventMoves DEF Fresh
  <2>4. CASE obj' = obj
    BY <2>2, <2>3, <2>4
  <2>5. ~Closes
    BY <1>1, ClosesFacts DEF Ends, Finish, wkVars
  <2>6. ASSUME NEW e \in Servers, CreateObj(e) \/ EditSpec(e) \/ DeleteObj(e), obj'[c].phase = "live"
        PROVE  Fresh(obj'[c])
    <3>1. CASE CreateObj(e)
      BY <2>2, <2>6, <3>1, CreateFacts
    <3>2. CASE EditSpec(e)
      BY <2>2, <2>6, <3>2, EditFacts DEF Grown, Fresh
    <3>3. CASE DeleteObj(e)
      BY <2>2, <2>6, <3>3, DeleteFacts
    <3> QED
      BY <2>6, <3>1, <3>2, <3>3
  <2> QED
    BY <2>3, <2>4, <2>5, <2>6, ObjMoves DEF Closes
<1>2. CASE Finish \/ Takes
  BY <1>2 DEF Finish, Takes, Highest, MidPCs
<1>3. CASE Works
  <2>1. UNCHANGED <<obj, seen, cur>> /\ cur \in Servers
    BY <1>3, WorksFacts
  <2>2. CASE pc \in MidPCs
    BY <2>1, <2>2 DEF Highest
  <2>3. CASE Renders
    <3>1. \A d \in Servers : seen[d].phase = "live" => d <= cur
      BY <2>3, NotLoser DEF Renders
    <3>2. ASSUME NEW c \in Servers, c > cur
          PROVE  seen[c].phase # "live" /\ (obj[c].phase = "live" => Fresh(obj[c]))
      <4>1. seen[c].phase # "live"
        BY <1>0, <2>1, <3>1, <3>2
      <4> QED
        BY <1>0, <3>2, <4>1 DEF Life, Behind, Objs
    <3> QED
      BY <2>1, <3>2 DEF Highest
  <2>4. CASE pc \notin MidPCs /\ ~Renders
    BY <1>3, <2>4 DEF Works, LeavesOnCause, LeavesToSibling, LeavesBlind, LeavesNone, LeavesDeleted, Resolves,
       Decides, Adopts, Misses, Applies, Makes, Puts, Updating, MidPCs, Highest
  <2> QED
    BY <2>2, <2>3, <2>4
<1> QED
  BY <1>1, <1>2, <1>3, WorkMoves

\* The Secret and the events of a step.
LEMMA SecretMoves ==
  ASSUME TypeOK, Kind
  PROVE  \/ secret' = secret
         \/ /\ Idles /\ q' = q \cup Present /\ secret' \in {0, events + 2} /\ events' = events + 1
            /\ secret' # secret
<1>1. CASE Idles
  BY <1>1 DEF Idles
<1>2. CASE Takes \/ Sync \/ Crash
  BY <1>2 DEF Takes, Sync, Crash, World, envVars
<1>3. CASE Users
  BY <1>3 DEF Users, CreateObj, EditSpec, DeleteObj, OutOfBand
<1>4. CASE Works
  BY <1>4, WorksFacts
<1>5. CASE Closes
  BY <1>5, ClosesFacts DEF Ends, World
<1> QED
  BY <1>1, <1>2, <1>3, <1>4, <1>5 DEF Kind

\* What the worker writes into a status.
LEMMA WrittenFacts ==
  ASSUME TypeOK, Paths, Counted, NEW r \in Reasons, WriteStatus(wk, r),
         Reports \/ Fails \/ Confirms \/ Records
  PROVE  /\ cur \in Servers /\ cur # 0 /\ wk \in Objs /\ obj[cur] \in Objs /\ Sound(wk)
         /\ pc = "synced" => wk.hash = body
         /\ Records <=> pc = "synced"
         /\ ~Records => Note
<1>1. cur \in Servers /\ cur # 0 /\ (pc \in MidPCs \/ Live)
  BY WriterFacts
<1>2. wk \in Objs /\ obj[cur] \in Objs
  BY <1>1 DEF TypeOK
<1>3. Records <=> pc = "synced"
  <2>1. Reports \/ Confirms => pc # "synced"
    BY DEF Reports, Confirms, Live
  <2>2. Fails => pc # "synced"
    BY DEF Fails
  <2> QED
    BY <2>1, <2>2 DEF Records
<1>4. ~Records => Note
  BY DEF Reports, Fails, Confirms
<1> QED
  BY <1>1, <1>2, <1>3, <1>4 DEF Counted, Paths

\* The numbers of an object.
LEMMA NatFacts ==
  ASSUME NEW o \in Objs
  PROVE  /\ o.v \in Nat /\ o.gen \in Nat /\ o.obs \in Nat /\ o.hash \in Bodies
         /\ o.hash.v \in Nat /\ o.hash.sec \in Nat
<1>1. o.hash \in Bodies
  BY DEF Objs
<1> QED
  BY <1>1, Numbers DEF Objs, Bodies

\* What a reconcile rendered.
LEMMA BodyMoves ==
  ASSUME TypeOK, Kind
  PROVE  body' = body \/ (Finish /\ body' = NoBody) \/ (Renders /\ body' = Rendered(cur, wk))
<1>1. CASE Works
  BY <1>1 DEF Works, LeavesOnCause, LeavesToSibling, LeavesBlind, LeavesNone, LeavesDeleted, Resolves, Leaving,
              Renders, Decides, Adopts, Misses, Applies
<1> QED
  BY <1>1, WorkMoves DEF wkVars, Finish, Takes

\* What the informer lists stays queued until the worker takes it.
LEMMA QueueKept ==
  ASSUME TypeOK, Kind, NEW e \in Present, e \in q
  PROVE  e \in q' \/ (Takes /\ cur' = e /\ pc' = "start" /\ wk' = seen[e]) \/ Crash
<1>1. CASE Idles
  BY <1>1 DEF Idles, Present, Around
<1>2. CASE Takes
  BY <1>2 DEF Takes
<1>3. CASE Works
  BY <1>3, WorksFacts
<1>4. CASE Closes
  BY <1>4, ClosesFacts
<1>5. CASE Sync \/ Users
  BY <1>5 DEF Sync, Users, CreateObj, EditSpec, DeleteObj, OutOfBand
<1> QED
  BY <1>1, <1>2, <1>3, <1>4, <1>5 DEF Kind

LEMMA SecretCounted ==
  ASSUME TypeOK, Paths, Life, Counted, Kind
  PROVE  /\ secret' <= events' + 1 /\ body'.sec <= events' + 1
         /\ secret' # 0 => body'.sec <= secret'
         /\ pc' \in MidPCs => cur' \in q' \/ body'.sec = secret'
<1>0. /\ events \in Nat /\ (events' = events \/ events' = events + 1)
      /\ secret \in Nat /\ body.sec \in Nat /\ secret <= events + 1 /\ body.sec <= events + 1
      /\ secret # 0 => body.sec <= secret
      /\ pc \in MidPCs => cur \in q \/ body.sec = secret
  BY EventMoves, Numbers DEF TypeOK, Bodies, Counted
<1>1. secret' <= events' + 1
  BY <1>0, SecretMoves
<1>2. CASE body' = body
  <2>1. body'.sec <= events' + 1 /\ (secret' # 0 => body'.sec <= secret')
    BY <1>0, <1>2, SecretMoves
  <2>2. ASSUME pc' \in MidPCs PROVE cur' \in q' \/ body'.sec = secret'
    <3>1. CASE UNCHANGED wkVars
      <4>1. pc \in MidPCs /\ cur' = cur /\ cur \in Present
        BY <2>2, <3>1, PresentFacts DEF wkVars
      <4>2. CASE cur \in q
        <5>1. ~Crash /\ ~Takes
          BY <4>1, Bounds DEF Crash, Finish, Takes, Present
        <5> QED
          BY <4>1, <4>2, <5>1, QueueKept
      <4>3. CASE cur \notin q
        <5>1. body.sec = secret
          BY <1>0, <4>1, <4>3
        <5> QED
          BY <1>2, <4>1, <5>1, SecretMoves
      <4> QED
        BY <4>2, <4>3
    <3>2. CASE Finish \/ Takes
      BY <2>2, <3>2 DEF Finish, Takes, MidPCs
    <3>3. CASE Works
      <4>1. UNCHANGED <<cur, q, secret>>
        BY <3>3, WorksFacts
      <4>2. pc \in MidPCs \/ body'.sec = secret
        <5>1. CASE Renders
          <6>1. body' = Rendered(cur, wk)
            BY <5>1 DEF Renders
          <6> QED
            BY <6>1 DEF Rendered
        <5>2. CASE ~Renders
          BY <2>2, <3>3, <5>2 DEF Works, LeavesOnCause, LeavesToSibling, LeavesBlind, LeavesNone,
             LeavesDeleted, Resolves, Decides, Adopts, Misses, Applies, Makes, Puts, Updating, MidPCs
        <5> QED
          BY <5>1, <5>2
      <4> QED
        BY <1>0, <1>2, <4>1, <4>2
    <3> QED
      BY <3>1, <3>2, <3>3, WorkMoves
  <2> QED
    BY <1>1, <2>1, <2>2
<1>3. CASE Finish /\ body' = NoBody
  <2>1. body'.sec = 0 /\ pc' \notin MidPCs
    BY <1>3, NewFacts DEF Finish, MidPCs
  <2>2. events' \in Nat /\ secret' \in Nat
    BY <1>0, SecretMoves
  <2>3. \A e, t \in Nat : NoBody.sec <= e + 1 /\ NoBody.sec <= t
    BY NewFacts
  <2>4. NoBody.sec <= events' + 1 /\ NoBody.sec <= secret'
    BY <2>2, <2>3
  <2> QED
    BY <1>1, <1>3, <2>1, <2>4
<1>4. CASE Renders /\ body' = Rendered(cur, wk)
  <2>1. body'.sec = secret /\ secret' = secret /\ events' = events
    BY <1>4 DEF Rendered, Renders, Working, World
  <2> QED
    BY <1>0, <2>1
<1> QED
  BY <1>2, <1>3, <1>4, BodyMoves

\* What there was still is what there was.
LEMMA SoundKept ==
  ASSUME NEW o \in Objs, NEW e \in Nat, NEW s \in Nat, NEW f \in {e, e + 1}, NEW t \in {s, 0, e + 2},
         SoundAt(o, e, s)
  PROVE  SoundAt(o, f, t)
<1>1. o.v \in Nat /\ o.gen \in Nat /\ o.obs \in Nat /\ o.hash.v \in Nat /\ o.hash.sec \in Nat
  BY NatFacts
<1>2. /\ o.v <= e + 1 /\ o.obs <= o.gen /\ o.hash.v <= o.v /\ o.hash.sec <= e + 1
      /\ (o.hash.by # 0 => o.hash.sec # 0) /\ (s # 0 => o.hash.sec <= s)
  BY DEF SoundAt
<1>3. o.v <= f + 1 /\ o.hash.sec <= f + 1
  BY <1>1, <1>2
<1>4. t # 0 => o.hash.sec <= t
  BY <1>1, <1>2
<1> QED
  BY <1>2, <1>3, <1>4 DEF SoundAt

LEMMA CountedObjStep ==
  ASSUME TypeOK, Grown, Paths, Life, Counted, Held, Kind, NEW c \in Servers
  PROVE  CountedObj(obj[c])'
<1>0. /\ events \in Nat /\ (events' = events \/ events' = events + 1)
      /\ obj[c] \in Objs /\ obj'[c] \in Objs /\ CountedObj(obj[c]) /\ obj[c].gen <= events + 1
  BY EventMoves, ObjTyped, Numbers DEF TypeOK, Counted, Grown
<1> DEFINE o == obj[c]
           n == obj'[c]
<1>2. /\ o.v \in Nat /\ o.gen \in Nat /\ o.obs \in Nat /\ o.hash.v \in Nat /\ o.hash.sec \in Nat
      /\ n.v \in Nat /\ n.gen \in Nat /\ n.obs \in Nat /\ n.hash.v \in Nat /\ n.hash.sec \in Nat
      /\ secret \in Nat
  BY <1>0, NatFacts, Numbers DEF TypeOK
<1>3. /\ o.v <= events + 1 /\ o.obs <= o.gen
      /\ IF o.phase = "absent" THEN o.v = 0 /\ o.gen = 0 ELSE o.v # 0
      /\ o.hash.v <= o.v /\ o.hash.sec <= events + 1 /\ (o.hash.by # 0 => o.hash.sec # 0)
      /\ secret # 0 => o.hash.sec <= secret
      /\ o.reason = "Conflict" => o.hash = LoserHash
  BY <1>0 DEF CountedObj, Sound, SoundAt
<1>4. CASE n = o
  BY <1>0, <1>2, <1>3, <1>4, SecretMoves DEF CountedObj, Sound, SoundAt
<1>5. n # o => secret' = secret
  BY SecretMoves DEF Idles
<1> USE DEF Sound, SoundAt
<1>6. ASSUME n.phase = o.phase \/ (o.phase # "absent" /\ n.phase # "absent"), n.v = o.v, n.gen = o.gen, n.obs = o.obs, n.hash = o.hash,
             n.reason = o.reason
      PROVE  CountedObj(obj[c])'
  BY <1>0, <1>2, <1>3, <1>4, <1>5, <1>6 DEF CountedObj
<1>7. CASE n # o /\ (\E r \in Reasons : WriteStatus(wk, r)) /\ (Reports \/ Fails \/ Confirms \/ Records)
  <2>1. PICK r \in Reasons : WriteStatus(wk, r)
    BY <1>7
  <2>2. /\ cur \in Servers /\ cur # 0 /\ wk \in Objs /\ Sound(wk)
    BY <1>7, <2>1, WrittenFacts
  <2>3. c = cur /\ n.phase = o.phase /\ n.gen = o.gen /\ n.v = o.v
        /\ n.hash = wk.hash /\ n.obs = wk.gen /\ n.reason = r
    BY <1>7, <2>1, <2>2, WriteFacts
  <2>4. /\ r # "Conflict" /\ wk.gen <= o.gen /\ wk.v <= o.v /\ wk.gen \in Nat /\ wk.v \in Nat
        /\ wk.hash.v \in Nat /\ wk.hash.sec \in Nat
    BY <2>2, <2>3, NatFacts DEF Reasons, Held, Trail
  <2>5. /\ wk.hash.v <= wk.v /\ wk.hash.sec <= events + 1 /\ (wk.hash.by # 0 => wk.hash.sec # 0)
        /\ secret # 0 => wk.hash.sec <= secret
    BY <2>2
  <2> QED
    BY <1>0, <1>2, <1>3, <1>5, <1>7, <2>3, <2>4, <2>5 DEF CountedObj
<1>8. CASE AddsFin
  <2>1. c = cur \/ n = o
    BY <1>8, AddsFinFacts
  <2> QED
    BY <1>4, <1>6, <1>8, <2>1, AddsFinFacts
<1>9. CASE Demotes
  <2>1. c = cur \/ n = o
    BY <1>9, DemotesFacts
  <2>2. CASE c = cur
    <3>1. /\ obj[cur] = wk /\ n.phase = wk.phase /\ wk.phase = "live" /\ n.gen = wk.gen /\ n.v = wk.v
          /\ n.hash = LoserHash /\ n.obs = wk.gen
      BY <1>9, <2>2, DemotesFacts
    <3>2. n.phase = o.phase /\ n.gen = o.gen /\ n.v = o.v /\ n.obs = o.gen /\ o.v # 0
      BY <1>3, <2>2, <3>1
    <3>3. n.hash.v = 1 /\ n.hash.sec = 0 /\ n.hash.by = 0
      BY <3>1, NewFacts
    <3>4. secret' \in Nat
      BY <1>0, <1>2, SecretMoves
    <3> QED
      BY <1>0, <1>2, <1>3, <3>1, <3>2, <3>3, <3>4 DEF CountedObj
  <2> QED
    BY <1>4, <2>1, <2>2
<1>10. CASE Drops
  <2>1. c = cur \/ n = o
    BY <1>10, DropsFacts
  <2>2. CASE c = cur
    <3>1. o = wk /\ wk.phase = "deleting"
      BY <1>10, <2>2, DropsFacts DEF Drops, DelPCs, Paths
    <3> QED
      BY <1>6, <1>10, <2>2, <3>1, DropsFacts
  <2> QED
    BY <1>4, <2>1, <2>2
<1>11. ASSUME NEW e \in Servers, CreateObj(e) PROVE CountedObj(obj[c])'
  <2>1. CASE c = e
    <3>1. n.gen = 1 /\ n.v = 1 /\ n.obs = 0 /\ n.hash = NoBody /\ n.reason = "none" /\ n.phase = "live"
          /\ secret' = secret
      BY <1>11, <2>1, CreateFacts DEF Fresh
    <3>2. n.hash.v = 0 /\ n.hash.sec = 0 /\ n.hash.by = 0
      BY <3>1, NewFacts
    <3> QED
      BY <1>0, <1>2, <3>1, <3>2 DEF CountedObj
  <2>2. CASE c # e
    BY <1>4, <1>11, <2>2, CreateFacts
  <2> QED
    BY <2>1, <2>2
<1>12. ASSUME NEW e \in Servers, EditSpec(e) PROVE CountedObj(obj[c])'
  <2>1. CASE c = e
    <3>1. /\ n.phase = "live" /\ n.gen = o.gen + 1 /\ n.v = events + 2 /\ n.hash = o.hash /\ n.obs = o.obs
          /\ n.reason = o.reason /\ events' = events + 1 /\ secret' = secret
      BY <1>0, <1>12, <2>1, EditFacts DEF Grown
    <3> QED
      BY <1>0, <1>2, <1>3, <3>1 DEF CountedObj
  <2>2. CASE c # e
    BY <1>0, <1>4, <1>12, <2>2, EditFacts DEF Grown
  <2> QED
    BY <2>1, <2>2
<1>13. ASSUME NEW e \in Servers, DeleteObj(e) PROVE CountedObj(obj[c])'
  <2>1. CASE c = e
    BY <1>6, <1>13, <2>1, DeleteFacts
  <2>2. CASE c # e
    BY <1>4, <1>13, <2>2, DeleteFacts
  <2> QED
    BY <2>1, <2>2
<1>14. "Synced" \in Reasons
  BY DEF Reasons
<1> QED
  BY <1>4, <1>7, <1>8, <1>9, <1>10, <1>11, <1>12, <1>13, <1>14, ObjMoves

\* Where its own row is at, the worker's copy has another id or another hash.
LEMMA PathMoves ==
  ASSUME TypeOK, Paths, Works
  PROVE  /\ pc \in {"start", "delete"} \/ pc \in MidPCs \ {"synced"}
         /\ pc' # "start"
         /\ pc' \in MidPCs => (Renders /\ wk' = wk /\ pc = "start") \/ (pc \in MidPCs /\ body' = body)
         /\ pc' # "synced" => wk'.hash = wk.hash
         /\ pc' = "synced" => wk'.hash = body /\ body' = body
         /\ pc' \in {"probe", "decide"} => wk'.id \in {wk.id, NoId} /\ pc \in {"start", "probe"}
<1>0. wk \in Objs
  BY DEF TypeOK
<1>1. CASE LeavesOnCause \/ LeavesToSibling \/ LeavesBlind \/ LeavesNone \/ LeavesDeleted \/ Resolves
  BY <1>1 DEF LeavesOnCause, LeavesToSibling, LeavesBlind, LeavesNone, LeavesDeleted, Resolves, Leaving,
              DeletesTracked, DeletesResolved, Deleting, MidPCs
<1>2. CASE Renders
  BY <1>2 DEF Renders, Live, MidPCs
<1>3. CASE Decides
  <2>1. pc = "probe" /\ pc' = "decide" /\ body' = body /\ (wk' = wk \/ wk' = [wk EXCEPT !.id = NoId])
    BY <1>3 DEF Decides
  <2>2. wk'.hash = wk.hash /\ wk'.id \in {wk.id, NoId}
    BY <1>0, <2>1 DEF Objs
  <2> QED
    BY <2>1, <2>2 DEF MidPCs
<1>4. CASE Adopts
  <2>1. pc = "decide" /\ pc' = "update" /\ body' = body /\ \E i : wk' = [wk EXCEPT !.id = i]
    BY <1>4 DEF Adopts
  <2>2. wk'.hash = wk.hash
    BY <1>0, <2>1 DEF Objs
  <2> QED
    BY <2>1, <2>2 DEF MidPCs
<1>5. CASE Misses
  BY <1>5 DEF Misses, MidPCs
<1>6. CASE Applies
  <2>1. /\ pc \in MidPCs \ {"synced"} /\ pc' = "synced" /\ body' = body
        /\ \E i : wk' = [wk EXCEPT !.id = i, !.hash = body]
    BY <1>6 DEF Applies, Makes, Puts, Updating, MidPCs
  <2>2. wk'.hash = body
    BY <1>0, <2>1 DEF Objs
  <2> QED
    BY <2>1, <2>2
<1> QED
  BY <1>1, <1>2, <1>3, <1>4, <1>5, <1>6 DEF Works

LEMMA CountedStep ==
  ASSUME TypeOK, Grown, Paths, Life, Counted, Held, Kind
  PROVE  Counted'
<1>0. /\ events \in Nat /\ secret \in Nat /\ (events' = events \/ events' = events + 1)
      /\ secret' \in {secret, 0, events + 2}
  BY EventMoves, SecretMoves, Numbers DEF TypeOK
<1>1. ASSUME NEW c \in Servers PROVE CountedObj(seen[c])'
  <2>1. CASE seen' = obj /\ obj' = obj
    <3>1. CountedObj(obj[c])'
      BY CountedObjStep
    <3> QED
      BY <2>1, <3>1 DEF CountedObj, Sound
  <2>2. CASE seen' = seen
    <3>1. seen[c] \in Objs /\ CountedObj(seen[c])
      BY DEF TypeOK, Counted
    <3>2. SoundAt(seen[c], events', secret')
      BY <1>0, <3>1, SoundKept DEF CountedObj, Sound
    <3> QED
      BY <2>2, <3>1, <3>2 DEF CountedObj, Sound
  <2> QED
    BY <2>1, <2>2, EventMoves
<1>2. ASSUME cur' # 0 PROVE Sound(wk)'
  <2>1. CASE UNCHANGED wkVars
    <3>1. wk \in Objs /\ Sound(wk)
      BY <1>2, <2>1 DEF TypeOK, Counted, wkVars
    <3>2. SoundAt(wk, events', secret')
      BY <1>0, <3>1, SoundKept DEF Sound
    <3> QED
      BY <2>1, <3>2 DEF Sound, wkVars
  <2>2. CASE Finish
    BY <1>2, <2>2 DEF Finish
  <2>3. CASE Takes
    <3>1. PICK c \in Servers : wk' = seen[c] /\ UNCHANGED <<events, secret>>
      BY <2>3 DEF Takes, World
    <3> QED
      BY <3>1 DEF Counted, CountedObj, Sound
  <2>4. CASE Works
    <3>1. UNCHANGED <<secret, events>> /\ cur # 0 /\ Sound(wk)
      BY <2>4, WorksFacts DEF Counted
    <3>2. wk'.v = wk.v /\ wk'.obs = wk.obs /\ wk'.gen = wk.gen
      BY <2>4, CopyMoves
    <3>3. CASE pc' # "synced"
      <4>1. wk'.hash = wk.hash
        BY <2>4, <3>3, PathMoves
      <4> QED
        BY <3>1, <3>2, <4>1 DEF Sound, SoundAt
    <3>4. CASE pc' = "synced"
      <4>1. wk'.hash = body /\ pc \in MidPCs
        BY <2>4, <3>4, PathMoves DEF Renders, MidPCs
      <4>2. /\ body.v = wk.v /\ body.sec # 0 /\ body.sec <= events + 1 /\ (secret # 0 => body.sec <= secret)
        BY <4>1 DEF Paths, Counted
      <4>3. body.v <= wk.v
        <5>1. wk.v \in Nat
          BY NatFacts DEF TypeOK
        <5> QED
          BY <4>2, <5>1
      <4> QED
        BY <3>1, <3>2, <4>1, <4>2, <4>3 DEF Sound, SoundAt
    <3> QED
      BY <3>3, <3>4
  <2> QED
    BY <2>1, <2>2, <2>3, <2>4, WorkMoves
<1> QED
  BY <1>1, <1>2, CountedObjStep, SecretCounted DEF Counted

\* What an outside change of an object leaves of it.
LEMMA TouchFacts ==
  ASSUME TypeOK, Grown, Life, Counted, Trails, NEW e \in Servers, CreateObj(e) \/ EditSpec(e) \/ DeleteObj(e)
  PROVE  /\ \A c \in Servers : c # e => obj'[c] = obj[c]
         /\ seen[e] # obj'[e] /\ Trail(seen[e], obj'[e]) /\ UNCHANGED <<seen, q>>
         /\ ~CreateObj(e) => /\ obj[e].gen <= obj'[e].gen /\ (obj[e].gen = obj'[e].gen => obj[e].v = obj'[e].v)
                             /\ obj[e].v <= obj'[e].v /\ obj'[e].hash = obj[e].hash
<1>0. /\ obj[e] \in Objs /\ seen[e] \in Objs /\ events \in Nat /\ CountedObj(obj[e]) /\ CountedObj(seen[e])
      /\ Trail(seen[e], obj[e]) /\ Behind(obj[e], seen[e], e)
  BY Numbers DEF TypeOK, Counted, Trails, Life
<1>1. /\ obj[e].gen \in Nat /\ obj[e].v \in Nat /\ obj[e].hash.v \in Nat
      /\ seen[e].gen \in Nat /\ seen[e].v \in Nat /\ obj[e].v <= events + 1
      /\ seen[e].gen <= obj[e].gen /\ (seen[e].gen = obj[e].gen => seen[e].v = obj[e].v)
      /\ seen[e].v <= obj[e].v /\ obj[e].hash.v <= seen[e].v
  BY <1>0, NatFacts DEF CountedObj, Sound, SoundAt, Trail
<1>2. CASE CreateObj(e)
  <2>1. /\ obj'[e].gen = 1 /\ obj'[e].v = 1 /\ obj'[e].hash = NoBody
        /\ \A c \in Servers : c # e => obj'[c] = obj[c]
    BY <1>2, CreateFacts DEF Fresh
  <2>2. seen[e].phase = "absent"
    BY <1>0, <1>2 DEF CreateObj, Behind, Objs
  <2>3. seen[e].gen = 0 /\ seen[e].v = 0
    BY <1>0, <2>2 DEF CountedObj
  <2>4. UNCHANGED <<seen, q>>
    BY <1>2 DEF CreateObj
  <2> QED
    BY <1>2, <2>1, <2>3, <2>4, NewFacts DEF Trail
<1>3. CASE EditSpec(e)
  <2>1. /\ obj'[e].gen = obj[e].gen + 1 /\ obj'[e].v = events + 2 /\ obj'[e].hash = obj[e].hash
        /\ \A c \in Servers : c # e => obj'[c] = obj[c]
    BY <1>3, EditFacts DEF Grown
  <2>2. UNCHANGED <<seen, q>>
    BY <1>3 DEF EditSpec
  <2>3. /\ seen[e].gen <= obj'[e].gen /\ seen[e].gen # obj'[e].gen /\ seen[e].v <= obj'[e].v
        /\ obj[e].gen <= obj'[e].gen /\ obj[e].gen # obj'[e].gen /\ obj[e].v <= obj'[e].v
    BY <1>0, <1>1, <2>1
  <2> QED
    BY <1>1, <2>1, <2>2, <2>3 DEF Trail
<1>4. CASE DeleteObj(e)
  <2>1. /\ obj'[e].gen = obj[e].gen /\ obj'[e].v = obj[e].v /\ obj'[e].hash = obj[e].hash
        /\ obj'[e].phase \in {"deleting", "gone"} /\ obj[e].phase = "live"
        /\ \A c \in Servers : c # e => obj'[c] = obj[c]
    BY <1>4, DeleteFacts
  <2>2. UNCHANGED <<seen, q>>
    BY <1>4 DEF DeleteObj
  <2>3. seen[e] # obj'[e]
    BY <1>0, <2>1 DEF Behind
  <2> QED
    BY <1>1, <2>1, <2>2, <2>3 DEF Trail
<1> QED
  BY <1>2, <1>3, <1>4

LEMMA TrailsStep ==
  ASSUME TypeOK, Grown, Paths, Life, Counted, Trails, Held, Kind
  PROVE  Trails'
<1>1. SUFFICES ASSUME NEW c \in Servers PROVE Trail(seen'[c], obj'[c])
  BY DEF Trails, Trail
<1>2. /\ obj[c] \in Objs /\ seen[c] \in Objs /\ CountedObj(obj[c]) /\ CountedObj(seen[c]) /\ Trail(seen[c], obj[c])
  BY DEF TypeOK, Counted, Trails
<1>3. /\ obj[c].gen \in Nat /\ obj[c].v \in Nat /\ obj[c].hash.v \in Nat /\ seen[c].v \in Nat
      /\ obj[c].hash.v <= obj[c].v
  BY <1>2, NatFacts DEF CountedObj, Sound, SoundAt
<1>4. CASE seen' = obj /\ obj' = obj
  BY <1>3, <1>4 DEF Trail
<1>5. ASSUME seen' = seen, obj'[c].gen = obj[c].gen, obj'[c].v = obj[c].v, obj'[c].hash.v <= seen[c].v
      PROVE  Trail(seen'[c], obj'[c])
  BY <1>2, <1>5 DEF Trail
<1>6. CASE seen' = seen /\ obj'[c] = obj[c]
  BY <1>2, <1>6
<1>7. CASE (\E r \in Reasons : WriteStatus(wk, r)) /\ (Reports \/ Fails \/ Confirms \/ Records) /\ seen' = seen
  <2>1. PICK r \in Reasons : WriteStatus(wk, r)
    BY <1>7
  <2>2. cur \in Servers /\ cur # 0 /\ wk \in Objs /\ Sound(wk)
    BY <1>7, <2>1, WrittenFacts
  <2>3. /\ c # cur => obj'[c] = obj[c]
        /\ seen[cur] = obj[cur] /\ obj'[cur].gen = obj[cur].gen /\ obj'[cur].v = obj[cur].v
        /\ obj'[cur].hash = wk.hash
    BY <2>1, <2>2, WriteFacts
  <2>4. wk.hash.v <= wk.v /\ wk.v <= obj[cur].v /\ wk.hash.v \in Nat /\ wk.v \in Nat
    BY <2>2, NatFacts DEF Held, Trail, Sound, SoundAt
  <2>5. CASE c = cur
    BY <1>3, <1>5, <1>7, <2>3, <2>4, <2>5
  <2> QED
    BY <1>6, <1>7, <2>3, <2>5
<1>8. CASE AddsFin /\ seen' = seen
  BY <1>2, <1>5, <1>6, <1>8, AddsFinFacts DEF Trail
<1>9. CASE Demotes /\ seen' = seen
  <2>1. CASE c = cur
    <3>1. cur # 0 /\ obj[c] = wk /\ obj'[c].gen = wk.gen /\ obj'[c].v = wk.v /\ obj'[c].hash = LoserHash
      BY <1>9, <2>1, DemotesFacts, Bounds
    <3>2. seen[c].v # 0
      BY <1>2, <2>1, <3>1 DEF Life, CountedObj
    <3> QED
      BY <1>3, <1>5, <1>9, <3>1, <3>2, NewFacts
  <2> QED
    BY <1>6, <1>9, <2>1, DemotesFacts
<1>10. CASE Drops /\ seen' = seen
  BY <1>2, <1>5, <1>6, <1>10, DropsFacts DEF Trail
<1>11. ASSUME NEW e \in Servers, CreateObj(e) \/ EditSpec(e) \/ DeleteObj(e)
       PROVE  Trail(seen'[c], obj'[c])
  BY <1>2, <1>11, TouchFacts
<1>12. "Synced" \in Reasons
  BY DEF Reasons
<1> QED
  BY <1>4, <1>6, <1>7, <1>8, <1>9, <1>10, <1>11, <1>12, EventMoves, ObjMoves

\* What is queued stays so while the worker is busy.
LEMMA QueueGrows ==
  ASSUME TypeOK, Kind, cur # 0
  PROVE  q \subseteq q' \/ Crash
<1>1. CASE Idles
  BY <1>1 DEF Idles
<1>2. ~Takes
  BY DEF Takes
<1>3. CASE Works
  BY <1>3, WorksFacts
<1>4. CASE Closes
  BY <1>4, ClosesFacts
<1>5. CASE Sync \/ Users
  BY <1>5 DEF Sync, Users, CreateObj, EditSpec, DeleteObj, OutOfBand
<1> QED
  BY <1>1, <1>2, <1>3, <1>4, <1>5 DEF Kind

LEMMA HeldStep ==
  ASSUME TypeOK, Grown, Paths, Life, Counted, Trails, Held, Kind
  PROVE  Held'
<1>0. /\ \A c \in Servers : obj[c] \in Objs /\ seen[c] \in Objs /\ CountedObj(obj[c])
      /\ wk \in Objs /\ (cur # 0 => cur \in Servers)
  BY DEF TypeOK, Counted
<1>1. CASE Finish
  BY <1>1 DEF Finish, Held
<1>2. CASE Takes
  <2>1. PICK c \in Servers : /\ cur' = c /\ wk' = seen[c] /\ pc' = "start" /\ obj' = obj /\ seen' = seen
    BY <1>2 DEF Takes, World
  <2>2. Trail(seen[c], obj[c])
    BY DEF Trails
  <2> QED
    BY <2>1, <2>2 DEF Held, MidPCs, Trail
<1>3. CASE Works
  <2>1. UNCHANGED <<obj, cur, seen, q>> /\ cur \in Servers /\ cur # 0
    BY <1>3, WorksFacts
  <2>2. wk'.gen = wk.gen /\ wk'.v = wk.v /\ wk'.obs = wk.obs /\ wk'.reason = wk.reason
    BY <1>3, CopyMoves
  <2>3. pc # "synced" /\ (pc' # "synced" => wk'.hash = wk.hash)
    BY <1>3, PathMoves DEF MidPCs
  <2>4. pc' \in MidPCs => obj[cur].hash.sec <= body'.sec
    <3>1. CASE Renders
      <4>1. body'.sec = secret /\ secret # 0
        BY <3>1 DEF Renders, Rendered
      <4> QED
        BY <1>0, <2>1, <4>1 DEF CountedObj, Sound, SoundAt
    <3>2. CASE ~Renders
      BY <1>3, <2>1, <3>2, PathMoves DEF Held
    <3> QED
      BY <3>1, <3>2
  <2> QED
    BY <2>1, <2>2, <2>3, <2>4 DEF Held, Trail
<1>4. CASE UNCHANGED wkVars /\ obj' = obj /\ cur # 0 /\ ~Finish
  <2>1. q \subseteq q'
    BY <1>4, QueueGrows DEF Crash
  <2>2. CASE seen' = seen
    BY <1>4, <2>1, <2>2 DEF Held, wkVars, Trail
  <2>3. CASE Sync
    <3>1. seen[cur] # obj[cur] => cur \in q'
      BY <1>0, <1>4, <2>3 DEF Sync, FannedOut
    <3>2. seen[cur] = obj[cur] => seen'[cur] = obj[cur]
      BY <2>3 DEF Sync
    <3> QED
      BY <1>4, <2>1, <3>1, <3>2 DEF Held, wkVars, Trail
  <2>4. seen' = seen \/ Sync
    <3>1. CASE Idles
      BY <3>1 DEF Idles
    <3>2. CASE Takes \/ Crash
      BY <1>4, <3>2 DEF Takes, Crash
    <3>3. CASE Works
      BY <3>3, WorksFacts
    <3>4. CASE Closes
      BY <3>4, ClosesFacts DEF Ends, World
    <3>5. CASE Users
      BY <3>5 DEF Users, CreateObj, EditSpec, DeleteObj, OutOfBand, apiVars
    <3> QED
      BY <3>1, <3>2, <3>3, <3>4, <3>5 DEF Kind
  <2> QED
    BY <2>2, <2>3, <2>4
<1>5. CASE UNCHANGED wkVars /\ ~Finish /\ obj' # obj /\ cur # 0
  <2>1. PICK e \in Servers : CreateObj(e) \/ EditSpec(e) \/ DeleteObj(e)
    BY <1>5, ObjMoves, ClosesFacts DEF Ends, Closes
  <2>2. /\ \A c \in Servers : c # e => obj'[c] = obj[c]
        /\ seen[e] # obj'[e] /\ UNCHANGED <<seen, q>>
        /\ ~CreateObj(e) => /\ obj[e].gen <= obj'[e].gen /\ (obj[e].gen = obj'[e].gen => obj[e].v = obj'[e].v)
                            /\ obj[e].v <= obj'[e].v /\ obj'[e].hash = obj[e].hash
    BY <2>1, TouchFacts
  <2>3. CASE cur # e
    <3>1. obj'[cur] = obj[cur]
      BY <1>0, <1>5, <2>2, <2>3
    <3> QED
      BY <1>5, <2>2, <3>1 DEF wkVars, Held, Trail
  <2>4. CASE cur = e
    <3>1. ~CreateObj(e)
      <4>1. obj[e].phase = "absent" => seen[e].phase = "absent"
        BY <1>0 DEF Life, Behind, Objs
      <4> QED
        BY <1>5, <2>4, <4>1 DEF Life, CreateObj
    <3>2. Trail(wk, obj[e])
      BY <1>5, <2>4 DEF Held
    <3>3. Trail(wk, obj'[e])
      <4>1. wk.gen \in Nat /\ wk.v \in Nat /\ obj[e].gen \in Nat /\ obj[e].v \in Nat
        BY <1>0, NatFacts
      <4>2. obj'[e].gen \in Nat /\ obj'[e].v \in Nat
        <5>1. obj'[e] \in Objs
          BY ObjTyped
        <5> QED
          BY <5>1, NatFacts
      <4> QED
        BY <2>2, <3>1, <3>2, <4>1, <4>2 DEF Trail
    <3> QED
      BY <1>5, <2>2, <2>4, <3>1, <3>3 DEF Held, wkVars
  <2> QED
    BY <2>3, <2>4
<1>6. CASE UNCHANGED wkVars /\ cur = 0
  BY <1>6 DEF Held, wkVars
<1> QED
  BY <1>1, <1>2, <1>3, <1>4, <1>5, <1>6, WorkMoves

\* Who claims to be Synced did so before, or just said so of the version it has.
LEMMA ClaimMoves ==
  ASSUME TypeOK, Grown, Paths, Life, Counted, Held, Kind, NEW c \in Servers, ClaimsSynced(c)'
  PROVE  \/ obj'[c] = obj[c] /\ ClaimsSynced(c) /\ ~(c = cur /\ (Confirms \/ Records))
         \/ /\ c = cur /\ (Confirms \/ Records) /\ wk.v \notin BadSpecs /\ wk.v = obj'[c].v
            /\ obj'[c].hash = body /\ obj'[c].phase = "live"
<1>0. obj[c] \in Objs /\ obj'[c].phase = "live" /\ obj'[c].reason = "Synced" /\ obj'[c].obs = obj'[c].gen
  BY DEF TypeOK, ClaimsSynced
<1>1. Confirms \/ Records => WriteStatus(wk, "Synced")
  BY DEF Confirms, Records
<1>2. CASE Confirms \/ Records
  <2>1. "Synced" \in Reasons /\ WriteStatus(wk, "Synced")
    BY <1>1, <1>2 DEF Reasons
  <2>2. /\ cur \in Servers /\ cur # 0 /\ wk \in Objs
        /\ pc = "synced" => wk.hash = body
        /\ Records <=> pc = "synced"
    BY <1>2, <2>1, WrittenFacts
  <2>3. /\ c # cur => obj'[c] = obj[c]
        /\ obj'[cur].gen = obj[cur].gen /\ obj'[cur].v = obj[cur].v
        /\ obj'[cur].hash = wk.hash /\ obj'[cur].obs = wk.gen
    BY <1>2, <2>1, <2>2, WriteFacts
  <2>4. CASE c # cur
    BY <1>0, <2>3, <2>4 DEF ClaimsSynced
  <2>5. CASE c = cur
    <3>1. pc \in MidPCs
      BY <1>2 DEF Confirms, Records, MidPCs
    <3>2. wk.v \notin BadSpecs
      BY <3>1 DEF Paths
    <3>3. wk.v = obj[c].v
      BY <1>0, <2>2, <2>3, <2>5 DEF Held, Trail
    <3>4. wk.hash = body
      BY <1>2, <2>2 DEF Confirms, InSteadyState
    <3> QED
      BY <1>0, <1>2, <2>3, <2>5, <3>2, <3>3, <3>4
  <2> QED
    BY <2>4, <2>5
<1>3. ASSUME NEW r \in Reasons \ {"Synced"}, WriteStatus(wk, r), Reports \/ Fails
      PROVE  obj'[c] = obj[c] /\ c # cur
  <2>1. cur \in Servers /\ cur # 0
    BY <1>3, WriterFacts
  <2>2. (c # cur => obj'[c] = obj[c]) /\ obj'[cur].reason = r
    BY <1>3, <2>1, WriteFacts
  <2> QED
    BY <1>0, <1>3, <2>2
<1>4. CASE AddsFin
  <2>1. (c # cur => obj'[c] = obj[c]) /\ obj'[cur].reason = obj[cur].reason /\ ~obj[cur].fin
        /\ obj[cur].phase = "live" /\ cur \in Servers
    BY <1>4, AddsFinFacts
  <2>2. obj[cur].reason = "none"
    BY <2>1 DEF Life, Behind, Fresh
  <2> QED
    BY <1>0, <2>1, <2>2 DEF ClaimsSynced
<1>5. CASE Demotes
  BY <1>0, <1>5, DemotesFacts DEF ClaimsSynced
<1>6. CASE Drops
  BY <1>0, <1>6, DropsFacts DEF ClaimsSynced
<1>7. ASSUME NEW e \in Servers, CreateObj(e) PROVE obj'[c] = obj[c]
  BY <1>0, <1>7, CreateFacts DEF Fresh
<1>8. ASSUME NEW e \in Servers, EditSpec(e) PROVE obj'[c] = obj[c]
  <2>1. /\ c # e => obj'[c] = obj[c]
        /\ c = e => obj'[c].gen = obj[c].gen + 1 /\ obj'[c].obs = obj[c].obs
    BY <1>8, EditFacts DEF Grown
  <2>2. obj[c].obs <= obj[c].gen /\ obj[c].obs \in Nat /\ obj[c].gen \in Nat
    BY <1>0, NatFacts DEF Counted, CountedObj, Sound, SoundAt
  <2> QED
    BY <1>0, <2>1, <2>2
<1>9. ASSUME NEW e \in Servers, DeleteObj(e) PROVE obj'[c] = obj[c]
  <2>1. /\ c # e => obj'[c] = obj[c]
        /\ c = e => obj'[c].phase # "live"
    BY <1>9, DeleteFacts
  <2> QED
    BY <1>0, <2>1
<1>10. obj'[c] = obj[c] => ClaimsSynced(c)
  BY <1>0 DEF ClaimsSynced
<1>11. CASE ~(Confirms \/ Records)
  <2>1. obj'[c] = obj[c]
    BY <1>3, <1>4, <1>5, <1>6, <1>7, <1>8, <1>9, <1>11, ObjMoves
  <2> QED
    BY <1>10, <1>11, <2>1
<1> QED
  BY <1>2, <1>11

\* The recorded hash is of the body to be sent now, or c is queued.
LEMMA CurrentNow ==
  ASSUME TypeOK, Paths, Counted, pc \in MidPCs, NEW c \in Servers, c = cur,
         wk.v = obj'[c].v, secret' = secret, obj'[c].hash = body
  PROVE  c \in q \/ Current(c)'
<1>1. body \in Bodies /\ body.by = c /\ body.v = obj'[c].v /\ (c \in q \/ body.sec = secret)
  BY DEF TypeOK, Paths, Counted
<1>2. body = [by |-> body.by, v |-> body.v, sec |-> body.sec]
  BY <1>1 DEF Bodies
<1>3. CASE body.sec = secret
  <2>1. body = [by |-> c, v |-> obj'[c].v, sec |-> secret']
    BY <1>1, <1>2, <1>3
  <2> QED
    BY <2>1 DEF Current, Rendered
<1> QED
  BY <1>1, <1>3

LEMMA QueuedStep ==
  ASSUME TypeOK, Grown, Paths, Life, Counted, Held, Queued, Next
  PROVE  Queued'
<1>0. Kind /\ \A c \in Servers : obj[c] \in Objs /\ seen[c] \in Objs /\ c # 0
  BY Kinds, Bounds DEF TypeOK
<1>1. SUFFICES ASSUME NEW c \in Servers, ClaimsSynced(c)'
               PROVE  /\ obj'[c].v \notin BadSpecs
                      /\ conn' = "Synced" => c \in q' \/ cur' = c \/ seen'[c] # obj'[c] \/ Current(c)'
  BY DEF Queued
<1>2. CASE /\ c = cur /\ (Confirms \/ Records) /\ wk.v \notin BadSpecs /\ wk.v = obj'[c].v
           /\ obj'[c].hash = body /\ obj'[c].phase = "live"
  <2>1. q' = q /\ secret' = secret /\ pc \in MidPCs
    BY <1>2 DEF Confirms, Records, Ends, World, MidPCs
  <2> QED
    BY <1>2, <2>1, CurrentNow
<1>3. CASE obj'[c] = obj[c] /\ ClaimsSynced(c) /\ ~(c = cur /\ (Confirms \/ Records))
  <2>1. /\ obj[c].v \notin BadSpecs
        /\ conn = "Synced" => c \in q \/ cur = c \/ seen[c] # obj[c] \/ Current(c)
    BY <1>3 DEF Queued
  <2>2. /\ obj[c].phase = "live" /\ obj[c].reason = "Synced" /\ obj[c].obs = obj[c].gen /\ c \in Present
    BY <1>3, PresentFacts DEF ClaimsSynced, Present
  <2>3. SUFFICES ASSUME conn' = "Synced", c \notin q', cur' # c, seen'[c] = obj'[c] PROVE Current(c)'
    BY <1>3, <2>1
  <2>4. ~Crash
    BY <1>3, <2>2, <2>3 DEF Crash
  <2>5. conn = "Synced"
    BY <2>2, <2>3, ConnMoves DEF ConnUp
  <2>6. c \notin q
    BY <1>0, <2>2, <2>3, <2>4, QueueKept
  <2>7. seen[c] = obj[c]
    <3>1. CASE Sync
      <4>1. c \in FannedOut(c)
        BY DEF FannedOut
      <4> QED
        BY <2>3, <3>1, <4>1 DEF Sync
    <3>2. CASE ~Sync
      <4>1. seen' = seen
        <5>1. CASE Idles \/ Takes
          BY <5>1 DEF Idles, Takes, World
        <5>2. CASE Works
          BY <5>2, WorksFacts
        <5>3. CASE Closes
          BY <5>3, ClosesFacts DEF Ends, World
        <5>4. CASE Users
          BY <5>4 DEF Users, CreateObj, EditSpec, DeleteObj, OutOfBand, apiVars
        <5> QED
          BY <1>0, <2>4, <3>2, <5>1, <5>2, <5>3, <5>4 DEF Kind
      <4> QED
        BY <1>3, <2>3, <4>1
    <3> QED
      BY <3>1, <3>2
  <2>8. CASE cur # c
    <3>1. Current(c)
      BY <2>1, <2>5, <2>6, <2>7, <2>8
    <3>2. secret' = secret
      BY <1>0, <2>2, <2>3, SecretMoves
    <3> QED
      BY <1>3, <3>1, <3>2 DEF Current, Rendered
  <2>9. CASE cur = c
    <3>1. ~Takes /\ ~(UNCHANGED wkVars) /\ ~Works
      BY <1>0, <2>3, <2>9, WorksFacts DEF Takes, wkVars
    <3>2. Closes
      BY <1>0, <2>4, <3>1 DEF Kind, Idles, Sync, Users, CreateObj, EditSpec, DeleteObj, OutOfBand
    <3>3. wk.phase # "deleting" \/ wk.fin
      BY <1>0, <2>9 DEF Life
    <3>4. wk \in Objs /\ obj[c].obs = wk.obs /\ obj[c].reason = wk.reason /\ (pc # "synced" => obj[c].hash = wk.hash)
          /\ wk.gen <= obj[c].gen /\ (wk.gen = obj[c].gen => wk.v = obj[c].v) /\ wk.obs <= wk.gen
      BY <1>0, <2>6, <2>7, <2>9 DEF Held, Trail, TypeOK, Counted, Sound, SoundAt
    <3>5. wk.gen = obj[c].gen /\ wk.v = obj[c].v
      <4>1. wk.gen \in Nat /\ obj[c].gen \in Nat
        BY <1>0, <3>4, NatFacts
      <4> QED
        BY <2>2, <3>4, <4>1
    <3>6. ~(Retries \/ FailsToDelete \/ FailsToDrop)
      BY <2>3, <2>9 DEF Retries, FailsToDelete, FailsToDrop, Again
    <3>7. ASSUME NEW r \in Reasons \ {"Synced"}, WriteStatus(wk, r) PROVE FALSE
      <4>1. obj'[cur].reason = r
        BY <1>0, <2>9, <3>7, WriteFacts
      <4> QED
        BY <1>3, <2>2, <2>9, <3>7, <4>1
    <3>8. ~Reports /\ ~Fails
      BY <2>3, <2>9, <3>7 DEF Reports, Fails, Again
    <3>9. ~AddsFin /\ ~Demotes /\ ~Drops
      BY <1>3, <2>2, <2>9, AddsFinFacts, DemotesFacts, DropsFacts
    <3>10. Drowned
      BY <1>3, <2>9, <3>2, <3>6, <3>8, <3>9 DEF Closes
    <3>11. pc = "decide" /\ InSteadyState /\ secret' = secret
      BY <2>1, <2>3, <2>7, <2>9, <3>3, <3>5, <3>10 DEF Drowned, Ends, World
    <3>12. obj'[c].hash = body /\ pc \in MidPCs /\ wk.v = obj'[c].v
      BY <1>3, <3>4, <3>5, <3>11 DEF InSteadyState, MidPCs
    <3> QED
      BY <2>6, <2>9, <3>11, <3>12, CurrentNow
  <2> QED
    BY <2>8, <2>9
<1> QED
  BY <1>0, <1>1, <1>2, <1>3, ClaimMoves

\* A good one was good before, with the same record, or has just been recorded.
LEMMA GoodMoves ==
  ASSUME TypeOK, Grown, Paths, Life, Counted, Held, Kind, NEW c \in Servers, Good(c)'
  PROVE  \/ Good(c) /\ obj'[c].id = obj[c].id /\ obj'[c].hash = obj[c].hash
         \/ c = cur /\ Records
<1>0. /\ obj[c] \in Objs /\ obj'[c] \in Objs /\ CountedObj(obj[c]) /\ obj'[c].phase = "live" /\ c # 0
      /\ events \in Nat /\ secret \in Nat
      /\ c \notin misled' /\ \A e \in Servers : e > c => obj'[e].phase # "live"
  BY ObjTyped, Bounds, Numbers DEF TypeOK, Counted, Good, TopLive
<1>1. obj'[c].hash.by = c /\ obj'[c].hash.v = obj'[c].v /\ obj'[c].hash.sec = secret'
  BY DEF Good, Current, Rendered
<1>2. /\ obj[c].v \in Nat /\ obj[c].hash.v \in Nat /\ obj[c].hash.sec \in Nat
      /\ obj[c].v <= events + 1 /\ obj[c].hash.v <= obj[c].v /\ obj[c].hash.sec <= events + 1
      /\ obj[c].hash.by # 0 => obj[c].hash.sec # 0
  BY <1>0, NatFacts DEF CountedObj, Sound, SoundAt
<1>3. SUFFICES ASSUME ~(c = cur /\ Records)
               PROVE  Good(c) /\ obj'[c].id = obj[c].id /\ obj'[c].hash = obj[c].hash
  OBVIOUS
<1>4. c \notin misled
  BY <1>0, <1>3, MisledMoves DEF Note
<1>5. \A e \in Servers : ~CreateObj(c) /\ ~EditSpec(c) /\ ~DeleteObj(c) /\ (DeleteObj(e) => e <= c)
  <2>1. ~CreateObj(c)
    BY <1>0, <1>1, CreateFacts, NewFacts DEF Fresh
  <2>2. ~EditSpec(c)
    <3>1. SUFFICES ASSUME EditSpec(c) PROVE FALSE
      OBVIOUS
    <3>2. obj'[c].v = events + 2 /\ obj'[c].hash = obj[c].hash
      BY <3>1, EditFacts DEF Grown
    <3> QED
      BY <1>0, <1>1, <1>2, <3>2
  <2>3. ~DeleteObj(c)
    BY <1>0, DeleteFacts
  <2>4. ASSUME NEW e \in Servers, DeleteObj(e), ~(e <= c) PROVE FALSE
    <3>1. c < e /\ c # e
      BY <2>4, Bounds
    <3>2. obj'[c] = obj[c]
      BY <2>4, <3>1, DeleteFacts
    <3>3. obj[c].hash \notin {NoBody, LoserHash}
      BY <1>0, <1>1, <3>2, NewFacts
    <3>4. obj[c].reason # "Conflict"
      BY <1>0, <3>3 DEF CountedObj
    <3> QED
      BY <1>0, <2>4, <3>1, <3>2, <3>3, <3>4 DEF DeleteObj
  <2> QED
    BY <2>1, <2>2, <2>3, <2>4
<1>6. \A e \in Servers : e > c => obj[e].phase # "live"
  <2>1. SUFFICES ASSUME NEW e \in Servers, e > c, obj[e].phase = "live" PROVE FALSE
    OBVIOUS
  <2>2. obj'[e].phase # "live" /\ ~(e <= c)
    BY <1>0, <2>1, Bounds
  <2>3. ~DeleteObj(e)
    BY <1>5, <2>2
  <2> QED
    BY <2>1, <2>2, <2>3, PhaseMoves
<1>7. ASSUME obj'[c].hash = obj[c].hash, obj'[c].v = obj[c].v, obj'[c].phase = obj[c].phase
      PROVE  Good(c)
  <2>1. secret' = secret
    BY <1>0, <1>1, <1>2, <1>7, SecretMoves
  <2>2. Current(c)
    BY <1>7, <2>1 DEF Good, Current, Rendered
  <2> QED
    BY <1>0, <1>4, <1>6, <1>7, <2>2 DEF Good, TopLive
<1>8. CASE obj'[c] = obj[c]
  BY <1>7, <1>8
<1>9. CASE (\E r \in Reasons : WriteStatus(wk, r)) /\ (Reports \/ Fails \/ Confirms \/ Records)
  <2>1. PICK r \in Reasons : WriteStatus(wk, r)
    BY <1>9
  <2>2. cur \in Servers /\ cur # 0 /\ (~Records => Note)
    BY <1>9, <2>1, WrittenFacts
  <2>3. /\ c # cur => obj'[c] = obj[c]
        /\ obj'[cur].phase = obj[cur].phase /\ obj'[cur].v = obj[cur].v
    BY <2>1, <2>2, WriteFacts
  <2>4. CASE c # cur
    BY <1>8, <2>3, <2>4
  <2>5. CASE c = cur
    <3>1. RecordOf(obj'[c]) = RecordOf(obj[c])
      BY <1>0, <1>3, <2>2, <2>5 DEF Note
    <3> QED
      BY <1>7, <2>3, <2>5, <3>1 DEF RecordOf
  <2> QED
    BY <2>4, <2>5
<1>10. CASE AddsFin
  <2>1. c # cur => obj'[c] = obj[c]
    BY <1>10, AddsFinFacts
  <2> QED
    BY <1>7, <1>8, <1>10, <2>1, AddsFinFacts
<1>11. CASE Demotes
  <2>1. c # cur
    BY <1>0, <1>1, <1>11, DemotesFacts, NewFacts
  <2> QED
    BY <1>8, <1>11, <2>1, DemotesFacts
<1>12. CASE Drops
  <2>1. c # cur
    BY <1>0, <1>12, DropsFacts
  <2> QED
    BY <1>8, <1>12, <2>1, DropsFacts
<1>13. ASSUME NEW e \in Servers, CreateObj(e) \/ EditSpec(e) \/ DeleteObj(e)
       PROVE  obj'[c] = obj[c]
  <2>1. c # e
    BY <1>5, <1>13
  <2> QED
    BY <1>13, <2>1, CreateFacts, EditFacts, DeleteFacts DEF Grown
<1>14. "Synced" \in Reasons
  BY DEF Reasons
<1> QED
  BY <1>8, <1>9, <1>10, <1>11, <1>12, <1>13, <1>14, ObjMoves

LEMMA OverruledStep ==
  ASSUME TypeOK, Grown, Paths, Life, Counted, Held, Overruled, Shadowed, Kind
  PROVE  Overruled'
<1>1. SUFFICES ASSUME cur' # 0, wk'.phase = "live", wk'.fin, NEW c \in Servers, c < cur', Good(c)'
               PROVE  FALSE
  BY DEF Overruled
<1>2. Good(c)
  <2>1. Records => cur' = 0
    BY DEF Records, Ends, Finish
  <2> QED
    BY <1>1, <2>1, GoodMoves
<1>3. CASE UNCHANGED wkVars
  BY <1>1, <1>2, <1>3 DEF Overruled, wkVars
<1>4. CASE Finish
  BY <1>1, <1>4 DEF Finish
<1>5. CASE Works
  BY <1>1, <1>2, <1>5, WorksFacts, CopyMoves DEF Overruled
<1>6. CASE Takes
  BY <1>1, <1>2, <1>6 DEF Takes, Shadowed
<1> QED
  BY <1>3, <1>4, <1>5, <1>6, WorkMoves

LEMMA ShadowedStep ==
  ASSUME TypeOK, Grown, Paths, Life, Highest, Counted, Held, Shadowed, Kind
  PROVE  Shadowed'
<1>1. SUFFICES ASSUME NEW c \in Servers, NEW e \in Servers, c < e, Good(c)', seen'[e].phase = "live", seen'[e].fin
               PROVE  FALSE
  BY DEF Shadowed
<1>2. c \in Nat /\ e \in Nat /\ e > c
  BY <1>1, Bounds
<1>3. obj'[e].phase # "live"
  BY <1>1, <1>2 DEF Good, TopLive
<1>4. seen' = seen
  BY <1>1, <1>3, EventMoves
<1>5. CASE Good(c)
  BY <1>1, <1>4, <1>5 DEF Shadowed
<1>6. CASE c = cur /\ Records
  BY <1>1, <1>2, <1>4, <1>6 DEF Records, Highest, MidPCs
<1> QED
  BY <1>1, <1>5, <1>6, GoodMoves

\* The body the worker sends is what a good one with that row recorded.
LEMMA SameBody ==
  ASSUME TypeOK, Paths, Highest, Counted, Held, Overruled, pc \in MidPCs,
         NEW c \in Servers, Good(c), obj[c].id # NoId
  PROVE  obj[c].hash = body
<1>0. /\ cur # 0 /\ cur \in Servers /\ cur \in Nat /\ c \in Nat /\ wk.phase = "live" /\ wk.fin /\ wk \in Objs /\ obj[c] \in Objs
  BY CurFacts, Bounds DEF MidPCs, Paths, TypeOK
<1>1. obj[c].phase = "live" /\ obj[c].hash = [by |-> c, v |-> obj[c].v, sec |-> secret]
  BY DEF Good, TopLive, Current, Rendered
<1>2. ~(c < cur)
  BY <1>0 DEF Overruled
<1>3. ~(c > cur)
  BY <1>1 DEF Highest, Fresh
<1>4. c = cur
  BY <1>0, <1>2, <1>3
<1>5. secret # 0
  BY <1>0, <1>1, Bounds DEF Counted, CountedObj, Sound, SoundAt
<1>6. /\ body \in Bodies /\ body.by = c /\ body.v = wk.v /\ body.sec \in Nat /\ secret \in Nat
      /\ wk.v \in Nat /\ obj[c].v \in Nat
      /\ wk.v <= obj[c].v /\ obj[c].hash.v <= wk.v /\ obj[c].hash.sec <= body.sec /\ body.sec <= secret
  <2>1. body \in Bodies /\ body.by = c /\ body.v = wk.v
    BY <1>4 DEF TypeOK, Paths
  <2>2. body.sec \in Nat /\ secret \in Nat /\ wk.v \in Nat /\ obj[c].v \in Nat
    BY <1>0, <2>1, NatFacts, Numbers DEF Bodies, TypeOK
  <2>3. wk.v <= obj[c].v /\ obj[c].hash.v <= wk.v /\ obj[c].hash.sec <= body.sec
    BY <1>0, <1>4 DEF Held, Trail
  <2>4. body.sec <= secret
    BY <1>5 DEF Counted
  <2> QED
    BY <2>1, <2>2, <2>3, <2>4
<1>7. body.v = obj[c].v /\ body.sec = secret
  BY <1>1, <1>6
<1>8. body = [by |-> body.by, v |-> body.v, sec |-> body.sec]
  BY <1>6 DEF Bodies
<1> QED
  BY <1>1, <1>6, <1>7, <1>8

LEMMA MatchStep ==
  ASSUME TypeOK, Grown, Paths, Life, Highest, Counted, Held, Overruled, Match, Kind
  PROVE  Match'
<1>0. rows \subseteq Rows /\ \A c \in Servers : obj[c] \in Objs
  BY DEF TypeOK
<1>1. SUFFICES ASSUME NEW c \in Servers, Good(c)', NEW r \in rows', r.id = obj'[c].id
               PROVE  r.body = obj'[c].hash
  BY DEF Match, RowOf
<1>2. CASE c = cur /\ Records
  <2>1. pc = "synced" /\ WriteStatus(wk, "Synced") /\ rows' = rows /\ "Synced" \in Reasons
    BY <1>2 DEF Records, Reasons
  <2>2. cur # 0
    BY <1>2, Bounds
  <2>3. wk.id # NoId /\ wk.hash = body /\ \A s \in RowOf(wk.id) : s.body = body
    BY <2>1 DEF Paths
  <2>4. obj'[c].id = wk.id /\ obj'[c].hash = wk.hash
    BY <1>2, <2>1, <2>2, <2>3, WriteFacts
  <2> QED
    BY <1>1, <2>1, <2>3, <2>4 DEF RowOf
<1>3. CASE Good(c) /\ obj'[c].id = obj[c].id /\ obj'[c].hash = obj[c].hash
  <2>1. r \in rows => r.body = obj[c].hash
    BY <1>1, <1>3 DEF Match, RowOf
  <2>2. CASE rows' \subseteq rows
    BY <1>1, <1>3, <2>1, <2>2
  <2>3. CASE Makes
    <3> DEFINE n == [id |-> Pinned, name |-> 0, body |-> body]
    <3>1. r \in rows \/ (r.id = Pinned /\ r.body = body)
      <4>1. n.id = Pinned /\ n.body = body /\ rows' = rows \cup {n}
        BY <2>3, MakesFacts
      <4> HIDE DEF n
      <4> QED
        BY <1>1, <4>1
    <3>2. pc \in MidPCs /\ Pinned # NoId
      BY <2>3 DEF Makes, MidPCs, Pinned, NoId
    <3> QED
      BY <1>1, <1>3, <2>1, <3>1, <3>2, SameBody
  <2>4. CASE Puts
    <3>1. r \in rows \/ (r.id = wk.id /\ r.body = body /\ r \in Rows)
      BY <1>1, <2>4, PutsFacts
    <3>2. pc \in MidPCs /\ (r \in Rows => r.id # NoId)
      BY <2>4 DEF Puts, Updating, MidPCs, Rows, Ids, Pinned, NoId
    <3> QED
      BY <1>1, <1>3, <2>1, <3>1, <3>2, SameBody
  <2>5. CASE rows' = rows \cup {MadeByHand} /\ \A e \in Servers : obj[e].id # "manual"
    BY <1>1, <1>3, <2>1, <2>5, HandFacts
  <2> QED
    BY <2>2, <2>3, <2>4, <2>5, RowMoves
<1> QED
  BY <1>1, <1>2, <1>3, GoodMoves

LEMMA TrueInit == Init => TrueInv
<1>1. SUFFICES ASSUME Init PROVE TrueInv
  OBVIOUS
<1>2. /\ cur = 0 /\ pc = "idle" /\ secret = 1 /\ events = 0 /\ body = NoBody
      /\ \A c \in Servers : c # 0 /\ (obj[c] = NewObj \/ obj[c] = Nothing)
  BY <1>1, Bounds DEF Init
<1>3. \A c \in Servers : CountedObj(obj[c]) /\ obj[c].hash = NoBody /\ obj[c].reason = "none"
  BY <1>2, NewFacts DEF Fresh, CountedObj, Sound, SoundAt
<1>4. \A c \in Servers : ~Current(c)
  BY <1>2, <1>3, NewFacts DEF Current, Rendered
<1>5. Highest /\ Held /\ Overruled
  BY <1>2 DEF Highest, Held, Overruled, MidPCs
<1>6. seen = obj
  BY <1>1 DEF Init
<1>7. Counted
  BY <1>2, <1>3, <1>6, NewFacts DEF Counted, MidPCs
<1>8. Trails
  BY <1>2, <1>6, NewFacts DEF Trails, Trail, Fresh
<1>9. Match /\ Queued /\ Shadowed
  BY <1>3, <1>4 DEF Match, Good, Queued, Shadowed, ClaimsSynced
<1> QED
  BY <1>5, <1>7, <1>8, <1>9 DEF TrueInv

LEMMA TrueStep ==
  ASSUME SafeInv, TrueInv, Next
  PROVE  TrueInv'
<1>1. /\ TypeOK /\ Grown /\ Paths /\ Life /\ Highest /\ Counted /\ Trails /\ Held /\ Match /\ Overruled /\ Shadowed
      /\ Queued /\ Kind
  BY Kinds DEF SafeInv, TrueInv
<1> QED
  BY <1>1, HighestStep, CountedStep, TrailsStep, HeldStep, MatchStep, OverruledStep, ShadowedStep, QueuedStep
     DEF TrueInv

LEMMA TrueStutter ==
  ASSUME TrueInv, UNCHANGED vars
  PROVE  TrueInv'
BY DEF TrueInv, vars, Highest, Counted, CountedObj, Sound, Trails, Held, Match, Good, Overruled, Shadowed, Queued,
       Current, TopLive, Rendered, ClaimsSynced, RowOf

\* The status tells the truth, however old the copies are that reconciles start
\* from: when nothing is left to do, a resource that says Synced, and is not known
\* to be misled, has its own current spec, rendered with the current Secret, in
\* every row it names.
THEOREM SyncedHonest == Spec => []HonestSynced
<1>1. SafeInv /\ TrueInv /\ [Next]_vars => TrueInv'
  BY TrueStep, TrueStutter
<1>2. ASSUME SafeInv, TrueInv PROVE HonestSynced
  <2>1. SUFFICES ASSUME NEW c \in Servers, AtRest, conn = "Synced", ClaimsSynced(c), c \notin misled
                 PROVE  Serves(c)
    BY DEF HonestSynced
  <2>2. TypeOK /\ Paths /\ Life /\ Told /\ Match /\ Queued /\ c # 0 /\ cur = 0 /\ q = {} /\ seen = obj
    BY <1>2, <2>1, Bounds DEF SafeInv, TrueInv, AtRest
  <2>3. Current(c)
    BY <2>1, <2>2 DEF Queued
  <2>4. TopLive(c)
    BY <2>1, <2>2, Bounds DEF TopLive, ClaimsSynced, Told
  <2> QED
    BY <2>1, <2>2, <2>3, <2>4 DEF Match, Good, Serves, Current
<1> QED
  BY SafeAlways, TrueInit, <1>1, <1>2, PTL DEF Spec
=============================================================================
