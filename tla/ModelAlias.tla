----------------------------- MODULE ModelAlias -----------------------------
(***************************************************************************)
(* The LiteLLMModelAlias reconciler,                                        *)
(* internal/controller/modelalias_controller.go and                         *)
(* modelalias_aggregate.go.  Every resource declares entries of one map,    *)
(* router_settings.model_group_alias, and every event leads to one key: the *)
(* reconcile lists all resources, merges them, writes the map as a whole    *)
(* into settings it read before, tells each resource which of its entries   *)
(* hold, and only then lets the deleted ones go.                            *)
(*                                                                         *)
(* Each call to the API server or to LiteLLM is a step.  Reads go to the    *)
(* informer, whose copy of a resource may be older than the resource.       *)
(***************************************************************************)
EXTENDS Naturals

CONSTANTS CRs,        \* the resources, by their place in (namespace, name) order
          Aliases,    \* alias names
          MaxUpsets   \* bound: changes from outside, failed calls and restarts

\* There are finitely many resources, so of any of them one is the last.
ASSUME ModelAliasAssumption ==
  /\ CRs \subseteq Nat
  /\ \A S \in SUBSET CRs : S # {} => \E c \in S : \A d \in S : d <= c
  /\ MaxUpsets \in Nat

VARIABLES
  obj,       \* the resources in the API server
  seen,      \* the informer's copy of each
  pc,        \* where the reconcile in progress is
  list,      \* its copy of the resources
  todo,      \* those its loop has still to handle
  got,       \* the unrelated router settings it read
  why,       \* the reason it is about to broadcast
  queued,    \* the one key waits for the worker
  timer,     \* a RequeueAfter is pending
  conn,      \* reason of the connection snapshot
  router,    \* LiteLLM's router settings (external)
  meddled,   \* somebody else wrote the map since the operator last did
  latest,    \* the unrelated settings as somebody else last left them
  raced,     \* ... which happened between a reconcile's read and its write
  upsets     \* how many so far

wkVars == <<pc, list, todo, got, why>>
runVars == <<wkVars, queued, timer>>
ghosts == <<meddled, latest, raced>>
vars == <<obj, seen, runVars, conn, router, ghosts, upsets>>

Gens == 0 .. MaxUpsets + 1
Reasons == {"none", "Synced", "PartialAliasConflict", "LiteLLMUnavailable", "LiteLLMRejected"}

\* gen counts on when a resource is created again, born is where it began and
\* stands for the uid; names are the aliases of its entries, whose values are
\* told apart by gen; ready and cobs are its Ready condition, applied the
\* entries status.aliasStatuses marks as applied.
Objs == [phase : {"absent", "live", "deleting"}, fin : BOOLEAN, born : Gens, gen : Gens,
         names : SUBSET Aliases, ready : Reasons, cobs : Gens, applied : SUBSET Aliases]

\* An entry of the map: nothing, somebody else's, or a resource's at a generation.
Nothing == [by |-> "nobody", cr |-> 0, gen |-> 0]
Foreign == [by |-> "other", cr |-> 0, gen |-> 0]
Entry(c, g) == [by |-> "operator", cr |-> c, gen |-> g]
Slots == {Nothing, Foreign} \cup {Entry(c, g) : c \in CRs, g \in Gens}

Absent == [phase |-> "absent", fin |-> FALSE, born |-> 0, gen |-> 0, names |-> {},
           ready |-> "none", cobs |-> 0, applied |-> {}]
Created(g, n) == [phase |-> "live", fin |-> FALSE, born |-> g, gen |-> g, names |-> n,
                  ready |-> "none", cobs |-> 0, applied |-> {}]
NoList == [c \in CRs |-> Absent]

TypeOK ==
  /\ obj \in [CRs -> Objs] /\ seen \in [CRs -> Objs] /\ list \in [CRs -> Objs]
  /\ pc \in {"idle", "finalizers", "read", "post", "statuses", "strip", "broadcast"}
  /\ todo \subseteq IF pc = "strip" THEN {c \in CRs : list[c].phase = "deleting"} ELSE CRs
  /\ got \in Gens /\ latest \in Gens
  /\ why \in Reasons
  /\ queued \in BOOLEAN /\ timer \in BOOLEAN /\ meddled \in BOOLEAN /\ raced \in BOOLEAN
  /\ conn \in {"Synced", "Unreachable", "BadMasterKey", "Absent"}
  /\ router \in [alias : [Aliases -> Slots], extra : Gens]
  /\ upsets \in 0 .. MaxUpsets

Init ==
  /\ obj = NoList /\ seen = NoList
  /\ pc = "idle" /\ list = NoList /\ todo = {} /\ got = 0 /\ why = "none"
  /\ queued = TRUE /\ timer = FALSE
  /\ conn = "Synced"
  /\ router = [alias |-> [a \in Aliases |-> Nothing], extra |-> 0]
  /\ meddled = FALSE /\ latest = 0 /\ raced = FALSE
  /\ upsets = 0

-----------------------------------------------------------------------------
(* The merged map.                                                         *)

\* filterAliveAliases.
Alive(l) == {c \in CRs : l[c].phase = "live"}

\* AggregateModelAliases: in (namespace, name) order each entry overwrites
\* what was there, so the last resource that declares an alias has it; names
\* are unique within a resource.
Claim(l, a) == {c \in Alive(l) : a \in l[c].names}
Winner(l, a) == CHOOSE c \in Claim(l, a) : \A d \in Claim(l, a) : d <= c

\* Wrong variant of Desired: a resource being deleted still counts.
DesiredAll(l) ==
  [a \in Aliases |->
     LET all == {c \in CRs : a \in l[c].names}
         w == CHOOSE c \in all : \A d \in all : d <= c
     IN IF all = {} THEN Nothing ELSE Entry(w, l[w].gen)]

Desired(l) == [a \in Aliases |-> IF Claim(l, a) = {} THEN Nothing
                                 ELSE Entry(Winner(l, a), l[Winner(l, a)].gen)]

\* ResolveCR: the entries of c that won their slot.
ResolveCR(l, c) == {a \in l[c].names : Winner(l, a) = c}

-----------------------------------------------------------------------------
(* The worker.                                                             *)

Upset == upsets < MaxUpsets /\ upsets' = upsets + 1

\* Return; again: with an error or Requeue; else after RequeueAfter.
Return(again) ==
  /\ pc' = "idle" /\ list' = NoList /\ todo' = {} /\ got' = 0 /\ why' = "none"
  /\ queued' = (queued \/ again)
  /\ timer' = (timer \/ ~again)

Fail == Upset /\ Return(TRUE)

\* The loop goes on with the rest, or the next begins over some resources.
Handled(c) == todo' = todo \ {c} /\ UNCHANGED <<pc, got, why, queued, timer>>
NextLoop(p, over) == pc' = p /\ todo' = over /\ UNCHANGED <<list, queued, timer>>

List ==
  /\ pc = "idle" /\ queued
  /\ queued' = FALSE /\ pc' = "finalizers" /\ list' = seen
  /\ todo' = {c \in Alive(seen) : ~seen[c].fin}
  /\ UNCHANGED <<obj, seen, got, why, timer, conn, router, ghosts, upsets>>

\* A resource gets its finalizer before its entries count.  A conflict starts
\* over, another error is returned.
AddFinalizer(c) ==
  /\ pc = "finalizers" /\ c \in todo
  /\ \/ /\ obj[c] = list[c]
        /\ obj' = [obj EXCEPT ![c].fin = TRUE] /\ list' = [list EXCEPT ![c].fin = TRUE]
        /\ Handled(c) /\ UNCHANGED upsets
     \/ obj[c] # list[c] /\ Return(TRUE) /\ UNCHANGED <<obj, upsets>>
     \/ Fail /\ UNCHANGED obj
  /\ UNCHANGED <<seen, conn, router, ghosts>>

\* Wrong variant of Broadcast: nobody is told.
BroadcastSilently(reason) == why' = reason /\ NextLoop("broadcast", {}) /\ UNCHANGED got

\* broadcastNotReady is about to tell every live resource of the list.
Broadcast(reason) == why' = reason /\ NextLoop("broadcast", Alive(list)) /\ UNCHANGED got

Gate ==
  /\ pc = "finalizers" /\ todo = {}
  /\ IF conn = "Synced" THEN NextLoop("read", {}) /\ UNCHANGED <<got, why>>
                        ELSE Broadcast("LiteLLMUnavailable")
  /\ UNCHANGED <<obj, seen, conn, router, ghosts, upsets>>

\* modelAliasErrorReason, of a call that was refused or got no answer.
Refused(o) ==
  /\ Upset
  /\ Broadcast(IF o = "4xx" THEN "LiteLLMRejected" ELSE "LiteLLMUnavailable")
  /\ conn' = IF o = "401" /\ conn = "Synced" THEN "BadMasterKey" ELSE conn

\* GET /get/config/callbacks.
ReadSettings ==
  /\ pc = "read"
  /\ \/ /\ got' = router.extra
        /\ NextLoop("post", {}) /\ UNCHANGED <<why, conn, upsets>>
     \/ \E o \in {"401", "4xx", "down"} : Refused(o)
  /\ UNCHANGED <<obj, seen, router, ghosts>>

\* The body of POST /config/update.
\* Wrong variant of Settings: only the map is sent.
SettingsAliasOnly == [alias |-> Desired(list), extra |-> 0]

Settings == [alias |-> Desired(list), extra |-> got]

Written == router' = Settings /\ meddled' = FALSE

\* POST /config/update: applied and answered, refused, never arrived, or
\* applied without an answer.
PostSettings ==
  /\ pc = "post"
  /\ \/ /\ Written
        /\ NextLoop("statuses", Alive(list)) /\ UNCHANGED <<got, why, conn, upsets>>
     \/ Written /\ Refused("lost")
     \/ (\E o \in {"401", "4xx", "down"} : Refused(o)) /\ UNCHANGED <<router, meddled>>
  /\ UNCHANGED <<obj, seen, latest, raced>>

\* applyStatus: condition r and rows over a fresh copy, the informer's; the
\* update conflicts until that has caught up, and no resource means no write.
ApplyStatus(c, r, rows) ==
  \/ /\ seen[c].phase = "absent"
     /\ Handled(c) /\ UNCHANGED <<obj, list, upsets>>
  \/ /\ seen[c].phase # "absent" /\ seen[c] = obj[c]
     /\ obj' = [obj EXCEPT ![c].ready = r, ![c].cobs = list[c].gen, ![c].applied = rows]
     /\ Handled(c) /\ UNCHANGED <<list, upsets>>
  \/ /\ seen[c].phase # "absent" /\ seen[c] # obj[c]
     /\ Return(TRUE) /\ UNCHANGED <<obj, upsets>>
  \/ Fail /\ UNCHANGED obj

\* broadcastNotReady: the rows are left as they are.
TellNotReady(c) ==
  /\ pc = "broadcast" /\ c \in todo
  /\ ApplyStatus(c, why, seen[c].applied)
  /\ UNCHANGED <<seen, conn, router, ghosts>>

\* Wrong variant of EndBroadcast: nothing comes back before the next event.
EndBroadcastAsleep ==
  /\ pc = "broadcast" /\ todo = {}
  /\ pc' = "idle" /\ list' = NoList /\ got' = 0 /\ why' = "none"
  /\ UNCHANGED <<obj, seen, todo, queued, timer, conn, router, ghosts, upsets>>

EndBroadcast ==
  /\ pc = "broadcast" /\ todo = {}
  /\ Return(FALSE)
  /\ UNCHANGED <<obj, seen, conn, router, ghosts, upsets>>

\* The verdict on each live resource of the list, from the map just written.
WritePerCRStatuses(c) ==
  /\ pc = "statuses" /\ c \in todo
  /\ LET rows == ResolveCR(list, c) IN
     ApplyStatus(c, IF rows = list[c].names THEN "Synced" ELSE "PartialAliasConflict", rows)
  /\ UNCHANGED <<seen, conn, router, ghosts>>

Deleting(l) == {c \in CRs : l[c].phase = "deleting" /\ l[c].fin}

EndStatuses ==
  /\ pc = "statuses" /\ todo = {}
  /\ NextLoop("strip", Deleting(list)) /\ UNCHANGED <<got, why>>
  /\ UNCHANGED <<obj, seen, conn, router, ghosts, upsets>>

\* stripDeletingFinalizers: the last finalizer takes the object with it; a
\* conflict or a missing object is passed over.
StripFinalizer(c) ==
  /\ pc = "strip" /\ c \in todo
  /\ \/ /\ obj' = IF obj[c] = list[c] THEN [obj EXCEPT ![c].phase = "absent", ![c].fin = FALSE]
                  ELSE obj
        /\ Handled(c) /\ UNCHANGED <<list, upsets>>
     \/ Fail /\ UNCHANGED obj
  /\ UNCHANGED <<seen, conn, router, ghosts>>

EndStrip ==
  /\ pc = "strip" /\ todo = {}
  /\ Return(FALSE)
  /\ UNCHANGED <<obj, seen, conn, router, ghosts, upsets>>

\* An error of the List itself.
ListFails ==
  /\ pc = "idle" /\ queued
  /\ Fail
  /\ UNCHANGED <<obj, seen, conn, router, ghosts>>

Loops(c) == AddFinalizer(c) \/ TellNotReady(c) \/ WritePerCRStatuses(c) \/ StripFinalizer(c)
Reconcile == \/ List \/ ListFails \/ Gate \/ ReadSettings \/ PostSettings
             \/ EndBroadcast \/ EndStatuses \/ EndStrip \/ \E c \in CRs : Loops(c)

-----------------------------------------------------------------------------
(* The queue and the world outside.                                        *)

\* The informer catches up on c; every event leads to the one key.
Sync(c) ==
  /\ seen[c] # obj[c]
  /\ seen' = [seen EXCEPT ![c] = obj[c]] /\ queued' = TRUE
  /\ UNCHANGED <<obj, wkVars, timer, conn, router, ghosts, upsets>>

Tick ==
  /\ timer /\ timer' = FALSE /\ queued' = TRUE
  /\ UNCHANGED <<obj, seen, wkVars, conn, router, ghosts, upsets>>

\* A user, or a Discovery, writes, edits or deletes a resource.
ApplyCR(c) ==
  /\ Upset
  /\ obj[c].phase # "deleting"
  /\ \E n \in (SUBSET Aliases) \ {{}} :
       obj' = [obj EXCEPT ![c] =
                 IF obj[c].phase = "live"
                   THEN [obj[c] EXCEPT !.names = n, !.gen = obj[c].gen + 1]
                   ELSE Created(obj[c].gen + 1, n)]
  /\ UNCHANGED <<seen, runVars, conn, router, ghosts>>

DeleteCR(c) ==
  /\ Upset
  /\ obj[c].phase = "live"
  /\ obj' = [obj EXCEPT ![c].phase = IF obj[c].fin THEN "deleting" ELSE "absent"]
  /\ UNCHANGED <<seen, runVars, conn, router, ghosts>>

\* Somebody edits the map in LiteLLM, or another router setting.
EditMap ==
  /\ Upset
  /\ \E a \in Aliases, s \in {Nothing, Foreign} : router' = [router EXCEPT !.alias[a] = s]
  /\ meddled' = TRUE
  /\ UNCHANGED <<obj, seen, runVars, conn, latest, raced>>

EditOther ==
  /\ Upset
  /\ router' = [router EXCEPT !.extra = upsets + 1] /\ latest' = upsets + 1
  /\ raced' = (raced \/ pc = "post")
  /\ UNCHANGED <<obj, seen, runVars, conn, meddled>>

ConnDown ==
  /\ Upset
  /\ conn = "Synced" /\ conn' \in {"Unreachable", "Absent"}
  /\ UNCHANGED <<obj, seen, runVars, router, ghosts>>

\* The connection is back: connectionToSingleton.
ConnUp ==
  /\ conn \in {"Unreachable", "BadMasterKey"}
  /\ conn' = "Synced" /\ queued' = TRUE
  /\ UNCHANGED <<obj, seen, wkVars, timer, router, ghosts, upsets>>

\* The operator restarts: informers list anew, the connection is probed anew.
Crash ==
  /\ Upset
  /\ pc' = "idle" /\ list' = NoList /\ todo' = {} /\ got' = 0 /\ why' = "none"
  /\ seen' = obj
  /\ queued' = (Alive(obj) \cup Deleting(obj) # {}) /\ timer' = FALSE
  /\ conn' = IF conn = "Absent" THEN conn ELSE "Unreachable"
  /\ UNCHANGED <<obj, router, ghosts>>

Outside == \/ \E c \in CRs : ApplyCR(c) \/ DeleteCR(c)
           \/ EditMap \/ EditOther \/ ConnDown \/ ConnUp \/ Crash

Next == Reconcile \/ Tick \/ (\E c \in CRs : Sync(c)) \/ Outside

Spec == Init /\ [][Next]_vars

\* The worker goes on while it has work, watches deliver, delays end, the
\* connection recovers (module Connection).
Fairness == /\ WF_vars(Reconcile) /\ WF_vars(Tick) /\ WF_vars(ConnUp)
            /\ \A c \in CRs : WF_vars(Sync(c))
FairSpec == Spec /\ Fairness

-----------------------------------------------------------------------------
(* Properties.                                                             *)

\* MALIAS-03: every entry the operator wrote belongs to a resource that still
\* exists, under the same uid.  A resource goes only after a map without its
\* entries was applied; no stale list, lost answer, retry, restart or
\* recreation under the same name leaves an entry nobody owns.
NoOrphanEntry ==
  \A a \in Aliases : LET e == router.alias[a] IN
    e.by = "operator" => obj[e.cr].phase # "absent" /\ e.gen >= obj[e.cr].born

AtRest == pc = "idle" /\ ~queued /\ seen = obj

\* At rest every live resource has the verdict on its current spec, and one
\* that says Synced or PartialAliasConflict names exactly the entries the
\* map holds for it: a pass that fails half way never leaves one resource
\* with the verdict of another pass.
HonestStatus ==
  AtRest => \A c \in Alive(obj) :
    /\ obj[c].cobs = obj[c].gen
    /\ obj[c].ready \in {"Synced", "PartialAliasConflict"} /\ ~meddled =>
         /\ obj[c].applied = {a \in obj[c].names : router.alias[a] = Entry(c, obj[c].gen)}
         /\ obj[c].ready = "Synced" <=> obj[c].applied = obj[c].names

\* Unrelated router settings survive every rewrite of the map, but for an edit
\* that lands between the read and the write.
UnrelatedSurvive == raced \/ router.extra = latest

\* Unless the connection is gone for good, LiteLLM ends up with exactly the
\* merged map, also after somebody edited it by hand, the deleted resources
\* go, and each live one knows.
Converges ==
  <>[](conn # "Absent") =>
    <>[](/\ router.alias = Desired(obj)
         /\ \A c \in CRs : obj[c].phase # "deleting"
         /\ \A c \in Alive(obj) :
              obj[c].ready = IF \A a \in obj[c].names : Winner(obj, a) = c
                               THEN "Synced" ELSE "PartialAliasConflict")
=============================================================================
