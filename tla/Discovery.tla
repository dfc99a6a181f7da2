----------------------------- MODULE Discovery -----------------------------
(***************************************************************************)
(* What the LiteLLMModelDiscovery and LiteLLMMCPServerDiscovery reconcilers *)
(* have in common: the Discovery object's life, the children in the API     *)
(* server and the informer's older view of both, the drain on deletion, the *)
(* vanish-delete, and what users, the garbage collector and the children's  *)
(* own reconciler do meanwhile.  Modules ModelDiscovery and                 *)
(* MCPServerDiscovery add the source, the ownership check and the writes.   *)
(*                                                                         *)
(* One worker serves the queue.  Every call to the API server is a step.    *)
(* A resource version is what a precondition tells apart: whether the copy  *)
(* read is still the live one.  Both kinds of object are read from the      *)
(* informers' copies, which may be older than the live object at any time.  *)
(***************************************************************************)
EXTENDS Naturals, FiniteSets

CONSTANTS Discoveries,  \* names of Discovery objects
          Names,        \* names of children
          UserSpec,     \* the spec of a child a user wrote or edited
          Changing,     \* bound: Discoveries that users edit, delete or recreate, and
                        \* whose reconciles meet failed calls and old copies
          MaxUpsets     \* bound: changes from outside, failed calls, restarts, and
                        \* reconciles that start from an old copy

ASSUME DiscoveryAssumption ==
  /\ Changing \subseteq Discoveries /\ "none" \notin Discoveries
  /\ MaxUpsets \in Nat

VARIABLES
  md,        \* the Discovery objects in the API server
  mdSeen,    \* the informer's copy of them, without its status
  mdBehind,  \* Discoveries whose copy is not the live version
  dropped,   \* ghost: whose last status write did not happen, and no event follows
  child,     \* the generated and hand-written children in the API server
  seen,      \* the informer's copy of them
  behind,    \* children whose copy is not the live version
  news,      \* ... by a change that ownedChildSpecChanged lets through
  queue,     \* Discoveries waiting for the worker
  timer,     \* pending RequeueAfter of each Discovery
  w,         \* the reconcile in progress
  upsets     \* how many so far

mdVars    == <<md, mdSeen, mdBehind, dropped>>
childVars == <<child, seen, behind, news>>
runVars   == <<queue, timer, w>>
coreVars  == <<mdVars, childVars, runVars, upsets>>

\* Objects.  A uid counts the creations under one name; fin is the finalizer,
\* obs status.observedGeneration, ready the reason of the Ready condition.
Absent(u) == [st |-> "absent", uid |-> u, fin |-> FALSE, gen |-> 0, obs |-> 0, ready |-> "none"]
Created(u) == [Absent(u) EXCEPT !.st = "live", !.gen = 1]

\* What a reconcile takes from an old copy: it can store none of its writes, so
\* the status it read makes no difference.
Bare(m) == [m EXCEPT !.obs = 0, !.ready = "none"]

\* A child's controller reference, its generated-by label, its spec.
User == <<"user", 0>>
Nobody == <<"nobody", 0>>
NoChild == [owner |-> Nobody, label |-> "none", dying |-> FALSE, spec |-> UserSpec]

Reasons == {"none", "Syncing", "Synced", "ChildCRWriteFailed", "AliasWriteFailed",
            "SourceUnreachable", "SecretNotFound", "InvalidConfig", "UpstreamInvalid", "Deleting"}
Uids == 0 .. MaxUpsets + 1
Gens == 0 .. MaxUpsets + 1
MDs == [st : {"absent", "live", "deleting"}, uid : Uids, fin : BOOLEAN,
        gen : Gens, obs : Gens, ready : Reasons]
Owners == (Discoveries \X Uids) \cup {User, Nobody}
Outcomes == {"none", "generated", "skipped", "failed", "pending", "blocked"}

\* The worker's reconcile: d, its copy m of the Discovery and whether that is
\* the live version; the candidates kept, those still to write, what became
\* of each; names passed over for cause; the children the listing showed as
\* its own and those of the listing still live; the candidate n between check and write, as found.
Idle == [pc |-> "idle", d |-> "none", m |-> Absent(0), cur |-> FALSE, kept |-> {}, todo |-> {},
         out |-> [n \in Names |-> "none"], mine |-> {}, fresh |-> {}, spare |-> {},
         n |-> "none", found |-> "none", live |-> FALSE, soon |-> FALSE]

CoreTypeOK ==
  /\ md \in [Discoveries -> MDs] /\ \A d \in Discoveries : md[d].obs <= md[d].gen
  /\ mdSeen \in [Discoveries -> MDs]
  /\ mdBehind \subseteq Discoveries /\ dropped \subseteq Discoveries
  /\ news \subseteq behind /\ behind \subseteq Names
  /\ \A n \in Names : /\ {child[n].owner, seen[n].owner} \subseteq Owners
                      /\ {child[n].label, seen[n].label} \subseteq Discoveries \cup {"none"}
                      /\ {child[n].dying, seen[n].dying} \subseteq BOOLEAN
  /\ queue \subseteq Discoveries
  /\ timer \in [Discoveries -> {"none", "soon", "refresh"}]
  /\ w.pc \in {"idle", "drain", "source", "write", "apply", "finish"}
  /\ w.d \in Discoveries \cup {"none"} /\ w.m \in MDs
  /\ w.kept \subseteq Names /\ w.todo \subseteq Names /\ w.mine \subseteq Names
  /\ w.fresh \subseteq Names /\ w.spare \subseteq Names /\ w.n \in Names \cup {"none"}
  /\ w.out \in [Names -> Outcomes] /\ w.found \in {"none", "absent", "mine"}
  /\ {w.cur, w.live, w.soon} \subseteq BOOLEAN
  /\ upsets \in 0 .. MaxUpsets

CoreInit ==
  /\ md = [d \in Discoveries |-> Created(1)] /\ mdSeen = md
  /\ mdBehind = {} /\ dropped = {}
  /\ child = [n \in Names |-> NoChild] /\ seen = child
  /\ behind = {} /\ news = {}
  /\ queue = Discoveries /\ timer = [d \in Discoveries |-> "none"] /\ w = Idle
  /\ upsets = 0

-----------------------------------------------------------------------------
(* The API server (external) and the worker's bookkeeping.                 *)

\* A call fails, the operator restarts, or something changes from outside.
Upset == upsets < MaxUpsets /\ upsets' = upsets + 1

\* A call of the reconcile in progress fails.
Fault == Upset /\ w.d \in Changing

\* A copy of child n read before is not the live version any more.
Disturb(x, n) == [x EXCEPT !.fresh = @ \ {n}, !.live = @ /\ x.n # n]

\* Child n becomes c; told: in a way that changes its generation, or exists
\* only before or after.  The informer is told unless nothing changed.
Store(n, c, told) ==
  /\ child' = [child EXCEPT ![n] = c]
  /\ behind' = IF c = child[n] THEN behind ELSE behind \cup {n}
  /\ news' = IF told /\ c # child[n] THEN news \cup {n} ELSE news
  /\ UNCHANGED seen

\* DELETE: the finalizer keeps the object until its reconciler is done.
Delete(n) == Store(n, IF child[n] = NoChild THEN NoChild ELSE [child[n] EXCEPT !.dying = TRUE], TRUE)

\* What discoverySpecChanged lets through: creation, deletion, a generation.
\* Status, finalizer and other metadata are filtered out.
SpecOf(m) == <<m.st, m.uid, m.gen>>
News(d) == SpecOf(mdSeen[d]) # SpecOf(md[d])

\* Status().Update of the worker's copy, a new version if it is stored: the
\* time or the message in it differs.  An old copy is refused.
Stamp(reason) ==
  /\ md' = IF w.cur THEN [md EXCEPT ![w.d].ready = reason, ![w.d].obs = w.m.gen] ELSE md
  /\ mdBehind' = IF w.cur THEN mdBehind \cup {w.d} ELSE mdBehind
  /\ UNCHANGED mdSeen

\* A status write fails for another reason than a conflict.
LoseStamp == Fault /\ UNCHANGED <<md, mdSeen, mdBehind>>

\* writeReady, writeBothConditions: a write refused or lost is logged, not retried.
WriteReady(reason) ==
  /\ \/ Stamp(reason) /\ UNCHANGED upsets
     \/ LoseStamp
  /\ UNCHANGED dropped

\* A refused write, after which nothing is requeued, is followed by an event
\* only if the version that refused it changed the spec.
Forget ==
  dropped' = IF w.cur \/ SpecOf(w.m) # SpecOf(md[w.d]) THEN dropped ELSE dropped \cup {w.d}

\* An added delay never postpones an earlier one.
Sooner(s, t) == IF "soon" \in {s, t} THEN "soon" ELSE IF "refresh" \in {s, t} THEN "refresh" ELSE "none"

\* The reconcile returns: with an error or Requeue, and with RequeueAfter t.
Return(again, t) ==
  /\ w' = Idle
  /\ queue' = IF again THEN queue \cup {w.d} ELSE queue
  /\ timer' = [timer EXCEPT ![w.d] = Sooner(@, t)]

\* writeReady and nothing more: the spec has to be edited.
Park(reason) ==
  /\ \/ Stamp(reason) /\ Forget /\ UNCHANGED upsets
     \/ LoseStamp /\ dropped' = dropped \cup {w.d}
  /\ Return(FALSE, "none")

-----------------------------------------------------------------------------
(* Reconcile: deletion, finalizer, the Syncing mark.                       *)

Labelled(d) == {n \in Names : seen[n].label = d}

\* The cached Get of d: the informer has told of every change of the spec and
\* shows the live version, or it shows an old one.
Get(d, cur) ==
  /\ w.pc = "idle" /\ d \in queue
  /\ IF cur THEN ~News(d) /\ UNCHANGED upsets ELSE d \in mdBehind \cap Changing /\ Upset
Copy(d, cur) == IF cur THEN md[d] ELSE mdSeen[d]

\* The copy is written back as m right away: refused if it is old.
PutMD(d, cur, m) ==
  /\ md' = IF cur THEN [md EXCEPT ![d] = m] ELSE md
  /\ mdSeen' = IF cur THEN [mdSeen EXCEPT ![d] = Bare(md[d])] ELSE mdSeen
  /\ mdBehind' = IF ~cur THEN mdBehind ELSE IF m = md[d] THEN mdBehind \ {d} ELSE mdBehind \cup {d}
  /\ dropped' = dropped \ {d}

Start(d, pc, todo, m, cur) ==
  [Idle EXCEPT !.pc = pc, !.d = d, !.m = m, !.cur = cur, !.todo = todo]

\* Not found, or being deleted with our finalizer gone.
Ignore(d, cur) ==
  /\ Get(d, cur)
  /\ LET m == Copy(d, cur) IN m.st = "absent" \/ (m.st = "deleting" /\ ~m.fin)
  /\ queue' = queue \ {d}
  /\ PutMD(d, cur, md[d])
  /\ UNCHANGED <<childVars, timer, w>>

\* The finalizer is added; requeued whether or not the write is refused.
AddFinalizer(d, cur) ==
  /\ Get(d, cur)
  /\ Copy(d, cur).st = "live" /\ ~Copy(d, cur).fin
  /\ PutMD(d, cur, [md[d] EXCEPT !.fin = TRUE])
  /\ UNCHANGED <<childVars, runVars>>

\* Deleting and no labelled child in sight: the finalizer goes, and with it
\* the object; a refused write is retried.
DropFinalizer(d, cur) ==
  /\ Get(d, cur)
  /\ Copy(d, cur).st = "deleting" /\ Copy(d, cur).fin /\ Labelled(d) = {}
  /\ PutMD(d, cur, Absent(md[d].uid))
  /\ queue' = IF cur THEN queue \ {d} ELSE queue
  /\ UNCHANGED <<childVars, timer, w>>

\* Deleting with children left: each that is not dying is deleted by name.
StartDrain(d, cur) ==
  /\ Get(d, cur)
  /\ Copy(d, cur).st = "deleting" /\ Copy(d, cur).fin /\ Labelled(d) # {}
  /\ queue' = queue \ {d}
  /\ w' = Start(d, "drain", {n \in Labelled(d) : ~seen[n].dying}, Copy(d, cur), cur)
  /\ PutMD(d, cur, md[d])
  /\ UNCHANGED <<childVars, timer>>

DrainDelete ==
  /\ w.pc = "drain"
  /\ \E n \in w.todo :
       \/ /\ Delete(n)
          /\ w' = [w EXCEPT !.todo = @ \ {n}]
          /\ UNCHANGED <<queue, timer, upsets>>
       \/ /\ Fault
          /\ Return(TRUE, "none")
          /\ UNCHANGED childVars
  /\ UNCHANGED mdVars

\* Ready=False/Deleting once, and another look in five seconds.
DrainWait ==
  /\ w.pc = "drain" /\ w.todo = {}
  /\ IF w.m.ready = "Deleting" THEN UNCHANGED <<mdVars, upsets>> ELSE WriteReady("Deleting")
  /\ Return(FALSE, "soon")
  /\ UNCHANGED childVars

\* A new or edited Discovery is marked Syncing before the source is asked, at
\* least in the worker's copy: a write refused or lost is only logged.
Unmarked(m) == (m.ready = "none" \/ m.obs # m.gen) /\ m.ready # "Syncing"
Marked(m) == IF Unmarked(m) THEN [m EXCEPT !.ready = "Syncing", !.obs = m.gen] ELSE m

StartSync(d, cur) ==
  /\ Get(d, cur)
  /\ LET m == Copy(d, cur) IN
     /\ m.st = "live" /\ m.fin
     /\ w' = Start(d, "source", {}, Marked(m), cur)
     /\ PutMD(d, cur, Marked(md[d]))
  /\ queue' = queue \ {d}
  /\ UNCHANGED <<childVars, timer>>

\* The same, and the mark is lost.
StartUnmarked(d) ==
  /\ w.pc = "idle" /\ d \in queue /\ ~News(d) /\ d \in Changing /\ Upset
  /\ md[d].st = "live" /\ md[d].fin /\ Unmarked(md[d])
  /\ w' = Start(d, "source", {}, Marked(md[d]), TRUE)
  /\ PutMD(d, TRUE, md[d])
  /\ queue' = queue \ {d}
  /\ UNCHANGED <<childVars, timer>>

-----------------------------------------------------------------------------
(* Reconcile: listing the children, and deleting the ones that vanished.    *)

Me == <<w.d, w.m.uid>>

\* The candidates to write and names passed over for cause, against the
\* children labelled with this Discovery: those it does not own are adopted.
Enumerated(wanted, passed) ==
  LET adopted == {n \in Labelled(w.d) : seen[n].owner # Me}
  IN [w EXCEPT !.pc = "write", !.kept = wanted \cup passed, !.todo = wanted \ adopted, !.spare = passed,
               !.out = [n \in Names |-> IF n \in adopted THEN "skipped" ELSE "none"],
               !.mine = Labelled(w.d) \ adopted, !.fresh = Names \ behind]

\* Candidate n of the loop ends as o.
Settle(x, n, o) == [x EXCEPT !.pc = "write", !.todo = @ \ {n}, !.out[n] = o,
                             !.n = "none", !.found = "none", !.live = FALSE]

\* classifyAlreadyExists, read from the API server itself.  The two kinds
\* differ in what an object of somebody else's that is going away is.
ClassifyAlreadyExists(n, going) ==
  LET c == child[n] IN
  IF c = NoChild THEN "absent"
  ELSE IF c.owner = Me THEN "mine"
  ELSE IF c.dying THEN going ELSE "skipped"

\* One candidate up to its write.
ClassifyChild(going) ==
  /\ w.pc = "write"
  /\ \E n \in w.todo :
       LET found == ClassifyAlreadyExists(n, going) IN
       \/ /\ found \in {"skipped", "blocked"}
          /\ w' = [Settle(w, n, found) EXCEPT !.soon = @ \/ found = "blocked"]
          /\ UNCHANGED upsets
       \/ /\ found \in {"absent", "mine"}
          /\ w' = [w EXCEPT !.pc = "apply", !.n = n, !.found = found, !.live = TRUE]
          /\ UNCHANGED upsets
       \/ /\ Fault
          /\ w' = Settle(w, n, "failed")
  /\ UNCHANGED <<mdVars, childVars, queue, timer>>

\* The rendered child over what the API server has: a dying object stays so.
Applied(c, spec) == [owner |-> Me, label |-> w.d, dying |-> c.dying, spec |-> spec]

\* Wrong variant: applied over whatever version the API server has.
ApplyChildForced(spec, going, existing) ==
  /\ w.pc = "apply"
  /\ LET n == w.n
         c == child[n] IN
     \/ /\ w.found = "mine" \/ c = NoChild \/ c.owner = User
        /\ Store(n, Applied(c, spec), c.spec # spec \/ c = NoChild)
        /\ w' = Settle(IF c = Applied(c, spec) THEN w ELSE Disturb(w, n), n, "generated")
        /\ UNCHANGED upsets
     \/ /\ w.found = "mine" /\ ~w.live
        /\ w' = [Settle(w, n, "pending") EXCEPT !.soon = TRUE]
        /\ UNCHANGED <<childVars, upsets>>
     \/ /\ w.found = "absent" /\ c # NoChild
        /\ LET again == ClassifyAlreadyExists(n, going) IN
           w' = [Settle(w, n, IF again = "mine" THEN existing ELSE again)
                   EXCEPT !.soon = @ \/ again = "blocked"]
        /\ UNCHANGED <<childVars, upsets>>
     \/ /\ Fault
        /\ w' = Settle(w, n, "failed")
        /\ UNCHANGED childVars
  /\ UNCHANGED <<mdVars, queue, timer>>

\* Server-side apply (external): over the version the check saw, refused if
\* that changed.  Without a version it creates, or merges into an object that
\* came meanwhile unless another controller owns it; or the server answers
\* that the object exists, which classifies it again.
ApplyChild(spec, going, existing) ==
  /\ w.pc = "apply"
  /\ LET n == w.n
         c == child[n] IN
     \/ /\ IF w.found = "mine" THEN w.live ELSE c = NoChild \/ c.owner = User
        /\ Store(n, Applied(c, spec), c.spec # spec \/ c = NoChild)
        /\ w' = Settle(IF c = Applied(c, spec) THEN w ELSE Disturb(w, n), n, "generated")
        /\ UNCHANGED upsets
     \/ /\ w.found = "mine" /\ ~w.live
        /\ w' = [Settle(w, n, "pending") EXCEPT !.soon = TRUE]
        /\ UNCHANGED <<childVars, upsets>>
     \/ /\ w.found = "absent" /\ c # NoChild
        /\ LET again == ClassifyAlreadyExists(n, going) IN
           w' = [Settle(w, n, IF again = "mine" THEN existing ELSE again)
                   EXCEPT !.soon = @ \/ again = "blocked"]
        /\ UNCHANGED <<childVars, upsets>>
     \/ /\ Fault
        /\ w' = Settle(w, n, "failed")
        /\ UNCHANGED childVars
  /\ UNCHANGED <<mdVars, queue, timer>>

\* Wrong variant: a name passed over for cause does not keep its child.
DoomedUnspared == {n \in w.mine : w.out[n] \notin {"generated", "skipped", "pending"}}

\* desiredSet keeps what was generated, skipped, or is to be retried.
Doomed == {n \in w.mine \ w.spare : w.out[n] \notin {"generated", "skipped", "pending"}}

\* Wrong variant: what vanished is deleted before the candidates are written.
VanishFirst ==
  /\ w.pc = "write"
  /\ \E n \in Doomed :
       LET done == [w EXCEPT !.mine = @ \ {n}] IN
       \/ /\ child[n] = NoChild \/ n \in w.fresh
          /\ Delete(n)
          /\ w' = done
          /\ UNCHANGED upsets
       \/ /\ child[n] # NoChild /\ n \notin w.fresh
          /\ w' = [done EXCEPT !.soon = TRUE]
          /\ UNCHANGED <<childVars, upsets>>
       \/ /\ Fault
          /\ w' = done
          /\ UNCHANGED childVars
  /\ UNCHANGED <<mdVars, queue, timer>>

\* Delete under the uid and resource version the listing showed.
Vanish ==
  /\ w.pc = "write" /\ w.todo = {}
  /\ \E n \in Doomed :
       LET done == [w EXCEPT !.mine = @ \ {n}] IN
       \/ /\ child[n] = NoChild \/ n \in w.fresh
          /\ Delete(n)
          /\ w' = done
          /\ UNCHANGED upsets
       \/ /\ child[n] # NoChild /\ n \notin w.fresh
          /\ w' = [done EXCEPT !.soon = TRUE]
          /\ UNCHANGED <<childVars, upsets>>
       \/ /\ Fault
          /\ w' = done
          /\ UNCHANGED childVars
  /\ UNCHANGED <<mdVars, queue, timer>>

\* What the last steps still need of the reconcile: m carries the result.
Closing(reason) == [Idle EXCEPT !.pc = "finish", !.d = w.d, !.m = [w.m EXCEPT !.ready = reason],
                                !.cur = w.cur, !.soon = w.soon]

\* Wrong variant: an error of the last status write is dropped like a conflict.
WriteStatusOnce(reason) ==
  \/ /\ Stamp(reason) /\ Forget
     /\ Return(FALSE, IF ~w.cur THEN "none" ELSE IF w.soon THEN "soon" ELSE "refresh")
     /\ UNCHANGED upsets
  \/ /\ LoseStamp
     /\ Return(FALSE, "none")
     /\ UNCHANGED dropped

\* The last status write: a conflict is dropped without a requeue, since "the
\* informer re-enqueues"; another error is retried.
WriteStatus(reason) ==
  \/ /\ Stamp(reason) /\ Forget
     /\ Return(FALSE, IF ~w.cur THEN "none" ELSE IF w.soon THEN "soon" ELSE "refresh")
     /\ UNCHANGED upsets
  \/ /\ LoseStamp
     /\ Return(TRUE, "none")
     /\ UNCHANGED dropped

Result == IF \E n \in Names : w.out[n] = "failed" THEN "ChildCRWriteFailed" ELSE "Synced"

-----------------------------------------------------------------------------
(* Informers, timers and everybody else.                                   *)

OwnersNamed(c) == {d \in Discoveries : c.owner[1] = d}

\* The informer catches up on child n; the Owns watch queues the Discovery
\* its controller reference names, before or after.
Observe(n) ==
  /\ n \in behind
  /\ seen' = [seen EXCEPT ![n] = child[n]]
  /\ behind' = behind \ {n} /\ news' = news \ {n}
  /\ queue' = IF n \in news THEN queue \cup OwnersNamed(seen[n]) \cup OwnersNamed(child[n]) ELSE queue
  /\ UNCHANGED <<mdVars, child, timer, w, upsets>>

Tick(d) ==
  /\ timer[d] # "none"
  /\ timer' = [timer EXCEPT ![d] = "none"]
  /\ queue' = queue \cup {d}
  /\ UNCHANGED <<mdVars, childVars, w, upsets>>

\* The child's reconciler ends its deletion (external).
ChildGone(n) ==
  /\ child[n].dying
  /\ Store(n, NoChild, TRUE)
  /\ w' = Disturb(w, n)
  /\ UNCHANGED <<mdVars, queue, timer, upsets>>

\* The garbage collector deletes what a vanished Discovery owned (external).
Collect(n) ==
  /\ ~child[n].dying
  /\ \E d \in OwnersNamed(child[n]) : md[d].st = "absent" \/ md[d].uid # child[n].owner[2]
  /\ Delete(n)
  /\ w' = Disturb(w, n)
  /\ UNCHANGED <<mdVars, queue, timer, upsets>>

\* A user writes an object under a child's name, adopts a child by removing
\* its controller reference, edits it or deletes it; its own reconciler
\* writes its status.
TouchChild(n) ==
  /\ Upset
  /\ LET c == child[n]
         stripped == [c EXCEPT !.owner = User]
     IN IF c = NoChild
          THEN Store(n, [NoChild EXCEPT !.owner = User], TRUE)
          ELSE \/ ~c.dying /\ Delete(n)
               \/ c.owner # User /\ Store(n, stripped, FALSE)
               \/ c.spec # UserSpec /\ Store(n, [c EXCEPT !.spec = UserSpec], TRUE)
               \/ behind' = behind \cup {n} /\ UNCHANGED <<child, seen, news>>
  /\ w' = Disturb(w, n)
  /\ UNCHANGED <<mdVars, queue, timer>>

\* The informer catches up on d by a change that queues it.  One that is
\* filtered out tells nobody: the next Get shows it or does not.
ObserveMD(d) ==
  /\ News(d)
  /\ mdSeen' = [mdSeen EXCEPT ![d] = Bare(md[d])]
  /\ mdBehind' = mdBehind \ {d}
  /\ queue' = queue \cup {d}
  /\ UNCHANGED <<md, dropped, childVars, timer, w, upsets>>

\* A user edits, deletes or recreates the Discovery, or writes metadata that
\* nobody is told of.
TouchMD(d) ==
  /\ Upset /\ d \in Changing
  /\ \/ md[d].st = "live" /\ md' = [md EXCEPT ![d].gen = @ + 1]
     \/ md[d].st = "live" /\ md' = [md EXCEPT ![d] = IF @.fin THEN [@ EXCEPT !.st = "deleting"]
                                                             ELSE Absent(@.uid)]
     \/ md[d].st = "absent" /\ md' = [md EXCEPT ![d] = Created(@.uid + 1)]
     \/ md[d].st # "absent" /\ UNCHANGED md
  /\ mdBehind' = mdBehind \cup {d}
  /\ w' = [w EXCEPT !.cur = @ /\ w.d # d]
  /\ UNCHANGED <<mdSeen, dropped, childVars, queue, timer>>

\* The operator restarts: the informers list everything anew.
Crash ==
  /\ Upset
  /\ w' = Idle
  /\ timer' = [d \in Discoveries |-> "none"]
  /\ queue' = {d \in Discoveries : md[d].st # "absent"}
  /\ mdSeen' = [d \in Discoveries |-> Bare(md[d])] /\ mdBehind' = {} /\ dropped' = {}
  /\ seen' = child /\ behind' = {} /\ news' = {}
  /\ UNCHANGED <<md, child>>

Housekeeping ==
  \/ \E d \in Discoveries : Tick(d) \/ ObserveMD(d) \/ TouchMD(d)
  \/ \E n \in Names : Observe(n) \/ ChildGone(n) \/ Collect(n) \/ TouchChild(n)

\* The worker takes d from its queue, or goes on with what it took.
Begin(d) ==
  \/ \E cur \in BOOLEAN : \/ Ignore(d, cur) \/ AddFinalizer(d, cur) \/ DropFinalizer(d, cur)
                         \/ StartDrain(d, cur) \/ StartSync(d, cur)
  \/ StartUnmarked(d)
Proceed == DrainDelete \/ DrainWait \/ Vanish

-----------------------------------------------------------------------------
(* What both reconcilers have to keep.                                     *)

\* Something will bring a Discovery back to the worker.
Attended(d) == d \in queue \/ timer[d] # "none" \/ w.d = d \/ News(d)

\* The promise of ChildOwnership: a label without a reference is an adoption.
Holder(c) == IF c = NoChild THEN Nobody
             ELSE IF c.owner # User THEN c.owner
             ELSE IF c.label = "none" THEN <<"authored", 0>> ELSE <<"adopted", 0>>

Promise == INSTANCE ChildOwnership WITH
             Parents <- Discoveries \X Uids,
             holder <- [n \in Names |-> Holder(child[n])],
             dying <- {n \in Names : child[n].dying}

\* Implements ChildOwnership: whatever a user does between the ownership
\* check and the write, an adopted child or another Discovery's is not taken
\* back while it exists (issue #141, resource-version preconditions).
KeepsPromise == Promise!Spec

\* A child whose candidate the source still lists is deleted as vanished only
\* if writing it failed: adoption, a changed version, a foreign object that
\* is going away, or a candidate passed over for cause never cost the child.
VanishSparesListed ==
  [][\A n \in Names :
       w.pc = "write" /\ ~child[n].dying /\ child'[n].dying /\ w'.mine # w.mine
         => n \notin w.kept \/ w.out[n] = "failed"]_coreVars
=============================================================================
