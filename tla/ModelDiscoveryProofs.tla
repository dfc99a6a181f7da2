------------------------ MODULE ModelDiscoveryProofs ------------------------
(***************************************************************************)
(* Machine-checked proofs about ModelDiscovery, for every set of           *)
(* Discoveries, names, filters and every bound: only a status write lost    *)
(* without an event ends the periodic refresh, the children are handed over *)
(* as ChildOwnership promises, and a vanish-delete spares what the source   *)
(* still lists.  IInv is the inductive invariant.                          *)
(***************************************************************************)
EXTENDS ModelDiscovery, TLAPS

Children == [owner : Owners, label : Discoveries \cup {"none"}, dying : BOOLEAN,
             spec : Gens \cup {UserSpec}]
Works == [pc : {"idle", "drain", "source", "write", "apply", "finish"},
          d : Discoveries \cup {"none"}, m : MDs, cur : BOOLEAN,
          kept : SUBSET Names, todo : SUBSET Names, out : [Names -> Outcomes],
          mine : SUBSET Names, fresh : SUBSET Names, spare : SUBSET Names,
          n : Names \cup {"none"}, found : {"none", "absent", "mine"},
          live : BOOLEAN, soon : BOOLEAN]

ChildTyped == /\ child \in [Names -> Children] /\ seen \in [Names -> Children]
              /\ behind \subseteq Names /\ news \subseteq behind
Typed ==
  /\ ChildTyped
  /\ md \in [Discoveries -> MDs] /\ mdSeen \in [Discoveries -> MDs]
  /\ mdBehind \subseteq Discoveries /\ dropped \subseteq Discoveries
  /\ queue \subseteq Discoveries
  /\ timer \in [Discoveries -> {"none", "soon", "refresh"}]
  /\ w \in Works
  /\ upsets \in 0 .. MaxUpsets
  /\ upstream \in [Discoveries -> SUBSET Names]

\* Generations and uids cost a change from outside; the finalizer is on what
\* is being deleted.
Counted ==
  \A d \in Discoveries :
    /\ md[d].uid \in 1 .. upsets + 1
    /\ md[d].gen <= upsets + 1
    /\ md[d].st = "deleting" => md[d].fin
    /\ mdSeen[d].uid # 0 /\ (mdSeen[d].st = "deleting" => mdSeen[d].fin)

\* Who the worker serves, and that what it writes is somebody's.
Serving ==
  /\ IF w.pc = "idle" THEN w.d = "none" ELSE w.d \in Discoveries /\ w.m.uid # 0
  /\ w.pc = "apply" => w.n \in w.todo /\ w.found # "none"

\* Only what changed since is unlike what the informer shows.
Informed == \A n \in Names : n \notin behind => seen[n] = child[n]

\* A generated object is labelled; the reference goes, the label stays.
Labels ==
  \A n \in Names : /\ child[n].owner = Nobody => child[n] = NoChild
                   /\ child[n].owner \notin {User, Nobody} => child[n].label # "none"

\* Later s than m: created anew, further on its way out, or edited.
Rank(st) == CASE st = "live" -> 0 [] st = "deleting" -> 1 [] st = "absent" -> 2
Later(s, m) == \/ s.uid > m.uid
               \/ s.uid = m.uid /\ Rank(s.st) > Rank(m.st)
               \/ s.uid = m.uid /\ s.st = m.st /\ s.gen > m.gen

\* The informer never shows a spec that is yet to come.
Trails == \A d \in Discoveries : SpecOf(mdSeen[d]) = SpecOf(md[d]) \/ Later(md[d], mdSeen[d])

\* A reconcile overtaken by a change of the spec has its Discovery back in the
\* queue, or the event on its way.
Held ==
  w.pc # "idle" =>
    /\ SpecOf(w.m) = SpecOf(md[w.d]) \/ (~w.cur /\ (w.d \in queue \/ News(w.d)))
    /\ w.pc = "source" => w.m.st = "live"

\* What the ownership check found still holds at the write, as far as the
\* version tells: one worker, so nobody else generates.
Checked ==
  w.pc = "apply" =>
    /\ w.found = "mine" /\ w.live => child[w.n].owner = Me
    /\ w.found = "absent" => child[w.n].label = "none"

\* The candidates are all accounted for, and what the listing showed as this
\* Discovery's own still is, while its version is the listed one.
Accounted ==
  w.pc \in {"write", "apply"} =>
    /\ \A n \in w.kept : n \in w.spare \/ n \in w.todo \/ w.out[n] # "none"
    /\ \A n \in w.mine \cap w.fresh : child[n].owner = Me /\ w.out[n] # "blocked"

IInv == /\ Typed /\ Counted /\ Serving /\ Informed /\ Labels
        /\ Trails /\ Held /\ RefreshPending /\ Checked /\ Accounted

-----------------------------------------------------------------------------
(* What the bookkeeping operators build.                                   *)

\* Between reconciles the worker's record is Idle.
LEMMA IdleWork ==
  /\ Idle \in Works
  /\ Idle.pc = "idle" /\ Idle.d = "none" /\ Idle.n = "none"
<1>1. Absent(0) \in MDs
  BY DiscoveryAssumption DEF Absent, MDs, Uids, Gens, Reasons
<1>2. [n \in Names |-> "none"] \in [Names -> Outcomes]
  BY DEF Outcomes
<1>3. Idle \in Works
  BY <1>1, <1>2 DEF Idle, Works
<1> QED
  BY <1>3 DEF Idle

\* Start takes a Discovery in hand with the copy it was shown.
LEMMA StartWork ==
  ASSUME NEW d \in Discoveries, NEW pc \in {"drain", "source"}, NEW todo \in SUBSET Names,
         NEW m \in MDs, NEW cur \in BOOLEAN
  PROVE  LET y == Start(d, pc, todo, m, cur)
         IN y \in Works /\ y.pc = pc /\ y.d = d /\ y.m = m /\ y.cur = cur
<1>1. Start(d, pc, todo, m, cur) \in Works
  BY IdleWork, Zenon DEF Start, Works
<1> QED
  BY <1>1, IdleWork DEF Start, Works

\* Disturb only forgets.
LEMMA DisturbWork ==
  ASSUME NEW x \in Works, NEW n \in Names
  PROVE  LET y == Disturb(x, n)
         IN /\ y \in Works
            /\ y.pc = x.pc /\ y.d = x.d /\ y.m = x.m /\ y.cur = x.cur /\ y.kept = x.kept
            /\ y.todo = x.todo /\ y.out = x.out /\ y.mine = x.mine /\ y.spare = x.spare
            /\ y.n = x.n /\ y.found = x.found /\ y.soon = x.soon
            /\ y.fresh = x.fresh \ {n}
            /\ y.live => x.live /\ x.n # n
<1>1. Disturb(x, n) \in Works
  BY Zenon DEF Disturb, Works
<1> QED
  BY <1>1 DEF Disturb, Works

\* Settle closes one candidate.
LEMMA SettleWork ==
  ASSUME NEW x \in Works, NEW n \in Names, NEW o \in Outcomes
  PROVE  LET y == Settle(x, n, o)
         IN /\ y \in Works /\ y.pc = "write"
            /\ y.d = x.d /\ y.m = x.m /\ y.cur = x.cur /\ y.kept = x.kept
            /\ y.mine = x.mine /\ y.spare = x.spare /\ y.fresh = x.fresh
            /\ y.todo = x.todo \ {n} /\ y.out = [x.out EXCEPT ![n] = o]
<1>1. [x.out EXCEPT ![n] = o] \in [Names -> Outcomes]
  BY DEF Works
<1>2. Settle(x, n, o) \in Works
  BY <1>1, Zenon DEF Settle, Works
<1> QED
  BY <1>2 DEF Settle, Works

\* The delay a reconcile will ask for is the only thing soon changes.
LEMMA SoonWork ==
  ASSUME NEW x \in Works, NEW o, NEW y,
         \/ y = x \/ y = [x EXCEPT !.soon = TRUE]
         \/ y = [x EXCEPT !.soon = @ \/ o = "blocked"]
  PROVE  /\ y \in Works /\ y.pc = x.pc
         /\ y.d = x.d /\ y.m = x.m /\ y.cur = x.cur /\ y.kept = x.kept
         /\ y.todo = x.todo /\ y.out = x.out /\ y.mine = x.mine /\ y.spare = x.spare
         /\ y.fresh = x.fresh
<1>1. y \in Works
  BY Zenon DEF Works
<1> QED
  BY <1>1 DEF Works

\* Closing keeps whose reconcile it is and whether its copy is current.
LEMMA ClosingWork ==
  ASSUME w \in Works, NEW reason \in Reasons
  PROVE  LET y == Closing(reason)
         IN /\ y \in Works /\ y.pc = "finish" /\ y.d = w.d /\ y.cur = w.cur
            /\ y.m.uid = w.m.uid /\ y.m.gen = w.m.gen /\ y.m.st = w.m.st
<1>1. [w.m EXCEPT !.ready = reason] \in MDs
  <2>1. w.m \in MDs
    BY DEF Works
  <2> QED
    BY <2>1, Zenon DEF MDs
<1>2. /\ w.d \in Discoveries \cup {"none"} /\ w.cur \in BOOLEAN /\ w.soon \in BOOLEAN
  BY Zenon DEF Works
<1>3. Closing(reason) \in Works
  BY <1>1, <1>2, IdleWork, Zenon DEF Closing, Works
<1> QED
  BY <1>1, <1>2, <1>3, IdleWork DEF Closing, Works, MDs

\* What the listing of the children and of the source leaves to do.
LEMMA EnumeratedWork ==
  ASSUME w \in Works, NEW wanted \in SUBSET Names
  PROVE  LET y == Enumerated(wanted, {})
         IN /\ y \in Works /\ y.pc = "write" /\ y.d = w.d /\ y.m = w.m /\ y.cur = w.cur
            /\ y.kept = wanted /\ y.fresh = Names \ behind
            /\ \A n \in wanted : n \in y.todo \/ y.out[n] = "skipped"
            /\ \A n \in y.mine : seen[n].owner = Me
            /\ \A n \in Names : y.out[n] # "blocked"
<1> DEFINE adopted == {n \in Labelled(w.d) : seen[n].owner # Me}
           out == [n \in Names |-> IF n \in adopted THEN "skipped" ELSE "none"]
<1>1. Labelled(w.d) \in SUBSET Names /\ adopted \in SUBSET Names
  BY DEF Labelled
<1>2. out \in [Names -> Outcomes]
  BY DEF Outcomes
<1>3. Enumerated(wanted, {}) =
        [w EXCEPT !.pc = "write", !.kept = wanted \cup {}, !.todo = wanted \ adopted, !.spare = {},
                  !.out = out, !.mine = Labelled(w.d) \ adopted, !.fresh = Names \ behind]
  BY Zenon DEF Enumerated
<1> HIDE DEF adopted, out
<1>4. wanted \cup {} \in SUBSET Names /\ wanted \ adopted \in SUBSET Names /\ {} \in SUBSET Names
      /\ Labelled(w.d) \ adopted \in SUBSET Names /\ Names \ behind \in SUBSET Names
  BY <1>1
<1>5. Enumerated(wanted, {}) \in Works
  BY <1>2, <1>3, <1>4, ZenonT(60) DEF Works
<1>6. LET y == Enumerated(wanted, {})
      IN /\ y.pc = "write" /\ y.d = w.d /\ y.m = w.m /\ y.cur = w.cur
         /\ y.kept = wanted \cup {} /\ y.fresh = Names \ behind /\ y.todo = wanted \ adopted
         /\ y.out = out /\ y.mine = Labelled(w.d) \ adopted
  BY <1>3, Zenon DEF Works
<1>7. \A n \in Names : out[n] = IF n \in adopted THEN "skipped" ELSE "none"
  BY DEF out
<1>8. \A n \in Labelled(w.d) \ adopted : seen[n].owner = Me
  BY DEF adopted
<1> QED
  BY <1>1, <1>5, <1>6, <1>7, <1>8

-----------------------------------------------------------------------------
(* Objects and returns: what the API writes and the end of a reconcile do.  *)

\* The versions a child may take.
LEMMA ChildForms ==
  /\ NoChild \in Children /\ NoChild.owner = Nobody /\ NoChild.label = "none" /\ ~NoChild.dying
  /\ \A c \in Children : /\ [c EXCEPT !.dying = TRUE] \in Children
                         /\ [c EXCEPT !.owner = User] \in Children
                         /\ [c EXCEPT !.spec = UserSpec] \in Children
<1>1. NoChild \in Children
  BY DEF NoChild, Children, Owners
<1>2. User \in Owners
  BY DEF Owners
<1>3. ASSUME NEW c \in Children
      PROVE  /\ [c EXCEPT !.dying = TRUE] \in Children
             /\ [c EXCEPT !.owner = User] \in Children
             /\ [c EXCEPT !.spec = UserSpec] \in Children
  BY <1>2, Zenon DEF Children
<1>4. NoChild.owner = Nobody /\ NoChild.label = "none" /\ ~NoChild.dying
  BY Zenon DEF NoChild
<1> QED
  BY <1>1, <1>3, <1>4, Zenon

\* A write of child n changes that child, and the informer will hear of it.
LEMMA StoreChild ==
  ASSUME ChildTyped, Informed, NEW n \in Names, NEW c \in Children, NEW told \in BOOLEAN,
         Store(n, c, told)
  PROVE  /\ ChildTyped' /\ Informed'
         /\ child'[n] = c /\ \A k \in Names \ {n} : child'[k] = child[k]
<1>1. /\ child' \in [Names -> Children] /\ seen' = seen
      /\ child'[n] = c /\ \A k \in Names \ {n} : child'[k] = child[k]
  BY DEF Store, ChildTyped
<1>2. behind' \subseteq Names /\ behind \subseteq behind' /\ news' \subseteq behind'
  BY DEF Store, ChildTyped
<1>3. n \in behind' \/ child' = child
  BY DEF Store, ChildTyped
<1> QED
  BY <1>1, <1>2, <1>3 DEF ChildTyped, Informed

\* A DELETE marks the object, if there is one.
LEMMA DeleteChild ==
  ASSUME ChildTyped, Informed, NEW n \in Names, Delete(n)
  PROVE  /\ ChildTyped' /\ Informed'
         /\ \A k \in Names \ {n} : child'[k] = child[k]
         /\ child'[n].owner = child[n].owner /\ child'[n].label = child[n].label
         /\ child[n] = NoChild => child'[n] = NoChild
         /\ child[n] # NoChild => child'[n] = [child[n] EXCEPT !.dying = TRUE] /\ child'[n].dying
<1> DEFINE c == IF child[n] = NoChild THEN NoChild ELSE [child[n] EXCEPT !.dying = TRUE]
<1>1. c \in Children /\ Store(n, c, TRUE)
  <2>1. child[n] \in Children
    BY DEF ChildTyped
  <2> QED
    BY <2>1, ChildForms, Zenon DEF Delete
<1>2. c.owner = child[n].owner /\ c.label = child[n].label
  BY DEF ChildTyped, Children
<1>3. child[n] # NoChild => c.dying
  BY Zenon DEF ChildTyped, Children
<1> QED
  BY <1>1, <1>2, <1>3, StoreChild, Zenon

\* A status write of the worker's copy, or none.
Noted == UNCHANGED <<md, mdSeen, mdBehind>> \/ \E r \in Reasons : Stamp(r)

\* It changes no spec.
LEMMA NotedFacts ==
  ASSUME Typed, w.d \in Discoveries, Noted
  PROVE  /\ md' \in [Discoveries -> MDs] /\ mdSeen' = mdSeen /\ mdBehind' \subseteq Discoveries
         /\ \A d \in Discoveries : /\ md'[d].uid = md[d].uid /\ md'[d].gen = md[d].gen
                                   /\ md'[d].st = md[d].st /\ md'[d].fin = md[d].fin
                                   /\ d # w.d => md'[d] = md[d]
<1>1. CASE UNCHANGED <<md, mdSeen, mdBehind>>
  BY <1>1 DEF Typed
<1>2. ASSUME NEW r \in Reasons, Stamp(r)
      PROVE  /\ md' \in [Discoveries -> MDs] /\ mdSeen' = mdSeen /\ mdBehind' \subseteq Discoveries
             /\ \A d \in Discoveries : /\ md'[d].uid = md[d].uid /\ md'[d].gen = md[d].gen
                                       /\ md'[d].st = md[d].st /\ md'[d].fin = md[d].fin
                                       /\ d # w.d => md'[d] = md[d]
  <2> DEFINE m == [md[w.d] EXCEPT !.ready = r, !.obs = w.m.gen]
  <2>1. md[w.d] \in MDs /\ w.m.gen \in Gens
    BY DEF Typed, Works, MDs
  <2>2. m \in MDs
    BY <2>1, Zenon DEF MDs
  <2>3. m.uid = md[w.d].uid /\ m.gen = md[w.d].gen /\ m.st = md[w.d].st /\ m.fin = md[w.d].fin
    BY <2>1, Zenon DEF MDs
  <2>4. md' = IF w.cur THEN [md EXCEPT ![w.d] = m] ELSE md
    BY <1>2 DEF Stamp, Typed
  <2>5. mdSeen' = mdSeen /\ mdBehind' \subseteq Discoveries
    BY <1>2 DEF Stamp, Typed
  <2> HIDE DEF m
  <2> QED
    BY <2>2, <2>3, <2>4, <2>5 DEF Typed
<1> QED
  BY <1>1, <1>2 DEF Noted

\* Copies and marks keep the spec and the finalizer.
LEMMA CopyForms ==
  ASSUME NEW m \in MDs
  PROVE  /\ Bare(m) \in MDs /\ SpecOf(Bare(m)) = SpecOf(m) /\ Bare(m).fin = m.fin
         /\ Marked(m) \in MDs /\ SpecOf(Marked(m)) = SpecOf(m) /\ Marked(m).fin = m.fin
         /\ [m EXCEPT !.fin = TRUE] \in MDs /\ SpecOf([m EXCEPT !.fin = TRUE]) = SpecOf(m)
         /\ Absent(m.uid) \in MDs
<1>1. /\ 0 \in Gens /\ m.gen \in Gens /\ {"none", "Syncing"} \subseteq Reasons
      /\ m.uid \in Uids
  BY DiscoveryAssumption DEF MDs, Gens, Reasons
<1>2. Bare(m) \in MDs /\ [m EXCEPT !.fin = TRUE] \in MDs
  BY <1>1, Zenon DEF Bare, MDs
<1>3. [m EXCEPT !.ready = "Syncing", !.obs = m.gen] \in MDs
  BY <1>1, Zenon DEF MDs
<1>4. /\ SpecOf(Bare(m)) = SpecOf(m) /\ Bare(m).fin = m.fin
      /\ SpecOf([m EXCEPT !.fin = TRUE]) = SpecOf(m)
      /\ SpecOf([m EXCEPT !.ready = "Syncing", !.obs = m.gen]) = SpecOf(m)
      /\ [m EXCEPT !.ready = "Syncing", !.obs = m.gen].fin = m.fin
  BY Zenon DEF SpecOf, Bare, MDs
<1>5. Absent(m.uid) \in MDs
  BY <1>1 DEF Absent, MDs, Reasons
<1> QED
  BY <1>2, <1>3, <1>4, <1>5, Zenon DEF Marked

\* What is written back at the start of a reconcile.
LEMMA PutFacts ==
  ASSUME Typed, NEW d \in Discoveries, NEW cur \in BOOLEAN, NEW m \in MDs, PutMD(d, cur, m)
  PROVE  /\ md' \in [Discoveries -> MDs] /\ mdSeen' \in [Discoveries -> MDs]
         /\ mdBehind' \subseteq Discoveries /\ dropped' = dropped \ {d}
         /\ \A e \in Discoveries \ {d} : md'[e] = md[e] /\ mdSeen'[e] = mdSeen[e]
         /\ cur => md'[d] = m /\ mdSeen'[d] = Bare(md[d])
         /\ ~cur => md'[d] = md[d] /\ mdSeen'[d] = mdSeen[d]
<1>1. Bare(md[d]) \in MDs
  BY CopyForms DEF Typed
<1> QED
  BY <1>1 DEF PutMD, Typed

\* The worker takes a Discovery from its queue: from the live version or an
\* old one, it gives it up, keeps it queued, or starts on it.
LEMMA Began ==
  ASSUME Typed, Counted, Trails, NEW d \in Discoveries, Begin(d)
  PROVE  /\ w.pc = "idle" /\ d \in queue /\ UNCHANGED <<childVars, timer>>
         /\ upsets' = upsets \/ (upsets < MaxUpsets /\ upsets' = upsets + 1)
         /\ md' \in [Discoveries -> MDs] /\ mdSeen' \in [Discoveries -> MDs]
         /\ mdBehind' \subseteq Discoveries /\ dropped' = dropped \ {d}
         /\ \A e \in Discoveries \ {d} : md'[e] = md[e] /\ mdSeen'[e] = mdSeen[e]
         /\ queue' = queue \/ queue' = queue \ {d}
         /\ \/ SpecOf(md'[d]) = SpecOf(md[d]) /\ (md[d].fin => md'[d].fin)
            \/ md[d].st = "deleting" /\ md'[d] = Absent(md[d].uid)
         /\ (mdSeen'[d] = mdSeen[d] /\ md'[d] = md[d]) \/ mdSeen'[d] = Bare(md[d])
         /\ \/ w' = w /\ (d \in queue' \/ md'[d].st = "absent" \/ News(d)')
            \/ /\ w' \in Works /\ w'.d = d /\ w'.pc \in {"drain", "source"} /\ w'.m.uid # 0
               /\ SpecOf(w'.m) = SpecOf(md'[d]) \/ (~w'.cur /\ News(d)')
               /\ w'.pc = "source" => w'.m.st = "live"
<1>1. md[d] \in MDs /\ mdSeen[d] \in MDs /\ md[d].uid # 0 /\ mdSeen[d].uid # 0
      /\ (md[d].st = "deleting" => md[d].fin) /\ (mdSeen[d].st = "deleting" => mdSeen[d].fin)
  BY DEF Typed, Counted, Uids, MDs
<1>2. /\ Bare(md[d]) \in MDs /\ SpecOf(Bare(md[d])) = SpecOf(md[d])
      /\ Marked(md[d]) \in MDs /\ SpecOf(Marked(md[d])) = SpecOf(md[d])
      /\ Marked(md[d]).fin = md[d].fin
      /\ [md[d] EXCEPT !.fin = TRUE] \in MDs /\ SpecOf([md[d] EXCEPT !.fin = TRUE]) = SpecOf(md[d])
      /\ [md[d] EXCEPT !.fin = TRUE].fin
      /\ Absent(md[d].uid) \in MDs /\ Absent(md[d].uid).st = "absent"
  BY <1>1, CopyForms, Zenon DEF Absent, MDs
<1>3. \A m \in MDs : SpecOf(m)[1] = m.st /\ SpecOf(m)[2] = m.uid
  BY DEF SpecOf
<1>4. ASSUME NEW cur \in BOOLEAN, Get(d, cur)
      PROVE  /\ w.pc = "idle" /\ d \in queue
             /\ upsets' = upsets \/ (upsets < MaxUpsets /\ upsets' = upsets + 1)
             /\ cur => SpecOf(mdSeen[d]) = SpecOf(md[d])
             /\ Copy(d, cur) \in MDs /\ Copy(d, cur).uid # 0
             /\ Copy(d, cur).st = "deleting" => Copy(d, cur).fin
  <2>1. /\ w.pc = "idle" /\ d \in queue
        /\ upsets' = upsets \/ (upsets < MaxUpsets /\ upsets' = upsets + 1)
        /\ cur => ~News(d)
    BY <1>4 DEF Get, Upset
  <2>2. Copy(d, cur) \in {md[d], mdSeen[d]}
    BY DEF Copy
  <2> QED
    BY <1>1, <2>1, <2>2 DEF News
<1>5. ASSUME NEW cur \in BOOLEAN, NEW m \in MDs, PutMD(d, cur, m), Get(d, cur),
             NEW c \in {md[d], mdSeen[d]}, c = Copy(d, cur),
             SpecOf(m) = SpecOf(md[d])
      PROVE  SpecOf(c) = SpecOf(md'[d]) \/ (~cur /\ News(d)')
  <2>1. CASE cur
    BY <1>5, <2>1, PutFacts DEF Copy
  <2>2. CASE ~cur
    BY <1>5, <2>2, PutFacts DEF Copy, News
  <2> QED
    BY <2>1, <2>2
<1>6. ASSUME NEW cur \in BOOLEAN, NEW pc \in {"drain", "source"}, NEW todo \in SUBSET Names,
             NEW m \in MDs, NEW k \in MDs, PutMD(d, cur, m), Get(d, cur),
             SpecOf(m) = SpecOf(md[d]), m.fin = md[d].fin,
             SpecOf(k) = SpecOf(Copy(d, cur)), pc = "source" => Copy(d, cur).st = "live",
             w' = Start(d, pc, todo, k, cur)
      PROVE  /\ w' \in Works /\ w'.d = d /\ w'.pc \in {"drain", "source"} /\ w'.m.uid # 0
             /\ SpecOf(w'.m) = SpecOf(md'[d]) \/ (~w'.cur /\ News(d)')
             /\ w'.pc = "source" => w'.m.st = "live"
  <2>1. w' \in Works /\ w'.pc = pc /\ w'.d = d /\ w'.m = k /\ w'.cur = cur
    BY <1>6, StartWork
  <2>2. k.uid = Copy(d, cur).uid /\ k.st = Copy(d, cur).st
    BY <1>3, <1>4, <1>6
  <2>3. SpecOf(k) = SpecOf(md'[d]) \/ (~cur /\ News(d)')
    BY <1>5, <1>6 DEF Copy
  <2> QED
    BY <1>4, <1>6, <2>1, <2>2, <2>3
<1>7. ASSUME NEW cur \in BOOLEAN, Ignore(d, cur) \/ AddFinalizer(d, cur) \/ DropFinalizer(d, cur)
      PROVE  /\ \/ SpecOf(md'[d]) = SpecOf(md[d]) /\ (md[d].fin => md'[d].fin)
                \/ md[d].st = "deleting" /\ md'[d] = Absent(md[d].uid)
             /\ w' = w /\ (d \in queue' \/ md'[d].st = "absent" \/ News(d)')
  <2>1. CASE Ignore(d, cur)
    <3>1. Copy(d, cur).st = "absent" /\ PutMD(d, cur, md[d]) /\ w' = w /\ Get(d, cur)
      BY <1>4, <2>1 DEF Ignore
    <3>2. md'[d] = md[d]
      BY <1>1, <3>1, PutFacts
    <3>3. CASE cur
      BY <3>1, <3>2, <3>3 DEF Copy
    <3>4. CASE ~cur
      <4>1. mdSeen[d].st = "absent" /\ mdSeen'[d] = mdSeen[d]
        BY <1>1, <3>1, <3>4, PutFacts DEF Copy
      <4>2. md[d].st = "absent" \/ News(d)'
        BY <1>1, <1>3, <3>2, <4>1 DEF News
      <4> QED
        BY <3>1, <3>2, <4>2
    <3> QED
      BY <3>3, <3>4
  <2>2. CASE AddFinalizer(d, cur)
    <3>1. /\ PutMD(d, cur, [md[d] EXCEPT !.fin = TRUE]) /\ w' = w /\ queue' = queue /\ Get(d, cur)
      BY <2>2 DEF AddFinalizer, runVars
    <3>2. md'[d] = md[d] \/ md'[d] = [md[d] EXCEPT !.fin = TRUE]
      BY <1>2, <3>1, PutFacts
    <3> QED
      BY <1>2, <1>4, <3>1, <3>2
  <2>3. CASE DropFinalizer(d, cur)
    <3>1. /\ PutMD(d, cur, Absent(md[d].uid)) /\ w' = w /\ Get(d, cur)
          /\ Copy(d, cur).st = "deleting" /\ (~cur => queue' = queue)
      BY <2>3 DEF DropFinalizer
    <3>2. CASE cur
      <4>1. md'[d] = Absent(md[d].uid) /\ md[d].st = "deleting"
        BY <1>2, <3>1, <3>2, PutFacts DEF Copy
      <4> QED
        BY <1>2, <3>1, <4>1
    <3>3. CASE ~cur
      <4>1. md'[d] = md[d] /\ d \in queue'
        BY <1>2, <1>4, <3>1, <3>3, PutFacts
      <4> QED
        BY <3>1, <4>1
    <3> QED
      BY <3>2, <3>3
  <2> QED
    BY <1>7, <2>1, <2>2, <2>3
<1>8. ASSUME NEW cur \in BOOLEAN, StartDrain(d, cur)
      PROVE  /\ SpecOf(md'[d]) = SpecOf(md[d]) /\ (md[d].fin => md'[d].fin)
             /\ w' \in Works /\ w'.d = d /\ w'.pc \in {"drain", "source"} /\ w'.m.uid # 0
             /\ SpecOf(w'.m) = SpecOf(md'[d]) \/ (~w'.cur /\ News(d)')
             /\ w'.pc = "source" => w'.m.st = "live"
  <2> DEFINE todo == {n \in Labelled(d) : ~seen[n].dying}
  <2>1. /\ PutMD(d, cur, md[d]) /\ Get(d, cur) /\ todo \in SUBSET Names
        /\ w' = Start(d, "drain", todo, Copy(d, cur), cur)
    BY <1>8 DEF StartDrain, Labelled
  <2> HIDE DEF todo
  <2>2. md'[d] = md[d]
    BY <1>1, <2>1, PutFacts
  <2>3. /\ w' \in Works /\ w'.d = d /\ w'.pc \in {"drain", "source"} /\ w'.m.uid # 0
        /\ SpecOf(w'.m) = SpecOf(md'[d]) \/ (~w'.cur /\ News(d)')
        /\ w'.pc = "source" => w'.m.st = "live"
    BY <1>1, <1>4, <1>6, <2>1
  <2> QED
    BY <2>2, <2>3
<1>9. ASSUME NEW cur \in BOOLEAN, StartSync(d, cur) \/ (cur /\ StartUnmarked(d))
      PROVE  /\ SpecOf(md'[d]) = SpecOf(md[d]) /\ (md[d].fin => md'[d].fin)
             /\ w' \in Works /\ w'.d = d /\ w'.pc \in {"drain", "source"} /\ w'.m.uid # 0
             /\ SpecOf(w'.m) = SpecOf(md'[d]) \/ (~w'.cur /\ News(d)')
             /\ w'.pc = "source" => w'.m.st = "live"
  <2>1. PICK m \in {md[d], Marked(md[d])} :
          /\ PutMD(d, cur, m)
          /\ w' = Start(d, "source", {}, Marked(Copy(d, cur)), cur)
          /\ Copy(d, cur).st = "live"
    BY <1>9 DEF StartSync, StartUnmarked, Copy
  <2>2. /\ Copy(d, cur) \in MDs /\ Copy(d, cur).uid # 0
    BY <1>1 DEF Copy
  <2>3. Marked(Copy(d, cur)) \in MDs /\ SpecOf(Marked(Copy(d, cur))) = SpecOf(Copy(d, cur))
    BY <2>2, CopyForms
  <2>4. m \in MDs /\ SpecOf(m) = SpecOf(md[d]) /\ m.fin = md[d].fin
    BY <1>1, <1>2, <2>1
  <2>5. SpecOf(md'[d]) = SpecOf(md[d]) /\ md'[d].fin = md[d].fin
    BY <2>1, <2>4, PutFacts
  <2>6. w' \in Works /\ w'.pc = "source" /\ w'.d = d /\ w'.m = Marked(Copy(d, cur)) /\ w'.cur = cur
    BY <2>1, <2>3, StartWork
  <2>7. w'.m.uid # 0 /\ w'.m.st = "live"
    BY <1>3, <2>1, <2>2, <2>3, <2>6
  <2>8. SpecOf(w'.m) = SpecOf(md'[d]) \/ (~w'.cur /\ News(d)')
    <3>1. CASE cur
      BY <2>3, <2>5, <2>6, <3>1 DEF Copy
    <3>2. CASE ~cur
      <4>1. mdSeen'[d] = mdSeen[d] /\ md'[d] = md[d] /\ SpecOf(w'.m) = SpecOf(mdSeen[d])
        BY <2>1, <2>3, <2>4, <2>6, <3>2, PutFacts DEF Copy
      <4> QED
        BY <2>6, <3>2, <4>1 DEF News
    <3> QED
      BY <3>1, <3>2
  <2> QED
    BY <2>5, <2>6, <2>7, <2>8
<1>10. PICK cur \in BOOLEAN : \/ Ignore(d, cur) \/ AddFinalizer(d, cur) \/ DropFinalizer(d, cur)
                              \/ StartDrain(d, cur) \/ StartSync(d, cur)
                              \/ cur /\ StartUnmarked(d)
  BY DEF Begin
<1>11. /\ w.pc = "idle" /\ d \in queue /\ UNCHANGED <<childVars, timer>>
       /\ upsets' = upsets \/ (upsets < MaxUpsets /\ upsets' = upsets + 1)
       /\ queue' = queue \/ queue' = queue \ {d}
  BY <1>4, <1>10 DEF Ignore, AddFinalizer, DropFinalizer, StartDrain, StartSync, StartUnmarked,
                     runVars, Upset
<1>12. \E m \in MDs : PutMD(d, cur, m)
  BY <1>1, <1>2, <1>10
  DEF Ignore, AddFinalizer, DropFinalizer, StartDrain, StartSync, StartUnmarked
<1>13. /\ md' \in [Discoveries -> MDs] /\ mdSeen' \in [Discoveries -> MDs]
       /\ mdBehind' \subseteq Discoveries /\ dropped' = dropped \ {d}
       /\ \A e \in Discoveries \ {d} : md'[e] = md[e] /\ mdSeen'[e] = mdSeen[e]
       /\ (mdSeen'[d] = mdSeen[d] /\ md'[d] = md[d]) \/ mdSeen'[d] = Bare(md[d])
  BY <1>12, PutFacts
<1> QED
  BY <1>7, <1>8, <1>9, <1>10, <1>11, <1>13

\* What the loop's step on one candidate keeps of the reconcile.
SameReconcile == /\ w' \in Works
                 /\ w'.d = w.d /\ w'.m = w.m /\ w'.cur = w.cur /\ w'.kept = w.kept
                 /\ w'.mine = w.mine /\ w'.spare = w.spare

\* Candidate n is settled, and blocked only by an object of somebody else's.
Settled(n) == /\ w'.pc = "write" /\ w'.todo = w.todo \ {n}
              /\ \E o \in Outcomes \ {"none"} : /\ w'.out = [w.out EXCEPT ![n] = o]
                                                /\ o = "blocked" => child[n].owner # Me

\* The ownership check settles a candidate or remembers what it found.
LEMMA Classified ==
  ASSUME Typed, Classify
  PROVE  \E n \in w.todo :
           /\ SameReconcile /\ w'.fresh = w.fresh
           /\ \/ Settled(n)
              \/ /\ w'.pc = "apply" /\ w'.todo = w.todo /\ w'.out = w.out
                 /\ w'.n = n
                 /\ \/ w'.found = "mine" /\ child[n].owner = Me
                    \/ w'.found = "absent" /\ child[n] = NoChild
<1> DEFINE found(n) == ClassifyAlreadyExists(n, "blocked")
<1>1. PICK n \in w.todo :
        \/ /\ found(n) \in {"skipped", "blocked"}
           /\ w' = [Settle(w, n, found(n)) EXCEPT !.soon = @ \/ found(n) = "blocked"]
        \/ /\ found(n) \in {"absent", "mine"}
           /\ w' = [w EXCEPT !.pc = "apply", !.n = n, !.found = found(n), !.live = TRUE]
        \/ w' = Settle(w, n, "failed")
  BY Zenon DEF Classify, ClassifyChild
<1>2. n \in Names /\ w \in Works
  BY DEF Typed, Works
<1>3. /\ found(n) = "blocked" => child[n].owner # Me
      /\ found(n) = "mine" => child[n].owner = Me
      /\ found(n) = "absent" => child[n] = NoChild
  BY DEF ClassifyAlreadyExists
<1> HIDE DEF found
<1>4. ASSUME NEW o \in Outcomes \ {"none"}, o = "blocked" => child[n].owner # Me,
             w' = Settle(w, n, o) \/ w' = [Settle(w, n, o) EXCEPT !.soon = @ \/ o = "blocked"]
      PROVE  SameReconcile /\ w'.fresh = w.fresh /\ Settled(n)
  <2> DEFINE x == Settle(w, n, o)
  <2>1. /\ x \in Works /\ x.pc = "write"
        /\ x.d = w.d /\ x.m = w.m /\ x.cur = w.cur /\ x.kept = w.kept
        /\ x.mine = w.mine /\ x.spare = w.spare /\ x.fresh = w.fresh
        /\ x.todo = w.todo \ {n} /\ x.out = [w.out EXCEPT ![n] = o]
    BY <1>2, SettleWork
  <2>2. w' = x \/ w' = [x EXCEPT !.soon = @ \/ o = "blocked"]
    BY <1>4
  <2> HIDE DEF x
  <2>3. /\ w' \in Works /\ w'.pc = x.pc
        /\ w'.d = x.d /\ w'.m = x.m /\ w'.cur = x.cur /\ w'.kept = x.kept
        /\ w'.todo = x.todo /\ w'.out = x.out /\ w'.mine = x.mine /\ w'.spare = x.spare
        /\ w'.fresh = x.fresh
    <3>1. w' \in Works
      BY <2>1, <2>2, Zenon DEF Works
    <3> QED
      BY <2>1, <2>2, <3>1 DEF Works
  <2> QED
    BY <1>4, <2>1, <2>3 DEF SameReconcile, Settled
<1>5. ASSUME NEW f \in {"absent", "mine"},
             w' = [w EXCEPT !.pc = "apply", !.n = n, !.found = f, !.live = TRUE]
      PROVE  /\ SameReconcile /\ w'.fresh = w.fresh
             /\ w'.pc = "apply" /\ w'.todo = w.todo /\ w'.out = w.out /\ w'.n = n /\ w'.found = f
  <2>1. w' \in Works
    BY <1>2, <1>5, Zenon DEF Works
  <2> QED
    BY <1>2, <1>5, <2>1 DEF Works, SameReconcile
<1>6. CASE w' = Settle(w, n, "failed")
  BY <1>4, <1>6 DEF Outcomes
<1>7. CASE found(n) \in {"skipped", "blocked"}
           /\ w' = [Settle(w, n, found(n)) EXCEPT !.soon = @ \/ found(n) = "blocked"]
  <2>1. found(n) \in Outcomes \ {"none"}
    BY <1>7 DEF Outcomes
  <2> QED
    BY <1>3, <1>4, <1>7, <2>1, Zenon
<1>8. CASE found(n) \in {"absent", "mine"}
           /\ w' = [w EXCEPT !.pc = "apply", !.n = n, !.found = found(n), !.live = TRUE]
  BY <1>3, <1>5, <1>8
<1> QED
  BY <1>1, <1>6, <1>7, <1>8

\* The write settles its candidate.  It changes that child alone, to one of
\* the Discovery's own, and what it changes is not the listed version any more.
LEMMA AppliedChild ==
  ASSUME Typed, Serving, Labels, Checked, Apply
  PROVE  /\ w.n \in Names
         /\ SameReconcile /\ w'.fresh \subseteq w.fresh /\ Settled(w.n)
         /\ \/ UNCHANGED childVars
            \/ /\ \E told \in BOOLEAN : Store(w.n, Applied(child[w.n], w.m.gen), told)
               /\ \/ w.found = "mine" /\ w.live
                  \/ w.found = "absent" /\ (child[w.n] = NoChild \/ child[w.n].owner = User)
               /\ child[w.n] = Applied(child[w.n], w.m.gen) \/ w.n \notin w'.fresh
<1> DEFINE n == w.n
           c == child[n]
           new == Applied(c, w.m.gen)
<1>1. w.n \in Names /\ w \in Works /\ w.found \in {"mine", "absent"}
  BY DEF Apply, ApplyChild, Serving, Typed, Works
<1>2. ASSUME NEW x \in {w, Disturb(w, n)}, NEW o \in Outcomes \ {"none"},
             o = "blocked" => c.owner # Me,
             \/ w' = Settle(x, n, o) \/ w' = [Settle(x, n, o) EXCEPT !.soon = TRUE]
             \/ w' = [Settle(x, n, o) EXCEPT !.soon = @ \/ o = "blocked"]
      PROVE  /\ SameReconcile /\ w'.fresh \subseteq w.fresh /\ Settled(n)
             /\ x = Disturb(w, n) => n \notin w'.fresh
  <2>1. /\ x \in Works
        /\ x.d = w.d /\ x.m = w.m /\ x.cur = w.cur /\ x.kept = w.kept
        /\ x.todo = w.todo /\ x.out = w.out /\ x.mine = w.mine /\ x.spare = w.spare
        /\ x.fresh \subseteq w.fresh
        /\ x = Disturb(w, n) => n \notin x.fresh
    BY <1>1, DisturbWork
  <2> DEFINE y == Settle(x, n, o)
  <2>2. /\ y \in Works /\ y.pc = "write"
        /\ y.d = x.d /\ y.m = x.m /\ y.cur = x.cur /\ y.kept = x.kept
        /\ y.mine = x.mine /\ y.spare = x.spare /\ y.fresh = x.fresh
        /\ y.todo = x.todo \ {n} /\ y.out = [x.out EXCEPT ![n] = o]
    BY <1>1, <2>1, SettleWork
  <2>3. w' = y \/ w' = [y EXCEPT !.soon = TRUE] \/ w' = [y EXCEPT !.soon = @ \/ o = "blocked"]
    BY <1>2
  <2> HIDE DEF y
  <2>4. /\ w' \in Works /\ w'.pc = y.pc
        /\ w'.d = y.d /\ w'.m = y.m /\ w'.cur = y.cur /\ w'.kept = y.kept
        /\ w'.todo = y.todo /\ w'.out = y.out /\ w'.mine = y.mine /\ w'.spare = y.spare
        /\ w'.fresh = y.fresh
    <3>1. w' \in Works
      BY <2>2, <2>3, Zenon DEF Works
    <3> QED
      BY <2>2, <2>3, <3>1 DEF Works
  <2>5. SameReconcile /\ w'.fresh \subseteq w.fresh /\ (x = Disturb(w, n) => n \notin w'.fresh)
    BY <2>1, <2>2, <2>4 DEF SameReconcile
  <2>6. w'.pc = "write" /\ w'.todo = w.todo \ {n} /\ w'.out = [w.out EXCEPT ![n] = o]
    BY <2>1, <2>2, <2>4
  <2> QED
    BY <1>2, <2>5, <2>6, Zenon DEF Settled
<1>3. \/ /\ IF w.found = "mine" THEN w.live ELSE c = NoChild \/ c.owner = User
         /\ Store(n, new, c.spec # w.m.gen \/ c = NoChild)
         /\ w' = Settle(IF c = new THEN w ELSE Disturb(w, n), n, "generated")
      \/ /\ w' = [Settle(w, n, "pending") EXCEPT !.soon = TRUE]
         /\ UNCHANGED childVars
      \/ /\ w.found = "absent" /\ c # NoChild
         /\ LET again == ClassifyAlreadyExists(n, "blocked") IN
            w' = [Settle(w, n, IF again = "mine" THEN "none" ELSE again)
                    EXCEPT !.soon = @ \/ again = "blocked"]
         /\ UNCHANGED childVars
      \/ w' = Settle(w, n, "failed") /\ UNCHANGED childVars
  BY Zenon DEF Apply, ApplyChild
<1>4. CASE /\ IF w.found = "mine" THEN w.live ELSE c = NoChild \/ c.owner = User
           /\ Store(n, new, c.spec # w.m.gen \/ c = NoChild)
           /\ w' = Settle(IF c = new THEN w ELSE Disturb(w, n), n, "generated")
  <2>1. "generated" \in Outcomes \ {"none"}
    BY DEF Outcomes
  <2>2. /\ SameReconcile /\ w'.fresh \subseteq w.fresh /\ Settled(n)
        /\ c = new \/ n \notin w'.fresh
    <3>1. CASE c = new
      BY <1>2, <1>4, <2>1, <3>1
    <3>2. CASE c # new
      BY <1>2, <1>4, <2>1, <3>2
    <3> QED
      BY <3>1, <3>2
  <2>3. \E told \in BOOLEAN : Store(n, new, told)
    BY <1>4, Zenon
  <2> QED
    BY <1>1, <1>4, <2>2, <2>3, Zenon
<1>5. CASE w' = [Settle(w, n, "pending") EXCEPT !.soon = TRUE] /\ UNCHANGED childVars
  <2>1. "pending" \in Outcomes \ {"none"}
    BY DEF Outcomes
  <2> QED
    BY <1>1, <1>2, <1>5, <2>1, Zenon
<1>6. CASE /\ w.found = "absent" /\ c # NoChild
           /\ LET again == ClassifyAlreadyExists(n, "blocked") IN
              w' = [Settle(w, n, IF again = "mine" THEN "none" ELSE again)
                      EXCEPT !.soon = @ \/ again = "blocked"]
           /\ UNCHANGED childVars
  <2> DEFINE again == ClassifyAlreadyExists(n, "blocked")
  <2>1. c.owner # Me
    <3>1. w.pc = "apply" /\ w.d \in Discoveries /\ w.m.uid # 0
      BY DEF Apply, ApplyChild, Serving
    <3>2. Me \notin {User, Nobody}
      BY <3>1 DEF Me, User, Nobody
    <3> QED
      BY <1>1, <1>6, <3>1, <3>2 DEF Checked, Labels
  <2>2. again \in Outcomes \ {"none"} /\ again # "mine"
    BY <1>6, <2>1 DEF ClassifyAlreadyExists, Outcomes
  <2>3. w' = [Settle(w, n, again) EXCEPT !.soon = @ \/ again = "blocked"]
    BY <1>6, <2>2
  <2> HIDE DEF again
  <2> QED
    BY <1>1, <1>2, <1>6, <2>1, <2>2, <2>3, Zenon
<1>7. CASE w' = Settle(w, n, "failed") /\ UNCHANGED childVars
  <2>1. "failed" \in Outcomes \ {"none"}
    BY DEF Outcomes
  <2> QED
    BY <1>1, <1>2, <1>7, <2>1, Zenon
<1> QED
  BY <1>3, <1>4, <1>5, <1>6, <1>7, Zenon

-----------------------------------------------------------------------------
(* The steps.                                                              *)

\* Who writes a child, or hears of one.
LEMMA ChildWriters ==
  [Next]_vars => \/ UNCHANGED childVars \/ Apply \/ DrainDelete \/ Vanish \/ Crash
                 \/ \E n \in Names : Observe(n) \/ ChildGone(n) \/ Collect(n) \/ TouchChild(n)
  BY DEF Next, Reconcile, Outside, Quiet, Proceed, Housekeeping, Begin, vars, coreVars,
         Misconfigured, SourceFails, ListModels, Classify, ClassifyChild, SyncAliases, Finish,
         DrainWait, Publish, SourceChange, UserAlias, CollectAlias, Tick, ObserveMD, TouchMD, Ignore,
         AddFinalizer, DropFinalizer, StartDrain, StartSync, StartUnmarked

\* Every step keeps the children's types, what the informer may still show,
\* and the labels on what is generated.
LEMMA StepChildren == IInv /\ [Next]_vars => ChildTyped' /\ Informed' /\ Labels'
<1> SUFFICES ASSUME IInv, [Next]_vars PROVE ChildTyped' /\ Informed' /\ Labels'
  OBVIOUS
<1> USE DEF IInv, Typed
<1>1. ASSUME NEW n \in Names, Delete(n) PROVE ChildTyped' /\ Informed' /\ Labels'
  <2>1. ChildTyped' /\ Informed'
    BY <1>1, DeleteChild
  <2>2. /\ \A k \in Names \ {n} : child'[k] = child[k]
        /\ child'[n].owner = child[n].owner /\ child'[n].label = child[n].label
        /\ child[n] = NoChild => child'[n] = NoChild
    BY <1>1, DeleteChild
  <2> QED
    BY <2>1, <2>2 DEF Labels
<1>2. CASE UNCHANGED childVars
  BY <1>2 DEF childVars, ChildTyped, Informed, Labels
<1>3. CASE Apply
  <2>1. w.n \in Names /\ w.d \in Discoveries /\ w.m.uid # 0 /\ w.m.uid \in Uids /\ w.m.gen \in Gens
    BY <1>3 DEF Apply, ApplyChild, Serving, Works, MDs
  <2> DEFINE c == Applied(child[w.n], w.m.gen)
  <2>2. c \in Children /\ c.owner = Me /\ c.label = w.d
    BY <2>1 DEF Applied, Children, Owners, Me, ChildTyped
  <2>3. Me \notin {User, Nobody} /\ w.d # "none"
    BY <2>1, DiscoveryAssumption DEF Me, User, Nobody, Uids
  <2>4. UNCHANGED childVars \/ \E told \in BOOLEAN : Store(w.n, c, told)
    BY <1>3, AppliedChild
  <2> HIDE DEF c
  <2>5. ASSUME NEW told \in BOOLEAN, Store(w.n, c, told) PROVE ChildTyped' /\ Informed' /\ Labels'
    <3>1. ChildTyped' /\ Informed'
      BY <2>1, <2>2, <2>5, StoreChild
    <3>2. child'[w.n] = c /\ \A k \in Names \ {w.n} : child'[k] = child[k]
      BY <2>1, <2>2, <2>5, StoreChild
    <3> QED
      BY <2>2, <2>3, <3>1, <3>2 DEF Labels
  <2> QED
    BY <1>2, <2>4, <2>5
<1>4. CASE DrainDelete
  BY <1>1, <1>2, <1>4 DEF DrainDelete, Works
<1>5. CASE Vanish
  BY <1>1, <1>2, <1>5 DEF Vanish, Doomed, Works
<1>6. CASE Crash
  BY <1>6 DEF Crash, ChildTyped, Informed, Labels
<1>7. ASSUME NEW n \in Names, Observe(n) PROVE ChildTyped' /\ Informed' /\ Labels'
  BY <1>7 DEF Observe, ChildTyped, Informed, Labels
<1>8. ASSUME NEW n \in Names, ChildGone(n) PROVE ChildTyped' /\ Informed' /\ Labels'
  <2>1. ChildTyped' /\ Informed'
    BY <1>8, StoreChild, ChildForms DEF ChildGone
  <2> QED
    BY <1>8, <2>1, StoreChild, ChildForms DEF ChildGone, Labels
<1>9. ASSUME NEW n \in Names, Collect(n) PROVE ChildTyped' /\ Informed' /\ Labels'
  BY <1>1, <1>9 DEF Collect
<1>10. ASSUME NEW n \in Names, TouchChild(n) PROVE ChildTyped' /\ Informed' /\ Labels'
  <2> DEFINE c == child[n]
  <2>1. c \in Children
    BY DEF ChildTyped
  <2>2. CASE Delete(n)
    BY <1>1, <2>2
  <2>3. CASE c = NoChild /\ Store(n, [NoChild EXCEPT !.owner = User], TRUE)
    <3> DEFINE e == [NoChild EXCEPT !.owner = User]
    <3>1. e \in Children /\ e.owner = User /\ e.label = c.label
      BY <2>1, <2>3, ChildForms DEF Children
    <3> HIDE DEF e
    <3>2. /\ ChildTyped' /\ Informed'
          /\ child'[n] = e /\ \A k \in Names \ {n} : child'[k] = child[k]
      BY <2>3, <3>1, StoreChild DEF e
    <3> QED
      BY <2>1, <2>3, <3>1, <3>2 DEF Labels, User, Nobody
  <2>4. CASE c # NoChild /\ Store(n, [c EXCEPT !.owner = User], FALSE)
    <3> DEFINE e == [c EXCEPT !.owner = User]
    <3>1. e \in Children /\ e.owner = User /\ e.label = c.label
      BY <2>1, <2>4, ChildForms DEF Children
    <3> HIDE DEF e
    <3>2. /\ ChildTyped' /\ Informed'
          /\ child'[n] = e /\ \A k \in Names \ {n} : child'[k] = child[k]
      BY <2>4, <3>1, StoreChild DEF e
    <3> QED
      BY <2>1, <2>4, <3>1, <3>2 DEF Labels, User, Nobody
  <2>5. CASE c # NoChild /\ Store(n, [c EXCEPT !.spec = UserSpec], TRUE)
    <3> DEFINE e == [c EXCEPT !.spec = UserSpec]
    <3>1. e \in Children /\ e.owner = c.owner /\ e.label = c.label
      BY <2>1, <2>5, ChildForms DEF Children
    <3> HIDE DEF e
    <3>2. /\ ChildTyped' /\ Informed'
          /\ child'[n] = e /\ \A k \in Names \ {n} : child'[k] = child[k]
      BY <2>5, <3>1, StoreChild DEF e
    <3> QED
      BY <2>1, <2>5, <3>1, <3>2 DEF Labels, User, Nobody
  <2>6. CASE behind' = behind \cup {n} /\ UNCHANGED <<child, seen, news>>
    BY <2>6 DEF ChildTyped, Informed, Labels
  <2> QED
    BY <1>10, <2>2, <2>3, <2>4, <2>5, <2>6 DEF TouchChild
<1> QED
  BY <1>2, <1>3, <1>4, <1>5, <1>6, <1>7, <1>8, <1>9, <1>10, ChildWriters

\* A reconcile's return takes nothing from the queue and no delay away.
LEMMA Returned ==
  ASSUME Typed, w.d \in Discoveries, NEW again \in BOOLEAN, NEW t \in {"none", "soon", "refresh"},
         Return(again, t)
  PROVE  /\ w' = Idle /\ queue' \subseteq Discoveries /\ queue \subseteq queue'
         /\ timer' \in [Discoveries -> {"none", "soon", "refresh"}]
         /\ again => w.d \in queue'
         /\ t # "none" => timer'[w.d] # "none"
         /\ \A d \in Discoveries : timer[d] # "none" => timer'[d] # "none"
  BY DEF Return, Sooner, Typed

\* The reconciles that end with a status write.  One that asks for no other
\* look has parked the Discovery, or was overtaken and its event is to come,
\* or lost the write.
LEMMA Reported ==
  ASSUME Typed, Serving, Held, Misconfigured \/ SourceFails \/ Finish \/ DrainWait
  PROVE  /\ w.d \in Discoveries /\ Noted
         /\ dropped \subseteq dropped' /\ dropped' \subseteq dropped \cup {w.d}
         /\ upsets' = upsets \/ (upsets < MaxUpsets /\ upsets' = upsets + 1)
         /\ \E again \in BOOLEAN, t \in {"none", "soon", "refresh"} :
              /\ Return(again, t)
              /\ \/ again \/ t # "none" \/ w.d \in dropped' \/ w.d \in queue \/ News(w.d)
                 \/ \E d \in Discoveries : d = w.d /\ Parked(d)'
<1>1. w.d \in Discoveries /\ w.m \in MDs /\ md[w.d] \in MDs
  BY DEF Misconfigured, SourceFails, Finish, DrainWait, Serving, Typed, Works
<1>2. \A r \in Reasons : Stamp(r) \/ LoseStamp => Noted
  BY DEF Noted, LoseStamp
<1>3. LoseStamp \/ Fault => upsets < MaxUpsets /\ upsets' = upsets + 1
  BY DEF LoseStamp, Fault, Upset
<1>4. ASSUME Forget
      PROVE  /\ dropped \subseteq dropped' /\ dropped' \subseteq dropped \cup {w.d}
             /\ w.cur \/ SpecOf(w.m) # SpecOf(md[w.d]) \/ w.d \in dropped'
  BY <1>4 DEF Forget
<1>5. ASSUME w.pc # "idle", SpecOf(w.m) # SpecOf(md[w.d]) PROVE w.d \in queue \/ News(w.d)
  BY <1>5 DEF Held
\* One way to return is shown, and what becomes of the Discovery.
<1>6. ASSUME Noted, dropped \subseteq dropped', dropped' \subseteq dropped \cup {w.d},
             upsets' = upsets \/ (upsets < MaxUpsets /\ upsets' = upsets + 1),
             NEW again \in BOOLEAN, NEW t \in {"none", "soon", "refresh"}, Return(again, t),
             \/ again \/ t # "none" \/ w.d \in dropped' \/ w.d \in queue \/ News(w.d)
             \/ \E d \in Discoveries : d = w.d /\ Parked(d)'
      PROVE  /\ w.d \in Discoveries /\ Noted
             /\ dropped \subseteq dropped' /\ dropped' \subseteq dropped \cup {w.d}
             /\ upsets' = upsets \/ (upsets < MaxUpsets /\ upsets' = upsets + 1)
             /\ \E a \in BOOLEAN, u \in {"none", "soon", "refresh"} :
                  /\ Return(a, u)
                  /\ \/ a \/ u # "none" \/ w.d \in dropped' \/ w.d \in queue \/ News(w.d)
                     \/ \E d \in Discoveries : d = w.d /\ Parked(d)'
  BY <1>1, <1>6, Zenon
<1>7. CASE Misconfigured
  <2>1. PICK r \in {"InvalidConfig", "UpstreamInvalid"} : Park(r)
    BY <1>7 DEF Misconfigured
  <2>2. w.pc = "source" /\ Return(FALSE, "none") /\ r \in Reasons
    BY <1>7, <2>1 DEF Misconfigured, Park, Reasons
  <2>3. CASE LoseStamp /\ dropped' = dropped \cup {w.d}
    <3>1. Noted /\ (upsets < MaxUpsets /\ upsets' = upsets + 1)
      BY <1>2, <1>3, <2>2, <2>3
    <3>2. dropped \subseteq dropped' /\ dropped' \subseteq dropped \cup {w.d} /\ w.d \in dropped'
      BY <2>3
    <3> QED
      BY <1>6, <2>2, <3>1, <3>2
  <2>4. CASE Stamp(r) /\ Forget /\ UNCHANGED upsets
    <3>1. Noted /\ upsets' = upsets
      BY <1>2, <2>2, <2>4
    <3>2. /\ dropped \subseteq dropped' /\ dropped' \subseteq dropped \cup {w.d}
          /\ w.cur \/ w.d \in queue \/ News(w.d) \/ w.d \in dropped'
      BY <1>4, <1>5, <2>2, <2>4
    <3>3. ASSUME w.cur PROVE \E d \in Discoveries : d = w.d /\ Parked(d)'
      <4>1. SpecOf(w.m) = SpecOf(md[w.d]) /\ w.m.st = "live"
        BY <2>2, <3>3 DEF Held
      <4>2. md[w.d].st = "live" /\ md[w.d].gen = w.m.gen
        BY <4>1 DEF SpecOf
      <4>3. md'[w.d] = [md[w.d] EXCEPT !.ready = r, !.obs = w.m.gen]
        BY <1>1, <2>4, <3>3 DEF Stamp, Typed
      <4>4. /\ md'[w.d].st = md[w.d].st /\ md'[w.d].gen = md[w.d].gen
            /\ md'[w.d].obs = w.m.gen /\ md'[w.d].ready = r
        BY <1>1, <4>3 DEF MDs
      <4> QED
        BY <1>1, <4>2, <4>4 DEF Parked
    <3> QED
      BY <1>6, <2>2, <3>1, <3>2, <3>3
  <2> QED
    BY <2>1, <2>3, <2>4 DEF Park
<1>8. CASE SourceFails
  <2>1. CASE WriteReady("SecretNotFound") /\ Return(FALSE, "soon")
    <3>1. Noted /\ dropped' = dropped
      BY <1>2, <2>1 DEF WriteReady, Reasons
    <3>2. upsets' = upsets \/ (upsets < MaxUpsets /\ upsets' = upsets + 1)
      BY <1>3, <2>1 DEF WriteReady
    <3> QED
      BY <1>6, <2>1, <3>1, <3>2
  <2>2. CASE Fault /\ Stamp("SourceUnreachable") /\ UNCHANGED dropped /\ Return(TRUE, "none")
    <3>1. Noted /\ dropped' = dropped /\ (upsets < MaxUpsets /\ upsets' = upsets + 1)
      BY <1>2, <1>3, <2>2 DEF Reasons
    <3> QED
      BY <1>6, <2>2, <3>1
  <2>3. CASE Fault /\ Return(TRUE, "none") /\ UNCHANGED mdVars
    <3>1. Noted /\ dropped' = dropped /\ (upsets < MaxUpsets /\ upsets' = upsets + 1)
      BY <1>3, <2>3 DEF mdVars, Noted
    <3> QED
      BY <1>6, <2>3, <3>1
  <2> QED
    BY <1>8, <2>1, <2>2, <2>3 DEF SourceFails
<1>9. CASE Finish
  <2>1. w.pc = "finish" /\ w.m.ready \in Reasons
    BY <1>1, <1>9 DEF Finish, MDs
  <2>2. CASE LoseStamp /\ Return(TRUE, "none") /\ UNCHANGED dropped
    <3>1. Noted /\ dropped' = dropped /\ (upsets < MaxUpsets /\ upsets' = upsets + 1)
      BY <1>2, <1>3, <2>1, <2>2
    <3> QED
      BY <1>6, <2>2, <3>1
  <2>3. CASE /\ Stamp(w.m.ready) /\ Forget /\ UNCHANGED upsets
             /\ Return(FALSE, IF ~w.cur THEN "none" ELSE IF w.soon THEN "soon" ELSE "refresh")
    <3>1. Noted /\ upsets' = upsets
      BY <1>2, <2>1, <2>3
    <3>2. /\ dropped \subseteq dropped' /\ dropped' \subseteq dropped \cup {w.d}
          /\ w.cur \/ w.d \in queue \/ News(w.d) \/ w.d \in dropped'
      BY <1>4, <1>5, <2>1, <2>3
    <3>3. PICK t \in {"none", "soon", "refresh"} : Return(FALSE, t) /\ (w.cur => t # "none")
      BY <2>3
    <3> QED
      BY <1>6, <3>1, <3>2, <3>3
  <2> QED
    BY <1>9, <2>2, <2>3 DEF Finish, WriteStatus
<1>10. CASE DrainWait
  <2>1. Return(FALSE, "soon")
    BY <1>10 DEF DrainWait
  <2>2. Noted /\ dropped' = dropped
    BY <1>2, <1>10 DEF DrainWait, WriteReady, mdVars, Noted, Reasons
  <2>3. upsets' = upsets \/ (upsets < MaxUpsets /\ upsets' = upsets + 1)
    BY <1>3, <1>10 DEF DrainWait, WriteReady
  <2> QED
    BY <1>6, <2>1, <2>2, <2>3
<1> QED
  BY <1>7, <1>8, <1>9, <1>10

\* Every step keeps the types.
LEMMA StepTyped == IInv /\ [Next]_vars => Typed'
<1> SUFFICES ASSUME IInv, [Next]_vars, ChildTyped' PROVE Typed'
  BY StepChildren
<1> USE DEF IInv, mdVars
<1>1. CASE (Misconfigured \/ SourceFails \/ Finish \/ DrainWait) /\ UNCHANGED srcVars
  <2>1. /\ w.d \in Discoveries /\ Noted /\ dropped' \subseteq Discoveries
        /\ upsets' \in 0 .. MaxUpsets
    BY <1>1, Reported, DiscoveryAssumption DEF Typed
  <2>2. PICK again \in BOOLEAN, t \in {"none", "soon", "refresh"} : Return(again, t)
    BY <1>1, Reported
  <2>3. /\ w' \in Works /\ queue' \subseteq Discoveries
        /\ timer' \in [Discoveries -> {"none", "soon", "refresh"}]
    BY <2>1, <2>2, Returned, IdleWork
  <2>4. /\ md' \in [Discoveries -> MDs] /\ mdSeen' \in [Discoveries -> MDs]
        /\ mdBehind' \subseteq Discoveries
    BY <2>1, NotedFacts DEF Typed
  <2> QED
    BY <1>1, <2>1, <2>3, <2>4 DEF Typed, srcVars
<1>2. CASE ListModels
  <2>1. Kept(w.d, F) \in SUBSET Names
    BY <1>2 DEF ListModels, Kept, Serving, Typed
  <2> QED
    BY <1>2, <2>1, EnumeratedWork DEF ListModels, Typed, srcVars
<1>3. CASE Classify
  <2>1. w' \in Works
    BY <1>3, Classified DEF SameReconcile
  <2> QED
    BY <1>3, <2>1, DiscoveryAssumption DEF Classify, ClassifyChild, Upset, Fault, Typed, srcVars
<1>4. CASE Apply
  <2>1. w' \in Works
    BY <1>4, AppliedChild DEF SameReconcile
  <2> QED
    BY <1>4, <2>1, DiscoveryAssumption DEF Apply, ApplyChild, Upset, Fault, Typed, srcVars
<1>5. CASE SyncAliases
  <2>1. w' \in Works
    <3>1. \E r \in Reasons : w' = Closing(r)
      BY <1>5 DEF SyncAliases, Result, Reasons
    <3> QED
      BY <3>1, ClosingWork DEF Typed
  <2> QED
    BY <1>5, <2>1, DiscoveryAssumption DEF SyncAliases, Upset, Fault, Typed, srcVars
<1>6. CASE DrainDelete /\ UNCHANGED srcVars
  <2>1. w.d \in Discoveries
    BY <1>6 DEF DrainDelete, Serving
  <2>2. CASE Return(TRUE, "none") /\ Fault
    <3>1. w' \in Works /\ queue' \subseteq Discoveries
          /\ timer' \in [Discoveries -> {"none", "soon", "refresh"}]
      BY <2>1, <2>2, IdleWork DEF Return, Sooner, Typed
    <3> QED
      BY <1>6, <2>2, <3>1, DiscoveryAssumption DEF DrainDelete, Upset, Fault, Typed, srcVars
  <2>3. ASSUME NEW n \in w.todo, w' = [w EXCEPT !.todo = @ \ {n}], UNCHANGED <<queue, timer, upsets>>
        PROVE  Typed'
    <3>1. w' \in Works
      BY <2>3, Zenon DEF Typed, Works
    <3> QED
      BY <1>6, <2>3, <3>1 DEF DrainDelete, Typed, srcVars
  <2> QED
    BY <1>6, <2>2, <2>3 DEF DrainDelete
<1>7. CASE Vanish /\ UNCHANGED srcVars
  <2>1. PICK n \in Doomed : \/ w' = [w EXCEPT !.mine = @ \ {n}]
                            \/ w' = [[w EXCEPT !.mine = @ \ {n}] EXCEPT !.soon = TRUE]
    BY <1>7 DEF Vanish
  <2>2. [w EXCEPT !.mine = @ \ {n}] \in Works
    BY Zenon DEF Typed, Works
  <2>3. w' \in Works
    BY <2>1, <2>2, SoonWork
  <2> QED
    BY <1>7, <2>3, DiscoveryAssumption DEF Vanish, Upset, Fault, Typed, srcVars
<1>8. ASSUME NEW d \in Discoveries, Publish(d) PROVE Typed'
  BY <1>8, DiscoveryAssumption DEF Publish, Upset, Fault, Typed
<1>9. ASSUME NEW d \in Discoveries, SourceChange(d) PROVE Typed'
  BY <1>9, DiscoveryAssumption DEF SourceChange, Upset, Fault, Typed
<1>10. ASSUME NEW d \in Discoveries, UserAlias(d) PROVE Typed'
  BY <1>10, DiscoveryAssumption DEF UserAlias, Upset, runVars, srcVars, Typed
<1>11. ASSUME NEW d \in Discoveries, CollectAlias(d) PROVE Typed'
  BY <1>11 DEF CollectAlias, coreVars, runVars, srcVars, Typed
<1>12. CASE Crash /\ UNCHANGED srcVars
  <2>1. mdSeen' \in [Discoveries -> MDs]
    <3>1. \A d \in Discoveries : Bare(md[d]) \in MDs
      BY CopyForms DEF Typed
    <3> QED
      BY <1>12, <3>1 DEF Crash
  <2> QED
    BY <1>12, <2>1, IdleWork, DiscoveryAssumption DEF Crash, Upset, Typed, srcVars
<1>13. ASSUME NEW d \in Discoveries, Tick(d) /\ UNCHANGED srcVars PROVE Typed'
  BY <1>13 DEF Tick, srcVars, Typed
<1>14. ASSUME NEW d \in Discoveries, TouchMD(d) /\ UNCHANGED srcVars PROVE Typed'
  <2>1. md' \in [Discoveries -> MDs]
    <3>1. md[d] \in MDs /\ md[d].gen + 1 \in Gens /\ md[d].uid + 1 \in Uids /\ md[d].uid \in Uids
      BY <1>14, DiscoveryAssumption DEF TouchMD, Upset, Fault, Typed, Counted, MDs, Uids, Gens
    <3>2. /\ Absent(md[d].uid) \in MDs /\ Created(md[d].uid + 1) \in MDs
      <4>1. /\ Absent(md[d].uid) \in MDs /\ Absent(md[d].uid + 1) \in MDs
            /\ 1 \in Gens
        BY <3>1, DiscoveryAssumption DEF Absent, MDs, Gens, Reasons
      <4> QED
        BY <4>1, Zenon DEF Created, MDs
    <3>3. [md[d] EXCEPT !.gen = @ + 1] \in MDs /\ [md[d] EXCEPT !.st = "deleting"] \in MDs
      BY <3>1, Zenon DEF MDs
    <3>4. md' = md \/ \E m \in MDs : md' = [md EXCEPT ![d] = m]
      BY <1>14, <3>2, <3>3 DEF TouchMD, Typed
    <3> QED
      BY <3>4 DEF Typed
  <2>2. w' \in Works
    BY <1>14, Zenon DEF TouchMD, Typed, Works
  <2> QED
    BY <1>14, <2>1, <2>2, DiscoveryAssumption DEF TouchMD, Upset, Fault, Typed, srcVars
<1>15. ASSUME NEW n \in Names, Observe(n) /\ UNCHANGED srcVars PROVE Typed'
  BY <1>15 DEF Observe, OwnersNamed, srcVars, Typed
<1>16. ASSUME NEW n \in Names, ChildGone(n) /\ UNCHANGED srcVars PROVE Typed'
  BY <1>16, DisturbWork, DiscoveryAssumption DEF ChildGone, Upset, Fault, Typed, srcVars
<1>17. ASSUME NEW n \in Names, Collect(n) /\ UNCHANGED srcVars PROVE Typed'
  BY <1>17, DisturbWork, DiscoveryAssumption DEF Collect, Upset, Fault, Typed, srcVars
<1>18. ASSUME NEW n \in Names, TouchChild(n) /\ UNCHANGED srcVars PROVE Typed'
  BY <1>18, DisturbWork, DiscoveryAssumption DEF TouchChild, Upset, Fault, Typed, srcVars
<1>19. ASSUME NEW d \in Discoveries, Begin(d) /\ UNCHANGED srcVars PROVE Typed'
  <2>1. w' \in Works
    BY <1>19, Began DEF Typed
  <2>2. /\ UNCHANGED timer /\ queue' \subseteq Discoveries /\ dropped' \subseteq Discoveries
        /\ upsets' \in 0 .. MaxUpsets
    BY <1>19, Began, DiscoveryAssumption DEF Typed
  <2> QED
    BY <1>19, <2>1, <2>2, Began DEF Typed, srcVars
<1>20. ASSUME NEW d \in Discoveries, ObserveMD(d) /\ UNCHANGED srcVars PROVE Typed'
  <2>1. Bare(md[d]) \in MDs
    BY CopyForms DEF Typed
  <2> QED
    BY <1>20, <2>1 DEF ObserveMD, Typed, srcVars
<1>21. CASE UNCHANGED vars
  BY <1>21 DEF vars, coreVars, childVars, runVars, srcVars, Typed
<1> QED
  BY <1>1, <1>2, <1>3, <1>4, <1>5, <1>6, <1>7, <1>8, <1>9, <1>10, <1>11, <1>12, <1>13,
     <1>14, <1>15, <1>16, <1>17, <1>18, <1>19, <1>20, <1>21
  DEF Next, Reconcile, Outside, Quiet, Proceed, Housekeeping, Misconfigured, SourceFails, Finish

\* Who writes a Discovery, or hears of one.
LEMMA DiscoveryWriters ==
  [Next]_vars => \/ UNCHANGED <<md, mdSeen>> /\ (upsets' = upsets \/ upsets' = upsets + 1)
                 \/ Misconfigured \/ SourceFails \/ Finish \/ DrainWait \/ Crash
                 \/ \E d \in Discoveries : Begin(d) \/ ObserveMD(d) \/ TouchMD(d)
  BY DEF Next, Reconcile, Outside, Quiet, Proceed, Housekeeping, vars, coreVars, mdVars, Upset,
         Fault, ListModels, Classify, ClassifyChild, Apply, ApplyChild, SyncAliases, DrainDelete,
         Vanish, Publish, SourceChange, UserAlias, CollectAlias, Tick, Observe, ChildGone, Collect,
         TouchChild

\* Later is a strict order on specs.
LEMMA LaterOrder ==
  ASSUME NEW a \in MDs, NEW b \in MDs, NEW c \in MDs
  PROVE  /\ Later(a, b) => SpecOf(a) # SpecOf(b)
         /\ Later(a, b) /\ (Later(b, c) \/ SpecOf(b) = SpecOf(c)) => Later(a, c)
         /\ SpecOf(a) = SpecOf(b) /\ Later(b, c) => Later(a, c)
<1>1. \A m \in MDs : m.uid \in Nat /\ m.gen \in Nat /\ m.st \in {"live", "deleting", "absent"}
  BY DiscoveryAssumption DEF MDs, Uids, Gens
<1>2. Rank("live") = 0 /\ Rank("deleting") = 1 /\ Rank("absent") = 2
  BY DEF Rank
<1>3. \A x, y \in MDs : SpecOf(x) = SpecOf(y) <=> x.st = y.st /\ x.uid = y.uid /\ x.gen = y.gen
  BY DEF SpecOf
<1>4. \A x \in MDs : Rank(x.st) \in Nat
  BY <1>1, <1>2
<1> QED
  BY <1>1, <1>3, <1>4 DEF Later

\* What a user may do to a Discovery makes its spec a later one, or leaves it.
LEMMA Touched ==
  ASSUME Typed, Counted, NEW d \in Discoveries, TouchMD(d), md' \in [Discoveries -> MDs]
  PROVE  /\ upsets' = upsets + 1 /\ mdSeen' = mdSeen
         /\ \A e \in Discoveries \ {d} : md'[e] = md[e]
         /\ md'[d] = md[d] \/ Later(md'[d], md[d])
         /\ md'[d].uid \in {md[d].uid, md[d].uid + 1}
         /\ md'[d].gen \in {md[d].gen, md[d].gen + 1, 0, 1}
         /\ md'[d].st = "deleting" => md'[d].fin
<1>1. md[d] \in MDs /\ upsets' = upsets + 1 /\ mdSeen' = mdSeen
      /\ md[d].uid \in Nat /\ md[d].gen \in Nat
  BY DiscoveryAssumption DEF TouchMD, Upset, Typed, MDs, Uids, Gens
<1>2. /\ \A e \in Discoveries \ {d} : md'[e] = md[e]
      /\ \/ md'[d] = md[d]
         \/ md[d].st = "live" /\ md'[d] = [md[d] EXCEPT !.gen = @ + 1]
         \/ md[d].st = "live" /\ md[d].fin /\ md'[d] = [md[d] EXCEPT !.st = "deleting"]
         \/ md[d].st = "live" /\ md'[d] = Absent(md[d].uid)
         \/ md[d].st = "absent" /\ md'[d] = Created(md[d].uid + 1)
  BY DEF TouchMD, Typed
<1>3. Rank("live") = 0 /\ Rank("deleting") = 1 /\ Rank("absent") = 2
  BY DEF Rank
<1>4. \A u : /\ Absent(u).uid = u /\ Absent(u).gen = 0 /\ Absent(u).st = "absent"
             /\ Created(u).uid = u /\ Created(u).gen = 1 /\ Created(u).st = "live"
  BY Zenon DEF Absent, Created
<1>5. CASE md'[d] = md[d]
  BY <1>1, <1>2, <1>5 DEF Counted
<1>6. CASE md[d].st = "live" /\ md'[d] = [md[d] EXCEPT !.gen = @ + 1]
  <2>1. md'[d].uid = md[d].uid /\ md'[d].gen = md[d].gen + 1 /\ md'[d].st = "live"
    BY <1>1, <1>6 DEF MDs
  <2> QED
    BY <1>1, <1>2, <1>6, <2>1 DEF Later
<1>7. CASE md[d].st = "live" /\ md[d].fin /\ md'[d] = [md[d] EXCEPT !.st = "deleting"]
  <2>1. /\ md'[d].uid = md[d].uid /\ md'[d].gen = md[d].gen /\ md'[d].st = "deleting"
        /\ md'[d].fin
    BY <1>1, <1>7 DEF MDs
  <2> QED
    BY <1>1, <1>2, <1>3, <1>7, <2>1 DEF Later
<1>8. CASE md[d].st = "live" /\ md'[d] = Absent(md[d].uid)
  BY <1>1, <1>2, <1>3, <1>4, <1>8 DEF Later
<1>9. CASE md[d].st = "absent" /\ md'[d] = Created(md[d].uid + 1)
  BY <1>1, <1>2, <1>4, <1>9 DEF Later
<1> QED
  BY <1>2, <1>5, <1>6, <1>7, <1>8, <1>9

\* How a Discovery and the informer's copy of it move.
LEMMA DiscoveryMoves ==
  ASSUME IInv, [Next]_vars, NEW d \in Discoveries
  PROVE  /\ mdSeen'[d] \in {mdSeen[d], Bare(md[d])}
         /\ \/ SpecOf(md'[d]) = SpecOf(md[d]) /\ (md[d].fin => md'[d].fin)
            \/ md[d].st = "deleting" /\ md'[d] = Absent(md[d].uid)
            \/ TouchMD(d)
<1> USE DEF IInv
<1>1. CASE UNCHANGED <<md, mdSeen>>
  BY <1>1
<1>2. CASE Misconfigured \/ SourceFails \/ Finish \/ DrainWait
  <2>1. w.d \in Discoveries /\ Noted
    BY <1>2, Reported
  <2> QED
    BY <2>1, NotedFacts DEF SpecOf
<1>3. CASE Crash
  BY <1>3 DEF Crash
<1>4. ASSUME NEW e \in Discoveries, Begin(e) PROVE /\ mdSeen'[d] \in {mdSeen[d], Bare(md[d])}
         /\ \/ SpecOf(md'[d]) = SpecOf(md[d]) /\ (md[d].fin => md'[d].fin)
            \/ md[d].st = "deleting" /\ md'[d] = Absent(md[d].uid)
  BY <1>4, Began
<1>5. ASSUME NEW e \in Discoveries, ObserveMD(e)
      PROVE  mdSeen'[d] \in {mdSeen[d], Bare(md[d])} /\ md' = md
  BY <1>5 DEF ObserveMD, Typed
<1>6. ASSUME NEW e \in Discoveries, TouchMD(e), e # d
      PROVE  mdSeen' = mdSeen /\ md'[d] = md[d]
  BY <1>6 DEF TouchMD, Typed
<1>7. TouchMD(d) => mdSeen' = mdSeen
  BY DEF TouchMD
<1> QED
  BY <1>1, <1>2, <1>3, <1>4, <1>5, <1>6, <1>7, DiscoveryWriters

\* Every step keeps the counts, and the informer behind the API server.
LEMMA StepCounted == IInv /\ [Next]_vars => Counted' /\ Trails'
<1> SUFFICES ASSUME IInv, [Next]_vars, NEW d \in Discoveries
             PROVE  /\ md'[d].uid \in 1 .. upsets' + 1
                    /\ md'[d].gen <= upsets' + 1
                    /\ md'[d].st = "deleting" => md'[d].fin
                    /\ mdSeen'[d].uid # 0 /\ (mdSeen'[d].st = "deleting" => mdSeen'[d].fin)
                    /\ SpecOf(mdSeen'[d]) = SpecOf(md'[d]) \/ Later(md'[d], mdSeen'[d])
  BY DEF Counted, Trails
<1> USE DEF IInv
<1>1. md' \in [Discoveries -> MDs] /\ md[d] \in MDs /\ mdSeen[d] \in MDs /\ md'[d] \in MDs
      /\ upsets \in Nat
  BY StepTyped, DiscoveryAssumption DEF Typed
<1>2. upsets' = upsets \/ upsets' = upsets + 1
  BY DiscoveryWriters, Reported, Began DEF Crash, ObserveMD, TouchMD, Upset
<1>3. /\ Bare(md[d]) \in MDs /\ SpecOf(Bare(md[d])) = SpecOf(md[d]) /\ Bare(md[d]).fin = md[d].fin
  BY <1>1, CopyForms
<1>4. \A x, y \in MDs : SpecOf(x) = SpecOf(y) <=> x.st = y.st /\ x.uid = y.uid /\ x.gen = y.gen
  BY DEF SpecOf
<1>5. \A m \in MDs : m.uid \in Nat /\ m.gen \in Nat
  BY DiscoveryAssumption DEF MDs, Uids, Gens
<1>6. /\ mdSeen'[d].uid # 0 /\ (mdSeen'[d].st = "deleting" => mdSeen'[d].fin)
      /\ mdSeen'[d] \in MDs
  BY <1>1, <1>3, <1>4, DiscoveryMoves DEF Counted
<1>7. /\ md'[d].uid \in 1 .. upsets' + 1 /\ md'[d].gen <= upsets' + 1
      /\ md'[d].st = "deleting" => md'[d].fin
      /\ SpecOf(md'[d]) = SpecOf(md[d]) \/ Later(md'[d], md[d])
  <2>1. CASE SpecOf(md'[d]) = SpecOf(md[d]) /\ (md[d].fin => md'[d].fin)
    BY <1>1, <1>2, <1>4, <1>5, <2>1 DEF Counted
  <2>2. CASE md[d].st = "deleting" /\ md'[d] = Absent(md[d].uid)
    <3>1. md'[d].uid = md[d].uid /\ md'[d].gen = 0 /\ md'[d].st = "absent"
      BY <2>2 DEF Absent
    <3>2. Rank("deleting") = 1 /\ Rank("absent") = 2
      BY DEF Rank
    <3> QED
      BY <1>1, <1>2, <1>5, <2>2, <3>1, <3>2 DEF Counted, Later
  <2>3. CASE TouchMD(d)
    BY <1>1, <1>5, <2>3, Touched DEF Counted
  <2> QED
    BY <2>1, <2>2, <2>3, DiscoveryMoves
<1>8. SpecOf(mdSeen'[d]) = SpecOf(md'[d]) \/ Later(md'[d], mdSeen'[d])
  <2>1. SpecOf(mdSeen'[d]) = SpecOf(md[d]) \/ Later(md[d], mdSeen'[d])
    BY <1>3, DiscoveryMoves DEF Trails
  <2> QED
    BY <1>1, <1>6, <1>7, <2>1, LaterOrder
<1> QED
  BY <1>6, <1>7, <1>8

\* How the worker's record moves.  Only between reconciles does anything leave
\* the queue.
LEMMA WorkSteps ==
  [Next]_vars => \/ UNCHANGED <<w, child, md, mdSeen>> /\ queue \subseteq queue'
                 \/ w' = Idle
                 \/ ListModels \/ Classify \/ Apply \/ Vanish \/ DrainDelete \/ SyncAliases
                 \/ \E n \in Names : ChildGone(n) \/ Collect(n) \/ TouchChild(n)
                 \/ \E d \in Discoveries : Begin(d) \/ ObserveMD(d) \/ TouchMD(d)
  BY DEF Next, Reconcile, Outside, Quiet, Proceed, Housekeeping, vars, coreVars, mdVars, childVars,
         runVars, Misconfigured, Park, SourceFails, Finish, WriteStatus, Return, DrainWait,
         Publish, SourceChange, UserAlias, CollectAlias, Crash, Tick, Observe

\* What others do to a child is theirs to do, and is noticed.
LEMMA Disturbed ==
  ASSUME ChildTyped, Informed, NEW n \in Names, ChildGone(n) \/ Collect(n) \/ TouchChild(n)
  PROVE  /\ w' = Disturb(w, n)
         /\ \A k \in Names \ {n} : child'[k] = child[k]
         /\ child'[n].label \in {child[n].label, "none"}
<1>1. w' = Disturb(w, n)
  BY DEF ChildGone, Collect, TouchChild
<1> DEFINE Goal == /\ \A k \in Names \ {n} : child'[k] = child[k]
                   /\ child'[n].label \in {child[n].label, "none"}
<1>2. ASSUME Delete(n) PROVE Goal
  BY <1>2, DeleteChild, Zenon
<1>3. ASSUME Store(n, NoChild, TRUE) PROVE Goal
  BY <1>3, ChildForms DEF Store, ChildTyped
<1>4. ASSUME TouchChild(n), ~Delete(n) PROVE Goal
  BY <1>4, ChildForms DEF TouchChild, Store, ChildTyped, Children
<1> QED
  BY <1>1, <1>2, <1>3, <1>4 DEF ChildGone, Collect

\* Every step keeps to whom the worker's record belongs, and what brings back
\* a Discovery that changed under it.
LEMMA StepServing == IInv /\ [Next]_vars => Serving' /\ Held'
<1> SUFFICES ASSUME IInv, [Next]_vars PROVE Serving' /\ Held'
  OBVIOUS
<1> USE DEF IInv
\* Most steps leave whose reconcile it is and what it read.
<1>1. ASSUME w'.pc = "idle" <=> w.pc = "idle", w'.pc = "source" => w.pc = "source",
             w'.d = w.d, w'.cur = w.cur, SpecOf(w'.m) = SpecOf(w.m), w'.m.st = w.m.st,
             UNCHANGED <<md, mdSeen>>, queue \subseteq queue'
      PROVE  Held'
  BY <1>1 DEF Held, News
<1>2. CASE w' = Idle
  BY <1>2, IdleWork DEF Serving, Held
<1>3. CASE ListModels
  <2>1. Kept(w.d, F) \in SUBSET Names
    BY <1>3 DEF ListModels, Kept, Serving, Typed
  <2>2. w'.pc = "write" /\ w'.d = w.d /\ w'.m = w.m /\ w'.cur = w.cur
    BY <1>3, <2>1, EnumeratedWork DEF ListModels, Typed
  <2>3. UNCHANGED <<md, mdSeen, queue>> /\ w.pc = "source"
    BY <1>3 DEF ListModels, mdVars
  <2> QED
    BY <1>1, <2>2, <2>3 DEF Serving
<1>4. CASE Classify
  <2>1. w.pc = "write" /\ UNCHANGED <<md, mdSeen, queue>>
    BY <1>4 DEF Classify, ClassifyChild, mdVars
  <2>2. PICK n \in w.todo :
           /\ SameReconcile
           /\ \/ Settled(n)
              \/ w'.pc = "apply" /\ w'.todo = w.todo /\ w'.n = n /\ w'.found \in {"mine", "absent"}
    BY <1>4, Classified
  <2> QED
    BY <1>1, <2>1, <2>2 DEF SameReconcile, Settled, Serving
<1>5. CASE Apply
  <2>1. w.pc = "apply" /\ UNCHANGED <<md, mdSeen, queue>>
    BY <1>5 DEF Apply, ApplyChild, mdVars
  <2>2. SameReconcile /\ Settled(w.n)
    BY <1>5, AppliedChild
  <2> QED
    BY <1>1, <2>1, <2>2 DEF SameReconcile, Settled, Serving
<1>6. CASE Vanish
  <2>1. w.pc = "write" /\ UNCHANGED <<md, mdSeen, queue>>
    BY <1>6 DEF Vanish, mdVars
  <2>2. w'.pc = w.pc /\ w'.d = w.d /\ w'.m = w.m /\ w'.cur = w.cur
    BY <1>6 DEF Vanish, Typed, Works
  <2> QED
    BY <1>1, <2>1, <2>2 DEF Serving
<1>7. CASE DrainDelete
  <2>1. CASE w' = Idle
    BY <1>2, <2>1
  <2>2. CASE UNCHANGED queue /\ \E n \in w.todo : w' = [w EXCEPT !.todo = @ \ {n}]
    <3>1. w'.pc = w.pc /\ w'.d = w.d /\ w'.m = w.m /\ w'.cur = w.cur
      BY <2>2 DEF Typed, Works
    <3>2. w.pc = "drain" /\ UNCHANGED <<md, mdSeen>>
      BY <1>7 DEF DrainDelete, mdVars
    <3> QED
      BY <1>1, <2>2, <3>1, <3>2 DEF Serving
  <2> QED
    BY <1>7, <2>1, <2>2 DEF DrainDelete, Return
<1>8. CASE SyncAliases
  <2>1. \E r \in Reasons : w' = Closing(r)
    BY <1>8 DEF SyncAliases, Result, Reasons
  <2>2. /\ w'.pc = "finish" /\ w'.d = w.d /\ w'.cur = w.cur /\ w'.m.uid = w.m.uid
        /\ w'.m.gen = w.m.gen /\ w'.m.st = w.m.st
    BY <2>1, ClosingWork DEF Typed
  <2>3. w.pc = "write" /\ UNCHANGED <<md, mdSeen, queue>>
    BY <1>8 DEF SyncAliases, mdVars
  <2>4. SpecOf(w'.m) = SpecOf(w.m)
    BY <2>2 DEF SpecOf
  <2> QED
    BY <1>1, <2>2, <2>3, <2>4 DEF Serving
<1>9. ASSUME NEW n \in Names, ChildGone(n) \/ Collect(n) \/ TouchChild(n)
      PROVE  Serving' /\ Held'
  <2>1. w' = Disturb(w, n) /\ UNCHANGED <<md, mdSeen, queue>>
    BY <1>9 DEF ChildGone, Collect, TouchChild, mdVars
  <2>2. /\ w'.pc = w.pc /\ w'.d = w.d /\ w'.m = w.m /\ w'.cur = w.cur
        /\ w'.n = w.n /\ w'.todo = w.todo /\ w'.found = w.found
    BY <2>1, DisturbWork DEF Typed
  <2> QED
    BY <1>1, <2>1, <2>2 DEF Serving
<1>10. ASSUME NEW d \in Discoveries, Begin(d) PROVE Serving' /\ Held'
  <2>1. w.pc = "idle"
    BY <1>10, Began
  <2>2. CASE w' = w
    BY <2>1, <2>2 DEF Serving, Held
  <2>3. CASE /\ w'.d = d /\ w'.pc \in {"drain", "source"} /\ w'.m.uid # 0
             /\ SpecOf(w'.m) = SpecOf(md'[d]) \/ (~w'.cur /\ News(d)')
             /\ w'.pc = "source" => w'.m.st = "live"
    BY <2>3 DEF Serving, Held, News
  <2> QED
    BY <1>10, <2>2, <2>3, Began
<1>11. ASSUME NEW d \in Discoveries, ObserveMD(d) PROVE Serving' /\ Held'
  <2>1. /\ w' = w /\ md' = md /\ queue' = queue \cup {d}
        /\ \A e \in Discoveries \ {d} : mdSeen'[e] = mdSeen[e]
    BY <1>11 DEF ObserveMD, Typed
  <2> QED
    BY <2>1 DEF Serving, Held, News
<1>12. ASSUME NEW d \in Discoveries, TouchMD(d) PROVE Serving' /\ Held'
  <2>1. /\ w'.pc = w.pc /\ w'.d = w.d /\ w'.m = w.m
        /\ w'.n = w.n /\ w'.todo = w.todo /\ w'.found = w.found
    BY <1>12 DEF TouchMD, Typed, Works
  <2>2. w.d = d => ~w'.cur
    BY <1>12, Zenon DEF TouchMD, Typed, Works
  <2>3. w.d # d => w'.cur = w.cur
    BY <1>12 DEF TouchMD, Typed, Works
  <2>4. md' \in [Discoveries -> MDs] /\ queue' = queue
    BY <1>12, StepTyped DEF TouchMD, Typed
  <2>5. /\ \A e \in Discoveries \ {d} : md'[e] = md[e]
        /\ mdSeen' = mdSeen /\ (md'[d] = md[d] \/ Later(md'[d], md[d]))
    BY <1>12, <2>4, Touched
  <2>6. md'[d] = md[d] \/ SpecOf(mdSeen'[d]) # SpecOf(md'[d])
    <3>1. md[d] \in MDs /\ mdSeen[d] \in MDs /\ md'[d] \in MDs
      BY <2>4 DEF Typed
    <3> QED
      BY <2>5, <3>1, LaterOrder DEF Trails
  <2>7. Serving'
    BY <2>1 DEF Serving
  <2>8. Held'
    <3>1. CASE w.d = d
      BY <2>1, <2>2, <2>4, <2>5, <2>6, <3>1 DEF Held, News
    <3>2. CASE w.d # d
      BY <2>1, <2>3, <2>4, <2>5, <3>2 DEF Held, News, Serving
    <3> QED
      BY <3>1, <3>2
  <2> QED
    BY <2>7, <2>8
<1>13. CASE UNCHANGED <<w, child, md, mdSeen>> /\ queue \subseteq queue'
  BY <1>1, <1>13 DEF Serving
<1> QED
  BY <1>2, <1>3, <1>4, <1>5, <1>6, <1>7, <1>8, <1>9, <1>10, <1>11, <1>12, <1>13, WorkSteps

\* Every step keeps what the ownership check found and the account of the
\* candidates.
LEMMA StepAccounted == IInv /\ [Next]_vars => Checked' /\ Accounted'
<1> SUFFICES ASSUME IInv, [Next]_vars PROVE Checked' /\ Accounted'
  OBVIOUS
<1> USE DEF IInv
<1>1. CASE UNCHANGED <<w, child>>
  BY <1>1 DEF Checked, Accounted, Me
<1>2. CASE w' = Idle
  BY <1>2, IdleWork DEF Checked, Accounted
<1>3. CASE ListModels
  <2> DEFINE kept == Kept(w.d, F)
  <2>1. kept \in SUBSET Names
    BY <1>3 DEF ListModels, Kept, Serving, Typed
  <2>2. w' = Enumerated(kept, {}) /\ UNCHANGED <<child, behind>>
    BY <1>3 DEF ListModels, childVars
  <2> HIDE DEF kept
  <2>3. /\ w' \in Works /\ w'.pc = "write" /\ w'.d = w.d /\ w'.m = w.m
        /\ w'.kept = kept /\ w'.fresh = Names \ behind
        /\ \A n \in kept : n \in w'.todo \/ w'.out[n] = "skipped"
        /\ \A n \in w'.mine : seen[n].owner = Me
        /\ \A n \in Names : w'.out[n] # "blocked"
    BY <2>1, <2>2, EnumeratedWork DEF Typed
  <2>4. Me' = Me
    BY <2>3 DEF Me
  <2> QED
    BY <2>2, <2>3, <2>4 DEF Checked, Accounted, Informed
<1>4. CASE Classify
  <2>1. w.pc = "write" /\ UNCHANGED child
    BY <1>4 DEF Classify, ClassifyChild, childVars
  <2>2. PICK n \in w.todo :
           /\ SameReconcile /\ w'.fresh = w.fresh
           /\ \/ Settled(n)
              \/ /\ w'.pc = "apply" /\ w'.todo = w.todo /\ w'.out = w.out
                 /\ w'.n = n
                 /\ \/ w'.found = "mine" /\ child[n].owner = Me
                    \/ w'.found = "absent" /\ child[n] = NoChild
    BY <1>4, Classified
  <2>3. Me' = Me
    BY <2>2 DEF SameReconcile, Me
  <2>4. Accounted'
    BY <2>1, <2>2, <2>3 DEF Accounted, SameReconcile, Settled, Typed, Works
  <2>5. Checked'
    BY <2>1, <2>2, <2>3, ChildForms DEF Checked, Settled
  <2> QED
    BY <2>4, <2>5
<1>5. CASE Apply
  <2>1. w.pc = "apply" /\ w.n \in Names
    BY <1>5, AppliedChild DEF Apply, ApplyChild
  <2>2. SameReconcile /\ Settled(w.n) /\ w'.fresh \subseteq w.fresh
    BY <1>5, AppliedChild
  <2>3. Me' = Me
    BY <2>2 DEF SameReconcile, Me
  <2>4. \A k \in w'.fresh : child'[k] = child[k]
    <3>1. CASE UNCHANGED childVars
      BY <3>1 DEF childVars
    <3>2. ASSUME NEW told \in BOOLEAN, Store(w.n, Applied(child[w.n], w.m.gen), told),
                 child[w.n] = Applied(child[w.n], w.m.gen) \/ w.n \notin w'.fresh
          PROVE  \A k \in w'.fresh : child'[k] = child[k]
      <4>1. w'.fresh \subseteq Names
        BY <2>2 DEF SameReconcile, Works
      <4>2. child' = [child EXCEPT ![w.n] = Applied(child[w.n], w.m.gen)]
        BY <3>2 DEF Store
      <4> QED
        BY <2>1, <3>2, <4>1, <4>2 DEF Typed, ChildTyped
    <3> QED
      BY <1>5, <3>1, <3>2, AppliedChild, Zenon
  <2>5. w'.pc = "write"
    BY <2>2 DEF Settled
  <2> QED
    BY <2>1, <2>2, <2>3, <2>4, <2>5 DEF Checked, Accounted, SameReconcile, Settled, Typed, Works
<1>6. CASE Vanish
  <2>1. PICK n \in Doomed : /\ \/ w' = [w EXCEPT !.mine = @ \ {n}]
                               \/ w' = [[w EXCEPT !.mine = @ \ {n}] EXCEPT !.soon = TRUE]
                            /\ Delete(n) \/ UNCHANGED childVars
    BY <1>6 DEF Vanish
  <2>2. w.pc = "write" /\ n \in Names
    BY <1>6, <2>1 DEF Vanish, Doomed, Typed, Works
  <2>3. /\ w'.pc = w.pc /\ w'.d = w.d /\ w'.m = w.m /\ w'.mine = w.mine \ {n}
        /\ w'.kept = w.kept /\ w'.todo = w.todo /\ w'.spare = w.spare /\ w'.out = w.out
        /\ w'.fresh = w.fresh
    BY <2>1 DEF Typed, Works
  <2>4. \A k \in Names \ {n} : child'[k] = child[k]
    BY <2>1, <2>2, DeleteChild DEF Typed, childVars
  <2>5. Me' = Me /\ w.mine \subseteq Names
    BY <2>3 DEF Me, Typed, Works
  <2> QED
    BY <2>2, <2>3, <2>4, <2>5 DEF Checked, Accounted
<1>7. CASE DrainDelete
  <2>1. w'.pc \in {"idle", "drain"}
    BY <1>7, IdleWork DEF DrainDelete, Return, Typed, Works
  <2> QED
    BY <2>1 DEF Checked, Accounted
<1>8. CASE SyncAliases
  <2>1. \E r \in Reasons : w' = Closing(r)
    BY <1>8 DEF SyncAliases, Result, Reasons
  <2>2. w'.pc = "finish"
    BY <2>1, ClosingWork DEF Typed
  <2> QED
    BY <2>2 DEF Checked, Accounted
<1>9. ASSUME NEW n \in Names, ChildGone(n) \/ Collect(n) \/ TouchChild(n)
      PROVE  Checked' /\ Accounted'
  <2>1. /\ w' = Disturb(w, n)
        /\ \A k \in Names \ {n} : child'[k] = child[k]
        /\ child'[n].label \in {child[n].label, "none"}
    BY <1>9, Disturbed DEF Typed
  <2>2. /\ w'.pc = w.pc /\ w'.d = w.d /\ w'.m = w.m /\ w'.mine = w.mine
        /\ w'.kept = w.kept /\ w'.todo = w.todo /\ w'.spare = w.spare /\ w'.out = w.out
        /\ w'.n = w.n /\ w'.found = w.found
        /\ w'.fresh = w.fresh \ {n}
        /\ w'.live => w.live /\ w.n # n
    BY <2>1, DisturbWork DEF Typed
  <2>3. Me' = Me /\ w.mine \subseteq Names /\ (w.pc = "apply" => w.n \in Names)
    BY <2>2 DEF Me, Typed, Works, Serving
  <2>4. Checked'
    BY <2>1, <2>2, <2>3 DEF Checked
  <2>5. Accounted'
    BY <2>1, <2>2, <2>3 DEF Accounted
  <2> QED
    BY <2>4, <2>5
<1>10. ASSUME NEW d \in Discoveries, Begin(d) PROVE Checked' /\ Accounted'
  <2>1. (w' = w /\ UNCHANGED child) \/ w'.pc \in {"drain", "source"}
    BY <1>10, Began DEF childVars
  <2> QED
    BY <1>1, <2>1 DEF Checked, Accounted
<1>11. ASSUME NEW d \in Discoveries, TouchMD(d) PROVE Checked' /\ Accounted'
  <2>1. /\ w'.pc = w.pc /\ w'.d = w.d /\ w'.m = w.m /\ w'.mine = w.mine
        /\ w'.kept = w.kept /\ w'.todo = w.todo /\ w'.spare = w.spare /\ w'.out = w.out
        /\ w'.n = w.n /\ w'.found = w.found /\ w'.fresh = w.fresh /\ w'.live = w.live
    BY <1>11 DEF TouchMD, Typed, Works
  <2>2. UNCHANGED child /\ Me' = Me
    BY <1>11, <2>1 DEF TouchMD, childVars, Me
  <2> QED
    BY <2>1, <2>2 DEF Checked, Accounted
<1> QED
  BY <1>1, <1>2, <1>3, <1>4, <1>5, <1>6, <1>7, <1>8, <1>9, <1>10, <1>11, WorkSteps
  DEF ObserveMD, childVars

\* Every step leaves a Discovery with something that brings it back, or parked,
\* or with its last status write lost.
LEMMA StepRefresh == IInv /\ [Next]_vars => RefreshPending'
<1> SUFFICES ASSUME IInv, [Next]_vars PROVE RefreshPending'
  OBVIOUS
<1> USE DEF IInv
\* Most steps touch no Discovery and take nobody out of the queue.
<1>1. ASSUME UNCHANGED <<md, mdSeen, dropped>>, queue \subseteq queue',
             \A d \in Discoveries : timer[d] # "none" => timer'[d] # "none" \/ d \in queue',
             \A d \in Discoveries : w.d = d => w'.d = d \/ d \in queue' \/ timer'[d] # "none"
      PROVE  RefreshPending'
  BY <1>1 DEF RefreshPending, Attended, Parked, News
<1>2. CASE Misconfigured \/ SourceFails \/ Finish \/ DrainWait
  <2>1. w.d \in Discoveries /\ Noted /\ dropped \subseteq dropped'
    BY <1>2, Reported
  <2>2. PICK again \in BOOLEAN, t \in {"none", "soon", "refresh"} :
          /\ Return(again, t)
          /\ \/ again \/ t # "none" \/ w.d \in dropped' \/ w.d \in queue \/ News(w.d)
             \/ \E d \in Discoveries : d = w.d /\ Parked(d)'
    BY <1>2, Reported
  <2>3. /\ queue \subseteq queue' /\ (again => w.d \in queue')
        /\ t # "none" => timer'[w.d] # "none"
        /\ \A d \in Discoveries : timer[d] # "none" => timer'[d] # "none"
    BY <2>1, <2>2, Returned
  <2>4. \A d \in Discoveries : (News(d)' <=> News(d)) /\ (d # w.d => md'[d] = md[d])
    BY <2>1, NotedFacts DEF News, SpecOf
  <2>5. ASSUME NEW d \in Discoveries, d # w.d
        PROVE  (md[d].st = "absent" \/ Parked(d) \/ Attended(d) \/ d \in dropped)'
    <3>1. md'[d] = md[d] /\ (News(d)' <=> News(d))
      BY <2>4, <2>5
    <3>2. md[d].st = "absent" \/ Parked(d) \/ Attended(d) \/ d \in dropped
      BY DEF RefreshPending
    <3> QED
      BY <2>1, <2>3, <2>5, <3>1, <3>2 DEF Attended, Parked
  <2>6. ASSUME NEW d \in Discoveries, d = w.d
        PROVE  (md[d].st = "absent" \/ Parked(d) \/ Attended(d) \/ d \in dropped)'
    <3>1. \/ d \in queue' \/ timer'[d] # "none" \/ d \in dropped' \/ News(d)' \/ Parked(d)'
      BY <2>2, <2>3, <2>4, <2>6
    <3> QED
      BY <3>1 DEF Attended
  <2> QED
    BY <2>5, <2>6 DEF RefreshPending
<1>3. CASE DrainDelete
  <2>1. w.d \in Discoveries /\ UNCHANGED <<md, mdSeen, dropped>>
    BY <1>3 DEF DrainDelete, Serving, mdVars
  <2>2. CASE Return(TRUE, "none")
    <3>1. /\ queue \subseteq queue' /\ w.d \in queue'
          /\ \A d \in Discoveries : timer[d] # "none" => timer'[d] # "none"
      BY <2>1, <2>2, Returned
    <3> QED
      BY <1>1, <2>1, <3>1
  <2>3. CASE UNCHANGED <<queue, timer>> /\ \E n \in w.todo : w' = [w EXCEPT !.todo = @ \ {n}]
    <3>1. w'.d = w.d
      BY <2>3 DEF Typed, Works
    <3> QED
      BY <1>1, <2>1, <2>3, <3>1
  <2> QED
    BY <1>3, <2>2, <2>3 DEF DrainDelete
<1>4. CASE ListModels \/ Classify \/ Apply \/ Vanish \/ SyncAliases
  <2>1. w'.d = w.d
    <3>1. CASE ListModels
      <4>1. Kept(w.d, F) \in SUBSET Names
        BY <3>1 DEF ListModels, Kept, Serving, Typed
      <4> QED
        BY <3>1, <4>1, EnumeratedWork DEF ListModels, Typed
    <3>2. CASE Classify
      BY <3>2, Classified DEF SameReconcile
    <3>3. CASE Apply
      BY <3>3, AppliedChild DEF SameReconcile
    <3>4. CASE Vanish
      BY <3>4 DEF Vanish, Typed, Works
    <3>5. CASE SyncAliases
      <4>1. \E r \in Reasons : w' = Closing(r)
        BY <3>5 DEF SyncAliases, Result, Reasons
      <4> QED
        BY <4>1, ClosingWork DEF Typed
    <3> QED
      BY <1>4, <3>1, <3>2, <3>3, <3>4, <3>5
  <2>2. UNCHANGED <<md, mdSeen, dropped, queue, timer>>
    BY <1>4 DEF mdVars, ListModels, Classify, ClassifyChild, Apply, ApplyChild, Vanish, SyncAliases
  <2> QED
    BY <1>1, <2>1, <2>2
<1>5. ASSUME NEW n \in Names, ChildGone(n) \/ Collect(n) \/ TouchChild(n) \/ Observe(n)
       PROVE  RefreshPending'
  <2>1. w' = w \/ w' = Disturb(w, n)
    BY <1>5 DEF ChildGone, Collect, TouchChild, Observe
  <2>2. w'.d = w.d
    BY <2>1, DisturbWork DEF Typed
  <2>3. UNCHANGED <<md, mdSeen, dropped, timer>> /\ queue \subseteq queue'
    BY <1>5 DEF mdVars, ChildGone, Collect, TouchChild, Observe
  <2> QED
    BY <1>1, <2>2, <2>3
<1>6. ASSUME NEW d \in Discoveries,
              Publish(d) \/ SourceChange(d) \/ UserAlias(d) \/ CollectAlias(d) \/ Tick(d)
       PROVE  RefreshPending'
  <2>1. UNCHANGED <<md, mdSeen, dropped, w>> /\ queue \subseteq queue'
    BY <1>6 DEF Publish, SourceChange, UserAlias, CollectAlias, Tick, coreVars, mdVars,
                runVars
  <2>2. \A e \in Discoveries : timer[e] # "none" => timer'[e] # "none" \/ e \in queue'
    BY <1>6 DEF Publish, SourceChange, UserAlias, CollectAlias, Tick, coreVars, runVars, Typed
  <2> QED
    BY <1>1, <2>1, <2>2
<1>7. CASE Crash
  BY <1>7 DEF Crash, RefreshPending, Attended
<1>8. ASSUME NEW d \in Discoveries, TouchMD(d) PROVE RefreshPending'
  <2>1. w'.d = w.d
    BY <1>8 DEF TouchMD, Typed, Works
  <2>2. md' \in [Discoveries -> MDs] /\ UNCHANGED <<mdSeen, dropped, queue, timer>>
    BY <1>8, StepTyped DEF TouchMD, Typed
  <2>3. /\ \A e \in Discoveries \ {d} : md'[e] = md[e]
        /\ md'[d] = md[d] \/ Later(md'[d], md[d])
    BY <1>8, <2>2, Touched
  <2>4. md'[d] = md[d] \/ News(d)'
    <3>1. md[d] \in MDs /\ mdSeen[d] \in MDs /\ md'[d] \in MDs
      BY <2>2 DEF Typed
    <3> QED
      BY <2>2, <2>3, <3>1, LaterOrder DEF Trails, News
  <2> QED
    BY <2>1, <2>2, <2>3, <2>4 DEF RefreshPending, Attended, Parked, News
<1>9. ASSUME NEW d \in Discoveries, ObserveMD(d) PROVE RefreshPending'
  <2>1. /\ UNCHANGED <<md, dropped, w, timer>> /\ queue' = queue \cup {d}
        /\ \A e \in Discoveries \ {d} : mdSeen'[e] = mdSeen[e]
    BY <1>9 DEF ObserveMD, Typed
  <2> QED
    BY <2>1 DEF RefreshPending, Attended, Parked, News
<1>10. ASSUME NEW d \in Discoveries, Begin(d) PROVE RefreshPending'
  <2>1. /\ w.d = "none" /\ UNCHANGED timer /\ queue \ {d} \subseteq queue'
        /\ dropped' = dropped \ {d}
        /\ \A e \in Discoveries \ {d} : md'[e] = md[e] /\ mdSeen'[e] = mdSeen[e]
    BY <1>10, Began DEF Serving
  <2>2. d \in queue' \/ md'[d].st = "absent" \/ News(d)' \/ w'.d = d
    BY <1>10, Began
  <2> QED
    BY <2>1, <2>2, DiscoveryAssumption DEF RefreshPending, Attended, Parked, News
<1>11. CASE UNCHANGED vars
  BY <1>1, <1>11 DEF vars, coreVars, mdVars, runVars
<1> QED
  BY <1>2, <1>3, <1>4, <1>5, <1>6, <1>7, <1>8, <1>9, <1>10, <1>11
  DEF Next, Reconcile, Outside, Quiet, Proceed, Housekeeping

\* IInv holds in every reachable state.
THEOREM Inductive == Spec => []IInv
<1>1. Init => IInv
  <2> SUFFICES ASSUME Init PROVE IInv
    OBVIOUS
  <2>1. Created(1) \in MDs /\ Created(1).uid = 1 /\ Created(1).gen = 1 /\ Created(1).st = "live"
    <3>1. Absent(1) \in MDs /\ 1 \in Gens
      BY DiscoveryAssumption DEF Absent, MDs, Uids, Gens, Reasons
    <3>2. Created(1) \in MDs
      BY <3>1, Zenon DEF Created, MDs
    <3> QED
      BY <3>2, Zenon DEF Created, Absent
  <2>2. Typed
    BY <2>1, IdleWork, ChildForms, DiscoveryAssumption DEF Init, CoreInit, Typed, ChildTyped
  <2>3. Counted /\ RefreshPending
    BY <2>1 DEF Init, CoreInit, Counted, RefreshPending, Attended
  <2>4. Serving /\ Held /\ Trails /\ Checked /\ Accounted
    BY IdleWork DEF Init, CoreInit, Serving, Held, Trails, Checked, Accounted
  <2>5. Informed /\ Labels
    BY ChildForms DEF Init, CoreInit, Informed, Labels
  <2> QED
    BY <2>2, <2>3, <2>4, <2>5 DEF IInv
<1>2. IInv /\ [Next]_vars => IInv'
  BY StepChildren, StepTyped, StepCounted, StepServing, StepAccounted, StepRefresh DEF IInv
<1> QED
  BY <1>1, <1>2, PTL DEF Spec

\* The periodic refresh of a Discovery ends only where RefreshPending says: its
\* spec is parked, or a status write got lost without an event to follow.  No
\* edit that overtakes a reconcile, however old the informer's copy, no other
\* failed call and no restart ends it, whatever the filters.
THEOREM RefreshKept == Spec => []RefreshPending
<1>1. IInv => RefreshPending
  BY DEF IInv
<1> QED
  BY <1>1, Inductive, PTL

-----------------------------------------------------------------------------
(* Action properties.                                                      *)

\* A vanish-delete takes a child whose candidate the source lists only when
\* writing it failed: adoption, a version that moved, a foreign object on its
\* way out never cost the child, whatever the interleaving.
THEOREM VanishSpares == Spec => VanishSparesListed
<1> DEFINE Spares(n) == w.pc = "write" /\ ~child[n].dying /\ child'[n].dying /\ w'.mine # w.mine
                          => n \notin w.kept \/ w.out[n] = "failed"
<1>1. ASSUME IInv, [Next]_vars, NEW n \in Names PROVE Spares(n)
  <2> SUFFICES ASSUME w.pc = "write", ~child[n].dying, child'[n].dying, w'.mine # w.mine,
                      n \in w.kept
               PROVE  w.out[n] = "failed"
    OBVIOUS
  <2> USE <1>1 DEF IInv
  <2>1. child' # child
    OBVIOUS
  <2>2. ~Apply /\ ~DrainDelete /\ ~Crash /\ ~UNCHANGED childVars
    BY <2>1 DEF Apply, ApplyChild, DrainDelete, Crash, childVars
  <2>3. \A k \in Names : ~Observe(k)
    BY <2>1 DEF Observe
  <2>4. ASSUME NEW k \in Names, ChildGone(k) \/ Collect(k) \/ TouchChild(k) PROVE FALSE
    <3>1. w' = Disturb(w, k)
      BY <2>4 DEF ChildGone, Collect, TouchChild
    <3> QED
      BY <3>1, DisturbWork DEF Typed
  <2>5. Vanish
    BY <2>2, <2>3, <2>4, ChildWriters
  <2>6. PICK k \in Doomed : Delete(k) /\ (child[k] = NoChild \/ k \in w.fresh)
    BY <2>2, <2>5 DEF Vanish
  <2>7. w.todo = {} /\ k \in Names
    BY <2>5, <2>6 DEF Vanish, Doomed, Typed, Works
  <2>8. /\ \A e \in Names \ {k} : child'[e] = child[e]
        /\ child[k] = NoChild => child'[k] = NoChild
    BY <2>6, <2>7, DeleteChild DEF Typed
  <2>9. n = k /\ child[n] # NoChild
    BY <2>7, <2>8, ChildForms
  <2>10. n \in w.mine \cap w.fresh /\ n \notin w.spare
         /\ w.out[n] \notin {"generated", "skipped", "pending"}
    BY <2>6, <2>9 DEF Doomed
  <2>11. w.out[n] # "blocked" /\ w.out[n] # "none"
    BY <2>7, <2>10 DEF Accounted
  <2>12. w.out[n] \in Outcomes
    BY DEF Typed, Works
  <2> QED
    BY <2>10, <2>11, <2>12 DEF Outcomes
<1>2. IInv /\ [Next]_vars => [\A n \in Names : Spares(n)]_coreVars
  BY <1>1
<1> QED
  BY <1>2, Inductive, PTL DEF Spec, VanishSparesListed

\* The ways a name's holder may change, one name at a time.
Moves(h, y, h1, y1) ==
  LET Parents == Discoveries \X Uids IN
  \/ h1 = h /\ y1 = y
  \/ h = Nobody /\ h1 \in Parents \cup {<<"authored", 0>>} /\ y1 = y
  \/ h \in Parents /\ h1 = <<"adopted", 0>> /\ y1 = y
  \/ h = <<"authored", 0>> /\ h1 \in Parents /\ y1 = y
  \/ h # Nobody /\ h1 = h /\ ~y /\ y1
  \/ h1 = Nobody /\ y /\ ~y1

\* A step that moves one name is a step of ChildOwnership, or none.
LEMMA OneName ==
  ASSUME NEW n \in Names, child \in [Names -> Children], child' \in [Names -> Children],
         \A k \in Names \ {n} : child'[k] = child[k],
         Moves(Holder(child[n]), child[n].dying, Holder(child'[n]), child'[n].dying)
  PROVE  [Promise!Next]_(Promise!vars)
<1> DEFINE H == [k \in Names |-> Holder(child[k])]
           D == {k \in Names : child[k].dying}
           h == Holder(child[n])
           h1 == Holder(child'[n])
<1>1. H' = [H EXCEPT ![n] = h1]
  OBVIOUS
<1>2. H[n] = h /\ (n \in D <=> child[n].dying)
  OBVIOUS
<1>3. \/ child'[n].dying /\ D' = D \cup {n}
      \/ ~child'[n].dying /\ D' = D \ {n}
  OBVIOUS
<1>4. child'[n].dying = child[n].dying => D' = D
  BY <1>3
<1> QED
  BY <1>1, <1>2, <1>3, <1>4
  DEF Moves, Promise!Next, Promise!vars, Promise!Generate, Promise!Author, Promise!Adopt,
      Promise!Overlap, Promise!Retire, Promise!Leave, Promise!Take, Promise!Nobody,
      Promise!Authored, Promise!Adopted, Nobody

\* Who holds an object that is there.
LEMMA HolderOf ==
  ASSUME NEW c \in Children, c.owner # Nobody
  PROVE  /\ c # NoChild
         /\ Holder(c) # Nobody
         /\ c.owner # User => Holder(c) = c.owner /\ c.owner \in Discoveries \X Uids
         /\ c.owner = User => Holder(c) = IF c.label = "none" THEN <<"authored", 0>> ELSE <<"adopted", 0>>
<1>1. c # NoChild
  BY ChildForms
<1>2. c.owner \in Owners
  BY DEF Children
<1> QED
  BY <1>1, <1>2 DEF Holder, Nobody, User, Owners

\* Every step hands the children over as ChildOwnership allows.
LEMMA StepPromise == IInv /\ [Next]_vars => [Promise!Next]_(Promise!vars)
<1> SUFFICES ASSUME IInv, [Next]_vars PROVE [Promise!Next]_(Promise!vars)
  OBVIOUS
<1> USE DEF IInv, Typed
<1>1. child \in [Names -> Children] /\ child' \in [Names -> Children]
  BY StepChildren DEF ChildTyped
<1>2. CASE UNCHANGED child
  BY <1>2 DEF Promise!vars
<1>3. ASSUME NEW n \in Names, \A k \in Names \ {n} : child'[k] = child[k],
             Moves(Holder(child[n]), child[n].dying, Holder(child'[n]), child'[n].dying)
      PROVE  [Promise!Next]_(Promise!vars)
  BY <1>1, <1>3, OneName
<1>4. \A n \in Names : child[n].dying \in BOOLEAN /\ child'[n].dying \in BOOLEAN
  BY <1>1, Zenon DEF Children
<1>5. \A n \in Names : child[n] # NoChild => child[n].owner # Nobody
  BY DEF Labels
<1>6. ASSUME NEW n \in Names, Delete(n) PROVE [Promise!Next]_(Promise!vars)
  <2>1. /\ \A k \in Names \ {n} : child'[k] = child[k]
        /\ child'[n].owner = child[n].owner /\ child'[n].label = child[n].label
        /\ child[n] = NoChild => child'[n] = NoChild
        /\ child[n] # NoChild => child'[n].dying
    BY <1>6, DeleteChild
  <2>2. CASE child[n] = NoChild
    BY <1>3, <2>1, <2>2 DEF Moves
  <2>3. CASE child[n] # NoChild
    <3>1. Holder(child[n]) = Holder(child'[n]) /\ Holder(child[n]) # Nobody
      BY <1>1, <1>5, <2>1, <2>3, HolderOf
    <3>2. child[n].dying = child'[n].dying \/ ~child[n].dying
      BY <1>4, <2>1, <2>3, Zenon
    <3> QED
      BY <1>3, <2>1, <2>3, <3>1, <3>2 DEF Moves
  <2> QED
    BY <2>2, <2>3
<1>7. CASE Apply
  <2> DEFINE n == w.n
             new == Applied(child[n], w.m.gen)
  <2>1. n \in Names /\ w.pc = "apply" /\ w.d \in Discoveries /\ w.m.uid # 0 /\ w.m.uid \in Uids
    BY <1>7, AppliedChild DEF Apply, ApplyChild, Serving, Works, MDs
  <2>2. Me \in Discoveries \X Uids /\ Me \notin {User, Nobody}
    BY <2>1 DEF Me, User, Nobody
  <2>3. new.owner = Me /\ new.dying = child[n].dying
    BY DEF Applied
  <2>4. CASE /\ \E told \in BOOLEAN : Store(n, new, told)
             /\ \/ w.found = "mine" /\ w.live
                \/ w.found = "absent" /\ (child[n] = NoChild \/ child[n].owner = User)
    <3>1. child'[n] = new /\ \A k \in Names \ {n} : child'[k] = child[k]
      BY <1>1, <2>1, <2>4 DEF Store
    <3>2. Holder(child'[n]) = Me
      BY <1>1, <2>1, <2>2, <2>3, <3>1, HolderOf
    <3>3. \/ Holder(child[n]) = Me \/ Holder(child[n]) = Nobody
          \/ Holder(child[n]) = <<"authored", 0>>
      <4>1. CASE w.found = "mine" /\ w.live
        <5>1. child[n].owner = Me
          BY <2>1, <4>1 DEF Checked
        <5> QED
          BY <1>1, <2>1, <2>2, <5>1, HolderOf
      <4>2. CASE w.found = "absent" /\ child[n] = NoChild
        BY <4>2 DEF Holder
      <4>3. CASE w.found = "absent" /\ child[n].owner = User
        <5>1. child[n].label = "none"
          BY <2>1, <4>3 DEF Checked
        <5> QED
          BY <1>1, <2>1, <4>3, <5>1, HolderOf DEF User, Nobody
      <4> QED
        BY <2>4, <4>1, <4>2, <4>3
    <3> HIDE DEF n, new
    <3> QED
      BY <1>3, <2>1, <2>2, <2>3, <3>1, <3>2, <3>3 DEF Moves
  <2> QED
    BY <1>2, <1>7, <2>4, AppliedChild DEF childVars
<1>8. CASE DrainDelete
  BY <1>2, <1>6, <1>8 DEF DrainDelete, childVars, Works
<1>9. CASE Vanish
  BY <1>2, <1>6, <1>9 DEF Vanish, Doomed, childVars, Works
<1>10. ASSUME NEW n \in Names, ChildGone(n) PROVE [Promise!Next]_(Promise!vars)
  <2>1. child[n].dying /\ child'[n] = NoChild /\ \A k \in Names \ {n} : child'[k] = child[k]
    BY <1>1, <1>10 DEF ChildGone, Store
  <2>2. Holder(child'[n]) = Nobody /\ ~child'[n].dying
    BY <2>1, ChildForms DEF Holder
  <2> QED
    BY <1>3, <2>1, <2>2 DEF Moves
<1>11. ASSUME NEW n \in Names, TouchChild(n) PROVE [Promise!Next]_(Promise!vars)
  <2> DEFINE c == child[n]
  <2>1. c \in Children
    BY <1>1
  <2>2. CASE Delete(n)
    BY <1>6, <2>2
  <2>3. ASSUME NEW e, NEW told \in BOOLEAN, Store(n, e, told),
               Moves(Holder(c), c.dying, Holder(e), e.dying)
        PROVE  [Promise!Next]_(Promise!vars)
    <3>1. child'[n] = e /\ \A k \in Names \ {n} : child'[k] = child[k]
      BY <1>1, <2>3 DEF Store
    <3> QED
      BY <1>3, <2>3, <3>1
  <2>4. CASE c = NoChild /\ Store(n, [NoChild EXCEPT !.owner = User], TRUE)
    <3> DEFINE e == [NoChild EXCEPT !.owner = User]
    <3>1. e \in Children /\ e.owner = User /\ e.label = "none" /\ e.dying = c.dying
      BY <2>4, ChildForms DEF NoChild, Children
    <3> HIDE DEF e
    <3>2. Holder(e) = <<"authored", 0>>
      BY <3>1, HolderOf DEF User, Nobody
    <3>3. Holder(c) = Nobody
      BY <2>4 DEF Holder
    <3>4. Moves(Holder(c), c.dying, Holder(e), e.dying)
      BY <3>1, <3>2, <3>3 DEF Moves
    <3> QED
      BY <2>3, <2>4, <3>4 DEF e
  <2>5. CASE c # NoChild /\ c.owner # User /\ Store(n, [c EXCEPT !.owner = User], FALSE)
    <3> DEFINE e == [c EXCEPT !.owner = User]
    <3>1. e \in Children /\ e.owner = User /\ e.label = c.label /\ e.dying = c.dying
      BY <2>1, ChildForms DEF Children
    <3> HIDE DEF e
    <3>2. c.label # "none" /\ Holder(c) \in Discoveries \X Uids
      BY <1>5, <2>1, <2>5, HolderOf DEF Labels
    <3>3. Holder(e) = <<"adopted", 0>>
      BY <3>1, <3>2, HolderOf DEF User, Nobody
    <3>4. Moves(Holder(c), c.dying, Holder(e), e.dying)
      BY <3>1, <3>2, <3>3 DEF Moves
    <3> QED
      BY <2>3, <2>5, <3>4 DEF e
  <2>6. CASE c # NoChild /\ Store(n, [c EXCEPT !.spec = UserSpec], TRUE)
    <3> DEFINE e == [c EXCEPT !.spec = UserSpec]
    <3>1. e \in Children /\ e.owner = c.owner /\ e.label = c.label /\ e.dying = c.dying
      BY <2>1, ChildForms DEF Children
    <3> HIDE DEF e
    <3>2. Holder(c) = Holder(e)
      BY <1>5, <2>1, <2>6, <3>1, HolderOf
    <3>3. Moves(Holder(c), c.dying, Holder(e), e.dying)
      BY <3>1, <3>2 DEF Moves
    <3> QED
      BY <2>3, <2>6, <3>3 DEF e
  <2>7. CASE UNCHANGED child
    BY <1>2, <2>7
  <2> QED
    BY <1>11, <2>2, <2>4, <2>5, <2>6, <2>7 DEF TouchChild
<1>12. ASSUME NEW n \in Names, Collect(n) PROVE [Promise!Next]_(Promise!vars)
  BY <1>6, <1>12 DEF Collect
<1> QED
  BY <1>2, <1>7, <1>8, <1>9, <1>10, <1>11, <1>12, ChildWriters DEF childVars, Crash, Observe

\* The safety part of KeepsPromise: whatever users and the garbage collector do
\* between the ownership check and the write, an adopted child or another
\* Discovery's is not taken back while it exists; names change hands only as
\* ChildOwnership says.
THEOREM PromiseKept == Spec => Promise!Init /\ [][Promise!Next]_(Promise!vars)
<1>1. Init => Promise!Init
  BY ChildForms DEF Init, CoreInit, Promise!Init, Promise!Nobody, Holder, Nobody
<1> QED
  BY <1>1, StepPromise, Inductive, PTL DEF Spec
=============================================================================
