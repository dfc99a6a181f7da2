-------------------------- MODULE ModelAliasProofs --------------------------
(***************************************************************************)
(* MALIAS-03 for any number of resources and aliases: a resource goes only  *)
(* after LiteLLM holds a map without its entries, and nothing brings one    *)
(* back.  The argument follows the copies: the informer's and the worker's  *)
(* copy are never ahead of the resource; one that is live with a finalizer  *)
(* pins the resource; one that is being deleted never finds it live again   *)
(* under the same uid.                                                      *)
(***************************************************************************)
EXTENDS ModelAlias, TLAPS

\* A generation costs a change from outside.
Bounded == /\ \A c \in CRs : obj[c].gen <= upsets
           /\ router.extra <= upsets /\ latest <= upsets /\ got <= upsets

\* Copy s of the resources is one they went through.
Older(s) == \A c \in CRs : s[c].born <= s[c].gen /\ s[c].gen <= obj[c].gen

\* A live copy with the finalizer pins the resource.
Pins(s) == \A c \in CRs : s[c].phase = "live" /\ s[c].fin =>
             obj[c].phase # "absent" /\ obj[c].fin /\ obj[c].born = s[c].born

\* What copy s shows as being deleted, copy t does not show live.
NotRevived(s, t) == \A c \in CRs :
  s[c].phase = "deleting" => ~(t[c].phase = "live" /\ t[c].born = s[c].born)

\* Past the first loop every live resource of the list has its finalizer.
Finalized ==
  /\ pc = "finalizers" => todo \subseteq Alive(list)
  /\ \A c \in Alive(list) : list[c].fin \/ (pc = "finalizers" /\ c \in todo)

\* An entry belongs to a resource with the finalizer on, and after the write
\* to one that is live in the list.
Owned ==
  \A a \in Aliases : LET e == router.alias[a] IN
    e.by = "operator" =>
      /\ obj[e.cr].phase # "absent" /\ obj[e.cr].fin /\ e.gen >= obj[e.cr].born
      /\ pc \in {"statuses", "strip"} => list[e.cr].phase = "live"

IInv == /\ TypeOK /\ Bounded
        /\ Older(seen) /\ Older(list) /\ Older(obj)
        /\ Pins(seen) /\ Pins(list)
        /\ NotRevived(seen, obj) /\ NotRevived(list, obj) /\ NotRevived(list, seen)
        /\ Finalized /\ Owned

-----------------------------------------------------------------------------
(* The merged map.                                                         *)

\* Winner is one of the claimants: some resource is the last (AggregateModelAliases).
LEMMA WinnerClaims ==
  ASSUME NEW l, NEW a, Claim(l, a) # {}
  PROVE  Winner(l, a) \in Claim(l, a)
<1>1. Claim(l, a) \in SUBSET CRs
  BY DEF Claim, Alive
<1>2. \E c \in Claim(l, a) : \A d \in Claim(l, a) : d <= c
  BY <1>1, ModelAliasAssumption
<1>3. QED
  BY <1>2 DEF Winner

\* The map the operator writes has the right shape, and an entry in it is a
\* live resource's at the generation listed.
LEMMA DesiredShape ==
  ASSUME NEW l \in [CRs -> Objs]
  PROVE  /\ Desired(l) \in [Aliases -> Slots]
         /\ \A a \in Aliases : Desired(l)[a].by = "operator" =>
              /\ Desired(l)[a].cr \in Alive(l)
              /\ Desired(l)[a].gen = l[Desired(l)[a].cr].gen
<1> SUFFICES ASSUME NEW a \in Aliases
             PROVE  /\ Desired(l)[a] \in Slots
                    /\ Desired(l)[a].by = "operator" =>
                         /\ Desired(l)[a].cr \in Alive(l)
                         /\ Desired(l)[a].gen = l[Desired(l)[a].cr].gen
  BY DEF Desired
<1>1. CASE Claim(l, a) = {}
  <2>1. Desired(l)[a] = Nothing
    BY <1>1 DEF Desired
  <2>2. QED
    BY <2>1 DEF Slots, Nothing
<1>2. CASE Claim(l, a) # {}
  <2> DEFINE w == Winner(l, a)
  <2>1. w \in Claim(l, a)
    BY <1>2, WinnerClaims
  <2>2. w \in Alive(l) /\ w \in CRs
    BY <2>1 DEF Claim, Alive
  <2>3. Desired(l)[a] = Entry(w, l[w].gen)
    BY <1>2 DEF Desired
  <2>4. l[w].gen \in Gens
    BY <2>2 DEF Objs
  <2>5. Entry(w, l[w].gen) \in Slots
    BY <2>2, <2>4 DEF Slots
  <2>6. Entry(w, l[w].gen).cr = w /\ Entry(w, l[w].gen).gen = l[w].gen
    BY DEF Entry
  <2>7. QED
    BY <2>2, <2>3, <2>5, <2>6
<1>3. QED
  BY <1>1, <1>2

-----------------------------------------------------------------------------
(* Types.                                                                  *)

\* The ways a resource changes stay within Objs.
LEMMA ObjMoves ==
  ASSUME NEW o \in Objs, NEW g \in Gens, NEW n \in SUBSET Aliases, NEW r \in Reasons,
         NEW p \in {"absent", "deleting"}
  PROVE  /\ [o EXCEPT !.fin = TRUE] \in Objs
         /\ [o EXCEPT !.phase = p] \in Objs
         /\ [o EXCEPT !.phase = "absent", !.fin = FALSE] \in Objs
         /\ [o EXCEPT !.ready = r, !.cobs = g, !.applied = n] \in Objs
         /\ [o EXCEPT !.names = n, !.gen = g] \in Objs
         /\ Created(g, n) \in Objs
         /\ Absent \in Objs
<1>1. 0 \in Gens
  BY ModelAliasAssumption DEF Gens
<1>2. /\ [o EXCEPT !.fin = TRUE] \in Objs
      /\ [o EXCEPT !.phase = p] \in Objs
      /\ [o EXCEPT !.phase = "absent", !.fin = FALSE] \in Objs
  BY DEF Objs
<1>3. [o EXCEPT !.ready = r, !.cobs = g, !.applied = n] \in Objs
  BY DEF Objs
<1>4. [o EXCEPT !.names = n, !.gen = g] \in Objs
  BY DEF Objs
<1>5. Created(g, n) \in Objs /\ Absent \in Objs
  BY <1>1 DEF Objs, Created, Absent, Reasons
<1>6. QED
  BY <1>2, <1>3, <1>4, <1>5

\* A step changes one resource and no copy: the worker adds its finalizer,
\* also in its own copy, removes it, or writes a status; a user edits,
\* creates or deletes it.
ObjStep(c) ==
  /\ UNCHANGED seen
  /\ \/ /\ pc = "finalizers" /\ c \in todo /\ obj[c] = list[c] /\ UNCHANGED upsets
        /\ obj' = [obj EXCEPT ![c] = [obj[c] EXCEPT !.fin = TRUE]]
        /\ list' = [list EXCEPT ![c] = [list[c] EXCEPT !.fin = TRUE]]
     \/ /\ seen[c] = obj[c]
        /\ \E r \in Reasons, n \in SUBSET Aliases :
             obj' = [obj EXCEPT ![c] = [obj[c] EXCEPT !.ready = r, !.cobs = list[c].gen, !.applied = n]]
        /\ UNCHANGED <<list, upsets>>
     \/ /\ pc = "strip" /\ c \in todo /\ obj[c] = list[c]
        /\ obj' = [obj EXCEPT ![c] = [obj[c] EXCEPT !.phase = "absent", !.fin = FALSE]]
        /\ UNCHANGED <<list, upsets>>
     \/ /\ Upset /\ obj[c].phase = "live" /\ UNCHANGED list
        /\ \E n \in SUBSET Aliases :
             obj' = [obj EXCEPT ![c] = [obj[c] EXCEPT !.names = n, !.gen = obj[c].gen + 1]]
     \/ /\ Upset /\ obj[c].phase = "absent" /\ UNCHANGED list
        /\ \E n \in SUBSET Aliases : obj' = [obj EXCEPT ![c] = Created(obj[c].gen + 1, n)]
     \/ /\ Upset /\ obj[c].phase = "live" /\ UNCHANGED list
        /\ obj' = [obj EXCEPT ![c] = [obj[c] EXCEPT !.phase = IF obj[c].fin THEN "deleting" ELSE "absent"]]

\* Or it changes no resource: an informer or the worker renews its copy, the
\* worker drops its own.
CopyStep ==
  /\ UNCHANGED obj
  /\ UNCHANGED upsets \/ Upset
  /\ \/ seen' = seen /\ list' \in {list, seen, NoList}
     \/ (\E c \in CRs : seen' = [seen EXCEPT ![c] = obj[c]]) /\ list' = list
     \/ seen' = obj /\ list' = NoList

\* Every step is of one of the two kinds.
LEMMA StepShape ==
  ASSUME TypeOK, Next
  PROVE  CopyStep \/ \E c \in CRs : ObjStep(c)
<1> USE DEF TypeOK
<1>1. CASE List \/ ListFails \/ Gate \/ EndBroadcast \/ EndStatuses \/ EndStrip
  BY <1>1 DEF List, ListFails, Gate, EndBroadcast, EndStatuses, EndStrip, Fail, Return, NextLoop,
              Broadcast, CopyStep
<1>2. CASE ReadSettings
  BY <1>2 DEF ReadSettings, Refused, Broadcast, NextLoop, CopyStep
<1>3. CASE PostSettings
  BY <1>3 DEF PostSettings, Refused, Broadcast, NextLoop, CopyStep
<1>4. ASSUME NEW c \in CRs, AddFinalizer(c)
      PROVE  CopyStep \/ ObjStep(c)
  <2>1. CASE Return(TRUE) /\ UNCHANGED <<obj, seen>> /\ (UNCHANGED upsets \/ Upset)
    BY <2>1 DEF Return, CopyStep
  <2>2. CASE obj[c] = list[c] /\ obj' = [obj EXCEPT ![c].fin = TRUE]
             /\ list' = [list EXCEPT ![c].fin = TRUE] /\ UNCHANGED upsets
    BY <1>4, <2>2 DEF AddFinalizer, ObjStep
  <2>3. QED
    BY <1>4, <2>1, <2>2 DEF AddFinalizer, Fail
<1>5. ASSUME NEW c \in CRs, NEW r \in Reasons, NEW rows \in SUBSET Aliases,
             ApplyStatus(c, r, rows), UNCHANGED seen
      PROVE  CopyStep \/ ObjStep(c)
  <2>1. CASE UNCHANGED <<obj, list, upsets>>
    BY <1>5, <2>1 DEF CopyStep
  <2>2. CASE Return(TRUE) /\ UNCHANGED <<obj, upsets>>
    BY <1>5, <2>2 DEF Return, CopyStep
  <2>3. CASE Fail /\ UNCHANGED obj
    BY <1>5, <2>3 DEF Fail, Return, CopyStep
  <2>4. CASE /\ seen[c] = obj[c]
             /\ obj' = [obj EXCEPT ![c].ready = r, ![c].cobs = list[c].gen, ![c].applied = rows]
             /\ UNCHANGED <<list, upsets>>
    <3>1. obj' = [obj EXCEPT ![c] = [obj[c] EXCEPT !.ready = r, !.cobs = list[c].gen, !.applied = rows]]
      BY <2>4
    <3>2. QED
      BY <1>5, <2>4, <3>1 DEF ObjStep
  <2>5. QED
    BY <1>5, <2>1, <2>2, <2>3, <2>4 DEF ApplyStatus
<1>6. ASSUME NEW c \in CRs, TellNotReady(c) \/ WritePerCRStatuses(c)
      PROVE  CopyStep \/ ObjStep(c)
  <2>1. seen[c].applied \in SUBSET Aliases /\ ResolveCR(list, c) \in SUBSET Aliases
    BY DEF Objs, ResolveCR
  <2>2. QED
    BY <1>5, <1>6, <2>1 DEF TellNotReady, WritePerCRStatuses, Reasons
<1>7. ASSUME NEW c \in CRs, StripFinalizer(c)
      PROVE  CopyStep \/ ObjStep(c)
  <2>1. CASE Fail /\ UNCHANGED obj
    BY <1>7, <2>1 DEF StripFinalizer, Fail, Return, CopyStep
  <2>2. CASE /\ obj' = IF obj[c] = list[c] THEN [obj EXCEPT ![c].phase = "absent", ![c].fin = FALSE]
                       ELSE obj
             /\ UNCHANGED <<list, upsets>>
    BY <1>7, <2>2 DEF StripFinalizer, CopyStep, ObjStep
  <2>3. QED
    BY <1>7, <2>1, <2>2 DEF StripFinalizer
<1>8. CASE Tick \/ ConnUp \/ ConnDown \/ EditMap \/ EditOther
  BY <1>8 DEF Tick, ConnUp, ConnDown, EditMap, EditOther, runVars, wkVars, CopyStep
<1>9. ASSUME NEW c \in CRs, Sync(c)
      PROVE  CopyStep
  BY <1>9 DEF Sync, wkVars, CopyStep
<1>10. ASSUME NEW c \in CRs, ApplyCR(c)
       PROVE  ObjStep(c)
  <2>1. PICK n \in (SUBSET Aliases) \ {{}} :
           obj' = [obj EXCEPT ![c] =
                     IF obj[c].phase = "live" THEN [obj[c] EXCEPT !.names = n, !.gen = obj[c].gen + 1]
                     ELSE Created(obj[c].gen + 1, n)]
    BY <1>10 DEF ApplyCR
  <2>2. obj[c].phase \in {"live", "absent"}
    BY <1>10 DEF ApplyCR, Objs
  <2>3. QED
    BY <1>10, <2>1, <2>2 DEF ApplyCR, ObjStep, runVars, wkVars
<1>11. ASSUME NEW c \in CRs, DeleteCR(c)
       PROVE  ObjStep(c)
  BY <1>11 DEF DeleteCR, ObjStep, runVars, wkVars
<1>12. CASE Crash
  BY <1>12 DEF Crash, CopyStep
<1>13. QED
  BY <1>1, <1>2, <1>3, <1>4, <1>6, <1>7, <1>8, <1>9, <1>10, <1>11, <1>12
  DEF Next, Reconcile, Loops, Outside

\* Which fields such a change touches; Kept(c) are the ones nothing else does.
Kept(c) == /\ obj'[c].phase = obj[c].phase /\ obj'[c].fin = obj[c].fin
           /\ obj'[c].born = obj[c].born /\ obj'[c].gen = obj[c].gen

Finalizes(c) == /\ pc = "finalizers" /\ c \in todo /\ obj[c] = list[c]
                /\ obj'[c].phase = obj[c].phase /\ obj'[c].fin
                /\ obj'[c].born = obj[c].born /\ obj'[c].gen = obj[c].gen
                /\ list'[c] = obj'[c]
Releases(c) == /\ pc = "strip" /\ c \in todo /\ obj[c] = list[c] /\ list' = list
               /\ obj'[c].phase = "absent" /\ ~obj'[c].fin
               /\ obj'[c].born = obj[c].born /\ obj'[c].gen = obj[c].gen
Edits(c) == /\ obj[c].phase = "live" /\ list' = list
            /\ obj'[c].phase = obj[c].phase /\ obj'[c].fin = obj[c].fin
            /\ obj'[c].born = obj[c].born /\ obj'[c].gen = obj[c].gen + 1
Creates(c) == /\ obj[c].phase = "absent" /\ list' = list
              /\ obj'[c].phase = "live" /\ ~obj'[c].fin
              /\ obj'[c].born = obj[c].gen + 1 /\ obj'[c].gen = obj[c].gen + 1
Deletes(c) == /\ obj[c].phase = "live" /\ list' = list
              /\ obj'[c].phase = (IF obj[c].fin THEN "deleting" ELSE "absent")
              /\ obj'[c].fin = obj[c].fin
              /\ obj'[c].born = obj[c].born /\ obj'[c].gen = obj[c].gen

Changes(c) ==
  /\ seen' = seen
  /\ obj' \in [CRs -> Objs] /\ list' \in [CRs -> Objs]
  /\ \A d \in CRs : d # c => obj'[d] = obj[d] /\ list'[d] = list[d]
  /\ \/ (Kept(c) /\ list' = list /\ UNCHANGED upsets)
     \/ (Finalizes(c) /\ UNCHANGED upsets)
     \/ (Releases(c) /\ UNCHANGED upsets)
     \/ (Upset /\ (Edits(c) \/ Creates(c) \/ Deletes(c)))

\* A change of a resource touches the fields named here and no other resource.
LEMMA StepFields ==
  ASSUME TypeOK, Bounded, NEW c \in CRs, ObjStep(c)
  PROVE  Changes(c)
<1>1. obj \in [CRs -> Objs] /\ list \in [CRs -> Objs]
  BY DEF TypeOK
<1>2. obj[c] \in Objs /\ list[c] \in Objs
  BY <1>1
<1>3. list[c].gen \in Gens /\ obj[c].gen \in Gens /\ obj[c].fin \in BOOLEAN
  BY <1>2 DEF Objs
<1>4. obj[c].gen + 1 \in Gens
  BY <1>3, ModelAliasAssumption DEF TypeOK, Bounded, Gens
<1>5. CASE /\ pc = "finalizers" /\ c \in todo /\ obj[c] = list[c] /\ UNCHANGED upsets
           /\ obj' = [obj EXCEPT ![c] = [obj[c] EXCEPT !.fin = TRUE]]
           /\ list' = [list EXCEPT ![c] = [list[c] EXCEPT !.fin = TRUE]]
           /\ seen' = seen
  <2> DEFINE o == [obj[c] EXCEPT !.fin = TRUE]
  <2>1. o \in Objs
    BY <1>2 DEF Objs
  <2>2. /\ o.phase = obj[c].phase /\ o.fin
        /\ o.born = obj[c].born /\ o.gen = obj[c].gen
    BY <1>2 DEF Objs
  <2>3. obj'[c] = o /\ list'[c] = o
    BY <1>1, <1>5
  <2> HIDE DEF o
  <2>4. Finalizes(c)
    BY <1>5, <2>2, <2>3 DEF Finalizes
  <2>5. QED
    BY <1>1, <1>5, <2>1, <2>3, <2>4 DEF Changes, o
<1>6. ASSUME NEW r \in Reasons, NEW n \in SUBSET Aliases,
             obj' = [obj EXCEPT ![c] = [obj[c] EXCEPT !.ready = r, !.cobs = list[c].gen, !.applied = n]],
             UNCHANGED <<list, upsets, seen>>
      PROVE  Changes(c)
  <2> DEFINE o == [obj[c] EXCEPT !.ready = r, !.cobs = list[c].gen, !.applied = n]
  <2>1. o \in Objs
    BY <1>2, <1>3, ObjMoves
  <2>2. /\ o.phase = obj[c].phase /\ o.fin = obj[c].fin
        /\ o.born = obj[c].born /\ o.gen = obj[c].gen
    BY <1>2 DEF Objs
  <2>3. obj'[c] = o /\ obj' = [obj EXCEPT ![c] = o]
    BY <1>1, <1>6
  <2> HIDE DEF o
  <2>4. QED
    BY <1>1, <1>6, <2>1, <2>2, <2>3 DEF Changes, Kept
<1>7. CASE /\ pc = "strip" /\ c \in todo /\ obj[c] = list[c]
           /\ obj' = [obj EXCEPT ![c] = [obj[c] EXCEPT !.phase = "absent", !.fin = FALSE]]
           /\ UNCHANGED <<list, upsets, seen>>
  <2> DEFINE o == [obj[c] EXCEPT !.phase = "absent", !.fin = FALSE]
  <2>1. o \in Objs
    BY <1>2 DEF Objs
  <2>2. /\ o.phase = "absent" /\ ~o.fin
        /\ o.born = obj[c].born /\ o.gen = obj[c].gen
    BY <1>2 DEF Objs
  <2>3. obj'[c] = o /\ obj' = [obj EXCEPT ![c] = o]
    BY <1>1, <1>7
  <2> HIDE DEF o
  <2>4. QED
    BY <1>1, <1>7, <2>1, <2>2, <2>3 DEF Changes, Releases
<1>8. ASSUME NEW n \in SUBSET Aliases, Upset, obj[c].phase = "live", UNCHANGED <<list, seen>>,
             obj' = [obj EXCEPT ![c] = [obj[c] EXCEPT !.names = n, !.gen = obj[c].gen + 1]]
      PROVE  Changes(c)
  <2> DEFINE o == [obj[c] EXCEPT !.names = n, !.gen = obj[c].gen + 1]
  <2>1. o \in Objs
    BY <1>2, <1>4 DEF Objs
  <2>2. /\ o.phase = obj[c].phase /\ o.fin = obj[c].fin
        /\ o.born = obj[c].born /\ o.gen = obj[c].gen + 1
    BY <1>2 DEF Objs
  <2>3. obj'[c] = o /\ obj' = [obj EXCEPT ![c] = o]
    BY <1>1, <1>8
  <2> HIDE DEF o
  <2>4. QED
    BY <1>1, <1>8, <2>1, <2>2, <2>3 DEF Changes, Edits
<1>9. ASSUME NEW n \in SUBSET Aliases, Upset, obj[c].phase = "absent", UNCHANGED <<list, seen>>,
             obj' = [obj EXCEPT ![c] = Created(obj[c].gen + 1, n)]
      PROVE  Changes(c)
  <2> DEFINE o == Created(obj[c].gen + 1, n)
  <2>1. o \in Objs
    BY <1>2, <1>4, ObjMoves DEF Reasons
  <2>2. /\ o.phase = "live" /\ ~o.fin
        /\ o.born = obj[c].gen + 1 /\ o.gen = obj[c].gen + 1
    BY DEF Created
  <2>3. obj'[c] = o /\ obj' = [obj EXCEPT ![c] = o]
    BY <1>1, <1>9
  <2> HIDE DEF o
  <2>4. QED
    BY <1>1, <1>9, <2>1, <2>2, <2>3 DEF Changes, Creates
<1>10. CASE /\ Upset /\ obj[c].phase = "live" /\ UNCHANGED <<list, seen>>
            /\ obj' = [obj EXCEPT ![c] = [obj[c] EXCEPT !.phase = IF obj[c].fin THEN "deleting" ELSE "absent"]]
  <2> DEFINE p == IF obj[c].fin THEN "deleting" ELSE "absent"
             o == [obj[c] EXCEPT !.phase = p]
  <2>1. o \in Objs
    BY <1>2, <1>3 DEF Objs
  <2>2. /\ o.phase = p /\ o.fin = obj[c].fin
        /\ o.born = obj[c].born /\ o.gen = obj[c].gen
    BY <1>2 DEF Objs
  <2>3. obj'[c] = o /\ obj' = [obj EXCEPT ![c] = o]
    BY <1>1, <1>10
  <2> HIDE DEF o
  <2>4. QED
    BY <1>1, <1>10, <2>1, <2>2, <2>3 DEF Changes, Deletes
<1>11. QED
  BY <1>5, <1>6, <1>7, <1>8, <1>9, <1>10 DEF ObjStep

-----------------------------------------------------------------------------
(* The copies.                                                             *)

Copies == /\ seen \in [CRs -> Objs] /\ list \in [CRs -> Objs] /\ obj \in [CRs -> Objs]
          /\ Older(seen) /\ Older(list) /\ Older(obj)
          /\ Pins(seen) /\ Pins(list)
          /\ NotRevived(seen, obj) /\ NotRevived(list, obj) /\ NotRevived(list, seen)

\* Generations are numbers.
LEMMA GenNumbers ==
  ASSUME NEW s \in [CRs -> Objs], NEW c \in CRs
  PROVE  s[c].gen \in Nat /\ s[c].born \in Nat
<1>1. s[c] \in Objs
  OBVIOUS
<1>2. s[c].gen \in Gens /\ s[c].born \in Gens
  BY <1>1 DEF Objs
<1>3. QED
  BY <1>2, ModelAliasAssumption DEF Gens

\* Renewing or dropping a copy keeps every copy in order.
LEMMA RenewKeepsCopies ==
  ASSUME Copies, CopyStep
  PROVE  Copies'
<1> DEFINE None == NoList
<1>1. None \in [CRs -> Objs] /\ \A c \in CRs : /\ None[c].phase = "absent" /\ None[c].born = 0
                                               /\ None[c].gen = 0
  <2>1. Absent \in Objs
    BY ModelAliasAssumption DEF Absent, Objs, Gens, Reasons
  <2>2. QED
    BY <2>1 DEF NoList, Absent
<1>2. obj' = obj
  BY DEF CopyStep
<1>3. \A c \in CRs : /\ obj[c].gen \in Nat /\ obj[c].born \in Nat
  BY GenNumbers DEF Copies
<1>4. \A c \in CRs : seen'[c] = seen[c] \/ seen'[c] = obj[c]
  BY DEF Copies, CopyStep
<1>5. \A c \in CRs : \/ list'[c] = list[c]
                     \/ list'[c] = seen[c] /\ seen'[c] = seen[c]
                     \/ list'[c] = None[c]
  BY DEF CopyStep
<1>6. seen' \in [CRs -> Objs] /\ list' \in [CRs -> Objs]
  BY <1>1 DEF Copies, CopyStep
<1> HIDE DEF None
<1>7. Older(seen)' /\ Older(obj)' /\ Pins(seen)' /\ NotRevived(seen, obj)'
  BY <1>2, <1>4 DEF Copies, Older, Pins, NotRevived
<1>8. Older(list)'
  BY <1>1, <1>2, <1>3, <1>5 DEF Copies, Older
<1>9. Pins(list)' /\ NotRevived(list, obj)'
  BY <1>1, <1>2, <1>5 DEF Copies, Pins, NotRevived
<1>10. NotRevived(list, seen)'
  BY <1>1, <1>4, <1>5 DEF Copies, NotRevived
<1>11. QED
  BY <1>2, <1>6, <1>7, <1>8, <1>9, <1>10 DEF Copies

\* So does a change of a resource.  The finalizer is removed from one the list
\* shows as being deleted, which no copy shows live under its uid; a new
\* resource has a uid no copy has seen.
LEMMA ChangeKeepsCopies ==
  ASSUME TypeOK, Copies, NEW c \in CRs, Changes(c)
  PROVE  Copies'
<1>1. /\ seen' = seen /\ obj' \in [CRs -> Objs] /\ list' \in [CRs -> Objs]
      /\ \A d \in CRs : d # c => obj'[d] = obj[d] /\ list'[d] = list[d]
  BY DEF Changes
<1>2. \A d \in CRs : /\ obj[d].gen \in Nat /\ obj[d].born \in Nat
                     /\ seen[d].gen \in Nat /\ seen[d].born \in Nat
                     /\ list[d].gen \in Nat /\ list[d].born \in Nat
  BY GenNumbers DEF Copies
<1>3. ASSUME Older(seen)', Older(list)', Older(obj)', Pins(seen)', Pins(list)',
             NotRevived(seen, obj)', NotRevived(list, obj)', NotRevived(list, seen)'
      PROVE  Copies'
  BY <1>1, <1>3 DEF Copies
<1>4. CASE Kept(c) /\ list' = list
  BY <1>1, <1>3, <1>4 DEF Copies, Kept, Older, Pins, NotRevived
<1>5. CASE Finalizes(c)
  <2>1. Older(seen)' /\ Older(list)' /\ Older(obj)'
    BY <1>1, <1>2, <1>5 DEF Copies, Finalizes, Older
  <2>2. Pins(seen)' /\ Pins(list)'
    BY <1>1, <1>5 DEF Copies, Finalizes, Pins
  <2>3. NotRevived(seen, obj)' /\ NotRevived(list, obj)' /\ NotRevived(list, seen)'
    BY <1>1, <1>5 DEF Copies, Finalizes, NotRevived
  <2>4. QED
    BY <1>3, <2>1, <2>2, <2>3
<1>6. CASE Releases(c)
  <2>1. list[c].phase = "deleting"
    BY <1>6 DEF Releases, TypeOK
  <2>2. ~(seen[c].phase = "live" /\ seen[c].fin)
    BY <1>6, <2>1 DEF Copies, Releases, Pins, NotRevived
  <2>3. Older(seen)' /\ Older(list)' /\ Older(obj)'
    BY <1>1, <1>6 DEF Copies, Releases, Older
  <2>4. Pins(seen)' /\ Pins(list)'
    BY <1>1, <1>6, <2>1, <2>2 DEF Copies, Releases, Pins
  <2>5. NotRevived(seen, obj)' /\ NotRevived(list, obj)' /\ NotRevived(list, seen)'
    BY <1>1, <1>6 DEF Copies, Releases, NotRevived
  <2>6. QED
    BY <1>3, <2>3, <2>4, <2>5
<1>7. CASE Edits(c)
  <2>1. Older(seen)' /\ Older(list)' /\ Older(obj)'
    BY <1>1, <1>2, <1>7 DEF Copies, Edits, Older
  <2>2. Pins(seen)' /\ Pins(list)'
    BY <1>1, <1>7 DEF Copies, Edits, Pins
  <2>3. NotRevived(seen, obj)' /\ NotRevived(list, obj)' /\ NotRevived(list, seen)'
    BY <1>1, <1>7 DEF Copies, Edits, NotRevived
  <2>4. QED
    BY <1>3, <2>1, <2>2, <2>3
<1>8. CASE Creates(c)
  <2>1. Older(seen)' /\ Older(list)' /\ Older(obj)'
    BY <1>1, <1>2, <1>8 DEF Copies, Creates, Older
  <2>2. Pins(seen)' /\ Pins(list)'
    BY <1>1, <1>8 DEF Copies, Creates, Pins
  <2>3. obj'[c].born # seen[c].born /\ obj'[c].born # list[c].born
    BY <1>2, <1>8 DEF Copies, Creates, Older
  <2>4. NotRevived(seen, obj)' /\ NotRevived(list, obj)' /\ NotRevived(list, seen)'
    BY <1>1, <1>8, <2>3 DEF Copies, Creates, NotRevived
  <2>5. QED
    BY <1>3, <2>1, <2>2, <2>4
<1>9. CASE Deletes(c)
  <2>1. Older(seen)' /\ Older(list)' /\ Older(obj)'
    BY <1>1, <1>9 DEF Copies, Deletes, Older
  <2>2. Pins(seen)' /\ Pins(list)'
    BY <1>1, <1>9 DEF Copies, Deletes, Pins
  <2>3. NotRevived(seen, obj)' /\ NotRevived(list, obj)' /\ NotRevived(list, seen)'
    BY <1>1, <1>9 DEF Copies, Deletes, NotRevived
  <2>4. QED
    BY <1>3, <2>1, <2>2, <2>3
<1>10. QED
  BY <1>4, <1>5, <1>6, <1>7, <1>8, <1>9 DEF Changes

-----------------------------------------------------------------------------
(* The worker's state.                                                     *)

Worker == /\ pc \in {"idle", "finalizers", "read", "post", "statuses", "strip", "broadcast"}
          /\ todo \subseteq IF pc = "strip" THEN {c \in CRs : list[c].phase = "deleting"} ELSE CRs
          /\ why \in Reasons

\* The worker's step is one of those its loops and calls allow.
LEMMA WorkerStep ==
  ASSUME TypeOK, Next
  PROVE  Worker'
<1> USE DEF Worker
<1>1. CASE List
  BY <1>1 DEF List, TypeOK, Alive
<1>2. ASSUME NEW b, Return(b)
      PROVE  Worker'
  BY <1>2 DEF Return, Reasons
<1>3. ASSUME NEW r \in Reasons, Broadcast(r)
      PROVE  Worker'
  BY <1>3 DEF Broadcast, NextLoop, Alive
<1>4. CASE Gate
  BY <1>3, <1>4 DEF Gate, NextLoop, Reasons, TypeOK
<1>5. ASSUME NEW o, Refused(o)
      PROVE  Worker'
  BY <1>3, <1>5 DEF Refused, Reasons
<1>6. CASE ReadSettings
  BY <1>5, <1>6 DEF ReadSettings, NextLoop, TypeOK
<1>7. CASE PostSettings
  BY <1>5, <1>7 DEF PostSettings, NextLoop, Alive, TypeOK
<1>8. CASE EndStatuses
  BY <1>8 DEF EndStatuses, NextLoop, Deleting, TypeOK
<1>9. ASSUME NEW c \in CRs, Loops(c)
      PROVE  Worker'
  <2>1. CASE Handled(c) /\ UNCHANGED list
    BY <2>1 DEF Handled, TypeOK
  <2>2. CASE Handled(c) /\ pc = "finalizers"
    BY <2>2 DEF Handled, TypeOK
  <2>3. (Handled(c) /\ (UNCHANGED list \/ pc = "finalizers")) \/ Return(TRUE)
    BY <1>9 DEF Loops, AddFinalizer, TellNotReady, WritePerCRStatuses, ApplyStatus, StripFinalizer, Fail
  <2>4. QED
    BY <1>2, <2>1, <2>2, <2>3
<1>10. CASE UNCHANGED wkVars
  BY <1>10 DEF wkVars, TypeOK
<1>11. CASE Crash
  BY <1>11 DEF Crash, Reasons
<1>12. CASE ListFails \/ EndBroadcast \/ EndStrip
  BY <1>2, <1>12 DEF ListFails, EndBroadcast, EndStrip, Fail
<1>13. QED
  BY <1>1, <1>4, <1>6, <1>7, <1>8, <1>9, <1>10, <1>11, <1>12
  DEF Next, Reconcile, Outside, Tick, Sync, ApplyCR, DeleteCR, EditMap, EditOther, ConnDown, ConnUp, runVars

\* Flags and the connection's reason.
Flags == /\ queued \in BOOLEAN /\ timer \in BOOLEAN /\ meddled \in BOOLEAN /\ raced \in BOOLEAN
         /\ conn \in {"Synced", "Unreachable", "BadMasterKey", "Absent"}

\* They keep their types.
LEMMA FlagsStep ==
  ASSUME TypeOK, Next
  PROVE  Flags'
<1> USE DEF Flags, TypeOK
<1>1. ASSUME NEW b \in BOOLEAN, Return(b), UNCHANGED <<conn, ghosts>>
      PROVE  Flags'
  BY <1>1 DEF Return, ghosts
<1>2. CASE UNCHANGED <<queued, timer, ghosts>> /\ conn' \in {"Synced", "Unreachable", "BadMasterKey", "Absent"}
  BY <1>2 DEF ghosts
<1>3. ASSUME NEW c \in CRs, Loops(c)
      PROVE  Flags'
  BY <1>1, <1>2, <1>3 DEF Loops, AddFinalizer, TellNotReady, WritePerCRStatuses, ApplyStatus,
     StripFinalizer, Fail, Handled
<1>4. CASE List \/ Gate \/ EndStatuses
  BY <1>4 DEF List, Gate, EndStatuses, NextLoop, Broadcast, ghosts
<1>5. CASE ListFails \/ EndBroadcast \/ EndStrip
  BY <1>1, <1>5 DEF ListFails, EndBroadcast, EndStrip, Fail
<1>6. CASE ReadSettings
  BY <1>2, <1>6 DEF ReadSettings, Refused, Broadcast, NextLoop
<1>7. CASE PostSettings
  BY <1>7 DEF PostSettings, Refused, Broadcast, NextLoop, Written
<1>8. CASE Tick \/ ConnUp \/ \E c \in CRs : Sync(c)
  BY <1>8 DEF Tick, ConnUp, Sync, ghosts
<1>9. CASE Crash
  BY <1>9 DEF Crash, ghosts
<1>10. CASE ConnDown \/ EditMap \/ EditOther \/ \E c \in CRs : ApplyCR(c) \/ DeleteCR(c)
  BY <1>10 DEF ConnDown, EditMap, EditOther, ApplyCR, DeleteCR, runVars, ghosts
<1>11. QED
  BY <1>3, <1>4, <1>5, <1>6, <1>7, <1>8, <1>9, <1>10 DEF Next, Reconcile, Outside

-----------------------------------------------------------------------------
(* The router settings.                                                    *)

\* What a step does to the settings and to what was read of them: it writes
\* the merged map over what it read ...
Posts == /\ pc = "post" /\ router' = Settings
         /\ UNCHANGED <<obj, seen, list, got, latest>>

\* ... or leaves the operator's entries as they are, but for those somebody
\* else overwrites, and does not come to the statuses.
Leaves == /\ \/ /\ UNCHANGED <<router, latest>> /\ got' \in {got, 0, router.extra}
             \/ /\ \E a \in Aliases, t \in {Nothing, Foreign} : router' = [router EXCEPT !.alias[a] = t]
                /\ UNCHANGED <<got, latest>>
             \/ /\ Upset /\ router' = [router EXCEPT !.extra = upsets + 1]
                /\ latest' = upsets + 1 /\ UNCHANGED got
          /\ pc' \in {"statuses", "strip"} => pc \in {"statuses", "strip"} /\ UNCHANGED list

\* Every step is of one of these two kinds.
LEMMA RouterShape ==
  ASSUME TypeOK, Next
  PROVE  Posts \/ Leaves
<1>1. ASSUME NEW b, Return(b), UNCHANGED <<router, ghosts>>
      PROVE  Leaves
  BY <1>1 DEF Return, Leaves, ghosts
<1>2. CASE List \/ Gate \/ EndStatuses
  BY <1>2 DEF List, Gate, EndStatuses, NextLoop, Broadcast, Leaves, ghosts
<1>3. CASE ListFails \/ EndBroadcast \/ EndStrip
  BY <1>1, <1>3 DEF ListFails, EndBroadcast, EndStrip, Fail
<1>4. CASE ReadSettings
  BY <1>4 DEF ReadSettings, Refused, NextLoop, Broadcast, Leaves, ghosts
<1>5. CASE PostSettings
  BY <1>5 DEF PostSettings, Refused, NextLoop, Broadcast, Written, Posts, Leaves
<1>6. ASSUME NEW c \in CRs, Loops(c)
      PROVE  Leaves
  <2>1. UNCHANGED <<router, ghosts>>
    BY <1>6 DEF Loops, AddFinalizer, TellNotReady, WritePerCRStatuses, StripFinalizer
  <2>2. (Handled(c) /\ (UNCHANGED list \/ pc = "finalizers")) \/ Return(TRUE)
    BY <1>6 DEF Loops, AddFinalizer, TellNotReady, WritePerCRStatuses, ApplyStatus, StripFinalizer, Fail
  <2>3. QED
    BY <1>1, <2>1, <2>2 DEF Handled, Leaves, ghosts
<1>7. CASE EditMap
  BY <1>7 DEF EditMap, Leaves, runVars, wkVars
<1>8. CASE EditOther
  BY <1>8 DEF EditOther, Leaves, runVars, wkVars
<1>9. CASE UNCHANGED <<wkVars, router, ghosts>>
  BY <1>9 DEF Leaves, wkVars, ghosts
<1>10. CASE Crash
  BY <1>10 DEF Crash, Leaves, ghosts
<1>11. QED
  BY <1>2, <1>3, <1>4, <1>5, <1>6, <1>7, <1>8, <1>9, <1>10
  DEF Next, Reconcile, Outside, Tick, Sync, ApplyCR, DeleteCR, ConnDown, ConnUp, runVars

\* Numbers stay within the number of changes from outside, and the map is one
\* of entries.
LEMMA NumbersStep ==
  ASSUME TypeOK, Bounded, Posts \/ Leaves, UNCHANGED upsets \/ Upset
  PROVE  /\ upsets' \in 0 .. MaxUpsets /\ upsets' >= upsets
         /\ got' \in Gens /\ latest' \in Gens
         /\ router' \in [alias : [Aliases -> Slots], extra : Gens]
         /\ router'.extra <= upsets' /\ latest' <= upsets' /\ got' <= upsets'
<1>1. /\ upsets \in Nat /\ upsets <= MaxUpsets /\ MaxUpsets \in Nat /\ got \in Nat /\ latest \in Nat
      /\ router \in [alias : [Aliases -> Slots], extra : Gens]
      /\ router.alias \in [Aliases -> Slots] /\ router.extra \in Gens
      /\ router.extra \in Nat
  BY ModelAliasAssumption DEF TypeOK, Gens
<1>2. upsets' \in 0 .. MaxUpsets /\ upsets' >= upsets
  BY <1>1 DEF Upset
<1>3. CASE Posts
  <2>1. Desired(list) \in [Aliases -> Slots]
    BY DesiredShape DEF TypeOK
  <2>2. router' = [alias |-> Desired(list), extra |-> got] /\ got' = got /\ latest' = latest
    BY <1>3 DEF Posts, Settings
  <2>3. QED
    BY <1>1, <1>2, <2>1, <2>2 DEF TypeOK, Bounded
<1>4. CASE UNCHANGED <<router, latest>> /\ got' \in {got, 0, router.extra}
  BY <1>1, <1>2, <1>4 DEF TypeOK, Bounded, Gens
<1>5. CASE /\ \E a \in Aliases, t \in {Nothing, Foreign} : router' = [router EXCEPT !.alias[a] = t]
           /\ UNCHANGED <<got, latest>>
  <2>1. PICK a \in Aliases, t \in {Nothing, Foreign} : router' = [router EXCEPT !.alias[a] = t]
    BY <1>5
  <2>2. t \in Slots
    BY DEF Slots
  <2>3. router' \in [alias : [Aliases -> Slots], extra : Gens] /\ router'.extra = router.extra
    BY <1>1, <2>1, <2>2
  <2>4. QED
    BY <1>1, <1>2, <1>5, <2>3 DEF TypeOK, Bounded
<1>6. CASE /\ Upset /\ router' = [router EXCEPT !.extra = upsets + 1]
           /\ latest' = upsets + 1 /\ UNCHANGED got
  <2>1. upsets + 1 \in Gens /\ upsets' = upsets + 1
    BY <1>1, <1>6 DEF Gens, Upset
  <2>2. router' \in [alias : [Aliases -> Slots], extra : Gens] /\ router'.extra = upsets + 1
    BY <1>1, <1>6, <2>1
  <2>3. QED
    BY <1>1, <1>2, <1>6, <2>1, <2>2 DEF TypeOK, Bounded
<1>7. QED
  BY <1>3, <1>4, <1>5, <1>6 DEF Leaves

-----------------------------------------------------------------------------
(* The finalizer goes on before the entries count.                         *)

\* No step lets a live resource without its finalizer past the first loop.
LEMMA FinalizedStep ==
  ASSUME TypeOK, Finalized, Next
  PROVE  Finalized'
<1>1. ASSUME list' = NoList, pc' = "idle"
      PROVE  Finalized'
  BY <1>1 DEF Finalized, Alive, NoList, Absent
<1>2. ASSUME UNCHANGED list, pc' # "finalizers", pc = "finalizers" => todo = {}
      PROVE  Finalized'
  BY <1>2 DEF Finalized, Alive
<1>3. CASE List
  BY <1>3 DEF List, Finalized, Alive
<1>4. CASE Gate
  BY <1>2, <1>4 DEF Gate, NextLoop, Broadcast
<1>5. CASE ReadSettings \/ PostSettings \/ EndStatuses
  BY <1>2, <1>5 DEF ReadSettings, PostSettings, EndStatuses, NextLoop, Broadcast, Refused
<1>6. ASSUME NEW c \in CRs, Loops(c)
      PROVE  Finalized'
  <2>1. CASE Return(TRUE)
    BY <1>1, <2>1 DEF Return
  <2>2. CASE Handled(c) /\ UNCHANGED list /\ pc # "finalizers"
    BY <1>2, <2>2 DEF Handled
  <2>3. CASE Handled(c) /\ pc = "finalizers" /\ list' = [list EXCEPT ![c].fin = TRUE]
    <3>1. list'[c].fin /\ list'[c].phase = list[c].phase
      BY <2>3 DEF TypeOK, Objs
    <3>2. \A d \in CRs : d # c => list'[d] = list[d]
      BY <2>3 DEF TypeOK
    <3>3. QED
      BY <2>3, <3>1, <3>2 DEF Handled, Finalized, Alive
  <2>4. QED
    BY <1>6, <2>1, <2>2, <2>3 DEF Loops, AddFinalizer, TellNotReady, WritePerCRStatuses, ApplyStatus,
       StripFinalizer, Fail
<1>7. CASE UNCHANGED wkVars
  BY <1>7 DEF wkVars, Finalized, Alive
<1>8. CASE Crash \/ ListFails \/ EndBroadcast \/ EndStrip
  BY <1>1, <1>8 DEF Crash, ListFails, EndBroadcast, EndStrip, Fail, Return
<1>9. QED
  BY <1>3, <1>4, <1>5, <1>6, <1>7, <1>8
  DEF Next, Reconcile, Outside, Tick, Sync, ApplyCR, DeleteCR, EditMap, EditOther, ConnDown, ConnUp, runVars

-----------------------------------------------------------------------------
(* The entries keep their owner.                                           *)

\* An operator's entry names a resource.
LEMMA SlotOwner ==
  ASSUME NEW e \in Slots, e.by = "operator"
  PROVE  e.cr \in CRs /\ e.gen \in Nat
BY ModelAliasAssumption DEF Slots, Nothing, Foreign, Entry, Gens

\* A change of the resource does not take it from its entry: only one that is
\* being deleted in the list loses its finalizer, and the map just written
\* has no entry of it.
LEMMA OwnerStays ==
  ASSUME TypeOK, NEW a \in Aliases, router.alias[a].by = "operator", Owned,
         UNCHANGED obj \/ \E c \in CRs : Changes(c)
  PROVE  LET e == router.alias[a] IN
         obj'[e.cr].phase # "absent" /\ obj'[e.cr].fin /\ e.gen >= obj'[e.cr].born
<1> DEFINE e == router.alias[a]
<1>1. e \in Slots
  BY DEF TypeOK
<1>2. e.cr \in CRs
  BY <1>1, SlotOwner
<1>3. /\ obj[e.cr].phase # "absent" /\ obj[e.cr].fin /\ e.gen >= obj[e.cr].born
      /\ pc \in {"statuses", "strip"} => list[e.cr].phase = "live"
  BY DEF Owned
<1> HIDE DEF e
<1>4. ASSUME NEW c \in CRs, Changes(c)
      PROVE  obj'[e.cr].phase # "absent" /\ obj'[e.cr].fin /\ e.gen >= obj'[e.cr].born
  <2>1. CASE e.cr # c
    BY <1>2, <1>3, <1>4, <2>1 DEF Changes
  <2>2. CASE e.cr = c
    <3>1. CASE Kept(c) \/ Finalizes(c) \/ Edits(c)
      BY <1>3, <2>2, <3>1 DEF Kept, Finalizes, Edits
    <3>2. CASE Releases(c)
      BY <1>3, <2>2, <3>2 DEF Releases, TypeOK
    <3>3. CASE Creates(c) \/ Deletes(c)
      BY <1>3, <2>2, <3>3 DEF Creates, Deletes
    <3>4. QED
      BY <1>4, <3>1, <3>2, <3>3 DEF Changes
  <2>3. QED
    BY <2>1, <2>2
<1>5. QED
  BY <1>3, <1>4 DEF e

\* Nor does a step give an entry to a resource that is not pinned.
LEMMA OwnedStep ==
  ASSUME IInv, Posts \/ Leaves, UNCHANGED obj \/ \E c \in CRs : Changes(c)
  PROVE  Owned'
<1> SUFFICES ASSUME NEW a \in Aliases, router'.alias[a].by = "operator"
             PROVE  LET e == router'.alias[a] IN
                    /\ obj'[e.cr].phase # "absent" /\ obj'[e.cr].fin /\ e.gen >= obj'[e.cr].born
                    /\ pc' \in {"statuses", "strip"} => list'[e.cr].phase = "live"
  BY DEF Owned
<1>1. TypeOK /\ Owned
  BY DEF IInv
<1>2. CASE Posts
  <2> DEFINE e == Desired(list)[a]
  <2>1. router'.alias[a] = e
    BY <1>2 DEF Posts, Settings
  <2>2. e.cr \in Alive(list) /\ e.gen = list[e.cr].gen
    BY <1>1, <2>1, DesiredShape DEF TypeOK
  <2> HIDE DEF e
  <2>3. e.cr \in CRs /\ list[e.cr].phase = "live" /\ list[e.cr].fin
    BY <1>2, <2>2 DEF IInv, Finalized, Alive, Posts
  <2>4. /\ obj[e.cr].phase # "absent" /\ obj[e.cr].fin /\ obj[e.cr].born = list[e.cr].born
        /\ list[e.cr].born <= list[e.cr].gen
    BY <2>3 DEF IInv, Pins, Older
  <2>5. list[e.cr].born \in Nat /\ list[e.cr].gen \in Nat
    BY <1>1, <2>3, GenNumbers DEF TypeOK
  <2>6. QED
    BY <1>2, <2>1, <2>2, <2>3, <2>4, <2>5 DEF Posts
<1>3. CASE Leaves
  <2>1. router'.alias[a] = router.alias[a]
    <3>1. CASE router'.alias = router.alias
      BY <3>1
    <3>2. ASSUME NEW b \in Aliases, NEW t \in {Nothing, Foreign}, router' = [router EXCEPT !.alias[b] = t]
          PROVE  router'.alias[a] = router.alias[a]
      <4>1. t.by # "operator"
        BY DEF Nothing, Foreign
      <4>2. router'.alias = [router.alias EXCEPT ![b] = t]
        BY <1>1, <3>2 DEF TypeOK
      <4>3. QED
        BY <1>1, <4>1, <4>2 DEF TypeOK
    <3>3. CASE router' = [router EXCEPT !.extra = upsets + 1]
      BY <1>1, <3>3 DEF TypeOK
    <3>4. QED
      BY <1>3, <3>1, <3>2, <3>3 DEF Leaves
  <2>2. LET e == router.alias[a] IN
        obj'[e.cr].phase # "absent" /\ obj'[e.cr].fin /\ e.gen >= obj'[e.cr].born
    BY <1>1, <2>1, OwnerStays
  <2>3. pc' \in {"statuses", "strip"} => list'[router.alias[a].cr].phase = "live"
    BY <1>1, <1>3, <2>1 DEF Leaves, Owned
  <2>4. QED
    BY <2>1, <2>2, <2>3
<1>4. QED
  BY <1>2, <1>3

-----------------------------------------------------------------------------
(* The theorems.                                                           *)

\* The inductive invariant holds at the start ...
LEMMA InitIInv == Init => IInv
<1> SUFFICES ASSUME Init PROVE IInv
  OBVIOUS
<1>1. NoList \in [CRs -> Objs] /\ 0 \in Gens
  BY ModelAliasAssumption DEF NoList, Absent, Objs, Gens, Reasons
<1>2. \A c \in CRs : NoList[c].phase = "absent" /\ NoList[c].born = 0 /\ NoList[c].gen = 0
  BY DEF NoList, Absent
<1>3. router.alias \in [Aliases -> Slots] /\ \A a \in Aliases : router.alias[a].by # "operator"
  BY DEF Init, Slots, Nothing
<1>4. TypeOK
  <2>1. router \in [alias : [Aliases -> Slots], extra : Gens]
    BY <1>1, <1>3 DEF Init
  <2>2. upsets \in 0 .. MaxUpsets /\ got \in Gens /\ latest \in Gens
    BY <1>1, ModelAliasAssumption DEF Init
  <2>3. Worker /\ Flags
    BY DEF Init, Worker, Flags, Reasons
  <2>4. QED
    BY <1>1, <2>1, <2>2, <2>3 DEF Init, TypeOK, Worker, Flags
<1>5. Bounded /\ Older(seen) /\ Older(list) /\ Older(obj)
  BY <1>2 DEF Init, Bounded, Older
<1>6. /\ Pins(seen) /\ Pins(list)
      /\ NotRevived(seen, obj) /\ NotRevived(list, obj) /\ NotRevived(list, seen)
  BY <1>2 DEF Init, Pins, NotRevived
<1>7. Finalized /\ Owned
  BY <1>2, <1>3 DEF Init, Finalized, Owned, Alive
<1>8. QED
  BY <1>4, <1>5, <1>6, <1>7 DEF IInv

\* ... and every step preserves it.
LEMMA NextIInv == IInv /\ [Next]_vars => IInv'
<1> SUFFICES ASSUME IInv, [Next]_vars PROVE IInv'
  OBVIOUS
<1>1. CASE UNCHANGED vars
  BY <1>1 DEF IInv, TypeOK, Bounded, Older, Pins, NotRevived, Finalized, Owned, Alive, vars, runVars,
     wkVars, ghosts
<1>2. CASE Next
  <2>1. TypeOK /\ Bounded /\ Finalized /\ Copies
    BY DEF IInv, TypeOK, Copies
  <2>2. CopyStep \/ \E c \in CRs : Changes(c)
    BY <1>2, <2>1, StepShape, StepFields
  <2>3. Copies'
    BY <2>1, <2>2, RenewKeepsCopies, ChangeKeepsCopies
  <2>4. Posts \/ Leaves
    BY <1>2, <2>1, RouterShape
  <2>5. UNCHANGED upsets \/ Upset
    BY <2>2 DEF CopyStep, Changes
  <2>6. Worker' /\ Flags' /\ Finalized'
    BY <1>2, <2>1, WorkerStep, FlagsStep, FinalizedStep
  <2>7. /\ upsets' \in 0 .. MaxUpsets /\ upsets' >= upsets
        /\ got' \in Gens /\ latest' \in Gens
        /\ router' \in [alias : [Aliases -> Slots], extra : Gens]
        /\ router'.extra <= upsets' /\ latest' <= upsets' /\ got' <= upsets'
    BY <2>1, <2>4, <2>5, NumbersStep
  <2>8. TypeOK'
    BY <2>3, <2>6, <2>7 DEF TypeOK, Copies, Worker, Flags
  <2>9. \A c \in CRs : obj'[c].gen <= upsets'
    <3>1. upsets \in Nat /\ \A c \in CRs : obj[c].gen \in Nat /\ obj[c].gen <= upsets
      BY <2>1, GenNumbers, ModelAliasAssumption DEF TypeOK, Bounded
    <3>2. CASE UNCHANGED obj
      BY <2>7, <3>1, <3>2 DEF TypeOK
    <3>3. ASSUME NEW c \in CRs, Changes(c)
          PROVE  obj'[c].gen <= upsets' /\ \A d \in CRs : d # c => obj'[d] = obj[d]
      BY <3>1, <3>3 DEF Changes, Kept, Finalizes, Releases, Edits, Creates, Deletes, Upset
    <3>4. QED
      BY <2>2, <2>5, <3>1, <3>2, <3>3 DEF CopyStep, Upset
  <2>10. Owned'
    BY <2>2, <2>4, OwnedStep DEF CopyStep
  <2>11. QED
    BY <2>3, <2>6, <2>7, <2>8, <2>9, <2>10 DEF IInv, Bounded, Copies
<1>3. QED
  BY <1>1, <1>2

\* Type correctness, with generations bounded by the changes from outside, and
\* the strip loop over resources that are being deleted in the list only.
THEOREM TypeCorrect == Spec => []TypeOK
<1>1. IInv => TypeOK
  BY DEF IInv
<1>2. QED
  BY <1>1, InitIInv, NextIInv, PTL DEF Spec

\* MALIAS-03, for any number of resources and aliases and any interleaving of
\* stale reads, lost answers, failed calls and restarts: no entry the operator
\* wrote outlives its resource (Reconcile, stripDeletingFinalizers).
THEOREM NoOrphan == Spec => []NoOrphanEntry
<1>1. IInv => NoOrphanEntry
  BY DEF IInv, Owned, NoOrphanEntry
<1>2. QED
  BY <1>1, InitIInv, NextIInv, PTL DEF Spec

\* What was read is still so when it is written back, but for a raced edit.
Carried == raced \/ (router.extra = latest /\ (pc = "post" => got = latest))

\* Every step preserves that: an edit after the read is a raced one.
LEMMA CarriedStep ==
  ASSUME TypeOK, Carried, [Next]_vars
  PROVE  Carried'
<1>1. ASSUME UNCHANGED <<router, latest, raced>>, pc' # "post"
      PROVE  Carried'
  BY <1>1 DEF Carried
<1>2. ASSUME UNCHANGED <<router, latest, raced, pc, got>>
      PROVE  Carried'
  BY <1>2 DEF Carried
<1>3. ASSUME NEW b, Return(b), UNCHANGED <<router, ghosts>>
      PROVE  Carried'
  BY <1>1, <1>3 DEF Return, ghosts
<1>4. CASE List \/ Gate \/ EndStatuses
  BY <1>1, <1>4 DEF List, Gate, EndStatuses, NextLoop, Broadcast, ghosts
<1>5. CASE ListFails \/ EndBroadcast \/ EndStrip
  BY <1>3, <1>5 DEF ListFails, EndBroadcast, EndStrip, Fail
<1>6. CASE ReadSettings
  BY <1>6 DEF ReadSettings, Refused, NextLoop, Broadcast, Carried, ghosts
<1>7. CASE PostSettings
  <2>1. CASE router' = Settings /\ pc' # "post" /\ UNCHANGED <<latest, raced>>
    <3>1. router'.extra = got
      BY <2>1 DEF Settings
    <3>2. QED
      BY <1>7, <2>1, <3>1 DEF Carried, PostSettings
  <2>2. QED
    BY <1>1, <1>7, <2>1 DEF PostSettings, Refused, NextLoop, Broadcast, Written
<1>8. ASSUME NEW c \in CRs, Loops(c)
      PROVE  Carried'
  <2>1. UNCHANGED <<router, ghosts>>
    BY <1>8 DEF Loops, AddFinalizer, TellNotReady, WritePerCRStatuses, StripFinalizer
  <2>2. Handled(c) \/ Return(TRUE)
    BY <1>8 DEF Loops, AddFinalizer, TellNotReady, WritePerCRStatuses, ApplyStatus, StripFinalizer, Fail
  <2>3. QED
    BY <1>2, <1>3, <2>1, <2>2 DEF Handled, ghosts
<1>9. CASE EditMap
  <2>1. router'.extra = router.extra
    BY <1>9 DEF EditMap, TypeOK
  <2>2. QED
    BY <1>9, <2>1 DEF EditMap, Carried, runVars, wkVars
<1>10. CASE EditOther
  <2>1. router'.extra = latest'
    BY <1>10 DEF EditOther, TypeOK
  <2>2. QED
    BY <1>10, <2>1 DEF EditOther, Carried, runVars, wkVars
<1>11. CASE UNCHANGED <<wkVars, router, ghosts>>
  BY <1>2, <1>11 DEF wkVars, ghosts
<1>12. CASE Crash
  BY <1>1, <1>12 DEF Crash, ghosts
<1>13. QED
  BY <1>4, <1>5, <1>6, <1>7, <1>8, <1>9, <1>10, <1>11, <1>12
  DEF Next, Reconcile, Outside, Tick, Sync, ApplyCR, DeleteCR, ConnDown, ConnUp, runVars, vars

\* Rewriting the map never changes another router setting, but for an edit that
\* lands between the reconcile's read and its write (GetRouterSettings,
\* UpdateRouterSettings).
THEOREM UnrelatedKept == Spec => []UnrelatedSurvive
<1>1. Init => Carried
  BY DEF Init, Carried
<1>2. TypeOK /\ Carried /\ [Next]_vars => Carried'
  BY CarriedStep
<1>3. Carried => UnrelatedSurvive
  BY DEF Carried, UnrelatedSurvive
<1>4. QED
  BY <1>1, <1>2, <1>3, TypeCorrect, PTL DEF Spec

-----------------------------------------------------------------------------
(* What the statuses say.                                                  *)

\* A resource the informer shows as gone is gone, or there is a newer one.
Gone == \A c \in CRs : seen[c].phase = "absent" /\ seen[c].gen = obj[c].gen => obj[c].phase = "absent"

\* While no event is waiting, the worker's copy of what is up to date is up to
\* date too.
Unmoved == ~queued /\ pc # "idle" => \A c \in CRs : seen[c] = obj[c] => list[c] = obj[c]

\* Once written the merged map is in place, until somebody else edits it.
InPlace == pc \in {"statuses", "strip"} /\ ~meddled => router.alias = Desired(list)

\* What the two loops over statuses have to tell a resource.
Verdict(c) ==
  /\ obj[c].cobs = list[c].gen /\ obj[c].applied = ResolveCR(list, c)
  /\ obj[c].ready = IF ResolveCR(list, c) = list[c].names THEN "Synced" ELSE "PartialAliasConflict"
Excuse(c) == obj[c].cobs = list[c].gen /\ obj[c].ready = why

\* What HonestStatus says of one resource.
Honest(c) ==
  /\ obj[c].cobs = obj[c].gen
  /\ obj[c].ready \in {"Synced", "PartialAliasConflict"} /\ ~meddled =>
       /\ obj[c].applied = {a \in obj[c].names : router.alias[a] = Entry(c, obj[c].gen)}
       /\ obj[c].ready = "Synced" <=> obj[c].applied = obj[c].names

\* While no event is waiting, a live resource whose copy is up to date has
\* been told by this pass, is still to be told, or was told by the last.
Told(c) ==
  ~queued /\ seen[c] = obj[c] /\ obj[c].phase = "live" =>
    /\ pc = "statuses" => c \in todo \/ Verdict(c)
    /\ pc = "strip" => Verdict(c)
    /\ pc = "broadcast" => c \in todo \/ Excuse(c)
    /\ pc = "idle" => Honest(c)

\* Why a broadcast is made.
Excused == pc = "broadcast" => why \in {"LiteLLMUnavailable", "LiteLLMRejected"}

StatusInv == /\ Gone /\ Unmoved /\ InPlace /\ Excused
             /\ \A c \in CRs : Told(c)

\* A step that leaves the informer's copy alone and a resource equal to it has
\* not changed the resource: there is no way back to an earlier state.
LEMMA NoWayBack ==
  ASSUME IInv, Gone, Next, NEW c \in CRs, seen'[c] = seen[c], seen'[c] = obj'[c]
  PROVE  obj'[c] = obj[c]
<1>1. TypeOK /\ obj \in [CRs -> Objs] /\ list \in [CRs -> Objs] /\ seen \in [CRs -> Objs]
  BY DEF IInv, TypeOK
<1>2. CopyStep \/ \E d \in CRs : ObjStep(d)
  BY <1>1, StepShape
<1>3. obj[c] \in Objs /\ seen[c] \in Objs /\ seen[c].gen \in Nat /\ obj[c].gen \in Nat
  BY <1>1, GenNumbers DEF Objs
<1>4. seen[c].gen <= obj[c].gen
  BY DEF IInv, Older
<1>5. CASE CopyStep
  BY <1>5 DEF CopyStep
<1>6. ASSUME NEW d \in CRs, d # c, ObjStep(d)
      PROVE  obj'[c] = obj[c]
  BY <1>1, <1>6 DEF ObjStep
<1>7. CASE ObjStep(c)
  <2>1. CASE /\ pc = "finalizers" /\ c \in todo /\ obj[c] = list[c]
             /\ obj' = [obj EXCEPT ![c] = [obj[c] EXCEPT !.fin = TRUE]]
    <3>1. obj'[c] = [obj[c] EXCEPT !.fin = TRUE]
      BY <1>1, <2>1
    <3>2. obj[c].phase = "live"
      BY <2>1 DEF IInv, Finalized, Alive
    <3>3. seen[c].phase = "live" /\ seen[c].fin
      BY <1>3, <3>1, <3>2 DEF Objs
    <3>4. obj[c].fin = TRUE
      BY <1>3, <3>3 DEF IInv, Pins, Objs
    <3>5. QED
      BY <1>3, <3>1, <3>4 DEF Objs
  <2>2. CASE seen[c] = obj[c]
    BY <2>2
  <2>3. CASE /\ pc = "strip" /\ c \in todo /\ obj[c] = list[c]
             /\ obj' = [obj EXCEPT ![c] = [obj[c] EXCEPT !.phase = "absent", !.fin = FALSE]]
    <3>1. obj[c].phase = "deleting"
      BY <1>1, <2>3 DEF TypeOK
    <3>2. obj'[c] = [obj[c] EXCEPT !.phase = "absent", !.fin = FALSE]
      BY <1>1, <2>3
    <3>3. seen[c].phase = "absent" /\ seen[c].gen = obj[c].gen
      BY <1>3, <3>2 DEF Objs
    <3>4. QED
      BY <3>1, <3>3 DEF Gone
  <2>4. ASSUME NEW n \in SUBSET Aliases,
               \/ obj' = [obj EXCEPT ![c] = [obj[c] EXCEPT !.names = n, !.gen = obj[c].gen + 1]]
               \/ obj' = [obj EXCEPT ![c] = Created(obj[c].gen + 1, n)]
        PROVE  FALSE
    <3>1. \/ obj'[c] = [obj[c] EXCEPT !.names = n, !.gen = obj[c].gen + 1]
          \/ obj'[c] = Created(obj[c].gen + 1, n)
      BY <1>1, <2>4
    <3>2. Created(obj[c].gen + 1, n).gen = obj[c].gen + 1
      BY DEF Created
    <3>3. [obj[c] EXCEPT !.names = n, !.gen = obj[c].gen + 1].gen = obj[c].gen + 1
      BY <1>3 DEF Objs
    <3>4. seen[c].gen = obj[c].gen + 1
      BY <3>1, <3>2, <3>3
    <3>5. QED
      BY <1>3, <1>4, <3>4
  <2>5. CASE /\ obj[c].phase = "live"
             /\ obj' = [obj EXCEPT ![c] = [obj[c] EXCEPT !.phase = IF obj[c].fin THEN "deleting" ELSE "absent"]]
    <3> DEFINE p == IF obj[c].fin THEN "deleting" ELSE "absent"
    <3>1. p \in {"deleting", "absent"}
      OBVIOUS
    <3> HIDE DEF p
    <3>2. obj'[c] = [obj[c] EXCEPT !.phase = p]
      BY <1>1, <2>5 DEF p
    <3>3. seen[c].phase = p /\ seen[c].gen = obj[c].gen /\ seen[c].born = obj[c].born
      BY <1>3, <3>2 DEF Objs
    <3>4. CASE p = "deleting"
      BY <2>5, <3>3, <3>4 DEF IInv, NotRevived
    <3>5. CASE p = "absent"
      BY <2>5, <3>3, <3>5 DEF Gone
    <3>6. QED
      BY <3>1, <3>4, <3>5
  <2>6. QED
    BY <1>7, <2>1, <2>2, <2>3, <2>4, <2>5 DEF ObjStep
<1>8. QED
  BY <1>2, <1>5, <1>6, <1>7

\* Every step preserves Gone: a resource that comes back has a newer generation.
LEMMA GoneStep ==
  ASSUME IInv, Gone, Next
  PROVE  Gone'
<1> SUFFICES ASSUME NEW c \in CRs, seen'[c].phase = "absent", seen'[c].gen = obj'[c].gen
             PROVE  obj'[c].phase = "absent"
  BY DEF Gone
<1>1. TypeOK /\ Bounded /\ obj \in [CRs -> Objs] /\ seen \in [CRs -> Objs]
  BY DEF IInv, TypeOK
<1>2. CopyStep \/ \E d \in CRs : Changes(d)
  BY <1>1, StepShape, StepFields
<1>3. seen[c].gen \in Nat /\ obj[c].gen \in Nat /\ seen[c].gen <= obj[c].gen
  BY <1>1, GenNumbers DEF IInv, Older
<1>4. CASE CopyStep
  <2>1. seen'[c] = seen[c] \/ seen'[c] = obj[c]
    BY <1>1, <1>4 DEF CopyStep
  <2>2. QED
    BY <1>4, <2>1 DEF CopyStep, Gone
<1>5. ASSUME NEW d \in CRs, Changes(d)
      PROVE  obj'[c].phase = "absent"
  <2>1. seen' = seen
    BY <1>5 DEF Changes
  <2>2. CASE d # c
    BY <1>5, <2>1, <2>2 DEF Changes, Gone
  <2>3. CASE d = c
    BY <1>3, <1>5, <2>1, <2>3 DEF Changes, Gone, Kept, Finalizes, Releases, Edits, Creates, Deletes
  <2>4. QED
    BY <2>2, <2>3
<1>6. QED
  BY <1>2, <1>4, <1>5

\* A step after which no event waits goes on without one, and with the same
\* informer's copy; else it starts, ends or loses a pass.
LEMMA QuietStep ==
  ASSUME TypeOK, Next, ~queued'
  PROVE  \/ List \/ Crash \/ EndBroadcast \/ EndStrip
         \/ /\ ~queued /\ seen' = seen /\ (pc' = "idle" <=> pc = "idle")
            /\ \/ list' = list
               \/ \E c \in CRs : /\ obj[c] = list[c]
                                 /\ obj' = [obj EXCEPT ![c].fin = TRUE]
                                 /\ list' = [list EXCEPT ![c].fin = TRUE]
<1>1. ~Return(TRUE)
  BY DEF Return
<1>2. CASE ListFails \/ Tick \/ ConnUp \/ \E c \in CRs : Sync(c)
  BY <1>1, <1>2 DEF ListFails, Fail, Tick, ConnUp, Sync
<1>3. CASE Gate \/ EndStatuses
  BY <1>3 DEF Gate, EndStatuses, NextLoop, Broadcast
<1>4. CASE ReadSettings
  BY <1>4 DEF ReadSettings, Refused, NextLoop, Broadcast
<1>5. CASE PostSettings
  BY <1>5 DEF PostSettings, Refused, NextLoop, Broadcast
<1>6. ASSUME NEW c \in CRs, AddFinalizer(c)
      PROVE  /\ ~queued /\ seen' = seen /\ pc' = pc
             /\ obj[c] = list[c]
             /\ obj' = [obj EXCEPT ![c].fin = TRUE] /\ list' = [list EXCEPT ![c].fin = TRUE]
  <2>1. Return(TRUE) \/ (/\ Handled(c) /\ obj[c] = list[c]
                          /\ obj' = [obj EXCEPT ![c].fin = TRUE] /\ list' = [list EXCEPT ![c].fin = TRUE])
    BY <1>6 DEF AddFinalizer, Fail
  <2>2. seen' = seen
    BY <1>6 DEF AddFinalizer
  <2>3. /\ Handled(c) /\ obj[c] = list[c]
        /\ obj' = [obj EXCEPT ![c].fin = TRUE] /\ list' = [list EXCEPT ![c].fin = TRUE]
    BY <1>1, <2>1
  <2>4. QED
    BY <2>2, <2>3 DEF Handled
<1>7. ASSUME NEW c \in CRs, TellNotReady(c) \/ WritePerCRStatuses(c) \/ StripFinalizer(c)
      PROVE  ~queued /\ seen' = seen /\ pc' = pc /\ list' = list
  <2>1. Return(TRUE) \/ (Handled(c) /\ list' = list)
    BY <1>7 DEF TellNotReady, WritePerCRStatuses, StripFinalizer, ApplyStatus, Fail
  <2>2. seen' = seen
    BY <1>7 DEF TellNotReady, WritePerCRStatuses, StripFinalizer
  <2>3. Handled(c) /\ list' = list
    BY <1>1, <2>1
  <2>4. QED
    BY <2>2, <2>3 DEF Handled
<1>8. CASE UNCHANGED <<seen, runVars>>
  BY <1>8 DEF runVars, wkVars
<1>9. QED
  BY <1>2, <1>3, <1>4, <1>5, <1>6, <1>7, <1>8
  DEF Next, Reconcile, Loops, Outside, ApplyCR, DeleteCR, EditMap, EditOther, ConnDown

\* Every step preserves Unmoved.
LEMMA UnmovedStep ==
  ASSUME IInv, Gone, Unmoved, Next
  PROVE  Unmoved'
<1> SUFFICES ASSUME ~queued', pc' # "idle", NEW c \in CRs, seen'[c] = obj'[c]
             PROVE  list'[c] = obj'[c]
  BY DEF Unmoved
<1>1. TypeOK /\ obj \in [CRs -> Objs] /\ list \in [CRs -> Objs]
  BY DEF IInv, TypeOK
<1>2. CASE List
  BY <1>2 DEF List
<1>3. CASE Crash \/ EndBroadcast \/ EndStrip
  BY <1>3 DEF Crash, EndBroadcast, EndStrip, Return
<1>4. ASSUME ~queued, seen' = seen, pc # "idle"
      PROVE  obj'[c] = obj[c] /\ list[c] = obj[c]
  BY <1>4, NoWayBack DEF Unmoved
<1>5. ASSUME NEW d \in CRs, obj[d] = list[d],
             obj' = [obj EXCEPT ![d].fin = TRUE], list' = [list EXCEPT ![d].fin = TRUE],
             list[c] = obj[c]
      PROVE  list'[c] = obj'[c]
  BY <1>1, <1>5
<1>6. QED
  BY <1>1, <1>2, <1>3, <1>4, <1>5, QuietStep

\* Only the reconcile itself comes to the statuses, with the map just written.
LEMMA InPlaceStep ==
  ASSUME TypeOK, InPlace, Next
  PROVE  InPlace'
<1>1. CASE pc' \notin {"statuses", "strip"}
  BY <1>1 DEF InPlace
<1>2. ASSUME pc' \in {"statuses", "strip"} => pc \in {"statuses", "strip"},
             UNCHANGED <<list, router, meddled>>
      PROVE  InPlace'
  BY <1>2 DEF InPlace
<1>3. ASSUME NEW b, Return(b)
      PROVE  InPlace'
  BY <1>1, <1>3 DEF Return
<1>4. CASE List \/ Gate \/ ReadSettings
  BY <1>1, <1>4 DEF List, Gate, ReadSettings, Refused, NextLoop, Broadcast
<1>5. CASE PostSettings
  <2>1. CASE router' = Settings /\ list' = list
    <3>1. router'.alias = Desired(list')
      BY <2>1 DEF Settings
    <3>2. QED
      BY <3>1 DEF InPlace
  <2>2. QED
    BY <1>1, <1>5, <2>1 DEF PostSettings, Refused, NextLoop, Broadcast, Written
<1>6. CASE EndStatuses
  BY <1>2, <1>6 DEF EndStatuses, NextLoop, ghosts
<1>7. CASE ListFails \/ EndBroadcast \/ EndStrip
  BY <1>3, <1>7 DEF ListFails, EndBroadcast, EndStrip, Fail
<1>8. ASSUME NEW c \in CRs, Loops(c)
      PROVE  InPlace'
  <2>1. UNCHANGED <<router, ghosts>>
    BY <1>8 DEF Loops, AddFinalizer, TellNotReady, WritePerCRStatuses, StripFinalizer
  <2>2. (Handled(c) /\ (UNCHANGED list \/ pc = "finalizers")) \/ Return(TRUE)
    BY <1>8 DEF Loops, AddFinalizer, TellNotReady, WritePerCRStatuses, ApplyStatus, StripFinalizer, Fail
  <2>3. QED
    BY <1>1, <1>2, <1>3, <2>1, <2>2 DEF Handled, ghosts
<1>9. CASE EditMap
  BY <1>9 DEF EditMap, InPlace
<1>10. CASE EditOther
  <2>1. router'.alias = router.alias
    BY <1>10 DEF EditOther, TypeOK
  <2>2. QED
    BY <1>10, <2>1 DEF EditOther, InPlace, runVars, wkVars
<1>11. CASE UNCHANGED <<wkVars, router, ghosts>>
  BY <1>2, <1>11 DEF wkVars, ghosts
<1>12. CASE Crash
  BY <1>1, <1>12 DEF Crash
<1>13. QED
  BY <1>4, <1>5, <1>6, <1>7, <1>8, <1>9, <1>10, <1>11, <1>12
  DEF Next, Reconcile, Outside, Tick, Sync, ApplyCR, DeleteCR, ConnDown, ConnUp, runVars

\* The reason of a broadcast is not changed while the resources are told.
LEMMA ExcusedStep ==
  ASSUME TypeOK, Excused, Next
  PROVE  Excused'
<1>1. ASSUME NEW b, Return(b)
      PROVE  Excused'
  BY <1>1 DEF Return, Excused
<1>2. CASE List \/ Gate \/ EndStatuses
  BY <1>2 DEF List, Gate, EndStatuses, NextLoop, Broadcast, Excused
<1>3. CASE ReadSettings
  BY <1>3 DEF ReadSettings, Refused, NextLoop, Broadcast, Excused
<1>4. CASE PostSettings
  BY <1>4 DEF PostSettings, Refused, NextLoop, Broadcast, Excused
<1>5. CASE ListFails \/ EndBroadcast \/ EndStrip
  BY <1>1, <1>5 DEF ListFails, EndBroadcast, EndStrip, Fail
<1>6. ASSUME NEW c \in CRs, Loops(c)
      PROVE  Excused'
  <2>1. Handled(c) \/ Return(TRUE)
    BY <1>6 DEF Loops, AddFinalizer, TellNotReady, WritePerCRStatuses, ApplyStatus, StripFinalizer, Fail
  <2>2. QED
    BY <1>1, <2>1 DEF Handled, Excused
<1>7. CASE UNCHANGED wkVars
  BY <1>7 DEF wkVars, Excused
<1>8. CASE Crash
  BY <1>8 DEF Crash, Excused
<1>9. QED
  BY <1>2, <1>3, <1>4, <1>5, <1>6, <1>7, <1>8
  DEF Next, Reconcile, Outside, Tick, Sync, ApplyCR, DeleteCR, EditMap, EditOther, ConnDown, ConnUp, runVars

\* A verdict from the merged map is the truth while that map is in place.
LEMMA VerdictTrue ==
  ASSUME TypeOK, InPlace, pc = "strip", NEW c \in CRs, list[c] = obj[c], obj[c].phase = "live",
         Verdict(c)
  PROVE  Honest(c)
<1>1. obj[c].cobs = obj[c].gen /\ obj[c].applied = {a \in obj[c].names : Winner(list, a) = c}
  BY DEF Verdict, ResolveCR
<1>2. obj[c].ready = "Synced" <=> obj[c].applied = obj[c].names
  BY DEF Verdict
<1>3. obj[c].names \subseteq Aliases
  BY DEF TypeOK, Objs
<1>4. ASSUME ~meddled, NEW a \in obj[c].names
      PROVE  router.alias[a] = Entry(c, obj[c].gen) <=> Winner(list, a) = c
  <2>1. a \in Aliases /\ c \in Claim(list, a)
    BY <1>3, <1>4 DEF Claim, Alive
  <2>2. router.alias[a] = Entry(Winner(list, a), list[Winner(list, a)].gen)
    BY <1>4, <2>1 DEF InPlace, Desired
  <2>3. Entry(Winner(list, a), list[Winner(list, a)].gen) = Entry(c, obj[c].gen) => Winner(list, a) = c
    BY DEF Entry
  <2>4. QED
    BY <2>2, <2>3
<1>5. QED
  BY <1>1, <1>2, <1>4 DEF Honest

\* What ApplyStatus leaves when it does not end the pass.
LEMMA StatusWritten ==
  ASSUME TypeOK, NEW d \in CRs, NEW r, NEW rows, ApplyStatus(d, r, rows), ~queued'
  PROVE  /\ Handled(d) /\ list' = list
         /\ \/ seen[d].phase = "absent"
            \/ obj'[d].ready = r /\ obj'[d].cobs = list[d].gen /\ obj'[d].applied = rows
<1>1. ~Return(TRUE)
  BY DEF Return
<1>2. CASE seen[d].phase = "absent" /\ Handled(d) /\ list' = list
  BY <1>2
<1>3. CASE /\ obj' = [obj EXCEPT ![d].ready = r, ![d].cobs = list[d].gen, ![d].applied = rows]
           /\ Handled(d) /\ list' = list
  <2>1. obj'[d] = [obj[d] EXCEPT !.ready = r, !.cobs = list[d].gen, !.applied = rows]
    BY <1>3 DEF TypeOK
  <2>2. obj[d] \in Objs
    BY DEF TypeOK
  <2>3. obj'[d].ready = r /\ obj'[d].cobs = list[d].gen /\ obj'[d].applied = rows
    BY <2>1, <2>2 DEF Objs
  <2>4. QED
    BY <1>3, <2>3
<1>4. QED
  BY <1>1, <1>2, <1>3 DEF ApplyStatus, Fail

\* Every step keeps what each resource was told.
LEMMA ToldStep ==
  ASSUME IInv, StatusInv, Next, NEW c \in CRs
  PROVE  Told(c)'
<1> SUFFICES ASSUME ~queued', seen'[c] = obj'[c], obj'[c].phase = "live"
             PROVE  /\ pc' = "statuses" => c \in todo' \/ Verdict(c)'
                    /\ pc' = "strip" => Verdict(c)'
                    /\ pc' = "broadcast" => c \in todo' \/ Excuse(c)'
                    /\ pc' = "idle" => Honest(c)'
  BY DEF Told
<1>1. TypeOK /\ Gone /\ Unmoved /\ InPlace /\ Excused /\ Told(c)
  BY DEF IInv, StatusInv
<1>2. ~Return(TRUE)
  BY DEF Return
<1>3. ASSUME seen' = seen
      PROVE  /\ obj'[c] = obj[c] /\ seen[c] = obj[c] /\ obj[c].phase = "live"
             /\ ~queued /\ pc # "idle" => list[c] = obj[c] /\ c \in Alive(list)
  <2>1. obj'[c] = obj[c]
    BY <1>1, <1>3, NoWayBack
  <2>2. QED
    BY <1>1, <1>3, <2>1 DEF Unmoved, Alive
<1>4. CASE List
  BY <1>4 DEF List
<1>5. CASE Crash
  <2>1. c \in Alive(obj)
    BY <1>5 DEF Crash, Alive
  <2>2. QED
    BY <1>5, <2>1 DEF Crash
<1>6. CASE ListFails \/ Tick \/ ConnUp \/ \E d \in CRs : Sync(d)
  BY <1>2, <1>6 DEF ListFails, Fail, Tick, ConnUp, Sync
<1>7. CASE Gate \/ ReadSettings \/ PostSettings
  <2>1. /\ seen' = seen /\ list' = list /\ ~queued /\ pc # "idle"
        /\ pc' \in {"read", "post"} \/ (pc' \in {"statuses", "broadcast"} /\ todo' = Alive(list))
    BY <1>7 DEF Gate, ReadSettings, PostSettings, Refused, NextLoop, Broadcast
  <2>2. QED
    BY <1>3, <2>1
<1>8. CASE EndStatuses
  <2>1. /\ pc = "statuses" /\ todo = {} /\ pc' = "strip" /\ seen' = seen /\ list' = list
        /\ obj' = obj /\ ~queued
    BY <1>8 DEF EndStatuses, NextLoop
  <2>2. Verdict(c)
    BY <1>1, <1>3, <2>1 DEF Told
  <2>3. QED
    BY <2>1, <2>2 DEF Verdict
<1>9. CASE EndStrip
  <2>1. /\ pc = "strip" /\ pc' = "idle" /\ UNCHANGED <<seen, obj, router, meddled>> /\ ~queued
    BY <1>9 DEF EndStrip, Return, ghosts
  <2>2. Verdict(c) /\ list[c] = obj[c] /\ obj[c].phase = "live"
    BY <1>1, <1>3, <2>1 DEF Told
  <2>3. Honest(c)
    BY <1>1, <2>1, <2>2, VerdictTrue
  <2>4. QED
    BY <2>1, <2>3 DEF Honest
<1>10. CASE EndBroadcast
  <2>1. /\ pc = "broadcast" /\ todo = {} /\ pc' = "idle" /\ UNCHANGED <<seen, obj>> /\ ~queued
    BY <1>10 DEF EndBroadcast, Return
  <2>2. Excuse(c) /\ list[c] = obj[c]
    BY <1>1, <1>3, <2>1 DEF Told
  <2>3. QED
    BY <1>1, <2>1, <2>2 DEF Excuse, Excused, Honest
<1>11. ASSUME NEW d \in CRs, AddFinalizer(d)
       PROVE  pc' = "finalizers"
  <2>1. Return(TRUE) \/ Handled(d)
    BY <1>11 DEF AddFinalizer, Fail
  <2>2. QED
    BY <1>2, <1>11, <2>1 DEF AddFinalizer, Handled
<1>12. ASSUME NEW d \in CRs, TellNotReady(d)
       PROVE  pc' = "broadcast" /\ (c \in todo' \/ Excuse(c)')
  <2>1. ApplyStatus(d, why, seen[d].applied) /\ pc = "broadcast" /\ seen' = seen
    BY <1>12 DEF TellNotReady
  <2>2. /\ Handled(d) /\ list' = list
        /\ seen[d].phase = "absent" \/ (obj'[d].ready = why /\ obj'[d].cobs = list[d].gen)
    BY <1>1, <2>1, StatusWritten
  <2>3. pc' = "broadcast" /\ why' = why /\ ~queued /\ todo' = todo \ {d}
    BY <2>1, <2>2 DEF Handled
  <2>4. CASE d = c
    BY <1>3, <2>1, <2>2, <2>3, <2>4 DEF Excuse
  <2>5. CASE d # c
    BY <1>1, <1>3, <2>1, <2>2, <2>3, <2>5 DEF Told, Excuse
  <2>6. QED
    BY <2>3, <2>4, <2>5
<1>13. ASSUME NEW d \in CRs, WritePerCRStatuses(d)
       PROVE  pc' = "statuses" /\ (c \in todo' \/ Verdict(c)')
  <2> DEFINE v == IF ResolveCR(list, d) = list[d].names THEN "Synced" ELSE "PartialAliasConflict"
  <2>1. ApplyStatus(d, v, ResolveCR(list, d)) /\ pc = "statuses" /\ seen' = seen
    BY <1>13 DEF WritePerCRStatuses
  <2>2. /\ Handled(d) /\ list' = list
        /\ \/ seen[d].phase = "absent"
           \/ obj'[d].ready = v /\ obj'[d].cobs = list[d].gen /\ obj'[d].applied = ResolveCR(list, d)
    BY <1>1, <2>1, StatusWritten
  <2>3. pc' = "statuses" /\ ~queued /\ todo' = todo \ {d}
    BY <2>1, <2>2 DEF Handled
  <2>4. CASE d = c
    BY <1>3, <2>1, <2>2, <2>3, <2>4 DEF Verdict
  <2>5. CASE d # c
    BY <1>1, <1>3, <2>1, <2>2, <2>3, <2>5 DEF Told, Verdict
  <2>6. QED
    BY <2>3, <2>4, <2>5
<1>14. ASSUME NEW d \in CRs, StripFinalizer(d)
       PROVE  pc' = "strip" /\ Verdict(c)'
  <2>1. Return(TRUE) \/ (Handled(d) /\ list' = list)
    BY <1>14 DEF StripFinalizer, Fail
  <2>2. Handled(d) /\ list' = list
    BY <1>2, <2>1
  <2>3. pc = "strip" /\ pc' = "strip" /\ list' = list /\ seen' = seen /\ ~queued
    BY <1>14, <2>2 DEF StripFinalizer, Handled
  <2>4. QED
    BY <1>1, <1>3, <2>3 DEF Told, Verdict
<1>15. ASSUME UNCHANGED <<seen, runVars>>, meddled' \/ (router'.alias = router.alias /\ meddled' = meddled)
       PROVE  /\ pc' = "statuses" => c \in todo' \/ Verdict(c)'
              /\ pc' = "strip" => Verdict(c)'
              /\ pc' = "broadcast" => c \in todo' \/ Excuse(c)'
              /\ pc' = "idle" => Honest(c)'
  <2>1. /\ pc' = pc /\ list' = list /\ todo' = todo /\ why' = why /\ ~queued
        /\ seen' = seen
    BY <1>15 DEF runVars, wkVars
  <2>2. obj'[c] = obj[c]
    BY <1>3, <2>1
  <2>3. /\ pc = "statuses" => c \in todo \/ Verdict(c)
        /\ pc = "strip" => Verdict(c)
        /\ pc = "broadcast" => c \in todo \/ Excuse(c)
        /\ pc = "idle" => Honest(c)
    BY <1>1, <1>3, <2>1 DEF Told
  <2>4. (Verdict(c) => Verdict(c)') /\ (Excuse(c) => Excuse(c)')
    BY <2>1, <2>2 DEF Verdict, Excuse
  <2>5. Honest(c) => Honest(c)'
    BY <1>15, <2>2 DEF Honest
  <2>6. QED
    BY <2>1, <2>3, <2>4, <2>5
<1>16. CASE EditOther
  <2>1. router'.alias = router.alias
    BY <1>1, <1>16 DEF EditOther, TypeOK
  <2>2. QED
    BY <1>15, <1>16, <2>1 DEF EditOther
<1>17. CASE EditMap \/ ConnDown \/ \E d \in CRs : ApplyCR(d) \/ DeleteCR(d)
  BY <1>15, <1>17 DEF EditMap, ConnDown, ApplyCR, DeleteCR, ghosts
<1>18. QED
  BY <1>4, <1>5, <1>6, <1>7, <1>8, <1>9, <1>10, <1>11, <1>12, <1>13, <1>14, <1>16, <1>17
  DEF Next, Reconcile, Loops, Outside

\* For any number of resources and aliases: when nothing is left to
\* do, every live resource has the verdict on its present spec, and one that
\* says Synced or PartialAliasConflict names exactly the entries LiteLLM's map
\* holds for it, whatever passes failed half way or were overtaken before
\* (writePerCRStatuses, broadcastNotReady, applyStatus).
THEOREM StatusHonest == Spec => []HonestStatus
<1>1. Init => StatusInv
  BY DEF Init, StatusInv, Gone, Unmoved, InPlace, Excused, Told, NoList, Absent
<1>2. IInv /\ StatusInv /\ [Next]_vars => StatusInv'
  <2> SUFFICES ASSUME IInv, StatusInv, [Next]_vars PROVE StatusInv'
    OBVIOUS
  <2>1. CASE UNCHANGED vars
    BY <2>1 DEF StatusInv, Gone, Unmoved, InPlace, Excused, Told, Verdict, Excuse, Honest, vars, runVars,
       wkVars, ghosts
  <2>2. CASE Next
    <3>1. TypeOK /\ Gone /\ Unmoved /\ InPlace /\ Excused
      BY DEF IInv, StatusInv
    <3>2. Gone' /\ Unmoved' /\ InPlace' /\ Excused'
      BY <2>2, <3>1, GoneStep, UnmovedStep, InPlaceStep, ExcusedStep
    <3>3. \A c \in CRs : Told(c)'
      BY <2>2, ToldStep
    <3>4. QED
      BY <3>2, <3>3 DEF StatusInv
  <2>3. QED
    BY <2>1, <2>2
<1>3. StatusInv => HonestStatus
  <2> SUFFICES ASSUME StatusInv, AtRest, NEW c \in Alive(obj)
               PROVE  Honest(c)
    BY DEF HonestStatus, Honest
  <2>1. QED
    BY DEF StatusInv, Told, AtRest, Alive
<1>4. QED
  BY <1>1, <1>2, <1>3, InitIInv, NextIInv, PTL DEF Spec
=============================================================================
