-------------------------- MODULE ConnectionProofs --------------------------
(***************************************************************************)
(* Machine-checked proofs about Connection, for every set of dependents and *)
(* endpoints and every bound.  IInv is the inductive invariant.  The first  *)
(* group of its parts holds whatever the API server does, the second as     *)
(* long as no call to it has failed, which is what AgreeAtRest and          *)
(* NoStaleClient are about.                                                *)
(***************************************************************************)
EXTENDS Connection, TLAPS

Flags == {lag, cq, timer, gate, lastReady, missed, muddled, secret} \subseteq BOOLEAN

\* A generation costs a change from outside; the status describes one that was.
Bounded == /\ cr.gen <= events + 1
           /\ cr.obs <= cr.gen

\* A dependent that is about to call LiteLLM holds a client.
Holding == \A d \in Dependents : dpc[d] # "idle" => held[d] \in Endpoints

\* Where the worker is tells what its copy is and whether it has an outcome.
Applying == {"shield", "secret", "probe", "write", "publish"}
Position ==
  /\ cr.ep \in Endpoints /\ seen.ep \in Endpoints
  /\ cpc # "idle" => wk.ep \in Endpoints
  /\ cpc \in Applying => wk.fin
  /\ cpc = "drop" => wk.phase = "deleting" /\ wk.fin
  /\ cpc \notin {"write", "publish"} => out = "none"
  /\ cpc \in {"write", "publish"} => out \in Failures \cup {"Synced"}

\* A copy that is not behind is the object.
Current == ~lag => seen = cr

\* The worker has a live object with the finalizer, or goes on as if.
AtWork == cpc \in Applying \/ (cpc = "fetched" /\ wk.phase = "live" /\ wk.fin)

\* The finalizer pins the object under a reconcile, and under a copy: it may be
\* edited or deleted, but not replaced by another of its name.
Pinned == (seen.phase = "live" /\ seen.fin) \/ AtWork => cr.fin /\ cr.phase # "gone"

\* Copies of one object at one generation have one spec.
OneSpec ==
  /\ seen.fin /\ cr.fin => seen.gen <= cr.gen
  /\ seen.fin /\ cr.fin /\ seen.gen = cr.gen => seen.ep = cr.ep
  /\ cpc # "idle" /\ wk.fin /\ cr.fin => wk.gen <= cr.gen
  /\ cpc # "idle" /\ wk.fin /\ cr.fin /\ wk.gen = cr.gen => wk.ep = cr.ep
  /\ cpc # "idle" /\ wk.fin /\ cr.fin /\ seen.fin /\ wk.gen = seen.gen => wk.ep = seen.ep

\* Nobody else writes the status: a pass that read the last one stays in step.
StatusInStep ==
  /\ AtWork /\ ~missed => cr.reason = wk.reason /\ cr.obs = wk.obs
  /\ cpc = "publish" => wk.reason = out /\ wk.obs = wk.gen

\* Without an event since the fetch the worker's copy is the object.
NoEventNoChange == cpc # "idle" /\ ~cq /\ ~lag => cr = wk

\* A status that says Connecting goes with a snapshot nobody can use, but for
\* the moment between the two writes.
ConnectingShields == cr.reason = "Connecting" /\ cpc # "shield" => ~Usable(snapshot)

\* A client that can be used was built from the spec the status describes, also
\* as a copy that has this status knows it.
ClientDescribed ==
  Usable(snapshot) /\ cpc # "shield" =>
    /\ cr.obs = cr.gen => snapshot.client = cr.ep
    /\ seen.fin /\ cr.fin /\ seen.obs = seen.gen /\ seen.obs = cr.obs
         => snapshot.client = seen.ep
    /\ cpc = "fetched" /\ wk.fin /\ cr.fin /\ wk.obs = wk.gen /\ wk.obs = cr.obs
         => snapshot.client = wk.ep

\* What holds as long as no API call has failed.
Reliable == /\ StatusInStep /\ NoEventNoChange
            /\ ~muddled /\ ~(missed /\ cpc \in Applying) => ConnectingShields /\ ClientDescribed
            /\ ~muddled /\ ~missed => ShieldHolds
            /\ AgreeAtRest

Basic == Bounded /\ Holding /\ Position /\ Current /\ Pinned /\ OneSpec

IInv == /\ TypeOK /\ Basic
        /\ fails = 0 => Reliable

-----------------------------------------------------------------------------
(* Proofs.                                                                 *)

\* The changes a connection may see keep its type.
LEMMA CRChange ==
  ASSUME NEW c \in CRs
  PROVE  /\ [c EXCEPT !.fin = TRUE] \in CRs
         /\ [c EXCEPT !.phase = "deleting"] \in CRs
         /\ [c EXCEPT !.phase = "gone"] \in CRs
         /\ [c EXCEPT !.phase = "gone", !.fin = FALSE] \in CRs
         /\ [c EXCEPT !.phase = IF c.fin THEN "deleting" ELSE "gone"] \in CRs
  BY Zenon DEF CRs

LEMMA CREdit ==
  ASSUME NEW c \in CRs, NEW e \in Endpoints, c.gen + 1 \in 0 .. MaxEvents + 1
  PROVE  [c EXCEPT !.ep = e, !.gen = @ + 1] \in CRs
  BY Zenon DEF CRs

LEMMA CRStatus ==
  ASSUME NEW c \in CRs, NEW r \in Reasons, NEW n \in 0 .. MaxEvents + 1
  PROVE  [c EXCEPT !.reason = r, !.obs = n] \in CRs
  BY Zenon DEF CRs

\* ... and so do a dependent's.
LEMMA DepChange ==
  ASSUME dep \in [Dependents -> Deps], NEW d \in Dependents,
         \/ dep' = dep
         \/ dep' = [dep EXCEPT ![d].phase = "deleting"]
         \/ dep' = [dep EXCEPT ![d] = [phase |-> "drained", reason |-> "none"]]
         \/ dep' = [dep EXCEPT ![d].reason = "Synced"]
         \/ dep' = [dep EXCEPT ![d].reason = "LiteLLMUnavailable"]
  PROVE  dep' \in [Dependents -> Deps]
<1>1. CASE dep' = [dep EXCEPT ![d] = [phase |-> "drained", reason |-> "none"]]
  <2>1. [phase |-> "drained", reason |-> "none"] \in Deps
    BY DEF Deps
  <2> QED
    BY <1>1, <2>1
<1>2. CASE ~(dep' = [dep EXCEPT ![d] = [phase |-> "drained", reason |-> "none"]])
  BY <1>2, Zenon DEF Deps
<1> QED
  BY <1>1, <1>2

\* A 401 leaves a snapshot, if not one that can be used.
LEMMA RefusedSnapshot ==
  ASSUME NEW s \in Snapshots
  PROVE  [ready |-> FALSE, reason |-> "BadMasterKey", client |-> s.client] \in Snapshots
  BY DEF Snapshots, Reasons, Failures

\* A new connection and the worker's empty hands are well typed.
LEMMA NewObject ==
  /\ NoObject \in CRs
  /\ \A e \in Endpoints \cup {NoEndpoint} :
       /\ NewCR(e) \in CRs
       /\ NewCR(e).phase = "live" /\ ~NewCR(e).fin /\ NewCR(e).gen = 1 /\ NewCR(e).ep = e
       /\ NewCR(e).reason = "none" /\ NewCR(e).obs = 0
<1>1. 1 \in 0 .. MaxEvents + 1 /\ 0 \in 0 .. MaxEvents + 1
  BY ConnectionAssumption
<1>2. "none" \in Reasons
  BY DEF Reasons
<1> QED
  BY <1>1, <1>2 DEF NoObject, NewCR, CRs

\* A write that leaves the copy current has changed nothing.
LEMMA Stored ==
  ASSUME NEW c, Store(c)
  PROVE  cr' = c /\ (~lag' => ~lag /\ cr' = cr)
  BY Zenon DEF Store

\* The operator starts beside an unreconciled connection: IInv holds.
LEMMA InitIInv == Init => IInv
<1> SUFFICES ASSUME Init PROVE IInv
  OBVIOUS
<1> USE ConnectionAssumption DEF Init, ZeroSnapshot, Refused
<1>1. TypeOK
  <2>1. cr \in CRs /\ seen \in CRs /\ wk \in CRs /\ snapshot \in Snapshots
    <3>1. PICK e \in Endpoints : cr = NewCR(e)
      OBVIOUS
    <3>2. snapshot \in Snapshots
      BY DEF Snapshots, Reasons
    <3> QED
      BY <3>1, <3>2, NewObject
  <2>2. Flags
    BY Zenon DEF Flags
  <2>3. dep \in [Dependents -> Deps]
    BY DEF Deps
  <2> QED
    <3>1. /\ pol \in [Dependents -> Policies]
          /\ dpc \in [Dependents -> {"idle", "apply", "delete"}]
          /\ held \in [Dependents -> Endpoints \cup {NoEndpoint}]
          /\ row \in [Dependents -> SUBSET Endpoints]
          /\ answer \in [Endpoints -> Answers]
          /\ out \in Reasons /\ cpc = "idle"
          /\ events \in 0 .. MaxEvents /\ fails \in 0 .. MaxUpsets /\ crashes \in 0 .. MaxUpsets
      BY DEF Policies, Reasons
    <3> QED
      BY <2>1, <2>2, <2>3, <3>1 DEF TypeOK, Flags
<1>2. Basic
  BY NewObject DEF Basic, Bounded, Holding, Position, Applying, Current, Pinned, AtWork, OneSpec
<1>3. Reliable
  BY NewObject DEF Reliable, StatusInStep, AtWork, Applying, NoEventNoChange, ConnectingShields,
         ClientDescribed, ShieldHolds, AgreeAtRest, AtRest, Usable
<1> QED
  BY <1>1, <1>2, <1>3 DEF IInv

\* What a status write does to the object, unless it fails: reason and
\* observedGeneration, nothing else.
LEMMA StatusWritten ==
  ASSUME cr \in CRs, wk \in CRs, NEW r \in Reasons, WriteStatus(Described(r))
  PROVE  /\ cr' \in CRs /\ Described(r) \in CRs
         /\ Described(r).phase = wk.phase /\ Described(r).fin = wk.fin
         /\ Described(r).gen = wk.gen /\ Described(r).ep = wk.ep
         /\ Described(r).reason = r /\ Described(r).obs = wk.gen
         /\ cr'.obs \in {cr.obs, wk.gen}
         /\ cr'.phase = cr.phase /\ cr'.fin = cr.fin /\ cr'.gen = cr.gen /\ cr'.ep = cr.ep
         /\ \/ NoFail /\ cr' = Patched(Described(r))
            \/ Fail /\ cr' = cr
         /\ ~lag' => ~lag /\ cr' = cr
<1> DEFINE new == Described(r)
<1>1. new = [wk EXCEPT !.reason = r, !.obs = wk.gen]
  BY DEF Described
<1>2. wk.gen \in 0 .. MaxEvents + 1 /\ wk.obs \in 0 .. MaxEvents + 1 /\ cr.obs \in 0 .. MaxEvents + 1
      /\ cr.reason \in Reasons
  BY DEF CRs
<1>3. new \in CRs
  BY <1>1, <1>2, CRStatus, Zenon
<1>4. /\ \/ NoFail /\ cr' = Patched(new)
         \/ Fail /\ cr' = cr
      /\ ~lag' => ~lag /\ cr' = cr
  <2>1. (NoFail /\ Store(Patched(new))) \/ (Fail /\ cr' = cr /\ lag' = lag)
    BY DEF WriteStatus
  <2>2. CASE NoFail /\ Store(Patched(new))
    BY <2>2, Stored, Zenon
  <2>3. CASE Fail /\ cr' = cr /\ lag' = lag
    BY <2>3, Zenon
  <2> QED
    BY <2>1, <2>2, <2>3
<1>5. ASSUME NEW q \in Reasons, NEW n \in 0 .. MaxEvents + 1
      PROVE  LET c == [cr EXCEPT !.reason = q, !.obs = n]
             IN c \in CRs /\ c.phase = cr.phase /\ c.fin = cr.fin /\ c.gen = cr.gen /\ c.ep = cr.ep
  BY CRStatus DEF CRs
<1> HIDE DEF new
<1>6. \/ cr' = cr
      \/ \E q \in Reasons, n \in 0 .. MaxEvents + 1 : cr' = [cr EXCEPT !.reason = q, !.obs = n]
  BY <1>2, <1>3, <1>4 DEF Patched, CRs
<1> DEFINE Same == /\ cr' \in CRs
                   /\ cr'.phase = cr.phase /\ cr'.fin = cr.fin /\ cr'.gen = cr.gen /\ cr'.ep = cr.ep
<1>7. Same
  <2>1. CASE cr' = cr
    BY <2>1
  <2>2. ASSUME NEW q \in Reasons, NEW n \in 0 .. MaxEvents + 1,
               cr' = [cr EXCEPT !.reason = q, !.obs = n]
        PROVE  Same
    BY <1>5, <2>2, Zenon
  <2> QED
    BY <1>6, <2>1, <2>2, Zenon
<1>8. /\ new.phase = wk.phase /\ new.fin = wk.fin /\ new.gen = wk.gen /\ new.ep = wk.ep
      /\ new.reason = r /\ new.obs = wk.gen
  BY <1>1 DEF CRs
<1>9. cr'.obs \in {cr.obs, wk.gen}
  BY <1>4, <1>8 DEF Patched, CRs
<1> QED
  BY <1>3, <1>4, <1>7, <1>8, <1>9, Zenon DEF new

\* A write over a status that is the worker's own, when the call does not fail:
\* the object's status is the new one.
LEMMA StatusArrives ==
  ASSUME cr \in CRs, wk \in CRs, NEW r \in Reasons, WriteStatus(Described(r)),
         fails \in Nat, fails' = 0,
         cr.phase # "gone", cr.reason = wk.reason, cr.obs = wk.obs
  PROVE  /\ cr'.reason = r /\ cr'.obs = wk.gen
         /\ cr = wk => cr' = Described(r)
<1>1. cr' = Patched(Described(r))
  <2>1. ~Fail
    BY DEF Fail
  <2> QED
    BY <2>1, StatusWritten, Zenon
<1>2. /\ Described(r) = [wk EXCEPT !.reason = r, !.obs = wk.gen]
      /\ Described(r).reason = r /\ Described(r).obs = wk.gen
  BY StatusWritten DEF Described
<1>3. cr'.reason = r /\ cr'.obs = wk.gen
  BY <1>1, <1>2 DEF Patched, CRs
<1>4. ASSUME cr = wk PROVE cr' = Described(r)
  BY <1>1, <1>2, <1>4 DEF Patched, CRs
<1> QED
  BY <1>3, <1>4

\* Every step keeps the queue entries, the timer and the cache's flags Boolean.
LEMMA StepFlags == IInv /\ [Next]_vars => Flags'
<1> SUFFICES ASSUME IInv, [Next]_vars PROVE Flags'
  OBVIOUS
<1> USE DEF IInv, TypeOK, Flags
<1>1. CASE Fetch
  BY <1>1, Zenon DEF Fetch, GoTo, depVars, cacheVars, envVars
<1>2. CASE Absent
  BY <1>2, Zenon DEF Absent, NoObject, NewCR, Return, Rebuild, ZeroSnapshot, GoTo, cacheVars, envVars
<1>3. CASE DropFinalizer
  BY <1>3, Zenon DEF DropFinalizer, NoObject, NewCR, Unmoved, Fail, NoFail, Store, GoTo, Return, cacheVars, depVars
<1>4. CASE AddFinalizer
  BY <1>4, Zenon DEF AddFinalizer, NoObject, NewCR, Unmoved, Fail, NoFail, Store, GoTo, Return, cacheVars, depVars
<1>5. CASE ConnectingOnEntry
  BY <1>5, Zenon DEF ConnectingOnEntry, WriteConnecting, WriteStatus, Patched, NewGeneration, Fail, NoFail, Store, GoTo, Return, cacheVars, depVars
<1>6. CASE Shield
  BY <1>6, Zenon DEF Shield, Rebuild, ZeroSnapshot, GoTo, envVars
<1>7. CASE ResolveSecret
  BY <1>7, Zenon DEF ResolveSecret, NoObject, NewCR, Fail, NoFail, Store, GoTo, Return, cacheVars, depVars
<1>9. CASE Probe
  BY <1>9, Zenon DEF Probe, GoTo, cacheVars, depVars, envVars
<1>10. CASE WriteOutcome
  BY <1>10, Zenon DEF WriteOutcome, WriteStatus, Patched, Fail, NoFail, Store, GoTo, Return, cacheVars, depVars
<1>11. CASE Publish
  BY <1>11, Zenon DEF Publish, NoObject, NewCR, Rebuild, GoTo, Return, envVars
<1>12. CASE PeriodicProbe
  BY <1>12, Zenon DEF PeriodicProbe, cacheVars, depVars, envVars
<1>13. ASSUME NEW d \in Dependents, DepRead(d) PROVE Flags'
  BY <1>13, Zenon DEF DepRead, Drain, connVars, cacheVars, envVars
<1>14. ASSUME NEW d \in Dependents, DepApply(d) PROVE Flags'
  BY <1>14, Zenon DEF DepApply, Release, InvalidateOn401, cacheVars, envVars
<1>15. ASSUME NEW d \in Dependents, DepDelete(d) PROVE Flags'
  BY <1>15, Zenon DEF DepDelete, Release, Drain, connVars, cacheVars, envVars
<1>16. CASE Sync
  BY <1>16 DEF Sync, cacheVars, depVars, envVars
<1>17. CASE EditSpec
  BY <1>17, Zenon DEF EditSpec, Store, Event, cacheVars, depVars
<1>18. CASE DeleteConnection
  BY <1>18, Zenon DEF DeleteConnection, Store, Event, cacheVars, depVars
<1>19. CASE RecreateConnection
  BY <1>19, Zenon DEF RecreateConnection, Store, Event, NewCR, cacheVars, depVars
<1>20. ASSUME NEW d \in Dependents, DeleteDependent(d) PROVE Flags'
  BY <1>20, Zenon DEF DeleteDependent, Event, connVars, cacheVars
<1>21. CASE ChangeSecret
  BY <1>21, Zenon DEF ChangeSecret, Event, cacheVars, depVars
<1>22. CASE Flap
  BY <1>22, Zenon DEF Flap, Event, cacheVars, depVars
<1>23. CASE Crash
  BY <1>23, Zenon DEF Crash, NoObject, NewCR, GoTo, Return, ZeroSnapshot
<1>24. CASE UNCHANGED vars
  BY <1>24 DEF vars
<1> QED
  BY <1>1, <1>2, <1>3, <1>4, <1>5, <1>6, <1>7, <1>9, <1>10, <1>11,
     <1>12, <1>13, <1>14, <1>15, <1>16, <1>17, <1>18, <1>19, <1>20, <1>21,
     <1>22, <1>23, <1>24
  DEF Next, Reconcile, DepStep, Outside

\* Every step keeps the types.
LEMMA StepTypeOK == IInv /\ [Next]_vars => TypeOK'
<1> DEFINE Objects == /\ cr \in CRs /\ seen \in CRs /\ wk \in CRs /\ snapshot \in Snapshots
                      /\ dep \in [Dependents -> Deps]
           Rest == /\ cpc \in {"idle", "fetched", "drop", "shield", "secret",
                                "probe", "write", "publish"}
                   /\ out \in Reasons
                   /\ dpc \in [Dependents -> {"idle", "apply", "delete"}]
                   /\ held \in [Dependents -> Endpoints \cup {NoEndpoint}]
                   /\ row \in [Dependents -> SUBSET Endpoints]
                   /\ pol \in [Dependents -> Policies]
                   /\ answer \in [Endpoints -> Answers]
                   /\ events \in 0 .. MaxEvents /\ fails \in 0 .. MaxUpsets
                   /\ crashes \in 0 .. MaxUpsets
<1> SUFFICES ASSUME IInv, [Next]_vars PROVE Objects' /\ Rest'
  BY StepFlags DEF IInv, TypeOK, Flags
<1> USE ConnectionAssumption DEF IInv, TypeOK, Basic, Bounded, Holding, Reasons, Failures
<1>1. CASE Fetch
  BY <1>1 DEF Fetch, GoTo, depVars, cacheVars, envVars
<1>2. CASE Absent
  <2>1. snapshot' = snapshot \/ snapshot' = [ready |-> FALSE, reason |-> "Absent", client |-> NoEndpoint]
    BY <1>2 DEF Absent, Rebuild, ZeroSnapshot, cacheVars
  <2>2. snapshot' \in Snapshots
    <3>1. [ready |-> FALSE, reason |-> "Absent", client |-> NoEndpoint] \in Snapshots
      BY DEF Snapshots
    <3> QED
      BY <2>1, <3>1, Zenon
  <2>3. wk' \in CRs
    BY <1>2, NewObject DEF Absent, Return
  <2> QED
    BY <1>2, <2>2, <2>3 DEF Absent, Return, GoTo, envVars
<1>3. CASE DropFinalizer
  <2>1. cr' \in CRs
    BY <1>3, CRChange, Zenon DEF DropFinalizer, Unmoved, Fail, NoFail, Store, GoTo, Return, cacheVars, depVars
  <2> QED
    BY <1>3, <2>1, NewObject DEF DropFinalizer, Unmoved, Fail, NoFail, Store, GoTo, Return, cacheVars, depVars
<1>4. CASE AddFinalizer
  <2>1. cr' \in CRs
    BY <1>4, CRChange, Zenon DEF AddFinalizer, Unmoved, Fail, NoFail, Store, GoTo, Return, cacheVars, depVars
  <2> QED
    BY <1>4, <2>1, NewObject DEF AddFinalizer, Unmoved, Fail, NoFail, Store, GoTo, Return, cacheVars, depVars
<1>5. CASE ConnectingOnEntry
  <2>1. cr' \in CRs /\ wk' \in CRs
    <3>1. \/ UNCHANGED <<cr, wk>>
          \/ /\ WriteStatus(Described("Connecting"))
             /\ wk' = cr' \/ wk' = Described("Connecting")
      BY <1>5 DEF ConnectingOnEntry, WriteConnecting
    <3> QED
      BY <3>1, StatusWritten
  <2> QED
    BY <1>5, <2>1 DEF ConnectingOnEntry, WriteConnecting, WriteStatus, Fail, NoFail, GoTo, cacheVars, depVars
<1>6. CASE Shield
  BY <1>6 DEF Shield, Rebuild, ZeroSnapshot, Snapshots, GoTo, envVars
<1>7. CASE ResolveSecret
  BY <1>7, NewObject DEF ResolveSecret, Fail, NoFail, Store, GoTo, Return, cacheVars, depVars
<1>9. CASE Probe
  BY <1>9 DEF Probe, Position, GoTo, CRs, cacheVars, depVars, envVars
<1>10. CASE WriteOutcome
  <2>1. cr' \in CRs /\ wk' \in CRs
    BY <1>10, StatusWritten DEF WriteOutcome
  <2> QED
    BY <1>10, <2>1 DEF WriteOutcome, WriteStatus, Fail, NoFail, Store, GoTo, Return, cacheVars, depVars
<1>11. CASE Publish
  BY <1>11, NewObject DEF Publish, Rebuild, GoTo, Return, CRs, Snapshots, envVars
<1>12. CASE PeriodicProbe
  BY <1>12 DEF PeriodicProbe, cacheVars, depVars, envVars
<1>13. ASSUME NEW d \in Dependents, DepRead(d) PROVE Objects' /\ Rest'
  <2>1. dep' \in [Dependents -> Deps]
    <3>1. \/ dep' = dep \/ dep' = [dep EXCEPT ![d] = [phase |-> "drained", reason |-> "none"]]
          \/ dep' = [dep EXCEPT ![d].reason = "LiteLLMUnavailable"]
      BY <1>13 DEF DepRead, Drain
    <3> QED
      BY <3>1, DepChange, Zenon
  <2>2. snapshot.client \in Endpoints \cup {NoEndpoint}
    BY DEF Snapshots
  <2> QED
    BY <1>13, <2>1, <2>2 DEF DepRead, connVars, cacheVars, envVars
<1>14. ASSUME NEW d \in Dependents, DepApply(d) PROVE Objects' /\ Rest'
  <2>1. dep' \in [Dependents -> Deps]
    <3>1. \/ dep' = dep \/ dep' = [dep EXCEPT ![d].reason = "Synced"]
          \/ dep' = [dep EXCEPT ![d].reason = "LiteLLMUnavailable"]
      BY <1>14 DEF DepApply
    <3> QED
      BY <3>1, DepChange, Zenon
  <2>2. snapshot' \in Snapshots
    <3>1. \/ snapshot' = snapshot
          \/ snapshot' = [ready |-> FALSE, reason |-> "BadMasterKey", client |-> snapshot.client]
      BY <1>14 DEF DepApply, InvalidateOn401, cacheVars
    <3> QED
      BY <3>1, RefusedSnapshot, Zenon
  <2>3. row' \in [Dependents -> SUBSET Endpoints]
    <3>1. held[d] \in Endpoints
      BY <1>14 DEF DepApply
    <3>2. row' = row \/ row' = [row EXCEPT ![d] = @ \cup {held[d]}]
      BY <1>14 DEF DepApply
    <3> QED
      BY <3>1, <3>2
  <2>4. /\ held' \in [Dependents -> Endpoints \cup {NoEndpoint}]
        /\ dpc' \in [Dependents -> {"idle", "apply", "delete"}]
    BY <1>14 DEF DepApply, Release
  <2> QED
    BY <1>14, <2>1, <2>2, <2>3, <2>4 DEF DepApply, envVars
<1>15. ASSUME NEW d \in Dependents, DepDelete(d) PROVE Objects' /\ Rest'
  <2>1. dep' \in [Dependents -> Deps]
    <3>1. dep' = dep \/ dep' = [dep EXCEPT ![d] = [phase |-> "drained", reason |-> "none"]]
      BY <1>15 DEF DepDelete, Drain
    <3> QED
      BY <3>1, DepChange, Zenon
  <2>2. row' \in [Dependents -> SUBSET Endpoints]
    <3>1. row' = row \/ row' = [row EXCEPT ![d] = @ \ {held[d]}]
      BY <1>15 DEF DepDelete
    <3> QED
      BY <3>1
  <2>3. /\ held' \in [Dependents -> Endpoints \cup {NoEndpoint}]
        /\ dpc' \in [Dependents -> {"idle", "apply", "delete"}]
    BY <1>15 DEF DepDelete, Release
  <2> QED
    BY <1>15, <2>1, <2>2, <2>3 DEF DepDelete, connVars, cacheVars, envVars
<1>16. CASE Sync
  BY <1>16 DEF Sync, cacheVars, depVars, envVars
<1>17. CASE EditSpec
  <2>1. cr.gen + 1 \in 0 .. MaxEvents + 1
    BY <1>17 DEF EditSpec, Store, Event, CRs
  <2>2. PICK e \in Endpoints : cr' = [cr EXCEPT !.ep = e, !.gen = @ + 1]
    BY <1>17 DEF EditSpec, Store
  <2>3. cr' \in CRs
    BY <2>1, <2>2, CREdit
  <2> QED
    BY <1>17, <2>3 DEF EditSpec, Store, Event, cacheVars, depVars
<1>18. CASE DeleteConnection
  <2>1. cr' \in CRs
    BY <1>18, CRChange, Zenon DEF DeleteConnection, Store, Event, cacheVars, depVars
  <2> QED
    BY <1>18, <2>1 DEF DeleteConnection, Store, Event, cacheVars, depVars
<1>19. CASE RecreateConnection
  BY <1>19, NewObject DEF RecreateConnection, Store, Event, cacheVars, depVars
<1>20. ASSUME NEW d \in Dependents, DeleteDependent(d) PROVE Objects' /\ Rest'
  <2>1. dep' \in [Dependents -> Deps]
    BY <1>20, DepChange, Zenon DEF DeleteDependent
  <2>2. pol' \in [Dependents -> Policies]
    BY <1>20 DEF DeleteDependent
  <2> QED
    BY <1>20, <2>1, <2>2 DEF DeleteDependent, Event, connVars, cacheVars
<1>21. CASE ChangeSecret
  BY <1>21 DEF ChangeSecret, Event, cacheVars, depVars
<1>22. CASE Flap
  BY <1>22 DEF Flap, Event, cacheVars, depVars
<1>23. CASE Crash
  BY <1>23, NewObject DEF Crash, GoTo, Return, ZeroSnapshot, Snapshots
<1>24. CASE UNCHANGED vars
  BY <1>24 DEF vars
<1> QED
  BY <1>1, <1>2, <1>3, <1>4, <1>5, <1>6, <1>7, <1>9, <1>10, <1>11,
     <1>12, <1>13, <1>14, <1>15, <1>16, <1>17, <1>18, <1>19, <1>20, <1>21,
     <1>22, <1>23, <1>24
  DEF Next, Reconcile, DepStep, Outside

\* Every step keeps the bounds, the worker's position and its hold on the
\* object.
LEMMA StepPosition == IInv /\ [Next]_vars => Basic'
<1> SUFFICES ASSUME IInv, [Next]_vars PROVE Basic'
  OBVIOUS
<1> USE ConnectionAssumption, NewObject DEF IInv, TypeOK, CRs, Reasons, Failures, Basic, Bounded, Holding, Position,
        Applying, Current, AtWork, Pinned, OneSpec
<1>1. CASE Fetch
  BY <1>1 DEF Fetch, GoTo, depVars, cacheVars, envVars
<1>2. CASE Absent
  BY <1>2 DEF Absent, Return, Rebuild, ZeroSnapshot, GoTo, cacheVars, envVars
<1>3. CASE DropFinalizer
  <2>1. CASE ~lag /\ cr = wk /\ Store([cr EXCEPT !.phase = "gone", !.fin = FALSE])
    <3>1. cr' = [cr EXCEPT !.phase = "gone", !.fin = FALSE] /\ seen = cr /\ seen.phase = "deleting"
          /\ (~lag' => ~lag /\ cr' = cr)
      BY <1>3, <2>1, Stored DEF DropFinalizer
    <3>2. cr'.phase = "gone" /\ ~cr'.fin /\ cr'.gen = cr.gen /\ cr'.ep = cr.ep /\ cr'.obs = cr.obs
      BY <3>1
    <3> QED
      BY <1>3, <3>1, <3>2 DEF DropFinalizer, GoTo, Return, depVars
  <2>2. CASE UNCHANGED <<cr, lag>>
    BY <1>3, <2>2 DEF DropFinalizer, GoTo, Return, depVars
  <2> QED
    BY <1>3, <2>1, <2>2 DEF DropFinalizer, Unmoved
<1>4. CASE AddFinalizer
  <2>1. CASE ~lag /\ cr = wk /\ Store([cr EXCEPT !.fin = TRUE])
    <3>1. cr' = [cr EXCEPT !.fin = TRUE] /\ seen = cr /\ ~seen.fin
          /\ (~lag' => ~lag /\ cr' = cr)
      BY <1>4, <2>1, Stored DEF AddFinalizer
    <3>2. cr'.phase = cr.phase /\ cr'.gen = cr.gen /\ cr'.ep = cr.ep /\ cr'.obs = cr.obs
      BY <3>1
    <3> QED
      BY <1>4, <3>1, <3>2 DEF AddFinalizer, GoTo, Return, depVars
  <2>2. CASE UNCHANGED <<cr, lag>>
    BY <1>4, <2>2 DEF AddFinalizer, GoTo, Return, depVars
  <2> QED
    BY <1>4, <2>1, <2>2 DEF AddFinalizer, Unmoved
<1>5. CASE ConnectingOnEntry
  <2>1. CASE WriteConnecting /\ cpc' = "shield"
    <3>1. WriteStatus(Described("Connecting"))
      BY <2>1 DEF WriteConnecting
    <3>2. wk' = cr' \/ wk' = Described("Connecting")
      BY <2>1 DEF WriteConnecting
    <3>3. ~lag' => ~lag /\ cr' = cr
      BY <3>1, StatusWritten
    <3>4. /\ cr'.phase = cr.phase /\ cr'.fin = cr.fin /\ cr'.gen = cr.gen /\ cr'.ep = cr.ep
          /\ cr'.obs \in {cr.obs, wk.gen}
      BY <3>1, StatusWritten
    <3>5. /\ wk'.fin /\ wk'.ep \in Endpoints /\ wk'.gen <= cr.gen
          /\ wk'.gen = cr.gen => wk'.ep = cr.ep
          /\ seen.fin /\ wk'.gen = seen.gen => wk'.ep = seen.ep
      <4>1. wk.fin /\ cr.fin /\ cpc # "idle"
        BY <1>5 DEF ConnectingOnEntry
      <4>2. CASE wk' = cr'
        <5>1. wk'.fin = cr.fin /\ wk'.gen = cr.gen /\ wk'.ep = cr.ep
          BY <3>4, <4>2
        <5> QED
          BY <4>1, <5>1
      <4>3. CASE wk' = Described("Connecting")
        <5>1. wk'.fin = wk.fin /\ wk'.gen = wk.gen /\ wk'.ep = wk.ep
          BY <3>1, <4>3, StatusWritten
        <5> QED
          BY <4>1, <5>1
      <4> QED
        BY <3>2, <4>2, <4>3
    <3> QED
      BY <1>5, <2>1, <3>3, <3>4, <3>5 DEF ConnectingOnEntry, depVars
  <2>2. CASE cpc' = "secret" /\ UNCHANGED <<cr, lag, wk>>
    BY <1>5, <2>2 DEF ConnectingOnEntry, depVars
  <2> QED
    BY <1>5, <2>1, <2>2 DEF ConnectingOnEntry, GoTo
<1>6. CASE Shield
  BY <1>6 DEF Shield, Rebuild, ZeroSnapshot, GoTo, envVars
<1>7. CASE ResolveSecret
  BY <1>7 DEF ResolveSecret, Fail, NoFail, Store, GoTo, Return, cacheVars, depVars
<1>9. CASE Probe
  BY <1>9 DEF Probe, GoTo, cacheVars, depVars, envVars
<1>10. CASE WriteOutcome
  <2>1. WriteStatus(Described(out)) /\ wk' = Described(out)
    BY <1>10 DEF WriteOutcome
  <2> QED
    BY <1>10, <2>1, StatusWritten DEF WriteOutcome, GoTo, depVars
<1>11. CASE Publish
  BY <1>11 DEF Publish, Rebuild, GoTo, Return, envVars
<1>12. CASE PeriodicProbe
  BY <1>12 DEF PeriodicProbe, cacheVars, depVars, envVars
<1>13. ASSUME NEW d \in Dependents, DepRead(d) PROVE Basic'
  <2>1. Usable(snapshot) => snapshot.client \in Endpoints
    BY DEF Usable, Snapshots
  <2>2. Holding'
    BY <1>13, <2>1 DEF DepRead
  <2> QED
    BY <1>13, <2>2 DEF DepRead, connVars, envVars
<1>14. ASSUME NEW d \in Dependents, DepApply(d) PROVE Basic'
  BY <1>14 DEF DepApply, Release, InvalidateOn401, cacheVars, envVars
<1>15. ASSUME NEW d \in Dependents, DepDelete(d) PROVE Basic'
  BY <1>15 DEF DepDelete, Release, Drain, connVars, cacheVars, envVars
<1>16. CASE Sync
  BY <1>16 DEF Sync, cacheVars, depVars, envVars
<1>17. CASE EditSpec
  <2>1. PICK e \in Endpoints : Store([cr EXCEPT !.ep = e, !.gen = @ + 1])
    BY <1>17 DEF EditSpec
  <2>2. cr' = [cr EXCEPT !.ep = e, !.gen = @ + 1] /\ (~lag' => ~lag /\ cr' = cr)
    BY <2>1, Stored
  <2>3. /\ cr'.ep = e /\ cr'.gen = cr.gen + 1 /\ cr'.fin = cr.fin /\ cr'.phase = cr.phase
        /\ cr'.obs = cr.obs
    BY <2>2
  <2> QED
    BY <1>17, <2>2, <2>3 DEF EditSpec, Event, depVars
<1>18. CASE DeleteConnection
  <2>1. cr' = [cr EXCEPT !.phase = IF cr.fin THEN "deleting" ELSE "gone"]
        /\ (~lag' => ~lag /\ cr' = cr)
    BY <1>18, Stored DEF DeleteConnection
  <2>2. /\ cr'.ep = cr.ep /\ cr'.gen = cr.gen /\ cr'.fin = cr.fin /\ cr'.obs = cr.obs
        /\ cr.fin => cr'.phase = "deleting"
    BY <2>1
  <2> QED
    BY <1>18, <2>1, <2>2 DEF DeleteConnection, Event, depVars
<1>19. CASE RecreateConnection
  <2>1. PICK e \in Endpoints : Store(NewCR(e))
    BY <1>19 DEF RecreateConnection
  <2>2. cr' = NewCR(e) /\ (~lag' => ~lag /\ cr' = cr)
    BY <2>1, Stored
  <2> QED
    BY <1>19, <2>2 DEF RecreateConnection, Event, depVars
<1>20. ASSUME NEW d \in Dependents, DeleteDependent(d) PROVE Basic'
  BY <1>20 DEF DeleteDependent, Event, connVars, cacheVars
<1>21. CASE ChangeSecret
  BY <1>21 DEF ChangeSecret, Event, cacheVars, depVars
<1>22. CASE Flap
  BY <1>22 DEF Flap, Event, cacheVars, depVars
<1>23. CASE Crash
  BY <1>23 DEF Crash, GoTo, Return, ZeroSnapshot
<1>24. CASE UNCHANGED vars
  BY <1>24 DEF vars
<1> QED
  BY <1>1, <1>2, <1>3, <1>4, <1>5, <1>6, <1>7, <1>9, <1>10, <1>11,
     <1>12, <1>13, <1>14, <1>15, <1>16, <1>17, <1>18, <1>19, <1>20, <1>21,
     <1>22, <1>23, <1>24
  DEF Next, Reconcile, DepStep, Outside

\* While no API call has failed, every step keeps status, snapshot and spec
\* in step with each other.
LEMMA StepReliable == IInv /\ [Next]_vars => (fails = 0 => Reliable)'
<1> SUFFICES ASSUME IInv, [Next]_vars, fails' = 0 PROVE Reliable'
  OBVIOUS
<1> USE ConnectionAssumption, NewObject
    DEF IInv, TypeOK, CRs, Snapshots, Reasons, Failures, Basic, Bounded, Position, Applying, Current,
        AtWork, Pinned, OneSpec, Reliable, StatusInStep, NoEventNoChange, ConnectingShields,
        ClientDescribed, ShieldHolds, AgreeAtRest, AtRest, Usable
<1>1. CASE Fetch
  BY <1>1 DEF Fetch, GoTo, depVars, cacheVars, envVars
<1>2. CASE Absent
  <2>1. /\ cpc = "fetched" /\ wk.phase = "deleting" /\ fails = 0
        /\ UNCHANGED <<cr, seen, lag, cq, out, fails>>
    BY <1>2 DEF Absent, envVars
  <2>2. CASE wk.fin
    <3>1. /\ cpc' = "drop" /\ ~snapshot'.ready /\ snapshot'.reason = "Absent"
          /\ UNCHANGED <<wk, missed>>
      BY <1>2, <2>2 DEF Absent, Rebuild, ZeroSnapshot, GoTo
    <3> QED
      BY <2>1, <2>2, <3>1
  <2>3. CASE ~wk.fin
    <3>1. /\ cpc' = "idle" /\ missed' = FALSE /\ UNCHANGED <<snapshot, muddled>>
      BY <1>2, <2>3 DEF Absent, GoTo, Return, cacheVars
    <3> QED
      BY <2>1, <2>3, <3>1
  <2> QED
    BY <2>2, <2>3
<1>3. CASE DropFinalizer
  <2>1. /\ fails = 0 /\ cpc' = "idle" /\ cpc = "drop" /\ missed' = FALSE /\ seen' = seen
        /\ UNCHANGED cacheVars
    BY <1>3 DEF DropFinalizer, Fail, NoFail, GoTo, Return
  <2>2. CASE Store([cr EXCEPT !.phase = "gone", !.fin = FALSE])
    <3>1. cr' = [cr EXCEPT !.phase = "gone", !.fin = FALSE]
      BY <2>2, Stored
    <3>2. /\ cr'.gen = cr.gen /\ cr'.obs = cr.obs /\ cr'.ep = cr.ep /\ cr'.reason = cr.reason
          /\ ~cr'.fin /\ cr'.phase = "gone"
      BY <3>1
    <3> QED
      BY <2>1, <3>2 DEF cacheVars
  <2>3. CASE cq' /\ UNCHANGED <<cr, lag>>
    BY <2>1, <2>3 DEF cacheVars
  <2> QED
    BY <1>3, <2>2, <2>3 DEF DropFinalizer
<1>4. CASE AddFinalizer
  <2>1. /\ fails = 0 /\ cpc' = "idle" /\ cpc = "fetched" /\ missed' = FALSE /\ seen' = seen
        /\ UNCHANGED cacheVars
    BY <1>4 DEF AddFinalizer, Fail, NoFail, GoTo, Return
  <2>2. CASE ~lag /\ cr = wk /\ Store([cr EXCEPT !.fin = TRUE])
    <3>1. cr' = [cr EXCEPT !.fin = TRUE] /\ seen = cr /\ ~seen.fin
          /\ (~lag' => ~lag /\ cr' = cr)
      BY <1>4, <2>2, Stored DEF AddFinalizer
    <3>2. /\ cr'.phase = cr.phase /\ cr'.gen = cr.gen /\ cr'.ep = cr.ep /\ cr'.obs = cr.obs
          /\ cr'.reason = cr.reason /\ cr'.fin
      BY <3>1
    <3> QED
      BY <2>1, <3>1, <3>2 DEF cacheVars
  <2>3. CASE cq' /\ UNCHANGED <<cr, lag>>
    BY <2>1, <2>3 DEF cacheVars
  <2> QED
    BY <1>4, <2>2, <2>3 DEF AddFinalizer, Unmoved
<1>5. CASE ConnectingOnEntry
  <2>1. CASE WriteConnecting /\ cpc' = "shield"
    <3>1. /\ WriteStatus(Described("Connecting")) /\ ~Fail
          /\ wk' = cr' /\ cr.phase # "gone" /\ fails = 0
      BY <1>5, <2>1 DEF ConnectingOnEntry, WriteConnecting, WriteStatus, Fail, NoFail
    <3>2. cr'.fin = cr.fin /\ cr'.phase = cr.phase /\ cr'.gen = cr.gen /\ cr'.ep = cr.ep
      BY <3>1, StatusWritten
    <3> QED
      BY <1>5, <2>1, <3>1, <3>2 DEF ConnectingOnEntry, cacheVars
  <2>2. CASE cpc' = "secret" /\ UNCHANGED <<cr, lag, wk, fails>>
    <3>1. /\ cpc = "fetched" /\ wk.phase = "live" /\ wk.fin /\ fails = 0
          /\ UNCHANGED <<seen, missed, cq, snapshot, muddled, out>>
      BY <1>5, <2>2 DEF ConnectingOnEntry, cacheVars
    <3>2. wk.obs = wk.gen \/ wk.reason = "Connecting"
      BY <1>5, <2>2 DEF ConnectingOnEntry, NewGeneration, GoTo
    <3> QED
      BY <2>2, <3>1, <3>2
  <2> QED
    BY <1>5, <2>1, <2>2 DEF ConnectingOnEntry, GoTo
<1>6. CASE Shield
  BY <1>6 DEF Shield, Rebuild, ZeroSnapshot, GoTo, envVars
<1>7. CASE ResolveSecret
  BY <1>7 DEF ResolveSecret, Fail, NoFail, Store, GoTo, Return, cacheVars, depVars
<1>9. CASE Probe
  BY <1>9 DEF Probe, GoTo, cacheVars, depVars, envVars
<1>10. CASE WriteOutcome
  <2>1. /\ WriteStatus(Described(out)) /\ wk' = Described(out)
        /\ cpc = "write" /\ cpc' = "publish" /\ out' = out
        /\ UNCHANGED <<seen, missed, cq, snapshot, muddled>>
    BY <1>10 DEF WriteOutcome, GoTo, cacheVars
  <2>2. cr.phase # "gone" /\ cr.fin /\ wk.fin /\ fails = 0 /\ ~Fail
    BY <1>10 DEF WriteOutcome, WriteStatus, Fail, NoFail
  <2>3. /\ wk'.gen = wk.gen /\ wk'.ep = wk.ep /\ wk'.fin /\ wk'.reason = out /\ wk'.obs = wk.gen
        /\ cr'.phase = cr.phase /\ cr'.fin = cr.fin /\ cr'.gen = cr.gen /\ cr'.ep = cr.ep
        /\ ~lag' => ~lag /\ cr' = cr
    <3>1. /\ wk'.gen = wk.gen /\ wk'.ep = wk.ep /\ wk'.fin = wk.fin /\ wk'.reason = out
          /\ wk'.obs = wk.gen
          /\ cr'.phase = cr.phase /\ cr'.fin = cr.fin /\ cr'.gen = cr.gen /\ cr'.ep = cr.ep
      BY <2>1, StatusWritten
    <3>2. ~lag' => ~lag /\ cr' = cr
      <4>1. Store(Patched(Described(out)))
        BY <2>1, <2>2 DEF WriteStatus
      <4> QED
        BY <4>1, Stored, Zenon
    <3> QED
      BY <2>2, <3>1, <3>2
  <2>4. cr.reason = wk.reason /\ cr.obs = wk.obs
          => /\ cr'.reason = out /\ cr'.obs = wk.gen
             /\ cr = wk => cr' = wk'
    BY <2>1, <2>2, StatusArrives
  <2>5. StatusInStep'
    BY <2>1, <2>2, <2>3, <2>4
  <2>6. NoEventNoChange'
    BY <2>1, <2>2, <2>3, <2>4
  <2>7. ~muddled' /\ ~missed' => ConnectingShields' /\ ClientDescribed' /\ ShieldHolds'
    BY <2>1, <2>2, <2>3, <2>4
  <2> QED
    BY <2>1, <2>5, <2>6, <2>7
<1>11. CASE Publish
  BY <1>11 DEF Publish, Rebuild, GoTo, Return, envVars
<1>12. CASE PeriodicProbe
  BY <1>12 DEF PeriodicProbe, cacheVars, depVars, envVars
<1>13. ASSUME NEW d \in Dependents, DepRead(d) PROVE Reliable'
  BY <1>13 DEF DepRead, Drain, connVars, cacheVars, envVars
<1>14. ASSUME NEW d \in Dependents, DepApply(d) PROVE Reliable'
  BY <1>14 DEF DepApply, Release, InvalidateOn401, cacheVars, envVars
<1>15. ASSUME NEW d \in Dependents, DepDelete(d) PROVE Reliable'
  BY <1>15 DEF DepDelete, Release, Drain, connVars, cacheVars, envVars
<1>16. CASE Sync
  BY <1>16 DEF Sync, cacheVars, depVars, envVars
<1>17. CASE EditSpec
  <2>1. PICK e \in Endpoints : Store([cr EXCEPT !.ep = e, !.gen = @ + 1])
    BY <1>17 DEF EditSpec
  <2>2. cr' = [cr EXCEPT !.ep = e, !.gen = @ + 1] /\ (~lag' => ~lag /\ cr' = cr)
    BY <2>1, Stored
  <2>3. /\ cr'.ep = e /\ cr'.gen = cr.gen + 1 /\ cr'.fin = cr.fin /\ cr'.phase = cr.phase
        /\ cr'.obs = cr.obs /\ cr'.reason = cr.reason
    BY <2>2
  <2> QED
    <3>0. lag'
      <4>1. cr' # cr
        BY <2>3
      <4> QED
        BY <2>2, <4>1
    <3>1. UNCHANGED <<seen, wk, cpc, missed, out, cq, snapshot, muddled, fails>>
      BY <1>17 DEF EditSpec, cacheVars
    <3>2. StatusInStep' /\ NoEventNoChange' /\ AgreeAtRest'
      BY <2>3, <3>0, <3>1
    <3>3. ConnectingShields => ConnectingShields'
      BY <2>3, <3>1
    <3>4. ClientDescribed => ClientDescribed'
      BY <2>3, <3>1
    <3>5. ShieldHolds => ShieldHolds'
      BY <3>1
    <3> QED
      BY <3>1, <3>2, <3>3, <3>4, <3>5
<1>18. CASE DeleteConnection
  <2>1. cr' = [cr EXCEPT !.phase = IF cr.fin THEN "deleting" ELSE "gone"]
        /\ (~lag' => ~lag /\ cr' = cr)
    BY <1>18, Stored DEF DeleteConnection
  <2>2. /\ cr'.ep = cr.ep /\ cr'.gen = cr.gen /\ cr'.fin = cr.fin /\ cr'.obs = cr.obs
        /\ cr'.reason = cr.reason
    BY <2>1
  <2> QED
    BY <1>18, <2>1, <2>2 DEF DeleteConnection, cacheVars
<1>19. CASE RecreateConnection
  <2>1. PICK e \in Endpoints : Store(NewCR(e))
    BY <1>19 DEF RecreateConnection
  <2>2. cr' = NewCR(e) /\ (~lag' => ~lag /\ cr' = cr) /\ cr.phase = "gone"
    BY <1>19, <2>1, Stored DEF RecreateConnection
  <2> QED
    BY <1>19, <2>2 DEF RecreateConnection, cacheVars
<1>20. ASSUME NEW d \in Dependents, DeleteDependent(d) PROVE Reliable'
  BY <1>20 DEF DeleteDependent, Event, connVars, cacheVars
<1>21. CASE ChangeSecret
  BY <1>21 DEF ChangeSecret, Event, cacheVars, depVars
<1>22. CASE Flap
  BY <1>22 DEF Flap, Event, cacheVars, depVars
<1>23. CASE Crash
  BY <1>23 DEF Crash, GoTo, Return, ZeroSnapshot
<1>24. CASE UNCHANGED vars
  BY <1>24 DEF vars
<1> QED
  BY <1>1, <1>2, <1>3, <1>4, <1>5, <1>6, <1>7, <1>9, <1>10, <1>11,
     <1>12, <1>13, <1>14, <1>15, <1>16, <1>17, <1>18, <1>19, <1>20, <1>21,
     <1>22, <1>23, <1>24
  DEF Next, Reconcile, DepStep, Outside

\* IInv holds in every reachable state.
THEOREM Inductive == Spec => []IInv
<1>1. IInv /\ [Next]_vars => IInv'
  BY StepTypeOK, StepPosition, StepReliable DEF IInv
<1> QED
  BY <1>1, InitIInv, PTL DEF Spec

\* The connection, the cache and the dependents keep their types; a generation
\* is never more than the changes made.
THEOREM TypeCorrect == Spec => []TypeOK
<1>1. IInv => TypeOK
  BY DEF IInv
<1> QED
  BY <1>1, Inductive, PTL

\* However edits, Secret changes, 401s, deletions and restarts fall between the
\* steps of a reconcile: with no work left, status, snapshot and spec agree.
THEOREM AgreesAtRest == Spec => []AgreeAtRest
<1>1. IInv => AgreeAtRest
  BY DEF IInv, Reliable, AgreeAtRest
<1> QED
  BY <1>1, Inductive, PTL

\* While a spec is being probed no dependent can pick up a client that was
\* built from another one, unless this pass, or the one the snapshot comes from,
\* began before the informer had delivered the reconciler's last status write.
THEOREM ShieldInForce == Spec => []NoStaleClient
<1>1. IInv => NoStaleClient
  BY DEF IInv, Reliable, NoStaleClient
<1> QED
  BY <1>1, Inductive, PTL
=============================================================================
