----------------------- MODULE ConnectionCacheProofs -----------------------
(***************************************************************************)
(* Machine-checked proofs about ConnectionCache, for any number of         *)
(* dependents and of changes of LiteLLM's answers.                         *)
(***************************************************************************)
EXTENDS ConnectionCache, TLAPS

\* The cache of a process that just started satisfies CacheInv.
LEMMA InitCacheInv == Init => CacheInv
<1> SUFFICES ASSUME Init PROVE CacheInv
  OBVIOUS
<1>1. TypeOK
  <2>1. flaps \in 0 .. MaxFlaps
    BY FlapsAssumption DEF Init
  <2>2. snapshot \in Snapshots
    BY DEF Init, Snapshots
  <2> QED
    BY <2>1, <2>2, Zenon DEF Init, TypeOK, Outcomes, ConnPCs, DepPCs
<1>2. (chClosed => closed) /\ NoLostReprobe /\ NoStuckGate
  BY DEF Init, NoLostReprobe, NoStuckGate
<1> QED
  BY <1>1, <1>2 DEF CacheInv

\* Every step keeps the types.
LEMMA StepTypeOK == CacheInv /\ [Next]_vars => TypeOK'
<1> SUFFICES ASSUME TypeOK, [Next]_vars PROVE TypeOK'
  BY DEF CacheInv
<1> USE FlapsAssumption
    DEF TypeOK, Snapshots, Outcomes, ConnPCs, DepPCs, Invalidating,
        cacheVars, connVars, depVars, envVars
<1>1. ASSUME NEW d \in Dependents, CheckClosed(d) PROVE TypeOK'
  BY <1>1 DEF CheckClosed, Park
<1>2. ASSUME NEW d \in Dependents, RaiseGate(d) PROVE TypeOK'
  <2>1. invalidated' \in BOOLEAN
    BY <1>2 DEF RaiseGate, Park
  <2>2. dpc' \in [Dependents -> DepPCs] /\ status' \in [Dependents -> {"Unknown", "Synced", "LiteLLMUnavailable"}]
    BY <1>2 DEF RaiseGate, Park
  <2> QED
    BY <1>2, <2>1, <2>2 DEF RaiseGate, Park
<1>3. ASSUME NEW d \in Dependents, LoadCur(d) PROVE TypeOK'
  BY <1>3 DEF LoadCur
<1>4. ASSUME NEW d \in Dependents, Unready(d) PROVE TypeOK'
  <2>1. lastReady' \in BOOLEAN
    BY <1>4 DEF Unready
  <2>2. dpc' \in [Dependents -> DepPCs]
    BY <1>4 DEF Unready
  <2> QED
    BY <1>4, <2>1, <2>2 DEF Unready
<1>5. ASSUME NEW d \in Dependents, Place(d) PROVE TypeOK'
  BY <1>5 DEF Place
<1>6. ASSUME NEW d \in Dependents, Send(d) PROVE TypeOK'
  BY <1>6 DEF Send, Park
<1>7. ASSUME NEW d \in Dependents, Emit(d) PROVE TypeOK'
  BY <1>7 DEF Emit
<1>8. ASSUME NEW d \in Dependents, ReadSnapshot(d) PROVE TypeOK'
  BY <1>8 DEF ReadSnapshot, Park
<1>9. ASSUME NEW d \in Dependents, Call(d) PROVE TypeOK'
  <2>1. dq' \in [Dependents -> BOOLEAN]
    BY <1>9 DEF Call
  <2>2. dpc' \in [Dependents -> DepPCs]
    BY <1>9 DEF Call
  <2>3. status' \in [Dependents -> {"Unknown", "Synced", "LiteLLMUnavailable"}]
    BY <1>9 DEF Call
  <2> QED
    BY <1>9, <2>1, <2>2, <2>3 DEF Call
<1>10. ASSUME NEW d \in Dependents, Rebuilt(d) PROVE TypeOK'
  BY <1>10 DEF Rebuilt
<1>11. ASSUME NEW d \in Dependents, Relist(d) PROVE TypeOK'
  BY <1>11 DEF Relist
<1>12. CASE StartProbe
  <2>1. cq' \in BOOLEAN
    BY <1>12 DEF StartProbe
  <2> QED
    BY <1>12, <2>1 DEF StartProbe
<1>13. CASE Probe
  BY <1>13 DEF Probe
<1>14. CASE RebuildStore
  BY <1>14 DEF RebuildStore
<1>15. CASE RebuildGate
  <2>1. invalidated' \in BOOLEAN
    BY <1>15 DEF RebuildGate
  <2> QED
    BY <1>15, <2>1 DEF RebuildGate
<1>16. CASE RebuildEdge
  BY <1>16 DEF RebuildEdge
<1>17. CASE EndProbe
  BY <1>17 DEF EndProbe
<1>18. CASE Deliver
  <2>1. ch' \in BOOLEAN /\ cq' \in BOOLEAN
    BY <1>18 DEF Deliver
  <2> QED
    BY <1>18, <2>1 DEF Deliver
<1>19. CASE PeriodicProbe
  <2>1. timer' \in BOOLEAN /\ cq' \in BOOLEAN
    BY <1>19 DEF PeriodicProbe
  <2> QED
    BY <1>19, <2>1 DEF PeriodicProbe
<1>20. CASE StopFlag
  BY <1>20 DEF StopFlag
<1>21. CASE StopCh
  BY <1>21 DEF StopCh
<1>22. CASE StopSubs
  BY <1>22 DEF StopSubs
<1>23. CASE Flap
  <2>1. cq' \in BOOLEAN
    BY <1>23 DEF Flap
  <2>2. upstream' \in Outcomes
    BY <1>23 DEF Flap
  <2>3. flaps' \in 0 .. MaxFlaps
    BY <1>23 DEF Flap
  <2> QED
    BY <1>23, <2>1, <2>2, <2>3 DEF Flap
<1>24. CASE UNCHANGED vars
  BY <1>24 DEF vars
<1> QED
  BY <1>1, <1>2, <1>3, <1>4, <1>5, <1>6, <1>7, <1>8, <1>9, <1>10, <1>11,
     <1>12, <1>13, <1>14, <1>15, <1>16, <1>17, <1>18, <1>19, <1>20, <1>21,
     <1>22, <1>23, <1>24
     DEF Next, ConnectionStep, Rebuild, DependentStep, InvalidateOn401

\* Every step keeps a re-probe coming for a placeholder and for a raised gate.
LEMMA StepReprobe ==
  CacheInv /\ [Next]_vars => (chClosed => closed)' /\ NoLostReprobe' /\ NoStuckGate'
<1> DEFINE Goal == (chClosed => closed) /\ NoLostReprobe /\ NoStuckGate
<1> SUFFICES ASSUME CacheInv, [Next]_vars PROVE Goal'
  OBVIOUS
<1> USE DEF CacheInv, TypeOK, NoLostReprobe, NoStuckGate, ReprobeComing, Invalidating,
            ConnPCs, DepPCs, cacheVars, connVars, depVars, envVars
<1>1. ASSUME NEW d \in Dependents, CheckClosed(d) PROVE Goal'
  BY <1>1 DEF CheckClosed, Park
<1>2. ASSUME NEW d \in Dependents, RaiseGate(d) PROVE Goal'
  BY <1>2 DEF RaiseGate, Park
<1>3. ASSUME NEW d \in Dependents, LoadCur(d) PROVE Goal'
  BY <1>3 DEF LoadCur
<1>4. ASSUME NEW d \in Dependents, Unready(d) PROVE Goal'
  BY <1>4 DEF Unready
<1>5. ASSUME NEW d \in Dependents, Place(d) PROVE Goal'
  BY <1>5 DEF Place
<1>6. ASSUME NEW d \in Dependents, Send(d) PROVE Goal'
  BY <1>6 DEF Send, Park
<1>7. ASSUME NEW d \in Dependents, Emit(d) PROVE Goal'
  BY <1>7 DEF Emit
<1>8. ASSUME NEW d \in Dependents, ReadSnapshot(d) PROVE Goal'
  BY <1>8 DEF ReadSnapshot, Park
<1>9. ASSUME NEW d \in Dependents, Call(d) PROVE Goal'
  BY <1>9 DEF Call
<1>10. ASSUME NEW d \in Dependents, Rebuilt(d) PROVE Goal'
  BY <1>10 DEF Rebuilt
<1>11. ASSUME NEW d \in Dependents, Relist(d) PROVE Goal'
  BY <1>11 DEF Relist
<1>12. CASE StartProbe
  BY <1>12 DEF StartProbe
<1>13. CASE Probe
  BY <1>13 DEF Probe
<1>14. CASE RebuildStore
  BY <1>14 DEF RebuildStore
<1>15. CASE RebuildGate
  BY <1>15 DEF RebuildGate
<1>16. CASE RebuildEdge
  BY <1>16 DEF RebuildEdge
<1>17. CASE EndProbe
  BY <1>17 DEF EndProbe
<1>18. CASE Deliver
  BY <1>18 DEF Deliver
<1>19. CASE PeriodicProbe
  BY <1>19 DEF PeriodicProbe
<1>20. CASE StopFlag
  BY <1>20 DEF StopFlag
<1>21. CASE StopCh
  BY <1>21 DEF StopCh
<1>22. CASE StopSubs
  BY <1>22 DEF StopSubs
<1>23. CASE Flap
  BY <1>23 DEF Flap
<1>24. CASE UNCHANGED vars
  BY <1>24 DEF vars
<1> QED
  BY <1>1, <1>2, <1>3, <1>4, <1>5, <1>6, <1>7, <1>8, <1>9, <1>10, <1>11,
     <1>12, <1>13, <1>14, <1>15, <1>16, <1>17, <1>18, <1>19, <1>20, <1>21,
     <1>22, <1>23, <1>24
     DEF Next, ConnectionStep, Rebuild, DependentStep, InvalidateOn401

\* CacheInv holds in every reachable state.
THEOREM CacheInductive == Spec => []CacheInv
<1>1. Init => CacheInv
  BY InitCacheInv
<1>2. CacheInv /\ [Next]_vars => CacheInv'
  BY StepTypeOK, StepReprobe DEF CacheInv
<1> QED
  BY <1>1, <1>2, PTL DEF Spec

\* The cache's variables keep their types.
THEOREM CacheTypeCorrect == Spec => []TypeOK
<1>1. CacheInv => TypeOK
  BY DEF CacheInv
<1> QED
  BY <1>1, CacheInductive, PTL

\* However InvalidateOn401, Rebuild and shutdown interleave, a snapshot that a
\* 401 knocked down has a re-probe on its way.
THEOREM ReprobeNeverLost == Spec => []NoLostReprobe
<1>1. CacheInv => NoLostReprobe
  BY DEF CacheInv
<1> QED
  BY <1>1, CacheInductive, PTL

\* The storm gate never stays raised with nothing left to reset it, so a later
\* 401 is never ignored for good.
THEOREM GateNeverStuck == Spec => []NoStuckGate
<1>1. CacheInv => NoStuckGate
  BY DEF CacheInv
<1> QED
  BY <1>1, CacheInductive, PTL
=============================================================================
