-------------------------- MODULE ListCacheProofs --------------------------
(***************************************************************************)
(* Machine-checked proofs about ListCache, for any number of callers,      *)
(* writers, mutations and panics.  IInv is the inductive invariant; the    *)
(* step lemma has one case per action.                                     *)
(***************************************************************************)
EXTENDS ListCache, TLAPS

\* The initial state, an empty cache and nobody calling, satisfies IInv.
LEMMA InitIInv == Init => IInv
<1> SUFFICES ASSUME Init PROVE IInv
  OBVIOUS
<1> USE BoundsAssumption, NilAssumption DEF Init
<1>1. TypeOK
  BY DEF TypeOK, Versions, Results, CallerPCs
<1>2. Bounded
  BY DEF Bounded
<1>3. CacheNotPoisoned /\ LeaderCurrent /\ HeldResultFresh /\ NoStrandedWaiter
  BY DEF CacheNotPoisoned, LeaderCurrent, HeldResultFresh, NoStrandedWaiter
<1>4. SingleFlight
  BY DEF SingleFlight, Leading
<1> QED
  BY <1>1, <1>2, <1>3, <1>4 DEF IInv

\* Every step of every goroutine keeps the types (first part of IInv').
LEMMA StepTypeOK == IInv /\ [Next]_vars => TypeOK'
<1> SUFFICES ASSUME IInv, [Next]_vars PROVE TypeOK'
  OBVIOUS
<1> USE BoundsAssumption, NilAssumption DEF IInv, TypeOK, Versions, CallerPCs, Leading
<1>1. ASSUME NEW c \in Callers, Hit(c) PROVE TypeOK'
  BY <1>1 DEF Hit, Begin, Fresh, FromEntry, Entries, Results, cacheVars, writerVars
<1>2. ASSUME NEW c \in Callers, Wait(c) PROVE TypeOK'
  BY <1>2 DEF Wait, Begin, cacheVars, writerVars
<1>3. ASSUME NEW c \in Callers, Lead(c) PROVE TypeOK'
  BY <1>3 DEF Lead, Begin, writerVars
<1>4. ASSUME NEW c \in Callers, Fetch(c) PROVE TypeOK'
  BY <1>4 DEF Fetch, Answer, Results, cacheVars, writerVars
<1>5. ASSUME NEW c \in Callers, Panic(c) PROVE TypeOK'
  BY <1>5 DEF Panic, Answer, Results, cacheVars, writerVars
<1>6. ASSUME NEW c \in Callers, Store(c) PROVE TypeOK'
  <2>1. entry' \in Entries \cup {NoEntry}
    <3>1. ret[c].ver \in 0 .. MaxVersion /\ ret[c].err \in BOOLEAN
      BY DEF Results
    <3>2. entry' = entry \/ entry' = [ver |-> ret[c].ver, err |-> ret[c].err, fresh |-> TRUE]
      BY <1>6 DEF Store
    <3>3. [ver |-> ret[c].ver, err |-> ret[c].err, fresh |-> TRUE] \in Entries
      BY <3>1, Zenon DEF Entries
    <3> QED
      BY <3>2, <3>3
  <2>2. refused' \subseteq Callers
    BY <1>6 DEF Store
  <2> QED
    BY <1>6, <2>1, <2>2 DEF Store, writerVars
<1>7. ASSUME NEW c \in Callers, Clear(c) PROVE TypeOK'
  BY <1>7 DEF Clear, writerVars
<1>8. ASSUME NEW c \in Callers, Close(c) PROVE TypeOK'
  BY <1>8 DEF Close, cacheVars, writerVars
<1>9. ASSUME NEW c \in Callers, Cancel(c) PROVE TypeOK'
  BY <1>9 DEF Cancel, Answer, Results, cacheVars, writerVars
<1>10. ASSUME NEW c \in Callers, Reread(c) PROVE TypeOK'
  <2>1. CASE entry = NoEntry
    BY <1>10, <2>1 DEF Reread, cacheVars, writerVars
  <2>2. CASE entry # NoEntry
    <3>1. FromEntry(c) \in Results
      BY <2>2 DEF FromEntry, Entries, Results
    <3> QED
      BY <1>10, <2>2, <3>1 DEF Reread, cacheVars, writerVars
  <2> QED
    BY <2>1, <2>2
<1>11. ASSUME NEW c \in Callers, Direct(c) PROVE TypeOK'
  BY <1>11 DEF Direct, Answer, Results, cacheVars, writerVars
<1>12. ASSUME NEW w \in Writers, Apply(w) PROVE TypeOK'
  BY <1>12 DEF Apply, cacheVars, callerVars
<1>13. ASSUME NEW w \in Writers, Invalidate(w) PROVE TypeOK'
  BY <1>13 DEF Invalidate
<1>14. ASSUME NEW w \in Writers, LoseResponse(w) PROVE TypeOK'
  BY <1>14 DEF LoseResponse, cacheVars, callerVars
<1>15. CASE Expire
  BY <1>15 DEF Expire, Fresh, Entries, callerVars, writerVars
<1>16. CASE UNCHANGED vars
  BY <1>16 DEF vars
<1> QED
  BY <1>1, <1>2, <1>3, <1>4, <1>5, <1>6, <1>7, <1>8, <1>9, <1>10, <1>11, <1>12,
     <1>13, <1>14, <1>15, <1>16 DEF Next, CachedList, Proceed

\* Every step keeps the ordering facts of IInv: only Apply moves the server,
\* only Invalidate moves acked and the epoch, and a listing is always taken
\* from the server as it is then.
LEMMA StepOrder ==
  IInv /\ [Next]_vars => Bounded' /\ CacheNotPoisoned' /\ LeaderCurrent' /\ HeldResultFresh'
<1> DEFINE Order == Bounded /\ CacheNotPoisoned /\ LeaderCurrent /\ HeldResultFresh
<1> SUFFICES ASSUME IInv, [Next]_vars PROVE Order'
  OBVIOUS
<1> USE BoundsAssumption, NilAssumption
    DEF IInv, TypeOK, Versions, CallerPCs, Leading, Bounded, CacheNotPoisoned,
        LeaderCurrent, HeldResultFresh
<1>1. ASSUME NEW c \in Callers, Hit(c) PROVE Order'
  BY <1>1 DEF Hit, Begin, Fresh, FromEntry, Entries, Results, cacheVars, writerVars
<1>2. ASSUME NEW c \in Callers, Wait(c) PROVE Order'
  BY <1>2 DEF Wait, Begin, cacheVars, writerVars
<1>3. ASSUME NEW c \in Callers, Lead(c) PROVE Order'
  BY <1>3 DEF Lead, Begin, writerVars
<1>4. ASSUME NEW c \in Callers, Fetch(c) PROVE Order'
  BY <1>4 DEF Fetch, Answer, Results, cacheVars, writerVars
<1>5. ASSUME NEW c \in Callers, Panic(c) PROVE Order'
  BY <1>5 DEF Panic, Answer, Results, cacheVars, writerVars
<1>6. ASSUME NEW c \in Callers, Store(c) PROVE Order'
  BY <1>6 DEF Store, Entries, Results, writerVars
<1>7. ASSUME NEW c \in Callers, Clear(c) PROVE Order'
  BY <1>7 DEF Clear, writerVars
<1>8. ASSUME NEW c \in Callers, Close(c) PROVE Order'
  BY <1>8 DEF Close, cacheVars, writerVars
<1>9. ASSUME NEW c \in Callers, Cancel(c) PROVE Order'
  BY <1>9 DEF Cancel, Answer, Results, cacheVars, writerVars
<1>10. ASSUME NEW c \in Callers, Reread(c) PROVE Order'
  <2>1. CASE entry = NoEntry
    BY <1>10, <2>1 DEF Reread, cacheVars, writerVars
  <2>2. CASE entry # NoEntry
    <3>1. ~FromEntry(c).err => FromEntry(c).ver >= floor[c]
      BY <2>2 DEF FromEntry, Entries
    <3> QED
      BY <1>10, <2>2, <3>1 DEF Reread, cacheVars, writerVars
  <2> QED
    BY <2>1, <2>2
<1>11. ASSUME NEW c \in Callers, Direct(c) PROVE Order'
  BY <1>11 DEF Direct, Answer, Results, cacheVars, writerVars
<1>12. ASSUME NEW w \in Writers, Apply(w) PROVE Order'
  BY <1>12 DEF Apply, cacheVars, callerVars
<1>13. ASSUME NEW w \in Writers, Invalidate(w) PROVE Order'
  BY <1>13 DEF Invalidate
<1>14. ASSUME NEW w \in Writers, LoseResponse(w) PROVE Order'
  BY <1>14 DEF LoseResponse, cacheVars, callerVars
<1>15. CASE Expire
  BY <1>15 DEF Expire, Fresh, Entries, callerVars, writerVars
<1>16. CASE UNCHANGED vars
  BY <1>16 DEF vars
<1> QED
  BY <1>1, <1>2, <1>3, <1>4, <1>5, <1>6, <1>7, <1>8, <1>9, <1>10, <1>11, <1>12,
     <1>13, <1>14, <1>15, <1>16 DEF Next, CachedList, Proceed

\* Every step keeps the single-flight facts of IInv.
LEMMA StepFlight == IInv /\ [Next]_vars => SingleFlight' /\ NoStrandedWaiter'
<1> DEFINE Flight == SingleFlight /\ NoStrandedWaiter
<1> SUFFICES ASSUME IInv, [Next]_vars PROVE Flight'
  OBVIOUS
<1> USE NilAssumption DEF IInv, TypeOK, CallerPCs, Leading, SingleFlight, NoStrandedWaiter
<1>1. ASSUME NEW c \in Callers, Hit(c) PROVE Flight'
  BY <1>1 DEF Hit, Begin, cacheVars
<1>2. ASSUME NEW c \in Callers, Wait(c) PROVE Flight'
  BY <1>2 DEF Wait, Begin, cacheVars
<1>3. ASSUME NEW c \in Callers, Lead(c) PROVE Flight'
  BY <1>3 DEF Lead, Begin
<1>4. ASSUME NEW c \in Callers, Fetch(c) PROVE Flight'
  BY <1>4 DEF Fetch, cacheVars
<1>5. ASSUME NEW c \in Callers, Panic(c) PROVE Flight'
  BY <1>5 DEF Panic, cacheVars
<1>6. ASSUME NEW c \in Callers, Store(c) PROVE Flight'
  BY <1>6 DEF Store
<1>7. ASSUME NEW c \in Callers, Clear(c) PROVE Flight'
  BY <1>7 DEF Clear
<1>8. ASSUME NEW c \in Callers, Close(c) PROVE Flight'
  BY <1>8 DEF Close, cacheVars
<1>9. ASSUME NEW c \in Callers, Cancel(c) PROVE Flight'
  BY <1>9 DEF Cancel, cacheVars
<1>10. ASSUME NEW c \in Callers, Reread(c) PROVE Flight'
  BY <1>10 DEF Reread, cacheVars
<1>11. ASSUME NEW c \in Callers, Direct(c) PROVE Flight'
  BY <1>11 DEF Direct, cacheVars
<1>12. ASSUME NEW w \in Writers, Apply(w) PROVE Flight'
  BY <1>12 DEF Apply, cacheVars, callerVars
<1>13. ASSUME NEW w \in Writers, Invalidate(w) PROVE Flight'
  BY <1>13 DEF Invalidate
<1>14. ASSUME NEW w \in Writers, LoseResponse(w) PROVE Flight'
  BY <1>14 DEF LoseResponse, cacheVars, callerVars
<1>15. CASE Expire
  BY <1>15 DEF Expire, callerVars
<1>16. CASE UNCHANGED vars
  BY <1>16 DEF vars
<1> QED
  BY <1>1, <1>2, <1>3, <1>4, <1>5, <1>6, <1>7, <1>8, <1>9, <1>10, <1>11, <1>12,
     <1>13, <1>14, <1>15, <1>16 DEF Next, CachedList, Proceed

\* IInv holds in every reachable state of the cache.
THEOREM Inductive == Spec => []IInv
<1>1. Init => IInv
  BY InitIInv
<1>2. IInv /\ [Next]_vars => IInv'
  BY StepTypeOK, StepOrder, StepFlight DEF IInv
<1> QED
  BY <1>1, <1>2, PTL DEF Spec

\* The cache's variables keep their types, the mutation and panic bounds
\* included.
THEOREM TypeCorrect == Spec => []TypeOK
<1>1. IInv => TypeOK
  BY DEF IInv
<1> QED
  BY <1>1, Inductive, PTL

\* A probe that begins after the operator's own mutation has invalidated the
\* cache never returns a listing older than that mutation.
THEOREM ReadYourWritesHolds == Spec => []ReadYourWrites
<1>1. IInv => ReadYourWrites
  BY DEF IInv, HeldResultFresh, ReadYourWrites
<1> QED
  BY <1>1, Inductive, PTL

\* No interleaving of a slow leader with an invalidation leaves a listing in
\* the cache that predates an acknowledged mutation.
THEOREM CacheNeverPoisoned == Spec => []CacheNotPoisoned
<1>1. IInv => CacheNotPoisoned
  BY DEF IInv
<1> QED
  BY <1>1, Inductive, PTL

\* At most one goroutine leads a fetch, and whoever blocks on its channel has
\* a live goroutine that will close it.
THEOREM FlightSafe == Spec => [](SingleFlight /\ NoStrandedWaiter)
<1>1. IInv => SingleFlight /\ NoStrandedWaiter
  BY DEF IInv
<1> QED
  BY <1>1, Inductive, PTL
-----------------------------------------------------------------------------
(* A waiter and the expired entry it found.                                *)

\* As long as no LIST has panicked: no result is the refused entry; a waiter
\* that still holds an entry for refused waits on a leader that has not stored
\* yet and will, since its epoch stands; such a leader's epoch stands whenever
\* there is an entry at all; and a woken waiter holds nothing for refused.
RefusedReplaced ==
  panics = 0 =>
    \A c \in Callers :
      /\ ~ret[c].refused
      /\ pc[c] = "waiting" /\ c \in refused =>
           /\ pc[chan[c]] \in {"fetch", "fetched"}
           /\ start[chan[c]] = epoch
      /\ pc[c] \in {"fetch", "fetched"} /\ entry # NoEntry => start[c] = epoch
      /\ pc[c] = "woken" => c \notin refused

\* Every step keeps it: only Store of an overtaken leader or a panic could
\* leave a waiter with the entry it refused.
LEMMA StepRefused == IInv /\ RefusedReplaced /\ [Next]_vars => RefusedReplaced'
<1> SUFFICES ASSUME IInv, RefusedReplaced, [Next]_vars PROVE RefusedReplaced'
  OBVIOUS
<1> USE BoundsAssumption, NilAssumption
    DEF IInv, TypeOK, CallerPCs, Leading, SingleFlight, NoStrandedWaiter, RefusedReplaced
<1>1. ASSUME NEW c \in Callers, Hit(c) PROVE RefusedReplaced'
  BY <1>1 DEF Hit, Begin, FromEntry, Results, cacheVars
<1>2. ASSUME NEW c \in Callers, Wait(c) PROVE RefusedReplaced'
  BY <1>2 DEF Wait, Begin, cacheVars
<1>3. ASSUME NEW c \in Callers, Lead(c) PROVE RefusedReplaced'
  BY <1>3 DEF Lead, Begin
<1>4. ASSUME NEW c \in Callers, Fetch(c) PROVE RefusedReplaced'
  BY <1>4 DEF Fetch, Answer, Results, cacheVars
<1>5. ASSUME NEW c \in Callers, Panic(c) PROVE RefusedReplaced'
  BY <1>5 DEF Panic
<1>6. ASSUME NEW c \in Callers, Store(c) PROVE RefusedReplaced'
  BY <1>6 DEF Store
<1>7. ASSUME NEW c \in Callers, Clear(c) PROVE RefusedReplaced'
  BY <1>7 DEF Clear
<1>8. ASSUME NEW c \in Callers, Close(c) PROVE RefusedReplaced'
  BY <1>8 DEF Close, cacheVars
<1>9. ASSUME NEW c \in Callers, Cancel(c) PROVE RefusedReplaced'
  BY <1>9 DEF Cancel, Answer, Results, cacheVars
<1>10. ASSUME NEW c \in Callers, Reread(c) PROVE RefusedReplaced'
  BY <1>10 DEF Reread, FromEntry, Results, cacheVars
<1>11. ASSUME NEW c \in Callers, Direct(c) PROVE RefusedReplaced'
  BY <1>11 DEF Direct, Answer, Results, cacheVars
<1>12. ASSUME NEW w \in Writers, Apply(w) PROVE RefusedReplaced'
  BY <1>12 DEF Apply, cacheVars, callerVars
<1>13. ASSUME NEW w \in Writers, Invalidate(w) PROVE RefusedReplaced'
  BY <1>13 DEF Invalidate
<1>14. ASSUME NEW w \in Writers, LoseResponse(w) PROVE RefusedReplaced'
  BY <1>14 DEF LoseResponse, cacheVars, callerVars
<1>15. CASE Expire
  BY <1>15 DEF Expire, Fresh, callerVars
<1>16. CASE UNCHANGED vars
  BY <1>16 DEF vars
<1> QED
  BY <1>1, <1>2, <1>3, <1>4, <1>5, <1>6, <1>7, <1>8, <1>9, <1>10, <1>11, <1>12,
     <1>13, <1>14, <1>15, <1>16 DEF Next, CachedList, Proceed

\* A waiter gets back the entry it found expired only after a leader's LIST
\* has panicked: in every other case the leader replaces or drops it before
\* it closes the channel.
THEOREM ExpiredServedOnlyAfterPanic == Spec => []ExpiredOnlyAfterPanic
<1>1. Init => RefusedReplaced
  BY DEF Init, RefusedReplaced
<1>2. IInv /\ RefusedReplaced => ExpiredOnlyAfterPanic
  BY BoundsAssumption DEF IInv, TypeOK, RefusedReplaced, ExpiredOnlyAfterPanic
<1> QED
  BY <1>1, <1>2, StepRefused, Inductive, PTL DEF Spec

=============================================================================
