----------------------------- MODULE ListCache -----------------------------
(***************************************************************************)
(* The per-client LIST cache of internal/litellm/list_cache.go: a          *)
(* single-flight memo of one LiteLLM LIST endpoint (/v1/mcp/server or      *)
(* /v1/agents; the two halves of the store are the same code), filled by   *)
(* the reconciler goroutines' vanish probes and emptied by the client's    *)
(* own mutations.                                                          *)
(*                                                                         *)
(* Data abstraction: the answer of a LIST is the number of mutations that  *)
(* LiteLLM had applied when it answered.  Every step below is one          *)
(* mutex-protected section, one channel operation or one HTTP exchange; a  *)
(* local variable that the code no longer reads is reset.                  *)
(***************************************************************************)
EXTENDS Integers, FiniteSets

CONSTANTS Callers,      \* goroutines that call CachedList...
          Writers,      \* goroutines that call Create.../Update.../Delete...
          NoEntry,      \* the nil *listCacheEntry
          Nobody,       \* the nil in-flight channel
          MaxVersion,   \* bound: mutations LiteLLM applies
          MaxPanics     \* bound: LIST calls that panic

ASSUME BoundsAssumption == MaxVersion \in Nat /\ MaxPanics \in Nat
ASSUME NilAssumption == Nobody \notin Callers

VARIABLES
  entry,      \* the cached *listCacheEntry: [ver, err, fresh] or NoEntry
  inflight,   \* the goroutine whose channel is the in-flight one, or Nobody
  epoch,      \* mcpEpoch / agentsEpoch
  pc,         \* where each caller is in CachedList...
  chan,       \* the leader whose channel a waiter blocks on
  start,      \* startEpoch captured by a leader
  ret,        \* what the call holds or returned: [ver, err, refused]
  wpc,        \* where each writer is in its mutation
  wver,       \* the server version that a writer's mutation produced
  server,     \* mutations LiteLLM has applied (external)
  acked,      \* newest mutation whose client call invalidated the cache
  floor,      \* acked when the caller's present call began
  refused,    \* waiters that found the present entry expired, with the fetch
              \* they wait on yet to replace it
  panics      \* LIST calls that have panicked

cacheVars  == <<entry, inflight, epoch>>
callerVars == <<pc, chan, start, ret, floor, refused>>
writerVars == <<wpc, wver, acked>>
vars == <<entry, inflight, epoch, pc, chan, start, ret, wpc, wver,
          server, acked, floor, refused, panics>>

Versions == 0 .. MaxVersion
Entries  == [ver : Versions, err : BOOLEAN, fresh : BOOLEAN]
Results  == [ver : Versions, err : BOOLEAN, refused : BOOLEAN]

\* The positions of a goroutine that leads a fetch: its channel is the
\* in-flight one until the deferred function resets it.
Leading == {"fetch", "fetched", "stored"}
CallerPCs == {"idle", "waiting", "woken", "direct", "cleared", "returned"} \cup Leading

TypeOK ==
  /\ entry \in Entries \cup {NoEntry}
  /\ inflight \in Callers \cup {Nobody}
  /\ epoch \in Nat
  /\ pc \in [Callers -> CallerPCs]
  /\ chan \in [Callers -> Callers \cup {Nobody}]
  /\ start \in [Callers -> Nat]
  /\ ret \in [Callers -> Results]
  /\ wpc \in [Writers -> {"idle", "applied"}]
  /\ wver \in [Writers -> Versions]
  /\ server \in Versions
  /\ acked \in Versions
  /\ floor \in [Callers -> Versions]
  /\ refused \subseteq Callers
  /\ panics \in 0 .. MaxPanics

Init ==
  /\ entry = NoEntry
  /\ inflight = Nobody
  /\ epoch = 0
  /\ pc = [c \in Callers |-> "idle"]
  /\ chan = [c \in Callers |-> Nobody]
  /\ start = [c \in Callers |-> 0]
  /\ ret = [c \in Callers |-> [ver |-> 0, err |-> TRUE, refused |-> FALSE]]
  /\ wpc = [w \in Writers |-> "idle"]
  /\ wver = [w \in Writers |-> 0]
  /\ server = 0
  /\ acked = 0
  /\ floor = [c \in Callers |-> 0]
  /\ refused = {}
  /\ panics = 0

-----------------------------------------------------------------------------
(* The caller's side: CachedListMCPServers / CachedListAgents.             *)

Fresh == entry # NoEntry /\ entry.fresh

\* The result made of the cached entry.
FromEntry(c) == [ver |-> entry.ver, err |-> entry.err, refused |-> c \in refused]

\* A call begins; the ghost floor remembers what had been acknowledged by then.
Begin(c) ==
  /\ pc[c] \in {"idle", "returned"}
  /\ floor' = [floor EXCEPT ![c] = acked]

\* A fresh entry is returned under the lock.
Hit(c) ==
  /\ Begin(c)
  /\ Fresh
  /\ ret' = [ret EXCEPT ![c] = [FromEntry(c) EXCEPT !.refused = FALSE]]
  /\ pc' = [pc EXCEPT ![c] = "returned"]
  /\ refused' = refused \ {c}
  /\ UNCHANGED <<cacheVars, chan, start, writerVars, server, panics>>

\* No fresh entry and a fetch in flight: block on the leader's channel.
Wait(c) ==
  /\ Begin(c)
  /\ ~Fresh
  /\ inflight # Nobody
  /\ chan' = [chan EXCEPT ![c] = inflight]
  /\ pc' = [pc EXCEPT ![c] = "waiting"]
  /\ refused' = IF entry # NoEntry /\ pc[inflight] \in {"fetch", "fetched"}
                  THEN refused \cup {c} ELSE refused \ {c}
  /\ UNCHANGED <<cacheVars, start, ret, writerVars, server, panics>>

\* Wrong variant of Lead: the in-flight marker is not looked at.
LeadRegardless(c) ==
  /\ Begin(c)
  /\ ~Fresh
  /\ inflight' = c
  /\ start' = [start EXCEPT ![c] = epoch]
  /\ pc' = [pc EXCEPT ![c] = "fetch"]
  /\ refused' = refused \ {c}
  /\ UNCHANGED <<entry, epoch, chan, ret, writerVars, server, panics>>

\* No fresh entry and nothing in flight: become the leader.
Lead(c) ==
  /\ Begin(c)
  /\ ~Fresh
  /\ inflight = Nobody
  /\ inflight' = c
  /\ start' = [start EXCEPT ![c] = epoch]
  /\ pc' = [pc EXCEPT ![c] = "fetch"]
  /\ refused' = refused \ {c}
  /\ UNCHANGED <<entry, epoch, chan, ret, writerVars, server, panics>>

\* The upstream LIST, answered from LiteLLM's present state, or failing (a
\* transport error, a non-2xx answer, the leader's context canceled).
Answer(err) == [ver |-> IF err THEN 0 ELSE server, err |-> err, refused |-> FALSE]

Fetch(c) ==
  /\ pc[c] = "fetch"
  /\ \E err \in BOOLEAN : ret' = [ret EXCEPT ![c] = Answer(err)]
  /\ pc' = [pc EXCEPT ![c] = "fetched"]
  /\ UNCHANGED <<cacheVars, chan, start, floor, refused, writerVars, server, panics>>

\* Wrong variant of Panic: no deferred function, as before issue #51.
PanicNoDefer(c) ==
  /\ pc[c] = "fetch"
  /\ panics < MaxPanics
  /\ panics' = panics + 1
  /\ pc' = [pc EXCEPT ![c] = "returned"]
  /\ UNCHANGED <<cacheVars, chan, start, ret, floor, refused, writerVars, server>>

\* The LIST panics: the store is skipped, the deferred function still runs.
Panic(c) ==
  /\ pc[c] = "fetch"
  /\ panics < MaxPanics
  /\ panics' = panics + 1
  /\ ret' = [ret EXCEPT ![c] = Answer(TRUE)]
  /\ pc' = [pc EXCEPT ![c] = "stored"]
  /\ UNCHANGED <<cacheVars, chan, start, floor, refused, writerVars, server>>

\* Wrong variant of Store: the epoch is not compared, as before issue #60.
StoreAlways(c) ==
  /\ pc[c] = "fetched"
  /\ entry' = [ver |-> ret[c].ver, err |-> ret[c].err, fresh |-> TRUE]
  /\ refused' = {}
  /\ pc' = [pc EXCEPT ![c] = "stored"]
  /\ UNCHANGED <<inflight, epoch, chan, start, ret, floor, writerVars, server, panics>>

\* The leader stores its answer unless an invalidation moved the epoch.
Store(c) ==
  /\ pc[c] = "fetched"
  /\ IF epoch = start[c]
       THEN /\ entry' = [ver |-> ret[c].ver, err |-> ret[c].err, fresh |-> TRUE]
            /\ refused' = {}
       ELSE UNCHANGED <<entry, refused>>
  /\ pc' = [pc EXCEPT ![c] = "stored"]
  /\ UNCHANGED <<inflight, epoch, chan, start, ret, floor, writerVars, server, panics>>

\* The deferred function, first half: reset the in-flight marker.
Clear(c) ==
  /\ pc[c] = "stored"
  /\ inflight' = Nobody
  /\ start' = [start EXCEPT ![c] = 0]
  /\ pc' = [pc EXCEPT ![c] = "cleared"]
  /\ UNCHANGED <<entry, epoch, chan, ret, floor, refused, writerVars, server, panics>>

\* The deferred function, second half: close(ch) wakes every waiter on it.
Close(c) ==
  /\ pc[c] = "cleared"
  /\ pc' = [d \in Callers |->
              IF d = c THEN "returned"
              ELSE IF pc[d] = "waiting" /\ chan[d] = c THEN "woken"
              ELSE pc[d]]
  /\ UNCHANGED <<cacheVars, chan, start, ret, floor, refused, writerVars, server, panics>>

\* A waiter's context ends before the channel is closed.
Cancel(c) ==
  /\ pc[c] = "waiting"
  /\ chan' = [chan EXCEPT ![c] = Nobody]
  /\ ret' = [ret EXCEPT ![c] = Answer(TRUE)]
  /\ pc' = [pc EXCEPT ![c] = "returned"]
  /\ UNCHANGED <<cacheVars, start, floor, refused, writerVars, server, panics>>

\* A woken waiter reads the entry without looking at its age; an empty cache
\* sends it upstream by itself.
Reread(c) ==
  /\ pc[c] = "woken"
  /\ chan' = [chan EXCEPT ![c] = Nobody]
  /\ IF entry = NoEntry
       THEN /\ pc' = [pc EXCEPT ![c] = "direct"]
            /\ UNCHANGED ret
       ELSE /\ pc' = [pc EXCEPT ![c] = "returned"]
            /\ ret' = [ret EXCEPT ![c] = FromEntry(c)]
  /\ UNCHANGED <<cacheVars, start, floor, refused, writerVars, server, panics>>

Direct(c) ==
  /\ pc[c] = "direct"
  /\ \E err \in BOOLEAN : ret' = [ret EXCEPT ![c] = Answer(err)]
  /\ pc' = [pc EXCEPT ![c] = "returned"]
  /\ UNCHANGED <<cacheVars, chan, start, floor, refused, writerVars, server, panics>>

\* Everything a caller's goroutine does once its call has begun.
Proceed(c) == \/ Fetch(c) \/ Store(c) \/ Clear(c) \/ Close(c)
              \/ Reread(c) \/ Direct(c)

\* The whole of the function, entry included.
CachedList(c) == Hit(c) \/ Wait(c) \/ Lead(c) \/ Proceed(c) \/ Panic(c) \/ Cancel(c)

-----------------------------------------------------------------------------
(* The writer's side: the mutations of mcp.go and agents.go.               *)

\* LiteLLM applies the mutation; the response is on its way.
Apply(w) ==
  /\ wpc[w] = "idle"
  /\ server < MaxVersion
  /\ server' = server + 1
  /\ wver' = [wver EXCEPT ![w] = server + 1]
  /\ wpc' = [wpc EXCEPT ![w] = "applied"]
  /\ UNCHANGED <<cacheVars, callerVars, acked, panics>>

\* Wrong variant of Invalidate: the entry is not dropped.
InvalidateKeepEntry(w) ==
  /\ wpc[w] = "applied"
  /\ epoch' = epoch + 1
  /\ acked' = IF wver[w] > acked THEN wver[w] ELSE acked
  /\ wpc' = [wpc EXCEPT ![w] = "idle"]
  /\ wver' = [wver EXCEPT ![w] = 0]
  /\ UNCHANGED <<entry, inflight, pc, chan, start, ret, floor, refused, server, panics>>

\* The response arrives: invalidateMCPCache / invalidateAgentsCache.
Invalidate(w) ==
  /\ wpc[w] = "applied"
  /\ entry' = NoEntry
  /\ epoch' = epoch + 1
  /\ refused' = {}
  /\ acked' = IF wver[w] > acked THEN wver[w] ELSE acked
  /\ wpc' = [wpc EXCEPT ![w] = "idle"]
  /\ wver' = [wver EXCEPT ![w] = 0]
  /\ UNCHANGED <<inflight, pc, chan, start, ret, floor, server, panics>>

\* The response is lost or is an error: no invalidation, the caller is told.
LoseResponse(w) ==
  /\ wpc[w] = "applied"
  /\ wpc' = [wpc EXCEPT ![w] = "idle"]
  /\ wver' = [wver EXCEPT ![w] = 0]
  /\ UNCHANGED <<cacheVars, callerVars, acked, server, panics>>

\* The freshness window of the entry runs out.
Expire ==
  /\ Fresh
  /\ entry' = [entry EXCEPT !.fresh = FALSE]
  /\ UNCHANGED <<inflight, epoch, callerVars, writerVars, server, panics>>

Next == \/ \E c \in Callers : CachedList(c)
        \/ \E w \in Writers : Apply(w) \/ Invalidate(w) \/ LoseResponse(w)
        \/ Expire

\* A goroutine that is not blocked keeps running, and an HTTP exchange ends
\* (the transport has a timeout): fairness of Proceed alone.  Nothing is
\* assumed of Cancel (a context need not end), of new calls or of writers.
Fairness == \A c \in Callers : WF_vars(Proceed(c))

Spec == Init /\ [][Next]_vars
FairSpec == Spec /\ Fairness

-----------------------------------------------------------------------------
(* Properties.                                                             *)

\* Own writes are visible to the very next vanish probe: a call that begins
\* after a mutation invalidated the cache never returns a listing that
\* LiteLLM made before that mutation, whichever of the three ways
\* (hit, leader, waiter) it takes and however the fetches interleave.
ReadYourWrites ==
  \A c \in Callers : pc[c] = "returned" /\ ~ret[c].err => ret[c].ver >= floor[c]

\* The cache is never poisoned: the listing it holds is at least as new as
\* every mutation whose invalidation has run.
CacheNotPoisoned == entry # NoEntry /\ ~entry.err => entry.ver >= acked

\* Single flight: one goroutine at most is between the in-flight marker's
\* installation and its reset, and the marker is its channel.
SingleFlight == \A c \in Callers : pc[c] \in Leading <=> inflight = c

\* No waiter is stranded: the channel it blocks on still has a goroutine that
\* is going to close it, through a panic of the LIST as well.
NoStrandedWaiter ==
  \A c \in Callers : pc[c] = "waiting" =>
     /\ chan[c] \in Callers
     /\ pc[chan[c]] \in Leading \cup {"cleared"}

\* Only a leader's panic can make a waiter return the very entry that it found
\* expired when its call began and that its leader was to replace.
ExpiredOnlyAfterPanic ==
  \A c \in Callers : pc[c] = "returned" /\ ret[c].refused => panics > 0

\* What the function's comment says: the cached result is returned if it is
\* within the TTL, otherwise the result of a new LIST is; after a panic the
\* waiter fetches directly.
ExpiredNeverServed == \A c \in Callers : pc[c] = "returned" => ~ret[c].refused

\* What makes ReadYourWrites inductive: nothing is acknowledged that LiteLLM
\* has not applied; a leader whose epoch still stands holds a listing at least
\* as new as every acknowledged mutation; every held listing is as new as its
\* call's floor.
LeaderCurrent ==
  \A c \in Callers :
    pc[c] = "fetched" /\ ~ret[c].err /\ start[c] = epoch => ret[c].ver >= acked
HeldResultFresh ==
  \A c \in Callers :
    pc[c] \in {"fetched", "stored", "cleared", "returned"} /\ ~ret[c].err
      => ret[c].ver >= floor[c]
Bounded ==
  /\ acked <= server
  /\ \A w \in Writers : wver[w] <= server
  /\ \A c \in Callers : start[c] <= epoch /\ floor[c] <= acked

IInv == /\ TypeOK
        /\ Bounded
        /\ CacheNotPoisoned
        /\ LeaderCurrent
        /\ HeldResultFresh
        /\ SingleFlight
        /\ NoStrandedWaiter

\* Every call returns.
CallsReturn == \A c \in Callers : pc[c] # "idle" ~> pc[c] \in {"idle", "returned"}
=============================================================================
