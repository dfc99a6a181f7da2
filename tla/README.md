# alitellm-operator: TLA+ models, checks and proofs

The operator keeps a LiteLLM proxy in step with Kubernetes resources: one
`LiteLLMConnection` names the proxy and its master key, and a dozen other kinds
(models, MCP servers, agents, teams, guard rails, ...) are applied to it over
HTTP. LiteLLM's API is neither transactional nor idempotent, the connection can
vanish or change under the reconcilers, and all that survives a restart is what
was written to the resources' status. This project models that core, checks it
with TLC on small instances, and proves its most important invariants with TLAPS
for every instance.

## 1. Inventory

| Component | State it keeps | Operations | Hard part |
| --- | --- | --- | --- |
| List cache (`internal/litellm/list_cache.go`) | entry, in-flight channel, epoch | `CachedList*`, `invalidate*Cache` | a mutation during a LIST; a panicking leader |
| Connection cache (`internal/connection/cache.go`) | snapshot, storm gate, `lastReady`, 401 channel, subscriber channels | `Snapshot`, `Rebuild`, `InvalidateOn401`, `Subscribe`, `Start` | lock-free; several writers; bounded channels; shutdown |
| `LiteLLMConnection` reconciler | status (reason, observedGeneration), finalizer | `Reconcile`, Secret watch, 401 fast path | edits and 401s during a probe; failed status writes; teardown |
| Deletion policy (`controller/deletionpolicy`, `shared_helpers.go`) | none | `Resolve`, `newAckMissingFn`, `ackUnavailable` | precedence; permanent against transient causes |
| Fan-in and safety relist | per-kind tickers | `ConnectionRebuiltSource`, `SafetyRelistRunnable` | they alone wake a parked resource |
| `LiteLLMModel` reconciler | `status.lastRendered`, churn guard | `Reconcile` (11 steps) | non-idempotent create; delete-and-recreate; stale reads; lost answers |
| `LiteLLMMCPServer` reconciler, conflict resolver | `status.lastRendered`, churn guard | `Reconcile`, sibling watch | several resources may sanitize to one LiteLLM entry; the list cache as vanish probe; adoption by name |
| `LiteLLMA2AAgent` reconciler | `status.lastRendered` | `Reconcile` | as for MCP servers, over `/v1/agents` |
| `LiteLLMModelDiscovery` reconciler (`modeldiscovery_*.go`, `filters`, `predicates.go`) | status, finalizer; generated `LiteLLMModel`s and one alias object | `Reconcile`, drain on deletion, Secret and agent watches | users adopt, edit and delete children between check and write; children deleted from stale listings; refresh that must never end |
| `LiteLLMMCPServerDiscovery` reconciler, ToolHive informer | the same for `LiteLLMMCPServer`s; registered kinds | `Reconcile`, `Start`, `retryLoop` | CRDs that come late; objects of two namespaces that want one child |
| `LiteLLMTeam` reconciler (`team_*.go`) | `status.lastRendered`, churn guard, the implicit default's hash and id in memory | `Reconcile`, `reconcileImplicitDefault`, `reconcileDeletion`, `narrowAndPark`, the default tick | access groups come and go; a default team with and without a resource; aliases are not unique in LiteLLM |
| `LiteLLMAccessGroup`, `LiteLLMMCPToolset` | ids resolved from names | `Reconcile` | referenced objects come and go |
| `LiteLLMGuardRail` | id, conflict winner | `Reconcile` | two resources of one name |
| `LiteLLMModelAlias` reconciler (`modelalias_*.go`, `router_settings.go`) | one map in LiteLLM's router settings, status and finalizer of every resource | one `Reconcile` for all resources | the map is read, merged and written whole; a finalizer may go only after a map without its entries is in place |
| `LiteLLMModelGroupBudget` | a budget per model group | `Reconcile` | - |
| Boot sweep | none | one pass after leader election | what counts as stuck |
| Client, providers, metrics, types, wiring | - | - | I/O and data, not modelled |

How they interact: the connection reconciler probes LiteLLM and publishes a
snapshot; every other reconciler reads it before it calls LiteLLM, and knocks it
down when LiteLLM answers 401; a Ready snapshot after one that was not wakes all
of them through their `Subscribe` channels; a per-kind ticker relists them all
every 10 minutes by default. A resource that finds no usable snapshot writes
`LiteLLMUnavailable` and returns nil, so only those two events bring it back.
MCP server and agent reconcilers probe LiteLLM through the client's list cache,
which their own mutations invalidate.

`PROJECT.json` lists the hazards of this code, each at its line, with the
properties that watch it.

## 2. Modules

| Module | Models | Used by |
| --- | --- | --- |
| `ListCache` | the list cache, its callers and the client's mutations | `MCListCache`, `ListCacheProofs` |
| `ConnectionCache` | the cache at the grain of single atomic and channel operations, with the workers around it | `MCConnectionCache`, `ConnectionCacheProofs` |
| `DeletionPolicy` | the policy resolver and the acknowledgement rule, as operators | `Connection`, `Model`, `MCPServer`, `Team` |
| `Connection` | the connection's Reconcile, the cache with atomic operations, and dependents that apply or drain | `MCConnection`, `ConnectionProofs` |
| `Model` | the model's Reconcile, one resource, LiteLLM's rows | `MCModel`, `ModelProofs` |
| `MCPServer` | the MCP server's Reconcile for resources that share a `server_name`, the conflict resolver, LiteLLM's rows | `MCMCPServer`, `MCPServerProofs` |
| `Discovery` | what the two discovery reconcilers share: the Discovery's life, children, informer, drain, ownership check, apply, vanish-delete | `ModelDiscovery`, `MCPServerDiscovery` |
| `ChildOwnership` | abstract: who holds a child name and the only ways it changes hands | implemented by `Discovery` |
| `ModelDiscovery` | the provider's listing, filters, credentials, the alias object | `MCModelDiscovery`, `ModelDiscoveryProofs` |
| `MCPServerDiscovery` | the ToolHive informer and objects, collisions, transports | `MCMCPServerDiscovery` |
| `Team` | the team's Reconcile for a named team or the default, LiteLLM's rows and group rows | `MCTeam`, `TeamProofs` |
| `ModelAlias` | the reconcile of all alias resources into one map | `MCModelAlias`, `ModelAliasProofs` |

### ListCache

`entry`, `inflight` and `epoch` are the fields of `listCacheStore` (for one
endpoint: the MCP and the agents halves are the same code). A goroutine's local
variables are `pc`, `chan`, `start` and `ret`. One step is one section under the
mutex, one channel operation or one HTTP exchange. A listing is abstracted to the
number of mutations LiteLLM had applied when it answered. `acked`, `floor` and
`refused` are ghosts for the properties. `Invalidate` is the client's call after a
successful mutation; `LoseResponse` is the error return, which does not invalidate.

### ConnectionCache

`InvalidateOn401` is six steps (closed check, compare-and-swap, load, lastReady,
placeholder, send), `Rebuild` is store, gate, edge and one `Emit` per subscriber,
`Start` is three. The work queues are sets of one (`cq`, `dq`), as
controller-runtime deduplicates; the 401 and Subscribe channels hold one event.

### Connection

`Reconcile` has a step for every call that leaves the process: fetch, finalizer,
`Connecting` write, shield (the `Rebuild` with no client), Secret, endpoint
checks, probe, status write, publish. `seen` is the informer's copy, which Reconcile
reads and which may lag (`lag`) behind any write, the reconciler's own included; no
predicate filters its events. `wk` is the worker's copy; a status write is a merge
patch of what differs in it (`Patched`), whose answer replaces that copy, may fail,
and then is only logged. `missed` and `muddled` are ghosts: the pass at work, or the
one the snapshot comes from, read a copy from before the last status write. The
dependents are reduced to: read the snapshot, apply or delete with the
client taken from it, park, drain.

### Model

`obj` is the object in the API server, `seen` the informer's copy, `wk` the
worker's. A rendered body is what the hash tells apart: params version, an
optional params key (`wide`), the Secret's version, model_info's version.
LiteLLM is external: every create is a row, an update keeps absent keys and
model_info, as the comments in the reconciler say of it. Status records the hash and
the names of the params sent (`InfoKeys`); the churn decision compares them with what
is rendered now, and a record from before they were kept has none (`MayRecreate`).
`offRecord` and `aged` are ghosts: a row may hold the key without the record saying
so; the reconcile at work read a record older than the present one. Each call ends in one of:
answered, 401, other 4xx, not delivered, applied without an answer, and for a
create applied later. Status writes go over the informer's copy and conflict until
that has caught up (`writeStatusWithRetry`).

### MCPServer

All `Servers` sanitize to one `server_name`; their numbers are their order by
`<namespace>/<name>`, so the conflict winner is the greatest live one that the
informer (`seen`) shows. There is one worker (`cur`), as the controller sets no
MaxConcurrentReconciles. A rendered body is whose spec it is, which version, and
which version of the Secret; `LoserHash` is the hash no body has, which a loser
records. A row has an id, a name (0 is the sanitized name, n the raw name of
server n, for rows made before names were sanitized) and a body. `lcache` is the
list cache as one entry, a listing or an error, which an answered mutation drops;
what happens inside it is `ListCache`. A failed lookup by name is taken for
absence, as `resolveServerIDByName` does. `left`, `blind`, `kept` and `misled` are
ghosts: how a resource went, and whose recorded hash may not describe the row its
id names. The last is the set of states the code does not look for: a resource
that missed a winner which came and went before it was demoted; an adopted id that
was recorded although the update of its row was refused; and a record that a status
write from an older copy put back (section 5).

### Discovery, ModelDiscovery, MCPServerDiscovery

`md` are the Discovery objects (phase, uid, finalizer, generation, observed
generation, Ready reason), `child` the children in the API server (controller
reference, generated-by label, dying, spec), `mdSeen` and `seen` the informers' copies
of them. Both are read cached, so both may be old: a child's listing at any time, a
Discovery (`Get`) as long as it is `mdBehind`. A copy of a Discovery that is not the
live version can store none of its writes, so what it shows of the status makes no
difference and is left out (`Bare`). `discoverySpecChanged` lets creation, deletion
and a new generation through and filters status, finalizer and other metadata: only
the former (`News`) queue the Discovery when the informer catches up. `dropped` is a
ghost: the last status write was refused, or failed while it parked, and no event
follows. A resource version is modelled by what it is used for: `w.live` says whether
the version the ownership check read is still the one in place, `w.fresh` which
children of the listing are unchanged since, `w.cur` whether the Discovery is. Each
call of
Reconcile to the API server is a step: finalizer, each delete of the drain, the
Syncing mark, each `classifyAlreadyExists`, each apply, each vanish-delete, the alias
objects, the last status write. A server-side apply without a resource version
creates, merges into an object a user wrote meanwhile, or is refused; that is what
the API server does and is external. Between any two steps a user may write, adopt,
edit or delete a child, edit, delete or recreate the Discovery, a child's own
reconciler may finish its deletion and the garbage collector may run.
`ModelDiscovery` adds the provider (`upstream`, `source`), the filters (an include
pattern is the set of names it matches; one that matches nothing is
`UpstreamInvalid`, a malformed one is found only after the listing) and the alias object; a rendered spec is the Discovery's
generation. `MCPServerDiscovery` adds the CRDs, the informer's `kindReady` and
`ready`, and the ToolHive objects as shapes of their status; a rendered spec is
generation, source object and normalized transport.

`ChildOwnership` says what both promise and nothing of how: a name comes into a
Discovery's hands only when nobody holds it; what a user adopted, and what another
Discovery generated, is not taken back before the object has gone. The mapping
(`Promise`) reads the holder off a child's controller reference and label, and
`KeepsPromise` is the abstract specification, which is safety alone, as a property
of both reconcilers. `Overlap` is the one gap the code leaves: a create without a
resource version that lands on a user's object written after the check.

### Team

`obj`, `seen` and `wk` are as in `Model`. A body is the version of the spec's own
fields and, per access group, the version of the group's models granted, 0 for a
closed field and -1 for one left out of the request (LiteLLM keeps what it has).
`name` is `default` or `team`; `cache` is the pair the implicit default remembers
in memory. An alias is not unique in LiteLLM: every row under it is in `rows`, the
smallest id wins, as in the code. The Team's own calls end as in `Model`; access
groups are rows that others create, change and remove.

### ModelAlias

`obj`, `seen` and `list` are the resources, the informer's copy and the copy one
reconcile works on. `gen` goes on counting when a resource is recreated, and `born`
stands for its uid. An entry of LiteLLM's map is nobody's, somebody else's, or a
resource's at a generation. Each finalizer, the read, the write, each status, each
dropped finalizer is a step. `meddled`, `latest` and `raced` are ghosts: somebody
edited the map since the last write; how the other settings were last left; an edit
fell between a reconcile's read and its write.

## 3. Runs

Deadlock is checked where the system can always go on (`list_cache`); elsewhere it
may stop: after shutdown, or once resources and connection are gone.

| Run | Instance | Shows |
| --- | --- | --- |
| `list_cache` | 3 callers, 1 writer, 1 mutation, 1 panic | ReadYourWrites; one fetch in flight (SingleFlight); an expired entry is served only after a panic; every call returns |
| `connection_cache` | 1 dependent, 3 changes of LiteLLM's answers, shutdown | NoLostReprobe, NoStuckGate; the snapshot and the dependent recover |
| `connection` | 2 endpoints, one of them insecure, informer lag, 2 outside changes, 1 failing API call or restart | AgreeAtRest, NoStaleClient, DependentsSettle, AbsentDrains |
| `model_safety` | both policies, stale reads, status from earlier operators, 2 changes, 1 fault, 1 restart | SyncedMatches, NoSilentLeak, OneRow, IdNeverBlanked |
| `model_liveness` | 2 changes, 1 fault, LiteLLM may hide rows | Converges |
| `mcp_safety` | 2 servers on one entry, Orphan, old copies, 2 changes, 2 faults | HonestSynced, OneClaims, NoSilentLeak, SiblingSpared |
| `mcp_liveness` | 2 servers, a row under a raw name, Delete, old copies, 1 change, 2 faults | Converges |
| `model_discovery` | 2 Discoveries (one edited, deleted, recreated) on one name, aliases, 2 upsets | KeepsPromise (refinement), RefreshPending, VanishSparesListed, Converges |
| `mcp_discovery` | 1 Discovery, 2 ToolHive objects of 2 kinds on one child name, a CRD that comes late, 2 upsets | KeepsPromise (refinement), VanishSparesListed, Converges |
| `team` | the default and a named team, 1 access group, both policies, 3 upsets | SyncedMatches, Narrowed, NoSilentLeak, OneRow, Converges |
| `model_alias` | 2 resources, 2 aliases, 3 upsets | NoOrphanEntry, HonestStatus, UnrelatedSurvive, Converges |
| `team_default` | the default, 3 upsets | violated: see section 5 |

An upset is any change from outside (an edit, a deletion, an out-of-band row, a
lost connection), a call that fails or whose answer is lost, or a restart; in the
discoveries also a reconcile that starts from an old copy of its Discovery. A fault of
`MCPServer` is a call that does not simply succeed, a reconcile that starts from an
old copy, or a restart. The type invariants are properties of `model_safety` and `team`, where they bound the
recreates the circuit breaker lets through, and theorems of the proved modules.

Bounds. Three callers and a writer are the least that put a hit, a waiter and a
leader against a mutation, and a new leader beside the waiters of an old one; the
proofs of section 4 remove that bound, that of one dependent in `connection_cache`
and all of `connection`, `model_safety`, `mcp_safety`, `model_discovery`, `team` and
`model_alias` for the properties they cover (one of `mcp_safety` with a hypothesis,
section 4). Two outside changes and a fault, a restart or (in `MCPServer`) two of
them let each pair of disturbances fall into every window of a reconcile; the gaps of
section 5 that the properties name are reached within these bounds, so the exceptions
are met and not only stated. Sizes with two workers: `connection` 0.7 million
distinct states, `model_safety` 7.5, `mcp_safety` 4.0, `mcp_liveness` and
`model_discovery` 0.6 each, the others fewer. A third upset is affordable for teams and aliases and
is used there. Two servers are a winner and a loser; two changes make the winner
appear and go again. Two Discoveries on one name are an owner and a contender (`Changing`: users edit, and
calls fail for, one of them); one name suffices because a reconcile treats its candidates independently, in any order.
Two ToolHive objects of two kinds are a winner and a loser, and a kind that is
missing. In `Team` the server's ids sort on both sides of the id the operator asks
for. Two aliases let a resource win one and lose another. `MaxIds` is never the reason a create is not taken in the
passing runs: `Expire`, which alone would let recreates go on for ever, stops one
id before it. In `MCPServer` the list cache is filled and expires by itself only
between two reconciles, and the relist tick is taken when the queue is empty (a
tick into a full queue adds nothing).

Fairness. A worker with a queued item runs and an HTTP exchange ends (the client
has a timeout): weak fairness of the steps of each goroutine. Channel deliveries,
`RequeueAfter`, the relist ticker, the churn window and the informer come round:
weak fairness of each. In `MCPServer` strong fairness of `Fetch` per server (the
work queue is first in, first out, while other items come and go) and of the list
cache's TTL, which passes by the clock although the entry may be dropped and
filled meanwhile. The discoveries have strong fairness of a queued Discovery's
reconcile (a worker busy with another cannot starve it: the queue is first in,
first out), weak fairness of the informer, of delays, of the informer's retry
interval, of the garbage collector and of the children's own reconciler. A read from
an old copy counts as an upset, so the cache is up to date after finitely many. In `Team`
the relist and the default tick come round. The connection comes back (`ConnUp`):
that is `connection`. Nothing is assumed of users, LiteLLM, cancellations,
restarts or shutdown; liveness properties are conditional on LiteLLM (`<>[]`)
instead.

Left out of the passing runs on purpose, because the property is then false of the
code: content that returns to an earlier value around an update whose answer was
lost (`Reverts` in `Model` and `Team`: the recorded hash fits again, the row does
not); in `Model`'s SyncedMatches and OneRow, a LiteLLM that ever hid rows or applied a
create late, and pseudo-models, which it never lists (`InTime`; `SyncedServes`,
section 5); stale reads in `model_liveness` (an error path writes an empty hash over a
persisted one, and the probe is skipped for an id without a hash; `Gap` excludes the
same state in `MCPServer`); in `Team`'s SyncedMatches, a second team somebody makes
under the alias (`SyncedServes`, section 5).

Exceptions stated in the properties, each a way in which the code falls short and each
met by the run: a key off the record in `Model` (`NoKeyLeft`); `misled` in
`MCPServer`'s HonestSynced; a pass that missed a status write in `Connection`'s
NoStaleClient; a status write lost without an event (`dropped`) in the RefreshPending
and Converges of the discoveries; a grant whose update was applied without being
recorded and a default whose reset was refused in `Team`'s Converges; a map somebody
else has edited since in `ModelAlias`'s HonestStatus. Section 5 has the traces.

## 4. Proofs

`ListCacheProofs`: for every set of callers and writers and every bound, `IInv`
is inductive. ReadYourWrites alone is not: a leader may hold an old listing and
later store it. What is needed is `LeaderCurrent` (a leader whose epoch still
stands holds a listing as new as every acknowledged mutation), `HeldResultFresh`,
`Bounded`, and `SingleFlight` with `NoStrandedWaiter` for the marker and channels.
Assumptions: bounds are naturals, the nil channel is not a caller.

`ConnectionCacheProofs`: for every set of dependents, `CacheInv` (types, closed
channel implies closed flag, NoLostReprobe, NoStuckGate) is inductive. The two
properties are about the same window from both sides: the placeholder is only
ever stored by a goroutine that will send, the send is dropped only when an event
is already there, and an event or queue entry leads to a probe, whose Rebuild
replaces the snapshot and lowers the gate.

`CacheNotPoisoned` (theorem CacheNeverPoisoned) and `NoStrandedWaiter` (part of
FlightSafe) are proved here and need no run of their own. ExpiredOnlyAfterPanic has
the inductive form `RefusedReplaced`: until a LIST panics, a waiter that found an
expired entry waits on a leader that has not stored yet and will, as its epoch stands.

`ConnectionProofs`: for every set of endpoints and every bound, AgreeAtRest and
NoStaleClient, with an informer copy that may lag. A copy that is not behind is the
object (`Current`), the finalizer pins the object under a reconcile and under a copy
(`Pinned`), and copies of one object at one generation have one spec (`OneSpec`). As
long as no API call failed: nobody but the worker writes the status, so a pass that
read the last one stays in step with it (`StatusInStep`); with no event since the fetch
the worker's copy is the object (`NoEventNoChange`), which gives AgreeAtRest. A
`Connecting` status goes with a snapshot nobody can use (`ConnectingShields`), and a
usable client was built from the spec the status describes, also as the informer's
copy and the worker's know it (`ClientDescribed`); these two hold while no pass missed
a status write and give NoStaleClient (theorem ShieldInForce).

`ModelDiscoveryProofs`: for every set of Discoveries and names. There is one worker,
so nobody else generates a child between its check and its write (`Checked`); a
generated child is labelled, and the label stays when the reference goes (`Labels`);
what the listing says of a child is still so or has been noticed (`Accounted`,
`Informed`), which gives VanishSparesListed. RefreshPending (theorem RefreshKept) is
not inductive: a reconcile with an outdated copy of its Discovery writes no status and
asks for no delay. The informer never shows a spec that is yet to come (`Trails`), so a
reconcile overtaken by a change of the spec has its Discovery in the queue or the event
on its way (`Held`); a reconcile whose copy is of the present spec and whose write is
refused all the same is the exception, `dropped`. PromiseKept is KeepsPromise, Spec =>
the abstract Init and [][Next]: no step moves two names to other hands (`OneName`), and
each move is one of the abstract ones (`Moves`). Assumption: `"none"` is not a
Discovery.

`ModelProofs`: for every policy, every set of bad specs and every bound. A step is
summarised once by what it does to the worker (`WorkStep`), to the object and the
informer's copy (`ObjStep`) and to the rows (`RowStep`); the invariants are then
shown from the summaries. `SafeInv` gives TypeOK, IdNeverBlanked, NoSilentLeak and
OneRow, `SyncedInv` adds SyncedMatches (its last part under `~Reverts`).

- TypeOK is not inductive: the churn count stays in its bound because a reconcile
  that comes to create has passed the circuit breaker (`Paths`), the generation
  because it costs an event (`Counted`).
- NoSilentLeak: the finalizer keeps the object while a live copy that carries it is
  around (`Pinned`), an object without finalizer has no id, and a reconcile comes to
  drop the finalizer with the tracked row gone, or on a permanent cause under Orphan
  (`Leaves`), which a restart or a conflict on the way takes back. No later row takes
  an id given out before (`IdsKnown`).
- OneRow: a create follows a lookup that found nothing, a recreate a delete that
  found the only row (`Single`).
- SyncedMatches, without `Reverts`: versions only grow (`Versioned`), a generation has
  one spec (`Generations`), a copy from before an edit means that no record is of the
  present params (`Outrun`), so a record of the params asked for now is true of what is
  about to be sent and of what LiteLLM holds (`Truthful`). A reconcile nothing has
  queued again works on the latest copy (`Latest`) and a body of the Secret there is
  (`Rendering`), so at rest a resource that says Synced has such a record
  (`SyncedHolds`). The row then has the optional key if the spec asks for it
  (`Truthful`, `Kin`). That it has no key the spec gave up is `Keyed`: a key in a row
  is on record under that row's id, or known to be off it, and a reconcile that
  applied params without the key having read the last record (`Informed`) had the
  recorded row deleted before.

Assumptions: `ModelAssumption` (bounds are naturals; a spec that an earlier operator
applied decodes).

`TeamProofs`: for every set of access groups and ids and every bound. A step is
summarised once by what it does to the resource, the rows, the record in status and
the history (`Shape`, `RestStep`, `RecordStep`, `PastStep`); the invariants are then
shown from the summaries.

- NoSilentLeak: a finalizer pins the resource while a copy that carries it is around
  (`Pinned`), a resource the worker has not seen has no status (`Untouched`), and
  when the finalizer is dropped the row is gone, or left under Orphan with the
  connection gone for good (`Leaves`).
- OneRow: a new id is nobody's (`Known`), and a team is created only after a lookup
  that found none (`OneAlias`).
- Narrowed: a generation has one spec (`Generations`), a body lacks what does not
  resolve (`Rendering`), and the recorded write is what LiteLLM holds unless the
  history says that a write went unrecorded (`Recorded`, `JustWritten`).
- SyncedMatches, without `Reverts`: versions only grow (`Versioned`), a copy from
  before an edit has no record of the present spec (`Outrun`), a body that is
  outdated is never rendered again, so a recorded hash that fits is the truth
  (`Truthful`), and a reconcile nothing has queued again works on the latest copy
  (`Latest`).

Assumptions: `TeamAssumption` (the server's ids are distinct and not those the
operator asks for, bounds are naturals).

`MCPServerProofs`: for every number of servers that share an entry, every set of bad
specs and raw names and every bound, reconciles from old copies included. A
step is summarised once by its kind (`Kind`): what it does to the objects, the worker,
the rows, the queue and the ghosts; the invariants are then shown from the summaries.
`SafeInv` gives the first four, `TrueInv` next to it the last.

- TypeOK needs that a generation costs an event (`Grown`) and what the place in a
  reconcile says of its copy (`Paths`).
- OneClaims speaks of rest and is not inductive. `Told`: a resource that says Synced,
  or is being reconciled as a winner, while the informer shows a live sibling after
  it, is queued; so at rest there is none.
- SiblingSpared is an action property, from two facts about a finalizer that deletes a
  row: an id of its own is not the owner's (`SharedEntryOwner`), and one that resolved
  the row by name saw no live sibling with an id (`Alone`).
- NoSilentLeak: the informer is behind the API server, the worker behind the informer,
  and a finalizer pins the resource (`Life`, `Behind`); the row a finalizer without an
  id finds by name is the only one (`Named`, `Seized`), and a reconcile comes to drop
  the finalizer with the row gone (`Emptied`), on a permanent cause under Orphan, or
  with a sibling that was live when the row was left to it (`Successor`); which of these
  it was is known before the resource is gone (`Ways`).
- HonestSynced: a winner has nobody after it but resources never reconciled
  (`Highest`), versions and Secrets only grow (`Counted`), a copy is of an earlier
  spec, but of none earlier than the last record was made from (`Trails`), and nobody
  else writes the status of the resource the worker has; a reconcile whose copy was old
  already brings the resource again (`Held`). So the record of the last live resource,
  if it is what the resource would send now and nothing is known to be wrong with it
  (`Good`), describes the row it names (`Match`) and no sibling is or will be
  reconciled over it (`Overruled`, `Shadowed`); a claim that is not of the present body
  is queued (`Queued`).

Assumptions: `MCPServerAssumption` (servers are a finite set of positive naturals,
bounds are naturals, the circuit breaker lets one recreate through). NoLeak has the hypothesis that there is no row from before names were
sanitized (`~LegacyRows`): with one, two rows can carry the name, and a finalizer
without an id may delete the other. The other theorems have none.

`ModelAliasProofs`: for every set of resources in which every nonempty set has a
last one (the conflict resolver picks it), every set of aliases and every bound.
NoOrphanEntry (an entry of LiteLLM's map belongs to the resource that still exists,
not to an earlier one of its name) is not inductive: a reconcile works on a list the
informer copied some time ago, and may write an entry for a resource that was
deleted since, or strip a finalizer on the strength of an old copy. `IInv` adds to
TypeOK and the order of generations (`Bounded`, `Older`) what holds of both copies:

- `Pins`: a copy that is live and carries the finalizer pins the resource; it
  still exists under that uid and still carries it. So an entry written from the
  copy has an owner.
- `NotRevived`: a resource seen deleting under a uid is not live under that uid in
  any later copy. So a finalizer is dropped only from a resource whose entries the
  preceding write left out.
- `Finalized` (past the first loop every live resource of the list has its
  finalizer) and `Owned` (an entry's owner has the finalizer on, and after the write
  is live in the list) carry these two through the steps of one reconcile.

HonestStatus speaks of a state in which nothing is in progress; `StatusInv` carries
it through a pass. There is no way back to an earlier state of a resource
(NoWayBack, `Gone`), so while no event waits the worker's copy of a resource the
informer has up to date is up to date too (`Unmoved`), and a status write that leaves
the informer's copy up to date changed nothing. `Told`: each such resource was told
by this pass, is still to be told, or was told by the last one; the merged map it was
told about is in place unless somebody edited it (`InPlace`).

UnrelatedSurvive (the keys of router_settings that are not aliases are carried
through a write, unless somebody edited them between the read and the write) has
`Carried` as its inductive form: what was read is what was there.

Model-checked only. Liveness under fairness is out of the prover's reach: `Converges`
of every module, `DependentsSettle`, `AbsentDrains`, and the recovery of the connection
cache. So are induction over data and RECURSIVE
operators; the proved modules have none. `MCPServerDiscovery` (VanishSparesListed and
KeepsPromise) is checked on the instance of section 3 and not proved; NoSilentLeak of
`MCPServer` with rows under raw names is neither (section 6).

## 5. What the violated run shows, and observations

`team_default` checks DefaultIsReset: once a declared default team is gone and
LiteLLM and the connection stay well, LiteLLM's default team is brought back to the
empty state. It is violated. When the last update of the deleted resource is refused
(a 401 or another 4xx), the finalizer is dropped all the same, and
`implicitDefaultHash` and `implicitDefaultTeamID` are as they were before the
resource was declared: every later tick finds them equal and sends nothing, so the
budget and grants of the deleted resource stay until a restart. `PROJECT.json`
quotes the lines.

These were met while modelling. Each of the first group is a definition in its
module and can be reproduced by adding it to the cfg with the constants given:

- `ParkedIsWoken` (ConnectionCache; 2 dependents, 2 changes): a Rebuild between
  InvalidateOn401's two stores takes the Ready edge, so what parked on the
  placeholder is not woken by the Rebuild that replaces it; the safety relist
  repairs it.
- `TeardownDrains` (Connection; 3 changes): a 401 answered after the connection is
  gone replaces Absent by a placeholder nobody rebuilds; Orphan resources keep
  their finalizer.
- `DeleteLeavesNothing` (Model; 2 changes, 1 restart): a restart between
  delete-and-recreate and the status write, and then a deletion, leave the new row
  behind under Delete.
- `SyncedServes` (Model; `CanHide`, 4 changes, no fault, no restart): met while
  proving SyncedMatches. While the rows are hidden an edited resource gets a second
  row; a reconcile with an old copy writes the old record back over the new one (the
  status write takes the whole of `lastRendered`), and one with the new copy, whose
  probe had cleared the id, is throttled and writes the new hash next to the old id
  that `keepPersistedID` keeps. The steady state then says Synced of a row that holds
  the params from before the edit. The theorem covers a LiteLLM that lists what it
  holds.
- `SyncedServes` (MCPServer; 1 server, 2 changes, 1 fault): the id of an adopted
  row is in the status before the row was updated; if the update is refused it is
  persisted with the old hash, and the next reconcile says Synced over a body the
  operator never sent.
- `LiveRowSpared` (MCPServer; 3 servers of which 1 has a row under its raw name,
  Delete, 3 changes, no fault): met while proving SiblingSpared. 1 is deleted, 2 adopts
  its row before the finalizer runs, 3 is created; 3 is now the winner and has no id, so
  `sharedEntryOwner` takes the id of 1 for a row of its own and the row that 2 serves is
  deleted. It is back when 3 is reconciled. `docs/concepts/conflict-resolution.md:75`
  says that deleting a CR never deletes the entry while another live CR sanitizes to the
  same name. The passing run checks the rows of the owner, and the pinned one.
- `LastTakesRow` (MCPServer; 2 servers, 1 with a row under its raw name, Delete, 4
  changes, no fault): met while proving NoSilentLeak. 1 tracks the old row, somebody
  removes it by hand, 2 finds none and creates the pinned row, 2 is deleted and leaves
  it to 1. 1 is deleted in turn before it noticed: it deletes its old id, which is 404
  and counts as done, and the row of 2 stays. `conflict-resolution.md:77` says that
  the last such CR takes the entry along. NoSilentLeak excepts a sibling with another
  id (`Heir`).
- `HonestSynced` (MCPServer; the constants of `mcp_safety` with StaleReads TRUE): met
  while proving it. With two rows of the name, one made by hand, a refused update
  persists the adopted id, a reconcile with an old copy writes the old record back, and
  one with a copy from between says Synced in the steady state over the row made by
  hand.
- `ListedNeverVanishes` (ModelDiscovery; one Discovery that may change, one aliased
  name, SomeFilters, no agents, 1 upset): a child whose update failed is in
  neither `generated`, `skipped` nor `pendingRetries`, so the vanish loop of the same
  reconcile deletes it although the provider lists it. The comments at
  `modeldiscovery_controller.go:944` and `:954` say that children stay untouched on
  transient failures and are not deleted because they could not be rendered. The
  passing run checks the weaker VanishSparesListed.
- `SyncedServes` (Team; 5 upsets): met while proving SyncedMatches. With a second
  team of the alias in LiteLLM, a reconcile with an old copy writes an old record
  back over a newer one (the status write takes the whole record), a later one finds
  the recorded id gone, and an error path keeps the persisted id next to the new
  hash; the steady state then says Synced of a row that holds another body. The
  theorem covers the histories without a second team.
- `VanishedGroupIsLost` (Team): an update that LiteLLM applied but whose answer was
  lost is not recorded; when the group then vanishes, the narrowed body can have the
  hash that is on record, nothing is sent, and the team keeps the group's access.
  The comment at `team_controller.go:1017` says narrowing is there to prevent that.

Read in the code, without a property of their own:

- The counters of a ModelDiscovery's status do not add up to `discoveredCount` as
  the comment at `modeldiscovery_controller.go:1028` says: pending and blocked
  names are in none of them.
- A child adopted by a second Discovery is deleted when its former Discovery is:
  the drain selects by label.
- `UpstreamInvalid` of a ModelDiscovery is not requeued; a conflict on the final
  status write returns nil. The next event repairs both.
- Two Discoveries that create the same child at once: the loser's create fails and
  it reports an overlap only at its next reconcile.
- Two ToolHive objects of different kinds with the same namespace and name are not
  ordered by the tie-break.
- The comment that the informer wakes the reconciler when ToolHive's CRDs land is
  not borne out; the one-minute requeue does.
- The alias writer reads and posts router_settings without a guard, so an edit in
  between is lost (`raced` in `ModelAlias`); `types.go` promises that unrelated
  keys are preserved by read-merge-write. Aliases have no deletion policy: with the
  connection Absent their finalizer stays.
- The docs say AliasConflict where the code sets PartialAliasConflict; the comment
  of `applyStatus` says conflicts are swallowed, the code retries and returns the
  error. `isStuckReadyFalse` of the boot sweep does not list toolsets and access
  groups.

## 6. Plan

Done: `ListCache`, `ConnectionCache`, `Connection`, `ModelAlias` and their proofs;
`DeletionPolicy`, `Model` and `MCPServer` and their proofs; `Discovery` (what both discovery reconcilers
share), `ChildOwnership` (the promise they keep, refined by both), `ModelDiscovery`
and its proofs, `MCPServerDiscovery`; `Team` and its proofs.

Left to model, in this order: `A2AAgent` (the skeleton of `MCPServer` over
`/v1/agents`, without siblings); `AccessGroup` and `Toolset` (names resolved to ids,
as grants are in `Team`); `ModelGroupBudget` (a shared document, as in
`ModelAlias`); `GuardRail` with the conflict resolver of `MCPServer`; `BootSweep`.
Each repeats a pattern that is modelled once already, which is why the patterns
came first.

Left to prove: VanishSparesListed and the safety part of KeepsPromise of
`MCPServerDiscovery`; NoSilentLeak of `MCPServer` with rows under raw names; lemmas
about `DeletionPolicy`.

## 7. Not modelled

- A2AAgent, AccessGroup, GuardRail, MCPToolset and ModelGroupBudget reconcilers:
  they share the skeleton of the modelled kinds (section 6).
- The boot sweep: it runs once at start and only enqueues; restarts in the models
  enqueue everything.
- The providers' listings and the HTTP client's encoding (I/O; a listing is a set
  of names that may fail or be partial), metrics and events (write-only), process
  wiring and flags, generated code, the mock server.

Informer staleness is modelled for models, MCP servers, teams, aliases and the
children of the discoveries; the connection is read from the API server directly.
