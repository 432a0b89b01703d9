# A TLA+ model of cachecore

cachecore is a Go library for a read-through cache: named groups of keys, a
loader that coalesces concurrent misses, local storage with byte budgets and
expiration, counters, invalidation, an optional membership filter, and peers
that own parts of the key space. This directory holds TLA+ specifications
of it, TLC models of small instances and TLAPS proofs for all instances.

To check everything by hand, in this directory:

    tlc -workers 2 -config MCGroup.cfg MCGroup     # any .cfg with its MC module
    tlapm GroupProofs.tla                          # any *Proofs.tla

## Inventory

| Part | State | Operations | Hard behaviour |
|---|---|---|---|
| `internal/singleflight` | map from key to call; per call a WaitGroup, the result, channels | `Do`, `DoChan`, `completeCall` | requests that arrive while a call completes, waiters that leave, panics |
| `groupcache.go` (Group) | active cache, stale cache, loader, increment locks | `Get`, `Increment`, `Invalidate`, `Warmup` | loads that run while the key is incremented, invalidated, evicted or expires; timeouts with degradation |
| `cache.go` | one store under a mutex | `add`, `addWithTTL`, `get`, `increment`, `remove`, `clearupExpired` | the critical sections that the rest interleaves with |
| `internal/lru` | lists, map, byte counters | `Add(WithTTL)`, `Get`, `Remove`, `RemoveOldest`, `RemoveExpired` | counters that are never recomputed, eviction loops |
| `groupcache_filter.go` | filter, `ready`, warm-up keys, stop channel | `add`, `rejects`, `warmup`, `startRefresh`, `stopRefresh` | rebuilds that overlap, start against stop |
| `groupcache_maintenance.go` | ticker, stop channel | `Janitor.Run`, `Stop`, refresh start and stop | sweeps against everything else, double stop |
| `increment_locks.go` | 256 mutexes | `lock` | keys that share a stripe |
| `sharded.go` | caches by hash of the key | as `cache.go` | budget split by shards |
| `http.go` | peer ring, HTTP clients | `pickPeer`, `ServeHTTP`, `broadcastInvalidate` | lost and late answers, partial broadcasts, rings that disagree |
| `internal/consistenthash` | sorted hashes, hash to node | `Add`, `Remove`, `Get` | hash collisions, wrap-around |
| `bloomfilter` | bit array | `Add`, `Contains`, `Reset` | false negatives must not occur |
| `stats.go` | counters, latency windows | `Record*`, `Snapshot`, `StartLogger` | window overwrite, percentile index |
| `cmd/cache-server` | Redis, demo data | getter, incrementer, HTTP handlers | read and write back against increments |

How they interact: `Get` looks into the active cache and, on a miss, asks the
loader. The loader runs `getLocally` (or a peer's `Get`) once for all who wait;
it passes the filter gate, calls the user's getter and stores the result in the
active and then in the stale cache. With a wait ttl each request waits on a
channel of its own, against a timer and its context, and falls back to the
caches when the timer wins. `Increment` either works on the active cache alone
or, with an incrementer, holds the stripe lock of the key while it changes the
backend and both caches. `Invalidate` removes from both caches and then tells
the peers. The janitor and the refresh loop run beside all this.

What makes each part correct:

* coalescing: one execution per key at a time; who joined an execution returns
  its result; nobody is forgotten; nobody waits for ever;
* group: reads do not go back; an increment or an invalidation that has
  returned is respected; a value is served only as long as ttl, jitter and the
  stale window allow; every request returns;
* stores: list, map and counters agree; what is stored stays until it expires,
  is removed or has to make room; the budget holds when a store returns; the
  loops end;
* peers: only the owner of a key reads the backend; a copy of a copy is not
  older than two ttls; counters grow through whichever node they are used; an
  invalidation that reached the owner is not undone; no load waits for ever;
* ring: the owner of a key is the nearest member, whatever order the members
  came in, and a change of the members moves no more keys than it has to;
* metrics: counters agree with one another, and what is derived from them says
  what it claims;
* filter: a key of the last warm-up is never turned away; one refresh loop
  survives; a failed rebuild is repaired.

The hazards of the code, each at its line, are listed in `PROJECT.json` together
with the properties that would catch them.

## Modules

| Module | Models | Checked by |
|---|---|---|
| `SharedLoad` | what coalescing promises (abstract) | refined by `Singleflight`, used by `Group` |
| `Singleflight` | `internal/singleflight/singleflight.go` | `MCSingleflight` |
| `SingleflightProofs` | theorems about `Singleflight` | `tlapm` |
| `Group` | `groupcache.go`, `cache.go`, the janitor's sweeps, one stripe lock | `MCGroup` |
| `GroupProofs` | theorems about `Group` | `tlapm` |
| `BoundedCache` | what `cache.go` expects of its store (abstract) | refined by `LRU` and `SLRU`, in `Store` |
| `StoreConfig` | `newConfiguredCache`, the budget of a shard (`sharded.go`) | `MCStore` |
| `LRU`, `SLRU` | `internal/lru/lru.go`, `internal/lru/slru.go` | `MCStore` |
| `Store` | `cache.ensureStore`: one of the two behind a cache or a shard | `MCStore` |
| `StoreProofs` | theorems about `Store`, `LRU`, `SLRU` and `BoundedCache` | `tlapm` |
| `BloomFilter` | `bloomfilter/bloomfilter.go` | `MCFilterGate` |
| `FilterGate` | `groupcache_filter.go`, `Group.Warmup`, over `BloomFilter` | `MCFilterGate` |
| `FilterGateProofs` | theorems about `FilterGate` and `BloomFilter` | `tlapm` |
| `Sorting` | `sort.Ints` of Go's library | `MCConsistentHash`, `MCMetrics` |
| `ConsistentHash` | `internal/consistenthash/consistenthash.go` | `MCConsistentHash` |
| `ConsistentHashProofs` | theorems about `ConsistentHash` | `tlapm` |
| `Cluster` | `http.go` and the parts of `groupcache.go` that talk to peers, over `SharedLoad` | `MCCluster` |
| `ClusterProofs` | theorems about `Cluster` | `tlapm` |
| `Metrics` | `stats.go`, with the code that counts and the API handler of the demo server | `MCMetrics` |
| `MetricsProofs` | theorems about `Metrics` | `tlapm` |
| `DataLemmas` | sums, sizes of sets and sorted lists, for several of the proofs | `tlapm` |
| `DemoServer` | start, getter and incrementer of `cmd/cache-server`, over Redis | `MCDemoServer` |

Every region the code runs under a mutex is one action; everything between two
regions interleaves. Operators whose comment begins with "Mutant of" are altered
forms of the definition that follows them, kept to show that the properties
notice such a change; no specification uses them.

### Singleflight

A request (`Caller`) is one invocation of `Do` or `DoChan`; a `Call` is one heap
object. `m` is `Group.m`; `st`, `res` and `chs` are the life, the result and the
channels of a call; `ch` is the one-element buffer of a request's channel.

* `Do`: `DoJoin` (found in the map), `DoLead` (registers), then `FnReturn` or
  `FnPanicUnwinds`, and `WaitReturns` or `LeadReturns`.
* `DoChan`: `DoChanJoin`, `DoChanLead`, then `FnReturn` or `FnPanicRecovered`
  (`safeCall`); the request `Receive`s or `Leave`s.
* `completeCall` is four actions: the result and `wg.Done` (`Publish`, part of
  `FnReturn`), the locked `Delete`, one `Send` per channel, `EndCall`. The window
  between `Publish` and `Delete` is the one in which late requests still join.

Identities are recycled when Go would have collected the object, so runs are not
limited to a number of requests. The refinement maps a key to the state of the
call registered for it, and a waiting request to the result that is certain to
reach it.

### Group

One key, since the caches, the loader and the locks treat keys independently
except for eviction, which is the action `Evict`. Peers and filter are nil.
The active and the stale entry are records with the ticks they have left
(`rem`); `Expired` is the state after `expireAt` and before someone notices.
`Tick` ages entries; nothing depends on the absolute time. The value of the
backend carries the number of its changes (`ver`), which is the number itself
when the key is a counter: that is what lets properties say "older".

* `Get`: `GetHit` or `GetMiss`, `LoadCanceled`/`LoadStart`/`LoadJoin`, then
  `WaitReturns`, `WaitCanceled` or `WaitTimeout` with `DegradeActive` and
  `DegradeStale`.
* the shared load: `GetterReturns` or `GetterFails`, `StoreValue` then
  `StoreStale`, or `StoreNegative`, then `LoadReturns` and `LoadRetired`. These
  belong to the loader, so they go on when every request has left.
* `Increment`: `IncrementCached`/`IncrementNonNumeric` without an incrementer;
  `IncrementQueues`, `IncrementLocks`, `IncrementApplies`/`IncrementFails`,
  `IncrementStores` with one; `IncrementReturns` records the stale copy, releases
  the lock and returns. `IncrementFails` also covers an increment that was
  applied and whose answer was lost.
* `Invalidate`: `InvalidateActive`, `InvalidateStale`.
* environment: `JanitorActive`, `JanitorStale`, `Evict`, `BackendWrite`, `Tick`.

`conf` is the scenario and never changes. `seen`, `mark` and `lapse` are history: what clients have been promised, what had
been promised when a request began, and how long ago the backend held a version.
`Watch` says which promises a run follows, which keeps the history small.

The loader is an instance of `SharedLoad`, not of `Singleflight`: that is sound
for the safety properties because `Singleflight` is proved to implement it.

`ServedInTime` is stated for a group whose key nobody increments: an increment
without an incrementer makes a new version in the cache, of which it makes no
sense to ask how long ago the backend had it.

### Stores

A value is its length. `cache.go` holds its mutex during a method, so methods do
not overlap, but the loops are loops: one removal or demotion per step. Both
`LRU` and `SLRU` refine `BoundedCache`, which adds up the contents where the code
keeps counters: the refinement fails as soon as a counter drifts far enough to
matter. The clock is the action `Lapse`; an entry is never due, armed or past.
A store over budget evicts until it is within it or has nothing left: with a
negative budget, which `NewGroup` accepts, it ends up empty.

A `ShardedCache` is an array of caches and a fixed hash that picks one for each
key, so its shards never meet: `Store` is one of them, with the budget that
`StoreConfig` computes, and `StoresWithinBudget` multiplies by their number. The
division is where the budget is lost: a group with fewer bytes than shards, and
also a group without a limit (`cacheBytes` 0), gets shards of one byte, which hold
nothing.

### FilterGate and BloomFilter

A task is a call of `Warmup` or a refresh loop. The filter is the set of the
positions of the Bloom filter that are set; the positions of a key come from two
hash functions by double hashing in 32 bits (`Word`, narrowed in the run so that
the sum wraps around). `overlap` is history: it
is true from the moment two rebuilds overlap until one task resets the filter
with no other under way. `RecordedKeysPass` holds outside such overlaps; the run
`filter_gate_race` shows how it fails within one. The order in which `warmup`
loads its keys is left open.

### ConsistentHash

The positions of the replicas are arbitrary (`Placement`), so a run covers all
ways in which they may interleave and collide. `Get` is an operator on the list
and the map; the properties apply it to every position. `NearestMember` holds
with collisions and repeated additions as long as nothing is removed, and with
`Remove` as long as nothing collides. Where two replicas collide, the node that
was added last gets the position: `HTTPPool`s that were given the same peers in
different orders (the demo server takes them from a map) may then disagree.
Outside these premises `Remove` leaves positions in the list that the map gives to
nobody: when a node is added twice and removed, or shared a position with another
one, `Get` finds no owner for some keys although the ring has members. `TypeOK`
therefore states the converse only, that a position of the map is in the list.

### Cluster

One key on several nodes. `pool[n]` is the set of peers that `HTTPPool` of node
`n` was given, and `Owner` the nearest of them, which is what `ConsistentHash`
shows `Get` to return. A request is a call of a client, or the `Get` that the
load of a node makes at a peer; the latter bears the name of the node that sent
it. Within a node the model follows `Group`, without the parts that do not meet
the network (stale cache, incrementer, filter).

* `Get` at a node: `GetHit`/`GetMiss`, `LoadJoin`/`LoadStart`, `WaitReturns`,
  `WaitTimeout` and `Degrade`.
* the load of a node: phase `call` while a peer is asked (`Arrives`, then the peer
  serves the request as it serves a client, then `PeerReturns`; or `PeerFails`),
  phase `read` in the getter (`GetterReturns`), phase `store` (`LoadReturns`).
* `Increment`: `IncrementHere`, or `IncrementForwarded`, `IncrementServed`,
  `IncrementReturns`; `IncrementFails` loses the call or its answer.
* `Invalidate`: the local removal, one `InvalidatePeer` or `InvalidateMisses` for
  each peer, in any order (the code ranges over a map), `InvalidateReturns`.
* environment: `RegisterPeers` (the demo server serves its API before it
  registers peers), `SetPeers`, `Evict`, `BackendWrite`, `Tick`.

`NextTTL` is the set of the ttls that the jitter of `nextTTL` may give, each at
least one tick. Time passes at any moment (`Tick` has no guard), while a call is
on its way too, and the code does not limit that: the client of the peers has no
timeout and a load does not see its caller's cancellation. No bound on the
age of a copy exists then, and `CopiesInTime` says what remains true: `lapse[v]` is history,
the ticks since the backend held version `v` without those that passed while a
value of `v` was under way (`UnderWay`: read, and not yet stored or delivered),
and a copy is at most two of the longest ttls old in this count, one at the owner
and one at the node that asked it, jitter included.

`inv[p].calm` says that no load overlapped an invalidation before it reached the
owner. `InvalidateForcesReload` needs all of it. If it only said that no load was
running when the invalidation began, the property would fail, because `Invalidate`
removes the key at its node before it tells the owner: a `Get` in between fetches
the owner's old value and caches it again. Without any such premise it fails
already on one node, by the race of `group_write_race`.

`EveryLoadEnds` leaves out unbounded waits on different rings: two nodes that take
each other for the owner then wait for each other for ever, because the request that
comes back joins the load that has sent it.

The properties name what they need of the cluster. `OneRing`: the nodes that have
registered peers have the same ones. `Settled`: all of them have, from the start.
`Smooth`: moreover no call is lost, no getter fails and no wait is cut short.
`Uncounted`: nobody counts in the caches, so that the versions are those of the
backend.

### Metrics

All updates are single atomic instructions, and which of them a request makes
depends on nothing but its own way through the code. So a thread is the sequence
of the operations it has still to do, and a function of the code the set of its
ways: `APIGet`, `ServePeer`, `Load`, `Tick` and so on. The operations of all
threads interleave. A window holds 2 samples where the code has 8192, and the
percentiles are the 50th and the 90th, which differ in so small a window; the
ceiling of the code's floating-point product was compared with the exact one for
every window size up to 8192 and both percentiles, without a difference.

The field order of `Snapshot` matters: `GroupGets` is read before `CacheHits`, so
a snapshot may show more hits than gets, but misses nothing that was over
(`SnapshotCoversFinished`). In the opposite order it would be the other way
round. `CountersAgree` is about the counters themselves. The rates and averages
that `/debug/stats` and the logger publish are computed from a snapshot, which is
not the "point-in-time copy" its comment (`stats.go:145`) promises: TLC finds one
with more hits than gets, whose hit rate is above 100 percent.

### DemoServer

The processes of a cluster start, seed Redis, serve and stop. Redis is a map that
survives them. The getter is two commands (`DemoGet`, `DemoSet`), the incrementer
one (`RedisIncr`); each may fail, an increment also after it was applied.

## Runs

| Run | Result | What it shows |
|---|---|---|
| `singleflight` | pass | `OneFlight`, `NoLostCaller`, refinement of `SharedLoad`; every request is served unless a panic in `Do` has wedged its key; every call ends |
| `singleflight_panic` | violation | a panic in `Do` wedges its key |
| `group` | pass | in four scenarios: `MonotonicReads` with failures, evictions, invalidations and timeouts; `FallbackOutlivesActive` and `ServedInTime` over time; `NewestIncrementCached` for durable increments; `CounterGrows` for both kinds of counters |
| `group_live` | pass | every request returns, although the getter may hang where the wait is bounded |
| `group_write_race` | violation | a load stores over what was incremented or invalidated meanwhile |
| `stores` | pass | for both stores: refinement of `BoundedCache`, the loops end, `StoresWithinBudget` over all shards; `NewestGoesLast` for LRU; `ProtectedShare`, `ScanResistant` for SLRU |
| `filter_gate` | pass | `RecordedKeysPass` unless rebuilds overlap, `OneLoopLasts`, `RefreshRecovers` |
| `filter_gate_race` | violation | an overlapping warm-up publishes an empty filter |
| `ring` | pass | `NearestMember` and `MinimalMovement` for every placement of the replicas |
| `cluster` | pass | in six scenarios: `OwnerFetches`, `MonotonicReads` with values and absences; `CopiesInTime` with jitter, slow calls, late registration, lost calls and abandoned loads; `CounterGrows` with lost answers; `InvalidateForcesReload` with peers that are not reached; `EveryLoadEnds` with rings that send a load in a circle |
| `metrics` | pass | `CountersAgree`, `SnapshotCoversFinished`, `SampledShare`, `LoggedPercentilesOrdered`, `NearestRank` |
| `demo_server` | violation | a process that starts later takes back increments |

The violations are disagreements between the code and what its tests or comments
say; `PROJECT.json` quotes the lines under "findings". `group_write_race` has three
scenarios of one pattern: a load stores what it read at its beginning, whatever
has happened to the key since, an increment in the backend, an increment in the
cache or an invalidation. Each of them violates the property by itself. So does
each of three causes in `DemoServer`: a start that seeds, which is the trace that
`demo_server` shows, a `GET` of the getter that fails (with `Seeds` empty and `fail`
in `Faults`), and an increment between the `GET` and the `SET` of the getter (with
`nil` in `Faults`).

### Bounds

* `singleflight`: three requests are a leader, one that joins while the function
  runs and one that joins in the window of `completeCall`; two calls let one
  deliver while the next one runs. One key: the theorems cover the others.
* `Group`: a run covers a set of scenarios (`Scenario`, defined in `MCGroup`), each
  a configuration of the group together with the operations and faults that its
  question is about. Two or three requests (`Width`); `MaxVer` bounds the changes
  of the value (an old, a current and a newer one are enough to go back);
  `MaxLoad` bounds the ticks between a load's read and its store, without which no
  bound on the age of a cached value exists. The ttl, its jitter and the stale
  window are one tick each: jitter as large as the ttl makes the clamp of
  `nextTTL` matter. A property that does not apply to a configuration says so in
  its premise.
* `Store`: budgets that hold a few of the small entries and not all of the large
  ones, values of several sizes (one of which does not fit at all), with
  expiration, divided among shards. The protected share is a fraction that does
  not divide the budget, and one value fits the budget but not the share.
* `FilterGate`: one key (other keys can only set more positions), two users and two
  loops, of which one may be about to end while the other one starts.
* `ConsistentHash`: every placement of the replicas on a small ring, so that every
  order of them and every collision occurs; `MaxKeys` lets a node be added twice.
* `Cluster`: three nodes at most, since a key has one owner, one node that has a
  copy and one that may fail in between; two clients; scenarios as for `Group`,
  each with the faults that its question is about. `EveryLoadEnds` follows the
  loads of one node (`Followed`). The ttls are one tick, the jitter one tick where
  there is any, so that the clamp of `nextTTL` matters and every ttl is
  drawn; nothing bounds the time that a call is under way. Copies reach the bound
  of `CopiesInTime` and do not pass it.
* `Metrics`: two requests beside one load, the logger, a reader and a switch.
  Requests take every path of the code once in the scenario about the counters,
  and short ones several times in those about snapshots, sampling (three rates,
  one of which is not a fraction 1/n) and the logger. `Calls` bounds them.

### Fairness

Weak fairness on the steps of a goroutine that can run: Go's scheduler is
preemptive and fair to runnable goroutines. Strong fairness on
`LoopEnds`, because a `select` chooses among ready cases at random, and on
`IncrementLocks`, because `sync.Mutex` hands itself to a waiter that has starved
for a millisecond. Timers and tickers fire. The user's incrementer is assumed to
answer, because the code waits for it without a bound, and so is the getter, but
only where the code does the same (no wait ttl). In
`Cluster` a call to a peer arrives and is answered, or fails; the code sets no
limit to that time, except for an `Invalidate`. No fairness is assumed of
clients, the backend's other writers, eviction, the clock or the janitor.

## Proofs

Each theorem states a property of a run for every value of the constants: any
sets of requests, nodes, keys and values, any configuration, and, where the model
has them, any set of scenarios with any bounds. The constants are assumed to be
what their declarations say; `None` is assumed to be none of the records and
members it stands beside. `Metrics` assumes moreover that the goroutines of one
role are not those of another, that those which count are finitely many, and that
the durations of a scenario have a longest one: a duration is an `int64`.

| Module | Theorems |
|---|---|
| `SingleflightProofs` | `TypeCorrect`; `Coalescing` (`OneFlight`); `NoCallerLost` (`NoLostCaller`); `Refinement` (`SharedLoadSpec`) |
| `GroupProofs` | `TypeCorrect`; `ReadsDoNotGoBack` (`MonotonicReads`); `FallbackIsThere` (`FallbackOutlivesActive`); `CachesKeepNewest` (`NewestIncrementCached`); `NumbersGrow` (`CounterGrows`); `ServedIsInTime` (`ServedInTime`) |
| `StoreProofs` | `TypeCorrect`; `BudgetKept` (`StoresWithinBudget`); `ShareKept` (`ProtectedShare`); `NewestIsLast` (`NewestGoesLast`); `ScansResisted` (`ScanResistant`); `Refinement` (`BoundedCacheSpec`, for both policies) |
| `FilterGateProofs` | `TypeCorrect`; `LoopsAreStopped` (`OneLoopLasts`); `RecordedKeys` (`RecordedKeysPass`) |
| `ClusterProofs` | `TypeCorrect`; `OnlyOwnerFetches` (`OwnerFetches`); `ReadsDoNotGoBack` (`MonotonicReads`); `CopiesAreInTime` (`CopiesInTime`); `NumbersGrow` (`CounterGrows`); `ReloadIsForced` (`InvalidateForcesReload`) |
| `ConsistentHashProofs` | `TypeCorrect`; `OwnerIsNearest` (`NearestMember`); `KeysStay` (`MinimalMovement`) |
| `MetricsProofs` | `TypeCorrect`; `CountersConsistent` (`CountersAgree`); `SnapshotsCover` (`SnapshotCoversFinished`); `SharesKept` (`SampledShare`); `LogLinesOrdered` (`LoggedPercentilesOrdered`); `PercentilesNearest` (`NearestRank`) |

Hardly any of these properties is inductive. Each module defines an inductive
invariant `IInv`, proves `Init => IInv` and `IInv /\ [Next]_vars => IInv'` action by
action, and reads the properties off it. What the invariants say:

* `Singleflight`. That two registered calls have different keys needs that a
  registered call is the one its key's map entry points to (`MapInv`), and that in
  turn that a call is not reused while anything refers to it (`RefInv`). That no
  request is lost needs that a channel is in the list of the call its request
  refers to, in no other, and empty (`ChanInv`).
* `Group`. Where requests and the load are decides what they may hold
  (`StageInv`), who has the lock (`LockInv`) and what a ttl may be (`TtlInv`). Each
  property has its own part on top. Reads do not go back because whatever is on
  its way, in the cache, the load, the answer or a reply, is as new as anything that
  has been told (`ReadInv`), which rests on the loads of a key being one at a time.
  The stale copy outlives the active entry because the only moment at which it
  does not is between the two stores of a load, and then the active entry is that
  load's (`FallbackInv`). An increment keeps the newest number in its hands until
  it has stored it, under the lock (`NewestInv`, `NumberInv`). A value's age and
  what remains of its ttl add up to a constant (`TimeInv`).
* `Store`. Each list holds its entries once and its counter is the sum of their
  bytes; what a method has done so far is an invariant of its own (`LMethod`,
  `SMethod`), since in the middle of a method the store may be over its budget or
  an entry in no segment. The refinement follows action by action. Sums and lists
  are defined recursively (`MapThenSumSet`, `FoldLeft`); their laws are proved in
  `DataLemmas` and `StoreProofs` from the least counterexample: the sizes at which a law fails are a
  set of natural numbers, and a least one contradicts the recursion.
* `FilterGate`. A loop that runs and is not the latest has its channel closed or
  about to be (`LoopInv`); rebuilds that do not overlap are alone (`AloneInv`), and
  the filter holds what the rebuild in progress has added (`RebuildInv`). Two lemmas
  about `BloomFilter` carry this: an added key is contained, and additions keep
  what is contained, whatever the hash functions are and wherever 32 bits wrap.
* `Cluster`. Which step may bring a result to which place (a cache, a load, an
  answer, a request) is proved once for all actions, as `AskFlow`, `DataFlow`,
  `InvFlow` and `ReadFlow`; the invariants follow from these. In a settled cluster
  everybody asks the same node, which asks nobody (`RingInv`).
  What a node has told is behind everything it may still tell and, since the next
  value may come from there, behind all that the owner may tell it (`ReadInv`). An
  Invalidate splits at the moment it reaches the owner: before it there is no load
  anywhere, and after it nothing older than the call is on its way (`ReloadInv`).
  The age of what a cache holds and the rest of its ttl add up to at most one
  longest ttl at the owner, which asks nobody, and two elsewhere; what is under way is
  no older than its source was and does not age in this count (`TimeInv`).
* `ConsistentHash`. The positions in the list are those of the members, and the map
  gives each of them to a member that has it (`RingInv`). Without collisions a
  position is in the list as often as its member has it (`CountInv`), which is why
  `Remove`, which takes out one entry for each replica, leaves none behind. That
  the list is sorted is proved of `Sorted` in `DataLemmas`: the ranks of the
  elements are a permutation of the places.
* `Metrics`. A thread is the rest of a sequence, so the invariant says of every rest
  which operation never comes behind which (`Ordered`), that the operations of a
  latency record stay together (`Blocks`) and what is pending while something else
  is (`NeedInv`, `ReadInv`, `LogInv`): all of this holds of each path through the
  code and is kept when operations are dropped from the front. On top of it, what
  is missing between two counters is the number of threads that have done the first
  operation and still owe the second (`Balance`), the durations counted but not
  added are at most the longest ones (`SumInv`), one of every `every` observations
  is taken or about to be (`SampleInv`), and a snapshot lacks what the fields that
  are still to be read will supply (`SnapInv`). The logger may be between its two
  stores, and only then the published pair is not ordered (`LoggedInv`).

Before it was proved, each `IInv` was checked by TLC as an invariant of the
scenarios of its run. The premises of the properties are met in the runs: the
mutants show it, and `MCCluster`, `MCGroup` and `MCStore` have scenarios in which
each of them holds.

The proofs found what the runs had not. `ServedInTime` needed its premise about
increments; `BoundedCache` did not allow for a negative budget; `MonotonicReads`
and `InvalidateForcesReload` of `Cluster` silently relied on scenarios without
increments, and on nodes that all had peers.

Out of the prover's reach and left to TLC:

* liveness under fairness: that calls, requests, loads, the loops of the stores
  and the rebuilds of the filter end (`EveryCallEnds`, `EveryLoadEnds` and the like);
* the violations: `singleflight_panic`, `group_write_race`, `filter_gate_race` and
  `demo_server` are traces of the code, and there is nothing to prove.

No module declares a `RECURSIVE` operator.

## Plan

The system is modelled as far as planned. Every invariant and every action property
of the passing runs is proved, and so are both refinements; the liveness properties
are model-checked. What a next step could add:

1. `Janitor.Stop` and the registry of groups, which are small and have little state.
2. The composition of `ConsistentHash` with `Cluster`: `Cluster` takes the owner of
   a key from `OwnerIsNearest`, which holds of the code's list as long as nothing
   collides.

## Not modelled

* Generated protocol buffers, marshalling, logging, command-line flags and address
  parsing, Kubernetes manifests, benchmarks and performance tools.
* `Janitor.Stop`, which looks at its channel and then closes it, so that two
  concurrent calls may both close it. The registry of groups, a map under a mutex.
* Keys that share a stripe of the increment locks: they only wait longer.
* The wrap-around of `int64` counters, and eviction callbacks that re-enter the group
  while its cache is locked, which would block for ever. Negative byte budgets are
  covered by the theorems about `Store`, but not by its run.
* The synthetic backend of the demo server, which is a constant, and unknown
  backends, which find nothing.
* A refresh of the filter also drops keys that loads have added since the warm-up;
  the repository describes this, and the properties are stated for warm-up keys.
