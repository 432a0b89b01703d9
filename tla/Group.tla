------------------------------- MODULE Group --------------------------------
(***************************************************************************)
(* groupcache.go: one key of one Group on one node, without peers and      *)
(* without a filter (peers and filter are nil), with cache.go and          *)
(* groupcache_maintenance.go as far as they concern that key.              *)
(*                                                                         *)
(* A request is one call of Get, Increment or Invalidate.  Everything the  *)
(* code does under a cache lock is one step; everything else interleaves.  *)
(* The loader is SharedLoad, the abstraction that Singleflight is proved   *)
(* to implement.  The getter and the incrementer work on a backend whose   *)
(* value for the key carries the number of times it has changed: the       *)
(* number is the value itself for a counter, and it dates the value when   *)
(* properties compare what two requests were told.                         *)
(*                                                                         *)
(* Time passes in ticks, the unit of the clock.  An entry stores how many  *)
(* ticks it has left, so the state space stays finite without a bound on   *)
(* time.                                                                   *)
(***************************************************************************)
EXTENDS Integers, FiniteSets

CONSTANTS Caller,     \* requests
          K,          \* the key
          None,       \* nil
          Scenario    \* the scenarios a run covers

Operation == {"Get", "Increment", "Invalidate"}
ValueKind == {"number", "text", "absent"}
Fault == {"write", "fail", "cancel", "evict", "time"}

\* A scenario is a configuration of the group, what its clients and its
\* environment do, and the bounds of the model.
ASSUME ScenarioAssumption ==
  Scenario \subseteq
    [TTL         : Nat,              \* cacheTTL in ticks, 0: no expiration
     Jitter      : Nat,              \* cacheTTLJitter
     StaleTTL    : Nat,              \* staleTTL, 0: no stale serving
     NegTTL      : Nat,              \* negativeTTL, 0: no negative caching
     WaitBounded : BOOLEAN,          \* singleflightWaitTTL > 0
     Durable     : BOOLEAN,          \* an incrementer is installed
     Ops         : SUBSET Operation, \* what the clients call
     Kinds       : SUBSET ValueKind, \* what the backend may hold for the key
     Faults      : SUBSET Fault,     \* what the environment may do
     Watch       : SUBSET {"read", "inc", "inv"},  \* promises followed up
     Width       : Nat,              \* bound on the requests in progress
     MaxVer      : Nat \ {0},        \* bound on the changes of the value
     MaxLoad     : Nat]              \* bound on the ticks a load takes to store

VARIABLES conf,      \* the scenario, fixed from the start
          db,        \* the backend: [kind, ver]
          active,    \* the key's entry in mainCache: [kind, ver, rem] or None
          stale,     \* the key's entry in staleCache
          pc,        \* pc[p]: where request p is
          lock,      \* the owner of the key's stripe of incrementLocks
          held,      \* held[p]: the value and ttl an Increment has in hand
          phase,     \* where the running load is
          load,      \* what it has in hand: [kind, ver, ttl, age]
          flight, answer, want, reply, got,   \* see SharedLoad
          seen,      \* freshest version promised to clients, by kind of promise
          mark,      \* mark[p]: seen as it was when p began
          lapse      \* lapse[v]: ticks since the backend held version v

loaderVars == <<flight, answer, want, reply>>
cacheVars == <<active, stale>>
loadVars == <<phase, load>>
state == <<db, active, stale, pc, lock, held, phase, load, flight, answer,
           want, reply, got, seen, mark, lapse>>
vars == <<conf, state>>

TTL == conf.TTL
Jitter == conf.Jitter
StaleTTL == conf.StaleTTL
NegTTL == conf.NegTTL
WaitBounded == conf.WaitBounded
Durable == conf.Durable
Ops == conf.Ops
Kinds == conf.Kinds
Faults == conf.Faults
Watch == conf.Watch
MaxVer == conf.MaxVer
MaxLoad == conf.MaxLoad

Ver == 0 .. MaxVer
Later(a, b) == IF a >= b THEN a ELSE b
MaxTTL == Later(1, TTL + Jitter)

\* Longer than any ttl: the rest of an entry whose expireAt is zero.
Forever == MaxTTL + StaleTTL + NegTTL + 1
Expired == -1
Entry == [kind : ValueKind, ver : Ver, rem : Expired .. Forever]
Answer == [kind : ValueKind \cup {"error"}, ver : Nat]

\* nil is neither a key, nor a request, nor anything that is cached or loaded.
ASSUME NoneAssumption ==
  /\ None \notin Caller \cup {K}
  /\ None \notin Answer
  /\ None \notin [kind : ValueKind, ver : Nat, rem : Int]
  /\ None \notin [ver : Nat, ttl : Nat]
  /\ None \notin [kind : ValueKind \cup {"error"}, ver : Nat, ttl : Nat, age : Nat]

\* How long after the backend moved on a cache may still serve its answer.
MaxAge == MaxLoad + Later(MaxTTL + StaleTTL, NegTTL)
Horizon == MaxAge + 1

Loader == INSTANCE SharedLoad WITH Key <- {K}, Result <- Answer

CallerState ==
  {"idle", "missed", "wait", "degrade", "fallback", "done", "timeout",
   "canceled", "incWait", "incApply", "incStore", "incStale", "incDone",
   "incFailed", "invStale", "invDone"}

Promise == [read : Ver, inc : Ver, inv : Ver]

\* The types of the variables.  Among other things an error of the getter is
\* never in a cache: an entry is a value or a recorded ErrNotFound.
TypeOK ==
  /\ conf \in Scenario
  /\ db \in [kind : ValueKind, ver : Ver]
  /\ active \in Entry \cup {None}
  /\ stale \in Entry \cup {None}
  /\ pc \in [Caller -> CallerState]
  /\ lock \in Caller \cup {None}
  /\ held \in [Caller -> [ver : Ver, ttl : 0 .. MaxTTL] \cup {None}]
  /\ phase \in {"none", "read", "store", "stale", "done"}
  /\ load \in [kind : ValueKind \cup {"error"}, ver : Ver,
               ttl : 0 .. MaxTTL, age : 0 .. MaxLoad] \cup {None}
  /\ flight \in [{K} -> {"none", "running", "finished"}]
  /\ answer \in [{K} -> Answer \cup {None}]
  /\ want \in [Caller -> {K, None}]
  /\ reply \in [Caller -> Answer \cup {None}]
  /\ got \in [Caller -> Answer \cup {None}]
  /\ seen \in Promise
  /\ mark \in [Caller -> Promise]
  /\ lapse \in [Ver -> 0 .. Horizon]

Init ==
  /\ conf \in Scenario
  /\ db \in [kind : Kinds, ver : {1}]
  /\ active = None
  /\ stale = None
  /\ pc = [p \in Caller |-> "idle"]
  /\ lock = None
  /\ held = [p \in Caller |-> None]
  /\ phase = "none"
  /\ load = None
  /\ Loader!Init
  /\ seen = [read |-> 0, inc |-> 0, inv |-> 0]
  /\ mark = [p \in Caller |-> seen]
  /\ lapse = [v \in Ver |-> 0]

-----------------------------------------------------------------------------
\* Mutant of Live: the expiration is left to the janitor.
LiveUntilSwept(e) == e # None

\* time.Now().After(expireAt) is false: the entry may be served.
Live(e) == e # None /\ e.rem # Expired

\* store.Get and RemoveExpired drop an entry that has expired.
Kept(e) == IF Live(e) THEN e ELSE None

\* AddWithTTL: a ttl of 0 stores an entry that never expires.
NewEntry(kind, ver, ttl) ==
  [kind |-> kind, ver |-> ver, rem |-> IF ttl > 0 THEN ttl ELSE Forever]

\* nextTTL: the base ttl with jitter, never below one unit of the clock.
NextTTL ==
  IF TTL = 0 THEN {0} ELSE {Later(1, TTL + d) : d \in -Jitter .. Jitter}

\* staleCache is configured and the value has an active ttl.
KeepsStale(ttl) == StaleTTL > 0 /\ ttl > 0

\* Mutant of RecordStale: staleTTL counts from the store, not from the expiry.
RecordStaleFromStore(kind, ver, ttl) ==
  stale' = IF KeepsStale(ttl) THEN NewEntry(kind, ver, StaleTTL) ELSE stale

\* recordStale: the copy outlives the active entry by staleTTL.
RecordStale(kind, ver, ttl) ==
  stale' = IF KeepsStale(ttl) THEN NewEntry(kind, ver, ttl + StaleTTL) ELSE stale

\* What a cached entry is to a client: a value or ErrNotFound.
Served(e) == [kind |-> e.kind, ver |-> e.ver]

\* The result is a statement about the backend that later ones must respect.
\* Without negative caching a not-found result is not recorded anywhere, and
\* an entry that a concurrent load has stored stays.
Dated(r) == r.kind \in {"number", "text"} \/ (r.kind = "absent" /\ NegTTL > 0)

\* Clients have been promised version v, by a promise of the given kind.
Promised(kind, v) ==
  seen' = IF kind \in Watch THEN [seen EXCEPT ![kind] = Later(@, v)] ELSE seen

\* Request p, a Get, is told r.
Told(p, r) ==
  /\ got' = [got EXCEPT ![p] = r]
  /\ IF Dated(r) THEN Promised("read", r.ver) ELSE UNCHANGED seen

\* Request p goes on at s.
Goto(p, s) == pc' = [pc EXCEPT ![p] = s]

\* Request p can begin.
Free(p) ==
  /\ pc[p] = "idle"
  /\ Cardinality({q \in Caller : pc[q] # "idle"}) < conf.Width

\* Request p begins: what has been promised so far must hold for it.
Begin(p) == Free(p) /\ mark' = [mark EXCEPT ![p] = seen]

-----------------------------------------------------------------------------
(* Get, load, waitForLoad and degradeAfterWaitTimeout. *)

\* Get finds a live entry in the active cache.
GetHit(p) ==
  /\ "Get" \in Ops
  /\ Begin(p)
  /\ Live(active)
  /\ Told(p, Served(active))
  /\ Goto(p, "done")
  /\ UNCHANGED <<db, active, stale, lock, held, loadVars, loaderVars, lapse>>

\* Get finds nothing, or an expired entry, which the lookup removes.
GetMiss(p) ==
  /\ "Get" \in Ops
  /\ Begin(p)
  /\ ~Live(active)
  /\ active' = None
  /\ Goto(p, "missed")
  /\ UNCHANGED <<db, stale, lock, held, loadVars, loaderVars, got, seen, lapse>>

\* load: the context of the request is already done.
LoadCanceled(p) ==
  /\ "cancel" \in Faults
  /\ pc[p] = "missed"
  /\ Goto(p, "canceled")
  /\ UNCHANGED <<db, cacheVars, lock, held, loadVars, loaderVars, got, seen,
                 mark, lapse>>

\* load: the request starts a load; its context will not cancel it.
LoadStart(p) ==
  /\ pc[p] = "missed"
  /\ Loader!Start(p, K)
  /\ phase' = "read"
  /\ Goto(p, "wait")
  /\ UNCHANGED <<db, cacheVars, lock, held, load, seen, mark, lapse>>

\* load: the request joins the load that is under way.
LoadJoin(p) ==
  /\ pc[p] = "missed"
  /\ Loader!Join(p, K)
  /\ Goto(p, "wait")
  /\ UNCHANGED <<db, cacheVars, lock, held, loadVars, seen, mark, lapse>>

\* The result of the load reaches the request, from Do or over its channel.
WaitReturns(p) ==
  /\ pc[p] = "wait"
  /\ Loader!Return(p)
  /\ Told(p, reply[p])
  /\ Goto(p, "done")
  /\ UNCHANGED <<db, cacheVars, lock, held, loadVars, mark, lapse>>

\* waitForLoad: the context of the request ends first.
WaitCanceled(p) ==
  /\ "cancel" \in Faults
  /\ WaitBounded
  /\ pc[p] = "wait"
  /\ Loader!Abandon(p)
  /\ Goto(p, "canceled")
  /\ UNCHANGED <<db, cacheVars, lock, held, loadVars, seen, mark, lapse>>

\* Mutant of WaitTimeout: the timer is heeded only if there is a fallback.
WaitTimeoutWithFallback(p) ==
  /\ WaitBounded
  /\ pc[p] = "wait"
  /\ Live(stale)
  /\ Loader!Abandon(p)
  /\ Goto(p, "degrade")
  /\ UNCHANGED <<db, cacheVars, lock, held, loadVars, seen, mark, lapse>>

\* waitForLoad: the timer fires first.
WaitTimeout(p) ==
  /\ WaitBounded
  /\ pc[p] = "wait"
  /\ Loader!Abandon(p)
  /\ Goto(p, "degrade")
  /\ UNCHANGED <<db, cacheVars, lock, held, loadVars, seen, mark, lapse>>

\* degradeFromCaches: the active cache is asked once more.
DegradeActive(p) ==
  /\ pc[p] = "degrade"
  /\ active' = Kept(active)
  /\ IF Live(active)
     THEN Told(p, Served(active)) /\ Goto(p, "done")
     ELSE Goto(p, "fallback") /\ UNCHANGED <<got, seen>>
  /\ UNCHANGED <<db, stale, lock, held, loadVars, loaderVars, mark, lapse>>

\* degradeFromCaches: getStale is the last resort before the timeout error.
DegradeStale(p) ==
  /\ pc[p] = "fallback"
  /\ stale' = Kept(stale)
  /\ IF Live(stale)
     THEN Told(p, Served(stale)) /\ Goto(p, "done")
     ELSE Goto(p, "timeout") /\ UNCHANGED <<got, seen>>
  /\ UNCHANGED <<db, active, lock, held, loadVars, loaderVars, mark, lapse>>

-----------------------------------------------------------------------------
(* getLocally and cacheNegative, run by the loader for all who wait. *)

\* getter.Get reads the backend.
GetterReturns ==
  /\ phase = "read"
  /\ phase' = "store"
  /\ load' = [kind |-> db.kind, ver |-> db.ver, ttl |-> 0, age |-> 0]
  /\ UNCHANGED <<db, cacheVars, pc, lock, held, loaderVars, got, seen, mark, lapse>>

\* Mutant of GetterFails: the error return is missing.
GetterFailsStored ==
  /\ "fail" \in Faults
  /\ phase = "read"
  /\ phase' = "store"
  /\ load' = [kind |-> "error", ver |-> 0, ttl |-> 0, age |-> 0]
  /\ UNCHANGED <<db, cacheVars, pc, lock, held, loaderVars, got, seen, mark, lapse>>

\* getter.Get fails with an error other than ErrNotFound: nothing is cached.
GetterFails ==
  /\ "fail" \in Faults
  /\ phase = "read"
  /\ phase' = "done"
  /\ load' = [kind |-> "error", ver |-> 0, ttl |-> 0, age |-> 0]
  /\ UNCHANGED <<db, cacheVars, pc, lock, held, loaderVars, got, seen, mark, lapse>>

\* The value is added to the active cache, whatever is in it by now.
StoreValue ==
  /\ phase = "store"
  /\ load.kind # "absent"
  /\ \E ttl \in NextTTL :
       /\ active' = NewEntry(load.kind, load.ver, ttl)
       /\ load' = [load EXCEPT !.ttl = ttl]
  /\ phase' = "stale"
  /\ UNCHANGED <<db, stale, pc, lock, held, loaderVars, got, seen, mark, lapse>>

\* Mutant of StoreNegative: a not-found result does not replace an entry.
StoreNegativeIfAbsent ==
  /\ phase = "store"
  /\ load.kind = "absent"
  /\ active' = IF NegTTL > 0 /\ ~Live(active)
               THEN NewEntry("absent", load.ver, NegTTL) ELSE active
  /\ phase' = "done"
  /\ UNCHANGED <<db, stale, pc, lock, held, load, loaderVars, got, seen, mark, lapse>>

\* ErrNotFound is cached for negativeTTL, if negative caching is on.
StoreNegative ==
  /\ phase = "store"
  /\ load.kind = "absent"
  /\ active' = IF NegTTL > 0 THEN NewEntry("absent", load.ver, NegTTL) ELSE active
  /\ phase' = "done"
  /\ UNCHANGED <<db, stale, pc, lock, held, load, loaderVars, got, seen, mark, lapse>>

\* The value is recorded for the time after the active entry has expired.
StoreStale ==
  /\ phase = "stale"
  /\ RecordStale(load.kind, load.ver, load.ttl)
  /\ phase' = "done"
  /\ UNCHANGED <<db, active, pc, lock, held, load, loaderVars, got, seen, mark, lapse>>

\* The load function returns to the loader, which answers everyone.
LoadReturns ==
  /\ phase = "done"
  /\ Loader!Finish(K, [kind |-> load.kind, ver |-> load.ver])
  /\ phase' = "none"
  /\ load' = None
  /\ UNCHANGED <<db, cacheVars, pc, lock, held, seen, mark, lapse>>

\* The loader forgets the load.
LoadRetired ==
  /\ Loader!Retire(K)
  /\ UNCHANGED <<db, cacheVars, pc, lock, held, loadVars, seen, mark, lapse>>

-----------------------------------------------------------------------------
(* Increment and incrementLocally. *)

\* The context is done before anything happens.
IncrementCanceled(p) ==
  /\ "cancel" \in Faults
  /\ "Increment" \in Ops
  /\ Begin(p)
  /\ Goto(p, "incFailed")
  /\ UNCHANGED <<db, cacheVars, lock, held, loadVars, loaderVars, got, seen, lapse>>

\* The number a cache-only Increment starts from.
Current == IF Live(active) /\ active.kind # "absent" THEN active.ver ELSE 0

\* Mutant of IncrementCached: the lookup and the store are two critical
\* sections, so that a number may be handed out twice.
IncrementCachedTorn(p) ==
  /\ "Increment" \in Ops
  /\ ~Durable
  /\ Begin(p)
  /\ ~(Live(active) /\ active.kind = "text")
  /\ \E n \in {Current, Later(0, Current - 1)}, ttl \in NextTTL :
       /\ n < MaxVer
       /\ active' = NewEntry("number", n + 1, ttl)
       /\ held' = [held EXCEPT ![p] = [ver |-> n + 1, ttl |-> ttl]]
  /\ Goto(p, "incStale")
  /\ UNCHANGED <<db, stale, lock, loadVars, loaderVars, got, seen, lapse>>

\* No incrementer: cache.increment reads, adds and stores under the cache lock.
IncrementCached(p) ==
  /\ "Increment" \in Ops
  /\ ~Durable
  /\ Begin(p)
  /\ ~(Live(active) /\ active.kind = "text")
  /\ Current < MaxVer
  /\ \E ttl \in NextTTL :
       /\ active' = NewEntry("number", Current + 1, ttl)
       /\ held' = [held EXCEPT ![p] = [ver |-> Current + 1, ttl |-> ttl]]
  /\ Goto(p, "incStale")
  /\ UNCHANGED <<db, stale, lock, loadVars, loaderVars, got, seen, lapse>>

\* No incrementer, and the cached value is not a number.
IncrementNonNumeric(p) ==
  /\ "Increment" \in Ops
  /\ ~Durable
  /\ Begin(p)
  /\ Live(active) /\ active.kind = "text"
  /\ Goto(p, "incFailed")
  /\ UNCHANGED <<db, cacheVars, lock, held, loadVars, loaderVars, got, seen, lapse>>

\* With an incrementer the request first queues for the lock of the key.
IncrementQueues(p) ==
  /\ "Increment" \in Ops
  /\ Durable
  /\ Begin(p)
  /\ Goto(p, "incWait")
  /\ UNCHANGED <<db, cacheVars, lock, held, loadVars, loaderVars, got, seen, lapse>>

\* Mutant of IncrementLocks: the increments of a key are not serialised.
IncrementDoesNotLock(p) ==
  /\ pc[p] = "incWait"
  /\ Goto(p, "incApply")
  /\ UNCHANGED <<db, cacheVars, lock, held, loadVars, loaderVars, got, seen,
                 mark, lapse>>

\* The lock is granted to one request at a time.
IncrementLocks(p) ==
  /\ pc[p] = "incWait"
  /\ lock = None
  /\ lock' = p
  /\ Goto(p, "incApply")
  /\ UNCHANGED <<db, cacheVars, held, loadVars, loaderVars, got, seen, mark, lapse>>

\* incrementer.Increment adds to the number in the backend.
Applied ==
  /\ db.kind # "text"
  /\ db.ver < MaxVer
  /\ db' = [kind |-> "number", ver |-> db.ver + 1]

IncrementApplies(p) ==
  /\ pc[p] = "incApply"
  /\ Applied
  /\ \E ttl \in NextTTL :
       held' = [held EXCEPT ![p] = [ver |-> db.ver + 1, ttl |-> ttl]]
  /\ Goto(p, "incStore")
  /\ UNCHANGED <<cacheVars, lock, loadVars, loaderVars, got, seen, mark, lapse>>

\* incrementer.Increment fails, or its answer is lost after it was applied;
\* the deferred unlock runs.
IncrementFails(p) ==
  /\ pc[p] = "incApply"
  /\ \/ db.kind = "text" /\ UNCHANGED db
     \/ "fail" \in Faults /\ (UNCHANGED db \/ Applied)
  /\ lock' = None
  /\ Goto(p, "incFailed")
  /\ UNCHANGED <<cacheVars, held, loadVars, loaderVars, got, seen, mark, lapse>>

\* The new number is added to the active cache.
IncrementStores(p) ==
  /\ pc[p] = "incStore"
  /\ active' = NewEntry("number", held[p].ver, held[p].ttl)
  /\ Goto(p, "incStale")
  /\ UNCHANGED <<db, stale, lock, held, loadVars, loaderVars, got, seen, mark, lapse>>

\* The new number is recorded as stale value; the lock, if one was taken, is
\* released and the number returned.
IncrementReturns(p) ==
  /\ pc[p] = "incStale"
  /\ RecordStale("number", held[p].ver, held[p].ttl)
  /\ lock' = IF Durable THEN None ELSE lock
  /\ held' = [held EXCEPT ![p] = None]
  /\ got' = [got EXCEPT ![p] = [kind |-> "number", ver |-> held[p].ver]]
  /\ Promised("inc", held[p].ver)
  /\ Goto(p, "incDone")
  /\ UNCHANGED <<db, active, loadVars, loaderVars, mark, lapse>>

-----------------------------------------------------------------------------
(* Invalidate. *)

\* invalidateLocal removes the active entry; what the backend holds now is
\* what later requests are entitled to.
InvalidateActive(p) ==
  /\ "Invalidate" \in Ops
  /\ Free(p)
  /\ active' = None
  /\ mark' = [mark EXCEPT ![p] = [seen EXCEPT !.inv = IF "inv" \in Watch THEN db.ver ELSE 0]]
  /\ Goto(p, "invStale")
  /\ UNCHANGED <<db, stale, lock, held, loadVars, loaderVars, got, seen, lapse>>

\* invalidateLocal removes the stale entry, and Invalidate returns.
InvalidateStale(p) ==
  /\ pc[p] = "invStale"
  /\ stale' = None
  /\ Promised("inv", mark[p].inv)
  /\ Goto(p, "invDone")
  /\ UNCHANGED <<db, active, lock, held, loadVars, loaderVars, got, mark, lapse>>

\* The client has looked at the result of its request.
Consume(p) ==
  /\ pc[p] \in {"done", "timeout", "canceled", "incDone", "incFailed", "invDone"}
  /\ Loader!Consume(p)
  /\ mark' = [mark EXCEPT ![p] = [read |-> 0, inc |-> 0, inv |-> 0]]
  /\ Goto(p, "idle")
  /\ UNCHANGED <<db, cacheVars, lock, held, loadVars, seen, lapse>>

-----------------------------------------------------------------------------
(* The janitor, the other keys of the cache, the backend and the clock. *)

\* clearupExpired on the active cache, then on the stale cache.
JanitorActive ==
  /\ active # None /\ ~Live(active)
  /\ active' = Kept(active)
  /\ UNCHANGED <<db, stale, pc, lock, held, loadVars, loaderVars, got, seen,
                 mark, lapse>>

JanitorStale ==
  /\ stale # None /\ ~Live(stale)
  /\ stale' = Kept(stale)
  /\ UNCHANGED <<db, active, pc, lock, held, loadVars, loaderVars, got, seen,
                 mark, lapse>>

\* Another key pushes this one out of a cache.
Evict ==
  /\ "evict" \in Faults
  /\ \/ active # None /\ active' = None /\ UNCHANGED stale
     \/ stale # None /\ stale' = None /\ UNCHANGED active
  /\ UNCHANGED <<db, pc, lock, held, loadVars, loaderVars, got, seen, mark, lapse>>

\* Someone else changes the backend.
BackendWrite ==
  /\ "write" \in Faults
  /\ db.ver < MaxVer
  /\ \E kind \in Kinds : db' = [kind |-> kind, ver |-> db.ver + 1]
  /\ UNCHANGED <<cacheVars, pc, lock, held, loadVars, loaderVars, got, seen,
                 mark, lapse>>

Aged(e) ==
  IF e = None \/ e.rem \in {Expired, Forever} THEN e
  ELSE [e EXCEPT !.rem = @ - 1]

\* One tick of the clock.  A load may take MaxLoad ticks from its read on.
Tick ==
  /\ "time" \in Faults
  /\ load # None => load.age < MaxLoad
  /\ active' = Aged(active)
  /\ stale' = Aged(stale)
  /\ load' = IF load = None THEN None ELSE [load EXCEPT !.age = @ + 1]
  /\ lapse' = [v \in Ver |-> IF v >= db.ver THEN 0
                             ELSE IF lapse[v] < Horizon THEN lapse[v] + 1
                             ELSE Horizon]
  /\ UNCHANGED <<db, pc, lock, held, phase, loaderVars, got, seen, mark>>

-----------------------------------------------------------------------------
GetStep(p) ==
  \/ GetHit(p) \/ GetMiss(p)
  \/ LoadCanceled(p) \/ LoadStart(p) \/ LoadJoin(p)
  \/ WaitReturns(p) \/ WaitCanceled(p) \/ WaitTimeout(p)
  \/ DegradeActive(p) \/ DegradeStale(p)

LoadStep ==
  \/ GetterReturns \/ GetterFails
  \/ StoreValue \/ StoreNegative \/ StoreStale
  \/ LoadReturns \/ LoadRetired

IncrementStep(p) ==
  \/ IncrementCanceled(p) \/ IncrementCached(p) \/ IncrementNonNumeric(p)
  \/ IncrementQueues(p) \/ IncrementLocks(p)
  \/ IncrementApplies(p) \/ IncrementFails(p)
  \/ IncrementStores(p) \/ IncrementReturns(p)

InvalidateStep(p) == InvalidateActive(p) \/ InvalidateStale(p)

Environment == JanitorActive \/ JanitorStale \/ Evict \/ BackendWrite \/ Tick

Next ==
  /\ \/ \E p \in Caller :
          GetStep(p) \/ IncrementStep(p) \/ InvalidateStep(p) \/ Consume(p)
     \/ LoadStep
     \/ Environment
  /\ UNCHANGED conf

Spec == Init /\ [][Next]_vars

\* Goroutines that can run are scheduled, timers fire, a mutex does not starve
\* a goroutine (the starvation mode of sync.Mutex) and the incrementer answers.
\* The getter is trusted to answer only where the code trusts it, that is,
\* where the wait for a load is not bounded.
Fairness ==
  /\ \A p \in Caller :
       /\ WF_state(LoadCanceled(p) \/ LoadStart(p) \/ LoadJoin(p))
       /\ WF_state(WaitReturns(p) \/ WaitCanceled(p) \/ WaitTimeout(p))
       /\ WF_state(DegradeActive(p) \/ DegradeStale(p))
       /\ SF_state(IncrementLocks(p))
       /\ WF_state(IncrementApplies(p) \/ IncrementFails(p))
       /\ WF_state(IncrementStores(p) \/ IncrementReturns(p))
       /\ WF_state(InvalidateStale(p))
  /\ WF_state(StoreValue \/ StoreNegative \/ StoreStale \/ LoadReturns)
  /\ WaitBounded \/ WF_state(GetterReturns \/ GetterFails)

FairSpec == Spec /\ Fairness

-----------------------------------------------------------------------------
\* Reads do not go back: a Get that begins after another Get has returned is
\* never told an older version, through evictions, expirations, invalidations,
\* negative results, timeouts and cancelled requests.  Neither a stale cache
\* nor an Increment is there to tell something else.
MonotonicReads ==
  StaleTTL = 0 /\ "Increment" \notin Ops =>
    \A p \in Caller :
      pc[p] = "done" /\ Dated(got[p]) => got[p].ver >= mark[p].read

\* What a cache serves, a value or a recorded ErrNotFound, was true of the
\* backend at most MaxAge ticks ago, counting the active ttl with its jitter,
\* the stale window and the time the load took to store it.  (The time that an
\* Increment takes from the backend to the cache is not bounded by anything.)
ServedInTime ==
  [][\A p \in Caller :
       /\ TTL > 0 /\ "Increment" \notin Ops
       /\ pc[p] \in {"idle", "degrade", "fallback"}
       /\ got'[p] # None
       => lapse[got'[p].ver] <= MaxAge]_vars

\* "timeout during refresh should serve stale value": outside of a load that is
\* just storing, a live value in the active cache has a copy in the stale
\* cache that outlives it by the whole staleTTL, unless an invalidation or an
\* eviction has taken it.
FallbackOutlivesActive ==
  /\ StaleTTL > 0 /\ TTL > 0
  /\ Ops = {"Get"} /\ "evict" \notin Faults
  /\ Live(active) /\ active.kind # "absent" /\ phase # "stale"
  => /\ stale # None
     /\ stale.ver = active.ver
     /\ stale.rem >= active.rem + StaleTTL

\* The caches keep the newest number: once a durable Increment has returned, no
\* older number is in either cache, however many increments of the key, with
\* failing backends, evictions and invalidations, overlap.  Loads of the key,
\* which are not ordered with its increments, are left out; see ReadYourWrites.
NewestIncrementCached ==
  Durable /\ "Get" \notin Ops =>
    \A e \in {active, stale} : Live(e) => e.ver >= seen.inc

\* "Increment atomically increments the numeric value": an Increment returns
\* more than every Increment that had returned before it began.
Grows(p) == pc[p] = "incDone" => got[p].ver > mark[p].inc

\* This holds where the number is in a durable backend, or in a cache that
\* nothing but increments changes; see also ReadYourWrites.
CounterGrows ==
  \/ Durable
  \/ Ops = {"Increment"} /\ Faults \cap {"evict", "time"} = {}
  => \A p \in Caller : Grows(p)

\* "cache should keep newest increment value" and "invalidate should force
\* reload": a request that begins after an Increment or an Invalidate has
\* returned takes it into account.  A Get is not told what the backend held
\* before, and the next Increment goes on from there.
ReadYourWrites ==
  \A p \in Caller :
    /\ pc[p] = "done" /\ Dated(got[p]) =>
         got[p].ver >= Later(mark[p].inc, mark[p].inv)
    /\ Grows(p)

\* Every request returns, with a result or with an error.  With a bounded wait
\* a Get returns even if the getter hangs for ever and nothing is cached, and
\* whatever an Increment of the key runs into, the next one gets the lock.
EveryRequestReturns ==
  \A p \in Caller :
    pc[p] # "idle" ~>
      pc[p] \in {"done", "timeout", "canceled", "incDone", "incFailed", "invDone"}
=============================================================================
