----------------------------- MODULE GroupProofs ----------------------------
(***************************************************************************)
(* Proofs about Group, for every set of requests and every scenario: every *)
(* configuration of the group, every mix of operations and faults, and     *)
(* every bound.                                                            *)
(*                                                                         *)
(* Most of what the properties rest on is where the requests and the load  *)
(* are (StageInv, LockInv, TtlInv).  On top of these each property has an  *)
(* invariant of its own:                                                   *)
(*   ReadInv      for MonotonicReads: whatever a request may still be told *)
(*                is as new as what some request has been told;            *)
(*   FallbackInv  for FallbackOutlivesActive: while a load stores, the     *)
(*                active entry is the one whose copy is about to be made;  *)
(*   NumberInv    for CounterGrows with an incrementer: a number that is   *)
(*                on its way is newer than what its request has seen;      *)
(*   NewestInv    for NewestIncrementCached: the number in the hands of    *)
(*                the owner of the lock is the newest of all;              *)
(*   CountInv     for CounterGrows without an incrementer;                 *)
(*   TimeInv      for ServedInTime: an entry may live on for as long as    *)
(*                what it says is not yet too old.                         *)
(***************************************************************************)
EXTENDS Group, TLAPS

\* Where a request is, what it holds and where the load is agree with each other.
StageInv ==
  /\ phase # "none" <=> flight[K] = "running"
  /\ phase \in {"none", "read"} <=> load = None
  /\ phase \in {"store", "stale"} => load.kind # "error"
  /\ phase = "stale" => load.kind # "absent"
  /\ flight[K] = "finished" <=> answer[K] # None
  /\ answer[K] # None => answer[K].ver \in Ver
  /\ \A p \in Caller :
       /\ reply[p] # None => want[p] # None /\ reply[p].ver \in Ver
       /\ want[p] # None <=> pc[p] = "wait"
       /\ held[p] # None <=> pc[p] \in {"incStore", "incStale"}
       /\ pc[p] \notin {"done", "incDone"} => got[p] = None
       /\ pc[p] \in {"missed", "wait", "degrade", "fallback", "done"} => "Get" \in Ops
       /\ pc[p] \in {"incWait", "incApply", "incStore", "incStale", "incDone"} =>
            "Increment" \in Ops
       /\ pc[p] \in {"incWait", "incApply", "incStore"} => Durable
       /\ pc[p] = "invStale" => "Invalidate" \in Ops
       /\ pc[p] = "incDone" => got[p] # None
  /\ "Get" \notin Ops => flight[K] = "none"

\* Request p is where the code holds the lock of the key.
InLock(p) ==
  pc[p] \in {"incApply", "incStore"} \/ (Durable /\ pc[p] = "incStale")

LockInv == \A p \in Caller : InLock(p) <=> lock = p

\* Which ttls are in use follows from the configuration.
TtlInv ==
  /\ phase = "stale" => (load.ttl > 0 <=> TTL > 0)
  /\ \A p \in Caller : held[p] # None => (held[p].ttl > 0 <=> TTL > 0)
  /\ StaleTTL = 0 \/ TTL = 0 => stale = None

\* Version v is not newer than anything a request may be told from now on.
Older(v) ==
  /\ v <= db.ver
  /\ Live(active) => v <= active.ver
  /\ load # None /\ load.kind # "error" => v <= load.ver
  /\ answer[K] # None /\ Dated(answer[K]) => v <= answer[K].ver

ReadInv ==
  StaleTTL = 0 /\ "Increment" \notin Ops =>
    /\ Older(seen.read)
    /\ Live(active) => Older(active.ver)
    /\ load # None /\ load.kind # "error" => load.ver <= db.ver
    /\ phase \in {"stale", "done"} /\ Dated(load) => Older(load.ver)
    /\ answer[K] # None /\ Dated(answer[K]) => Older(answer[K].ver)
    /\ \A p \in Caller :
         /\ mark[p].read <= seen.read
         /\ reply[p] # None /\ Dated(reply[p]) =>
              Older(reply[p].ver) /\ reply[p].ver >= mark[p].read
         /\ pc[p] = "done" /\ Dated(got[p]) => got[p].ver >= mark[p].read

FallbackInv ==
  /\ FallbackOutlivesActive
  /\ /\ StaleTTL > 0 /\ TTL > 0
     /\ Ops = {"Get"} /\ "evict" \notin Faults
     /\ phase = "stale" /\ Live(active)
     => active.ver = load.ver /\ active.rem <= load.ttl

\* Numbers on their way from the incrementer to the client.
NumberInv ==
  Durable =>
    /\ seen.inc <= db.ver
    /\ \A p \in Caller :
         /\ mark[p].inc <= seen.inc
         /\ held[p] # None => held[p].ver <= db.ver /\ held[p].ver > mark[p].inc
         /\ Grows(p)

NewestInv ==
  Durable /\ "Get" \notin Ops =>
    /\ \A e \in {active, stale} : Live(e) => seen.inc <= e.ver /\ e.ver <= db.ver
    /\ \A p \in Caller :
         held[p] # None =>
           /\ seen.inc <= held[p].ver
           /\ \A e \in {active, stale} : Live(e) => e.ver <= held[p].ver
           /\ pc[p] = "incStale" /\ Live(active) => active.ver = held[p].ver

\* Numbers that only the active cache keeps.
CountInv ==
  ~Durable /\ Ops = {"Increment"} /\ Faults \cap {"evict", "time"} = {} =>
    /\ active # None => Live(active) /\ active.kind = "number"
    /\ seen.inc <= Current
    /\ \A p \in Caller :
         /\ mark[p].inc <= seen.inc
         /\ held[p] # None => held[p].ver <= Current /\ held[p].ver > mark[p].inc
         /\ Grows(p)

TimeInv ==
  /\ \A v \in Ver : v >= db.ver => lapse[v] = 0
  /\ TTL > 0 /\ "Increment" \notin Ops =>
       /\ load # None /\ load.kind # "error" => lapse[load.ver] <= load.age
       /\ Live(active) =>
            /\ active.rem # Forever
            /\ lapse[active.ver] + active.rem <= MaxLoad + Later(MaxTTL, NegTTL)
       /\ Live(stale) =>
            /\ stale.rem # Forever
            /\ lapse[stale.ver] + stale.rem <= MaxLoad + MaxTTL + StaleTTL

Control == TypeOK /\ StageInv /\ LockInv /\ TtlInv
IInv == /\ Control /\ ReadInv /\ FallbackInv /\ NumberInv /\ NewestInv
        /\ CountInv /\ TimeInv

-----------------------------------------------------------------------------
(* The configuration, and the helpers of the model. *)

\* The fields of a scenario.
LEMMA ConfType ==
  ASSUME conf \in Scenario
  PROVE  /\ TTL \in Nat /\ Jitter \in Nat /\ StaleTTL \in Nat /\ NegTTL \in Nat
         /\ MaxVer \in Nat \ {0} /\ MaxLoad \in Nat
         /\ Durable \in BOOLEAN /\ WaitBounded \in BOOLEAN
         /\ Ops \subseteq Operation /\ Kinds \subseteq ValueKind
         /\ Watch \subseteq {"read", "inc", "inv"}
  BY ScenarioAssumption
     DEF TTL, Jitter, StaleTTL, NegTTL, MaxVer, MaxLoad, Durable, WaitBounded,
         Ops, Kinds, Watch

\* The bounds that are made of them.
LEMMA BoundType ==
  ASSUME conf \in Scenario
  PROVE  /\ MaxTTL \in Nat \ {0}
         /\ Forever \in Nat /\ Forever = MaxTTL + StaleTTL + NegTTL + 1
         /\ MaxAge \in Nat /\ Horizon \in Nat
         /\ MaxAge >= MaxLoad + MaxTTL + StaleTTL /\ MaxAge >= MaxLoad + NegTTL
  BY ConfType DEF MaxTTL, Later, Forever, MaxAge, Horizon

\* nextTTL stays within MaxTTL, and is 0 only without expiration.
LEMMA NextTTLRange ==
  ASSUME conf \in Scenario, NEW ttl \in NextTTL
  PROVE  ttl \in 0 .. MaxTTL /\ (ttl > 0 <=> TTL > 0)
  BY ConfType DEF NextTTL, MaxTTL, Later

\* The configuration does not change, nor does anything that is made of it.
LEMMA Fixed ==
  ASSUME UNCHANGED conf
  PROVE  /\ TTL' = TTL /\ Jitter' = Jitter /\ StaleTTL' = StaleTTL
         /\ NegTTL' = NegTTL /\ MaxVer' = MaxVer /\ MaxLoad' = MaxLoad
         /\ Durable' = Durable /\ Ops' = Ops /\ Faults' = Faults
         /\ Ver' = Ver /\ MaxTTL' = MaxTTL /\ Forever' = Forever
         /\ Entry' = Entry /\ MaxAge' = MaxAge /\ Horizon' = Horizon
         /\ Promise' = Promise
  BY DEF TTL, Jitter, StaleTTL, NegTTL, MaxVer, MaxLoad, Durable, Ops, Faults,
         Ver, MaxTTL, Later, Forever, Entry, MaxAge, Horizon, Promise

\* An entry is not nil, and its fields have their types.
LEMMA EntryType ==
  ASSUME conf \in Scenario, NEW e \in Entry
  PROVE  /\ e # None
         /\ e.kind \in ValueKind /\ e.ver \in Ver /\ e.ver \in Nat
         /\ e.rem \in Expired .. Forever /\ e.rem \in Int
         /\ Served(e) \in Answer /\ Served(e) # None
  <1>1. e \in [kind : ValueKind, ver : Nat, rem : Int]
    BY ConfType, BoundType DEF Entry, Ver, Expired
  <1> QED
    BY <1>1, ConfType, BoundType, NoneAssumption DEF Entry, Ver, Expired, Served, Answer

\* AddWithTTL and recordStale store live entries.
LEMMA NewEntryType ==
  ASSUME conf \in Scenario, NEW kind \in ValueKind, NEW ver \in Ver,
         NEW ttl \in Nat, ttl <= Later(MaxTTL + StaleTTL, NegTTL)
  PROVE  /\ NewEntry(kind, ver, ttl) \in Entry
         /\ Live(NewEntry(kind, ver, ttl))
         /\ NewEntry(kind, ver, ttl).kind = kind
         /\ NewEntry(kind, ver, ttl).ver = ver
         /\ NewEntry(kind, ver, ttl).rem = IF ttl > 0 THEN ttl ELSE Forever
  <1>1. NewEntry(kind, ver, ttl) \in Entry
    BY ConfType, BoundType DEF NewEntry, Entry, Expired, Later
  <1> QED
    BY <1>1, EntryType, ConfType, BoundType DEF NewEntry, Live, Expired

\* A lookup or a sweep only removes an entry.
LEMMA KeptType ==
  ASSUME NEW e
  PROVE  Kept(e) \in {e, None} /\ (Live(e) => Kept(e) = e) /\ (Live(Kept(e)) <=> Live(e))
  BY DEF Kept, Live

\* A tick takes one unit from an entry that has a ttl.
LEMMA AgedType ==
  ASSUME conf \in Scenario, NEW e \in Entry
  PROVE  /\ Aged(e) \in Entry
         /\ Aged(e).kind = e.kind /\ Aged(e).ver = e.ver
         /\ Aged(e).rem = IF e.rem \in {Expired, Forever} THEN e.rem ELSE e.rem - 1
  BY EntryType, BoundType DEF Aged, Entry, Expired

-----------------------------------------------------------------------------
(* What the steps do, in terms of the types of what they change. *)

\* A promise only adds to what is promised.
LEMMA PromisedType ==
  ASSUME conf \in Scenario, seen \in Promise,
         NEW kind \in {"read", "inc", "inv"}, NEW v \in Ver, Promised(kind, v)
  PROVE  /\ seen' \in Promise
         /\ seen'.read = IF kind = "read" /\ kind \in Watch
                         THEN Later(seen.read, v) ELSE seen.read
         /\ seen'.inc = IF kind = "inc" /\ kind \in Watch
                        THEN Later(seen.inc, v) ELSE seen.inc
  BY DEF Promised, Promise, Later

\* So does a result that is given to a client.
LEMMA ToldType ==
  ASSUME conf \in Scenario, seen \in Promise,
         NEW p, NEW r \in Answer, r.ver \in Ver, Told(p, r)
  PROVE  /\ got' = [got EXCEPT ![p] = r]
         /\ seen' \in Promise
         /\ seen'.read = IF Dated(r) /\ "read" \in Watch
                         THEN Later(seen.read, r.ver) ELSE seen.read
         /\ seen'.inc = seen.inc
  BY PromisedType DEF Told

\* Versions are numbers.
LEMMA VerType ==
  ASSUME TypeOK
  PROVE  /\ conf \in Scenario
         /\ MaxVer \in Nat \ {0} /\ Ver = 0 .. MaxVer
         /\ db.kind \in ValueKind /\ db.ver \in Ver
         /\ seen.read \in Ver /\ seen.inc \in Ver /\ seen.inv \in Ver
         /\ \A p \in Caller : mark[p].read \in Ver /\ mark[p].inc \in Ver /\ mark[p].inv \in Ver
  BY ConfType DEF TypeOK, Ver, Promise

\* Live(active) of a well-typed cache gives access to the fields of its entry.
LEMMA CacheType ==
  ASSUME TypeOK
  PROVE  \A e \in {active, stale} :
           /\ Live(e) => e \in Entry
           /\ e # None => e \in Entry
           /\ e \in Entry => e # None /\ e.kind \in ValueKind /\ e.ver \in Ver
                             /\ e.rem \in Expired .. Forever
  BY EntryType DEF TypeOK, Live

\* Get and degradeFromCaches tell what is in a cache, if it is live.
LEMMA ServedEffect ==
  ASSUME TypeOK, NEW p \in Caller, NEW e \in {active, stale}, Live(e), Told(p, Served(e))
  PROVE  /\ e \in Entry
         /\ Served(e) \in Answer
         /\ got' = [got EXCEPT ![p] = Served(e)]
         /\ seen' \in Promise
         /\ seen'.read = IF Dated(e) /\ "read" \in Watch
                         THEN Later(seen.read, e.ver) ELSE seen.read
         /\ seen'.inc = seen.inc
  <1>1. e \in Entry
    BY CacheType
  <1>2. Served(e) \in Answer /\ e.ver \in Ver
    BY <1>1, EntryType DEF TypeOK
  <1>3. Served(e).ver = e.ver /\ Dated(Served(e)) = Dated(e)
    BY DEF Served, Dated
  <1> QED BY <1>1, <1>2, <1>3, ToldType DEF TypeOK

\* The load stores what it has read.
LEMMA StoreValueEffect ==
  ASSUME TypeOK, StageInv, StoreValue
  PROVE  /\ load # None /\ load.kind \in {"number", "text"} /\ load.ver \in Ver
         /\ active' \in Entry /\ Live(active')
         /\ active'.kind = load.kind /\ active'.ver = load.ver
         /\ load'.kind = load.kind /\ load'.ver = load.ver /\ load'.age = load.age
         /\ load' \in [kind : ValueKind, ver : Ver, ttl : 0 .. MaxTTL, age : 0 .. MaxLoad]
         /\ load' # None
         /\ load'.ttl > 0 <=> TTL > 0
         /\ active'.rem = IF TTL > 0 THEN load'.ttl ELSE Forever
  <1>1. /\ load # None /\ load.kind \in {"number", "text"} /\ load.ver \in Ver
        /\ load \in [kind : ValueKind, ver : Ver, ttl : 0 .. MaxTTL, age : 0 .. MaxLoad]
    BY DEF TypeOK, StageInv, StoreValue, ValueKind
  <1>2. PICK ttl \in NextTTL : active' = NewEntry(load.kind, load.ver, ttl)
                               /\ load' = [load EXCEPT !.ttl = ttl]
    BY DEF StoreValue
  <1>3. conf \in Scenario /\ ttl \in 0 .. MaxTTL /\ (ttl > 0 <=> TTL > 0)
    BY NextTTLRange DEF TypeOK
  <1>4. ttl \in Nat /\ ttl <= Later(MaxTTL + StaleTTL, NegTTL)
    BY <1>3, ConfType, BoundType DEF Later
  <1>5. load' = [kind |-> load.kind, ver |-> load.ver, ttl |-> ttl, age |-> load.age]
    BY <1>1, <1>2
  <1>6. load' \in [kind : ValueKind, ver : Ver, ttl : 0 .. MaxTTL, age : 0 .. MaxLoad]
    BY <1>1, <1>3, <1>5
  <1>7. load' \in [kind : ValueKind \cup {"error"}, ver : Nat, ttl : Nat, age : Nat]
    BY <1>3, <1>6, ConfType, BoundType DEF Ver
  <1>8. load' # None
    BY <1>7, NoneAssumption
  <1>9. load.kind \in ValueKind
    BY <1>1 DEF ValueKind
  <1> QED BY <1>1, <1>2, <1>3, <1>4, <1>5, <1>6, <1>8, <1>9, NewEntryType

\* cacheNegative stores an ErrNotFound.
LEMMA StoreNegativeEffect ==
  ASSUME TypeOK, StageInv, StoreNegative
  PROVE  /\ load # None /\ load.kind = "absent" /\ load.ver \in Ver
         /\ NegTTL = 0 => active' = active
         /\ NegTTL > 0 =>
              /\ active' \in Entry /\ Live(active')
              /\ active'.kind = "absent" /\ active'.ver = load.ver
              /\ active'.rem = NegTTL
  <1>1. /\ load # None /\ load.kind = "absent" /\ load.ver \in Ver
        /\ active' = IF NegTTL > 0 THEN NewEntry("absent", load.ver, NegTTL) ELSE active
    BY DEF TypeOK, StageInv, StoreNegative
  <1>2. conf \in Scenario /\ NegTTL \in Nat /\ NegTTL <= Later(MaxTTL + StaleTTL, NegTTL)
    BY ConfType, BoundType DEF Later, TypeOK
  <1>3. "absent" \in ValueKind
    BY DEF ValueKind
  <1> QED BY <1>1, <1>2, <1>3, NewEntryType

\* recordStale, called by a load or by an Increment.
LEMMA RecordStaleEffect ==
  ASSUME TypeOK, NEW kind \in ValueKind, NEW ver \in Ver, NEW ttl \in 0 .. MaxTTL,
         RecordStale(kind, ver, ttl)
  PROVE  /\ ~KeepsStale(ttl) => stale' = stale
         /\ KeepsStale(ttl) =>
              /\ stale' \in Entry /\ Live(stale')
              /\ stale'.kind = kind /\ stale'.ver = ver
              /\ stale'.rem = ttl + StaleTTL
  <1>1. conf \in Scenario /\ ttl \in Nat /\ StaleTTL \in Nat
    BY ConfType, BoundType DEF TypeOK
  <1>2. /\ ttl + StaleTTL \in Nat /\ ttl + StaleTTL <= Later(MaxTTL + StaleTTL, NegTTL)
        /\ KeepsStale(ttl) => ttl + StaleTTL > 0
    BY <1>1, ConfType, BoundType DEF Later, KeepsStale
  <1> QED BY <1>1, <1>2, NewEntryType DEF RecordStale

\* The load gives its result to everyone who waits for it.
LEMMA LoadReturnsEffect ==
  ASSUME TypeOK, StageInv, LoadReturns
  PROVE  \E r \in Answer :
           /\ r # None /\ r.kind = load.kind /\ r.ver = load.ver /\ r.ver \in Ver
           /\ load # None
           /\ answer' = [answer EXCEPT ![K] = r]
           /\ reply' = [p \in Caller |->
                          IF want[p] = K /\ reply[p] = None THEN r ELSE reply[p]]
  <1> DEFINE r == [kind |-> load.kind, ver |-> load.ver]
  <1>1. load # None /\ load.kind \in ValueKind \cup {"error"} /\ load.ver \in Ver
    BY DEF TypeOK, StageInv, LoadReturns
  <1>2. r \in Answer
    BY <1>1, VerType DEF Answer
  <1>3. r # None
    BY <1>2, NoneAssumption
  <1> QED
    BY <1>1, <1>2, <1>3 DEF LoadReturns, Loader!Finish

\* A request is told the result of its load.
LEMMA WaitReturnsEffect ==
  ASSUME TypeOK, StageInv, NEW p \in Caller, WaitReturns(p)
  PROVE  /\ reply[p] # None /\ reply[p] \in Answer /\ reply[p].ver \in Ver
         /\ got' = [got EXCEPT ![p] = reply[p]]
         /\ seen' \in Promise
         /\ seen'.read = IF Dated(reply[p]) /\ "read" \in Watch
                         THEN Later(seen.read, reply[p].ver) ELSE seen.read
         /\ seen'.inc = seen.inc
  <1>1. reply[p] # None /\ Told(p, reply[p])
    BY DEF WaitReturns, Loader!Return
  <1>2. reply[p] \in Answer /\ reply[p].ver \in Ver /\ conf \in Scenario /\ seen \in Promise
    BY <1>1 DEF TypeOK, StageInv
  <1> QED BY <1>1, <1>2, ToldType

\* cache.increment counts on from what is in the cache.
LEMMA IncrementCachedEffect ==
  ASSUME TypeOK, NEW p \in Caller, IncrementCached(p)
  PROVE  \E h \in [ver : Ver, ttl : 0 .. MaxTTL] :
           /\ h # None /\ h.ver = Current + 1 /\ Current \in Ver
           /\ h.ttl > 0 <=> TTL > 0
           /\ held' = [held EXCEPT ![p] = h]
           /\ active' \in Entry /\ Live(active')
           /\ active'.kind = "number" /\ active'.ver = h.ver
  <1>1. Current \in Ver /\ Current < MaxVer
    BY CacheType, VerType DEF Current, IncrementCached
  <1>2. PICK ttl \in NextTTL :
          /\ active' = NewEntry("number", Current + 1, ttl)
          /\ held' = [held EXCEPT ![p] = [ver |-> Current + 1, ttl |-> ttl]]
    BY DEF IncrementCached
  <1>3. conf \in Scenario /\ ttl \in 0 .. MaxTTL /\ (ttl > 0 <=> TTL > 0)
    BY NextTTLRange DEF TypeOK
  <1>4. ttl \in Nat /\ ttl <= Later(MaxTTL + StaleTTL, NegTTL)
    BY <1>3, ConfType, BoundType DEF Later
  <1>5. Current + 1 \in Ver /\ Current + 1 \in Nat /\ "number" \in ValueKind
    BY <1>1, VerType DEF ValueKind
  <1> DEFINE h == [ver |-> Current + 1, ttl |-> ttl]
  <1>6. h \in [ver : Ver, ttl : 0 .. MaxTTL] /\ h \in [ver : Nat, ttl : Nat]
    BY <1>3, <1>4, <1>5
  <1>7. h # None
    BY <1>6, NoneAssumption
  <1>8. /\ active' \in Entry /\ Live(active')
        /\ active'.kind = "number" /\ active'.ver = Current + 1
    BY <1>2, <1>3, <1>4, <1>5, NewEntryType
  <1>9. h.ver = Current + 1 /\ h.ttl = ttl /\ held' = [held EXCEPT ![p] = h]
    BY <1>2
  <1> HIDE DEF h
  <1> QED BY <1>1, <1>3, <1>6, <1>7, <1>8, <1>9

\* incrementer.Increment hands out the next number.
LEMMA IncrementAppliesEffect ==
  ASSUME TypeOK, NEW p \in Caller, IncrementApplies(p)
  PROVE  \E h \in [ver : Ver, ttl : 0 .. MaxTTL] :
           /\ h # None /\ h.ver = db.ver + 1
           /\ h.ttl > 0 <=> TTL > 0
           /\ held' = [held EXCEPT ![p] = h]
           /\ db' \in [kind : ValueKind, ver : Ver] /\ db'.ver = db.ver + 1
  <1>1. PICK ttl \in NextTTL :
          held' = [held EXCEPT ![p] = [ver |-> db.ver + 1, ttl |-> ttl]]
    BY DEF IncrementApplies
  <1>2. conf \in Scenario /\ ttl \in 0 .. MaxTTL /\ (ttl > 0 <=> TTL > 0) /\ ttl \in Nat
    BY NextTTLRange, BoundType DEF TypeOK
  <1>3. db.ver + 1 \in Ver /\ db.ver + 1 \in Nat
        /\ db' = [kind |-> "number", ver |-> db.ver + 1] /\ "number" \in ValueKind
    BY VerType DEF IncrementApplies, Applied, ValueKind
  <1> DEFINE h == [ver |-> db.ver + 1, ttl |-> ttl]
  <1>4. h \in [ver : Ver, ttl : 0 .. MaxTTL] /\ h \in [ver : Nat, ttl : Nat]
    BY <1>2, <1>3
  <1>5. h # None
    BY <1>4, NoneAssumption
  <1> QED BY <1>1, <1>2, <1>3, <1>4, <1>5

\* Increment stores the number that it has in hand.
LEMMA IncrementStoresEffect ==
  ASSUME TypeOK, StageInv, NEW p \in Caller, IncrementStores(p)
  PROVE  /\ held[p] # None /\ held[p].ver \in Ver
         /\ active' \in Entry /\ Live(active')
         /\ active'.kind = "number" /\ active'.ver = held[p].ver
  <1>1. held[p] # None /\ held[p] \in [ver : Ver, ttl : 0 .. MaxTTL]
        /\ active' = NewEntry("number", held[p].ver, held[p].ttl) /\ conf \in Scenario
    BY DEF TypeOK, StageInv, IncrementStores
  <1>2. held[p].ver \in Ver /\ held[p].ttl \in Nat
        /\ held[p].ttl <= Later(MaxTTL + StaleTTL, NegTTL) /\ "number" \in ValueKind
    BY <1>1, ConfType, BoundType DEF Later, ValueKind
  <1> QED BY <1>1, <1>2, NewEntryType

\* Increment returns the number that it has in hand.
LEMMA IncrementReturnsEffect ==
  ASSUME TypeOK, StageInv, NEW p \in Caller, IncrementReturns(p)
  PROVE  /\ held[p] # None /\ held[p].ver \in Ver /\ held[p].ttl \in 0 .. MaxTTL
         /\ ~KeepsStale(held[p].ttl) => stale' = stale
         /\ KeepsStale(held[p].ttl) =>
              stale' \in Entry /\ Live(stale') /\ stale'.ver = held[p].ver
         /\ \E r \in Answer :
              /\ r # None /\ r.kind = "number" /\ r.ver = held[p].ver
              /\ got' = [got EXCEPT ![p] = r]
         /\ seen' \in Promise /\ seen'.read = seen.read
         /\ seen'.inc = IF "inc" \in Watch THEN Later(seen.inc, held[p].ver) ELSE seen.inc
  <1>1. held[p] # None /\ held[p] \in [ver : Ver, ttl : 0 .. MaxTTL] /\ conf \in Scenario
        /\ seen \in Promise
    BY DEF TypeOK, StageInv, IncrementReturns
  <1>2. held[p].ver \in Ver /\ held[p].ttl \in 0 .. MaxTTL /\ held[p].ver \in Nat
        /\ "number" \in ValueKind
    BY <1>1, VerType DEF ValueKind
  <1> DEFINE r == [kind |-> "number", ver |-> held[p].ver]
  <1>3. r \in Answer
    BY <1>2 DEF Answer
  <1>4. r # None
    BY <1>3, NoneAssumption
  <1>5. RecordStale("number", held[p].ver, held[p].ttl) /\ Promised("inc", held[p].ver)
        /\ got' = [got EXCEPT ![p] = r]
    BY DEF IncrementReturns
  <1>6. /\ ~KeepsStale(held[p].ttl) => stale' = stale
        /\ KeepsStale(held[p].ttl) =>
             stale' \in Entry /\ Live(stale') /\ stale'.ver = held[p].ver
    BY <1>2, <1>5, RecordStaleEffect
  <1>7. /\ seen' \in Promise /\ seen'.read = seen.read
        /\ seen'.inc = IF "inc" \in Watch THEN Later(seen.inc, held[p].ver) ELSE seen.inc
    BY <1>1, <1>2, <1>5, PromisedType
  <1> QED BY <1>1, <1>2, <1>3, <1>4, <1>5, <1>6, <1>7

-----------------------------------------------------------------------------
(* Type correctness. *)

\* One tick: every entry, the load and the lapses age by at most one unit.
LEMMA TickEffect ==
  ASSUME TypeOK, Tick
  PROVE  /\ active' = Aged(active) /\ stale' = Aged(stale)
         /\ \A e \in {active, stale} :
              /\ e = None <=> Aged(e) = None
              /\ Aged(e) \in Entry \cup {None}
              /\ Live(Aged(e)) => Live(e)
              /\ e # None => Aged(e).kind = e.kind /\ Aged(e).ver = e.ver
              /\ Live(e) => Aged(e).rem = IF e.rem = Forever THEN Forever ELSE e.rem - 1
         /\ load = None => load' = None
         /\ load # None =>
              /\ load' # None /\ load'.age = load.age + 1
              /\ load'.kind = load.kind /\ load'.ver = load.ver /\ load'.ttl = load.ttl
         /\ load' \in [kind : ValueKind \cup {"error"}, ver : Ver,
                       ttl : 0 .. MaxTTL, age : 0 .. MaxLoad] \cup {None}
         /\ lapse' \in [Ver -> 0 .. Horizon]
         /\ \A v \in Ver : lapse'[v] <= lapse[v] + 1 /\ (v >= db.ver => lapse'[v] = 0)
  <1>1. conf \in Scenario /\ MaxLoad \in Nat /\ MaxTTL \in Nat /\ Horizon \in Nat
    BY ConfType, BoundType DEF TypeOK
  <1>2. ASSUME NEW e \in {active, stale}
        PROVE  /\ e = None <=> Aged(e) = None
               /\ Aged(e) \in Entry \cup {None}
               /\ Live(Aged(e)) => Live(e)
               /\ e # None => Aged(e).kind = e.kind /\ Aged(e).ver = e.ver
               /\ Live(e) => Aged(e).rem = IF e.rem = Forever THEN Forever ELSE e.rem - 1
    <2>1. CASE e = None
      BY <2>1 DEF Aged, Live
    <2>2. CASE e \in Entry
      BY <1>1, <2>2, AgedType, EntryType DEF Live
    <2> QED BY <2>1, <2>2 DEF TypeOK
  <1>3. ASSUME load # None
        PROVE  /\ load' \in [kind : ValueKind \cup {"error"}, ver : Ver,
                             ttl : 0 .. MaxTTL, age : 0 .. MaxLoad]
               /\ load'.age = load.age + 1
               /\ load'.kind = load.kind /\ load'.ver = load.ver /\ load'.ttl = load.ttl
    BY <1>1, <1>3 DEF Tick, TypeOK
  <1>4. load # None => load' # None
    <2> SUFFICES ASSUME load # None PROVE load' # None
      OBVIOUS
    <2>1. load' \in [kind : ValueKind \cup {"error"}, ver : Nat, ttl : Nat, age : Nat]
      BY <1>1, <1>3, VerType
    <2> QED BY <2>1, NoneAssumption
  <1>5. /\ lapse' \in [Ver -> 0 .. Horizon]
        /\ \A v \in Ver : lapse'[v] <= lapse[v] + 1 /\ (v >= db.ver => lapse'[v] = 0)
    <2>1. Ver \subseteq Nat /\ db.ver \in Ver
      BY VerType
    <2>2. lapse \in [Ver -> 0 .. Horizon]
      BY DEF TypeOK
    <2>3. lapse' = [v \in Ver |-> IF v >= db.ver THEN 0
                                 ELSE IF lapse[v] < Horizon THEN lapse[v] + 1
                                 ELSE Horizon]
      BY DEF Tick
    <2> QED BY <1>1, <2>1, <2>2, <2>3
  <1>6. active' = Aged(active) /\ stale' = Aged(stale) /\ (load = None => load' = None)
    BY DEF Tick
  <1> HIDE DEF Tick
  <1> QED BY <1>2, <1>3, <1>4, <1>5, <1>6

\* Every step keeps the types.
LEMMA TypeStep ==
  ASSUME TypeOK, StageInv, Next
  PROVE  TypeOK'
  <1>1. conf \in Scenario /\ UNCHANGED conf
    BY DEF TypeOK, Next
  <1>2. /\ TTL \in Nat /\ Jitter \in Nat /\ StaleTTL \in Nat /\ NegTTL \in Nat
        /\ MaxVer \in Nat \ {0} /\ MaxLoad \in Nat
        /\ Kinds \subseteq ValueKind /\ Ver = 0 .. MaxVer
        /\ MaxTTL \in Nat \ {0} /\ Horizon \in Nat
    BY <1>1, ConfType, BoundType DEF Ver
  <1>0. /\ Ver' = Ver /\ Entry' = Entry /\ Promise' = Promise /\ Horizon' = Horizon
        /\ MaxTTL' = MaxTTL /\ MaxLoad' = MaxLoad
    BY <1>1, Fixed
  <1> USE <1>0, <1>1 DEF loadVars, loaderVars, cacheVars, CallerState
  <1>3. ASSUME NEW p \in Caller, GetHit(p)  PROVE TypeOK'
    <2>1. /\ seen' \in Promise
          /\ got' = [got EXCEPT ![p] = Served(active)]
          /\ Served(active) \in Answer
      BY <1>3, ServedEffect DEF GetHit
    <2> QED BY <1>3, <2>1 DEF TypeOK, GetHit, Begin, Goto
  <1>4. ASSUME NEW p \in Caller, GetMiss(p)  PROVE TypeOK'
    BY <1>4 DEF TypeOK, GetMiss, Begin, Free, Goto
  <1>5. ASSUME NEW p \in Caller, LoadCanceled(p)  PROVE TypeOK'
    BY <1>5 DEF TypeOK, LoadCanceled, Goto
  <1>6. ASSUME NEW p \in Caller, LoadStart(p)  PROVE TypeOK'
    BY <1>6 DEF TypeOK, LoadStart, Loader!Start, Goto
  <1>7. ASSUME NEW p \in Caller, LoadJoin(p)  PROVE TypeOK'
    BY <1>7 DEF TypeOK, LoadJoin, Loader!Join, Goto
  <1>8. ASSUME NEW p \in Caller, WaitReturns(p)  PROVE TypeOK'
    <2>1. reply[p] \in Answer /\ got' = [got EXCEPT ![p] = reply[p]] /\ seen' \in Promise
      BY <1>8, WaitReturnsEffect
    <2> QED BY <1>8, <2>1 DEF TypeOK, WaitReturns, Loader!Return, Goto
  <1>9. ASSUME NEW p \in Caller, WaitCanceled(p)  PROVE TypeOK'
    BY <1>9 DEF TypeOK, WaitCanceled, Loader!Abandon, Goto
  <1>10. ASSUME NEW p \in Caller, WaitTimeout(p)  PROVE TypeOK'
    BY <1>10 DEF TypeOK, WaitTimeout, Loader!Abandon, Goto
  <1>11. ASSUME NEW p \in Caller, DegradeActive(p)  PROVE TypeOK'
    <2>0. active' \in {active, None}
      BY <1>11, KeptType DEF DegradeActive
    <2>1. CASE Live(active)
      <3>1. /\ seen' \in Promise
            /\ got' = [got EXCEPT ![p] = Served(active)]
            /\ Served(active) \in Answer
        BY <1>11, <2>1, ServedEffect DEF DegradeActive
      <3> QED BY <1>11, <2>0, <2>1, <3>1 DEF TypeOK, DegradeActive, Goto
    <2>2. CASE ~Live(active)
      BY <1>11, <2>0, <2>2 DEF TypeOK, DegradeActive, Goto
    <2> QED BY <2>1, <2>2
  <1>12. ASSUME NEW p \in Caller, DegradeStale(p)  PROVE TypeOK'
    <2>0. stale' \in {stale, None}
      BY <1>12, KeptType DEF DegradeStale
    <2>1. CASE Live(stale)
      <3>1. /\ seen' \in Promise
            /\ got' = [got EXCEPT ![p] = Served(stale)]
            /\ Served(stale) \in Answer
        BY <1>12, <2>1, ServedEffect DEF DegradeStale
      <3> QED BY <1>12, <2>0, <2>1, <3>1 DEF TypeOK, DegradeStale, Goto
    <2>2. CASE ~Live(stale)
      BY <1>12, <2>0, <2>2 DEF TypeOK, DegradeStale, Goto
    <2> QED BY <2>1, <2>2
  <1>13. ASSUME GetterReturns  PROVE TypeOK'
    BY <1>2, <1>13 DEF TypeOK, GetterReturns
  <1>14. ASSUME GetterFails  PROVE TypeOK'
    <2>1. load' \in [kind : ValueKind \cup {"error"}, ver : Ver,
                     ttl : 0 .. MaxTTL, age : 0 .. MaxLoad]
      BY <1>2, <1>14 DEF GetterFails
    <2> QED BY <1>14, <2>1 DEF TypeOK, GetterFails
  <1>15. ASSUME StoreValue  PROVE TypeOK'
    <2>1. /\ active' \in Entry
          /\ load' \in [kind : ValueKind, ver : Ver, ttl : 0 .. MaxTTL, age : 0 .. MaxLoad]
      BY <1>15, StoreValueEffect
    <2> QED BY <1>15, <2>1 DEF TypeOK, StoreValue
  <1>16. ASSUME StoreNegative  PROVE TypeOK'
    <2>1. active' \in Entry \cup {None}
      <3>1. CASE NegTTL = 0
        BY <1>16, <3>1, StoreNegativeEffect DEF TypeOK
      <3>2. CASE NegTTL > 0
        BY <1>16, <3>2, StoreNegativeEffect
      <3> QED BY <1>2, <3>1, <3>2
    <2> QED BY <1>16, <2>1 DEF TypeOK, StoreNegative
  <1>17. ASSUME StoreStale  PROVE TypeOK'
    <2>1. load.kind \in ValueKind /\ load.ver \in Ver /\ load.ttl \in 0 .. MaxTTL
      BY <1>17 DEF TypeOK, StageInv, StoreStale
    <2>2. stale' \in Entry \cup {None}
      BY <1>17, <2>1, RecordStaleEffect DEF TypeOK, StoreStale
    <2> QED BY <1>17, <2>2 DEF TypeOK, StoreStale
  <1>18. ASSUME LoadReturns  PROVE TypeOK'
    <2>1. PICK r \in Answer :
            /\ answer' = [answer EXCEPT ![K] = r]
            /\ reply' = [p \in Caller |->
                           IF want[p] = K /\ reply[p] = None THEN r ELSE reply[p]]
      BY <1>18, LoadReturnsEffect
    <2> QED BY <1>18, <2>1 DEF TypeOK, LoadReturns, Loader!Finish
  <1>19. ASSUME LoadRetired  PROVE TypeOK'
    BY <1>19 DEF TypeOK, LoadRetired, Loader!Retire
  <1>20. ASSUME NEW p \in Caller, IncrementCanceled(p)  PROVE TypeOK'
    BY <1>20 DEF TypeOK, IncrementCanceled, Begin, Free, Goto
  <1>21. ASSUME NEW p \in Caller, IncrementCached(p)  PROVE TypeOK'
    <2>1. PICK h \in [ver : Ver, ttl : 0 .. MaxTTL] :
            held' = [held EXCEPT ![p] = h] /\ active' \in Entry
      BY <1>21, IncrementCachedEffect
    <2> QED BY <1>21, <2>1 DEF TypeOK, IncrementCached, Begin, Goto
  <1>22. ASSUME NEW p \in Caller, IncrementNonNumeric(p)  PROVE TypeOK'
    BY <1>22 DEF TypeOK, IncrementNonNumeric, Begin, Free, Goto
  <1>23. ASSUME NEW p \in Caller, IncrementQueues(p)  PROVE TypeOK'
    BY <1>23 DEF TypeOK, IncrementQueues, Begin, Free, Goto
  <1>24. ASSUME NEW p \in Caller, IncrementLocks(p)  PROVE TypeOK'
    BY <1>24 DEF TypeOK, IncrementLocks, Goto
  <1>25. ASSUME NEW p \in Caller, IncrementApplies(p)  PROVE TypeOK'
    <2>1. PICK h \in [ver : Ver, ttl : 0 .. MaxTTL] :
            held' = [held EXCEPT ![p] = h] /\ db' \in [kind : ValueKind, ver : Ver]
      BY <1>25, IncrementAppliesEffect
    <2> QED BY <1>25, <2>1 DEF TypeOK, IncrementApplies, Goto
  <1>26. ASSUME NEW p \in Caller, IncrementFails(p)  PROVE TypeOK'
    <2>1. db' \in [kind : ValueKind, ver : Ver]
      <3>1. CASE Applied
        BY <3>1, VerType DEF Applied, ValueKind
      <3>2. CASE UNCHANGED db
        BY <3>2 DEF TypeOK
      <3> QED BY <1>26, <3>1, <3>2 DEF IncrementFails
    <2> QED BY <1>26, <2>1 DEF TypeOK, IncrementFails, Goto
  <1>27. ASSUME NEW p \in Caller, IncrementStores(p)  PROVE TypeOK'
    <2>1. active' \in Entry
      BY <1>27, IncrementStoresEffect
    <2> QED BY <1>27, <2>1 DEF TypeOK, IncrementStores, Goto
  <1>28. ASSUME NEW p \in Caller, IncrementReturns(p)  PROVE TypeOK'
    <2>1. PICK r \in Answer : got' = [got EXCEPT ![p] = r]
      BY <1>28, IncrementReturnsEffect
    <2>2. stale' \in Entry \cup {None} /\ seen' \in Promise
      BY <1>28, IncrementReturnsEffect DEF TypeOK
    <2> QED BY <1>28, <2>1, <2>2 DEF TypeOK, IncrementReturns, Goto
  <1>29. ASSUME NEW p \in Caller, InvalidateActive(p)  PROVE TypeOK'
    <2>1. (IF "inv" \in Watch THEN db.ver ELSE 0) \in Ver
      BY VerType
    <2>2. [seen EXCEPT !.inv = IF "inv" \in Watch THEN db.ver ELSE 0] \in Promise
      BY <2>1 DEF Promise, TypeOK
    <2> QED BY <1>29, <2>2 DEF TypeOK, InvalidateActive, Goto
  <1>30. ASSUME NEW p \in Caller, InvalidateStale(p)  PROVE TypeOK'
    <2>1. seen' \in Promise
      BY <1>30, VerType, PromisedType DEF TypeOK, InvalidateStale
    <2> QED BY <1>30, <2>1 DEF TypeOK, InvalidateStale, Goto
  <1>31. ASSUME NEW p \in Caller, Consume(p)  PROVE TypeOK'
    <2>1. [read |-> 0, inc |-> 0, inv |-> 0] \in Promise
      BY <1>2 DEF Promise
    <2> QED BY <1>31, <2>1 DEF TypeOK, Consume, Loader!Consume, Goto
  <1>32. ASSUME JanitorActive  PROVE TypeOK'
    BY <1>32, KeptType DEF TypeOK, JanitorActive
  <1>33. ASSUME JanitorStale  PROVE TypeOK'
    BY <1>33, KeptType DEF TypeOK, JanitorStale
  <1>34. ASSUME Evict  PROVE TypeOK'
    BY <1>34 DEF TypeOK, Evict
  <1>35. ASSUME BackendWrite  PROVE TypeOK'
    <2>1. db' \in [kind : ValueKind, ver : Ver]
      BY <1>2, <1>35, VerType DEF BackendWrite
    <2> QED BY <1>35, <2>1 DEF TypeOK, BackendWrite
  <1>36. ASSUME Tick  PROVE TypeOK'
    <2>1. /\ active' \in Entry \cup {None} /\ stale' \in Entry \cup {None}
          /\ load' \in [kind : ValueKind \cup {"error"}, ver : Ver,
                        ttl : 0 .. MaxTTL, age : 0 .. MaxLoad] \cup {None}
          /\ lapse' \in [Ver -> 0 .. Horizon]
      BY <1>36, TickEffect
    <2> QED BY <1>36, <2>1 DEF TypeOK, Tick
  <1> QED
    BY <1>3, <1>4, <1>5, <1>6, <1>7, <1>8, <1>9, <1>10, <1>11, <1>12,
       <1>13, <1>14, <1>15, <1>16, <1>17, <1>18, <1>19, <1>20, <1>21, <1>22,
       <1>23, <1>24, <1>25, <1>26, <1>27, <1>28, <1>29, <1>30, <1>31, <1>32,
       <1>33, <1>34, <1>35, <1>36
       DEF Next, GetStep, LoadStep, IncrementStep, InvalidateStep, Environment

-----------------------------------------------------------------------------
(* Where the requests and the load are. *)

\* Every step keeps requests and load where they belong.
LEMMA StageStep ==
  ASSUME TypeOK, StageInv, Next
  PROVE  StageInv'
  <1>1. UNCHANGED conf /\ TypeOK'
    BY TypeStep DEF Next
  <1> USE <1>1, Fixed, NoneAssumption DEF loadVars, loaderVars, cacheVars
  <1>2. ASSUME NEW p \in Caller, GetHit(p)  PROVE StageInv'
    BY <1>2, ServedEffect DEF TypeOK, StageInv, GetHit, Begin, Free, Goto
  <1>3. ASSUME NEW p \in Caller, GetMiss(p)  PROVE StageInv'
    BY <1>3 DEF TypeOK, StageInv, GetMiss, Begin, Free, Goto
  <1>4. ASSUME NEW p \in Caller, LoadCanceled(p)  PROVE StageInv'
    BY <1>4 DEF TypeOK, StageInv, LoadCanceled, Goto
  <1>5. ASSUME NEW p \in Caller, LoadStart(p)  PROVE StageInv'
    BY <1>5 DEF TypeOK, StageInv, LoadStart, Loader!Start, Goto
  <1>6. ASSUME NEW p \in Caller, LoadJoin(p)  PROVE StageInv'
    BY <1>6 DEF TypeOK, StageInv, LoadJoin, Loader!Join, Goto
  <1>7. ASSUME NEW p \in Caller, WaitReturns(p)  PROVE StageInv'
    BY <1>7, WaitReturnsEffect DEF TypeOK, StageInv, WaitReturns, Loader!Return, Goto
  <1>8. ASSUME NEW p \in Caller, WaitCanceled(p)  PROVE StageInv'
    BY <1>8 DEF TypeOK, StageInv, WaitCanceled, Loader!Abandon, Goto
  <1>9. ASSUME NEW p \in Caller, WaitTimeout(p)  PROVE StageInv'
    BY <1>9 DEF TypeOK, StageInv, WaitTimeout, Loader!Abandon, Goto
  <1>10. ASSUME NEW p \in Caller, DegradeActive(p)  PROVE StageInv'
    BY <1>10, ServedEffect DEF TypeOK, StageInv, DegradeActive, Goto
  <1>11. ASSUME NEW p \in Caller, DegradeStale(p)  PROVE StageInv'
    BY <1>11, ServedEffect DEF TypeOK, StageInv, DegradeStale, Goto
  <1>12. ASSUME GetterReturns  PROVE StageInv'
    <2>1. load' \in [kind : ValueKind \cup {"error"}, ver : Nat, ttl : Nat, age : Nat]
      BY <1>12, VerType DEF GetterReturns
    <2>2. load' # None /\ load'.kind \in ValueKind
      BY <1>12, <2>1, VerType DEF GetterReturns
    <2> QED BY <1>12, <2>2 DEF TypeOK, StageInv, ValueKind, GetterReturns
  <1>13. ASSUME GetterFails  PROVE StageInv'
    BY <1>13 DEF TypeOK, StageInv, GetterFails
  <1>14. ASSUME StoreValue  PROVE StageInv'
    BY <1>14, StoreValueEffect DEF TypeOK, StageInv, StoreValue
  <1>15. ASSUME StoreNegative  PROVE StageInv'
    BY <1>15, StoreNegativeEffect DEF TypeOK, StageInv, StoreNegative
  <1>16. ASSUME StoreStale  PROVE StageInv'
    BY <1>16 DEF TypeOK, StageInv, StoreStale
  <1>17. ASSUME LoadReturns  PROVE StageInv'
    <2>1. PICK r \in Answer :
            /\ r # None /\ r.ver \in Ver
            /\ answer' = [answer EXCEPT ![K] = r]
            /\ reply' = [p \in Caller |->
                           IF want[p] = K /\ reply[p] = None THEN r ELSE reply[p]]
      BY <1>17, LoadReturnsEffect
    <2> QED BY <1>17, <2>1 DEF TypeOK, StageInv, LoadReturns, Loader!Finish
  <1>18. ASSUME LoadRetired  PROVE StageInv'
    BY <1>18 DEF TypeOK, StageInv, LoadRetired, Loader!Retire
  <1>19. ASSUME NEW p \in Caller, IncrementCanceled(p)  PROVE StageInv'
    BY <1>19 DEF TypeOK, StageInv, IncrementCanceled, Begin, Free, Goto
  <1>20. ASSUME NEW p \in Caller, IncrementCached(p)  PROVE StageInv'
    <2>1. PICK h \in [ver : Ver, ttl : 0 .. MaxTTL] :
            h # None /\ held' = [held EXCEPT ![p] = h]
      BY <1>20, IncrementCachedEffect
    <2> QED BY <1>20, <2>1 DEF TypeOK, StageInv, IncrementCached, Begin, Free, Goto
  <1>21. ASSUME NEW p \in Caller, IncrementNonNumeric(p)  PROVE StageInv'
    BY <1>21 DEF TypeOK, StageInv, IncrementNonNumeric, Begin, Free, Goto
  <1>22. ASSUME NEW p \in Caller, IncrementQueues(p)  PROVE StageInv'
    BY <1>22 DEF TypeOK, StageInv, IncrementQueues, Begin, Free, Goto
  <1>23. ASSUME NEW p \in Caller, IncrementLocks(p)  PROVE StageInv'
    BY <1>23 DEF TypeOK, StageInv, IncrementLocks, Goto
  <1>24. ASSUME NEW p \in Caller, IncrementApplies(p)  PROVE StageInv'
    <2>1. PICK h \in [ver : Ver, ttl : 0 .. MaxTTL] :
            h # None /\ held' = [held EXCEPT ![p] = h]
      BY <1>24, IncrementAppliesEffect
    <2> QED BY <1>24, <2>1 DEF TypeOK, StageInv, IncrementApplies, Goto
  <1>25. ASSUME NEW p \in Caller, IncrementFails(p)  PROVE StageInv'
    BY <1>25 DEF TypeOK, StageInv, IncrementFails, Applied, Goto
  <1>26. ASSUME NEW p \in Caller, IncrementStores(p)  PROVE StageInv'
    BY <1>26, IncrementStoresEffect DEF TypeOK, StageInv, IncrementStores, Goto
  <1>27. ASSUME NEW p \in Caller, IncrementReturns(p)  PROVE StageInv'
    <2>1. PICK r \in Answer : r # None /\ got' = [got EXCEPT ![p] = r]
      BY <1>27, IncrementReturnsEffect
    <2> QED BY <1>27, <2>1 DEF TypeOK, StageInv, IncrementReturns, Goto
  <1>28. ASSUME NEW p \in Caller, InvalidateActive(p)  PROVE StageInv'
    BY <1>28 DEF TypeOK, StageInv, InvalidateActive, Free, Goto
  <1>29. ASSUME NEW p \in Caller, InvalidateStale(p)  PROVE StageInv'
    BY <1>29 DEF TypeOK, StageInv, InvalidateStale, Goto
  <1>30. ASSUME NEW p \in Caller, Consume(p)  PROVE StageInv'
    BY <1>30 DEF TypeOK, StageInv, Consume, Loader!Consume, Goto
  <1>31. ASSUME JanitorActive  PROVE StageInv'
    BY <1>31 DEF TypeOK, StageInv, JanitorActive
  <1>32. ASSUME JanitorStale  PROVE StageInv'
    BY <1>32 DEF TypeOK, StageInv, JanitorStale
  <1>33. ASSUME Evict  PROVE StageInv'
    BY <1>33 DEF TypeOK, StageInv, Evict
  <1>34. ASSUME BackendWrite  PROVE StageInv'
    BY <1>34 DEF TypeOK, StageInv, BackendWrite
  <1>35. ASSUME Tick  PROVE StageInv'
    BY <1>35, TickEffect DEF TypeOK, StageInv, Tick
  <1> QED
    BY <1>2, <1>3, <1>4, <1>5, <1>6, <1>7, <1>8, <1>9, <1>10, <1>11,
       <1>12, <1>13, <1>14, <1>15, <1>16, <1>17, <1>18, <1>19, <1>20, <1>21,
       <1>22, <1>23, <1>24, <1>25, <1>26, <1>27, <1>28, <1>29, <1>30, <1>31,
       <1>32, <1>33, <1>34, <1>35
       DEF Next, GetStep, LoadStep, IncrementStep, InvalidateStep, Environment

\* The lock of the key is taken and released with the stages of Increment.
LEMMA LockStep ==
  ASSUME TypeOK, StageInv, LockInv, Next
  PROVE  LockInv'
  <1>1. UNCHANGED conf /\ TypeOK' /\ StageInv'
    BY TypeStep, StageStep DEF Next
  <1> USE <1>1, Fixed, NoneAssumption DEF loadVars, loaderVars, cacheVars
  <1>2. ASSUME NEW p \in Caller, GetHit(p)  PROVE LockInv'
    BY <1>2, ServedEffect DEF TypeOK, StageInv, LockInv, InLock, GetHit, Begin, Free, Goto
  <1>3. ASSUME NEW p \in Caller, GetMiss(p)  PROVE LockInv'
    BY <1>3 DEF TypeOK, StageInv, LockInv, InLock, GetMiss, Begin, Free, Goto
  <1>4. ASSUME NEW p \in Caller, LoadCanceled(p)  PROVE LockInv'
    BY <1>4 DEF TypeOK, StageInv, LockInv, InLock, LoadCanceled, Goto
  <1>5. ASSUME NEW p \in Caller, LoadStart(p)  PROVE LockInv'
    BY <1>5 DEF TypeOK, StageInv, LockInv, InLock, LoadStart, Loader!Start, Goto
  <1>6. ASSUME NEW p \in Caller, LoadJoin(p)  PROVE LockInv'
    BY <1>6 DEF TypeOK, StageInv, LockInv, InLock, LoadJoin, Loader!Join, Goto
  <1>7. ASSUME NEW p \in Caller, WaitReturns(p)  PROVE LockInv'
    BY <1>7, WaitReturnsEffect
       DEF TypeOK, StageInv, LockInv, InLock, WaitReturns, Loader!Return, Goto
  <1>8. ASSUME NEW p \in Caller, WaitCanceled(p)  PROVE LockInv'
    BY <1>8 DEF TypeOK, StageInv, LockInv, InLock, WaitCanceled, Loader!Abandon, Goto
  <1>9. ASSUME NEW p \in Caller, WaitTimeout(p)  PROVE LockInv'
    BY <1>9 DEF TypeOK, StageInv, LockInv, InLock, WaitTimeout, Loader!Abandon, Goto
  <1>10. ASSUME NEW p \in Caller, DegradeActive(p)  PROVE LockInv'
    BY <1>10, ServedEffect DEF TypeOK, StageInv, LockInv, InLock, DegradeActive, Goto
  <1>11. ASSUME NEW p \in Caller, DegradeStale(p)  PROVE LockInv'
    BY <1>11, ServedEffect DEF TypeOK, StageInv, LockInv, InLock, DegradeStale, Goto
  <1>12. ASSUME GetterReturns  PROVE LockInv'
    BY <1>12 DEF TypeOK, StageInv, LockInv, InLock, GetterReturns
  <1>13. ASSUME GetterFails  PROVE LockInv'
    BY <1>13 DEF TypeOK, StageInv, LockInv, InLock, GetterFails
  <1>14. ASSUME StoreValue  PROVE LockInv'
    BY <1>14, StoreValueEffect DEF TypeOK, StageInv, LockInv, InLock, StoreValue
  <1>15. ASSUME StoreNegative  PROVE LockInv'
    BY <1>15, StoreNegativeEffect DEF TypeOK, StageInv, LockInv, InLock, StoreNegative
  <1>16. ASSUME StoreStale  PROVE LockInv'
    BY <1>16 DEF TypeOK, StageInv, LockInv, InLock, StoreStale
  <1>17. ASSUME LoadReturns  PROVE LockInv'
    BY <1>17, LoadReturnsEffect
       DEF TypeOK, StageInv, LockInv, InLock, LoadReturns, Loader!Finish
  <1>18. ASSUME LoadRetired  PROVE LockInv'
    BY <1>18 DEF TypeOK, StageInv, LockInv, InLock, LoadRetired, Loader!Retire
  <1>19. ASSUME NEW p \in Caller, IncrementCanceled(p)  PROVE LockInv'
    BY <1>19 DEF TypeOK, StageInv, LockInv, InLock, IncrementCanceled, Begin, Free, Goto
  <1>20. ASSUME NEW p \in Caller, IncrementCached(p)  PROVE LockInv'
    BY <1>20, IncrementCachedEffect
       DEF TypeOK, StageInv, LockInv, InLock, IncrementCached, Begin, Free, Goto
  <1>21. ASSUME NEW p \in Caller, IncrementNonNumeric(p)  PROVE LockInv'
    BY <1>21 DEF TypeOK, StageInv, LockInv, InLock, IncrementNonNumeric, Begin, Free, Goto
  <1>22. ASSUME NEW p \in Caller, IncrementQueues(p)  PROVE LockInv'
    BY <1>22 DEF TypeOK, StageInv, LockInv, InLock, IncrementQueues, Begin, Free, Goto
  <1>23. ASSUME NEW p \in Caller, IncrementLocks(p)  PROVE LockInv'
    BY <1>23 DEF TypeOK, StageInv, LockInv, InLock, IncrementLocks, Goto
  <1>24. ASSUME NEW p \in Caller, IncrementApplies(p)  PROVE LockInv'
    BY <1>24, IncrementAppliesEffect
       DEF TypeOK, StageInv, LockInv, InLock, IncrementApplies, Applied, Goto
  <1>25. ASSUME NEW p \in Caller, IncrementFails(p)  PROVE LockInv'
    BY <1>25 DEF TypeOK, StageInv, LockInv, InLock, IncrementFails, Applied, Goto
  <1>26. ASSUME NEW p \in Caller, IncrementStores(p)  PROVE LockInv'
    BY <1>26, IncrementStoresEffect
       DEF TypeOK, StageInv, LockInv, InLock, IncrementStores, Goto
  <1>27. ASSUME NEW p \in Caller, IncrementReturns(p)  PROVE LockInv'
    BY <1>27, IncrementReturnsEffect
       DEF TypeOK, StageInv, LockInv, InLock, IncrementReturns, Goto
  <1>28. ASSUME NEW p \in Caller, InvalidateActive(p)  PROVE LockInv'
    BY <1>28 DEF TypeOK, StageInv, LockInv, InLock, InvalidateActive, Free, Goto
  <1>29. ASSUME NEW p \in Caller, InvalidateStale(p)  PROVE LockInv'
    BY <1>29 DEF TypeOK, StageInv, LockInv, InLock, InvalidateStale, Goto
  <1>30. ASSUME NEW p \in Caller, Consume(p)  PROVE LockInv'
    BY <1>30 DEF TypeOK, StageInv, LockInv, InLock, Consume, Loader!Consume, Goto
  <1>31. ASSUME JanitorActive  PROVE LockInv'
    BY <1>31 DEF TypeOK, StageInv, LockInv, InLock, JanitorActive
  <1>32. ASSUME JanitorStale  PROVE LockInv'
    BY <1>32 DEF TypeOK, StageInv, LockInv, InLock, JanitorStale
  <1>33. ASSUME Evict  PROVE LockInv'
    BY <1>33 DEF TypeOK, StageInv, LockInv, InLock, Evict
  <1>34. ASSUME BackendWrite  PROVE LockInv'
    BY <1>34 DEF TypeOK, StageInv, LockInv, InLock, BackendWrite
  <1>35. ASSUME Tick  PROVE LockInv'
    BY <1>35, TickEffect DEF TypeOK, StageInv, LockInv, InLock, Tick
  <1> QED
    BY <1>2, <1>3, <1>4, <1>5, <1>6, <1>7, <1>8, <1>9, <1>10, <1>11,
       <1>12, <1>13, <1>14, <1>15, <1>16, <1>17, <1>18, <1>19, <1>20, <1>21,
       <1>22, <1>23, <1>24, <1>25, <1>26, <1>27, <1>28, <1>29, <1>30, <1>31,
       <1>32, <1>33, <1>34, <1>35
       DEF Next, GetStep, LoadStep, IncrementStep, InvalidateStep, Environment

\* Every step keeps ttls in line with the configuration.
LEMMA TtlStep ==
  ASSUME TypeOK, StageInv, TtlInv, Next
  PROVE  TtlInv'
  <1>1. UNCHANGED conf /\ TypeOK' /\ StageInv'
    BY TypeStep, StageStep DEF Next
  <1> USE <1>1, Fixed, NoneAssumption DEF loadVars, loaderVars, cacheVars
  <1>2. ASSUME NEW p \in Caller, GetHit(p)  PROVE TtlInv'
    BY <1>2, ServedEffect DEF TypeOK, StageInv, TtlInv, GetHit, Begin, Free, Goto
  <1>3. ASSUME NEW p \in Caller, GetMiss(p)  PROVE TtlInv'
    BY <1>3 DEF TypeOK, StageInv, TtlInv, GetMiss, Begin, Free, Goto
  <1>4. ASSUME NEW p \in Caller, LoadCanceled(p)  PROVE TtlInv'
    BY <1>4 DEF TypeOK, StageInv, TtlInv, LoadCanceled, Goto
  <1>5. ASSUME NEW p \in Caller, LoadStart(p)  PROVE TtlInv'
    BY <1>5 DEF TypeOK, StageInv, TtlInv, LoadStart, Loader!Start, Goto
  <1>6. ASSUME NEW p \in Caller, LoadJoin(p)  PROVE TtlInv'
    BY <1>6 DEF TypeOK, StageInv, TtlInv, LoadJoin, Loader!Join, Goto
  <1>7. ASSUME NEW p \in Caller, WaitReturns(p)  PROVE TtlInv'
    BY <1>7, WaitReturnsEffect
       DEF TypeOK, StageInv, TtlInv, WaitReturns, Loader!Return, Goto
  <1>8. ASSUME NEW p \in Caller, WaitCanceled(p)  PROVE TtlInv'
    BY <1>8 DEF TypeOK, StageInv, TtlInv, WaitCanceled, Loader!Abandon, Goto
  <1>9. ASSUME NEW p \in Caller, WaitTimeout(p)  PROVE TtlInv'
    BY <1>9 DEF TypeOK, StageInv, TtlInv, WaitTimeout, Loader!Abandon, Goto
  <1>10. ASSUME NEW p \in Caller, DegradeActive(p)  PROVE TtlInv'
    BY <1>10, ServedEffect DEF TypeOK, StageInv, TtlInv, DegradeActive, Goto
  <1>11. ASSUME NEW p \in Caller, DegradeStale(p)  PROVE TtlInv'
    BY <1>11, KeptType DEF TypeOK, StageInv, TtlInv, DegradeStale, Goto
  <1>12. ASSUME GetterReturns  PROVE TtlInv'
    BY <1>12 DEF TypeOK, StageInv, TtlInv, GetterReturns
  <1>13. ASSUME GetterFails  PROVE TtlInv'
    BY <1>13 DEF TypeOK, StageInv, TtlInv, GetterFails
  <1>14. ASSUME StoreValue  PROVE TtlInv'
    BY <1>14, StoreValueEffect DEF TypeOK, StageInv, TtlInv, StoreValue
  <1>15. ASSUME StoreNegative  PROVE TtlInv'
    BY <1>15, StoreNegativeEffect DEF TypeOK, StageInv, TtlInv, StoreNegative
  <1>16. ASSUME StoreStale  PROVE TtlInv'
    <2>1. StaleTTL = 0 \/ TTL = 0 => ~KeepsStale(load.ttl)
      BY <1>16 DEF TtlInv, StoreStale, KeepsStale
    <2> QED BY <1>16, <2>1 DEF TtlInv, StoreStale, RecordStale
  <1>17. ASSUME LoadReturns  PROVE TtlInv'
    BY <1>17, LoadReturnsEffect DEF TypeOK, StageInv, TtlInv, LoadReturns, Loader!Finish
  <1>18. ASSUME LoadRetired  PROVE TtlInv'
    BY <1>18 DEF TypeOK, StageInv, TtlInv, LoadRetired, Loader!Retire
  <1>19. ASSUME NEW p \in Caller, IncrementCanceled(p)  PROVE TtlInv'
    BY <1>19 DEF TypeOK, StageInv, TtlInv, IncrementCanceled, Begin, Free, Goto
  <1>20. ASSUME NEW p \in Caller, IncrementCached(p)  PROVE TtlInv'
    <2>1. PICK h \in [ver : Ver, ttl : 0 .. MaxTTL] :
            (h.ttl > 0 <=> TTL > 0) /\ held' = [held EXCEPT ![p] = h]
      BY <1>20, IncrementCachedEffect
    <2> QED BY <1>20, <2>1 DEF TypeOK, TtlInv, IncrementCached
  <1>21. ASSUME NEW p \in Caller, IncrementNonNumeric(p)  PROVE TtlInv'
    BY <1>21 DEF TypeOK, StageInv, TtlInv, IncrementNonNumeric, Begin, Free, Goto
  <1>22. ASSUME NEW p \in Caller, IncrementQueues(p)  PROVE TtlInv'
    BY <1>22 DEF TypeOK, StageInv, TtlInv, IncrementQueues, Begin, Free, Goto
  <1>23. ASSUME NEW p \in Caller, IncrementLocks(p)  PROVE TtlInv'
    BY <1>23 DEF TypeOK, StageInv, TtlInv, IncrementLocks, Goto
  <1>24. ASSUME NEW p \in Caller, IncrementApplies(p)  PROVE TtlInv'
    <2>1. PICK h \in [ver : Ver, ttl : 0 .. MaxTTL] :
            (h.ttl > 0 <=> TTL > 0) /\ held' = [held EXCEPT ![p] = h]
      BY <1>24, IncrementAppliesEffect
    <2> QED BY <1>24, <2>1 DEF TypeOK, TtlInv, IncrementApplies
  <1>25. ASSUME NEW p \in Caller, IncrementFails(p)  PROVE TtlInv'
    BY <1>25 DEF TypeOK, StageInv, TtlInv, IncrementFails, Applied, Goto
  <1>26. ASSUME NEW p \in Caller, IncrementStores(p)  PROVE TtlInv'
    BY <1>26, IncrementStoresEffect DEF TypeOK, StageInv, TtlInv, IncrementStores, Goto
  <1>27. ASSUME NEW p \in Caller, IncrementReturns(p)  PROVE TtlInv'
    <2>1. StaleTTL = 0 \/ TTL = 0 => ~KeepsStale(held[p].ttl)
      BY <1>27, IncrementReturnsEffect DEF TtlInv, KeepsStale
    <2> QED BY <1>27, <2>1 DEF TypeOK, TtlInv, IncrementReturns, RecordStale
  <1>28. ASSUME NEW p \in Caller, InvalidateActive(p)  PROVE TtlInv'
    BY <1>28 DEF TypeOK, StageInv, TtlInv, InvalidateActive, Free, Goto
  <1>29. ASSUME NEW p \in Caller, InvalidateStale(p)  PROVE TtlInv'
    BY <1>29 DEF TypeOK, StageInv, TtlInv, InvalidateStale, Goto
  <1>30. ASSUME NEW p \in Caller, Consume(p)  PROVE TtlInv'
    BY <1>30 DEF TypeOK, StageInv, TtlInv, Consume, Loader!Consume, Goto
  <1>31. ASSUME JanitorActive  PROVE TtlInv'
    BY <1>31 DEF TypeOK, StageInv, TtlInv, JanitorActive
  <1>32. ASSUME JanitorStale  PROVE TtlInv'
    BY <1>32 DEF TypeOK, StageInv, TtlInv, JanitorStale
  <1>33. ASSUME Evict  PROVE TtlInv'
    BY <1>33 DEF TypeOK, StageInv, TtlInv, Evict
  <1>34. ASSUME BackendWrite  PROVE TtlInv'
    BY <1>34 DEF TypeOK, StageInv, TtlInv, BackendWrite
  <1>35. ASSUME Tick  PROVE TtlInv'
    BY <1>35, TickEffect DEF TypeOK, StageInv, TtlInv, Tick
  <1> QED
    BY <1>2, <1>3, <1>4, <1>5, <1>6, <1>7, <1>8, <1>9, <1>10, <1>11,
       <1>12, <1>13, <1>14, <1>15, <1>16, <1>17, <1>18, <1>19, <1>20, <1>21,
       <1>22, <1>23, <1>24, <1>25, <1>26, <1>27, <1>28, <1>29, <1>30, <1>31,
       <1>32, <1>33, <1>34, <1>35
       DEF Next, GetStep, LoadStep, IncrementStep, InvalidateStep, Environment

\* What all the arguments below start from.
LEMMA ControlStep ==
  ASSUME Control, Next
  PROVE  Control' /\ UNCHANGED conf
  BY TypeStep, StageStep, LockStep, TtlStep DEF Control, Next

-----------------------------------------------------------------------------
(* What most steps leave alone. *)

\* A step that hands out no number: nothing is in other hands than before.  A
\* request that begins is marked with what has been promised so far.
NoNumber ==
  /\ held' = held
  /\ seen'.inc = seen.inc
  /\ \A q \in Caller :
       /\ mark'[q].inc \in {mark[q].inc, seen.inc, 0}
       /\ held[q] # None => mark'[q].inc = mark[q].inc
       /\ pc'[q] = "incDone" =>
            pc[q] = "incDone" /\ got'[q] = got[q] /\ mark'[q].inc = mark[q].inc
       /\ pc'[q] = "incStale" => pc[q] = "incStale" \/ IncrementStores(q)

\* Entry f is what has become of entry e, if nothing was stored.
Fades(e, f) ==
  Live(f) => /\ Live(e)
             /\ f.kind = e.kind /\ f.ver = e.ver
             /\ f.rem <= e.rem /\ (e.rem # Forever => f.rem # Forever)

\* Only three steps of Increment hand out numbers.
LEMMA NumberFrame ==
  ASSUME Control, Next
  PROVE  \/ NoNumber
         \/ \E p \in Caller : IncrementCached(p) \/ IncrementApplies(p) \/ IncrementReturns(p)
  <1>1. UNCHANGED conf /\ TypeOK /\ StageInv
    BY ControlStep DEF Control
  <1> USE <1>1 DEF loadVars, loaderVars, cacheVars
  <1>2. ASSUME NEW p \in Caller, GetHit(p)  PROVE NoNumber
    <2>1. seen'.inc = seen.inc /\ got' = [got EXCEPT ![p] = Served(active)]
      BY <1>2, ServedEffect DEF GetHit
    <2> QED BY <1>2, <2>1 DEF TypeOK, StageInv, NoNumber, GetHit, Begin, Free, Goto
  <1>3. ASSUME NEW p \in Caller, GetMiss(p)  PROVE NoNumber
    BY <1>3 DEF TypeOK, StageInv, NoNumber, GetMiss, Begin, Free, Goto
  <1>4. ASSUME NEW p \in Caller, LoadCanceled(p)  PROVE NoNumber
    BY <1>4 DEF TypeOK, StageInv, NoNumber, LoadCanceled, Goto
  <1>5. ASSUME NEW p \in Caller, LoadStart(p)  PROVE NoNumber
    BY <1>5 DEF TypeOK, StageInv, NoNumber, LoadStart, Loader!Start, Goto
  <1>6. ASSUME NEW p \in Caller, LoadJoin(p)  PROVE NoNumber
    BY <1>6 DEF TypeOK, StageInv, NoNumber, LoadJoin, Loader!Join, Goto
  <1>7. ASSUME NEW p \in Caller, WaitReturns(p)  PROVE NoNumber
    BY <1>7, WaitReturnsEffect
       DEF TypeOK, StageInv, NoNumber, WaitReturns, Loader!Return, Goto
  <1>8. ASSUME NEW p \in Caller, WaitCanceled(p)  PROVE NoNumber
    BY <1>8 DEF TypeOK, StageInv, NoNumber, WaitCanceled, Loader!Abandon, Goto
  <1>9. ASSUME NEW p \in Caller, WaitTimeout(p)  PROVE NoNumber
    BY <1>9 DEF TypeOK, StageInv, NoNumber, WaitTimeout, Loader!Abandon, Goto
  <1>10. ASSUME NEW p \in Caller, DegradeActive(p)  PROVE NoNumber
    <2>1. CASE Live(active)
      <3>1. seen'.inc = seen.inc /\ got' = [got EXCEPT ![p] = Served(active)]
        BY <1>10, <2>1, ServedEffect DEF DegradeActive
      <3> QED BY <1>10, <2>1, <3>1 DEF TypeOK, StageInv, NoNumber, DegradeActive, Goto
    <2>2. CASE ~Live(active)
      BY <1>10, <2>2 DEF TypeOK, StageInv, NoNumber, DegradeActive, Goto
    <2> QED BY <2>1, <2>2
  <1>11. ASSUME NEW p \in Caller, DegradeStale(p)  PROVE NoNumber
    <2>1. CASE Live(stale)
      <3>1. seen'.inc = seen.inc /\ got' = [got EXCEPT ![p] = Served(stale)]
        BY <1>11, <2>1, ServedEffect DEF DegradeStale
      <3> QED BY <1>11, <2>1, <3>1 DEF TypeOK, StageInv, NoNumber, DegradeStale, Goto
    <2>2. CASE ~Live(stale)
      BY <1>11, <2>2 DEF TypeOK, StageInv, NoNumber, DegradeStale, Goto
    <2> QED BY <2>1, <2>2
  <1>12. ASSUME GetterReturns  PROVE NoNumber
    BY <1>12 DEF TypeOK, StageInv, NoNumber, GetterReturns
  <1>13. ASSUME GetterFails  PROVE NoNumber
    BY <1>13 DEF TypeOK, StageInv, NoNumber, GetterFails
  <1>14. ASSUME StoreValue  PROVE NoNumber
    BY <1>14 DEF TypeOK, StageInv, NoNumber, StoreValue
  <1>15. ASSUME StoreNegative  PROVE NoNumber
    BY <1>15 DEF TypeOK, StageInv, NoNumber, StoreNegative
  <1>16. ASSUME StoreStale  PROVE NoNumber
    BY <1>16 DEF TypeOK, StageInv, NoNumber, StoreStale
  <1>17. ASSUME LoadReturns  PROVE NoNumber
    BY <1>17 DEF TypeOK, StageInv, NoNumber, LoadReturns, Loader!Finish
  <1>18. ASSUME LoadRetired  PROVE NoNumber
    BY <1>18 DEF TypeOK, StageInv, NoNumber, LoadRetired, Loader!Retire
  <1>19. ASSUME NEW p \in Caller, IncrementCanceled(p)  PROVE NoNumber
    BY <1>19 DEF TypeOK, StageInv, NoNumber, IncrementCanceled, Begin, Free, Goto
  <1>20. ASSUME NEW p \in Caller, IncrementNonNumeric(p)  PROVE NoNumber
    BY <1>20 DEF TypeOK, StageInv, NoNumber, IncrementNonNumeric, Begin, Free, Goto
  <1>21. ASSUME NEW p \in Caller, IncrementQueues(p)  PROVE NoNumber
    BY <1>21 DEF TypeOK, StageInv, NoNumber, IncrementQueues, Begin, Free, Goto
  <1>22. ASSUME NEW p \in Caller, IncrementLocks(p)  PROVE NoNumber
    BY <1>22 DEF TypeOK, StageInv, NoNumber, IncrementLocks, Goto
  <1>23. ASSUME NEW p \in Caller, IncrementFails(p)  PROVE NoNumber
    BY <1>23 DEF TypeOK, StageInv, NoNumber, IncrementFails, Applied, Goto
  <1>24. ASSUME NEW p \in Caller, IncrementStores(p)  PROVE NoNumber
    BY <1>24 DEF TypeOK, StageInv, NoNumber, IncrementStores, Goto
  <1>25. ASSUME NEW p \in Caller, InvalidateActive(p)  PROVE NoNumber
    <2>1. [seen EXCEPT !.inv = IF "inv" \in Watch THEN db.ver ELSE 0].inc = seen.inc
      BY DEF TypeOK, Promise
    <2> QED BY <1>25, <2>1 DEF TypeOK, StageInv, NoNumber, InvalidateActive, Free, Goto
  <1>26. ASSUME NEW p \in Caller, InvalidateStale(p)  PROVE NoNumber
    <2>1. seen'.inc = seen.inc
      BY <1>26, PromisedType, VerType DEF TypeOK, InvalidateStale
    <2> QED BY <1>26, <2>1 DEF TypeOK, StageInv, NoNumber, InvalidateStale, Goto
  <1>27. ASSUME NEW p \in Caller, Consume(p)  PROVE NoNumber
    BY <1>27 DEF TypeOK, StageInv, NoNumber, Consume, Loader!Consume, Goto
  <1>28. ASSUME JanitorActive  PROVE NoNumber
    BY <1>28 DEF TypeOK, StageInv, NoNumber, JanitorActive
  <1>29. ASSUME JanitorStale  PROVE NoNumber
    BY <1>29 DEF TypeOK, StageInv, NoNumber, JanitorStale
  <1>30. ASSUME Evict  PROVE NoNumber
    BY <1>30 DEF TypeOK, StageInv, NoNumber, Evict
  <1>31. ASSUME BackendWrite  PROVE NoNumber
    BY <1>31 DEF TypeOK, StageInv, NoNumber, BackendWrite
  <1>32. ASSUME Tick  PROVE NoNumber
    BY <1>32 DEF TypeOK, StageInv, NoNumber, Tick
  <1> QED
    BY <1>2, <1>3, <1>4, <1>5, <1>6, <1>7, <1>8, <1>9, <1>10, <1>11,
       <1>12, <1>13, <1>14, <1>15, <1>16, <1>17, <1>18, <1>19, <1>20, <1>21,
       <1>22, <1>23, <1>24, <1>25, <1>26, <1>27, <1>28, <1>29, <1>30, <1>31,
       <1>32
       DEF Next, GetStep, LoadStep, IncrementStep, InvalidateStep, Environment

\* Only loads and increments store into the active cache.
LEMMA ActiveFrame ==
  ASSUME Control, Next
  PROVE  \/ Fades(active, active')
         \/ StoreValue \/ StoreNegative
         \/ \E p \in Caller : IncrementCached(p) \/ IncrementStores(p)
  <1>1. UNCHANGED conf /\ TypeOK
    BY ControlStep DEF Control
  <1>2. active = None \/ active.rem \in Int
    BY <1>1, CacheType, BoundType DEF TypeOK, Expired
  <1>3. ASSUME active' \in {active, None}  PROVE Fades(active, active')
    BY <1>1, <1>2, <1>3, Fixed DEF Fades, Live
  <1>4. ASSUME NEW p \in Caller, GetStep(p)  PROVE active' \in {active, None}
    BY <1>4, KeptType
       DEF GetStep, GetHit, GetMiss, LoadCanceled, LoadStart, LoadJoin, WaitReturns,
           WaitCanceled, WaitTimeout, DegradeActive, DegradeStale, cacheVars
  <1>5. ASSUME LoadStep  PROVE active' = active \/ StoreValue \/ StoreNegative
    BY <1>5 DEF LoadStep, GetterReturns, GetterFails, StoreStale, LoadReturns,
                LoadRetired, cacheVars
  <1>6. ASSUME NEW p \in Caller, IncrementStep(p)
        PROVE  active' = active \/ IncrementCached(p) \/ IncrementStores(p)
    BY <1>6 DEF IncrementStep, IncrementCanceled, IncrementNonNumeric, IncrementQueues,
                IncrementLocks, IncrementApplies, IncrementFails, IncrementReturns, cacheVars
  <1>7. ASSUME NEW p \in Caller, InvalidateStep(p) \/ Consume(p)
        PROVE  active' \in {active, None}
    BY <1>7 DEF InvalidateStep, InvalidateActive, InvalidateStale, Consume, cacheVars
  <1>8. ASSUME JanitorActive \/ JanitorStale \/ Evict \/ BackendWrite
        PROVE  active' \in {active, None}
    BY <1>8, KeptType DEF JanitorActive, JanitorStale, Evict, BackendWrite, cacheVars
  <1>9. ASSUME Tick  PROVE Fades(active, active')
    <2>1. /\ active' = Aged(active)
          /\ Live(active') => Live(active)
          /\ active # None => active'.kind = active.kind /\ active'.ver = active.ver
          /\ Live(active) =>
               active'.rem = IF active.rem = Forever THEN Forever ELSE active.rem - 1
      BY <1>1, <1>9, TickEffect
    <2>2. Live(active) => active.rem <= Forever /\ Forever \in Int /\ active # None
      BY <1>1, CacheType, BoundType DEF TypeOK, Expired
    <2> QED BY <1>1, <1>2, <2>1, <2>2, Fixed DEF Fades
  <1> QED BY <1>3, <1>4, <1>5, <1>6, <1>7, <1>8, <1>9 DEF Next, Environment

\* Only recordStale stores into the stale cache.
LEMMA StaleFrame ==
  ASSUME Control, Next
  PROVE  \/ Fades(stale, stale')
         \/ StoreStale
         \/ \E p \in Caller : IncrementReturns(p)
  <1>1. UNCHANGED conf /\ TypeOK
    BY ControlStep DEF Control
  <1>2. stale = None \/ stale.rem \in Int
    BY <1>1, CacheType, BoundType DEF TypeOK, Expired
  <1>3. ASSUME stale' \in {stale, None}  PROVE Fades(stale, stale')
    BY <1>1, <1>2, <1>3, Fixed DEF Fades, Live
  <1>4. ASSUME NEW p \in Caller, GetStep(p)  PROVE stale' \in {stale, None}
    BY <1>4, KeptType
       DEF GetStep, GetHit, GetMiss, LoadCanceled, LoadStart, LoadJoin, WaitReturns,
           WaitCanceled, WaitTimeout, DegradeActive, DegradeStale, cacheVars
  <1>5. ASSUME LoadStep  PROVE stale' = stale \/ StoreStale
    BY <1>5 DEF LoadStep, GetterReturns, GetterFails, StoreValue, StoreNegative,
                LoadReturns, LoadRetired, cacheVars
  <1>6. ASSUME NEW p \in Caller, IncrementStep(p)
        PROVE  stale' = stale \/ IncrementReturns(p)
    BY <1>6 DEF IncrementStep, IncrementCanceled, IncrementCached, IncrementNonNumeric,
                IncrementQueues, IncrementLocks, IncrementApplies, IncrementFails,
                IncrementStores, cacheVars
  <1>7. ASSUME NEW p \in Caller, InvalidateStep(p) \/ Consume(p)
        PROVE  stale' \in {stale, None}
    BY <1>7 DEF InvalidateStep, InvalidateActive, InvalidateStale, Consume, cacheVars
  <1>8. ASSUME JanitorActive \/ JanitorStale \/ Evict \/ BackendWrite
        PROVE  stale' \in {stale, None}
    BY <1>8, KeptType DEF JanitorActive, JanitorStale, Evict, BackendWrite, cacheVars
  <1>9. ASSUME Tick  PROVE Fades(stale, stale')
    <2>1. /\ stale' = Aged(stale)
          /\ Live(stale') => Live(stale)
          /\ stale # None => stale'.kind = stale.kind /\ stale'.ver = stale.ver
          /\ Live(stale) =>
               stale'.rem = IF stale.rem = Forever THEN Forever ELSE stale.rem - 1
      BY <1>1, <1>9, TickEffect
    <2>2. Live(stale) => stale.rem <= Forever /\ Forever \in Int /\ stale # None
      BY <1>1, CacheType, BoundType DEF TypeOK, Expired
    <2> QED BY <1>1, <1>2, <2>1, <2>2, Fixed DEF Fades
  <1> QED BY <1>3, <1>4, <1>5, <1>6, <1>7, <1>8, <1>9 DEF Next, Environment

\* The value in the backend only changes to a newer one.
LEMMA BackendFrame ==
  ASSUME Control, Next
  PROVE  /\ db'.ver >= db.ver /\ db.ver \in Nat /\ db'.ver \in Nat
         /\ \/ UNCHANGED db
            \/ \E p \in Caller : IncrementApplies(p) \/ IncrementFails(p)
            \/ BackendWrite
  <1>1. UNCHANGED conf /\ TypeOK /\ TypeOK'
    BY ControlStep DEF Control
  <1>2. db.ver \in Nat /\ db'.ver \in Nat
    <2>1. db \in [kind : ValueKind, ver : Ver] /\ db' \in [kind : ValueKind, ver : Ver]
      BY <1>1, Fixed DEF TypeOK
    <2>2. Ver \subseteq Nat
      BY <1>1, VerType
    <2> QED BY <2>1, <2>2
  <1>3. ASSUME NEW p \in Caller, GetStep(p)  PROVE UNCHANGED db
    BY <1>3 DEF GetStep, GetHit, GetMiss, LoadCanceled, LoadStart, LoadJoin, WaitReturns,
                WaitCanceled, WaitTimeout, DegradeActive, DegradeStale
  <1>4. ASSUME LoadStep  PROVE UNCHANGED db
    BY <1>4 DEF LoadStep, GetterReturns, GetterFails, StoreValue, StoreNegative,
                StoreStale, LoadReturns, LoadRetired
  <1>5. ASSUME NEW p \in Caller, IncrementStep(p)
        PROVE  UNCHANGED db \/ IncrementApplies(p) \/ IncrementFails(p)
    BY <1>5 DEF IncrementStep, IncrementCanceled, IncrementCached, IncrementNonNumeric,
                IncrementQueues, IncrementLocks, IncrementStores, IncrementReturns
  <1>6. ASSUME NEW p \in Caller, InvalidateStep(p) \/ Consume(p)  PROVE UNCHANGED db
    BY <1>6 DEF InvalidateStep, InvalidateActive, InvalidateStale, Consume
  <1>7. ASSUME JanitorActive \/ JanitorStale \/ Evict \/ Tick  PROVE UNCHANGED db
    BY <1>7 DEF JanitorActive, JanitorStale, Evict, Tick
  <1>8. \/ UNCHANGED db
        \/ \E p \in Caller : IncrementApplies(p) \/ IncrementFails(p)
        \/ BackendWrite
    BY <1>3, <1>4, <1>5, <1>6, <1>7 DEF Next, Environment
  <1>9. UNCHANGED db \/ db'.ver = db.ver + 1
    BY <1>8 DEF IncrementApplies, IncrementFails, Applied, BackendWrite
  <1> QED BY <1>2, <1>8, <1>9

\* Only a load that ends gives an answer, and only a retired one takes it back.
LEMMA AnswerFrame ==
  ASSUME Next
  PROVE  UNCHANGED answer \/ LoadReturns \/ LoadRetired
  <1>1. ASSUME NEW p \in Caller, GetStep(p)  PROVE UNCHANGED answer
    BY <1>1 DEF GetStep, GetHit, GetMiss, LoadCanceled, LoadStart, LoadJoin, WaitReturns,
                WaitCanceled, WaitTimeout, DegradeActive, DegradeStale, loaderVars,
                Loader!Start, Loader!Join, Loader!Return, Loader!Abandon
  <1>2. ASSUME LoadStep  PROVE UNCHANGED answer \/ LoadReturns \/ LoadRetired
    BY <1>2 DEF LoadStep, GetterReturns, GetterFails, StoreValue, StoreNegative,
                StoreStale, loaderVars
  <1>3. ASSUME NEW p \in Caller, IncrementStep(p)  PROVE UNCHANGED answer
    BY <1>3 DEF IncrementStep, IncrementCanceled, IncrementCached, IncrementNonNumeric,
                IncrementQueues, IncrementLocks, IncrementApplies, IncrementFails,
                IncrementStores, IncrementReturns, loaderVars
  <1>4. ASSUME NEW p \in Caller, InvalidateStep(p) \/ Consume(p)  PROVE UNCHANGED answer
    BY <1>4 DEF InvalidateStep, InvalidateActive, InvalidateStale, Consume,
                Loader!Consume, loaderVars
  <1>5. ASSUME Environment  PROVE UNCHANGED answer
    BY <1>5 DEF Environment, JanitorActive, JanitorStale, Evict, BackendWrite, Tick,
                loaderVars
  <1> QED BY <1>1, <1>2, <1>3, <1>4, <1>5 DEF Next

-----------------------------------------------------------------------------
(* Increments. *)

\* With an incrementer: a number is handed out under the lock, above all others.
LEMMA NumberStep ==
  ASSUME Control, NumberInv, Next
  PROVE  NumberInv'
  <1>1. UNCHANGED conf /\ TypeOK /\ StageInv /\ Durable' = Durable
    BY ControlStep, Fixed DEF Control
  <1>2. db'.ver >= db.ver /\ db.ver \in Nat /\ db'.ver \in Nat
    BY BackendFrame
  <1>3. /\ seen.inc \in Nat
        /\ \A q \in Caller : mark[q].inc \in Nat /\ (held[q] # None => held[q].ver \in Nat)
    BY <1>1, VerType DEF TypeOK
  <1> SUFFICES ASSUME Durable  PROVE NumberInv'
    BY <1>1 DEF NumberInv
  <1>4. /\ seen.inc <= db.ver
        /\ \A q \in Caller :
             /\ mark[q].inc <= seen.inc
             /\ held[q] # None => held[q].ver <= db.ver /\ held[q].ver > mark[q].inc
             /\ Grows(q)
    BY DEF NumberInv
  <1>5. CASE NoNumber
    BY <1>1, <1>2, <1>3, <1>4, <1>5 DEF NumberInv, NoNumber, Grows
  <1>6. ASSUME NEW p \in Caller, IncrementCached(p)  PROVE NumberInv'
    BY <1>6 DEF IncrementCached
  <1>7. ASSUME NEW p \in Caller, IncrementApplies(p)  PROVE NumberInv'
    <2>1. PICK h \in [ver : Ver, ttl : 0 .. MaxTTL] :
            h.ver = db.ver + 1 /\ held' = [held EXCEPT ![p] = h] /\ db'.ver = db.ver + 1
      BY <1>1, <1>7, IncrementAppliesEffect
    <2>2. UNCHANGED <<seen, mark, got>> /\ pc' = [pc EXCEPT ![p] = "incStore"]
      BY <1>7 DEF IncrementApplies, Goto
    <2>3. ASSUME NEW q \in Caller
          PROVE  /\ held'[q] # None => held'[q].ver <= db'.ver /\ held'[q].ver > mark[q].inc
                 /\ Grows(q)'
      BY <1>1, <1>2, <1>3, <1>4, <2>1, <2>2 DEF TypeOK, Grows
    <2> QED BY <1>1, <1>2, <1>3, <1>4, <2>1, <2>2, <2>3 DEF NumberInv
  <1>8. ASSUME NEW p \in Caller, IncrementReturns(p)  PROVE NumberInv'
    <2>1. /\ held[p] # None
          /\ seen'.inc = IF "inc" \in Watch THEN Later(seen.inc, held[p].ver) ELSE seen.inc
      BY <1>1, <1>8, IncrementReturnsEffect
    <2>2. PICK r \in Answer : r.ver = held[p].ver /\ got' = [got EXCEPT ![p] = r]
      BY <1>1, <1>8, IncrementReturnsEffect
    <2>3. UNCHANGED <<db, mark>> /\ pc' = [pc EXCEPT ![p] = "incDone"]
          /\ held' = [held EXCEPT ![p] = None]
      BY <1>8 DEF IncrementReturns, Goto
    <2>4. seen'.inc <= db.ver /\ seen'.inc >= seen.inc /\ seen'.inc \in Nat
      BY <1>2, <1>3, <1>4, <2>1 DEF Later
    <2>5. ASSUME NEW q \in Caller
          PROVE  /\ held'[q] # None => held'[q].ver <= db.ver /\ held'[q].ver > mark[q].inc
                 /\ Grows(q)'
      BY <1>1, <1>3, <1>4, <2>1, <2>2, <2>3 DEF TypeOK, Grows
    <2> QED BY <1>1, <1>2, <1>3, <1>4, <2>3, <2>4, <2>5 DEF NumberInv
  <1> QED BY <1>5, <1>6, <1>7, <1>8, NumberFrame

\* The owner of the lock holds the newest number and stores it in both caches.
LEMMA NewestStep ==
  ASSUME Control, NumberInv, NewestInv, Next
  PROVE  NewestInv'
  <1>1. UNCHANGED conf /\ TypeOK /\ StageInv /\ LockInv /\ TtlInv
        /\ Durable' = Durable /\ Ops' = Ops
    BY ControlStep, Fixed DEF Control
  <1>2. db'.ver >= db.ver /\ db.ver \in Nat /\ db'.ver \in Nat
    BY BackendFrame
  <1>3. /\ seen.inc \in Nat
        /\ \A q \in Caller : held[q] # None => held[q].ver \in Nat
        /\ \A e \in {active, stale} : Live(e) => e.ver \in Nat
    <2>1. Ver \subseteq Nat
      BY <1>1, VerType
    <2>2. \A e \in {active, stale} : Live(e) => e.ver \in Ver
      BY <1>1, CacheType
    <2> QED BY <1>1, <2>1, <2>2, VerType DEF TypeOK
  <1> SUFFICES ASSUME Durable, "Get" \notin Ops  PROVE NewestInv'
    BY <1>1 DEF NewestInv
  <1>4. /\ \A e \in {active, stale} : Live(e) => seen.inc <= e.ver /\ e.ver <= db.ver
        /\ \A q \in Caller :
             held[q] # None =>
               /\ seen.inc <= held[q].ver
               /\ \A e \in {active, stale} : Live(e) => e.ver <= held[q].ver
               /\ pc[q] = "incStale" /\ Live(active) => active.ver = held[q].ver
    BY DEF NewestInv
  <1>5. seen.inc <= db.ver /\ \A q \in Caller : held[q] # None => held[q].ver <= db.ver
    BY DEF NumberInv
  <1>6. ASSUME NEW p \in Caller, InLock(p), NEW q \in Caller, held[q] # None  PROVE q = p
    BY <1>1, <1>6 DEF StageInv, LockInv, InLock
  <1>7. phase = "none"
    BY <1>1 DEF StageInv, TypeOK
  <1>8. ASSUME NEW p \in Caller, IncrementApplies(p)  PROVE NewestInv'
    <2>1. PICK h \in [ver : Ver, ttl : 0 .. MaxTTL] :
            h.ver = db.ver + 1 /\ held' = [held EXCEPT ![p] = h] /\ db'.ver = db.ver + 1
      BY <1>1, <1>8, IncrementAppliesEffect
    <2>2. /\ UNCHANGED <<active, stale, seen>>
          /\ pc' = [pc EXCEPT ![p] = "incStore"]
          /\ InLock(p)
      BY <1>8 DEF IncrementApplies, Goto, cacheVars, InLock
    <2>3. ASSUME NEW q \in Caller, held'[q] # None
          PROVE  q = p /\ held'[q] = h /\ pc'[q] = "incStore"
      BY <1>1, <1>6, <2>1, <2>2, <2>3 DEF TypeOK
    <2>4. UNCHANGED <<Live(active), Live(stale)>>
      BY <2>2 DEF Live
    <2> QED BY <1>2, <1>3, <1>4, <1>5, <2>1, <2>2, <2>3, <2>4 DEF NewestInv
  <1>9. ASSUME NEW p \in Caller, IncrementStores(p)  PROVE NewestInv'
    <2>1. held[p] # None /\ active'.ver = held[p].ver
      BY <1>1, <1>9, IncrementStoresEffect
    <2>2. UNCHANGED <<db, stale, seen, held>> /\ InLock(p)
      BY <1>9 DEF IncrementStores, InLock
    <2>3. UNCHANGED Live(stale)
      BY <2>2 DEF Live
    <2> QED BY <1>3, <1>4, <1>5, <1>6, <2>1, <2>2, <2>3 DEF NewestInv
  <1>10. ASSUME NEW p \in Caller, IncrementReturns(p)  PROVE NewestInv'
    <2>1. /\ held[p] # None
          /\ ~KeepsStale(held[p].ttl) => stale' = stale
          /\ KeepsStale(held[p].ttl) => stale'.ver = held[p].ver
          /\ seen'.inc = IF "inc" \in Watch THEN Later(seen.inc, held[p].ver) ELSE seen.inc
      BY <1>1, <1>10, IncrementReturnsEffect
    <2>2. /\ UNCHANGED <<active, db>> /\ held' = [held EXCEPT ![p] = None]
          /\ pc[p] = "incStale" /\ InLock(p)
      BY <1>10 DEF IncrementReturns, InLock
    <2>3. seen'.inc <= held[p].ver
      BY <1>3, <1>4, <2>1 DEF Later
    <2>4. ~KeepsStale(held[p].ttl) => stale = None
      BY <1>1, <2>1, ConfType DEF KeepsStale, TtlInv, TypeOK
    <2>5. ASSUME NEW q \in Caller  PROVE held'[q] = None
      BY <1>1, <1>6, <2>2 DEF TypeOK
    <2>6. Live(stale') => stale'.ver = held[p].ver
      BY <2>1, <2>4 DEF Live
    <2>7. Live(active') => active'.ver = held[p].ver
      BY <1>4, <2>1, <2>2 DEF Live
    <2> QED BY <1>2, <1>3, <1>5, <2>1, <2>2, <2>3, <2>5, <2>6, <2>7 DEF NewestInv
  <1>11. ASSUME NoNumber, Fades(active, active'), Fades(stale, stale'),
                ~ \E p \in Caller : IncrementStores(p)
         PROVE  NewestInv'
    BY <1>2, <1>3, <1>4, <1>5, <1>11 DEF NewestInv, NoNumber, Fades
  <1>12. ~ \E p \in Caller : IncrementCached(p)
    BY DEF IncrementCached
  <1>13. ~StoreValue /\ ~StoreNegative /\ ~StoreStale
    BY <1>7 DEF StoreValue, StoreNegative, StoreStale
  <1> QED
    BY <1>8, <1>9, <1>10, <1>11, <1>12, <1>13, NumberFrame, ActiveFrame, StaleFrame

\* Without an incrementer: the number in the cache counts every Increment.
LEMMA CountStep ==
  ASSUME Control, CountInv, Next
  PROVE  CountInv'
  <1>1. UNCHANGED conf /\ TypeOK /\ StageInv
        /\ Durable' = Durable /\ Ops' = Ops /\ Faults' = Faults
    BY ControlStep, Fixed DEF Control
  <1> SUFFICES ASSUME ~Durable, Ops = {"Increment"}, Faults \cap {"evict", "time"} = {}
               PROVE  CountInv'
    BY <1>1 DEF CountInv
  <1>2. /\ active # None => Live(active) /\ active.kind = "number"
        /\ seen.inc <= Current
        /\ \A q \in Caller :
             /\ mark[q].inc <= seen.inc
             /\ held[q] # None => held[q].ver <= Current /\ held[q].ver > mark[q].inc
             /\ Grows(q)
    BY DEF CountInv
  <1>3. /\ seen.inc \in Nat /\ Current \in Nat
        /\ \A q \in Caller : mark[q].inc \in Nat /\ (held[q] # None => held[q].ver \in Nat)
    <2>1. Ver \subseteq Nat /\ (Live(active) => active.ver \in Ver)
      BY <1>1, VerType, CacheType
    <2>2. Current \in Nat
      BY <2>1 DEF Current
    <2> QED BY <1>1, <2>1, <2>2, VerType DEF TypeOK
  <1>4. ASSUME ~ \E p \in Caller : IncrementCached(p)  PROVE UNCHANGED active
    <2>1. phase = "none" /\ \A p \in Caller : pc[p] # "degrade"
      BY <1>1 DEF StageInv, TypeOK
    <2>2. ASSUME NEW p \in Caller, GetStep(p)  PROVE UNCHANGED active
      BY <2>1, <2>2
         DEF GetStep, GetHit, GetMiss, LoadCanceled, LoadStart, LoadJoin, WaitReturns,
             WaitCanceled, WaitTimeout, DegradeActive, DegradeStale, cacheVars
    <2>3. ASSUME LoadStep  PROVE UNCHANGED active
      BY <2>1, <2>3 DEF LoadStep, GetterReturns, GetterFails, StoreValue, StoreNegative,
                        StoreStale, LoadReturns, LoadRetired, cacheVars
    <2>4. ASSUME NEW p \in Caller, IncrementStep(p)  PROVE UNCHANGED active
      BY <1>1, <1>4, <2>4
         DEF IncrementStep, IncrementCanceled, IncrementNonNumeric, IncrementQueues,
             IncrementLocks, IncrementApplies, IncrementFails, IncrementStores,
             IncrementReturns, cacheVars, StageInv
    <2>5. ASSUME NEW p \in Caller, InvalidateStep(p) \/ Consume(p)  PROVE UNCHANGED active
      BY <2>5 DEF InvalidateStep, InvalidateActive, InvalidateStale, Consume, cacheVars
    <2>6. ASSUME Environment  PROVE UNCHANGED active
      BY <1>2, <2>6 DEF Environment, JanitorActive, JanitorStale, Evict, BackendWrite,
                        Tick, cacheVars
    <2> QED BY <2>2, <2>3, <2>4, <2>5, <2>6 DEF Next
  <1>5. ASSUME UNCHANGED active  PROVE UNCHANGED <<Live(active), Current>>
    BY <1>5 DEF Live, Current
  <1>6. ASSUME NEW p \in Caller, IncrementCached(p)  PROVE CountInv'
    <2>1. PICK h \in [ver : Ver, ttl : 0 .. MaxTTL] :
            /\ h.ver = Current + 1 /\ held' = [held EXCEPT ![p] = h]
            /\ Live(active') /\ active'.kind = "number" /\ active'.ver = h.ver
      BY <1>1, <1>6, IncrementCachedEffect
    <2>2. /\ UNCHANGED <<seen, got>> /\ pc' = [pc EXCEPT ![p] = "incStale"]
          /\ mark' = [mark EXCEPT ![p] = seen]
      BY <1>6 DEF IncrementCached, Begin, Goto
    <2>3. Current' = Current + 1
      BY <2>1 DEF Current
    <2>4. ASSUME NEW q \in Caller
          PROVE  /\ mark'[q].inc <= seen.inc
                 /\ held'[q] # None =>
                      held'[q].ver <= Current' /\ held'[q].ver > mark'[q].inc
                 /\ Grows(q)'
      BY <1>1, <1>2, <1>3, <2>1, <2>2, <2>3 DEF TypeOK, Grows
    <2> QED BY <1>2, <1>3, <2>1, <2>2, <2>3, <2>4 DEF CountInv
  <1>7. ASSUME NEW p \in Caller, IncrementReturns(p), UNCHANGED active  PROVE CountInv'
    <2>1. /\ held[p] # None
          /\ seen'.inc = IF "inc" \in Watch THEN Later(seen.inc, held[p].ver) ELSE seen.inc
      BY <1>1, <1>7, IncrementReturnsEffect
    <2>2. PICK r \in Answer : r.ver = held[p].ver /\ got' = [got EXCEPT ![p] = r]
      BY <1>1, <1>7, IncrementReturnsEffect
    <2>3. UNCHANGED mark /\ pc' = [pc EXCEPT ![p] = "incDone"]
          /\ held' = [held EXCEPT ![p] = None]
      BY <1>7 DEF IncrementReturns, Goto
    <2>4. seen'.inc <= Current /\ seen'.inc >= seen.inc /\ seen'.inc \in Nat
      BY <1>2, <1>3, <2>1 DEF Later
    <2>5. ASSUME NEW q \in Caller
          PROVE  /\ held'[q] # None => held'[q].ver <= Current /\ held'[q].ver > mark[q].inc
                 /\ Grows(q)'
      BY <1>1, <1>2, <1>3, <2>1, <2>2, <2>3 DEF TypeOK, Grows
    <2> QED BY <1>2, <1>3, <1>5, <1>7, <2>3, <2>4, <2>5 DEF CountInv
  <1>8. ASSUME NoNumber, UNCHANGED active  PROVE CountInv'
    BY <1>2, <1>3, <1>5, <1>8 DEF CountInv, NoNumber, Grows
  <1>9. ~ \E p \in Caller : IncrementApplies(p)
    BY <1>1 DEF IncrementApplies, StageInv
  <1> QED BY <1>4, <1>6, <1>7, <1>8, <1>9, NumberFrame

-----------------------------------------------------------------------------
(* Expiration. *)

\* A copy is made for every value stored, and goes only with it.
LEMMA FallbackStep ==
  ASSUME Control, FallbackInv, Next
  PROVE  FallbackInv'
  <1>1. UNCHANGED conf /\ TypeOK /\ StageInv /\ TtlInv
        /\ StaleTTL' = StaleTTL /\ TTL' = TTL /\ Ops' = Ops /\ Faults' = Faults
    BY ControlStep, Fixed DEF Control
  <1> SUFFICES ASSUME StaleTTL > 0, TTL > 0, Ops = {"Get"}, "evict" \notin Faults
               PROVE  FallbackInv'
    BY <1>1 DEF FallbackInv, FallbackOutlivesActive
  <1>2. /\ StaleTTL \in Nat /\ TTL \in Nat /\ Forever \in Nat
        /\ \A e \in {active, stale} : e # None => e.rem \in Int /\ e.ver \in Nat
    <2>1. conf \in Scenario /\ Ver \subseteq Nat
      BY <1>1, VerType
    <2>2. \A e \in {active, stale} : e # None => e \in Entry
      BY <1>1, CacheType
    <2> QED BY <2>1, <2>2, ConfType, BoundType, EntryType
  <1>3. /\ Live(active) /\ active.kind # "absent" /\ phase # "stale" =>
             stale # None /\ stale.ver = active.ver /\ stale.rem >= active.rem + StaleTTL
        /\ phase = "stale" /\ Live(active) =>
             active.ver = load.ver /\ active.rem <= load.ttl
    BY DEF FallbackInv, FallbackOutlivesActive
  <1>4. ASSUME NEW e \in {active, stale}, Live(e)  PROVE e # None
    BY <1>4 DEF Live
  <1>5. ~ \E p \in Caller : IncrementStep(p)
    BY <1>1 DEF IncrementStep, IncrementCanceled, IncrementCached, IncrementNonNumeric,
                IncrementQueues, IncrementLocks, IncrementApplies, IncrementFails,
                IncrementStores, IncrementReturns, StageInv
  <1>6. ASSUME StoreValue  PROVE FallbackInv'
    <2>1. /\ active'.ver = load'.ver
          /\ active'.rem = load'.ttl
          /\ phase' = "stale"
          /\ load'.ttl \in Nat
      BY <1>1, <1>6, StoreValueEffect, BoundType DEF StoreValue, TypeOK
    <2> QED BY <2>1 DEF FallbackInv, FallbackOutlivesActive
  <1>7. ASSUME StoreNegative  PROVE FallbackInv'
    <2>1. phase = "store" /\ phase' = "done" /\ UNCHANGED stale
      BY <1>7 DEF StoreNegative
    <2>2. CASE NegTTL > 0
      <3>1. active'.kind = "absent"
        BY <1>1, <1>7, <2>2, StoreNegativeEffect
      <3> QED BY <2>1, <3>1 DEF FallbackInv, FallbackOutlivesActive
    <2>3. CASE NegTTL = 0
      <3>1. active' = active
        BY <1>1, <1>7, <2>3, StoreNegativeEffect
      <3> QED BY <1>1, <1>3, <2>1, <3>1 DEF FallbackInv, FallbackOutlivesActive, Live
    <2> QED BY <1>1, <2>2, <2>3, ConfType DEF TypeOK
  <1>8. ASSUME StoreStale  PROVE FallbackInv'
    <2>1. /\ load.kind \in ValueKind /\ load.ver \in Ver /\ load.ttl \in 0 .. MaxTTL
          /\ load.ttl > 0 /\ phase = "stale" /\ phase' = "done" /\ UNCHANGED active
      BY <1>1, <1>8 DEF TypeOK, StageInv, TtlInv, StoreStale
    <2>2. KeepsStale(load.ttl) /\ RecordStale(load.kind, load.ver, load.ttl)
      BY <1>8, <2>1 DEF StoreStale, KeepsStale
    <2>3. stale' \in Entry /\ Live(stale') /\ stale'.ver = load.ver
          /\ stale'.rem = load.ttl + StaleTTL
      BY <1>1, <2>1, <2>2, RecordStaleEffect
    <2>4. stale' # None /\ load.ttl \in Int
      BY <1>1, <2>1, <2>3, BoundType DEF Live, TypeOK
    <2>5. Live(active') =>
            active'.ver = load.ver /\ active'.rem <= load.ttl /\ active'.rem \in Int
      BY <1>2, <1>3, <1>4, <2>1 DEF Live
    <2> QED BY <1>1, <1>2, <2>1, <2>3, <2>4, <2>5 DEF FallbackInv, FallbackOutlivesActive
  <1>9. ASSUME Tick  PROVE FallbackInv'
    <2>1. /\ UNCHANGED phase
          /\ Live(active') => Live(active)
          /\ active # None => active'.kind = active.kind /\ active'.ver = active.ver
          /\ Live(active) =>
               active'.rem = IF active.rem = Forever THEN Forever ELSE active.rem - 1
          /\ stale # None => stale' # None /\ stale'.ver = stale.ver
          /\ Live(stale) =>
               stale'.rem = IF stale.rem = Forever THEN Forever ELSE stale.rem - 1
      BY <1>1, <1>9, TickEffect DEF Tick
    <2>2. phase = "stale" =>
            load'.ver = load.ver /\ load'.ttl = load.ttl /\ load.ttl \in Nat
      BY <1>1, <1>9, TickEffect, BoundType DEF StageInv, TypeOK
    <2>3. active.rem = Forever => ~Live(active) \/ phase = "stale" \/ active.kind = "absent"
      <3>1. stale # None => stale.rem <= Forever
        BY <1>1, CacheType, BoundType DEF TypeOK, Expired
      <3> QED BY <1>2, <1>3, <3>1
    <2>4. Live(active) /\ active.kind # "absent" /\ phase # "stale" => Live(stale)
      <3>1. Live(active) => active.rem >= 0
        BY <1>1, CacheType, BoundType DEF TypeOK, Live, Expired
      <3> QED BY <1>2, <1>3, <1>4, <3>1 DEF Live, Expired
    <2> QED
      BY <1>1, <1>2, <1>3, <1>4, <2>1, <2>2, <2>3, <2>4
         DEF FallbackInv, FallbackOutlivesActive
  <1>10. ASSUME active' \in {active, None}, stale' \in {stale, Kept(stale)},
                phase' = "stale" <=> phase = "stale", phase = "stale" => UNCHANGED load
         PROVE  FallbackInv'
    <2>1. Live(active') => Live(active) /\ active' = active
      BY <1>10 DEF Live
    <2>2. Live(active) /\ active.kind # "absent" /\ phase # "stale" => stale' = stale
      <3>1. Live(active) => active.rem >= 0
        BY <1>1, CacheType, BoundType DEF TypeOK, Live, Expired
      <3>2. Live(active) /\ active.kind # "absent" /\ phase # "stale" => Live(stale)
        BY <1>2, <1>3, <1>4, <3>1 DEF Live, Expired
      <3> QED BY <1>10, <3>2, KeptType
    <2> QED BY <1>1, <1>3, <1>10, <2>1, <2>2 DEF FallbackInv, FallbackOutlivesActive
  <1>11. ASSUME NEW p \in Caller, GetStep(p)  PROVE FallbackInv'
    <2>1. LoadStart(p) => phase = "none"
      BY <1>1 DEF LoadStart, Loader!Start, StageInv, TypeOK
    <2>2. active' \in {active, None} /\ stale' \in {stale, Kept(stale)}
      BY <1>11, KeptType
         DEF GetStep, GetHit, GetMiss, LoadCanceled, LoadStart, LoadJoin, WaitReturns,
             WaitCanceled, WaitTimeout, DegradeActive, DegradeStale, cacheVars
    <2>3. UNCHANGED load /\ (phase' = "stale" <=> phase = "stale")
      BY <1>11, <2>1
         DEF GetStep, GetHit, GetMiss, LoadCanceled, LoadStart, LoadJoin, WaitReturns,
             WaitCanceled, WaitTimeout, DegradeActive, DegradeStale, loadVars
    <2> QED BY <1>10, <2>2, <2>3
  <1>12. ASSUME LoadStep  PROVE FallbackInv'
    BY <1>6, <1>7, <1>8, <1>10, <1>12
       DEF LoadStep, GetterReturns, GetterFails, LoadReturns, LoadRetired, cacheVars,
           loadVars
  <1>13. ASSUME NEW p \in Caller, InvalidateStep(p) \/ Consume(p)  PROVE FallbackInv'
    BY <1>1, <1>10, <1>13
       DEF InvalidateStep, InvalidateActive, InvalidateStale, Consume, cacheVars, loadVars,
           StageInv
  <1>14. ASSUME Environment  PROVE FallbackInv'
    BY <1>9, <1>10, <1>14, KeptType
       DEF Environment, JanitorActive, JanitorStale, Evict, BackendWrite, cacheVars,
           loadVars
  <1> QED BY <1>5, <1>11, <1>12, <1>13, <1>14 DEF Next

\* What an entry has left and what it says ages together.
LEMMA TimeStep ==
  ASSUME Control, TimeInv, Next
  PROVE  TimeInv'
  <1>1. UNCHANGED conf /\ TypeOK /\ TypeOK' /\ StageInv /\ TtlInv /\ Ver' = Ver
        /\ TTL' = TTL /\ Ops' = Ops /\ MaxTTL' = MaxTTL /\ StaleTTL' = StaleTTL
        /\ NegTTL' = NegTTL /\ MaxLoad' = MaxLoad /\ Forever' = Forever
    BY ControlStep, Fixed DEF Control
  <1>2. /\ conf \in Scenario /\ Ver \subseteq Nat /\ db.ver \in Ver
        /\ TTL \in Nat /\ StaleTTL \in Nat /\ NegTTL \in Nat /\ MaxLoad \in Nat
        /\ MaxTTL \in Nat /\ Forever = MaxTTL + StaleTTL + NegTTL + 1
        /\ \A v \in Ver : lapse[v] \in Nat /\ lapse'[v] \in Nat
    <2>1. conf \in Scenario /\ Ver \subseteq Nat /\ db.ver \in Ver
      BY <1>1, VerType
    <2>2. /\ Horizon \in Nat
          /\ lapse \in [Ver -> 0 .. Horizon] /\ lapse' \in [Ver -> 0 .. Horizon]
      BY <1>1, Fixed, BoundType DEF TypeOK
    <2> QED BY <2>1, <2>2, ConfType, BoundType
  <1>3. db'.ver >= db.ver /\ db.ver \in Nat /\ db'.ver \in Nat
    BY BackendFrame
  <1>4. \A v \in Ver : v >= db.ver => lapse[v] = 0
    BY DEF TimeInv
  <1>5. UNCHANGED lapse \/ Tick
    <2>1. ASSUME NEW p \in Caller, GetStep(p)  PROVE UNCHANGED lapse
      BY <2>1 DEF GetStep, GetHit, GetMiss, LoadCanceled, LoadStart, LoadJoin, WaitReturns,
                  WaitCanceled, WaitTimeout, DegradeActive, DegradeStale
    <2>2. ASSUME LoadStep  PROVE UNCHANGED lapse
      BY <2>2 DEF LoadStep, GetterReturns, GetterFails, StoreValue, StoreNegative,
                  StoreStale, LoadReturns, LoadRetired
    <2>3. ASSUME NEW p \in Caller, IncrementStep(p)  PROVE UNCHANGED lapse
      BY <2>3 DEF IncrementStep, IncrementCanceled, IncrementCached, IncrementNonNumeric,
                  IncrementQueues, IncrementLocks, IncrementApplies, IncrementFails,
                  IncrementStores, IncrementReturns
    <2>4. ASSUME NEW p \in Caller, InvalidateStep(p) \/ Consume(p)  PROVE UNCHANGED lapse
      BY <2>4 DEF InvalidateStep, InvalidateActive, InvalidateStale, Consume
    <2>5. ASSUME JanitorActive \/ JanitorStale \/ Evict \/ BackendWrite
          PROVE  UNCHANGED lapse
      BY <2>5 DEF JanitorActive, JanitorStale, Evict, BackendWrite
    <2> QED BY <2>1, <2>2, <2>3, <2>4, <2>5 DEF Next, Environment
  <1>6. \A v \in Ver : v >= db'.ver => lapse'[v] = 0
    <2>1. Tick => UNCHANGED db /\ \A v \in Ver : v >= db.ver => lapse'[v] = 0
      BY <1>1, TickEffect DEF Tick
    <2> QED BY <1>2, <1>3, <1>4, <1>5, <2>1
  <1> SUFFICES ASSUME TTL > 0, "Increment" \notin Ops  PROVE TimeInv'
    BY <1>1, <1>6 DEF TimeInv
  <1>7. /\ load # None /\ load.kind # "error" => lapse[load.ver] <= load.age
        /\ Live(active) =>
             /\ active.rem # Forever
             /\ lapse[active.ver] + active.rem <= MaxLoad + Later(MaxTTL, NegTTL)
        /\ Live(stale) =>
             /\ stale.rem # Forever
             /\ lapse[stale.ver] + stale.rem <= MaxLoad + MaxTTL + StaleTTL
    BY DEF TimeInv
  <1>8. /\ load # None => /\ load.ver \in Ver /\ lapse[load.ver] \in Nat
                          /\ load.age \in Nat /\ load.age <= MaxLoad
        /\ Live(active) => /\ active # None /\ active.rem \in Int
                           /\ active.ver \in Ver /\ lapse[active.ver] \in Nat
        /\ Live(stale) => /\ stale # None /\ stale.rem \in Int
                          /\ stale.ver \in Ver /\ lapse[stale.ver] \in Nat
    <2>1. /\ Live(active) => active \in Entry
          /\ Live(stale) => stale \in Entry
      BY <1>1, CacheType
    <2>2. load # None => load.ver \in Ver /\ load.age \in 0 .. MaxLoad
      BY <1>1 DEF TypeOK
    <2>3. /\ Live(active) => active # None /\ active.rem \in Int /\ active.ver \in Ver
          /\ Live(stale) => stale # None /\ stale.rem \in Int /\ stale.ver \in Ver
      BY <1>2, <2>1, EntryType
    <2>4. load # None => load.age \in Nat /\ load.age <= MaxLoad
      BY <1>2, <2>2
    <2>5. \A v \in Ver : lapse[v] \in Nat
      BY <1>2
    <2> QED BY <2>2, <2>3, <2>4, <2>5
  <1>9. ~ \E p \in Caller : IncrementStep(p)
    BY <1>1 DEF IncrementStep, IncrementCanceled, IncrementCached, IncrementNonNumeric,
                IncrementQueues, IncrementLocks, IncrementApplies, IncrementFails,
                IncrementStores, IncrementReturns, StageInv
  <1>10. /\ Later(MaxTTL, NegTTL) \in Nat
         /\ Later(MaxTTL, NegTTL) >= MaxTTL /\ Later(MaxTTL, NegTTL) >= NegTTL
    BY <1>2 DEF Later
  <1>11. load' # None /\ load'.kind # "error" => lapse'[load'.ver] <= load'.age
    <2>1. CASE UNCHANGED <<load, lapse>>
      BY <1>7, <2>1
    <2>2. ASSUME NEW p \in Caller, GetStep(p)  PROVE UNCHANGED <<load, lapse>>
      BY <2>2 DEF GetStep, GetHit, GetMiss, LoadCanceled, LoadStart, LoadJoin, WaitReturns,
                  WaitCanceled, WaitTimeout, DegradeActive, DegradeStale, loadVars
    <2>3. CASE GetterReturns
      <3>1. load'.ver = db.ver /\ load'.age = 0 /\ UNCHANGED lapse
        BY <2>3 DEF GetterReturns
      <3>2. lapse[db.ver] = 0
        BY <1>2, <1>3, <1>4
      <3> QED BY <3>1, <3>2
    <2>4. CASE GetterFails
      BY <2>4 DEF GetterFails
    <2>5. CASE StoreValue
      <3>1. /\ load # None /\ load.kind # "error" /\ UNCHANGED lapse
            /\ load'.ver = load.ver /\ load'.age = load.age
        BY <1>1, <2>5, StoreValueEffect DEF StoreValue
      <3> QED BY <1>7, <3>1
    <2>6. CASE StoreNegative \/ StoreStale \/ LoadRetired
      BY <2>1, <2>6 DEF StoreNegative, StoreStale, LoadRetired, loadVars
    <2>7. CASE LoadReturns
      BY <2>7 DEF LoadReturns
    <2>8. ASSUME NEW p \in Caller, InvalidateStep(p) \/ Consume(p)
          PROVE  UNCHANGED <<load, lapse>>
      BY <2>8 DEF InvalidateStep, InvalidateActive, InvalidateStale, Consume, loadVars
    <2>9. CASE JanitorActive \/ JanitorStale \/ Evict \/ BackendWrite
      BY <2>1, <2>9 DEF JanitorActive, JanitorStale, Evict, BackendWrite, loadVars
    <2>10. CASE Tick
      <3>1. /\ load = None => load' = None
            /\ load # None =>
                 load'.age = load.age + 1 /\ load'.kind = load.kind /\ load'.ver = load.ver
            /\ \A v \in Ver : lapse'[v] <= lapse[v] + 1
        BY <1>1, <2>10, TickEffect
      <3>2. load # None =>
              lapse'[load.ver] <= lapse[load.ver] + 1 /\ lapse'[load.ver] \in Nat
        BY <1>2, <1>8, <3>1
      <3> QED BY <1>7, <1>8, <3>1, <3>2
    <2> QED BY <1>9, <2>1, <2>2, <2>3, <2>4, <2>5, <2>6, <2>7, <2>8, <2>9, <2>10
            DEF Next, LoadStep, Environment
  <1>12. Live(active') =>
           /\ active'.rem # Forever
           /\ lapse'[active'.ver] + active'.rem <= MaxLoad + Later(MaxTTL, NegTTL)
    <2>1. CASE UNCHANGED lapse /\ Fades(active, active')
      <3>1. Live(active') => active'.rem \in Int
        <4>1. active' \in Entry \cup {None} /\ (Live(active') => active' # None)
          BY <1>1, Fixed DEF TypeOK, Live
        <4> QED BY <1>2, <4>1, EntryType
      <3>2. Live(active') =>
              /\ Live(active) /\ active'.ver = active.ver /\ active'.rem <= active.rem
              /\ active'.rem # Forever
        BY <1>7, <2>1 DEF Fades
      <3> QED BY <1>2, <1>7, <1>8, <1>10, <2>1, <3>1, <3>2
    <2>2. CASE StoreValue
      <3>1. /\ load # None /\ load.kind # "error" /\ UNCHANGED lapse
            /\ load'.ver = load.ver /\ load'.ttl \in 0 .. MaxTTL /\ load'.ttl > 0
            /\ active'.ver = load.ver /\ active'.rem = load'.ttl
        BY <1>1, <2>2, StoreValueEffect DEF StoreValue
      <3> QED BY <1>2, <1>7, <1>8, <1>10, <3>1
    <2>3. CASE StoreNegative
      <3>1. load # None /\ load.kind # "error" /\ UNCHANGED lapse
        BY <1>1, <2>3, StoreNegativeEffect DEF StoreNegative
      <3>2. CASE NegTTL > 0
        <4>1. active'.ver = load.ver /\ active'.rem = NegTTL
          BY <1>1, <2>3, <3>2, StoreNegativeEffect
        <4> QED BY <1>2, <1>7, <1>8, <1>10, <3>1, <4>1
      <3>3. CASE NegTTL = 0
        <4>1. active' = active
          BY <1>1, <2>3, <3>3, StoreNegativeEffect
        <4> QED BY <1>7, <3>1, <4>1 DEF Live
      <3> QED BY <1>2, <3>2, <3>3
    <2>4. CASE Tick
      <3>1. /\ Live(active') => Live(active)
            /\ active # None => active'.ver = active.ver
            /\ Live(active) =>
                 active'.rem = IF active.rem = Forever THEN Forever ELSE active.rem - 1
            /\ \A v \in Ver : lapse'[v] <= lapse[v] + 1
        BY <1>1, <2>4, TickEffect
      <3>2. Live(active) =>
              /\ active.rem < Forever
              /\ lapse'[active.ver] <= lapse[active.ver] + 1 /\ lapse'[active.ver] \in Nat
        <4>1. Live(active) => active.rem <= Forever
          BY <1>1, <1>2, CacheType DEF Expired
        <4>2. Live(active) => active.rem < Forever
          BY <1>2, <1>7, <1>8, <4>1
        <4>3. \A v \in Ver : lapse'[v] \in Nat /\ lapse'[v] <= lapse[v] + 1
          BY <1>2, <3>1
        <4> QED BY <1>8, <4>2, <4>3
      <3> QED BY <1>2, <1>7, <1>8, <1>10, <3>1, <3>2
    <2> QED BY <1>5, <1>9, <2>1, <2>2, <2>3, <2>4, ActiveFrame DEF IncrementStep
  <1>13. Live(stale') =>
           /\ stale'.rem # Forever
           /\ lapse'[stale'.ver] + stale'.rem <= MaxLoad + MaxTTL + StaleTTL
    <2>1. CASE UNCHANGED lapse /\ Fades(stale, stale')
      <3>1. Live(stale') => stale'.rem \in Int
        <4>1. stale' \in Entry \cup {None} /\ (Live(stale') => stale' # None)
          BY <1>1, Fixed DEF TypeOK, Live
        <4> QED BY <1>2, <4>1, EntryType
      <3>2. Live(stale') =>
              /\ Live(stale) /\ stale'.ver = stale.ver /\ stale'.rem <= stale.rem
              /\ stale'.rem # Forever
        BY <1>7, <2>1 DEF Fades
      <3> QED BY <1>2, <1>7, <1>8, <2>1, <3>1, <3>2
    <2>2. CASE StoreStale
      <3>1. /\ load # None /\ load.kind # "error" /\ load.kind \in ValueKind
            /\ load.ver \in Ver /\ load.ttl \in 0 .. MaxTTL /\ UNCHANGED lapse
            /\ RecordStale(load.kind, load.ver, load.ttl)
        BY <1>1, <2>2 DEF TypeOK, StageInv, StoreStale
      <3>2. CASE KeepsStale(load.ttl)
        <4>1. stale'.ver = load.ver /\ stale'.rem = load.ttl + StaleTTL
          BY <1>1, <3>1, <3>2, RecordStaleEffect
        <4> QED BY <1>2, <1>7, <1>8, <3>1, <4>1
      <3>3. CASE ~KeepsStale(load.ttl)
        BY <1>7, <3>1, <3>3 DEF RecordStale, Live
      <3> QED BY <3>2, <3>3
    <2>3. CASE Tick
      <3>1. /\ Live(stale') => Live(stale)
            /\ stale # None => stale'.ver = stale.ver
            /\ Live(stale) =>
                 stale'.rem = IF stale.rem = Forever THEN Forever ELSE stale.rem - 1
            /\ \A v \in Ver : lapse'[v] <= lapse[v] + 1
        BY <1>1, <2>3, TickEffect
      <3>2. Live(stale) =>
              /\ stale.rem < Forever
              /\ lapse'[stale.ver] <= lapse[stale.ver] + 1 /\ lapse'[stale.ver] \in Nat
        <4>1. Live(stale) => stale.rem <= Forever
          BY <1>1, <1>2, CacheType DEF Expired
        <4>2. Live(stale) => stale.rem < Forever
          BY <1>2, <1>7, <1>8, <4>1
        <4>3. \A v \in Ver : lapse'[v] \in Nat /\ lapse'[v] <= lapse[v] + 1
          BY <1>2, <3>1
        <4> QED BY <1>8, <4>2, <4>3
      <3> QED BY <1>2, <1>7, <1>8, <1>10, <3>1, <3>2
    <2> QED BY <1>5, <1>9, <2>1, <2>2, <2>3, StaleFrame DEF IncrementStep
  <1> QED BY <1>1, <1>6, <1>11, <1>12, <1>13 DEF TimeInv, Later

-----------------------------------------------------------------------------
(* Reads. *)

\* Nothing older than what could be told can be told in the next state.
LEMMA OlderStep ==
  ASSUME Control, Next, "Increment" \notin Ops, NEW v \in Nat, Older(v)
  PROVE  Older(v)'
  <1>1. UNCHANGED conf /\ TypeOK /\ StageInv /\ NegTTL' = NegTTL
    BY ControlStep, Fixed DEF Control
  <1>2. db'.ver >= db.ver /\ db.ver \in Nat /\ db'.ver \in Nat
    BY BackendFrame
  <1>3. /\ v <= db.ver
        /\ Live(active) => v <= active.ver
        /\ load # None /\ load.kind # "error" => v <= load.ver
        /\ answer[K] # None /\ Dated(answer[K]) => v <= answer[K].ver
    BY DEF Older
  <1>4. ~ \E p \in Caller : IncrementStep(p)
    BY <1>1 DEF IncrementStep, IncrementCanceled, IncrementCached, IncrementNonNumeric,
                IncrementQueues, IncrementLocks, IncrementApplies, IncrementFails,
                IncrementStores, IncrementReturns, StageInv
  <1>5. v <= db'.ver
    BY <1>2, <1>3
  <1>6. Live(active') => v <= active'.ver
    <2>1. CASE Fades(active, active')
      BY <1>3, <2>1 DEF Fades
    <2>2. CASE StoreValue
      <3>1. load # None /\ load.kind # "error" /\ active'.ver = load.ver
        BY <1>1, <2>2, StoreValueEffect
      <3> QED BY <1>3, <3>1
    <2>3. CASE StoreNegative
      <3>1. /\ load # None /\ load.kind # "error"
            /\ NegTTL = 0 => active' = active
            /\ NegTTL > 0 => active'.ver = load.ver
            /\ NegTTL \in Nat
        BY <1>1, <2>3, StoreNegativeEffect, ConfType DEF TypeOK
      <3> QED BY <1>3, <3>1 DEF Live
    <2> QED BY <1>4, <2>1, <2>2, <2>3, ActiveFrame DEF IncrementStep
  <1>7. load' # None /\ load'.kind # "error" => v <= load'.ver
    <2>1. CASE UNCHANGED load
      BY <1>3, <2>1
    <2>2. ASSUME NEW p \in Caller, GetStep(p)  PROVE UNCHANGED load
      BY <2>2 DEF GetStep, GetHit, GetMiss, LoadCanceled, LoadStart, LoadJoin, WaitReturns,
                  WaitCanceled, WaitTimeout, DegradeActive, DegradeStale, loadVars
    <2>3. CASE GetterReturns
      BY <1>3, <2>3 DEF GetterReturns
    <2>4. CASE GetterFails
      BY <2>4 DEF GetterFails
    <2>5. CASE StoreValue
      <3>1. load # None /\ load.kind # "error" /\ load'.ver = load.ver
        BY <1>1, <2>5, StoreValueEffect
      <3> QED BY <1>3, <3>1
    <2>6. CASE StoreNegative \/ StoreStale \/ LoadRetired
      BY <2>1, <2>6 DEF StoreNegative, StoreStale, LoadRetired, loadVars
    <2>7. CASE LoadReturns
      BY <2>7 DEF LoadReturns
    <2>8. ASSUME NEW p \in Caller, InvalidateStep(p) \/ Consume(p)  PROVE UNCHANGED load
      BY <2>8 DEF InvalidateStep, InvalidateActive, InvalidateStale, Consume, loadVars
    <2>9. CASE JanitorActive \/ JanitorStale \/ Evict \/ BackendWrite
      BY <2>1, <2>9 DEF JanitorActive, JanitorStale, Evict, BackendWrite, loadVars
    <2>10. CASE Tick
      <3>1. /\ load = None => load' = None
            /\ load # None => load'.kind = load.kind /\ load'.ver = load.ver
        BY <1>1, <2>10, TickEffect
      <3> QED BY <1>3, <3>1
    <2> QED BY <1>4, <2>1, <2>2, <2>3, <2>4, <2>5, <2>6, <2>7, <2>8, <2>9, <2>10
            DEF Next, LoadStep, Environment
  <1>8. answer'[K] # None /\ Dated(answer[K])' => v <= answer'[K].ver
    <2>1. CASE UNCHANGED answer
      BY <1>1, <1>3, <2>1 DEF Dated
    <2>2. CASE LoadReturns
      <3>1. PICK r \in Answer :
              /\ r.kind = load.kind /\ r.ver = load.ver /\ load # None
              /\ answer' = [answer EXCEPT ![K] = r]
        BY <1>1, <2>2, LoadReturnsEffect
      <3>2. answer'[K] = r
        BY <1>1, <3>1 DEF TypeOK
      <3>3. Dated(answer[K])' => load.kind # "error"
        BY <3>1, <3>2 DEF Dated
      <3> QED BY <1>3, <3>1, <3>2, <3>3
    <2>3. CASE LoadRetired
      BY <1>1, <2>3 DEF LoadRetired, Loader!Retire, TypeOK
    <2> QED BY <1>4, <2>1, <2>2, <2>3, AnswerFrame
  <1> QED BY <1>5, <1>6, <1>7, <1>8 DEF Older

\* A step that gives no answer to a Get.
NoAnswer ==
  /\ seen'.read = seen.read
  /\ \A q \in Caller :
       /\ mark'[q].read \in {mark[q].read, seen.read, 0}
       /\ reply'[q] \in {reply[q], None}
       /\ reply'[q] # None => mark'[q] = mark[q]
       /\ pc'[q] = "done" => pc[q] = "done" /\ got'[q] = got[q] /\ mark'[q] = mark[q]

\* Only these steps answer a Get.
LEMMA ReadFrame ==
  ASSUME Control, Next
  PROVE  \/ NoAnswer
         \/ \E p \in Caller :
              \/ GetHit(p) \/ LoadJoin(p) \/ WaitReturns(p)
              \/ DegradeActive(p) \/ DegradeStale(p)
              \/ IncrementStep(p)
         \/ LoadReturns
  <1>1. UNCHANGED conf /\ TypeOK /\ StageInv /\ StageInv'
    BY ControlStep DEF Control
  <1> USE <1>1 DEF loadVars, loaderVars, cacheVars
  <1>2. ASSUME NEW p \in Caller, GetMiss(p)  PROVE NoAnswer
    BY <1>2 DEF TypeOK, StageInv, NoAnswer, GetMiss, Begin, Free, Goto
  <1>3. ASSUME NEW p \in Caller, LoadCanceled(p)  PROVE NoAnswer
    BY <1>3 DEF TypeOK, NoAnswer, LoadCanceled, Goto
  <1>4. ASSUME NEW p \in Caller, LoadStart(p)  PROVE NoAnswer
    BY <1>4 DEF TypeOK, NoAnswer, LoadStart, Loader!Start, Goto
  <1>5. ASSUME NEW p \in Caller, WaitCanceled(p) \/ WaitTimeout(p)  PROVE NoAnswer
    BY <1>5 DEF TypeOK, NoAnswer, WaitCanceled, WaitTimeout, Loader!Abandon, Goto
  <1>6. ASSUME GetterReturns \/ GetterFails  PROVE NoAnswer
    BY <1>6 DEF TypeOK, NoAnswer, GetterReturns, GetterFails
  <1>7. ASSUME StoreValue \/ StoreNegative \/ StoreStale  PROVE NoAnswer
    BY <1>7 DEF TypeOK, NoAnswer, StoreValue, StoreNegative, StoreStale
  <1>8. ASSUME LoadRetired  PROVE NoAnswer
    BY <1>8 DEF TypeOK, NoAnswer, LoadRetired, Loader!Retire
  <1>9. ASSUME NEW p \in Caller, InvalidateActive(p)  PROVE NoAnswer
    <2>1. [seen EXCEPT !.inv = IF "inv" \in Watch THEN db.ver ELSE 0].read = seen.read
      BY DEF TypeOK, Promise
    <2> QED BY <1>9, <2>1 DEF TypeOK, StageInv, NoAnswer, InvalidateActive, Free, Goto
  <1>10. ASSUME NEW p \in Caller, InvalidateStale(p)  PROVE NoAnswer
    <2>1. seen'.read = seen.read
      BY <1>10, PromisedType, VerType DEF TypeOK, InvalidateStale
    <2> QED BY <1>10, <2>1 DEF TypeOK, NoAnswer, InvalidateStale, Goto
  <1>11. ASSUME NEW p \in Caller, Consume(p)  PROVE NoAnswer
    BY <1>11 DEF TypeOK, StageInv, NoAnswer, Consume, Loader!Consume, Goto
  <1>12. ASSUME Environment  PROVE NoAnswer
    BY <1>12 DEF TypeOK, NoAnswer, Environment, JanitorActive, JanitorStale, Evict,
                 BackendWrite, Tick
  <1> QED
    BY <1>2, <1>3, <1>4, <1>5, <1>6, <1>7, <1>8, <1>9, <1>10, <1>11, <1>12
       DEF Next, GetStep, LoadStep, InvalidateStep

\* Answers, entries and loads stay in the order of the versions.
LEMMA ReadStep ==
  ASSUME Control, ReadInv, Next
  PROVE  ReadInv'
  <1>1. UNCHANGED conf /\ TypeOK /\ TypeOK' /\ StageInv /\ TtlInv
        /\ StaleTTL' = StaleTTL /\ Ops' = Ops /\ NegTTL' = NegTTL
    BY ControlStep, Fixed DEF Control
  <1> SUFFICES ASSUME StaleTTL = 0, "Increment" \notin Ops  PROVE ReadInv'
    BY <1>1 DEF ReadInv
  <1>2. /\ Older(seen.read)
        /\ Live(active) => Older(active.ver)
        /\ load # None /\ load.kind # "error" => load.ver <= db.ver
        /\ phase \in {"stale", "done"} /\ Dated(load) => Older(load.ver)
        /\ answer[K] # None /\ Dated(answer[K]) => Older(answer[K].ver)
        /\ \A q \in Caller :
             /\ mark[q].read <= seen.read
             /\ reply[q] # None /\ Dated(reply[q]) =>
                  Older(reply[q].ver) /\ reply[q].ver >= mark[q].read
             /\ pc[q] = "done" /\ Dated(got[q]) => got[q].ver >= mark[q].read
    BY DEF ReadInv
  <1>3. stale = None /\ ~Live(stale)
    BY <1>1 DEF TtlInv, Live
  <1>4. ~ \E p \in Caller : IncrementStep(p)
    BY <1>1 DEF IncrementStep, IncrementCanceled, IncrementCached, IncrementNonNumeric,
                IncrementQueues, IncrementLocks, IncrementApplies, IncrementFails,
                IncrementStores, IncrementReturns, StageInv
  <1>5. ASSUME NEW v \in Nat, Older(v)  PROVE Older(v)'
    BY <1>5, OlderStep
  <1>6. /\ seen.read \in Nat /\ \A q \in Caller : mark[q].read \in Nat
        /\ Live(active) => active.ver \in Nat
        /\ load # None => load.ver \in Nat
        /\ answer[K] # None => answer[K].ver \in Nat
        /\ \A q \in Caller : reply[q] # None => reply[q].ver \in Nat
    <2>1. Ver \subseteq Nat
      BY <1>1, VerType
    <2>2. Live(active) => active.ver \in Ver
      BY <1>1, CacheType
    <2>3. load # None => load.ver \in Ver
      BY <1>1 DEF TypeOK
    <2>4. /\ answer[K] # None => answer[K].ver \in Ver
          /\ \A q \in Caller : reply[q] # None => reply[q].ver \in Ver
      BY <1>1 DEF StageInv
    <2>5. seen.read \in Ver /\ \A q \in Caller : mark[q].read \in Ver
      BY <1>1, VerType
    <2> QED BY <2>1, <2>2, <2>3, <2>4, <2>5
  <1> DEFINE Requests ==
               /\ Older(seen.read)
               /\ \A q \in Caller :
                    /\ mark[q].read <= seen.read
                    /\ reply[q] # None /\ Dated(reply[q]) =>
                         Older(reply[q].ver) /\ reply[q].ver >= mark[q].read
                    /\ pc[q] = "done" /\ Dated(got[q]) => got[q].ver >= mark[q].read
  <1>7. Requests'
    <2>1. CASE NoAnswer
      <3>1. Older(seen.read)'
        BY <1>2, <1>5, <1>6, <2>1 DEF NoAnswer, Older
      <3>2. ASSUME NEW q \in Caller
            PROVE  /\ mark'[q].read <= seen'.read
                   /\ pc'[q] = "done" /\ Dated(got[q])' => got'[q].ver >= mark'[q].read
        BY <1>1, <1>2, <1>6, <2>1 DEF NoAnswer, Dated
      <3>3. ASSUME NEW q \in Caller, reply'[q] # None, Dated(reply[q])'
            PROVE  Older(reply[q].ver)' /\ reply'[q].ver >= mark'[q].read
        <4>1. reply'[q] = reply[q] /\ mark'[q] = mark[q] /\ Dated(reply[q])
          BY <1>1, <2>1, <3>3 DEF NoAnswer, Dated
        <4>2. Older(reply[q].ver) /\ reply[q].ver \in Nat /\ reply[q].ver >= mark[q].read
          BY <1>2, <1>6, <3>3, <4>1
        <4> QED BY <1>5, <4>1, <4>2 DEF Older
      <3> QED BY <3>1, <3>2, <3>3
    <2>2. ASSUME NEW p \in Caller, NEW r, r.ver \in Nat,
                 Dated(r) => Older(r.ver) /\ r.ver >= mark'[p].read,
                 seen'.read = IF Dated(r) /\ "read" \in Watch
                              THEN Later(seen.read, r.ver) ELSE seen.read,
                 got' = [got EXCEPT ![p] = r], pc' = [pc EXCEPT ![p] = "done"],
                 \A q \in Caller :
                   /\ mark'[q] = mark[q] \/ (q = p /\ mark'[q].read = seen.read)
                   /\ reply'[q] \in {reply[q], None}
                   /\ reply'[q] # None => q # p
          PROVE  Requests'
      <3>1. Older(seen.read)' /\ seen'.read \in Nat /\ seen'.read >= seen.read
        BY <1>2, <1>5, <1>6, <2>2 DEF Older, Later
      <3>2. ASSUME NEW q \in Caller
            PROVE  /\ mark'[q].read <= seen'.read
                   /\ pc'[q] = "done" /\ Dated(got[q])' => got'[q].ver >= mark'[q].read
        <4>1. mark'[q].read <= seen'.read
          BY <1>2, <1>6, <2>2, <3>1
        <4>2. CASE q = p
          BY <1>1, <2>2, <4>1, <4>2 DEF Dated, TypeOK
        <4>3. CASE q # p
          BY <1>1, <1>2, <2>2, <4>1, <4>3 DEF Dated, TypeOK
        <4> QED BY <4>2, <4>3
      <3>3. ASSUME NEW q \in Caller, reply'[q] # None, Dated(reply[q])'
            PROVE  Older(reply[q].ver)' /\ reply'[q].ver >= mark'[q].read
        <4>1. reply'[q] = reply[q] /\ mark'[q] = mark[q] /\ Dated(reply[q])
          BY <1>1, <2>2, <3>3 DEF Dated
        <4>2. Older(reply[q].ver) /\ reply[q].ver \in Nat /\ reply[q].ver >= mark[q].read
          BY <1>2, <1>6, <3>3, <4>1
        <4> QED BY <1>5, <4>1, <4>2 DEF Older
      <3> QED BY <3>1, <3>2, <3>3
    <2>3. ASSUME NEW p \in Caller, GetHit(p)  PROVE Requests'
      <3>1. /\ got' = [got EXCEPT ![p] = Served(active)] /\ Live(active)
            /\ seen'.read = IF Dated(active) /\ "read" \in Watch
                            THEN Later(seen.read, active.ver) ELSE seen.read
        BY <1>1, <2>3, ServedEffect DEF GetHit
      <3>2. Served(active).ver = active.ver /\ Dated(Served(active)) = Dated(active)
        BY DEF Served, Dated
      <3>3. /\ pc' = [pc EXCEPT ![p] = "done"] /\ mark' = [mark EXCEPT ![p] = seen]
            /\ UNCHANGED reply /\ reply[p] = None
        BY <1>1, <2>3 DEF GetHit, Begin, Free, Goto, loaderVars, StageInv
      <3>4. mark'[p].read = seen.read /\ seen.read <= active.ver /\ Older(active.ver)
        BY <1>1, <1>2, <3>1, <3>3 DEF TypeOK, Older
      <3>5. \A q \in Caller :
              /\ mark'[q] = mark[q] \/ (q = p /\ mark'[q].read = seen.read)
              /\ reply'[q] \in {reply[q], None}
              /\ reply'[q] # None => q # p
        <4>1. \A q \in Caller : q = p \/ mark'[q] = mark[q]
          BY <1>1, <3>3 DEF TypeOK
        <4> QED BY <3>3, <3>4, <4>1
      <3> HIDE DEF Requests
      <3> QED BY <1>6, <2>2, <3>1, <3>2, <3>3, <3>4, <3>5
    <2>4. ASSUME NEW p \in Caller, WaitReturns(p)  PROVE Requests'
      <3>1. /\ reply[p] # None /\ got' = [got EXCEPT ![p] = reply[p]]
            /\ seen'.read = IF Dated(reply[p]) /\ "read" \in Watch
                            THEN Later(seen.read, reply[p].ver) ELSE seen.read
        BY <1>1, <2>4, WaitReturnsEffect
      <3>2. /\ pc' = [pc EXCEPT ![p] = "done"] /\ UNCHANGED mark
            /\ reply' = [reply EXCEPT ![p] = None]
        BY <2>4 DEF WaitReturns, Goto, Loader!Return
      <3>3. Dated(reply[p]) => Older(reply[p].ver) /\ reply[p].ver >= mark'[p].read
        BY <1>2, <3>1, <3>2
      <3>4. \A q \in Caller :
              /\ mark'[q] = mark[q] \/ (q = p /\ mark'[q].read = seen.read)
              /\ reply'[q] \in {reply[q], None}
              /\ reply'[q] # None => q # p
        BY <1>1, <3>2 DEF TypeOK
      <3> HIDE DEF Requests
      <3> QED BY <1>6, <2>2, <3>1, <3>2, <3>3, <3>4
    <2>5. ASSUME NEW p \in Caller, DegradeActive(p)  PROVE Requests'
      <3>1. CASE Live(active)
        <4>1. /\ got' = [got EXCEPT ![p] = Served(active)]
              /\ seen'.read = IF Dated(active) /\ "read" \in Watch
                              THEN Later(seen.read, active.ver) ELSE seen.read
          BY <1>1, <2>5, <3>1, ServedEffect DEF DegradeActive
        <4>2. Served(active).ver = active.ver /\ Dated(Served(active)) = Dated(active)
          BY DEF Served, Dated
        <4>3. /\ pc' = [pc EXCEPT ![p] = "done"] /\ UNCHANGED <<mark, reply>>
              /\ reply[p] = None
          BY <1>1, <2>5, <3>1 DEF DegradeActive, Goto, loaderVars, StageInv
        <4>4. mark'[p].read <= active.ver /\ Older(active.ver)
          BY <1>1, <1>2, <1>6, <3>1, <4>3 DEF Older
        <4>5. \A q \in Caller :
                /\ mark'[q] = mark[q] \/ (q = p /\ mark'[q].read = seen.read)
                /\ reply'[q] \in {reply[q], None}
                /\ reply'[q] # None => q # p
          BY <4>3
        <4>6. active.ver >= mark'[p].read
          BY <1>6, <3>1, <4>3, <4>4
        <4> HIDE DEF Requests
        <4> QED BY <1>6, <2>2, <3>1, <4>1, <4>2, <4>3, <4>4, <4>5, <4>6
      <3>2. CASE ~Live(active)
        BY <1>1, <2>1, <2>5, <3>2 DEF NoAnswer, DegradeActive, Goto, loaderVars, TypeOK
      <3> QED BY <3>1, <3>2
    <2>6. ASSUME NEW p \in Caller, DegradeStale(p)  PROVE Requests'
      <3>1. NoAnswer
        BY <1>1, <1>3, <2>6 DEF NoAnswer, DegradeStale, Goto, loaderVars, TypeOK
      <3> QED BY <2>1, <3>1
    <2>7. ASSUME NEW p \in Caller, LoadJoin(p)  PROVE Requests'
      <3>1. /\ reply' = [reply EXCEPT ![p] = answer[K]]
            /\ UNCHANGED <<seen, mark, got>> /\ pc' = [pc EXCEPT ![p] = "wait"]
        BY <2>7 DEF LoadJoin, Loader!Join, Goto
      <3>2. Older(seen.read)'
        BY <1>2, <1>5, <1>6, <3>1 DEF Older
      <3>3. ASSUME NEW q \in Caller
            PROVE  /\ mark'[q].read <= seen'.read
                   /\ pc'[q] = "done" /\ Dated(got[q])' => got'[q].ver >= mark'[q].read
        BY <1>1, <1>2, <3>1 DEF Dated, TypeOK
      <3>4. ASSUME NEW q \in Caller, reply'[q] # None, Dated(reply[q])'
            PROVE  Older(reply[q].ver)' /\ reply'[q].ver >= mark'[q].read
        <4>1. CASE q # p
          <5>1. reply'[q] = reply[q] /\ Dated(reply[q])
            BY <1>1, <3>1, <3>4, <4>1 DEF Dated, TypeOK
          <5>2. Older(reply[q].ver) /\ reply[q].ver \in Nat /\ reply[q].ver >= mark[q].read
            BY <1>2, <1>6, <3>4, <5>1
          <5> QED BY <1>5, <3>1, <5>1, <5>2 DEF Older
        <4>2. CASE q = p
          <5>1. reply'[q] = answer[K] /\ Dated(answer[K]) /\ answer[K] # None
            BY <1>1, <3>1, <3>4, <4>2 DEF Dated, TypeOK
          <5>2. Older(answer[K].ver) /\ answer[K].ver \in Nat /\ seen.read <= answer[K].ver
            BY <1>2, <1>6, <5>1 DEF Older
          <5>3. answer[K].ver >= mark[q].read
            BY <1>2, <1>6, <5>2
          <5> QED BY <1>5, <3>1, <5>1, <5>2, <5>3 DEF Older
        <4> QED BY <4>1, <4>2
      <3> QED BY <3>2, <3>3, <3>4
    <2>8. CASE LoadReturns
      <3>1. PICK r \in Answer :
              /\ r.kind = load.kind /\ r.ver = load.ver /\ load # None
              /\ reply' = [q \in Caller |->
                             IF want[q] = K /\ reply[q] = None THEN r ELSE reply[q]]
        BY <1>1, <2>8, LoadReturnsEffect
      <3>2. UNCHANGED <<seen, mark, got, pc>> /\ phase = "done"
        BY <2>8 DEF LoadReturns, Loader!Finish
      <3>3. Older(seen.read)'
        BY <1>2, <1>5, <1>6, <3>2 DEF Older
      <3>4. ASSUME NEW q \in Caller
            PROVE  /\ mark'[q].read <= seen'.read
                   /\ pc'[q] = "done" /\ Dated(got[q])' => got'[q].ver >= mark'[q].read
        BY <1>1, <1>2, <3>2 DEF Dated
      <3>5. ASSUME NEW q \in Caller, reply'[q] # None, Dated(reply[q])'
            PROVE  Older(reply[q].ver)' /\ reply'[q].ver >= mark'[q].read
        <4>1. CASE reply'[q] = reply[q]
          <5>1. reply[q] # None /\ Dated(reply[q])
            BY <1>1, <3>5, <4>1 DEF Dated
          <5>2. Older(reply[q].ver) /\ reply[q].ver \in Nat /\ reply[q].ver >= mark[q].read
            BY <1>2, <1>6, <5>1
          <5> QED BY <1>5, <3>2, <4>1, <5>2 DEF Older
        <4>2. CASE reply'[q] = r
          <5>1. Dated(load) /\ load.kind # "error"
            BY <1>1, <3>1, <3>5, <4>2 DEF Dated
          <5>2. Older(load.ver) /\ load.ver \in Nat /\ seen.read <= load.ver
            BY <1>2, <1>6, <3>1, <3>2, <5>1 DEF Older
          <5>3. load.ver >= mark[q].read
            BY <1>2, <1>6, <5>2
          <5> QED BY <1>5, <3>1, <3>2, <4>2, <5>2, <5>3 DEF Older
        <4> QED BY <3>1, <4>1, <4>2
      <3> QED BY <3>3, <3>4, <3>5
    <2> HIDE DEF Requests
    <2> QED BY <1>4, <2>1, <2>3, <2>4, <2>5, <2>6, <2>7, <2>8, ReadFrame
  <1>8. phase # "none" => answer[K] = None /\ flight[K] = "running"
    BY <1>1 DEF StageInv
  <1>9. Live(active') => Older(active.ver)'
    <2>1. CASE Fades(active, active')
      <3>1. Live(active') =>
              Older(active.ver) /\ active.ver \in Nat /\ active'.ver = active.ver
        BY <1>2, <1>6, <2>1 DEF Fades
      <3> QED BY <1>5, <3>1 DEF Older
    <2>2. CASE StoreValue
      <3>1. /\ load # None /\ load.kind # "error" /\ load'.ver = load.ver
            /\ active'.ver = load.ver /\ UNCHANGED <<db, answer>> /\ phase = "store"
        BY <1>1, <2>2, StoreValueEffect DEF StoreValue, loaderVars
      <3> QED BY <1>2, <1>6, <1>8, <3>1 DEF Older
    <2>3. CASE StoreNegative
      <3>1. /\ load # None /\ load.kind # "error" /\ UNCHANGED <<db, answer, load>>
            /\ phase = "store" /\ NegTTL \in Nat
            /\ NegTTL = 0 => active' = active
            /\ NegTTL > 0 => active'.ver = load.ver
        BY <1>1, <2>3, StoreNegativeEffect, ConfType DEF StoreNegative, loaderVars, TypeOK
      <3>2. CASE NegTTL = 0
        <4>1. Live(active') => Live(active) /\ active' = active
          BY <3>1, <3>2
        <4> QED BY <1>2, <1>5, <1>6, <4>1 DEF Older
      <3>3. CASE NegTTL > 0
        BY <1>2, <1>6, <1>8, <3>1, <3>3 DEF Older
      <3> QED BY <3>1, <3>2, <3>3
    <2> QED BY <1>4, <2>1, <2>2, <2>3, ActiveFrame DEF IncrementStep
  <1>10. /\ load' # None /\ load'.kind # "error" => load'.ver <= db'.ver
         /\ phase' \in {"stale", "done"} /\ Dated(load)' => Older(load.ver)'
    <2>1. db'.ver >= db.ver /\ db.ver \in Nat /\ db'.ver \in Nat
      BY BackendFrame
    <2>2. CASE load' = load /\ (phase' \in {"stale", "done"} => phase \in {"stale", "done"})
      <3>1. load # None /\ load.kind # "error" => load.ver <= db'.ver
        BY <1>2, <1>6, <2>1
      <3>2. phase' \in {"stale", "done"} /\ Dated(load)' =>
              Older(load.ver) /\ load.ver \in Nat
        BY <1>1, <1>2, <1>6, <2>2 DEF Dated, StageInv
      <3> QED BY <1>5, <2>2, <3>1, <3>2 DEF Older
    <2>3. ASSUME NEW p \in Caller, GetStep(p)
          PROVE  load' = load /\ (phase' \in {"stale", "done"} => phase \in {"stale", "done"})
      BY <2>3 DEF GetStep, GetHit, GetMiss, LoadCanceled, LoadStart, LoadJoin, WaitReturns,
                  WaitCanceled, WaitTimeout, DegradeActive, DegradeStale, loadVars
    <2>4. CASE GetterReturns
      BY <2>1, <2>4 DEF GetterReturns
    <2>5. CASE GetterFails
      BY <2>5 DEF GetterFails, Dated
    <2>6. CASE StoreValue
      <3>1. /\ load # None /\ load.kind # "error" /\ load'.ver = load.ver
            /\ active'.ver = load.ver /\ UNCHANGED <<db, answer>> /\ phase = "store"
        BY <1>1, <2>6, StoreValueEffect DEF StoreValue, loaderVars
      <3> QED BY <1>2, <1>6, <1>8, <3>1 DEF Older
    <2>7. CASE StoreNegative
      <3>1. /\ load # None /\ load.kind = "absent" /\ UNCHANGED <<db, answer, load>>
            /\ phase = "store"
            /\ NegTTL > 0 => active'.ver = load.ver
        BY <1>1, <2>7, StoreNegativeEffect DEF StoreNegative, loaderVars
      <3>2. Dated(load)' => NegTTL > 0
        BY <1>1, <3>1 DEF Dated
      <3> QED BY <1>2, <1>6, <1>8, <3>1, <3>2 DEF Older
    <2>8. CASE StoreStale \/ LoadRetired
      BY <2>2, <2>8 DEF StoreStale, LoadRetired, loadVars
    <2>9. CASE LoadReturns
      BY <2>9 DEF LoadReturns
    <2>10. ASSUME NEW p \in Caller, InvalidateStep(p) \/ Consume(p)
           PROVE  UNCHANGED loadVars
      BY <2>10 DEF InvalidateStep, InvalidateActive, InvalidateStale, Consume
    <2>11. CASE JanitorActive \/ JanitorStale \/ Evict \/ BackendWrite
      BY <2>2, <2>11 DEF JanitorActive, JanitorStale, Evict, BackendWrite, loadVars
    <2>12. CASE Tick
      <3>1. /\ load = None => load' = None
            /\ load # None => load'.kind = load.kind /\ load'.ver = load.ver
            /\ UNCHANGED <<db, phase>>
        BY <1>1, <2>12, TickEffect DEF Tick
      <3>2. phase \in {"stale", "done"} => load # None
        BY <1>1 DEF StageInv
      <3>3. phase' \in {"stale", "done"} /\ Dated(load)' =>
              Older(load.ver) /\ load.ver \in Nat
        BY <1>1, <1>2, <1>6, <3>1, <3>2 DEF Dated
      <3>4. phase' \in {"stale", "done"} => load'.ver = load.ver
        BY <3>1, <3>2
      <3>5. load' # None /\ load'.kind # "error" => load'.ver <= db'.ver
        BY <1>2, <3>1
      <3> QED BY <1>5, <3>3, <3>4, <3>5 DEF Older
    <2> QED
      BY <1>4, <2>2, <2>3, <2>4, <2>5, <2>6, <2>7, <2>8, <2>9, <2>10, <2>11, <2>12
         DEF Next, LoadStep, Environment, loadVars
  <1>11. answer'[K] # None /\ Dated(answer[K])' => Older(answer[K].ver)'
    <2>1. CASE UNCHANGED answer
      <3>1. answer'[K] # None /\ Dated(answer[K])' =>
              Older(answer[K].ver) /\ answer[K].ver \in Nat
        BY <1>1, <1>2, <1>6, <2>1 DEF Dated
      <3> QED BY <1>5, <2>1, <3>1 DEF Older
    <2>2. CASE LoadReturns
      <3>1. PICK r \in Answer :
              /\ r.kind = load.kind /\ r.ver = load.ver /\ load # None
              /\ answer' = [answer EXCEPT ![K] = r]
        BY <1>1, <2>2, LoadReturnsEffect
      <3>2. answer'[K] = r /\ phase = "done"
        BY <1>1, <2>2, <3>1 DEF TypeOK, LoadReturns
      <3>3. Dated(answer[K])' => Older(load.ver) /\ load.ver \in Nat
        BY <1>1, <1>2, <1>6, <3>1, <3>2 DEF Dated
      <3> QED BY <1>5, <3>1, <3>2, <3>3 DEF Older
    <2>3. CASE LoadRetired
      BY <1>1, <2>3 DEF LoadRetired, Loader!Retire, TypeOK
    <2> QED BY <2>1, <2>2, <2>3, AnswerFrame
  <1> QED BY <1>1, <1>7, <1>9, <1>10, <1>11 DEF ReadInv

-----------------------------------------------------------------------------
(* The theorems. *)

\* The inductive invariant holds initially.
LEMMA InitIInv ==
  ASSUME Init
  PROVE  IInv
  <1>1. conf \in Scenario /\ seen = [read |-> 0, inc |-> 0, inv |-> 0]
    BY DEF Init
  <1>2. /\ MaxVer \in Nat \ {0} /\ MaxLoad \in Nat /\ Ver = 0 .. MaxVer
        /\ Horizon \in Nat /\ Kinds \subseteq ValueKind
    BY <1>1, ConfType, BoundType DEF Ver
  <1>3. seen \in Promise /\ db \in [kind : ValueKind, ver : Ver] /\ db.ver = 1
    BY <1>1, <1>2 DEF Init, Promise
  <1>4. TypeOK
    BY <1>1, <1>2, <1>3 DEF Init, Loader!Init, TypeOK, CallerState
  <1>5. StageInv /\ LockInv /\ TtlInv
    BY <1>4, NoneAssumption DEF Init, Loader!Init, StageInv, LockInv, InLock, TtlInv, TypeOK
  <1>6. ReadInv /\ NumberInv
    BY <1>1, <1>3 DEF Init, Loader!Init, ReadInv, Older, NumberInv, Grows, Live, TypeOK
  <1>7. FallbackInv /\ NewestInv
    BY DEF Init, FallbackInv, FallbackOutlivesActive, NewestInv, Live
  <1>8. CountInv
    BY <1>1 DEF Init, CountInv, Current, Live, Grows
  <1>9. TimeInv
    BY DEF Init, TimeInv, Live
  <1> QED BY <1>4, <1>5, <1>6, <1>7, <1>8, <1>9 DEF IInv, Control

\* Every step preserves the inductive invariant.
LEMMA NextIInv ==
  ASSUME IInv, [Next]_vars
  PROVE  IInv'
  <1>1. CASE Next
    BY <1>1, ControlStep, ReadStep, FallbackStep, NumberStep, NewestStep, CountStep,
       TimeStep DEF IInv
  <1>2. CASE UNCHANGED vars
    <2>1. UNCHANGED <<conf, db, active, stale, pc, lock, held, phase, load, flight, answer,
                      want, reply, got, seen, mark, lapse>>
      BY <1>2 DEF vars, state
    <2> USE <2>1, Fixed
    <2>2. Control'
      BY DEF IInv, Control, TypeOK, StageInv, LockInv, InLock, TtlInv
    <2>3. ReadInv'
      BY DEF IInv, ReadInv, Older, Dated, Live
    <2>4. FallbackInv' /\ TimeInv'
      BY DEF IInv, FallbackInv, FallbackOutlivesActive, TimeInv, Live, Later
    <2>5. NumberInv' /\ NewestInv' /\ CountInv'
      BY DEF IInv, NumberInv, NewestInv, CountInv, Current, Grows, Live
    <2> QED BY <2>2, <2>3, <2>4, <2>5 DEF IInv
  <1> QED BY <1>1, <1>2

\* The inductive invariant always holds.
LEMMA Invariance == Spec => []IInv
  BY InitIInv, NextIInv, PTL DEF Spec

\* The variables keep their types; an error of the getter is never cached.
THEOREM TypeCorrect == Spec => []TypeOK
  <1>1. IInv => TypeOK
    BY DEF IInv, Control
  <1> QED BY <1>1, Invariance, PTL

\* Get and load: without a stale cache and without increments a Get is never
\* told an older version than a Get that returned before it began.
THEOREM ReadsDoNotGoBack == Spec => []MonotonicReads
  <1>1. IInv => MonotonicReads
    BY DEF IInv, ReadInv, MonotonicReads
  <1> QED BY <1>1, Invariance, PTL

\* recordStale: the fallback of a live value outlives it by staleTTL.
THEOREM FallbackIsThere == Spec => []FallbackOutlivesActive
  <1>1. IInv => FallbackOutlivesActive
    BY DEF IInv, FallbackInv
  <1> QED BY <1>1, Invariance, PTL

\* incrementLocally: neither cache keeps a number older than a returned one.
THEOREM CachesKeepNewest == Spec => []NewestIncrementCached
  <1>1. IInv => NewestIncrementCached
    <2> SUFFICES ASSUME IInv, Durable, "Get" \notin Ops, NEW e \in {active, stale}, Live(e)
                 PROVE  e.ver >= seen.inc
      BY DEF NewestIncrementCached
    <2>1. TypeOK /\ seen.inc <= e.ver
      BY DEF IInv, Control, NewestInv
    <2>2. e.ver \in Ver
      BY <2>1, CacheType
    <2> QED BY <2>1, <2>2, VerType
  <1> QED BY <1>1, Invariance, PTL

\* Increment: numbers grow, in a durable backend or in an undisturbed cache.
THEOREM NumbersGrow == Spec => []CounterGrows
  <1>1. IInv => CounterGrows
    <2>1. IInv => conf \in Scenario
      BY DEF IInv, Control, TypeOK
    <2> QED BY <2>1, ConfType DEF IInv, NumberInv, CountInv, CounterGrows
  <1> QED BY <1>1, Invariance, PTL

\* degradeFromCaches and Get: what a cache serves is at most MaxAge ticks old.
THEOREM ServedIsInTime == Spec => ServedInTime
  <1> DEFINE InTime ==
               \A p \in Caller :
                 /\ TTL > 0 /\ "Increment" \notin Ops
                 /\ pc[p] \in {"idle", "degrade", "fallback"}
                 /\ got'[p] # None
                 => lapse[got'[p].ver] <= MaxAge
  <1>1. ASSUME IInv, [Next]_vars  PROVE [InTime]_vars
    <2> SUFFICES ASSUME Next, NEW p \in Caller, TTL > 0, "Increment" \notin Ops,
                        pc[p] \in {"idle", "degrade", "fallback"}, got'[p] # None
                 PROVE  lapse[got'[p].ver] <= MaxAge
      BY <1>1
    <2>1. TypeOK /\ StageInv /\ TimeInv /\ Control
      BY <1>1 DEF IInv, Control
    <2>2. got[p] = None
      BY <2>1 DEF StageInv
    <2>3. \E e \in {active, stale} : Live(e) /\ Told(p, Served(e))
      <3>1. ~UNCHANGED got
        BY <2>2
      <3>2. ASSUME NEW q \in Caller, GetStep(q)
            PROVE  \E e \in {active, stale} : Live(e) /\ Told(p, Served(e))
        <4>1. \E r : got' = [got EXCEPT ![q] = r]
          BY <3>1, <3>2
             DEF GetStep, GetHit, GetMiss, LoadCanceled, LoadStart, LoadJoin, WaitReturns,
                 WaitCanceled, WaitTimeout, DegradeActive, DegradeStale, Told,
                 Loader!Start, Loader!Join, Loader!Abandon
        <4>2. q = p
          BY <2>1, <2>2, <4>1 DEF TypeOK
        <4> QED
          BY <3>1, <3>2, <4>2
             DEF GetStep, GetHit, GetMiss, LoadCanceled, LoadStart, LoadJoin, WaitReturns,
                 WaitCanceled, WaitTimeout, DegradeActive, DegradeStale,
                 Loader!Start, Loader!Join, Loader!Abandon
      <3>3. ASSUME LoadStep  PROVE FALSE
        BY <3>1, <3>3 DEF LoadStep, GetterReturns, GetterFails, StoreValue, StoreNegative,
           StoreStale, LoadReturns, LoadRetired, Loader!Finish, Loader!Retire
      <3>4. ASSUME NEW q \in Caller, IncrementStep(q)  PROVE FALSE
        BY <2>1, <3>4
           DEF IncrementStep, IncrementCanceled, IncrementCached, IncrementNonNumeric,
               IncrementQueues, IncrementLocks, IncrementApplies, IncrementFails,
               IncrementStores, IncrementReturns, StageInv
      <3>5. ASSUME NEW q \in Caller, InvalidateStep(q)  PROVE FALSE
        BY <3>1, <3>5 DEF InvalidateStep, InvalidateActive, InvalidateStale
      <3>6. ASSUME NEW q \in Caller, Consume(q)  PROVE FALSE
        <4>1. got' = [got EXCEPT ![q] = None]
          BY <3>6 DEF Consume, Loader!Consume
        <4> QED BY <2>1, <2>2, <4>1 DEF TypeOK
      <3>7. ASSUME Environment  PROVE FALSE
        BY <3>1, <3>7
           DEF Environment, JanitorActive, JanitorStale, Evict, BackendWrite, Tick
      <3> QED BY <3>2, <3>3, <3>4, <3>5, <3>6, <3>7 DEF Next
    <2>4. PICK e \in {active, stale} : Live(e) /\ Told(p, Served(e))
      BY <2>3
    <2>5. got'[p] = Served(e) /\ Served(e).ver = e.ver
      BY <2>1, <2>4, ServedEffect DEF TypeOK, Served
    <2>6. e \in Entry /\ e.ver \in Ver /\ e.rem \in Int /\ e.rem >= 0 /\ conf \in Scenario
      <3>1. conf \in Scenario /\ e \in Entry /\ e.rem \in Expired .. Forever
        BY <2>1, <2>4, CacheType, VerType
      <3> QED BY <2>4, <3>1, EntryType, BoundType DEF Live, Expired
    <2>7. lapse[e.ver] \in Nat
      BY <2>1, <2>6, BoundType DEF TypeOK
    <2>8. /\ Later(MaxTTL, NegTTL) \in Nat
          /\ MaxLoad \in Nat /\ MaxTTL \in Nat /\ StaleTTL \in Nat /\ MaxAge \in Nat
          /\ MaxLoad + Later(MaxTTL, NegTTL) <= MaxAge
          /\ MaxLoad + MaxTTL + StaleTTL <= MaxAge
      BY <2>6, ConfType, BoundType DEF Later
    <2>9. lapse[e.ver] + e.rem <= MaxAge
      <3>1. CASE e = active
        <4>1. lapse[e.ver] + e.rem <= MaxLoad + Later(MaxTTL, NegTTL)
          BY <2>1, <2>4, <3>1 DEF TimeInv
        <4> QED BY <2>6, <2>7, <2>8, <4>1
      <3>2. CASE e = stale
        <4>1. lapse[e.ver] + e.rem <= MaxLoad + MaxTTL + StaleTTL
          BY <2>1, <2>4, <3>2 DEF TimeInv
        <4> QED BY <2>6, <2>7, <2>8, <4>1
      <3> QED BY <3>1, <3>2
    <2> QED BY <2>5, <2>6, <2>7, <2>8, <2>9
  <1> QED BY <1>1, Invariance, PTL DEF Spec, ServedInTime

=============================================================================
