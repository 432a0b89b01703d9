------------------------------ MODULE Cluster -------------------------------
(***************************************************************************)
(* One key on several nodes: http.go with the parts of groupcache.go that  *)
(* talk to peers.  A node that is not the owner of the key asks the owner, *)
(* keeps a copy of the answer, and goes to its own getter if the owner     *)
(* cannot be reached; increments go to the owner, invalidations to all.    *)
(*                                                                         *)
(* What happens within a node is taken over from Group, for a group with   *)
(* neither stale cache, incrementer nor filter; the loader is SharedLoad,  *)
(* with one execution per node.  A request is a call by a client or, named *)
(* after the node that sent it, the Get that a load makes at a peer.  A    *)
(* request whose sender has given up is dropped: all it could still do is  *)
(* start a load at the peer, as any client of the peer may.                *)
(***************************************************************************)
EXTENDS Integers

CONSTANTS Client,     \* calls of Get, Increment and Invalidate
          Node,       \* nodes, and the requests they send
          Rank,       \* the order in which the nodes follow the key on the ring
          Followed,   \* the nodes that EveryLoadEnds is about
          None,
          Scenario    \* the scenarios a run covers

Operation == {"Get", "Increment", "Invalidate"}
Fault == {"write", "fail", "lose", "miss", "evict", "time", "register", "set"}

ASSUME ClusterAssumption ==
  /\ Client \cap Node = {} /\ Followed \subseteq Node
  /\ Rank \in [Node -> Nat] /\ \A m, n \in Node : Rank[m] = Rank[n] => m = n
  /\ None \notin Client \cup Node /\ \A P \in SUBSET Node : P # None
  /\ None \notin [kind : {"number", "absent", "error"}, ver : Nat]
  /\ None \notin [kind : {"number", "absent"}, ver : Nat, rem : Int]
  /\ None \notin [phase : {"call", "read", "store"}, to : Node \cup {None},
                   kind : {"number", "absent", "error"}, ver : Nat]
  /\ None \notin [owner : Node, todo : SUBSET Node, missed : SUBSET Node,
                   floor : Nat, calm : BOOLEAN]
  /\ Scenario \subseteq
       [TTL         : Nat,              \* cacheTTL in ticks, 0: no expiration
        Jitter      : Nat,              \* cacheTTLJitter
        NegTTL      : Nat,              \* negativeTTL, 0: no negative caching
        WaitBounded : BOOLEAN,          \* singleflightWaitTTL > 0
        Pools       : SUBSET [Node -> (SUBSET Node) \cup {None}],  \* at the start
        Peers       : [Node -> SUBSET SUBSET Node],  \* arguments of HTTPPool.Set
        Ops         : [Client -> SUBSET Operation],  \* what the clients call
        At          : [Client -> SUBSET Node],       \* and at which nodes
        Kinds       : SUBSET {"number", "absent"},  \* what the backend holds
        Faults      : SUBSET Fault,     \* what the environment may do
        Watch       : BOOLEAN,          \* whether the history of reads is kept
        MaxVer      : Nat \ {0}]        \* bound on the changes of the value

VARIABLES conf,      \* the scenario, fixed from the start
          db,        \* the backend: [kind, ver]
          cache,     \* cache[n]: the entry in mainCache: [kind, ver, rem] or None
          pool,      \* pool[n]: the peers of n, None before RegisterPeers
          load,      \* load[n]: the running load of n: [phase, to, kind, ver]
          pc, at,    \* where request p is, and at which node
          flight, answer, want, reply, got,   \* see SharedLoad
          inv,       \* inv[p]: the progress of an Invalidate
          seen,      \* seen[n]: freshest version n has told a client
          mark,      \* mark[p]: seen at its node when p began
          granted,   \* the largest number an Increment has returned
          lapse      \* lapse[v]: ticks since the backend held version v, without
                     \* those that passed while a value of it was under way

Caller == Client \cup Node
loaderVars == <<flight, answer, want, reply>>
history == <<seen, mark, granted>>
state == <<db, cache, pool, load, pc, at, flight, answer, want, reply, got, inv,
           seen, mark, granted, lapse>>
vars == <<conf, state>>

TTL == conf.TTL
Jitter == conf.Jitter
NegTTL == conf.NegTTL
Ver == 0 .. conf.MaxVer
Later(a, b) == IF a >= b THEN a ELSE b
MaxTTL == Later(1, TTL + Jitter)
Forever == Later(MaxTTL, NegTTL) + 1
Expired == -1
Answer == [kind : {"number", "absent", "error"}, ver : Nat]
Failure == [kind |-> "error", ver |-> 0]

\* A copy may be made when the original is about to expire.
MaxAge == Later(MaxTTL, NegTTL) + Later(MaxTTL, NegTTL)

Loader == INSTANCE SharedLoad WITH Key <- Node, Result <- Answer

\* The types of the variables: an error is in no cache, and a node has a request
\* at a peer only while its load calls that peer.
TypeOK ==
  /\ conf \in Scenario
  /\ db \in [kind : {"number", "absent"}, ver : Ver]
  /\ cache \in [Node -> [kind : {"number", "absent"}, ver : Ver,
                         rem : Expired .. Forever] \cup {None}]
  /\ pool \in [Node -> (SUBSET Node) \cup {None}]
  /\ load \in [Node -> [phase : {"call", "read", "store"}, to : Node \cup {None},
                        kind : {"number", "absent", "error"}, ver : Ver] \cup {None}]
  /\ pc \in [Caller -> {"idle", "missed", "wait", "degrade", "done",
                        "incCall", "incReply", "incDone", "invPeers", "invDone"}]
  /\ at \in [Caller -> Node \cup {None}]
  /\ flight \in [Node -> {"none", "running", "finished"}]
  /\ answer \in [Node -> Answer \cup {None}]
  /\ want \in [Caller -> Node \cup {None}]
  /\ reply \in [Caller -> Answer \cup {None}]
  /\ got \in [Caller -> Answer \cup {None}]
  /\ inv \in [Client -> [owner : Node, todo : SUBSET Node, missed : SUBSET Node,
                         floor : Ver, calm : BOOLEAN] \cup {None}]
  /\ seen \in [Node -> Ver] /\ mark \in [Client -> Ver] /\ granted \in Ver
  /\ lapse \in [Ver \ {0} -> 0 .. MaxAge + 1]
  /\ \A n \in Node : pc[n] # "idle" =>
       load[n] # None /\ load[n].phase = "call" /\ at[n] = load[n].to

Init ==
  /\ conf \in Scenario
  /\ db \in [kind : conf.Kinds, ver : {1}]
  /\ cache = [n \in Node |-> None]
  /\ pool \in conf.Pools
  /\ load = [n \in Node |-> None]
  /\ pc = [p \in Caller |-> "idle"]
  /\ at = [p \in Caller |-> None]
  /\ Loader!Init
  /\ inv = [p \in Client |-> None]
  /\ seen = [n \in Node |-> 0] /\ mark = [p \in Client |-> 0] /\ granted = 0
  /\ lapse = [v \in Ver \ {0} |-> 0]

-----------------------------------------------------------------------------
Live(e) == e # None /\ e.rem # Expired

NewEntry(kind, ver, ttl) ==
  [kind |-> kind, ver |-> ver, rem |-> IF ttl > 0 THEN ttl ELSE Forever]

\* consistenthash.Map.Get: the nearest member, see ConsistentHash!NearestMember.
Owner(P) == CHOOSE n \in P : \A m \in P : Rank[n] <= Rank[m]

\* pickPeer: None stands for "not ok", the node serves the key itself.
PickPeer(n) ==
  IF pool[n] \in {None, {}} \/ Owner(pool[n]) = n THEN None ELSE Owner(pool[n])

\* The node that n takes for the owner.
OwnerFor(n) == IF PickPeer(n) = None THEN n ELSE PickPeer(n)

Goto(p, s) == pc' = [pc EXCEPT ![p] = s]

\* Client p calls Get or Invalidate at node n.
Calls(p, n, op) ==
  /\ p \in Client /\ n \in conf.At[p] /\ op \in conf.Ops[p]
  /\ pc[p] = "idle"
  /\ at' = [at EXCEPT ![p] = n]

\* The Get of a load reaches the peer n: ServeHTTP calls group.Get.
Arrives(p, n) ==
  /\ p \in Node /\ load[p] # None
  /\ load[p].phase = "call" /\ load[p].to = n
  /\ pc[p] = "idle"
  /\ at' = [at EXCEPT ![p] = n]

\* As in Group: the result must be respected by later ones.
Dated(r) == r.kind = "number" \/ (r.kind = "absent" /\ NegTTL > 0)

\* Node n tells p the result r.
Told(p, n, r) ==
  /\ got' = [got EXCEPT ![p] = r]
  /\ seen' = IF conf.Watch /\ p \in Client /\ Dated(r)
             THEN [seen EXCEPT ![n] = Later(@, r.ver)] ELSE seen

\* Get of a client or of a peer begins.
Begins(p, n) ==
  /\ Calls(p, n, "Get") \/ Arrives(p, n)
  /\ mark' = IF p \in Client THEN [mark EXCEPT ![p] = seen[n]] ELSE mark

GetHit(p, n) ==
  /\ Begins(p, n)
  /\ Live(cache[n])
  /\ Told(p, n, [kind |-> cache[n].kind, ver |-> cache[n].ver])
  /\ Goto(p, "done")
  /\ UNCHANGED <<db, cache, pool, load, loaderVars, inv, granted, lapse>>

GetMiss(p, n) ==
  /\ Begins(p, n)
  /\ ~Live(cache[n])
  /\ cache' = [cache EXCEPT ![n] = None]
  /\ Goto(p, "missed")
  /\ UNCHANGED <<db, pool, load, loaderVars, got, inv, seen, granted, lapse>>

\* load: the request joins the load of its node.
LoadJoin(p) ==
  /\ pc[p] = "missed"
  /\ Loader!Join(p, at[p])
  /\ Goto(p, "wait")
  /\ UNCHANGED <<db, cache, pool, load, at, inv, history, lapse>>

\* load: or it starts one, which asks a peer or the getter (loadFromPeer).
\* An Invalidate that has not reached the owner yet has company.
LoadStart(p) ==
  /\ pc[p] = "missed"
  /\ Loader!Start(p, at[p])
  /\ load' = [load EXCEPT ![at[p]] =
                [phase |-> IF PickPeer(at[p]) = None THEN "read" ELSE "call",
                 to |-> PickPeer(at[p]), kind |-> "error", ver |-> 0]]
  /\ Goto(p, "wait")
  /\ inv' = [q \in Client |->
               IF inv[q] # None /\ inv[q].owner \in inv[q].todo
               THEN [inv[q] EXCEPT !.calm = FALSE] ELSE inv[q]]
  /\ UNCHANGED <<db, cache, pool, at, history, lapse>>

WaitReturns(p) ==
  /\ pc[p] = "wait"
  /\ Loader!Return(p)
  /\ Told(p, at[p], reply[p])
  /\ Goto(p, "done")
  /\ UNCHANGED <<db, cache, pool, load, at, inv, mark, granted, lapse>>

\* Mutant of WaitTimeout: a request of a peer is not timed.
WaitTimeoutOfClients(p) ==
  /\ conf.WaitBounded
  /\ pc[p] = "wait" /\ p \in Client
  /\ Loader!Abandon(p)
  /\ Goto(p, "degrade")
  /\ UNCHANGED <<db, cache, pool, load, at, inv, history, lapse>>

\* waitForLoad: the timer fires first.
WaitTimeout(p) ==
  /\ conf.WaitBounded
  /\ pc[p] = "wait"
  /\ Loader!Abandon(p)
  /\ Goto(p, "degrade")
  /\ UNCHANGED <<db, cache, pool, load, at, inv, history, lapse>>

\* degradeAfterWaitTimeout asks the cache once more, and fails otherwise.
Degrade(p) ==
  /\ pc[p] = "degrade"
  /\ LET e == cache[at[p]]
     IN  Told(p, at[p], IF Live(e) THEN [kind |-> e.kind, ver |-> e.ver] ELSE Failure)
  /\ Goto(p, "done")
  /\ UNCHANGED <<db, cache, pool, load, at, loaderVars, inv, mark, granted, lapse>>

-----------------------------------------------------------------------------
(* The load of a node. *)

\* The load of n has r in hand and goes on with the given phase.
InHand(n, phase, r) ==
  load' = [load EXCEPT ![n] = [phase |-> phase, to |-> None,
                               kind |-> r.kind, ver |-> r.ver]]

\* The request of n at its peer is over.
Dropped(n) ==
  /\ Goto(n, "idle")
  /\ at' = [at EXCEPT ![n] = None]
  /\ got' = [got EXCEPT ![n] = None]
  /\ want' = [want EXCEPT ![n] = None]
  /\ reply' = [reply EXCEPT ![n] = None]
  /\ UNCHANGED <<flight, answer>>

\* Mutant of AfterPeer: a peer that has no value is no better than no peer.
AfterPeerValuesOnly(r) == IF r.kind = "number" THEN "store" ELSE "read"

\* writeProtoResponse, doProtoRequest and loadFromPeer: a value and ErrNotFound
\* arrive as such; any other error sends the load to its own getter.
AfterPeer(r) == IF r.kind = "error" THEN "read" ELSE "store"

\* The peer answers.
PeerReturns(n) ==
  /\ pc[n] = "done"
  /\ InHand(n, AfterPeer(got[n]), got[n])
  /\ Dropped(n)
  /\ UNCHANGED <<db, cache, pool, inv, history, lapse>>

\* The peer cannot be reached, or its answer is lost.
PeerFails(n) ==
  /\ "lose" \in conf.Faults
  /\ load[n] # None /\ load[n].phase = "call"
  /\ InHand(n, "read", Failure)
  /\ Dropped(n)
  /\ UNCHANGED <<db, cache, pool, inv, history, lapse>>

\* getLocally: the getter answers.
GetterReturns(n) ==
  /\ load[n] # None /\ load[n].phase = "read"
  /\ \E r \in {db} \cup (IF "fail" \in conf.Faults THEN {Failure} ELSE {}) :
       InHand(n, "store", r)
  /\ UNCHANGED <<db, cache, pool, pc, at, loaderVars, got, inv, history, lapse>>

\* Mutant of NextTTL: entries are added without a ttl.
NoTTL == {0}

\* nextTTL: the base ttl with jitter, never below one unit of the clock.
NextTTL ==
  IF TTL = 0 THEN {0} ELSE {Later(1, TTL + d) : d \in -Jitter .. Jitter}

\* Mutant of CachesNegative: cacheNegative leaves an entry that is there.
CachesNegativeIfMissing(e) == NegTTL > 0 /\ ~Live(e)

CachesNegative(e) == NegTTL > 0

\* Mutant of Stored: the error return is missing.
StoredAnyway(e, r, ttl) == NewEntry(r.kind, r.ver, ttl)

\* What becomes of the entry e when a load has the result r and the ttl that
\* nextTTL gives: the ends of getFromPeer and of getLocally, and cacheNegative.
Stored(e, r, ttl) ==
  CASE r.kind = "number" -> NewEntry("number", r.ver, ttl)
    [] r.kind = "absent" /\ CachesNegative(e) -> NewEntry("absent", r.ver, NegTTL)
    [] OTHER -> e

\* The load stores its result and returns it to everyone who waits for it.
LoadReturns(n) ==
  /\ load[n] # None /\ load[n].phase = "store"
  /\ \E ttl \in NextTTL : cache' = [cache EXCEPT ![n] = Stored(@, load[n], ttl)]
  /\ Loader!Finish(n, [kind |-> load[n].kind, ver |-> load[n].ver])
  /\ load' = [load EXCEPT ![n] = None]
  /\ UNCHANGED <<db, pool, pc, at, inv, history, lapse>>

LoadRetired(n) ==
  /\ Loader!Retire(n)
  /\ UNCHANGED <<db, cache, pool, load, pc, at, inv, history, lapse>>

-----------------------------------------------------------------------------
(* Increment of a counter that is kept in the caches. *)

Number(n) == IF Live(cache[n]) /\ cache[n].kind = "number" THEN cache[n].ver ELSE 0

\* Client p calls Increment at node n.
Begun(p, n) ==
  /\ p \in Client /\ n \in conf.At[p] /\ "Increment" \in conf.Ops[p]
  /\ pc[p] = "idle"
  /\ mark' = [mark EXCEPT ![p] = granted]

\* incrementLocally at node n, on behalf of p, within the bound on the numbers.
Counted(p, n) ==
  /\ Number(n) < conf.MaxVer
  /\ \E ttl \in NextTTL :
       cache' = [cache EXCEPT ![n] = NewEntry("number", Number(n) + 1, ttl)]
  /\ got' = [got EXCEPT ![p] = [kind |-> "number", ver |-> Number(n) + 1]]

\* At the owner, or at a node without peers.
IncrementHere(p, n) ==
  /\ Begun(p, n)
  /\ PickPeer(n) = None
  /\ Counted(p, n)
  /\ granted' = Later(granted, Number(n) + 1)
  /\ at' = [at EXCEPT ![p] = n]
  /\ Goto(p, "incDone")
  /\ UNCHANGED <<db, pool, load, loaderVars, inv, seen, lapse>>

\* Elsewhere: incrementFromPeer.
IncrementForwarded(p, n) ==
  /\ Begun(p, n)
  /\ PickPeer(n) # None
  /\ at' = [at EXCEPT ![p] = PickPeer(n)]
  /\ Goto(p, "incCall")
  /\ UNCHANGED <<db, cache, pool, load, loaderVars, got, inv, seen, granted, lapse>>

\* The peer serves it with incrementLocally, and does not forward it again.
IncrementServed(p) ==
  /\ pc[p] = "incCall"
  /\ Counted(p, at[p])
  /\ Goto(p, "incReply")
  /\ UNCHANGED <<db, pool, load, at, loaderVars, inv, history, lapse>>

IncrementReturns(p) ==
  /\ pc[p] = "incReply"
  /\ granted' = Later(granted, got[p].ver)
  /\ Goto(p, "incDone")
  /\ UNCHANGED <<db, cache, pool, load, at, loaderVars, got, inv, seen, mark, lapse>>

\* Mutant of IncrementFails: as for a Get, the node serves the call itself.
IncrementFallsBack(p) ==
  /\ "lose" \in conf.Faults
  /\ pc[p] = "incCall"
  /\ \E n \in conf.At[p] \ {at[p]} : Counted(p, n)
  /\ Goto(p, "incReply")
  /\ UNCHANGED <<db, pool, load, at, loaderVars, inv, history, lapse>>

\* The call or its answer is lost; the number may have been counted.
IncrementFails(p) ==
  /\ "lose" \in conf.Faults
  /\ pc[p] \in {"incCall", "incReply"}
  /\ got' = [got EXCEPT ![p] = Failure]
  /\ Goto(p, "incDone")
  /\ UNCHANGED <<db, cache, pool, load, at, loaderVars, inv, history, lapse>>

-----------------------------------------------------------------------------
(* Invalidate. *)

\* invalidateLocal, and the peers that broadcastInvalidate will ask.  It misses
\* the nodes that are no peers.
Invalidate(p, n) ==
  /\ Calls(p, n, "Invalidate")
  /\ cache' = [cache EXCEPT ![n] = None]
  /\ LET peers == IF pool[n] = None THEN {} ELSE pool[n] \ {n}
     IN  inv' = [inv EXCEPT ![p] =
                   [owner |-> OwnerFor(n), todo |-> peers,
                    missed |-> Node \ (peers \cup {n}),
                    floor |-> db.ver, calm |-> \A m \in Node : flight[m] = "none"]]
  /\ Goto(p, "invPeers")
  /\ UNCHANGED <<db, pool, load, loaderVars, got, history, lapse>>

\* A peer removes the key (ServeHTTP); it does not matter whether it says so.
InvalidatePeer(p, m) ==
  /\ pc[p] = "invPeers" /\ m \in inv[p].todo
  /\ cache' = [cache EXCEPT ![m] = None]
  /\ inv' = [inv EXCEPT ![p].todo = @ \ {m}]
  /\ UNCHANGED <<db, pool, load, pc, at, loaderVars, got, history, lapse>>

\* Mutant of InvalidateMisses: the first error ends the loop.
InvalidateGivesUp(p, m) ==
  /\ "miss" \in conf.Faults
  /\ pc[p] = "invPeers" /\ m \in inv[p].todo
  /\ inv' = [inv EXCEPT ![p].todo = {}, ![p].missed = @ \cup {m}]
  /\ UNCHANGED <<db, cache, pool, load, pc, at, loaderVars, got, history, lapse>>

\* A peer is not reached; the next ones are asked all the same.
InvalidateMisses(p, m) ==
  /\ "miss" \in conf.Faults
  /\ pc[p] = "invPeers" /\ m \in inv[p].todo
  /\ inv' = [inv EXCEPT ![p].todo = @ \ {m}, ![p].missed = @ \cup {m}]
  /\ UNCHANGED <<db, cache, pool, load, pc, at, loaderVars, got, history, lapse>>

InvalidateReturns(p) ==
  /\ pc[p] = "invPeers" /\ inv[p].todo = {}
  /\ Goto(p, "invDone")
  /\ UNCHANGED <<db, cache, pool, load, at, loaderVars, got, inv, history, lapse>>

\* The client has looked at the result of its call.
Consume(p) ==
  /\ p \in Client
  /\ pc[p] \in {"done", "incDone", "invDone"}
  /\ Loader!Consume(p)
  /\ at' = [at EXCEPT ![p] = None]
  /\ mark' = [mark EXCEPT ![p] = 0]
  /\ inv' = [inv EXCEPT ![p] = None]
  /\ Goto(p, "idle")
  /\ UNCHANGED <<db, cache, pool, load, seen, granted, lapse>>

-----------------------------------------------------------------------------
(* Peers, evictions, the backend and the clock. *)

RegisterPeers(n, P) ==
  /\ "register" \in conf.Faults
  /\ pool[n] = None
  /\ pool' = [pool EXCEPT ![n] = P]
  /\ UNCHANGED <<db, cache, load, pc, at, loaderVars, got, inv, history, lapse>>

\* HTTPPool.Set replaces the peers.
SetPeers(n, P) ==
  /\ "set" \in conf.Faults
  /\ pool[n] \notin {None, P}
  /\ pool' = [pool EXCEPT ![n] = P]
  /\ UNCHANGED <<db, cache, load, pc, at, loaderVars, got, inv, history, lapse>>

Evict(n) ==
  /\ "evict" \in conf.Faults
  /\ cache[n] # None
  /\ cache' = [cache EXCEPT ![n] = None]
  /\ UNCHANGED <<db, pool, load, pc, at, loaderVars, got, inv, history, lapse>>

BackendWrite ==
  /\ "write" \in conf.Faults
  /\ db.ver < conf.MaxVer
  /\ \E kind \in conf.Kinds : db' = [kind |-> kind, ver |-> db.ver + 1]
  /\ UNCHANGED <<cache, pool, load, pc, at, loaderVars, got, inv, history, lapse>>

Aged(e) ==
  IF e = None \/ e.rem \in {Expired, Forever} THEN e ELSE [e EXCEPT !.rem = @ - 1]

\* A value of version v is under way: read from the backend or taken from the
\* cache of a peer, and not stored or given up yet.  No timeout bounds that time.
UnderWay(v) ==
  \E n \in Node :
    \/ load[n] # None /\ load[n].phase = "store" /\ load[n].ver = v
    \/ \E r \in {answer[n], reply[n], got[n]} : r # None /\ r.ver = v

\* A tick of the clock, whatever is under way.
Tick ==
  /\ "time" \in conf.Faults
  /\ cache' = [n \in Node |-> Aged(cache[n])]
  /\ lapse' = [v \in Ver \ {0} |->
                 IF v >= db.ver THEN 0
                 ELSE IF UnderWay(v) \/ lapse[v] > MaxAge THEN lapse[v]
                 ELSE lapse[v] + 1]
  /\ UNCHANGED <<db, pool, load, pc, at, loaderVars, got, inv, history>>

-----------------------------------------------------------------------------
RequestStep(p) ==
  \/ LoadJoin(p) \/ LoadStart(p) \/ WaitReturns(p) \/ WaitTimeout(p) \/ Degrade(p)

LoadStep(n) ==
  \/ \E m \in Node : GetHit(n, m) \/ GetMiss(n, m)
  \/ PeerReturns(n) \/ GetterReturns(n) \/ LoadReturns(n)

IncrementStep(p) == IncrementServed(p) \/ IncrementReturns(p) \/ IncrementFails(p)

InvalidateStep(p) ==
  \/ \E m \in Node : InvalidatePeer(p, m) \/ InvalidateMisses(p, m)
  \/ InvalidateReturns(p)

Environment ==
  \/ \E n \in Node : \E P \in conf.Peers[n] : RegisterPeers(n, P) \/ SetPeers(n, P)
  \/ \E n \in Node : Evict(n)
  \/ BackendWrite
  \/ Tick

Next ==
  /\ \/ \E p \in Client, n \in Node :
          \/ GetHit(p, n) \/ GetMiss(p, n)
          \/ IncrementHere(p, n) \/ IncrementForwarded(p, n) \/ Invalidate(p, n)
     \/ \E p \in Client : IncrementStep(p) \/ InvalidateStep(p) \/ Consume(p)
     \/ \E p \in Caller : RequestStep(p)
     \/ \E n \in Node : LoadStep(n) \/ PeerFails(n) \/ LoadRetired(n)
     \/ Environment
  /\ UNCHANGED conf

Spec == Init /\ [][Next]_vars

\* Goroutines that can run are scheduled, timers fire and getters answer.  A Get
\* that a load sends arrives unless it fails, and its answer as well: nothing
\* limits the time that the code waits for them.  An Invalidate has a limit.
Fairness ==
  /\ \A p \in Caller : WF_state(RequestStep(p))
  /\ \A p \in Client : WF_state(IncrementStep(p)) /\ WF_state(InvalidateStep(p))
  /\ \A n \in Node : WF_state(LoadStep(n))

FairSpec == Spec /\ Fairness

-----------------------------------------------------------------------------
\* The nodes that have peers have the same ones, and that will not change.
OneRing ==
  /\ "set" \notin conf.Faults
  /\ \A m, n \in Node : None \in {pool[m], pool[n]} \/ pool[m] = pool[n]

\* All nodes have peers from the start.
Settled ==
  /\ OneRing /\ "register" \notin conf.Faults
  /\ \A n \in Node : pool[n] \notin {None, {}}

\* And no call is lost, no getter fails and no wait is cut short.
Smooth == Settled /\ conf.Faults \cap {"lose", "fail"} = {} /\ ~conf.WaitBounded

\* The versions are those of the backend: nobody counts in the caches.
Uncounted == \A p \in Client : "Increment" \notin conf.Ops[p]

\* In a smooth cluster the backend is read only by the owner of the key, and
\* therefore once at a time, however many nodes miss the key at once; a key
\* that does not exist is no exception.
OwnerFetches ==
  Smooth => \A n \in Node : load[n] # None /\ load[n].phase = "read" => n = OwnerFor(n)

\* Reads do not go back at a node: in a smooth cluster a Get that begins after
\* another Get at the same node has returned is not told an older version,
\* although each may be a copy that the owner made or passed on at another time.
MonotonicReads ==
  Smooth /\ Uncounted =>
    \A p \in Client : pc[p] = "done" /\ Dated(got[p]) => got[p].ver >= mark[p]

\* A copy of a copy: what a node serves, a value or a recorded ErrNotFound, was
\* true of the backend at most twice the longest ttl ago, jitter included: once
\* for the copy of the owner and once for that of the node.  To this comes only
\* the time during which such a value was under way, which the code does not
\* bound.  It holds with nodes that have not registered their peers yet and with
\* owners that cannot be reached, and entries may expire at any point of a call.
CopiesInTime ==
  OneRing /\ Uncounted /\ TTL > 0 =>
    \A n \in Node : Live(cache[n]) => lapse[cache[n].ver] <= MaxAge

\* "Increment atomically increments the numeric value": through whichever node
\* it comes, an Increment returns more than every Increment that had returned
\* before it began, also when calls and answers are lost on the way.
CounterGrows ==
  /\ Settled /\ conf.Faults \cap {"evict", "time"} = {}
  /\ conf.Ops = [p \in Client |-> {"Increment"}]
  => \A p \in Client :
       pc[p] = "incDone" /\ got[p].kind = "number" => got[p].ver > mark[p]

\* "invalidate should force reload": when Invalidate has returned, no node that
\* it has reached has an older value than the backend had when it was called,
\* even if other nodes were not reached.  The owner must be reached, and from
\* the call up to then there must be no load anywhere: a load that overlaps may
\* bring the old value back.
InvalidateForcesReload ==
  Settled /\ Uncounted =>
    \A p \in Client :
      pc[p] = "invDone" /\ inv[p].calm /\ inv[p].owner \notin inv[p].missed =>
        \A n \in Node \ inv[p].missed : Live(cache[n]) => cache[n].ver >= inv[p].floor

\* Every load ends, and with it everyone's wait for it: nodes with the same ring
\* do not wait for each other.  With a bounded wait this is so even if nodes
\* with different rings send a load round in a circle, where a request of a
\* peer ends up waiting for the load that has sent it.
EveryLoadEnds == \A n \in Followed : load[n] # None ~> load[n] = None
=============================================================================
