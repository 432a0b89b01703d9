---------------------------- MODULE ClusterProofs ---------------------------
(***************************************************************************)
(* Proofs about Cluster, for any nodes, clients, ranks and scenarios.      *)
(*                                                                         *)
(* The properties are not inductive: each is about what clients or caches  *)
(* end up with, and holds because of what is still on its way.  IInv says  *)
(* so part by part.                                                        *)
(*                                                                         *)
(*  - StageInv: where a request is, whether its node has a load and which  *)
(*    results are in its hands agree.                                      *)
(*  - RingInv: in a settled cluster every load, Increment and Invalidate   *)
(*    goes to the same node, the owner, and the owner asks nobody.         *)
(*  - FetchInv: in a smooth cluster no error is on its way, which is what  *)
(*    would send another node to its getter.                               *)
(*  - ReadInv: a version that a node has told is behind everything that    *)
(*    node may still tell, in its cache, its load, its answer and its      *)
(*    request at the owner, and behind all that the owner may tell it.     *)
(*  - TimeInv: the age of a copy and what remains of its ttl add up to one *)
(*    ttl where the backend is read, and to two where a peer is asked.     *)
(*  - CountInv: the number at the owner is at least every number that has  *)
(*    been returned or is on its way back.                                 *)
(*  - ReloadInv: until an Invalidate reaches the owner there is no load,   *)
(*    and the nodes that it has reached have nothing; from then on nothing *)
(*    older than the call is on its way.                                   *)
(*                                                                         *)
(* Which step may bring a result to which place is proved once, for every  *)
(* action: AskFlow, DataFlow, InvFlow and ReadFlow.  The invariants follow *)
(* from these, with a look at few of the actions.                          *)
(***************************************************************************)
EXTENDS Cluster, WellFoundedInduction, TLAPS

\* The load l has a value or an ErrNotFound in hand.
Holds(l) == l # None /\ l.phase = "store" /\ l.kind # "error"

\* Where a request is, what it holds and where the loads are agree with each other.
StageInv ==
  /\ db.ver >= 1
  /\ \A n \in Node :
       /\ load[n] # None <=> flight[n] = "running"
       /\ answer[n] # None <=> flight[n] = "finished"
       /\ load[n] # None => (load[n].phase = "call" <=> load[n].to # None)
       /\ load[n] # None /\ load[n].phase = "store" /\ load[n].kind # "error" => load[n].ver >= 1
       /\ answer[n] # None => answer[n].ver \in Ver /\ (answer[n].kind # "error" => answer[n].ver >= 1)
       /\ cache[n] # None => cache[n].ver >= 1
       /\ pc[n] \in {"idle", "missed", "wait", "degrade", "done"}
  /\ \A p \in Caller :
       /\ at[p] = None <=> pc[p] = "idle"
       /\ want[p] = IF pc[p] = "wait" THEN at[p] ELSE None
       /\ reply[p] # None =>
            /\ want[p] # None
            /\ reply[p].ver \in Ver /\ (reply[p].kind # "error" => reply[p].ver >= 1)
       /\ got[p] # None <=> pc[p] \in {"done", "incReply", "incDone"}
       /\ got[p] # None =>
            got[p].ver \in Ver /\ (got[p].kind # "error" => got[p].ver >= 1)
  /\ \A p \in Client :
       /\ inv[p] # None <=> pc[p] \in {"invPeers", "invDone"}
       /\ pc[p] = "invDone" => inv[p].todo = {}
       /\ pc[p] \in {"missed", "wait", "degrade", "done"} => "Get" \in conf.Ops[p]
       /\ pc[p] \in {"incCall", "incReply", "incDone"} => "Increment" \in conf.Ops[p]
       /\ pc[p] \in {"invPeers", "invDone"} => "Invalidate" \in conf.Ops[p]
  /\ (\A p \in Client : "Get" \notin conf.Ops[p]) => \A n \in Node : flight[n] = "none"

\* The cluster is settled, and all its nodes take o for the owner.
Home(o) == Settled /\ \A n \in Node : OwnerFor(n) = o

\* All nodes ask the same node.
RingInv ==
  \A o \in Node : Home(o) =>
    /\ \A n \in Node : load[n] # None /\ load[n].phase = "call" => load[n].to = o /\ n # o
    /\ \A p \in Client :
         /\ inv[p] # None => inv[p].owner = o
         /\ pc[p] = "incCall" => at[p] = o

\* r is no error, if there is a result r.
NoError(r) == r # None => r.kind # "error"

\* In a smooth cluster there are no errors: nobody but the owner needs its getter.
FetchInv ==
  Smooth =>
    /\ OwnerFetches
    /\ \A n \in Node : /\ NoError(answer[n])
                       /\ load[n] # None /\ load[n].phase = "store" => load[n].kind # "error"
    /\ \A p \in Caller : /\ pc[p] # "degrade" /\ NoError(reply[p])
                         /\ pc[p] = "done" => NoError(got[p])

\* Version v is not newer than the record r.
Upto(v, r) == r # None /\ Dated(r) => v <= r.ver

\* Nothing that the owner o may say from now on is older than v.
Old(o, v) ==
  /\ v <= db.ver
  /\ Live(cache[o]) => v <= cache[o].ver
  /\ Holds(load[o]) => Upto(v, load[o])
  /\ Upto(v, answer[o])

\* The same for node n, which asks o.
OldAt(o, n, v) ==
  /\ Old(o, v)
  /\ Live(cache[n]) => v <= cache[n].ver
  /\ Holds(load[n]) => Upto(v, load[n])
  /\ Upto(v, answer[n]) /\ Upto(v, reply[n]) /\ Upto(v, got[n])

\* What has been told at a node, and what will be or may be told, is not newer
\* than what comes next at this node or, for a copy on its way, at the owner.
ReadInvAt(o) ==
  /\ \A n \in Node :
       /\ OldAt(o, n, seen[n])
       /\ Live(cache[n]) => OldAt(o, n, cache[n].ver)
       /\ answer[n] # None /\ Dated(answer[n]) => OldAt(o, n, answer[n].ver)
       /\ Holds(load[n]) /\ Dated(load[n]) =>
            load[n].ver <= db.ver /\ (n # o => Old(o, load[n].ver))
       /\ reply[n] # None /\ Dated(reply[n]) => Old(o, reply[n].ver)
       /\ got[n] # None /\ Dated(got[n]) => Old(o, got[n].ver)
  /\ \A p \in Client :
       /\ pc[p] \in {"missed", "wait"} => mark[p] <= seen[at[p]]
       /\ reply[p] # None /\ Dated(reply[p]) =>
            OldAt(o, at[p], reply[p].ver) /\ mark[p] <= reply[p].ver
       /\ pc[p] = "done" /\ Dated(got[p]) => got[p].ver >= mark[p]

\* This holds of the owner of a smooth cluster.
ReadInv == Smooth /\ Uncounted => \A o \in Node : Home(o) => ReadInvAt(o)

\* The longest that an entry is kept.
Longest == Later(MaxTTL, NegTTL)

\* Node n asks a peer; then what it stores may be that old.
Asks(n) == PickPeer(n) # None
Age(n) == IF Asks(n) THEN Longest ELSE 0

\* The result r was true of the backend at most a ticks ago.
InTime(r, a) == r # None /\ r.kind # "error" => lapse[r.ver] <= a

\* What is stored at a node may be as old as what it is made from, plus the time
\* that it has been there.
TimeInv ==
  /\ \A v \in Ver \ {0} : v >= db.ver => lapse[v] = 0
  /\ OneRing /\ Uncounted /\ TTL > 0 =>
       \A n \in Node :
         /\ load[n] # None /\ load[n].phase = "call" =>
              PickPeer(n) = load[n].to /\ ~Asks(load[n].to)
         /\ Holds(load[n]) => InTime(load[n], Age(n))
         /\ InTime(answer[n], Age(n))
         /\ Live(cache[n]) =>
              /\ cache[n].rem # Forever
              /\ lapse[cache[n].ver] + cache[n].rem <= Age(n) + Longest
         /\ InTime(reply[n], 0) /\ InTime(got[n], Longest)

\* The premises of CounterGrows that do not concern the ring.
OnlyIncrements ==
  /\ conf.Faults \cap {"evict", "time"} = {}
  /\ conf.Ops = [p \in Client |-> {"Increment"}]

\* The owner has the largest number, and a call that has not begun when another
\* returned will get a larger one.
CountInv ==
  OnlyIncrements => \A o \in Node : Home(o) =>
    /\ cache[o] # None => Live(cache[o]) /\ cache[o].kind = "number"
    /\ granted <= Number(o)
    /\ \A p \in Client :
         /\ mark[p] <= granted
         /\ pc[p] = "incReply" => got[p].kind = "number"
         /\ pc[p] \in {"incReply", "incDone"} /\ got[p].kind = "number" =>
              mark[p] < got[p].ver /\ got[p].ver <= Number(o)

\* The result r is not older than version f.
Fresh(r, f) == r # None /\ r.kind # "error" => r.ver >= f

\* The Invalidate of p has not been disturbed so far.
Undisturbed(p) ==
  inv[p] # None /\ inv[p].calm /\ inv[p].owner \notin inv[p].missed

\* How far the Invalidate of p has come, and what this means for the owner o and
\* the nodes that have been reached.
ReloadInvOf(o, p) ==
  /\ inv[p].floor <= db.ver
  /\ o \in inv[p].todo =>
       \A n \in Node :
         /\ flight[n] = "none"
         /\ n \notin inv[p].missed \cup inv[p].todo => ~Live(cache[n])
  /\ o \notin inv[p].todo =>
       \A n \in Node :
         /\ n \notin inv[p].missed \cup inv[p].todo /\ Live(cache[n]) =>
              cache[n].ver >= inv[p].floor
         /\ Holds(load[n]) => load[n].ver >= inv[p].floor
         /\ Fresh(answer[n], inv[p].floor)
         /\ Fresh(reply[n], inv[p].floor) /\ Fresh(got[n], inv[p].floor)

\* This holds of every undisturbed Invalidate in a settled cluster.
ReloadInv ==
  Uncounted => \A o \in Node : Home(o) =>
    \A p \in Client : Undisturbed(p) => ReloadInvOf(o, p)

\* The part that does not depend on the scenario.
Control == TypeOK /\ StageInv /\ RingInv
\* The inductive invariant.
IInv == Control /\ FetchInv /\ ReadInv /\ TimeInv /\ CountInv /\ ReloadInv

-----------------------------------------------------------------------------
(* The configuration, the ring and the helpers of the model. *)

\* The records of TypeOK.
Entry == [kind : {"number", "absent"}, ver : Ver, rem : Expired .. Forever]
LoadRecord == [phase : {"call", "read", "store"}, to : Node \cup {None},
               kind : {"number", "absent", "error"}, ver : Ver]
InvRecord == [owner : Node, todo : SUBSET Node, missed : SUBSET Node,
              floor : Ver, calm : BOOLEAN]

\* The fields of a scenario, and the bounds that are made of them.
LEMMA ConfType ==
  ASSUME conf \in Scenario
  PROVE  /\ TTL \in Nat /\ NegTTL \in Nat /\ conf.MaxVer \in Nat \ {0}
         /\ conf.Pools \subseteq [Node -> (SUBSET Node) \cup {None}]
         /\ conf.Peers \in [Node -> SUBSET SUBSET Node]
         /\ conf.Ops \in [Client -> SUBSET Operation]
         /\ conf.At \in [Client -> SUBSET Node]
         /\ conf.Kinds \subseteq {"number", "absent"}
         /\ Longest \in Nat /\ NegTTL <= Longest
         /\ \A ttl \in NextTTL : ttl \in 0 .. Longest /\ (TTL > 0 => ttl > 0)
         /\ Forever = Longest + 1 /\ MaxAge = Longest + Longest
         /\ Ver \subseteq Nat /\ Ver = 0 .. conf.MaxVer
  <1>1. /\ TTL \in Nat /\ Jitter \in Nat /\ NegTTL \in Nat
        /\ conf.MaxVer \in Nat \ {0}
        /\ conf.Pools \subseteq [Node -> (SUBSET Node) \cup {None}]
        /\ conf.Peers \in [Node -> SUBSET SUBSET Node]
        /\ conf.Ops \in [Client -> SUBSET Operation]
        /\ conf.At \in [Client -> SUBSET Node]
        /\ conf.Kinds \subseteq {"number", "absent"}
    BY ClusterAssumption DEF TTL, Jitter, NegTTL
  <1>2. /\ MaxTTL \in Nat
        /\ \A ttl \in NextTTL : ttl \in 0 .. MaxTTL /\ (TTL > 0 => ttl > 0)
    BY <1>1 DEF MaxTTL, NextTTL, Later
  <1>3. Longest \in Nat /\ NegTTL <= Longest /\ MaxTTL <= Longest
    BY <1>1, <1>2 DEF Longest, Later
  <1> QED BY <1>1, <1>2, <1>3 DEF Longest, Forever, MaxAge, Ver

\* The configuration does not change, nor does anything that is made of it.
LEMMA Fixed ==
  ASSUME UNCHANGED conf
  PROVE  /\ TTL' = TTL /\ NegTTL' = NegTTL /\ Ver' = Ver /\ Longest' = Longest
         /\ Forever' = Forever /\ MaxAge' = MaxAge /\ Entry' = Entry
         /\ LoadRecord' = LoadRecord /\ InvRecord' = InvRecord
         /\ Uncounted' = Uncounted /\ OnlyIncrements' = OnlyIncrements
  BY DEF TTL, Jitter, NegTTL, Ver, MaxTTL, Longest, Later, Forever, MaxAge, Entry,
         LoadRecord, InvRecord, Uncounted, OnlyIncrements

\* None is no node and no record.
LEMMA NotNone ==
  ASSUME conf \in Scenario
  PROVE  /\ None \notin Node /\ None \notin Client /\ None \notin Caller
         /\ \A P \in SUBSET Node : P # None
         /\ None \notin Answer /\ None \notin Entry
         /\ None \notin LoadRecord /\ None \notin InvRecord
  <1>1. Ver \subseteq Nat /\ Expired .. Forever \subseteq Int
    BY ConfType
  <1>2. Entry \subseteq [kind : {"number", "absent"}, ver : Nat, rem : Int]
    BY <1>1 DEF Entry
  <1>3. LoadRecord \subseteq [phase : {"call", "read", "store"}, to : Node \cup {None},
                              kind : {"number", "absent", "error"}, ver : Nat]
    BY <1>1 DEF LoadRecord
  <1>4. InvRecord \subseteq [owner : Node, todo : SUBSET Node, missed : SUBSET Node,
                             floor : Nat, calm : BOOLEAN]
    BY <1>1 DEF InvRecord
  <1> QED BY <1>2, <1>3, <1>4, ClusterAssumption DEF Answer, Caller

\* The types of the variables, with names for the records.
LEMMA Types ==
  TypeOK =>
    /\ conf \in Scenario
    /\ db \in [kind : {"number", "absent"}, ver : Ver]
    /\ cache \in [Node -> Entry \cup {None}]
    /\ pool \in [Node -> (SUBSET Node) \cup {None}]
    /\ load \in [Node -> LoadRecord \cup {None}]
    /\ at \in [Caller -> Node \cup {None}]
    /\ answer \in [Node -> Answer \cup {None}]
    /\ inv \in [Client -> InvRecord \cup {None}]
    /\ seen \in [Node -> Ver] /\ mark \in [Client -> Ver] /\ granted \in Ver
    /\ lapse \in [Ver \ {0} -> 0 .. MaxAge + 1]
  BY DEF TypeOK, Entry, LoadRecord, InvRecord

\* The ring has an owner for the key: the nodes have different ranks.
LEMMA OwnerType ==
  ASSUME NEW P \in SUBSET Node, P # {}
  PROVE  Owner(P) \in P
  <1> DEFINE R == {ss \in Nat \X Nat : ss[1] < ss[2]}
             B == {Rank[n] : n \in P}
  <1>1. IsWellFoundedOn(R, Nat)
    BY NatLessThanWellFounded DEF OpToRel
  <1>2. \A i, j \in Nat : i < j => <<i, j>> \in R
    OBVIOUS
  <1>3. B \in SUBSET Nat /\ B # {}
    BY ClusterAssumption
  <1> HIDE DEF R
  <1>4. PICK i \in B : \A j \in B : ~(<<j, i>> \in R)
    BY <1>1, <1>3, WFMin
  <1>5. PICK n \in P : i = Rank[n]
    OBVIOUS
  <1>6. \A m \in P : Rank[n] <= Rank[m]
    <2> TAKE m \in P
    <2>1. Rank[m] \in B /\ Rank[m] \in Nat /\ Rank[n] \in Nat
      BY ClusterAssumption
    <2>2. ~(Rank[m] < Rank[n])
      BY <1>2, <1>4, <1>5, <2>1
    <2> QED BY <2>1, <2>2
  <1> QED BY <1>6 DEF Owner

\* pickPeer gives another node, or none.
LEMMA PickType ==
  ASSUME TypeOK, NEW n \in Node
  PROVE  /\ PickPeer(n) \in Node \cup {None} /\ PickPeer(n) # n
         /\ OwnerFor(n) \in Node
         /\ pool[n] \notin {None, {}} => OwnerFor(n) = Owner(pool[n])
  <1>1. pool[n] \in (SUBSET Node) \cup {None} /\ conf \in Scenario
    BY DEF TypeOK
  <1>2. None \notin Node
    BY <1>1, NotNone
  <1>3. ASSUME pool[n] \notin {None, {}}  PROVE Owner(pool[n]) \in Node
    <2>1. pool[n] \in SUBSET Node /\ pool[n] # {}
      BY <1>1, <1>3
    <2> QED BY <2>1, OwnerType
  <1> QED BY <1>2, <1>3 DEF PickPeer, OwnerFor

\* An entry that is stored is live.
LEMMA NewEntryType ==
  ASSUME conf \in Scenario, NEW kind \in {"number", "absent"}, NEW ver \in Ver,
         NEW ttl \in 0 .. Longest
  PROVE  /\ NewEntry(kind, ver, ttl) \in Entry
         /\ Live(NewEntry(kind, ver, ttl))
         /\ NewEntry(kind, ver, ttl).kind = kind
         /\ NewEntry(kind, ver, ttl).ver = ver
         /\ NewEntry(kind, ver, ttl).rem = IF ttl > 0 THEN ttl ELSE Forever
  <1>1. NewEntry(kind, ver, ttl) \in Entry
    BY ConfType DEF NewEntry, Entry, Expired
  <1> QED
    BY <1>1, NotNone, ConfType DEF NewEntry, Live, Expired

\* The fields of what a cache or a load has.
LEMMA Fields ==
  ASSUME TypeOK, NEW n \in Node
  PROVE  /\ cache[n] # None =>
              /\ cache[n] \in Entry /\ cache[n].kind \in {"number", "absent"}
              /\ cache[n].ver \in Ver /\ cache[n].rem \in Expired .. Forever
         /\ load[n] # None =>
              /\ load[n] \in LoadRecord /\ load[n].to \in Node \cup {None}
              /\ load[n].kind \in {"number", "absent", "error"} /\ load[n].ver \in Ver
         /\ db.kind \in {"number", "absent"} /\ db.ver \in Ver /\ db.ver \in Nat
         /\ conf \in Scenario /\ conf.MaxVer \in Nat /\ Ver = 0 .. conf.MaxVer
  BY ConfType DEF TypeOK, Entry, LoadRecord

\* What Get finds in a cache is a result.
LEMMA ServedType ==
  ASSUME TypeOK, NEW n \in Node, cache[n] # None
  PROVE  /\ [kind |-> cache[n].kind, ver |-> cache[n].ver] \in Answer
         /\ cache[n].ver \in Ver
  BY Fields DEF Answer

\* A result that is told to a request.
LEMMA ToldType ==
  ASSUME TypeOK, NEW p \in Caller, NEW n \in Node, NEW r \in Answer, r.ver \in Ver,
         Told(p, n, r)
  PROVE  /\ got' = [got EXCEPT ![p] = r]
         /\ got' \in [Caller -> Answer \cup {None}]
         /\ seen' \in [Node -> Ver]
         /\ seen' = seen \/ seen' = [seen EXCEPT ![n] = Later(seen[n], r.ver)]
  <1>1. got \in [Caller -> Answer \cup {None}] /\ seen \in [Node -> Ver]
    BY DEF TypeOK
  <1>2. Later(seen[n], r.ver) \in Ver
    BY <1>1 DEF Later
  <1> QED BY <1>1, <1>2 DEF Told

\* The steps, with their arguments.
LEMMA NextCases ==
  ASSUME Next
  PROVE  /\ UNCHANGED conf
         /\ \/ \E p \in Caller, n \in Node : GetHit(p, n) \/ GetMiss(p, n)
            \/ \E p \in Caller : \/ LoadJoin(p) \/ LoadStart(p) \/ WaitReturns(p)
                                 \/ WaitTimeout(p) \/ Degrade(p)
            \/ \E n \in Node : \/ PeerReturns(n) \/ PeerFails(n) \/ GetterReturns(n)
                               \/ LoadReturns(n) \/ LoadRetired(n)
            \/ \E p \in Client, n \in Node :
                 IncrementHere(p, n) \/ IncrementForwarded(p, n) \/ Invalidate(p, n)
            \/ \E p \in Client :
                 \/ IncrementServed(p) \/ IncrementReturns(p) \/ IncrementFails(p)
                 \/ InvalidateReturns(p) \/ Consume(p)
            \/ \E p \in Client, m \in Node : InvalidatePeer(p, m) \/ InvalidateMisses(p, m)
            \/ \E n \in Node : \E P \in conf.Peers[n] : RegisterPeers(n, P) \/ SetPeers(n, P)
            \/ \E n \in Node : Evict(n)
            \/ BackendWrite
            \/ Tick
  BY DEF Next, RequestStep, LoadStep, IncrementStep, InvalidateStep, Environment, Caller

-----------------------------------------------------------------------------
(* What the steps do, in terms of the types of what they change. *)

\* A request that is under way is at a node.
LEMMA AtType ==
  ASSUME TypeOK, StageInv, NEW p \in Caller, pc[p] # "idle"
  PROVE  at[p] \in Node
  BY DEF TypeOK, StageInv

\* A Get begins, of a client or of a peer.
LEMMA BeginsEffect ==
  ASSUME TypeOK, StageInv, NEW p \in Caller, NEW n \in Node, Begins(p, n)
  PROVE  /\ pc[p] = "idle" /\ at' = [at EXCEPT ![p] = n]
         /\ at' \in [Caller -> Node \cup {None}] /\ at'[p] = n
         /\ p \in Node => /\ load[p] # None /\ load[p].phase = "call" /\ load[p].to = n
                          /\ mark' = mark
         /\ p \in Client => /\ n \in conf.At[p] /\ "Get" \in conf.Ops[p]
                            /\ mark' = [mark EXCEPT ![p] = seen[n]]
         /\ mark' \in [Client -> Ver]
  <1>1. Client \cap Node = {}
    BY ClusterAssumption
  <1> QED BY <1>1 DEF Begins, Calls, Arrives, TypeOK, Caller

\* The load stores its result and gives it to everyone who waits for it.
LEMMA LoadReturnsEffect ==
  ASSUME TypeOK, StageInv, NEW n \in Node, LoadReturns(n)
  PROVE  /\ load[n] # None /\ load[n].phase = "store" /\ pc[n] = "idle"
         /\ [kind |-> load[n].kind, ver |-> load[n].ver] \in Answer
         /\ [kind |-> load[n].kind, ver |-> load[n].ver] # None
         /\ load[n].kind \in {"number", "absent", "error"} /\ load[n].ver \in Ver
         /\ load' = [load EXCEPT ![n] = None]
         /\ answer' = [answer EXCEPT ![n] = [kind |-> load[n].kind, ver |-> load[n].ver]]
         /\ reply' = [p \in Caller |->
                        IF want[p] = n /\ reply[p] = None
                        THEN [kind |-> load[n].kind, ver |-> load[n].ver] ELSE reply[p]]
         /\ cache' = [cache EXCEPT ![n] = cache'[n]]
         /\ cache'[n] \in Entry \cup {None}
         /\ Dated(load[n]) =>
              /\ cache'[n] \in Entry /\ Live(cache'[n])
              /\ cache'[n].ver = load[n].ver
              /\ TTL > 0 => /\ cache'[n].rem # Forever
                            /\ cache'[n].rem <= Longest
         /\ ~Dated(load[n]) => cache'[n] = cache[n]
         /\ flight[n] = "running" /\ flight' = [flight EXCEPT ![n] = "finished"]
         /\ UNCHANGED <<db, pool, pc, at, want, got, inv, seen, mark, granted, lapse>>
  <1> DEFINE r == [kind |-> load[n].kind, ver |-> load[n].ver]
  <1>1. /\ load[n] # None /\ load[n].phase = "store" /\ pc[n] = "idle"
        /\ load[n].kind \in {"number", "absent", "error"} /\ load[n].ver \in Ver
    BY Fields DEF TypeOK, LoadReturns
  <1>2. conf \in Scenario /\ Ver \subseteq Nat
    BY ConfType DEF TypeOK
  <1>3. r \in Answer
    BY <1>1, <1>2 DEF Answer
  <1>4. r # None
    BY <1>2, <1>3, NotNone
  <1>a. PICK ttl \in NextTTL : cache' = [cache EXCEPT ![n] = Stored(cache[n], load[n], ttl)]
    BY DEF LoadReturns
  <1> DEFINE e == Stored(cache[n], load[n], ttl)
  <1>5. /\ e \in Entry \cup {None}
        /\ Dated(load[n]) => /\ e \in Entry /\ Live(e)
                             /\ e.ver = load[n].ver
                             /\ TTL > 0 => e.rem # Forever /\ e.rem <= Longest
        /\ ~Dated(load[n]) => e = cache[n]
    <2>0. /\ ttl \in 0 .. Longest /\ (TTL > 0 => ttl > 0)
          /\ NegTTL \in 0 .. Longest /\ Longest \in Nat /\ Forever = Longest + 1
      BY <1>2, ConfType
    <2>1. CASE load[n].kind = "number"
      <3>1. e = NewEntry("number", load[n].ver, ttl) /\ Dated(load[n])
        BY <2>1 DEF Stored, Dated
      <3>2. /\ NewEntry("number", load[n].ver, ttl) \in Entry
            /\ Live(NewEntry("number", load[n].ver, ttl))
            /\ NewEntry("number", load[n].ver, ttl).ver = load[n].ver
            /\ NewEntry("number", load[n].ver, ttl).rem = IF ttl > 0 THEN ttl ELSE Forever
        BY <1>1, <1>2, <2>0, NewEntryType
      <3> HIDE DEF e
      <3> QED BY <2>0, <3>1, <3>2
    <2>2. CASE load[n].kind = "absent" /\ NegTTL > 0
      <3>1. e = NewEntry("absent", load[n].ver, NegTTL) /\ Dated(load[n])
        BY <2>2 DEF Stored, CachesNegative, Dated
      <3>2. /\ NewEntry("absent", load[n].ver, NegTTL) \in Entry
            /\ Live(NewEntry("absent", load[n].ver, NegTTL))
            /\ NewEntry("absent", load[n].ver, NegTTL).ver = load[n].ver
            /\ NewEntry("absent", load[n].ver, NegTTL).rem = NegTTL
        BY <1>1, <1>2, <2>0, <2>2, NewEntryType
      <3> HIDE DEF e
      <3> QED BY <2>0, <2>2, <3>1, <3>2
    <2>3. CASE ~Dated(load[n])
      <3>1. e = cache[n]
        BY <2>3 DEF Stored, CachesNegative, Dated
      <3> QED BY <2>3, <3>1 DEF TypeOK, Entry
    <2> QED BY <2>1, <2>2, <2>3 DEF Dated
  <1>6. /\ load' = [load EXCEPT ![n] = None]
        /\ answer' = [answer EXCEPT ![n] = r]
        /\ reply' = [p \in Caller |-> IF want[p] = n /\ reply[p] = None THEN r ELSE reply[p]]
        /\ flight[n] = "running" /\ flight' = [flight EXCEPT ![n] = "finished"]
        /\ UNCHANGED <<db, pool, pc, at, want, got, inv, seen, mark, granted, lapse>>
    BY DEF LoadReturns, Loader!Finish, history
  <1> HIDE DEF r, e
  <1>7. cache' = [cache EXCEPT ![n] = e] /\ cache'[n] = e
    BY <1>a DEF TypeOK, e
  <1> QED BY <1>1, <1>3, <1>4, <1>5, <1>6, <1>7 DEF r

\* The load of n has r in hand.
LEMMA InHandEffect ==
  ASSUME TypeOK, NEW n \in Node, NEW phase \in {"read", "store"},
         NEW r, r.kind \in {"number", "absent", "error"}, r.ver \in Ver,
         InHand(n, phase, r)
  PROVE  /\ load' \in [Node -> LoadRecord \cup {None}]
         /\ load'[n] # None /\ load'[n].phase = phase /\ load'[n].to = None
         /\ load'[n].kind = r.kind /\ load'[n].ver = r.ver
         /\ \A m \in Node : m # n => load'[m] = load[m]
  <1> DEFINE l == [phase |-> phase, to |-> None, kind |-> r.kind, ver |-> r.ver]
  <1>1. l \in LoadRecord
    BY DEF LoadRecord
  <1>2. l # None
    BY <1>1, NotNone DEF TypeOK
  <1>3. load' = [load EXCEPT ![n] = l] /\ load \in [Node -> LoadRecord \cup {None}]
    BY Types DEF InHand
  <1>4. l.phase = phase /\ l.to = None /\ l.kind = r.kind /\ l.ver = r.ver
    OBVIOUS
  <1> HIDE DEF l
  <1> QED BY <1>1, <1>2, <1>3, <1>4

\* The peer answers.
LEMMA PeerReturnsEffect ==
  ASSUME TypeOK, StageInv, NEW n \in Node, PeerReturns(n)
  PROVE  /\ pc[n] = "done" /\ load[n] # None /\ load[n].phase = "call"
         /\ got[n] # None /\ got[n] \in Answer /\ got[n].ver \in Ver
         /\ load' \in [Node -> LoadRecord \cup {None}]
         /\ load'[n] # None /\ load'[n].to = None
         /\ load'[n].phase = IF got[n].kind = "error" THEN "read" ELSE "store"
         /\ load'[n].kind = got[n].kind /\ load'[n].ver = got[n].ver
         /\ \A m \in Node : m # n => load'[m] = load[m]
  <1>1. /\ pc[n] = "done" /\ load[n] # None /\ load[n].phase = "call"
        /\ got[n] # None /\ got[n] \in Answer /\ got[n].ver \in Ver
    BY DEF PeerReturns, TypeOK, StageInv, Caller
  <1>2. got[n].kind \in {"number", "absent", "error"}
        /\ AfterPeer(got[n]) \in {"read", "store"}
    BY <1>1 DEF Answer, AfterPeer
  <1>3. InHand(n, AfterPeer(got[n]), got[n])
    BY DEF PeerReturns
  <1> QED BY <1>1, <1>2, <1>3, InHandEffect DEF AfterPeer

\* The peer does not answer.
LEMMA PeerFailsEffect ==
  ASSUME TypeOK, StageInv, NEW n \in Node, PeerFails(n)
  PROVE  /\ "lose" \in conf.Faults
         /\ load[n] # None /\ load[n].phase = "call"
         /\ load' \in [Node -> LoadRecord \cup {None}]
         /\ load'[n] # None /\ load'[n].to = None /\ load'[n].phase = "read"
         /\ \A m \in Node : m # n => load'[m] = load[m]
  <1>1. Failure.kind = "error" /\ Failure.ver \in Ver
    BY ConfType DEF Failure, TypeOK
  <1> QED BY <1>1, InHandEffect DEF PeerFails

\* The getter answers, with what the backend has or with an error.
LEMMA GetterReturnsEffect ==
  ASSUME TypeOK, StageInv, NEW n \in Node, GetterReturns(n)
  PROVE  /\ load[n] # None /\ load[n].phase = "read" /\ pc[n] = "idle"
         /\ load' \in [Node -> LoadRecord \cup {None}]
         /\ load'[n] # None /\ load'[n].to = None /\ load'[n].phase = "store"
         /\ \/ load'[n].kind = db.kind /\ load'[n].kind # "error" /\ load'[n].ver = db.ver
            \/ load'[n].kind = "error" /\ "fail" \in conf.Faults
         /\ \A m \in Node : m # n => load'[m] = load[m]
  <1>1. Failure.kind = "error" /\ Failure.ver \in Ver
    BY ConfType DEF Failure, TypeOK
  <1>2. db.kind \in {"number", "absent"} /\ db.ver \in Ver
    BY DEF TypeOK
  <1>3. PICK r \in {db} \cup (IF "fail" \in conf.Faults THEN {Failure} ELSE {}) :
          InHand(n, "store", r)
    BY DEF GetterReturns
  <1>4. load[n] # None /\ load[n].phase = "read" /\ pc[n] = "idle"
    BY DEF GetterReturns, TypeOK
  <1>5. CASE r = db
    BY <1>2, <1>3, <1>4, <1>5, InHandEffect
  <1>6. CASE r = Failure /\ "fail" \in conf.Faults
    BY <1>1, <1>3, <1>4, <1>6, InHandEffect
  <1> QED BY <1>3, <1>5, <1>6

\* incrementLocally counts on from what is in the cache.
LEMMA CountedEffect ==
  ASSUME TypeOK, NEW p \in Caller, NEW n \in Node, Counted(p, n)
  PROVE  /\ Number(n) \in Ver /\ Number(n) + 1 \in Ver
         /\ cache' \in [Node -> Entry \cup {None}]
         /\ cache'[n] \in Entry /\ cache'[n] # None /\ Live(cache'[n])
         /\ cache'[n].kind = "number" /\ cache'[n].ver = Number(n) + 1
         /\ \A m \in Node : m # n => cache'[m] = cache[m]
         /\ got' \in [Caller -> Answer \cup {None}]
         /\ got'[p] # None /\ got'[p].kind = "number" /\ got'[p].ver = Number(n) + 1
         /\ \A q \in Caller : q # p => got'[q] = got[q]
  <1>1. Number(n) \in Ver /\ Number(n) + 1 \in Ver /\ Number(n) + 1 \in Nat
    BY Fields DEF Number, Counted, Live
  <1>a. PICK ttl \in NextTTL :
          cache' = [cache EXCEPT ![n] = NewEntry("number", Number(n) + 1, ttl)]
    BY DEF Counted
  <1> DEFINE e == NewEntry("number", Number(n) + 1, ttl)
             r == [kind |-> "number", ver |-> Number(n) + 1]
  <1>2. e \in Entry /\ Live(e) /\ e.kind = "number" /\ e.ver = Number(n) + 1
    BY <1>1, ConfType, NewEntryType DEF TypeOK
  <1>3. r \in Answer /\ r.kind = "number" /\ r.ver = Number(n) + 1
    BY <1>1 DEF Answer
  <1>4. r # None /\ e # None
    BY <1>2, <1>3, NotNone DEF TypeOK
  <1>5. cache' = [cache EXCEPT ![n] = e] /\ got' = [got EXCEPT ![p] = r]
        /\ cache \in [Node -> Entry \cup {None}] /\ got \in [Caller -> Answer \cup {None}]
    BY <1>a, Types DEF Counted, TypeOK
  <1> HIDE DEF e, r
  <1> QED BY <1>1, <1>2, <1>3, <1>4, <1>5

\* An Invalidate begins.
LEMMA InvalidateEffect ==
  ASSUME TypeOK, NEW p \in Client, NEW n \in Node, Invalidate(p, n)
  PROVE  /\ inv' \in [Client -> InvRecord \cup {None}] /\ inv'[p] # None
         /\ inv'[p].owner = OwnerFor(n) /\ inv'[p].floor = db.ver
         /\ inv'[p].todo \subseteq Node /\ n \notin inv'[p].todo
         /\ inv'[p].missed = Node \ (inv'[p].todo \cup {n})
         /\ inv'[p].calm <=> \A m \in Node : flight[m] = "none"
         /\ \A q \in Client : q # p => inv'[q] = inv[q]
  <1> DEFINE peers == IF pool[n] = None THEN {} ELSE pool[n] \ {n}
             quiet == \A m \in Node : flight[m] = "none"
             i == [owner |-> OwnerFor(n), todo |-> peers,
                   missed |-> Node \ (peers \cup {n}),
                   floor |-> db.ver, calm |-> quiet]
  <1>1. peers \in SUBSET Node /\ n \notin peers
    BY DEF TypeOK
  <1>2. OwnerFor(n) \in Node /\ db.ver \in Ver /\ conf \in Scenario
    BY PickType DEF TypeOK
  <1>3. inv' = [inv EXCEPT ![p] = i] /\ inv \in [Client -> InvRecord \cup {None}]
    BY Types DEF Invalidate
  <1> HIDE DEF peers
  <1>4. i \in InvRecord
    BY <1>1, <1>2 DEF InvRecord
  <1>5. i # None
    BY <1>2, <1>4, NotNone
  <1>6. /\ i.owner = OwnerFor(n) /\ i.floor = db.ver
        /\ i.todo = peers /\ i.missed = Node \ (i.todo \cup {n})
        /\ i.calm <=> \A m \in Node : flight[m] = "none"
    OBVIOUS
  <1> HIDE DEF i
  <1> QED BY <1>1, <1>3, <1>4, <1>5, <1>6

\* One peer of an Invalidate has been dealt with.
LEMMA InvalidatePeerEffect ==
  ASSUME TypeOK, StageInv, NEW p \in Client, NEW m \in Node,
         InvalidatePeer(p, m) \/ InvalidateMisses(p, m)
  PROVE  /\ inv[p] # None /\ m \in inv[p].todo
         /\ inv' \in [Client -> InvRecord \cup {None}] /\ inv'[p] # None
         /\ inv'[p].owner = inv[p].owner /\ inv'[p].floor = inv[p].floor
         /\ inv'[p].calm = inv[p].calm
         /\ inv'[p].todo = inv[p].todo \ {m}
         /\ InvalidatePeer(p, m) => inv'[p].missed = inv[p].missed
         /\ inv'[p].missed \in {inv[p].missed, inv[p].missed \cup {m}}
         /\ ~InvalidatePeer(p, m) => inv'[p].missed = inv[p].missed \cup {m}
         /\ \A q \in Client : q # p => inv'[q] = inv[q]
  <1>1. inv[p] # None /\ m \in inv[p].todo /\ inv \in [Client -> InvRecord \cup {None}]
        /\ inv[p] \in InvRecord /\ conf \in Scenario
    BY Types DEF StageInv, InvalidatePeer, InvalidateMisses
  <1>2. ASSUME NEW i \in InvRecord, inv' = [inv EXCEPT ![p] = i]
        PROVE  /\ inv' \in [Client -> InvRecord \cup {None}] /\ inv'[p] # None
               /\ inv'[p] = i
               /\ \A q \in Client : q # p => inv'[q] = inv[q]
    BY <1>1, <1>2, NotNone
  <1>3. CASE InvalidatePeer(p, m)
    <2> DEFINE i == [inv[p] EXCEPT !.todo = inv[p].todo \ {m}]
    <2>1. inv' = [inv EXCEPT ![p] = i]
      BY <1>1, <1>3 DEF InvalidatePeer
    <2>2. /\ i \in InvRecord /\ i.owner = inv[p].owner /\ i.floor = inv[p].floor
          /\ i.calm = inv[p].calm /\ i.todo = inv[p].todo \ {m} /\ i.missed = inv[p].missed
      BY <1>1 DEF InvRecord
    <2> HIDE DEF i
    <2> QED BY <1>1, <1>2, <1>3, <2>1, <2>2
  <1>4. CASE InvalidateMisses(p, m) /\ ~InvalidatePeer(p, m)
    <2> DEFINE i == [inv[p] EXCEPT !.todo = inv[p].todo \ {m},
                                   !.missed = inv[p].missed \cup {m}]
    <2>1. inv' = [inv EXCEPT ![p] = i]
      BY <1>1, <1>4 DEF InvalidateMisses
    <2>2. /\ i \in InvRecord /\ i.owner = inv[p].owner /\ i.floor = inv[p].floor
          /\ i.calm = inv[p].calm /\ i.todo = inv[p].todo \ {m}
          /\ i.missed = inv[p].missed \cup {m}
      BY <1>1 DEF InvRecord
    <2> HIDE DEF i
    <2> QED BY <1>1, <1>2, <1>4, <2>1, <2>2
  <1> QED BY <1>3, <1>4

\* A load starts.
LEMMA LoadStartEffect ==
  ASSUME TypeOK, StageInv, NEW p \in Caller, LoadStart(p)
  PROVE  /\ at[p] \in Node /\ pc[p] = "missed"
         /\ flight[at[p]] = "none" /\ load[at[p]] = None /\ pc[at[p]] = "idle"
         /\ load' \in [Node -> LoadRecord \cup {None}]
         /\ load'[at[p]] # None /\ load'[at[p]].to = PickPeer(at[p])
         /\ load'[at[p]].kind = "error"
         /\ load'[at[p]].phase = IF PickPeer(at[p]) = None THEN "read" ELSE "call"
         /\ \A m \in Node : m # at[p] => load'[m] = load[m]
         /\ inv' \in [Client -> InvRecord \cup {None}]
         /\ \A q \in Client :
              /\ inv'[q] = None <=> inv[q] = None
              /\ inv[q] # None =>
                   /\ inv'[q].owner = inv[q].owner /\ inv'[q].todo = inv[q].todo
                   /\ inv'[q].missed = inv[q].missed /\ inv'[q].floor = inv[q].floor
                   /\ inv'[q].calm => inv[q].calm /\ inv[q].owner \notin inv[q].todo
  <1>1. at[p] \in Node /\ pc[p] = "missed" /\ conf \in Scenario
    BY AtType DEF LoadStart, TypeOK
  <1>2. flight[at[p]] = "none"
    BY DEF LoadStart, Loader!Start
  <1>3. load[at[p]] = None /\ pc[at[p]] = "idle"
    BY <1>1, <1>2 DEF StageInv, TypeOK
  <1> DEFINE l == [phase |-> IF PickPeer(at[p]) = None THEN "read" ELSE "call",
                   to |-> PickPeer(at[p]), kind |-> "error", ver |-> 0]
  <1>4. l \in LoadRecord
    BY <1>1, ConfType, PickType DEF LoadRecord
  <1>5. l # None
    BY <1>1, <1>4, NotNone
  <1>6. load' = [load EXCEPT ![at[p]] = l] /\ load \in [Node -> LoadRecord \cup {None}]
    BY Types DEF LoadStart
  <1>7. /\ l.phase = IF PickPeer(at[p]) = None THEN "read" ELSE "call"
        /\ l.to = PickPeer(at[p]) /\ l.kind = "error"
    OBVIOUS
  <1> HIDE DEF l
  <1>8. /\ load' \in [Node -> LoadRecord \cup {None}]
        /\ load'[at[p]] # None /\ load'[at[p]].to = PickPeer(at[p])
        /\ load'[at[p]].kind = "error"
        /\ load'[at[p]].phase = IF PickPeer(at[p]) = None THEN "read" ELSE "call"
        /\ \A m \in Node : m # at[p] => load'[m] = load[m]
    BY <1>1, <1>4, <1>5, <1>6, <1>7
  <1>9. inv' = [q \in Client |->
                  IF inv[q] # None /\ inv[q].owner \in inv[q].todo
                  THEN [inv[q] EXCEPT !.calm = FALSE] ELSE inv[q]]
    BY DEF LoadStart
  <1>10. ASSUME NEW q \in Client
         PROVE  /\ inv'[q] \in InvRecord \cup {None}
                /\ inv'[q] = None <=> inv[q] = None
                /\ inv[q] # None =>
                     /\ inv'[q].owner = inv[q].owner /\ inv'[q].todo = inv[q].todo
                     /\ inv'[q].missed = inv[q].missed /\ inv'[q].floor = inv[q].floor
                     /\ inv'[q].calm => inv[q].calm /\ inv[q].owner \notin inv[q].todo
    <2>1. CASE inv[q] = None
      BY <1>9, <2>1
    <2>2. CASE inv[q] # None
      <3>1. inv[q] \in InvRecord
        BY <2>2, Types
      <3>2. [inv[q] EXCEPT !.calm = FALSE] \in InvRecord
        BY <3>1 DEF InvRecord
      <3>3. inv'[q] \in InvRecord
        BY <1>9, <2>2, <3>1, <3>2
      <3>4. inv'[q] # None
        BY <1>1, <3>3, NotNone
      <3> QED BY <1>9, <2>2, <3>1, <3>3, <3>4 DEF InvRecord
    <2> QED BY <2>1, <2>2
  <1>11. inv' \in [Client -> InvRecord \cup {None}]
    BY <1>9, <1>10
  <1> QED BY <1>1, <1>2, <1>3, <1>8, <1>10, <1>11

\* A request is told the result of the load that it waited for.
LEMMA WaitReturnsEffect ==
  ASSUME TypeOK, StageInv, NEW p \in Caller, WaitReturns(p)
  PROVE  /\ at[p] \in Node /\ pc[p] = "wait" /\ reply[p] # None
         /\ reply[p] \in Answer /\ reply[p].ver \in Ver
         /\ got' = [got EXCEPT ![p] = reply[p]]
         /\ got' \in [Caller -> Answer \cup {None}]
         /\ seen' \in [Node -> Ver]
         /\ Told(p, at[p], reply[p])
  <1>1. /\ at[p] \in Node /\ pc[p] = "wait" /\ reply[p] # None
        /\ Told(p, at[p], reply[p])
    BY AtType DEF WaitReturns, Loader!Return
  <1>2. reply[p] \in Answer /\ reply[p].ver \in Ver
    BY <1>1 DEF TypeOK, StageInv
  <1> QED BY <1>1, <1>2, ToldType

\* A request is told what the cache of its node has, or an error.
LEMMA CacheTells ==
  ASSUME TypeOK, NEW p \in Caller, NEW n \in Node,
         Told(p, n, IF Live(cache[n]) THEN [kind |-> cache[n].kind, ver |-> cache[n].ver]
                    ELSE Failure)
  PROVE  /\ got' \in [Caller -> Answer \cup {None}] /\ seen' \in [Node -> Ver]
         /\ got'[p] # None /\ got'[p].ver \in Ver
         /\ \A q \in Caller : q # p => got'[q] = got[q]
         /\ Live(cache[n]) => /\ got'[p].kind = cache[n].kind /\ got'[p].ver = cache[n].ver
                              /\ got'[p].kind # "error"
         /\ ~Live(cache[n]) => got'[p].kind = "error" /\ seen' = seen
         /\ seen' = seen \/ seen' = [seen EXCEPT ![n] = Later(seen[n], got'[p].ver)]
  <1>1. conf \in Scenario
    BY DEF TypeOK
  <1>2. CASE Live(cache[n])
    <2> DEFINE r == [kind |-> cache[n].kind, ver |-> cache[n].ver]
    <2>1. r \in Answer /\ r.ver \in Ver /\ r.kind \in {"number", "absent"}
          /\ r.kind = cache[n].kind /\ r.ver = cache[n].ver
      BY <1>2, ServedType, Fields DEF Live
    <2>2. Told(p, n, r)
      BY <1>2
    <2> HIDE DEF r
    <2>3. r # None
      BY <1>1, <2>1, NotNone
    <2>4. /\ got' = [got EXCEPT ![p] = r]
          /\ got' \in [Caller -> Answer \cup {None}]
          /\ seen' \in [Node -> Ver]
          /\ seen' = seen \/ seen' = [seen EXCEPT ![n] = Later(seen[n], r.ver)]
      BY <2>1, <2>2, ToldType
    <2>5. got'[p] = r /\ \A q \in Caller : q # p => got'[q] = got[q]
      BY <2>4 DEF TypeOK
    <2> QED BY <1>2, <2>1, <2>3, <2>4, <2>5
  <1>3. CASE ~Live(cache[n])
    <2>1. Failure \in Answer /\ Failure.ver \in Ver /\ Failure.kind = "error"
      BY <1>1, ConfType DEF Failure, Answer
    <2>2. Told(p, n, Failure) /\ Failure # None
      BY <1>1, <1>3, <2>1, NotNone
    <2>3. /\ got' = [got EXCEPT ![p] = Failure]
          /\ got' \in [Caller -> Answer \cup {None}]
          /\ seen' \in [Node -> Ver]
      BY <2>1, <2>2, ToldType
    <2>4. got'[p] = Failure /\ \A q \in Caller : q # p => got'[q] = got[q]
      BY <2>3 DEF TypeOK
    <2>5. seen' = seen
      BY <2>1, <2>2 DEF Told, Dated
    <2> QED BY <1>3, <2>1, <2>2, <2>3, <2>4, <2>5
  <1> QED BY <1>2, <1>3

\* One tick: entries and lapses age by at most one unit, and lapses of what is
\* under way do not age.
LEMMA TickEffect ==
  ASSUME TypeOK, Tick
  PROVE  /\ cache' \in [Node -> Entry \cup {None}]
         /\ \A n \in Node :
              /\ cache'[n] = None <=> cache[n] = None
              /\ cache[n] # None => cache'[n].kind = cache[n].kind /\ cache'[n].ver = cache[n].ver
              /\ Live(cache'[n]) => Live(cache[n])
              /\ Live(cache[n]) => cache'[n].rem = IF cache[n].rem = Forever THEN Forever
                                                   ELSE cache[n].rem - 1
         /\ lapse' \in [Ver \ {0} -> 0 .. MaxAge + 1]
         /\ \A v \in Ver \ {0} : /\ lapse'[v] <= lapse[v] + 1
                                 /\ v >= db.ver => lapse'[v] = 0
                                 /\ UnderWay(v) => lapse'[v] <= lapse[v]
  <1>1. conf \in Scenario
    BY DEF TypeOK
  <1>2. ASSUME NEW n \in Node
        PROVE  /\ Aged(cache[n]) \in Entry \cup {None}
               /\ Aged(cache[n]) = None <=> cache[n] = None
               /\ cache[n] # None => /\ Aged(cache[n]).kind = cache[n].kind
                                     /\ Aged(cache[n]).ver = cache[n].ver
               /\ Live(Aged(cache[n])) => Live(cache[n])
               /\ Live(cache[n]) => Aged(cache[n]).rem = IF cache[n].rem = Forever THEN Forever
                                                         ELSE cache[n].rem - 1
    <2>1. CASE cache[n] = None
      BY <2>1 DEF Aged, Live
    <2>2. CASE cache[n] # None
      <3>1. cache[n] \in Entry
        BY <2>2, Fields
      <3>2. cache[n].rem \in Expired .. Forever /\ Forever \in Nat
        BY <1>1, <3>1, ConfType DEF Entry
      <3>3. CASE cache[n].rem \in {Expired, Forever}
        BY <2>2, <3>1, <3>3, <3>2 DEF Aged, Live, Expired
      <3>4. CASE cache[n].rem \notin {Expired, Forever}
        <4>1. Aged(cache[n]) = [cache[n] EXCEPT !.rem = cache[n].rem - 1]
          BY <2>2, <3>4 DEF Aged
        <4>2. cache[n].rem - 1 \in Expired .. Forever
          BY <3>2, <3>4 DEF Expired
        <4>3. /\ Aged(cache[n]) \in Entry /\ Aged(cache[n]).rem = cache[n].rem - 1
              /\ Aged(cache[n]).kind = cache[n].kind /\ Aged(cache[n]).ver = cache[n].ver
          BY <3>1, <4>1, <4>2 DEF Entry
        <4>4. Aged(cache[n]) # None
          BY <1>1, <4>3, NotNone
        <4> QED BY <2>2, <3>4, <4>3, <4>4 DEF Live
      <3> QED BY <3>3, <3>4
    <2> QED BY <2>1, <2>2
  <1>3. cache' = [n \in Node |-> Aged(cache[n])]
    BY DEF Tick
  <1>4. /\ lapse' \in [Ver \ {0} -> 0 .. MaxAge + 1]
        /\ \A v \in Ver \ {0} : /\ lapse'[v] <= lapse[v] + 1
                                /\ v >= db.ver => lapse'[v] = 0
                                /\ UnderWay(v) => lapse'[v] <= lapse[v]
    <2>1. Ver \subseteq Nat /\ db.ver \in Ver /\ MaxAge \in Nat
      BY <1>1, ConfType DEF TypeOK
    <2>2. lapse \in [Ver \ {0} -> 0 .. MaxAge + 1]
      BY Types
    <2>3. lapse' = [v \in Ver \ {0} |->
                      IF v >= db.ver THEN 0
                      ELSE IF UnderWay(v) \/ lapse[v] > MaxAge THEN lapse[v]
                      ELSE lapse[v] + 1]
      BY DEF Tick
    <2> QED BY <2>1, <2>2, <2>3
  <1> QED BY <1>2, <1>3, <1>4

\* TypeOK, with names for the records.
LEMMA TypeFolded ==
  ASSUME UNCHANGED conf
  PROVE  TypeOK' <=>
           /\ conf \in Scenario
           /\ db' \in [kind : {"number", "absent"}, ver : Ver]
           /\ cache' \in [Node -> Entry \cup {None}]
           /\ pool' \in [Node -> (SUBSET Node) \cup {None}]
           /\ load' \in [Node -> LoadRecord \cup {None}]
           /\ pc' \in [Caller -> {"idle", "missed", "wait", "degrade", "done",
                                  "incCall", "incReply", "incDone", "invPeers", "invDone"}]
           /\ at' \in [Caller -> Node \cup {None}]
           /\ flight' \in [Node -> {"none", "running", "finished"}]
           /\ answer' \in [Node -> Answer \cup {None}]
           /\ want' \in [Caller -> Node \cup {None}]
           /\ reply' \in [Caller -> Answer \cup {None}]
           /\ got' \in [Caller -> Answer \cup {None}]
           /\ inv' \in [Client -> InvRecord \cup {None}]
           /\ seen' \in [Node -> Ver] /\ mark' \in [Client -> Ver] /\ granted' \in Ver
           /\ lapse' \in [Ver \ {0} -> 0 .. MaxAge + 1]
           /\ \A n \in Node : pc'[n] # "idle" =>
                load'[n] # None /\ load'[n].phase = "call" /\ at'[n] = load'[n].to
  BY Fixed DEF TypeOK, Entry, LoadRecord, InvRecord, Answer

\* Every step keeps the types.
LEMMA TypeStep ==
  ASSUME TypeOK, StageInv, Next
  PROVE  TypeOK'
  <1>1. conf \in Scenario /\ UNCHANGED conf
    BY NextCases DEF TypeOK
  <1>2. /\ conf.MaxVer \in Nat \ {0} /\ Ver = 0 .. conf.MaxVer /\ Ver \subseteq Nat
        /\ conf.Peers \in [Node -> SUBSET SUBSET Node]
        /\ conf.Kinds \subseteq {"number", "absent"}
    BY <1>1, ConfType
  <1>3. Client \cap Node = {} /\ Client \subseteq Caller /\ Node \subseteq Caller
    BY ClusterAssumption DEF Caller
  <1>4. /\ cache \in [Node -> Entry \cup {None}]
        /\ load \in [Node -> LoadRecord \cup {None}]
        /\ inv \in [Client -> InvRecord \cup {None}]
    BY Types
  <1>5. None \notin Node
    BY <1>1, NotNone
  <1> USE <1>1, <1>3, <1>4, <1>5, TypeFolded DEF loaderVars, history
  <1>6. ASSUME NEW p \in Caller, NEW n \in Node, GetHit(p, n)  PROVE TypeOK'
    <2>1. Begins(p, n) /\ Live(cache[n])
      BY <1>6 DEF GetHit
    <2>2. got' \in [Caller -> Answer \cup {None}] /\ seen' \in [Node -> Ver]
      BY <1>6, <2>1, CacheTells DEF GetHit
    <2>3. /\ pc[p] = "idle" /\ at' = [at EXCEPT ![p] = n]
          /\ p \in Node => load[p] # None /\ load[p].phase = "call" /\ load[p].to = n
          /\ mark' \in [Client -> Ver]
      BY <2>1, BeginsEffect
    <2>4. /\ pc' = [pc EXCEPT ![p] = "done"]
          /\ UNCHANGED <<db, cache, pool, load, flight, answer, want, reply, inv, granted, lapse>>
      BY <1>6 DEF GetHit, Goto
    <2> QED BY <2>2, <2>3, <2>4 DEF TypeOK
  <1>7. ASSUME NEW p \in Caller, NEW n \in Node, GetMiss(p, n)  PROVE TypeOK'
    <2>1. Begins(p, n)
      BY <1>7 DEF GetMiss
    <2> QED BY <1>7, <2>1, BeginsEffect DEF TypeOK, StageInv, GetMiss, Goto
  <1>8. ASSUME NEW p \in Caller, LoadJoin(p)  PROVE TypeOK'
    <2>1. at[p] \in Node
      BY <1>8, AtType DEF LoadJoin
    <2> QED BY <1>8, <2>1 DEF TypeOK, StageInv, LoadJoin, Loader!Join, Goto
  <1>9. ASSUME NEW p \in Caller, LoadStart(p)  PROVE TypeOK'
    <2>1. /\ at[p] \in Node /\ pc[p] = "missed"
          /\ flight[at[p]] = "none" /\ load[at[p]] = None /\ pc[at[p]] = "idle"
          /\ load' \in [Node -> LoadRecord \cup {None}]
          /\ \A m \in Node : m # at[p] => load'[m] = load[m]
          /\ inv' \in [Client -> InvRecord \cup {None}]
      BY <1>9, LoadStartEffect
    <2> QED BY <1>9, <2>1 DEF TypeOK, LoadStart, Loader!Start, Goto
  <1>10. ASSUME NEW p \in Caller, WaitReturns(p)  PROVE TypeOK'
    <2>1. got' \in [Caller -> Answer \cup {None}] /\ seen' \in [Node -> Ver]
          /\ pc[p] = "wait"
      BY <1>10, WaitReturnsEffect
    <2> QED BY <1>10, <2>1 DEF TypeOK, WaitReturns, Loader!Return, Goto
  <1>11. ASSUME NEW p \in Caller, WaitTimeout(p)  PROVE TypeOK'
    BY <1>11 DEF TypeOK, WaitTimeout, Loader!Abandon, Goto
  <1>12. ASSUME NEW p \in Caller, Degrade(p)  PROVE TypeOK'
    <2>1. at[p] \in Node
      BY <1>12, AtType DEF Degrade
    <2>2. got' \in [Caller -> Answer \cup {None}] /\ seen' \in [Node -> Ver]
      BY <1>12, <2>1, CacheTells DEF Degrade
    <2> QED BY <1>12, <2>2 DEF TypeOK, Degrade, Goto
  <1>13. ASSUME NEW n \in Node, PeerReturns(n)  PROVE TypeOK'
    <2>1. /\ load' \in [Node -> LoadRecord \cup {None}]
          /\ \A m \in Node : m # n => load'[m] = load[m]
      BY <1>13, PeerReturnsEffect
    <2> QED BY <1>13, <2>1 DEF TypeOK, PeerReturns, Dropped, Goto
  <1>14. ASSUME NEW n \in Node, PeerFails(n)  PROVE TypeOK'
    <2>1. /\ load' \in [Node -> LoadRecord \cup {None}]
          /\ \A m \in Node : m # n => load'[m] = load[m]
      BY <1>14, PeerFailsEffect
    <2> QED BY <1>14, <2>1 DEF TypeOK, PeerFails, Dropped, Goto
  <1>15. ASSUME NEW n \in Node, GetterReturns(n)  PROVE TypeOK'
    <2>1. /\ load' \in [Node -> LoadRecord \cup {None}] /\ pc[n] = "idle"
          /\ \A m \in Node : m # n => load'[m] = load[m]
      BY <1>15, GetterReturnsEffect
    <2> QED BY <1>15, <2>1 DEF TypeOK, GetterReturns
  <1>16. ASSUME NEW n \in Node, LoadReturns(n)  PROVE TypeOK'
    <2> DEFINE r == [kind |-> load[n].kind, ver |-> load[n].ver]
               e == cache'[n]
    <2>1. /\ r \in Answer /\ e \in Entry \cup {None} /\ pc[n] = "idle"
          /\ load' = [load EXCEPT ![n] = None]
          /\ answer' = [answer EXCEPT ![n] = r]
          /\ reply' = [p \in Caller |->
                         IF want[p] = n /\ reply[p] = None THEN r ELSE reply[p]]
          /\ cache' = [cache EXCEPT ![n] = e]
          /\ flight' = [flight EXCEPT ![n] = "finished"]
          /\ UNCHANGED <<db, pool, pc, at, want, got, inv, seen, mark, granted, lapse>>
      BY <1>16, LoadReturnsEffect
    <2> HIDE DEF r, e
    <2> QED BY <2>1 DEF TypeOK
  <1>17. ASSUME NEW n \in Node, LoadRetired(n)  PROVE TypeOK'
    BY <1>17 DEF TypeOK, LoadRetired, Loader!Retire
  <1>18. ASSUME NEW p \in Client, NEW n \in Node, IncrementHere(p, n)  PROVE TypeOK'
    <2>1. /\ cache' \in [Node -> Entry \cup {None}]
          /\ got' \in [Caller -> Answer \cup {None}]
          /\ Number(n) + 1 \in Ver
      BY <1>18, CountedEffect DEF IncrementHere
    <2>2. granted' \in Ver
      BY <1>18, <2>1 DEF IncrementHere, Later, TypeOK
    <2>3. /\ pc' = [pc EXCEPT ![p] = "incDone"] /\ at' = [at EXCEPT ![p] = n]
          /\ mark' = [mark EXCEPT ![p] = granted]
          /\ UNCHANGED <<db, pool, load, flight, answer, want, reply, inv, seen, lapse>>
      BY <1>18 DEF IncrementHere, Begun, Goto
    <2> QED BY <2>1, <2>2, <2>3 DEF TypeOK
  <1>19. ASSUME NEW p \in Client, NEW n \in Node, IncrementForwarded(p, n)  PROVE TypeOK'
    <2>1. PickPeer(n) \in Node
      BY <1>19, PickType DEF IncrementForwarded
    <2> QED BY <1>19, <2>1 DEF TypeOK, IncrementForwarded, Begun, Goto
  <1>20. ASSUME NEW p \in Client, IncrementServed(p)  PROVE TypeOK'
    <2>1. at[p] \in Node
      BY <1>20, AtType DEF IncrementServed
    <2>2. /\ cache' \in [Node -> Entry \cup {None}]
          /\ got' \in [Caller -> Answer \cup {None}]
      BY <1>20, <2>1, CountedEffect DEF IncrementServed
    <2> QED BY <1>20, <2>2 DEF TypeOK, IncrementServed, Goto
  <1>21. ASSUME NEW p \in Client, IncrementReturns(p)  PROVE TypeOK'
    <2>1. got[p].ver \in Ver
      BY <1>21 DEF IncrementReturns, StageInv
    <2>2. granted' \in Ver
      BY <1>21, <2>1 DEF IncrementReturns, Later, TypeOK
    <2> QED BY <1>21, <2>2 DEF TypeOK, IncrementReturns, Goto
  <1>22. ASSUME NEW p \in Client, IncrementFails(p)  PROVE TypeOK'
    <2>1. Failure \in Answer
      BY DEF Failure, Answer
    <2> QED BY <1>22, <2>1 DEF TypeOK, IncrementFails, Goto
  <1>23. ASSUME NEW p \in Client, NEW n \in Node, Invalidate(p, n)  PROVE TypeOK'
    <2>1. inv' \in [Client -> InvRecord \cup {None}]
      BY <1>23, InvalidateEffect
    <2> QED BY <1>23, <2>1 DEF TypeOK, Invalidate, Calls, Goto
  <1>24. ASSUME NEW p \in Client, NEW m \in Node,
                InvalidatePeer(p, m) \/ InvalidateMisses(p, m)
         PROVE  TypeOK'
    <2>1. inv' \in [Client -> InvRecord \cup {None}]
      BY <1>24, InvalidatePeerEffect
    <2> QED BY <1>24, <2>1 DEF TypeOK, InvalidatePeer, InvalidateMisses
  <1>25. ASSUME NEW p \in Client, InvalidateReturns(p)  PROVE TypeOK'
    BY <1>25 DEF TypeOK, InvalidateReturns, Goto
  <1>26. ASSUME NEW p \in Client, Consume(p)  PROVE TypeOK'
    BY <1>2, <1>26 DEF TypeOK, Consume, Loader!Consume, Goto
  <1>27. ASSUME NEW n \in Node, NEW P \in conf.Peers[n],
                RegisterPeers(n, P) \/ SetPeers(n, P)
         PROVE  TypeOK'
    <2>1. P \in SUBSET Node
      BY <1>2
    <2> QED BY <1>27, <2>1 DEF TypeOK, RegisterPeers, SetPeers
  <1>28. ASSUME NEW n \in Node, Evict(n)  PROVE TypeOK'
    BY <1>28 DEF TypeOK, Evict
  <1>29. ASSUME BackendWrite  PROVE TypeOK'
    <2>1. db' \in [kind : {"number", "absent"}, ver : Ver]
      BY <1>2, <1>29 DEF BackendWrite, TypeOK
    <2> QED BY <1>29, <2>1 DEF TypeOK, BackendWrite
  <1>30. ASSUME Tick  PROVE TypeOK'
    <2>1. /\ cache' \in [Node -> Entry \cup {None}]
          /\ lapse' \in [Ver \ {0} -> 0 .. MaxAge + 1]
      BY <1>30, TickEffect
    <2> QED BY <1>30, <2>1 DEF TypeOK, Tick
  <1> QED
    BY <1>6, <1>7, <1>8, <1>9, <1>10, <1>11, <1>12, <1>13, <1>14, <1>15, <1>16,
       <1>17, <1>18, <1>19, <1>20, <1>21, <1>22, <1>23, <1>24, <1>25, <1>26,
       <1>27, <1>28, <1>29, <1>30, NextCases

-----------------------------------------------------------------------------
(* Where the requests and the loads are. *)

\* Every step keeps requests and loads where they belong.
LEMMA StageStep ==
  ASSUME TypeOK, StageInv, Next
  PROVE  StageInv'
  <1>1. conf \in Scenario /\ UNCHANGED conf /\ TypeOK' /\ Ver' = Ver
    BY NextCases, TypeStep, Fixed DEF TypeOK
  <1>2. /\ conf.MaxVer \in Nat \ {0} /\ Ver = 0 .. conf.MaxVer /\ Ver \subseteq Nat
    BY <1>1, ConfType
  <1>3. Client \cap Node = {} /\ Client \subseteq Caller /\ Node \subseteq Caller
    BY ClusterAssumption DEF Caller
  <1>4. None \notin Node
    BY <1>1, NotNone
  <1> USE <1>1, <1>3, <1>4 DEF loaderVars, history
  <1>6. ASSUME NEW p \in Caller, NEW n \in Node, GetHit(p, n)  PROVE StageInv'
    <2>1. Begins(p, n) /\ Live(cache[n]) /\ cache[n] # None
      BY <1>6 DEF GetHit, Live
    <2>2. /\ got'[p] # None /\ got'[p].ver = cache[n].ver /\ got'[p].ver \in Ver
          /\ \A q \in Caller : q # p => got'[q] = got[q]
      BY <1>6, <2>1, CacheTells DEF GetHit
    <2>3. /\ pc[p] = "idle" /\ at' = [at EXCEPT ![p] = n]
          /\ p \in Client => "Get" \in conf.Ops[p]
      BY <2>1, BeginsEffect
    <2>4. /\ pc' = [pc EXCEPT ![p] = "done"]
          /\ UNCHANGED <<db, cache, load, flight, answer, want, reply, inv>>
      BY <1>6 DEF GetHit, Goto
    <2> QED BY <2>1, <2>2, <2>3, <2>4 DEF TypeOK, StageInv
  <1>7. ASSUME NEW p \in Caller, NEW n \in Node, GetMiss(p, n)  PROVE StageInv'
    <2>1. Begins(p, n)
      BY <1>7 DEF GetMiss
    <2>2. /\ pc[p] = "idle" /\ at' = [at EXCEPT ![p] = n]
          /\ p \in Client => "Get" \in conf.Ops[p]
      BY <2>1, BeginsEffect
    <2> QED BY <1>7, <2>2 DEF TypeOK, StageInv, GetMiss, Goto
  <1>8. ASSUME NEW p \in Caller, LoadJoin(p)  PROVE StageInv'
    <2>1. at[p] \in Node
      BY <1>8, AtType DEF LoadJoin
    <2> QED BY <1>8, <2>1 DEF TypeOK, StageInv, LoadJoin, Loader!Join, Goto
  <1>9. ASSUME NEW p \in Caller, LoadStart(p)  PROVE StageInv'
    <2>1. /\ at[p] \in Node /\ pc[p] = "missed"
          /\ flight[at[p]] = "none" /\ load[at[p]] = None
          /\ load'[at[p]] # None /\ load'[at[p]].to = PickPeer(at[p])
          /\ load'[at[p]].phase = IF PickPeer(at[p]) = None THEN "read" ELSE "call"
          /\ \A m \in Node : m # at[p] => load'[m] = load[m]
          /\ \A q \in Client :
               /\ inv'[q] = None <=> inv[q] = None
               /\ inv[q] # None => inv'[q].todo = inv[q].todo
      BY <1>9, LoadStartEffect
    <2>2. \E q \in Client : "Get" \in conf.Ops[q]
      <3>1. CASE p \in Client
        BY <2>1, <3>1 DEF StageInv
      <3>2. CASE p \in Node
        <4>1. load[p] # None
          BY <2>1, <3>2 DEF TypeOK
        <4> QED BY <3>2, <4>1 DEF StageInv
      <3> QED BY <3>1, <3>2 DEF Caller
    <2>3. /\ pc' = [pc EXCEPT ![p] = "wait"] /\ want' = [want EXCEPT ![p] = at[p]]
          /\ flight' = [flight EXCEPT ![at[p]] = "running"]
          /\ UNCHANGED <<db, cache, at, answer, reply, got>>
      BY <1>9 DEF LoadStart, Loader!Start, Goto
    <2> QED BY <2>1, <2>2, <2>3 DEF TypeOK, StageInv
  <1>10. ASSUME NEW p \in Caller, WaitReturns(p)  PROVE StageInv'
    <2>1. /\ got' = [got EXCEPT ![p] = reply[p]] /\ reply[p] # None
          /\ reply[p].ver \in Ver /\ pc[p] = "wait"
      BY <1>10, WaitReturnsEffect
    <2> QED BY <1>10, <2>1 DEF TypeOK, StageInv, WaitReturns, Loader!Return, Goto
  <1>11. ASSUME NEW p \in Caller, WaitTimeout(p)  PROVE StageInv'
    BY <1>11 DEF TypeOK, StageInv, WaitTimeout, Loader!Abandon, Goto
  <1>12. ASSUME NEW p \in Caller, Degrade(p)  PROVE StageInv'
    <2>1. at[p] \in Node /\ pc[p] = "degrade"
      BY <1>12, AtType DEF Degrade
    <2>2. /\ got'[p] # None /\ got'[p].ver \in Ver
          /\ \A q \in Caller : q # p => got'[q] = got[q]
          /\ Live(cache[at[p]]) => got'[p].ver = cache[at[p]].ver
          /\ ~Live(cache[at[p]]) => got'[p].kind = "error"
      BY <1>12, <2>1, CacheTells DEF Degrade
    <2>3. /\ pc' = [pc EXCEPT ![p] = "done"]
          /\ UNCHANGED <<db, cache, load, flight, answer, want, reply, at, inv>>
      BY <1>12 DEF Degrade, Goto
    <2> QED BY <2>1, <2>2, <2>3 DEF TypeOK, StageInv, Live
  <1>13. ASSUME NEW n \in Node, PeerReturns(n)  PROVE StageInv'
    <2>1. /\ pc[n] = "done" /\ load[n] # None /\ got[n] # None
          /\ load'[n] # None /\ load'[n].to = None
          /\ load'[n].phase = IF got[n].kind = "error" THEN "read" ELSE "store"
          /\ load'[n].kind = got[n].kind /\ load'[n].ver = got[n].ver
          /\ \A m \in Node : m # n => load'[m] = load[m]
      BY <1>13, PeerReturnsEffect
    <2> QED BY <1>13, <2>1 DEF TypeOK, StageInv, PeerReturns, Dropped, Goto
  <1>14. ASSUME NEW n \in Node, PeerFails(n)  PROVE StageInv'
    <2>1. /\ load[n] # None
          /\ load'[n] # None /\ load'[n].to = None /\ load'[n].phase = "read"
          /\ \A m \in Node : m # n => load'[m] = load[m]
      BY <1>14, PeerFailsEffect
    <2> QED BY <1>14, <2>1 DEF TypeOK, StageInv, PeerFails, Dropped, Goto
  <1>15. ASSUME NEW n \in Node, GetterReturns(n)  PROVE StageInv'
    <2>1. /\ load[n] # None
          /\ load'[n] # None /\ load'[n].to = None /\ load'[n].phase = "store"
          /\ load'[n].kind # "error" => load'[n].ver = db.ver
          /\ \A m \in Node : m # n => load'[m] = load[m]
      BY <1>15, GetterReturnsEffect
    <2> QED BY <1>15, <2>1 DEF TypeOK, StageInv, GetterReturns
  <1>16. ASSUME NEW n \in Node, LoadReturns(n)  PROVE StageInv'
    <2> DEFINE r == [kind |-> load[n].kind, ver |-> load[n].ver]
               e == cache'[n]
    <2>0. load[n] # None /\ load[n].phase = "store" /\ load[n].ver \in Ver
          /\ (load[n].kind # "error" => load[n].ver >= 1)
      BY <1>16, LoadReturnsEffect DEF StageInv
    <2>1. /\ r # None /\ r.ver \in Ver /\ (r.kind # "error" => r.ver >= 1)
          /\ load' = [load EXCEPT ![n] = None]
          /\ answer' = [answer EXCEPT ![n] = r]
          /\ reply' = [p \in Caller |->
                         IF want[p] = n /\ reply[p] = None THEN r ELSE reply[p]]
          /\ cache' = [cache EXCEPT ![n] = e]
          /\ flight[n] = "running" /\ flight' = [flight EXCEPT ![n] = "finished"]
          /\ UNCHANGED <<db, pool, pc, at, want, got, inv, seen, mark, granted, lapse>>
      BY <1>16, <2>0, LoadReturnsEffect
    <2>2. e # None => e.ver >= 1
      <3>1. CASE Dated(load[n])
        BY <1>16, <2>0, <3>1, LoadReturnsEffect DEF Dated
      <3>2. CASE ~Dated(load[n])
        <4>1. e = cache[n]
          BY <1>16, <3>2, LoadReturnsEffect
        <4> QED BY <4>1 DEF StageInv
      <3> QED BY <3>1, <3>2
    <2> HIDE DEF r, e
    <2> QED BY <2>1, <2>2 DEF TypeOK, StageInv
  <1>17. ASSUME NEW n \in Node, LoadRetired(n)  PROVE StageInv'
    BY <1>17 DEF TypeOK, StageInv, LoadRetired, Loader!Retire
  <1>18. ASSUME NEW p \in Client, NEW n \in Node, IncrementHere(p, n)  PROVE StageInv'
    <2>1. /\ Number(n) \in Ver /\ Number(n) + 1 \in Ver
          /\ cache'[n] # None /\ cache'[n].ver = Number(n) + 1
          /\ \A m \in Node : m # n => cache'[m] = cache[m]
          /\ got'[p] # None /\ got'[p].ver = Number(n) + 1
          /\ \A q \in Caller : q # p => got'[q] = got[q]
      BY <1>18, CountedEffect DEF IncrementHere
    <2>2. /\ pc' = [pc EXCEPT ![p] = "incDone"] /\ at' = [at EXCEPT ![p] = n]
          /\ pc[p] = "idle" /\ "Increment" \in conf.Ops[p]
          /\ UNCHANGED <<db, load, flight, answer, want, reply, inv>>
      BY <1>18 DEF IncrementHere, Begun, Goto
    <2>3. cache'[n].ver >= 1 /\ got'[p].ver \in Ver /\ got'[p].ver >= 1
      BY <1>2, <2>1
    <2>4. \A m \in Node : cache'[m] # None => cache'[m] = cache[m] \/ cache'[m].ver >= 1
      BY <2>1, <2>3
    <2>5. got'[p] # None /\ \A q \in Caller : q # p => got'[q] = got[q]
      BY <2>1
    <2> QED BY <2>2, <2>3, <2>4, <2>5 DEF TypeOK, StageInv
  <1>19. ASSUME NEW p \in Client, NEW n \in Node, IncrementForwarded(p, n)  PROVE StageInv'
    <2>1. PickPeer(n) \in Node
      BY <1>19, PickType DEF IncrementForwarded
    <2> QED BY <1>19, <2>1 DEF TypeOK, StageInv, IncrementForwarded, Begun, Goto
  <1>20. ASSUME NEW p \in Client, IncrementServed(p)  PROVE StageInv'
    <2>1. at[p] \in Node /\ pc[p] = "incCall"
      BY <1>20, AtType DEF IncrementServed
    <2>2. /\ Number(at[p]) \in Ver /\ Number(at[p]) + 1 \in Ver
          /\ cache'[at[p]] # None /\ cache'[at[p]].ver = Number(at[p]) + 1
          /\ \A m \in Node : m # at[p] => cache'[m] = cache[m]
          /\ got'[p] # None /\ got'[p].ver = Number(at[p]) + 1
          /\ \A q \in Caller : q # p => got'[q] = got[q]
      BY <1>20, <2>1, CountedEffect DEF IncrementServed
    <2>3. /\ pc' = [pc EXCEPT ![p] = "incReply"]
          /\ UNCHANGED <<db, load, flight, answer, want, reply, inv, at>>
      BY <1>20 DEF IncrementServed, Goto
    <2>4. got'[p].ver \in Ver /\ got'[p].ver >= 1 /\ cache'[at[p]].ver >= 1
      BY <1>2, <2>2
    <2>5. \A m \in Node : cache'[m] # None => cache'[m] = cache[m] \/ cache'[m].ver >= 1
      BY <2>2, <2>4
    <2>6. got'[p] # None /\ \A q \in Caller : q # p => got'[q] = got[q]
      BY <2>2
    <2> QED BY <2>1, <2>3, <2>4, <2>5, <2>6 DEF TypeOK, StageInv
  <1>21. ASSUME NEW p \in Client, IncrementReturns(p)  PROVE StageInv'
    BY <1>21 DEF TypeOK, StageInv, IncrementReturns, Goto
  <1>22. ASSUME NEW p \in Client, IncrementFails(p)  PROVE StageInv'
    <2>1. Failure \in Answer /\ Failure.ver \in Ver /\ Failure.kind = "error"
      BY <1>2 DEF Failure, Answer
    <2>2. Failure # None
      BY <2>1, NotNone
    <2> QED BY <1>22, <2>1, <2>2 DEF TypeOK, StageInv, IncrementFails, Goto
  <1>23. ASSUME NEW p \in Client, NEW n \in Node, Invalidate(p, n)  PROVE StageInv'
    <2>1. inv'[p] # None /\ \A q \in Client : q # p => inv'[q] = inv[q]
      BY <1>23, InvalidateEffect
    <2> QED BY <1>23, <2>1 DEF TypeOK, StageInv, Invalidate, Calls, Goto
  <1>24. ASSUME NEW p \in Client, NEW m \in Node,
                InvalidatePeer(p, m) \/ InvalidateMisses(p, m)
         PROVE  StageInv'
    <2>1. /\ inv[p] # None /\ inv'[p] # None /\ pc[p] = "invPeers"
          /\ \A q \in Client : q # p => inv'[q] = inv[q]
      BY <1>24, InvalidatePeerEffect DEF InvalidatePeer, InvalidateMisses
    <2>2. \A n \in Node : cache'[n] # None => cache'[n] = cache[n]
      BY <1>24 DEF InvalidatePeer, InvalidateMisses, TypeOK
    <2>3. UNCHANGED <<db, load, flight, answer, want, reply, pc, at, got>>
      BY <1>24 DEF InvalidatePeer, InvalidateMisses
    <2>4. \A q \in Client : /\ inv'[q] # None <=> pc'[q] \in {"invPeers", "invDone"}
                            /\ pc'[q] = "invDone" => inv'[q].todo = {}
      BY <2>1, <2>3 DEF StageInv
    <2> QED BY <2>2, <2>3, <2>4 DEF TypeOK, StageInv
  <1>25. ASSUME NEW p \in Client, InvalidateReturns(p)  PROVE StageInv'
    BY <1>25 DEF TypeOK, StageInv, InvalidateReturns, Goto
  <1>26. ASSUME NEW p \in Client, Consume(p)  PROVE StageInv'
    BY <1>26 DEF TypeOK, StageInv, Consume, Loader!Consume, Goto
  <1>27. ASSUME NEW n \in Node, NEW P \in conf.Peers[n],
                RegisterPeers(n, P) \/ SetPeers(n, P)
         PROVE  StageInv'
    BY <1>27 DEF TypeOK, StageInv, RegisterPeers, SetPeers
  <1>28. ASSUME NEW n \in Node, Evict(n)  PROVE StageInv'
    BY <1>28 DEF TypeOK, StageInv, Evict
  <1>29. ASSUME BackendWrite  PROVE StageInv'
    <2>1. db'.ver = db.ver + 1 /\ db.ver \in Nat
      BY <1>2, <1>29 DEF BackendWrite, TypeOK
    <2> QED BY <1>29, <2>1 DEF TypeOK, StageInv, BackendWrite
  <1>30. ASSUME Tick  PROVE StageInv'
    <2>1. \A n \in Node :
            /\ cache'[n] = None <=> cache[n] = None
            /\ cache[n] # None => cache'[n].ver = cache[n].ver
      BY <1>30, TickEffect
    <2> QED BY <1>30, <2>1 DEF TypeOK, StageInv, Tick
  <1> QED
    BY <1>6, <1>7, <1>8, <1>9, <1>10, <1>11, <1>12, <1>13, <1>14, <1>15, <1>16,
       <1>17, <1>18, <1>19, <1>20, <1>21, <1>22, <1>23, <1>24, <1>25, <1>26,
       <1>27, <1>28, <1>29, <1>30, NextCases

-----------------------------------------------------------------------------
(* The ring. *)

\* Peers change only where the scenario says so.
LEMMA PoolStep ==
  ASSUME TypeOK, Next
  PROVE  \/ pool' = pool
         \/ "set" \in conf.Faults
         \/ /\ "register" \in conf.Faults
            /\ \E n \in Node : \E P \in SUBSET Node :
                 pool[n] = None /\ pool' = [pool EXCEPT ![n] = P]
  <1>1. conf.Peers \in [Node -> SUBSET SUBSET Node]
    BY ConfType DEF TypeOK
  <1>2. CASE \E n \in Node : \E P \in conf.Peers[n] : RegisterPeers(n, P) \/ SetPeers(n, P)
    BY <1>1, <1>2 DEF RegisterPeers, SetPeers
  <1>3. CASE ~(\E n \in Node : \E P \in conf.Peers[n] : RegisterPeers(n, P) \/ SetPeers(n, P))
    BY <1>3, NextCases
       DEF GetHit, GetMiss, LoadJoin, LoadStart, WaitReturns, WaitTimeout, Degrade,
           PeerReturns, PeerFails, GetterReturns, LoadReturns, LoadRetired,
           IncrementHere, IncrementForwarded, IncrementServed, IncrementReturns,
           IncrementFails, Invalidate, InvalidatePeer, InvalidateMisses,
           InvalidateReturns, Consume, Evict, BackendWrite, Tick
  <1> QED BY <1>2, <1>3

\* A settled cluster stays as it is.
LEMMA SettledStep ==
  ASSUME TypeOK, Next
  PROVE  /\ Settled' <=> Settled
         /\ Smooth' <=> Smooth
         /\ Settled => pool' = pool
         /\ Settled => \A n \in Node : PickPeer(n)' = PickPeer(n) /\ OwnerFor(n)' = OwnerFor(n)
         /\ \A o : Home(o)' <=> Home(o)
  <1>1. UNCHANGED conf
    BY NextCases
  <1>2. Settled \/ Settled' => pool' = pool
    BY <1>1, PoolStep DEF Settled, OneRing
  <1>3. pool' = pool => /\ Settled' <=> Settled
                        /\ \A n \in Node : PickPeer(n)' = PickPeer(n) /\ OwnerFor(n)' = OwnerFor(n)
    BY <1>1 DEF Settled, OneRing, PickPeer, OwnerFor
  <1>4. Settled' <=> Settled
    BY <1>2, <1>3
  <1>5. Smooth' <=> Smooth
    BY <1>1, <1>4 DEF Smooth
  <1>6. ASSUME NEW o PROVE Home(o)' <=> Home(o)
    BY <1>2, <1>3, <1>4 DEF Home
  <1> QED BY <1>2, <1>3, <1>4, <1>5, <1>6

\* In a settled cluster every node takes the same node for the owner.
LEMMA HomeExists ==
  ASSUME TypeOK, Settled, NEW n \in Node
  PROVE  OwnerFor(n) \in Node /\ Home(OwnerFor(n))
  <1>1. \A m \in Node : OwnerFor(m) = Owner(pool[m])
    BY PickType DEF Settled
  <1>2. \A m \in Node : pool[m] = pool[n]
    BY DEF Settled, OneRing
  <1>3. \A m \in Node : OwnerFor(m) = OwnerFor(n)
    BY <1>1, <1>2
  <1> QED BY <1>3, PickType DEF Home

\* The owner asks nobody, everyone else asks the owner.
LEMMA HomePicks ==
  ASSUME TypeOK, NEW o \in Node, Home(o), NEW n \in Node
  PROVE  PickPeer(n) = IF n = o THEN None ELSE o
  BY PickType DEF Home, OwnerFor

-----------------------------------------------------------------------------
(* Where results come from. *)

\* Which node is asked or held responsible.
AskFlow ==
  /\ \A n \in Node : load'[n] # None /\ load'[n].phase = "call" =>
       \/ load'[n] = load[n]
       \/ PickPeer(n) # None /\ load'[n].to = PickPeer(n)
  /\ \A p \in Client :
       /\ inv'[p] # None =>
            \/ inv[p] # None /\ inv'[p].owner = inv[p].owner
            \/ \E n \in Node : inv'[p].owner = OwnerFor(n)
       /\ pc'[p] = "incCall" =>
            \/ pc[p] = "incCall" /\ at'[p] = at[p]
            \/ \E n \in Node : at'[p] = OwnerFor(n)

\* Every step asks and holds responsible whom the ring says.
LEMMA AskStep ==
  ASSUME TypeOK, StageInv, Next
  PROVE  AskFlow
  <1>1. Client \cap Node = {} /\ Client \subseteq Caller /\ Node \subseteq Caller
    BY ClusterAssumption DEF Caller
  <1>2. ASSUME load' = load, inv' = inv,
               \A p \in Client : pc'[p] = "incCall" => pc[p] = "incCall" /\ at'[p] = at[p]
        PROVE  AskFlow
    BY <1>2 DEF AskFlow
  <1> USE <1>1 DEF loaderVars, history
  <1>6. ASSUME NEW p \in Caller, NEW n \in Node, GetHit(p, n)  PROVE AskFlow
    BY <1>2, <1>6, BeginsEffect DEF TypeOK, GetHit, Goto
  <1>7. ASSUME NEW p \in Caller, NEW n \in Node, GetMiss(p, n)  PROVE AskFlow
    BY <1>2, <1>7, BeginsEffect DEF TypeOK, GetMiss, Goto
  <1>8. ASSUME NEW p \in Caller, LoadJoin(p)  PROVE AskFlow
    BY <1>2, <1>8 DEF TypeOK, LoadJoin, Loader!Join, Goto
  <1>9. ASSUME NEW p \in Caller, LoadStart(p)  PROVE AskFlow
    <2>1. /\ at[p] \in Node
          /\ load'[at[p]].to = PickPeer(at[p])
          /\ load'[at[p]].phase = IF PickPeer(at[p]) = None THEN "read" ELSE "call"
          /\ \A m \in Node : m # at[p] => load'[m] = load[m]
          /\ \A q \in Client :
               /\ inv'[q] = None <=> inv[q] = None
               /\ inv[q] # None => inv'[q].owner = inv[q].owner
      BY <1>9, LoadStartEffect
    <2>2. pc' = [pc EXCEPT ![p] = "wait"] /\ at' = at
      BY <1>9 DEF LoadStart, Goto
    <2> QED BY <2>1, <2>2 DEF TypeOK, AskFlow
  <1>10. ASSUME NEW p \in Caller, WaitReturns(p)  PROVE AskFlow
    BY <1>2, <1>10 DEF TypeOK, WaitReturns, Goto
  <1>11. ASSUME NEW p \in Caller, WaitTimeout(p)  PROVE AskFlow
    BY <1>2, <1>11 DEF TypeOK, WaitTimeout, Goto
  <1>12. ASSUME NEW p \in Caller, Degrade(p)  PROVE AskFlow
    BY <1>2, <1>12 DEF TypeOK, Degrade, Goto
  <1>13. ASSUME NEW n \in Node, PeerReturns(n)  PROVE AskFlow
    <2>1. /\ load'[n].phase \in {"read", "store"}
          /\ \A m \in Node : m # n => load'[m] = load[m]
      BY <1>13, PeerReturnsEffect
    <2> QED BY <1>13, <2>1 DEF TypeOK, AskFlow, PeerReturns, Dropped, Goto
  <1>14. ASSUME NEW n \in Node, PeerFails(n)  PROVE AskFlow
    <2>1. /\ load'[n].phase = "read"
          /\ \A m \in Node : m # n => load'[m] = load[m]
      BY <1>14, PeerFailsEffect
    <2> QED BY <1>14, <2>1 DEF TypeOK, AskFlow, PeerFails, Dropped, Goto
  <1>15. ASSUME NEW n \in Node, GetterReturns(n)  PROVE AskFlow
    <2>1. /\ load'[n].phase = "store"
          /\ \A m \in Node : m # n => load'[m] = load[m]
      BY <1>15, GetterReturnsEffect
    <2> QED BY <1>15, <2>1 DEF TypeOK, AskFlow, GetterReturns
  <1>16. ASSUME NEW n \in Node, LoadReturns(n)  PROVE AskFlow
    BY <1>16 DEF TypeOK, AskFlow, LoadReturns
  <1>17. ASSUME NEW n \in Node, LoadRetired(n)  PROVE AskFlow
    BY <1>2, <1>17 DEF LoadRetired
  <1>18. ASSUME NEW p \in Client, NEW n \in Node, IncrementHere(p, n)  PROVE AskFlow
    BY <1>2, <1>18 DEF TypeOK, IncrementHere, Goto
  <1>19. ASSUME NEW p \in Client, NEW n \in Node, IncrementForwarded(p, n)  PROVE AskFlow
    <2>1. at' = [at EXCEPT ![p] = OwnerFor(n)]
      BY <1>19 DEF IncrementForwarded, OwnerFor
    <2> QED BY <1>19, <2>1 DEF TypeOK, AskFlow, IncrementForwarded, Goto
  <1>20. ASSUME NEW p \in Client, IncrementServed(p)  PROVE AskFlow
    BY <1>2, <1>20 DEF TypeOK, IncrementServed, Goto
  <1>21. ASSUME NEW p \in Client, IncrementReturns(p)  PROVE AskFlow
    BY <1>2, <1>21 DEF TypeOK, IncrementReturns, Goto
  <1>22. ASSUME NEW p \in Client, IncrementFails(p)  PROVE AskFlow
    BY <1>2, <1>22 DEF TypeOK, IncrementFails, Goto
  <1>23. ASSUME NEW p \in Client, NEW n \in Node, Invalidate(p, n)  PROVE AskFlow
    <2>1. inv'[p].owner = OwnerFor(n) /\ \A q \in Client : q # p => inv'[q] = inv[q]
      BY <1>23, InvalidateEffect
    <2> QED BY <1>23, <2>1 DEF TypeOK, AskFlow, Invalidate, Calls, Goto
  <1>24. ASSUME NEW p \in Client, NEW m \in Node,
                InvalidatePeer(p, m) \/ InvalidateMisses(p, m)
         PROVE  AskFlow
    <2>1. /\ inv[p] # None /\ inv'[p].owner = inv[p].owner
          /\ \A q \in Client : q # p => inv'[q] = inv[q]
      BY <1>24, InvalidatePeerEffect
    <2>2. UNCHANGED <<load, pc, at>>
      BY <1>24 DEF InvalidatePeer, InvalidateMisses
    <2> QED BY <2>1, <2>2 DEF AskFlow
  <1>25. ASSUME NEW p \in Client, InvalidateReturns(p)  PROVE AskFlow
    BY <1>2, <1>25 DEF TypeOK, InvalidateReturns, Goto
  <1>26. ASSUME NEW p \in Client, Consume(p)  PROVE AskFlow
    BY <1>26 DEF TypeOK, AskFlow, Consume, Goto
  <1>27. ASSUME NEW n \in Node, NEW P \in conf.Peers[n],
                RegisterPeers(n, P) \/ SetPeers(n, P)
         PROVE  AskFlow
    BY <1>2, <1>27 DEF RegisterPeers, SetPeers
  <1>28. ASSUME NEW n \in Node, Evict(n)  PROVE AskFlow
    BY <1>2, <1>28 DEF Evict
  <1>29. ASSUME BackendWrite  PROVE AskFlow
    BY <1>2, <1>29 DEF BackendWrite
  <1>30. ASSUME Tick  PROVE AskFlow
    BY <1>2, <1>30 DEF Tick
  <1> QED
    BY <1>6, <1>7, <1>8, <1>9, <1>10, <1>11, <1>12, <1>13, <1>14, <1>15, <1>16,
       <1>17, <1>18, <1>19, <1>20, <1>21, <1>22, <1>23, <1>24, <1>25, <1>26,
       <1>27, <1>28, <1>29, <1>30, NextCases

\* Every step keeps to the ring.
LEMMA RingStep ==
  ASSUME TypeOK, StageInv, RingInv, Next
  PROVE  RingInv'
  <1>1. AskFlow
    BY AskStep
  <1> SUFFICES ASSUME NEW o \in Node, Home(o)'
               PROVE  /\ \A n \in Node : load'[n] # None /\ load'[n].phase = "call" =>
                           load'[n].to = o /\ n # o
                      /\ \A p \in Client : /\ inv'[p] # None => inv'[p].owner = o
                                           /\ pc'[p] = "incCall" => at'[p] = o
    BY DEF RingInv
  <1>2. Home(o)
    BY SettledStep
  <1>3. \A n \in Node : OwnerFor(n) = o /\ PickPeer(n) = IF n = o THEN None ELSE o
    BY <1>2, HomePicks DEF Home
  <1> QED BY <1>1, <1>2, <1>3 DEF AskFlow, RingInv

\* What all the arguments below start from.
LEMMA ControlStep ==
  ASSUME Control, Next
  PROVE  Control' /\ UNCHANGED conf
  BY TypeStep, StageStep, RingStep, NextCases DEF Control

-----------------------------------------------------------------------------
\* What is in a cache was there before, or a load has stored it.
CacheFlow ==
  \A n \in Node : Live(cache'[n]) =>
    \/ /\ Live(cache[n])
       /\ cache'[n].kind = cache[n].kind /\ cache'[n].ver = cache[n].ver
       /\ Tick \/ cache'[n] = cache[n]
    \/ LoadReturns(n)
    \/ ~Uncounted

\* What a load has in hand comes from a peer or from the backend.
LoadFlow ==
  \A n \in Node :
    /\ load'[n] # None /\ load'[n].phase = "read" =>
         \/ load'[n] = load[n]
         \/ PickPeer(n) = None
         \/ "lose" \in conf.Faults
         \/ pc[n] = "done" /\ got[n].kind = "error"
    /\ load'[n] # None /\ load'[n].phase = "store" =>
         \/ load'[n] = load[n] /\ ~LoadReturns(n)
         \/ PeerReturns(n)
         \/ GetterReturns(n)
    /\ answer'[n] # None => answer'[n] = answer[n] \/ LoadReturns(n)

\* A request is answered by the load that it joins or waits for.
ReplyFlow ==
  \A p \in Caller :
    /\ reply'[p] # None =>
         /\ at'[p] = at[p] /\ pc[p] \in {"missed", "wait"} /\ pc'[p] = "wait"
         /\ \/ reply'[p] = reply[p]
            \/ reply'[p] = answer[at[p]]
            \/ /\ LoadReturns(at[p])
               /\ reply'[p] = [kind |-> load[at[p]].kind, ver |-> load[at[p]].ver]
    /\ pc'[p] = "degrade" => pc[p] = "degrade" \/ conf.WaitBounded

\* What a request is told comes from the load or from the cache of its node.
GotFlow ==
  \A p \in Caller : got'[p] # None =>
    \/ got'[p] = got[p] /\ at'[p] = at[p] /\ (pc'[p] = pc[p] \/ pc'[p] = "incDone")
    \/ reply[p] # None /\ got'[p] = reply[p] /\ at'[p] = at[p] /\ pc[p] = "wait"
    \/ /\ at'[p] \in Node /\ Live(cache[at'[p]])
       /\ got'[p].kind = cache[at'[p]].kind /\ got'[p].ver = cache[at'[p]].ver
    \/ got'[p].kind = "error" /\ (pc[p] = "degrade" \/ pc'[p] = "incDone")
    \/ ~Uncounted /\ pc'[p] \in {"incReply", "incDone"}

\* All of these together.
DataFlow == db'.ver >= db.ver /\ CacheFlow /\ LoadFlow /\ ReplyFlow /\ GotFlow

\* Every step obeys these rules.
LEMMA DataStep ==
  ASSUME Control, Next
  PROVE  DataFlow
  <1>1. Client \cap Node = {} /\ Client \subseteq Caller /\ Node \subseteq Caller
    BY ClusterAssumption DEF Caller
  <1>0. TypeOK /\ StageInv /\ TypeOK' /\ StageInv' /\ UNCHANGED conf
    BY ControlStep DEF Control
  <1>2. db.ver \in Nat /\ db.ver >= db.ver /\ None \notin Node
    <2>1. conf \in Scenario /\ db.ver \in Ver
      BY <1>0 DEF TypeOK
    <2>2. db.ver \in Nat /\ None \notin Node
      BY <2>1, ConfType, NotNone
    <2> QED BY <2>2
  <1>3. cache' = cache => CacheFlow
    BY DEF CacheFlow
  <1>4. (\A n \in Node : cache'[n] \in {cache[n], None}) => CacheFlow
    BY DEF CacheFlow, Live
  <1>5. load' = load /\ answer' = answer /\ (\A n \in Node : ~LoadReturns(n)) => LoadFlow
    BY DEF LoadFlow
  <1>a. ASSUME \A n \in Node : load[n] # None /\ load[n].phase = "store" =>
                 load'[n] # None \/ answer'[n] = answer[n]
        PROVE  \A n \in Node : ~LoadReturns(n)
    <2> SUFFICES ASSUME NEW n \in Node, LoadReturns(n) PROVE FALSE
      OBVIOUS
    <2> DEFINE r == [kind |-> load[n].kind, ver |-> load[n].ver]
    <2>1. /\ load[n] # None /\ load[n].phase = "store" /\ r # None
          /\ load' = [load EXCEPT ![n] = None] /\ answer' = [answer EXCEPT ![n] = r]
      BY <1>0, LoadReturnsEffect
    <2> HIDE DEF r
    <2>2. load'[n] = None /\ answer'[n] = r /\ answer[n] = None
      BY <1>0, <2>1 DEF TypeOK, StageInv
    <2> QED BY <1>a, <2>1, <2>2
  <1>6. load' = load /\ answer' = answer => LoadFlow
    BY <1>5, <1>a
  <1>7. reply' = reply /\ at' = at /\ pc' = pc => ReplyFlow
    BY <1>0 DEF ReplyFlow, StageInv
  <1>8. got' = got /\ at' = at /\ pc' = pc => GotFlow
    BY DEF GotFlow
  <1> USE <1>0, <1>1, <1>2 DEF loaderVars, history
  <1>9. ASSUME NEW p \in Caller, NEW n \in Node, GetHit(p, n)  PROVE DataFlow
    <2>1. Begins(p, n) /\ Live(cache[n]) /\ cache[n] # None
      BY <1>9 DEF GetHit, Live
    <2>2. /\ got'[p].kind = cache[n].kind /\ got'[p].ver = cache[n].ver
          /\ \A q \in Caller : q # p => got'[q] = got[q]
      BY <1>9, <2>1, CacheTells DEF GetHit
    <2>3. pc[p] = "idle" /\ at' = [at EXCEPT ![p] = n]
      BY <2>1, BeginsEffect
    <2>4. /\ pc' = [pc EXCEPT ![p] = "done"]
          /\ UNCHANGED <<db, cache, load, answer, want, reply>>
      BY <1>9 DEF GetHit, Goto
    <2>5. ReplyFlow
      BY <2>3, <2>4 DEF ReplyFlow, StageInv, TypeOK
    <2>6. GotFlow
      BY <2>1, <2>2, <2>3, <2>4 DEF GotFlow, TypeOK
    <2> QED BY <1>3, <1>6, <2>4, <2>5, <2>6 DEF DataFlow
  <1>10. ASSUME NEW p \in Caller, NEW n \in Node, GetMiss(p, n)  PROVE DataFlow
    <2>1. Begins(p, n)
      BY <1>10 DEF GetMiss
    <2>2. pc[p] = "idle" /\ at' = [at EXCEPT ![p] = n]
      BY <2>1, BeginsEffect
    <2>3. /\ pc' = [pc EXCEPT ![p] = "missed"] /\ cache' = [cache EXCEPT ![n] = None]
          /\ UNCHANGED <<db, load, answer, reply, got>>
      BY <1>10 DEF GetMiss, Goto
    <2>4. CacheFlow
      BY <1>4, <2>3 DEF TypeOK
    <2>5. ReplyFlow /\ GotFlow
      BY <2>2, <2>3 DEF ReplyFlow, GotFlow, StageInv, TypeOK
    <2> QED BY <1>6, <2>3, <2>4, <2>5 DEF DataFlow
  <1>11. ASSUME NEW p \in Caller, LoadJoin(p)  PROVE DataFlow
    <2>1. /\ pc[p] = "missed" /\ pc' = [pc EXCEPT ![p] = "wait"]
          /\ reply' = [reply EXCEPT ![p] = answer[at[p]]]
          /\ UNCHANGED <<db, cache, load, answer, got, at>>
      BY <1>11 DEF LoadJoin, Loader!Join, Goto
    <2>2. ReplyFlow /\ GotFlow
      BY <2>1 DEF ReplyFlow, GotFlow, StageInv, TypeOK
    <2> QED BY <1>3, <1>6, <2>1, <2>2 DEF DataFlow
  <1>12. ASSUME NEW p \in Caller, LoadStart(p)  PROVE DataFlow
    <2>1. /\ at[p] \in Node /\ load[at[p]] = None /\ load'[at[p]] # None
          /\ load'[at[p]].phase = IF PickPeer(at[p]) = None THEN "read" ELSE "call"
          /\ \A m \in Node : m # at[p] => load'[m] = load[m]
      BY <1>12, LoadStartEffect
    <2>2. /\ pc[p] = "missed" /\ pc' = [pc EXCEPT ![p] = "wait"]
          /\ UNCHANGED <<db, cache, at, answer, reply, got>>
      BY <1>12 DEF LoadStart, Loader!Start, Goto
    <2>3. \A n \in Node : ~LoadReturns(n)
      BY <1>a, <2>2
    <2>4. LoadFlow
      BY <2>1, <2>2, <2>3 DEF LoadFlow
    <2>5. ReplyFlow /\ GotFlow
      BY <2>2 DEF ReplyFlow, GotFlow, StageInv, TypeOK
    <2> QED BY <1>3, <2>2, <2>4, <2>5 DEF DataFlow
  <1>13. ASSUME NEW p \in Caller, WaitReturns(p)  PROVE DataFlow
    <2>1. /\ got' = [got EXCEPT ![p] = reply[p]] /\ reply[p] # None /\ pc[p] = "wait"
      BY <1>13, WaitReturnsEffect
    <2>2. /\ pc' = [pc EXCEPT ![p] = "done"] /\ reply' = [reply EXCEPT ![p] = None]
          /\ UNCHANGED <<db, cache, at, load, answer>>
      BY <1>13 DEF WaitReturns, Loader!Return, Goto
    <2>3. ReplyFlow /\ GotFlow
      BY <2>1, <2>2 DEF ReplyFlow, GotFlow, StageInv, TypeOK
    <2> QED BY <1>3, <1>6, <2>2, <2>3 DEF DataFlow
  <1>14. ASSUME NEW p \in Caller, WaitTimeout(p)  PROVE DataFlow
    <2>1. /\ pc[p] = "wait" /\ pc' = [pc EXCEPT ![p] = "degrade"] /\ conf.WaitBounded
          /\ reply' = [reply EXCEPT ![p] = None]
          /\ UNCHANGED <<db, cache, at, load, answer, got>>
      BY <1>14 DEF WaitTimeout, Loader!Abandon, Goto
    <2>2. ReplyFlow /\ GotFlow
      BY <2>1 DEF ReplyFlow, GotFlow, StageInv, TypeOK
    <2> QED BY <1>3, <1>6, <2>1, <2>2 DEF DataFlow
  <1>15. ASSUME NEW p \in Caller, Degrade(p)  PROVE DataFlow
    <2>1. at[p] \in Node /\ pc[p] = "degrade"
      BY <1>15, AtType DEF Degrade
    <2>2. /\ \A q \in Caller : q # p => got'[q] = got[q]
          /\ Live(cache[at[p]]) => /\ got'[p].kind = cache[at[p]].kind
                                   /\ got'[p].ver = cache[at[p]].ver
          /\ ~Live(cache[at[p]]) => got'[p].kind = "error"
      BY <1>15, <2>1, CacheTells DEF Degrade
    <2>3. /\ pc' = [pc EXCEPT ![p] = "done"]
          /\ UNCHANGED <<db, cache, load, answer, reply, at>>
      BY <1>15 DEF Degrade, Goto
    <2>4. ReplyFlow
      BY <2>1, <2>3 DEF ReplyFlow, StageInv, TypeOK
    <2>5. GotFlow
      BY <2>1, <2>2, <2>3 DEF GotFlow, TypeOK
    <2> QED BY <1>3, <1>6, <2>3, <2>4, <2>5 DEF DataFlow
  <1>16. ASSUME NEW n \in Node, PeerReturns(n) \/ PeerFails(n)  PROVE DataFlow
    <2>1. /\ load'[n] # None
          /\ PeerFails(n) => "lose" \in conf.Faults /\ load'[n].phase = "read"
          /\ PeerReturns(n) => /\ pc[n] = "done"
                               /\ load'[n].phase = IF got[n].kind = "error" THEN "read" ELSE "store"
          /\ \A m \in Node : m # n => load'[m] = load[m]
      BY <1>16, PeerReturnsEffect, PeerFailsEffect
    <2>2. /\ pc' = [pc EXCEPT ![n] = "idle"] /\ at' = [at EXCEPT ![n] = None]
          /\ got' = [got EXCEPT ![n] = None] /\ reply' = [reply EXCEPT ![n] = None]
          /\ UNCHANGED <<db, cache, answer>>
      BY <1>16 DEF PeerReturns, PeerFails, Dropped, Goto
    <2>3. \A m \in Node : ~LoadReturns(m)
      BY <1>a, <2>2
    <2>4. LoadFlow
      BY <1>16, <2>1, <2>2, <2>3 DEF LoadFlow
    <2>5. ReplyFlow /\ GotFlow
      BY <2>2 DEF ReplyFlow, GotFlow, StageInv, TypeOK
    <2> QED BY <1>3, <2>2, <2>4, <2>5 DEF DataFlow
  <1>17. ASSUME NEW n \in Node, GetterReturns(n)  PROVE DataFlow
    <2>1. /\ load'[n] # None /\ load'[n].phase = "store"
          /\ \A m \in Node : m # n => load'[m] = load[m]
      BY <1>17, GetterReturnsEffect
    <2>2. UNCHANGED <<db, cache, answer, reply, got, pc, at>>
      BY <1>17 DEF GetterReturns
    <2>3. \A m \in Node : ~LoadReturns(m)
      BY <1>a, <2>2
    <2>4. LoadFlow
      BY <1>17, <2>1, <2>2, <2>3 DEF LoadFlow
    <2> QED BY <1>3, <1>7, <1>8, <2>2, <2>4 DEF DataFlow
  <1>18. ASSUME NEW n \in Node, LoadReturns(n)  PROVE DataFlow
    <2> DEFINE r == [kind |-> load[n].kind, ver |-> load[n].ver]
               e == cache'[n]
    <2>1. /\ load' = [load EXCEPT ![n] = None]
          /\ answer' = [answer EXCEPT ![n] = r]
          /\ reply' = [p \in Caller |->
                         IF want[p] = n /\ reply[p] = None THEN r ELSE reply[p]]
          /\ cache' = [cache EXCEPT ![n] = e]
          /\ UNCHANGED <<db, pc, at, got>>
      BY <1>18, LoadReturnsEffect
    <2>2. \A m \in Node : m # n => ~LoadReturns(m)
      <3> SUFFICES ASSUME NEW m \in Node, m # n, LoadReturns(m) PROVE FALSE
        OBVIOUS
      <3>1. load[m] # None /\ load' = [load EXCEPT ![m] = None]
        BY LoadReturnsEffect
      <3> QED BY <2>1, <3>1 DEF TypeOK
    <2>3. ReplyFlow
      <3> SUFFICES ASSUME NEW p \in Caller, reply'[p] # None
                   PROVE  /\ at'[p] = at[p] /\ pc[p] \in {"missed", "wait"} /\ pc'[p] = "wait"
                          /\ \/ reply'[p] = reply[p]
                             \/ reply'[p] = answer[at[p]]
                             \/ /\ LoadReturns(at[p])
                                /\ reply'[p] = [kind |-> load[at[p]].kind, ver |-> load[at[p]].ver]
        BY <2>1 DEF ReplyFlow
      <3>1. CASE want[p] = n /\ reply[p] = None
        <4>1. at[p] = n /\ pc[p] = "wait"
          BY <3>1 DEF StageInv
        <4> QED BY <1>18, <2>1, <3>1, <4>1
      <3>2. CASE ~(want[p] = n /\ reply[p] = None)
        BY <2>1, <3>2 DEF StageInv
      <3> QED BY <3>1, <3>2
    <2> HIDE DEF r, e
    <2>4. CacheFlow /\ LoadFlow
      BY <1>18, <2>1, <2>2 DEF CacheFlow, LoadFlow, TypeOK
    <2> QED BY <1>8, <2>1, <2>3, <2>4 DEF DataFlow
  <1>19. ASSUME NEW n \in Node, LoadRetired(n)  PROVE DataFlow
    <2>1. /\ answer' = [answer EXCEPT ![n] = None]
          /\ UNCHANGED <<db, cache, load, reply, got, pc, at>>
      BY <1>19 DEF LoadRetired, Loader!Retire
    <2>2. \A m \in Node : ~LoadReturns(m)
      BY <1>a, <2>1
    <2>3. LoadFlow
      BY <2>1, <2>2 DEF LoadFlow, TypeOK
    <2> QED BY <1>3, <1>7, <1>8, <2>1, <2>3 DEF DataFlow
  <1>20. ASSUME NEW p \in Client, NEW n \in Node, IncrementHere(p, n)  PROVE DataFlow
    <2>1. /\ pc[p] = "idle" /\ ~Uncounted /\ pc' = [pc EXCEPT ![p] = "incDone"]
          /\ at' = [at EXCEPT ![p] = n]
          /\ UNCHANGED <<db, load, answer, reply>>
      BY <1>20 DEF IncrementHere, Begun, Goto, Uncounted
    <2>2. \A q \in Caller : q # p => got'[q] = got[q]
      BY <1>20, CountedEffect DEF IncrementHere
    <2>3. CacheFlow /\ ReplyFlow /\ GotFlow
      BY <2>1, <2>2 DEF CacheFlow, ReplyFlow, GotFlow, StageInv, TypeOK
    <2> QED BY <1>6, <2>1, <2>3 DEF DataFlow
  <1>21. ASSUME NEW p \in Client, NEW n \in Node, IncrementForwarded(p, n)  PROVE DataFlow
    <2>1. /\ pc[p] = "idle" /\ pc' = [pc EXCEPT ![p] = "incCall"]
          /\ at' = [at EXCEPT ![p] = PickPeer(n)]
          /\ UNCHANGED <<db, cache, load, answer, reply, got>>
      BY <1>21 DEF IncrementForwarded, Begun, Goto
    <2>2. ReplyFlow /\ GotFlow
      BY <2>1 DEF ReplyFlow, GotFlow, StageInv, TypeOK
    <2> QED BY <1>3, <1>6, <2>1, <2>2 DEF DataFlow
  <1>22. ASSUME NEW p \in Client, IncrementServed(p)  PROVE DataFlow
    <2>1. /\ pc[p] = "incCall" /\ pc' = [pc EXCEPT ![p] = "incReply"] /\ at[p] \in Node
          /\ UNCHANGED <<db, load, answer, reply, at>>
      BY <1>22, AtType DEF IncrementServed, Goto
    <2>2. \A q \in Caller : q # p => got'[q] = got[q]
      BY <1>22, <2>1, CountedEffect DEF IncrementServed
    <2>3. ~Uncounted
      BY <2>1 DEF Uncounted, StageInv
    <2>4. CacheFlow /\ ReplyFlow /\ GotFlow
      BY <2>1, <2>2, <2>3 DEF CacheFlow, ReplyFlow, GotFlow, StageInv, TypeOK
    <2> QED BY <1>6, <2>1, <2>4 DEF DataFlow
  <1>23. ASSUME NEW p \in Client, IncrementReturns(p) \/ IncrementFails(p)  PROVE DataFlow
    <2>1. /\ pc[p] \in {"incCall", "incReply"} /\ pc' = [pc EXCEPT ![p] = "incDone"]
          /\ got' = got \/ got' = [got EXCEPT ![p] = Failure]
          /\ UNCHANGED <<db, cache, load, answer, reply, at>>
      BY <1>23 DEF IncrementReturns, IncrementFails, Goto
    <2>2. ReplyFlow
      BY <2>1 DEF ReplyFlow, StageInv, TypeOK
    <2>3. Failure.kind = "error"
      BY DEF Failure
    <2>4. GotFlow
      BY <2>1, <2>3 DEF GotFlow, TypeOK
    <2> QED BY <1>3, <1>6, <2>1, <2>2, <2>4 DEF DataFlow
  <1>24. ASSUME NEW p \in Client, NEW n \in Node, Invalidate(p, n)  PROVE DataFlow
    <2>1. /\ pc[p] = "idle" /\ pc' = [pc EXCEPT ![p] = "invPeers"]
          /\ at' = [at EXCEPT ![p] = n] /\ cache' = [cache EXCEPT ![n] = None]
          /\ UNCHANGED <<db, load, answer, reply, got>>
      BY <1>24 DEF Invalidate, Calls, Goto
    <2>2. CacheFlow
      BY <1>4, <2>1 DEF TypeOK
    <2>3. ReplyFlow /\ GotFlow
      BY <2>1 DEF ReplyFlow, GotFlow, StageInv, TypeOK
    <2> QED BY <1>6, <2>1, <2>2, <2>3 DEF DataFlow
  <1>25. ASSUME NEW p \in Client, NEW m \in Node,
                InvalidatePeer(p, m) \/ InvalidateMisses(p, m)
         PROVE  DataFlow
    <2>1. \A n \in Node : cache'[n] \in {cache[n], None}
      BY <1>25 DEF InvalidatePeer, InvalidateMisses, TypeOK
    <2>2. UNCHANGED <<db, load, answer, reply, got, pc, at>>
      BY <1>25 DEF InvalidatePeer, InvalidateMisses
    <2> QED BY <1>4, <1>6, <1>7, <1>8, <2>1, <2>2 DEF DataFlow
  <1>26. ASSUME NEW p \in Client, InvalidateReturns(p)  PROVE DataFlow
    <2>1. /\ pc[p] = "invPeers" /\ pc' = [pc EXCEPT ![p] = "invDone"]
          /\ UNCHANGED <<db, cache, load, answer, reply, got, at>>
      BY <1>26 DEF InvalidateReturns, Goto
    <2>2. ReplyFlow /\ GotFlow
      BY <2>1 DEF ReplyFlow, GotFlow, StageInv, TypeOK
    <2> QED BY <1>3, <1>6, <2>1, <2>2 DEF DataFlow
  <1>27. ASSUME NEW p \in Client, Consume(p)  PROVE DataFlow
    <2>1. /\ pc[p] \in {"done", "incDone", "invDone"} /\ pc' = [pc EXCEPT ![p] = "idle"]
          /\ at' = [at EXCEPT ![p] = None] /\ got' = [got EXCEPT ![p] = None]
          /\ UNCHANGED <<db, cache, load, answer, reply>>
      BY <1>27 DEF Consume, Loader!Consume, Goto
    <2>2. ReplyFlow /\ GotFlow
      BY <2>1 DEF ReplyFlow, GotFlow, StageInv, TypeOK
    <2> QED BY <1>3, <1>6, <2>1, <2>2 DEF DataFlow
  <1>28. ASSUME NEW n \in Node, NEW P \in conf.Peers[n],
                RegisterPeers(n, P) \/ SetPeers(n, P)
         PROVE  DataFlow
    <2>1. UNCHANGED <<db, cache, load, answer, reply, got, pc, at>>
      BY <1>28 DEF RegisterPeers, SetPeers
    <2> QED BY <1>3, <1>6, <1>7, <1>8, <2>1 DEF DataFlow
  <1>29. ASSUME NEW n \in Node, Evict(n)  PROVE DataFlow
    <2>1. /\ cache' = [cache EXCEPT ![n] = None]
          /\ UNCHANGED <<db, load, answer, reply, got, pc, at>>
      BY <1>29 DEF Evict
    <2>2. CacheFlow
      BY <1>4, <2>1 DEF TypeOK
    <2> QED BY <1>6, <1>7, <1>8, <2>1, <2>2 DEF DataFlow
  <1>30. ASSUME BackendWrite  PROVE DataFlow
    <2>1. /\ db'.ver = db.ver + 1
          /\ UNCHANGED <<cache, load, answer, reply, got, pc, at>>
      BY <1>30 DEF BackendWrite
    <2>2. db'.ver >= db.ver
      BY <2>1
    <2> QED BY <1>3, <1>6, <1>7, <1>8, <2>1, <2>2 DEF DataFlow
  <1>31. ASSUME Tick  PROVE DataFlow
    <2>1. UNCHANGED <<db, load, answer, reply, got, pc, at>>
      BY <1>31 DEF Tick
    <2>2. CacheFlow
      BY <1>31, TickEffect DEF CacheFlow, Live
    <2> QED BY <1>6, <1>7, <1>8, <2>1, <2>2 DEF DataFlow
  <1> QED
    BY <1>9, <1>10, <1>11, <1>12, <1>13, <1>14, <1>15, <1>16, <1>17, <1>18,
       <1>19, <1>20, <1>21, <1>22, <1>23, <1>24, <1>25, <1>26, <1>27, <1>28,
       <1>29, <1>30, <1>31, NextCases

-----------------------------------------------------------------------------
(* OwnerFetches. *)

\* No step makes an error or sends another node than the owner to its getter.
LEMMA FetchStep ==
  ASSUME Control, FetchInv, Next
  PROVE  FetchInv'
  <1>1. TypeOK /\ StageInv /\ Control' /\ DataFlow
    BY ControlStep, DataStep DEF Control
  <1> SUFFICES ASSUME Smooth'
               PROVE  /\ OwnerFetches'
                      /\ \A n \in Node :
                           /\ NoError(answer'[n])
                           /\ load'[n] # None /\ load'[n].phase = "store" =>
                                load'[n].kind # "error"
                      /\ \A p \in Caller :
                           /\ pc'[p] # "degrade" /\ NoError(reply'[p])
                           /\ pc'[p] = "done" => NoError(got'[p])
    BY DEF FetchInv, NoError
  <1>2. Smooth /\ Settled
    BY <1>1, SettledStep DEF Smooth
  <1>3. /\ "lose" \notin conf.Faults /\ "fail" \notin conf.Faults /\ ~conf.WaitBounded
    BY <1>2 DEF Smooth
  <1>4. /\ OwnerFetches
        /\ \A n \in Node : /\ NoError(answer[n])
                           /\ load[n] # None /\ load[n].phase = "store" => load[n].kind # "error"
        /\ \A p \in Caller : /\ pc[p] # "degrade" /\ NoError(reply[p])
                             /\ pc[p] = "done" => NoError(got[p])
    BY <1>2 DEF FetchInv
  <1>5. Node \subseteq Caller /\ None \notin Node
    BY <1>1, NotNone DEF Caller, TypeOK
  <1>6. OwnerFetches'
    <2> SUFFICES ASSUME NEW n \in Node, load'[n] # None, load'[n].phase = "read"
                 PROVE  n = OwnerFor(n)
      BY <1>1, <1>2, SettledStep DEF OwnerFetches
    <2>1. CASE load'[n] = load[n]
      BY <1>2, <1>4, <2>1 DEF OwnerFetches
    <2>2. CASE PickPeer(n) = None
      BY <2>2 DEF OwnerFor
    <2>3. ~(pc[n] = "done" /\ got[n].kind = "error")
      <3> SUFFICES ASSUME pc[n] = "done" PROVE got[n].kind # "error"
        OBVIOUS
      <3>1. got[n] # None
        BY <1>1, <1>5 DEF StageInv
      <3> QED BY <1>4, <1>5, <3>1 DEF NoError
    <2> QED BY <1>1, <1>3, <2>1, <2>2, <2>3 DEF DataFlow, LoadFlow
  <1>7. ASSUME NEW n \in Node
        PROVE  /\ NoError(answer'[n])
               /\ load'[n] # None /\ load'[n].phase = "store" => load'[n].kind # "error"
    <2>1. ASSUME LoadReturns(n)  PROVE NoError(answer'[n])
      <3>1. /\ load[n].kind # "error"
            /\ answer' = [answer EXCEPT ![n] = [kind |-> load[n].kind, ver |-> load[n].ver]]
        BY <1>1, <1>4, <2>1, LoadReturnsEffect
      <3> QED BY <1>1, <3>1 DEF TypeOK, NoError
    <2>2. ASSUME PeerReturns(n), load'[n].phase = "store"  PROVE load'[n].kind # "error"
      BY <1>1, <2>2, PeerReturnsEffect
    <2>3. ASSUME GetterReturns(n)  PROVE load'[n].kind # "error"
      BY <1>1, <1>3, <2>3, GetterReturnsEffect
    <2> QED BY <1>1, <1>4, <2>1, <2>2, <2>3 DEF DataFlow, LoadFlow, NoError
  <1>8. ASSUME NEW p \in Caller
        PROVE  /\ pc'[p] # "degrade" /\ NoError(reply'[p])
               /\ pc'[p] = "done" => NoError(got'[p])
    <2>1. pc'[p] # "degrade"
      BY <1>1, <1>3, <1>4 DEF DataFlow, ReplyFlow
    <2>2. NoError(reply'[p])
      <3> SUFFICES ASSUME reply'[p] # None PROVE reply'[p].kind # "error"
        BY DEF NoError
      <3>1. at[p] \in Node
        BY <1>1, AtType DEF DataFlow, ReplyFlow
      <3>2. LoadReturns(at[p]) => load[at[p]].kind # "error"
        BY <1>1, <1>4, <3>1, LoadReturnsEffect
      <3>3. \/ reply'[p] = reply[p]
            \/ reply'[p] = answer[at[p]]
            \/ /\ LoadReturns(at[p])
               /\ reply'[p] = [kind |-> load[at[p]].kind, ver |-> load[at[p]].ver]
        BY <1>1 DEF DataFlow, ReplyFlow
      <3> QED BY <1>4, <3>1, <3>2, <3>3 DEF NoError
    <2>3. ASSUME pc'[p] = "done"  PROVE NoError(got'[p])
      <3>1. \A n \in Node : Live(cache[n]) => cache[n].kind # "error"
        BY <1>1, Fields DEF Live
      <3> QED BY <1>1, <1>4, <2>3, <3>1 DEF DataFlow, GotFlow, NoError
    <2> QED BY <2>1, <2>2, <2>3
  <1> QED BY <1>6, <1>7, <1>8

-----------------------------------------------------------------------------
(* CopiesInTime. *)

\* Only a tick changes the lapses.
LEMMA LapseStep ==
  ASSUME Next
  PROVE  Tick \/ lapse' = lapse
  BY NextCases
     DEF GetHit, GetMiss, LoadJoin, LoadStart, WaitReturns, WaitTimeout, Degrade,
         PeerReturns, PeerFails, GetterReturns, LoadReturns, LoadRetired,
         IncrementHere, IncrementForwarded, IncrementServed, IncrementReturns,
         IncrementFails, Invalidate, InvalidatePeer, InvalidateMisses,
         InvalidateReturns, Consume, RegisterPeers, SetPeers, Evict, BackendWrite

\* With one ring, nobody who is asked asks on.
LEMMA AskedAsksNobody ==
  ASSUME TypeOK, OneRing, NEW n \in Node, Asks(n)
  PROVE  PickPeer(n) \in Node /\ ~Asks(PickPeer(n))
  <1>1. /\ PickPeer(n) = Owner(pool[n]) /\ PickPeer(n) \in Node /\ pool[n] # None
    BY PickType DEF PickPeer, Asks
  <1>2. pool[PickPeer(n)] \in {None, pool[n]}
    BY <1>1 DEF OneRing
  <1> QED BY <1>1, <1>2 DEF PickPeer, Asks

\* While the cluster has one ring, the nodes that ask go on asking the same node.
LEMMA OneRingStep ==
  ASSUME TypeOK, TypeOK', Next, OneRing'
  PROVE  /\ OneRing
         /\ \A n \in Node : Asks(n) => /\ Asks(n)' /\ PickPeer(n)' = PickPeer(n)
                                       /\ ~Asks(PickPeer(n))'
  <1>1. UNCHANGED conf /\ "set" \notin conf.Faults
    BY NextCases DEF OneRing
  <1>2. /\ \A n \in Node : pool'[n] = pool[n] \/ pool[n] = None
        /\ pool' \in [Node -> (SUBSET Node) \cup {None}]
    BY <1>1, PoolStep DEF TypeOK
  <1>3. OneRing
    BY <1>1, <1>2 DEF OneRing
  <1>4. ASSUME NEW n \in Node, Asks(n)
        PROVE  Asks(n)' /\ PickPeer(n)' = PickPeer(n) /\ ~Asks(PickPeer(n))'
    <2>1. /\ pool[n] # None /\ pool'[n] = pool[n]
          /\ PickPeer(n) = Owner(pool[n]) /\ PickPeer(n) \in Node
      BY <1>2, <1>4, PickType DEF PickPeer, Asks
    <2>2. PickPeer(n)' = PickPeer(n) /\ Asks(n)'
      BY <1>4, <2>1 DEF PickPeer, Asks
    <2>3. pool'[PickPeer(n)] \in {None, pool[n]}
      BY <2>1 DEF OneRing
    <2>4. ~Asks(PickPeer(n))'
      BY <2>1, <2>3 DEF PickPeer, Asks
    <2> QED BY <2>2, <2>4
  <1> QED BY <1>3, <1>4

\* The entry of a node, one tick later.
LEMMA TimeTick ==
  ASSUME Control, TimeInv, Tick, Next, OneRing, Uncounted, TTL > 0, NEW n \in Node,
         Live(cache'[n])
  PROVE  /\ cache'[n].rem # Forever
         /\ lapse'[cache'[n].ver] + cache'[n].rem <= Age(n) + Longest
  <1>1. TypeOK /\ StageInv /\ conf \in Scenario
    BY DEF Control, TypeOK
  <1>2. /\ Live(cache[n]) /\ cache'[n].ver = cache[n].ver
        /\ cache'[n].rem = IF cache[n].rem = Forever THEN Forever ELSE cache[n].rem - 1
        /\ \A v \in Ver \ {0} : lapse'[v] <= lapse[v] + 1
        /\ lapse' \in [Ver \ {0} -> 0 .. MaxAge + 1]
    BY <1>1, TickEffect DEF Live
  <1>3. /\ cache[n].rem # Forever
        /\ lapse[cache[n].ver] + cache[n].rem <= Age(n) + Longest
    BY <1>2 DEF TimeInv
  <1>4. cache[n].ver \in Ver \ {0} /\ cache[n].rem \in Expired .. Forever
    BY <1>1, <1>2, Fields DEF Live, StageInv
  <1> DEFINE a == lapse[cache[n].ver]
             b == lapse'[cache[n].ver]
             r == cache[n].rem
  <1>5. a \in Nat /\ b \in Nat /\ b <= a + 1 /\ Longest \in Nat /\ Age(n) \in Nat
        /\ r \in Int /\ Forever = Longest + 1 /\ r <= Forever
    BY <1>1, <1>2, <1>4, Types, ConfType DEF Age, Expired
  <1>6. /\ cache'[n].rem = r - 1 /\ cache'[n].ver = cache[n].ver /\ r # Forever
        /\ a + r <= Age(n) + Longest
    BY <1>2, <1>3
  <1> HIDE DEF a, b, r
  <1>7. b + (r - 1) <= Age(n) + Longest /\ r - 1 # Forever
    BY <1>5, <1>6
  <1> QED BY <1>6, <1>7 DEF b

\* A result that is under way is as old after a tick as before.
LEMMA UnderWayInTime ==
  ASSUME Control, Tick, NEW n \in Node, NEW a \in Nat
  PROVE  /\ Holds(load[n]) /\ InTime(load[n], a) => lapse'[load[n].ver] <= a
         /\ \A r \in {answer[n], reply[n], got[n]} :
              InTime(r, a) => (r # None /\ r.kind # "error" => lapse'[r.ver] <= a)
  <1>1. TypeOK /\ StageInv /\ conf \in Scenario /\ n \in Caller
    BY DEF Control, TypeOK, Caller
  <1>2. /\ \A v \in Ver \ {0} : lapse[v] \in Nat /\ lapse'[v] \in Nat
        /\ \A v \in Ver \ {0} : UnderWay(v) => lapse'[v] <= lapse[v]
    BY <1>1, TickEffect, Types, ConfType
  <1>3. ASSUME NEW v \in Ver \ {0}, UnderWay(v), lapse[v] <= a  PROVE lapse'[v] <= a
    BY <1>2, <1>3
  <1>4. ASSUME Holds(load[n]), InTime(load[n], a)  PROVE lapse'[load[n].ver] <= a
    <2>1. load[n].ver \in Ver \ {0}
      BY <1>1, <1>4 DEF Holds, TypeOK, StageInv
    <2>2. UnderWay(load[n].ver) /\ lapse[load[n].ver] <= a
      BY <1>4 DEF UnderWay, Holds, InTime
    <2> QED BY <1>3, <2>1, <2>2
  <1>5. ASSUME NEW r \in {answer[n], reply[n], got[n]}, InTime(r, a),
               r # None, r.kind # "error"
        PROVE  lapse'[r.ver] <= a
    <2>1. r.ver \in Ver \ {0}
      BY <1>1, <1>5 DEF StageInv
    <2>2. UnderWay(r.ver) /\ lapse[r.ver] <= a
      BY <1>5 DEF UnderWay, InTime
    <2> QED BY <1>3, <2>1, <2>2
  <1> QED BY <1>4, <1>5

\* The request of a load is at a node that asks nobody.
LEMMA TimeAt ==
  ASSUME Control, TimeInv, Next, OneRing, Uncounted, TTL > 0, NEW n \in Node
  PROVE  /\ pc[n] # "idle" => at[n] \in Node /\ ~Asks(at[n])
         /\ pc'[n] # "idle" => at'[n] \in Node /\ ~Asks(at'[n])
  <1>1. TypeOK /\ TypeOK' /\ AskFlow
    BY ControlStep, AskStep DEF Control
  <1>2. ASSUME load[n] # None, load[n].phase = "call"
        PROVE  load[n].to \in Node /\ ~Asks(load[n].to)
    <2>1. PickPeer(n) = load[n].to /\ ~Asks(load[n].to) /\ load[n].to # None
      BY <1>2 DEF TimeInv, Control, StageInv
    <2> QED BY <1>1, <2>1, PickType
  <1>3. ASSUME load'[n] # None, load'[n].phase = "call"
        PROVE  load'[n].to \in Node /\ ~Asks(load'[n].to)
    <2>1. CASE load'[n] = load[n]
      BY <1>2, <1>3, <2>1
    <2>2. CASE Asks(n) /\ load'[n].to = PickPeer(n)
      BY <1>1, <2>2, AskedAsksNobody
    <2> QED BY <1>1, <1>3, <2>1, <2>2 DEF AskFlow, Asks
  <1> QED BY <1>1, <1>2, <1>3 DEF TypeOK

\* What is in a hand or in a cache after a step that is no tick.
LEMMA TimeStays ==
  ASSUME Control, TimeInv, Next, ~Tick, OneRing, Uncounted, TTL > 0,
         NEW n \in Node
  PROVE  /\ lapse' = lapse
         /\ Holds(load'[n]) => lapse[load'[n].ver] <= Age(n)
         /\ InTime(answer'[n], Age(n))
         /\ Live(cache'[n]) => /\ cache'[n].rem # Forever
                               /\ lapse[cache'[n].ver] + cache'[n].rem <= Age(n) + Longest
         /\ InTime(reply'[n], 0) /\ InTime(got'[n], Longest)
  <1>1. TypeOK /\ StageInv /\ Control' /\ DataFlow /\ conf \in Scenario
    BY ControlStep, DataStep DEF Control, TypeOK
  <1>2. Longest \in Nat /\ Age(n) \in Nat /\ Forever = Longest + 1
        /\ Ver \subseteq Nat /\ \A v \in Ver \ {0} : lapse[v] \in Nat
    BY <1>1, ConfType, Types DEF Age
  <1>a. lapse' = lapse
    BY LapseStep
  <1>3. \A m \in Node :
          /\ load[m] # None /\ load[m].phase = "call" =>
               PickPeer(m) = load[m].to /\ ~Asks(load[m].to)
          /\ Holds(load[m]) => InTime(load[m], Age(m))
          /\ InTime(answer[m], Age(m))
          /\ Live(cache[m]) =>
               /\ cache[m].rem # Forever
               /\ lapse[cache[m].ver] + cache[m].rem <= Age(m) + Longest
          /\ InTime(reply[m], 0) /\ InTime(got[m], Longest)
    BY DEF TimeInv
  <1>4. Node \subseteq Caller /\ None \notin Node
    BY <1>1, NotNone DEF Caller
  <1>5. ASSUME Holds(load'[n])  PROVE lapse[load'[n].ver] <= Age(n)
    <2>1. CASE load'[n] = load[n]
      BY <1>3, <1>5, <2>1 DEF Holds, InTime
    <2>2. CASE PeerReturns(n)
      <3>1. /\ load[n] # None /\ load[n].phase = "call" /\ got[n] # None
            /\ load'[n].kind = got[n].kind /\ load'[n].ver = got[n].ver
        BY <1>1, <2>2, PeerReturnsEffect
      <3>2. Age(n) = Longest
        <4>1. PickPeer(n) # None
          BY <1>1, <1>3, <3>1 DEF StageInv
        <4> QED BY <4>1 DEF Age, Asks
      <3> QED BY <1>3, <1>5, <3>1, <3>2 DEF InTime, Holds
    <2>3. CASE GetterReturns(n)
      <3>1. load'[n].ver = db.ver
        BY <1>1, <1>5, <2>3, GetterReturnsEffect DEF Holds
      <3>2. db.ver \in Ver \ {0} /\ db.ver >= db.ver
        <4>1. db.ver \in Ver /\ db.ver >= 1 /\ db.ver \in Nat
          BY <1>1, <1>2 DEF TypeOK, StageInv
        <4> QED BY <4>1
      <3>3. lapse[db.ver] = 0
        BY <3>2 DEF TimeInv
      <3> QED BY <1>2, <3>1, <3>3
    <2> QED BY <1>1, <1>5, <2>1, <2>2, <2>3 DEF DataFlow, LoadFlow, Holds
  <1>6. InTime(answer'[n], Age(n))
    <2>1. CASE LoadReturns(n)
      <3>1. /\ load[n] # None /\ load[n].phase = "store"
            /\ answer' = [answer EXCEPT ![n] = [kind |-> load[n].kind, ver |-> load[n].ver]]
        BY <1>1, <2>1, LoadReturnsEffect
      <3>2. answer'[n].kind = load[n].kind /\ answer'[n].ver = load[n].ver
        BY <1>1, <3>1 DEF TypeOK
      <3> QED BY <1>3, <3>1, <3>2 DEF InTime, Holds
    <2> QED BY <1>1, <1>3, <2>1 DEF DataFlow, LoadFlow, InTime
  <1>7. ASSUME Live(cache'[n])
        PROVE  /\ cache'[n].rem # Forever
               /\ lapse[cache'[n].ver] + cache'[n].rem <= Age(n) + Longest
    <2>1. CASE Live(cache[n]) /\ cache'[n] = cache[n]
      BY <1>3, <2>1
    <2>2. CASE LoadReturns(n) /\ Dated(load[n])
      <3>1. /\ load[n] # None /\ load[n].phase = "store" /\ load[n].ver \in Ver
            /\ cache' = [cache EXCEPT ![n] = cache'[n]]
            /\ cache'[n].ver = load[n].ver
            /\ cache'[n].rem # Forever
            /\ cache'[n].rem <= Longest
            /\ cache'[n] \in Entry
        BY <1>1, <2>2, LoadReturnsEffect
      <3>2. load[n].kind # "error" /\ lapse[load[n].ver] <= Age(n)
        BY <1>3, <2>2, <3>1 DEF Dated, Holds, InTime
      <3>3. /\ cache'[n].ver = load[n].ver /\ cache'[n].rem # Forever
            /\ cache'[n].rem <= Longest /\ cache'[n].rem \in Int
        BY <1>1, <1>2, <3>1 DEF TypeOK, Entry, Expired
      <3>4. load[n].ver \in Ver \ {0}
        BY <1>1, <3>1, <3>2 DEF StageInv
      <3>5. lapse[load[n].ver] \in Nat
        BY <1>2, <3>4
      <3> DEFINE a == lapse[load[n].ver]
                 r == cache'[n].rem
      <3>6. a \in Nat /\ a <= Age(n) /\ r \in Int /\ r <= Longest
        BY <3>2, <3>3, <3>5
      <3> HIDE DEF a, r
      <3>7. a + r <= Age(n) + Longest
        BY <1>2, <3>6
      <3> QED BY <3>3, <3>7 DEF a, r
    <2>3. CASE LoadReturns(n) /\ ~Dated(load[n])
      <3>1. cache'[n] = cache[n]
        BY <1>1, <2>3, LoadReturnsEffect DEF TypeOK
      <3> QED BY <1>3, <1>7, <3>1
    <2> QED BY <1>1, <1>7, <2>1, <2>2, <2>3 DEF DataFlow, CacheFlow
  <1>8. InTime(reply'[n], 0)
    <2> SUFFICES ASSUME reply'[n] # None, reply'[n].kind # "error"
                 PROVE  lapse[reply'[n].ver] <= 0
      BY DEF InTime
    <2>1. pc[n] # "idle"
      BY <1>1, <1>4 DEF DataFlow, ReplyFlow
    <2>2. at[n] \in Node /\ Age(at[n]) = 0
      BY <2>1, TimeAt DEF Age
    <2>3. \/ reply'[n] = reply[n]
          \/ reply'[n] = answer[at[n]]
          \/ /\ LoadReturns(at[n])
             /\ reply'[n] = [kind |-> load[at[n]].kind, ver |-> load[at[n]].ver]
      BY <1>1, <1>4 DEF DataFlow, ReplyFlow
    <2>4. CASE reply'[n] = reply[n]
      BY <1>3, <2>4 DEF InTime
    <2>5. CASE reply'[n] = answer[at[n]]
      BY <1>3, <2>2, <2>5 DEF InTime
    <2>6. CASE /\ LoadReturns(at[n])
               /\ reply'[n] = [kind |-> load[at[n]].kind, ver |-> load[at[n]].ver]
      <3>1. load[at[n]] # None /\ load[at[n]].phase = "store"
        BY <1>1, <2>2, <2>6, LoadReturnsEffect
      <3>2. reply'[n].kind = load[at[n]].kind /\ reply'[n].ver = load[at[n]].ver
        BY <2>6
      <3> QED BY <1>3, <2>2, <3>1, <3>2 DEF InTime, Holds
    <2> QED BY <2>3, <2>4, <2>5, <2>6
  <1>9. InTime(got'[n], Longest)
    <2> SUFFICES ASSUME got'[n] # None, got'[n].kind # "error"
                 PROVE  lapse[got'[n].ver] <= Longest
      BY DEF InTime
    <2>1. CASE got'[n] = got[n]
      BY <1>3, <2>1 DEF InTime
    <2>2. CASE reply[n] # None /\ got'[n] = reply[n]
      <3>1. lapse[reply[n].ver] <= 0
        BY <1>3, <2>2 DEF InTime
      <3>2. reply[n].ver \in Ver \ {0}
        BY <1>1, <1>4, <2>2 DEF StageInv
      <3>3. lapse[reply[n].ver] \in Nat
        BY <1>2, <3>2
      <3> QED BY <1>2, <2>2, <3>1, <3>3
    <2>3. CASE /\ at'[n] \in Node /\ Live(cache[at'[n]])
               /\ got'[n].kind = cache[at'[n]].kind /\ got'[n].ver = cache[at'[n]].ver
      <3> DEFINE m == at'[n]
      <3>1. pc'[n] # "idle"
        BY <1>1, <1>4 DEF Control, StageInv
      <3>2. m \in Node /\ Age(m) = 0
        BY <3>1, TimeAt DEF Age
      <3>3. lapse[cache[m].ver] + cache[m].rem <= 0 + Longest
        BY <1>3, <2>3, <3>2
      <3>4. cache[m].ver \in Ver \ {0} /\ cache[m].rem \in Nat
        <4>1. /\ cache[m].ver \in Ver /\ cache[m].ver >= 1
              /\ cache[m].rem \in Expired .. Forever /\ cache[m].rem # Expired
          BY <1>1, <2>3, <3>2, Fields DEF Live, StageInv
        <4> QED BY <1>2, <4>1 DEF Expired
      <3>5. lapse[cache[m].ver] \in Nat /\ got'[n].ver = cache[m].ver
        BY <1>2, <2>3, <3>4
      <3> QED BY <1>2, <3>3, <3>4, <3>5
    <2>4. pc'[n] \notin {"incReply", "incDone"}
      BY <1>1 DEF Control, StageInv
    <2> QED BY <1>1, <1>4, <2>1, <2>2, <2>3, <2>4 DEF DataFlow, GotFlow
  <1> QED BY <1>a, <1>5, <1>6, <1>7, <1>8, <1>9

\* Copies stay in time.
LEMMA TimeStep ==
  ASSUME Control, TimeInv, Next
  PROVE  TimeInv'
  <1>1. TypeOK /\ StageInv /\ Control' /\ TypeOK' /\ DataFlow /\ AskFlow /\ UNCHANGED conf
        /\ conf \in Scenario
    BY ControlStep, DataStep, AskStep DEF Control, TypeOK
  <1>2. /\ TTL' = TTL /\ Ver' = Ver /\ Longest' = Longest /\ Forever' = Forever
        /\ Uncounted' = Uncounted /\ Longest \in Nat /\ Ver \subseteq Nat
    BY <1>1, Fixed, ConfType
  <1>3. \A v \in Ver \ {0} : v >= db'.ver => lapse'[v] = 0
    <2>1. CASE Tick
      BY <1>1, <2>1, TickEffect DEF Tick
    <2>2. CASE lapse' = lapse
      <3> SUFFICES ASSUME NEW v \in Ver \ {0}, v >= db'.ver PROVE v >= db.ver
        BY <2>2 DEF TimeInv
      <3>1. db.ver \in Nat /\ db'.ver \in Nat /\ v \in Nat /\ db'.ver >= db.ver
        BY <1>1, <1>2 DEF TypeOK, DataFlow
      <3> QED BY <3>1
    <2> QED BY <2>1, <2>2, LapseStep
  <1>4. ASSUME OneRing', Uncounted, TTL > 0, NEW n \in Node
        PROVE  /\ load'[n] # None /\ load'[n].phase = "call" =>
                    PickPeer(n)' = load'[n].to /\ ~Asks(load[n].to)'
               /\ Holds(load'[n]) => InTime(load[n], Age(n))'
               /\ InTime(answer[n], Age(n))'
               /\ Live(cache'[n]) =>
                    /\ cache'[n].rem # Forever
                    /\ lapse'[cache'[n].ver] + cache'[n].rem <= Age(n)' + Longest
               /\ InTime(reply[n], 0)' /\ InTime(got[n], Longest)'
    <2>1. /\ OneRing
          /\ \A m \in Node : Asks(m) => /\ Asks(m)' /\ PickPeer(m)' = PickPeer(m)
                                        /\ ~Asks(PickPeer(m))'
      BY <1>1, <1>4, OneRingStep
    <2>2. Age(n) \in Nat /\ Age(n)' \in Nat /\ Age(n) <= Age(n)'
      BY <1>2, <2>1 DEF Age
    <2>3. ASSUME load'[n] # None, load'[n].phase = "call"
          PROVE  PickPeer(n)' = load'[n].to /\ ~Asks(load[n].to)'
      <3>1. PickPeer(n) # None /\ load'[n].to = PickPeer(n)
        <4>1. CASE load'[n] = load[n]
          BY <1>1, <1>4, <2>1, <2>3, <4>1 DEF TimeInv, StageInv
        <4> QED BY <1>1, <2>3, <4>1 DEF AskFlow
      <3>2. Asks(n)
        BY <3>1 DEF Asks
      <3>3. PickPeer(n)' = PickPeer(n) /\ ~Asks(PickPeer(n))'
        BY <2>1, <3>2
      <3> QED BY <3>1, <3>3 DEF Asks
    <2>4. CASE ~Tick
      <3>1. /\ lapse' = lapse
            /\ Holds(load'[n]) => lapse[load'[n].ver] <= Age(n)
            /\ InTime(answer'[n], Age(n))
            /\ Live(cache'[n]) => /\ cache'[n].rem # Forever
                                  /\ lapse[cache'[n].ver] + cache'[n].rem <= Age(n) + Longest
            /\ InTime(reply'[n], 0) /\ InTime(got'[n], Longest)
        BY <1>4, <2>1, <2>4, TimeStays
      <3>2. \A v \in Ver \ {0} : lapse[v] \in Nat
        BY <1>1, Types, ConfType
      <3>3. Holds(load'[n]) => load'[n].ver \in Ver \ {0}
        BY <1>1, <1>2 DEF Holds, Control, TypeOK, StageInv
      <3>4. answer'[n] # None /\ answer'[n].kind # "error" => answer'[n].ver \in Ver \ {0}
        BY <1>1, <1>2 DEF Control, StageInv
      <3>5. Live(cache'[n]) => cache'[n].ver \in Ver \ {0} /\ cache'[n].rem \in Int
        <4> SUFFICES ASSUME Live(cache'[n])
                     PROVE  cache'[n].ver \in Ver \ {0} /\ cache'[n].rem \in Int
          OBVIOUS
        <4>1. /\ cache' \in [Node -> Entry \cup {None}] /\ cache'[n] # None
              /\ cache'[n].ver >= 1
          BY <1>1, TypeFolded DEF Live, Control, StageInv
        <4> QED BY <1>1, <4>1, ConfType DEF Entry, Expired
      <3>6. Holds(load'[n]) => InTime(load[n], Age(n))'
        BY <2>2, <3>1, <3>2, <3>3 DEF InTime
      <3>7. InTime(answer[n], Age(n))'
        BY <2>2, <3>1, <3>2, <3>4 DEF InTime
      <3>8. ASSUME Live(cache'[n])
            PROVE  lapse'[cache'[n].ver] + cache'[n].rem <= Age(n)' + Longest
        <4> DEFINE a == lapse'[cache'[n].ver]
                   r == cache'[n].rem
        <4>1. a \in Nat /\ r \in Int /\ a + r <= Age(n) + Longest
          BY <3>1, <3>2, <3>5, <3>8
        <4> HIDE DEF a, r
        <4>2. a + r <= Age(n)' + Longest
          BY <1>2, <2>2, <4>1
        <4> QED BY <4>2 DEF a, r
      <3>9. InTime(reply[n], 0)' /\ InTime(got[n], Longest)'
        BY <1>2, <3>1 DEF InTime
      <3> QED BY <2>3, <3>1, <3>6, <3>7, <3>8, <3>9
    <2>5. CASE Tick
      <3>1. UNCHANGED <<load, answer, reply, got, pool>>
        BY <2>5 DEF Tick, loaderVars
      <3>2. Age(n)' = Age(n)
        BY <1>2, <3>1 DEF Age, Asks, PickPeer
      <3>a. Control /\ 0 \in Nat
        OBVIOUS
      <3>4. Holds(load'[n]) => InTime(load[n], Age(n))'
        <4>1. Holds(load[n]) => InTime(load[n], Age(n))
          BY <1>4, <2>1 DEF TimeInv
        <4> QED BY <2>2, <2>5, <3>1, <3>2, <4>1, UnderWayInTime DEF Holds, InTime
      <3>5. InTime(answer[n], Age(n))'
        <4>1. InTime(answer[n], Age(n))
          BY <1>4, <2>1 DEF TimeInv
        <4> QED BY <2>2, <2>5, <3>1, <3>2, <4>1, UnderWayInTime DEF InTime
      <3>6. InTime(reply[n], 0)'
        <4>1. InTime(reply[n], 0)
          BY <1>4, <2>1 DEF TimeInv
        <4> QED BY <2>5, <3>a, <3>1, <4>1, UnderWayInTime DEF InTime
      <3>7. InTime(got[n], Longest)'
        <4>1. InTime(got[n], Longest)
          BY <1>4, <2>1 DEF TimeInv
        <4> QED BY <1>2, <2>5, <3>1, <4>1, UnderWayInTime DEF InTime
      <3>3. Live(cache'[n]) =>
              /\ cache'[n].rem # Forever
              /\ lapse'[cache'[n].ver] + cache'[n].rem <= Age(n) + Longest
        BY <1>4, <2>1, <2>5, TimeTick
      <3> QED BY <2>3, <3>2, <3>3, <3>4, <3>5, <3>6, <3>7
    <2> QED BY <2>4, <2>5
  <1> QED BY <1>2, <1>3, <1>4 DEF TimeInv, Holds, InTime, Live, Expired, Asks

-----------------------------------------------------------------------------
(* CounterGrows. *)

\* If clients only call Increment, nothing else touches a cache or a client.
LEMMA CountFrame ==
  ASSUME Control, Next, OnlyIncrements
  PROVE  \/ \E p \in Client, n \in Node : IncrementHere(p, n) \/ IncrementForwarded(p, n)
         \/ \E p \in Client :
              IncrementServed(p) \/ IncrementReturns(p) \/ IncrementFails(p) \/ Consume(p)
         \/ UNCHANGED <<cache, granted, mark, pc, got, at>>
  <1>1. TypeOK /\ StageInv /\ Caller = Client \cup Node
    BY DEF Control, Caller
  <1>2. \A p \in Client : "Get" \notin conf.Ops[p] /\ "Invalidate" \notin conf.Ops[p]
    <2>1. \A p \in Client : conf.Ops[p] = {"Increment"}
      BY Zenon DEF OnlyIncrements
    <2>2. "Get" \notin {"Increment"} /\ "Invalidate" \notin {"Increment"}
      OBVIOUS
    <2> QED BY <2>1, <2>2, Zenon
  <1>3. \A n \in Node : flight[n] = "none" /\ load[n] = None /\ pc[n] = "idle"
    BY <1>1, <1>2 DEF StageInv, TypeOK
  <1>4. /\ \A p \in Caller : pc[p] \notin {"missed", "wait", "degrade", "done"}
        /\ \A p \in Client : pc[p] \notin {"invPeers", "invDone"}
    BY <1>1, <1>2, <1>3 DEF StageInv
  <1>5. \A p \in Caller, n \in Node : ~Begins(p, n)
    BY <1>1, <1>2, <1>3, BeginsEffect
  <1>6. ~(\E p \in Caller, n \in Node : GetHit(p, n) \/ GetMiss(p, n))
    BY <1>5 DEF GetHit, GetMiss
  <1>7. ~(\E p \in Caller : \/ LoadJoin(p) \/ LoadStart(p) \/ WaitReturns(p)
                            \/ WaitTimeout(p) \/ Degrade(p))
    BY <1>4 DEF LoadJoin, LoadStart, WaitReturns, WaitTimeout, Degrade
  <1>8. ~(\E n \in Node : \/ PeerReturns(n) \/ PeerFails(n) \/ GetterReturns(n)
                          \/ LoadReturns(n) \/ LoadRetired(n))
    BY <1>3 DEF PeerReturns, PeerFails, GetterReturns, LoadReturns, LoadRetired,
                Loader!Retire
  <1>9. /\ ~(\E p \in Client, n \in Node : Invalidate(p, n))
        /\ ~(\E p \in Client : InvalidateReturns(p))
        /\ ~(\E p \in Client, m \in Node : InvalidatePeer(p, m) \/ InvalidateMisses(p, m))
    BY <1>2, <1>4 DEF Invalidate, Calls, InvalidateReturns, InvalidatePeer, InvalidateMisses
  <1>10. ~Tick /\ ~(\E n \in Node : Evict(n))
    BY DEF OnlyIncrements, Tick, Evict
  <1>11. \A n \in Node : \A P \in conf.Peers[n] :
           RegisterPeers(n, P) \/ SetPeers(n, P) =>
             UNCHANGED <<cache, granted, mark, pc, got, at>>
    BY DEF RegisterPeers, SetPeers, history
  <1>12. BackendWrite => UNCHANGED <<cache, granted, mark, pc, got, at>>
    BY DEF BackendWrite, history
  <1> QED BY <1>6, <1>7, <1>8, <1>9, <1>10, <1>11, <1>12, NextCases

\* The number at the owner stays ahead of the numbers that have been returned.
LEMMA CountStep ==
  ASSUME Control, CountInv, Next
  PROVE  CountInv'
  <1>1. TypeOK /\ StageInv /\ RingInv /\ TypeOK' /\ UNCHANGED conf /\ conf \in Scenario
    BY ControlStep DEF Control, TypeOK
  <1>2. OnlyIncrements' = OnlyIncrements /\ Ver' = Ver /\ Ver \subseteq Nat
    BY <1>1, Fixed, ConfType
  <1> SUFFICES ASSUME OnlyIncrements, NEW o \in Node, Home(o)'
               PROVE  /\ cache'[o] # None => Live(cache'[o]) /\ cache'[o].kind = "number"
                      /\ granted' <= Number(o)'
                      /\ \A p \in Client :
                           /\ mark'[p] <= granted'
                           /\ pc'[p] = "incReply" => got'[p].kind = "number"
                           /\ pc'[p] \in {"incReply", "incDone"} /\ got'[p].kind = "number" =>
                                mark'[p] < got'[p].ver /\ got'[p].ver <= Number(o)'
    BY <1>2 DEF CountInv, Live, Expired
  <1>3. Home(o)
    BY <1>1, SettledStep
  <1>4. /\ cache[o] # None => Live(cache[o]) /\ cache[o].kind = "number"
        /\ granted <= Number(o)
        /\ \A p \in Client :
             /\ mark[p] <= granted
             /\ pc[p] = "incReply" => got[p].kind = "number"
             /\ pc[p] \in {"incReply", "incDone"} /\ got[p].kind = "number" =>
                  mark[p] < got[p].ver /\ got[p].ver <= Number(o)
    BY <1>3 DEF CountInv
  <1>5. /\ Number(o) \in Nat /\ granted \in Nat /\ mark \in [Client -> Nat]
        /\ \A p \in Client : got[p] # None => got[p].ver \in Nat
        /\ \A p \in Client : pc[p] \in {"incReply", "incDone"} => got[p] # None
        /\ Client \subseteq Caller
    <2>1. Client \subseteq Caller
      BY DEF Caller
    <2>2. Number(o) \in Nat
      BY <1>1, <1>2, Fields DEF Number, Live
    <2>3. granted \in Nat /\ mark \in [Client -> Nat]
      BY <1>1, <1>2 DEF TypeOK
    <2>4. \A p \in Client : pc[p] \in {"incReply", "incDone"} => got[p] # None
      BY <1>1, <2>1 DEF StageInv
    <2>5. \A p \in Client : got[p] # None => got[p].ver \in Nat
      BY <1>1, <1>2, <2>1 DEF StageInv
    <2> QED BY <2>1, <2>2, <2>3, <2>4, <2>5
  <1>6. cache' = cache => Number(o)' = Number(o)
    BY DEF Number, Live, Expired
  <1>7. ASSUME NEW p \in Client, Counted(p, o)
        PROVE  /\ cache'[o] # None /\ Live(cache'[o]) /\ cache'[o].kind = "number"
               /\ Number(o)' = Number(o) + 1
               /\ got'[p].kind = "number" /\ got'[p].ver = Number(o) + 1
               /\ \A q \in Client : q # p => got'[q] = got[q]
    <2>1. /\ cache'[o] # None /\ Live(cache'[o]) /\ cache'[o].kind = "number"
          /\ cache'[o].ver = Number(o) + 1
          /\ got'[p].kind = "number" /\ got'[p].ver = Number(o) + 1
          /\ \A q \in Client : q # p => got'[q] = got[q]
      BY <1>1, <1>5, <1>7, CountedEffect
    <2> QED BY <2>1 DEF Number, Live, Expired
  <1>8. ASSUME NEW p \in Client, NEW n \in Node, IncrementHere(p, n)
        PROVE  /\ Number(o)' = Number(o) + 1 /\ granted' = Later(granted, Number(o) + 1)
               /\ cache'[o] # None => Live(cache'[o]) /\ cache'[o].kind = "number"
               /\ mark' = [mark EXCEPT ![p] = granted] /\ pc' = [pc EXCEPT ![p] = "incDone"]
               /\ got'[p].kind = "number" /\ got'[p].ver = Number(o) + 1
               /\ \A q \in Client : q # p => got'[q] = got[q]
    <2>1. PickPeer(n) = IF n = o THEN None ELSE o
      BY <1>1, <1>3, HomePicks
    <2>2. n = o
      BY <1>1, <1>8, <2>1, NotNone DEF IncrementHere
    <2> QED BY <1>7, <1>8, <2>2 DEF IncrementHere, Begun, Goto
  <1>9. ASSUME NEW p \in Client, IncrementServed(p)
        PROVE  /\ Number(o)' = Number(o) + 1 /\ granted' = granted /\ mark' = mark
               /\ cache'[o] # None => Live(cache'[o]) /\ cache'[o].kind = "number"
               /\ pc' = [pc EXCEPT ![p] = "incReply"]
               /\ got'[p].kind = "number" /\ got'[p].ver = Number(o) + 1
               /\ \A q \in Client : q # p => got'[q] = got[q]
    <2>1. at[p] = o
      BY <1>1, <1>3, <1>9 DEF RingInv, IncrementServed
    <2> QED BY <1>7, <1>9, <2>1 DEF IncrementServed, Goto, history
  <1>10. pc \in [Caller -> {"idle", "missed", "wait", "degrade", "done", "incCall",
                            "incReply", "incDone", "invPeers", "invDone"}]
         /\ got \in [Caller -> Answer \cup {None}]
    BY <1>1 DEF TypeOK
  <1> DEFINE N == Number(o)
  <1> HIDE DEF N
  <1>c1. CASE \E p \in Client, n \in Node : IncrementHere(p, n)
    <2> PICK p \in Client, n \in Node : IncrementHere(p, n)
      BY <1>c1
    <2>1. granted' = Number(o) + 1 /\ granted <= granted'
      BY <1>4, <1>5, <1>8 DEF Later
    <2> QED BY <1>4, <1>5, <1>8, <1>10, <2>1
  <1>c2. CASE \E p \in Client, n \in Node : IncrementForwarded(p, n)
    <2> PICK p \in Client, n \in Node : IncrementForwarded(p, n)
      BY <1>c2
    <2>1. /\ mark' = [mark EXCEPT ![p] = granted] /\ pc' = [pc EXCEPT ![p] = "incCall"]
          /\ UNCHANGED <<cache, granted, got>>
      BY DEF IncrementForwarded, Begun, Goto
    <2> QED BY <1>4, <1>5, <1>6, <1>10, <2>1
  <1>c3. CASE \E p \in Client : IncrementServed(p)
    <2> PICK p \in Client : IncrementServed(p)
      BY <1>c3
    <2> QED BY <1>4, <1>5, <1>9, <1>10
  <1>c4. CASE \E p \in Client : IncrementReturns(p)
    <2> PICK p \in Client : IncrementReturns(p)
      BY <1>c4
    <2>1. /\ pc[p] = "incReply" /\ pc' = [pc EXCEPT ![p] = "incDone"]
          /\ granted' = Later(granted, got[p].ver)
          /\ UNCHANGED <<cache, mark, got>>
      BY DEF IncrementReturns, Goto
    <2>2. got[p].kind = "number" /\ got[p].ver <= Number(o) /\ got[p].ver \in Nat
      BY <1>4, <1>5, <2>1
    <2>3. granted <= granted' /\ granted' <= Number(o) /\ granted' \in Nat
      BY <1>4, <1>5, <2>1, <2>2 DEF Later
    <2> QED BY <1>4, <1>5, <1>6, <1>10, <2>1, <2>2, <2>3
  <1>c5. CASE \E p \in Client : IncrementFails(p)
    <2> PICK p \in Client : IncrementFails(p)
      BY <1>c5
    <2>1. /\ pc' = [pc EXCEPT ![p] = "incDone"] /\ got' = [got EXCEPT ![p] = Failure]
          /\ Failure.kind = "error" /\ UNCHANGED <<cache, mark, granted>>
      BY DEF IncrementFails, Goto, history, Failure
    <2> HIDE DEF Failure
    <2> QED BY <1>4, <1>5, <1>6, <1>10, <2>1
  <1>c6. CASE \E p \in Client : Consume(p)
    <2> PICK p \in Client : Consume(p)
      BY <1>c6
    <2>1. /\ pc' = [pc EXCEPT ![p] = "idle"] /\ got' = [got EXCEPT ![p] = None]
          /\ mark' = [mark EXCEPT ![p] = 0] /\ UNCHANGED <<cache, granted>>
      BY DEF Consume, Loader!Consume, Goto
    <2> QED BY <1>4, <1>5, <1>6, <1>10, <2>1
  <1>c7. CASE UNCHANGED <<cache, granted, mark, pc, got, at>>
    BY <1>4, <1>6, <1>c7
  <1> QED BY <1>c1, <1>c2, <1>c3, <1>c4, <1>c5, <1>c6, <1>c7, CountFrame

-----------------------------------------------------------------------------
(* InvalidateForcesReload. *)

\* What may become of the Invalidate of p in a step.
InvFlow(p) ==
  inv'[p] # None =>
    \/ \E n \in Node : Invalidate(p, n)
    \/ /\ inv[p] # None
       /\ inv'[p].owner = inv[p].owner /\ inv'[p].floor = inv[p].floor
       /\ inv'[p].calm => inv[p].calm
       /\ \/ inv'[p].todo = inv[p].todo /\ inv'[p].missed = inv[p].missed
          \/ \E m \in Node : InvalidatePeer(p, m) \/ InvalidateMisses(p, m)
       /\ inv'[p].calm /\ inv[p].owner \in inv[p].todo =>
            \A n \in Node : flight[n] = "none" => flight'[n] = "none"

\* A load that starts disturbs the Invalidates that have not reached the owner.
LEMMA InvStep ==
  ASSUME Control, Next, NEW p \in Client
  PROVE  InvFlow(p)
  <1>1. TypeOK /\ StageInv
    BY DEF Control
  <1>2. ASSUME inv'[p] = inv[p],
               \A n \in Node : flight[n] = "none" => flight'[n] = "none"
        PROVE  InvFlow(p)
    BY <1>2 DEF InvFlow
  <1>3. CASE \E q \in Caller : LoadStart(q)
    <2> PICK q \in Caller : LoadStart(q)
      BY <1>3
    <2>1. /\ inv'[p] = None <=> inv[p] = None
          /\ inv[p] # None =>
               /\ inv'[p].owner = inv[p].owner /\ inv'[p].todo = inv[p].todo
               /\ inv'[p].missed = inv[p].missed /\ inv'[p].floor = inv[p].floor
               /\ inv'[p].calm => inv[p].calm /\ inv[p].owner \notin inv[p].todo
      BY <1>1, LoadStartEffect
    <2> QED BY <2>1 DEF InvFlow
  <1>4. CASE \E q \in Client, n \in Node : Invalidate(q, n)
    <2> PICK q \in Client, n \in Node : Invalidate(q, n)
      BY <1>4
    <2>1. q # p => inv'[p] = inv[p]
      BY <1>1, InvalidateEffect
    <2>2. flight' = flight
      BY DEF Invalidate, loaderVars
    <2>3. CASE q = p
      BY <2>3 DEF InvFlow
    <2> QED BY <1>2, <2>1, <2>2, <2>3
  <1>5. CASE \E q \in Client, m \in Node : InvalidatePeer(q, m) \/ InvalidateMisses(q, m)
    <2> PICK q \in Client, m \in Node : InvalidatePeer(q, m) \/ InvalidateMisses(q, m)
      BY <1>5
    <2>1. /\ inv[q] # None
          /\ inv'[q].owner = inv[q].owner /\ inv'[q].floor = inv[q].floor
          /\ inv'[q].calm = inv[q].calm
          /\ q # p => inv'[p] = inv[p]
      BY <1>1, InvalidatePeerEffect
    <2>2. flight' = flight
      BY DEF InvalidatePeer, InvalidateMisses, loaderVars
    <2>3. CASE q = p
      BY <2>1, <2>2, <2>3 DEF InvFlow
    <2> QED BY <1>2, <2>1, <2>2, <2>3
  <1>6. CASE \E q \in Client : Consume(q)
    <2> PICK q \in Client : Consume(q)
      BY <1>6
    <2>1. inv' = [inv EXCEPT ![q] = None] /\ flight' = flight
      BY DEF Consume, Loader!Consume
    <2> QED BY <1>1, <1>2, <2>1 DEF TypeOK, InvFlow
  <1>7. CASE \E n \in Node : LoadReturns(n)
    <2> PICK n \in Node : LoadReturns(n)
      BY <1>7
    <2>1. inv' = inv /\ flight[n] = "running" /\ flight' = [flight EXCEPT ![n] = "finished"]
      BY <1>1, LoadReturnsEffect
    <2> QED BY <1>1, <1>2, <2>1 DEF TypeOK
  <1>8. CASE \E n \in Node : LoadRetired(n)
    <2> PICK n \in Node : LoadRetired(n)
      BY <1>8
    <2>1. inv' = inv /\ flight' = [flight EXCEPT ![n] = "none"]
      BY DEF LoadRetired, Loader!Retire
    <2> QED BY <1>1, <1>2, <2>1 DEF TypeOK
  <1>9. CASE inv' = inv /\ flight' = flight
    BY <1>2, <1>9
  <1>10. \/ \E q \in Caller : LoadStart(q)
         \/ \E q \in Client, n \in Node : Invalidate(q, n)
         \/ \E q \in Client, m \in Node : InvalidatePeer(q, m) \/ InvalidateMisses(q, m)
         \/ \E q \in Client : Consume(q)
         \/ \E n \in Node : LoadReturns(n)
         \/ \E n \in Node : LoadRetired(n)
         \/ inv' = inv /\ flight' = flight
    BY NextCases
       DEF GetHit, GetMiss, LoadJoin, Loader!Join, WaitReturns, Loader!Return,
           WaitTimeout, Loader!Abandon, Degrade, PeerReturns, PeerFails, Dropped,
           GetterReturns, IncrementHere, IncrementForwarded, IncrementServed,
           IncrementReturns, IncrementFails, InvalidateReturns, RegisterPeers,
           SetPeers, Evict, BackendWrite, Tick, loaderVars
  <1> QED BY <1>3, <1>4, <1>5, <1>6, <1>7, <1>8, <1>9, <1>10

\* Where no load is under way, nothing is on its way to a node.
LEMMA NothingUnderWay ==
  ASSUME TypeOK, StageInv, NEW n \in Node, flight[n] = "none"
  PROVE  load[n] = None /\ answer[n] = None /\ reply[n] = None /\ got[n] = None
  <1>1. load[n] = None /\ answer[n] = None /\ pc[n] = "idle" /\ n \in Caller
    BY DEF TypeOK, StageInv, Caller
  <1> QED BY <1>1 DEF StageInv

\* An Invalidate begins.
LEMMA ReloadBegins ==
  ASSUME Control, Control', NEW o \in Node, Home(o), NEW p \in Client, Undisturbed(p)',
         NEW n \in Node, Invalidate(p, n)
  PROVE  ReloadInvOf(o, p)'
  <1>1. TypeOK /\ StageInv /\ TypeOK' /\ StageInv'
    BY DEF Control
  <1>2. /\ inv'[p] # None /\ inv'[p].owner = OwnerFor(n) /\ inv'[p].floor = db.ver
        /\ inv'[p].missed = Node \ (inv'[p].todo \cup {n})
        /\ inv'[p].calm <=> \A m \in Node : flight[m] = "none"
    BY <1>1, InvalidateEffect
  <1>3. /\ cache' = [cache EXCEPT ![n] = None]
        /\ UNCHANGED <<db, flight>>
    BY DEF Invalidate, loaderVars
  <1>4. inv'[p].owner = o /\ o \notin inv'[p].missed
    BY <1>2 DEF Home, Undisturbed
  <1>5. \A m \in Node : flight'[m] = "none"
    BY <1>2, <1>3 DEF Undisturbed
  <1>6. \A m \in Node : /\ load'[m] = None /\ answer'[m] = None
                        /\ reply'[m] = None /\ got'[m] = None
    <2> TAKE m \in Node
    <2>1. load'[m] = None /\ answer'[m] = None /\ pc'[m] = "idle" /\ m \in Caller
      BY <1>1, <1>5 DEF TypeOK, StageInv, Caller
    <2> QED BY <1>1, <2>1 DEF StageInv
  <1>7. \A m \in Node : m \notin inv'[p].missed \cup inv'[p].todo => cache'[m] = None
    BY <1>1, <1>2, <1>3 DEF TypeOK
  <1>8. db.ver \in Nat /\ inv'[p].floor <= db'.ver
    BY <1>1, <1>2, <1>3, Fields
  <1> QED BY <1>5, <1>6, <1>7, <1>8 DEF ReloadInvOf, Holds, Fresh, Live

\* An Invalidate goes on, and has not reached the owner.
LEMMA ReloadPending ==
  ASSUME Control, Next, NEW o \in Node, NEW p \in Client,
         Uncounted, ReloadInvOf(o, p), inv[p] # None, o \in inv[p].todo,
         inv'[p] # None, inv'[p].floor <= db'.ver,
         \A n \in Node : flight'[n] = "none",
         \A n \in Node : n \notin inv'[p].missed \cup inv'[p].todo /\ Live(cache'[n]) =>
                           n \notin inv[p].missed \cup inv[p].todo
  PROVE  ReloadInvOf(o, p)'
  <1>1. TypeOK /\ StageInv /\ TypeOK' /\ StageInv' /\ DataFlow
    BY ControlStep, DataStep DEF Control
  <1>2. \A n \in Node : /\ flight[n] = "none"
                        /\ n \notin inv[p].missed \cup inv[p].todo => ~Live(cache[n])
    BY DEF ReloadInvOf
  <1>3. \A n \in Node : load[n] = None
    BY <1>1, <1>2, NothingUnderWay
  <1>4. \A n \in Node : ~LoadReturns(n)
    BY <1>3 DEF LoadReturns
  <1>5. \A n \in Node : n \notin inv'[p].missed \cup inv'[p].todo => ~Live(cache'[n])
    BY <1>1, <1>2, <1>4 DEF DataFlow, CacheFlow
  <1>6. \A m \in Node : /\ load'[m] = None /\ answer'[m] = None
                        /\ reply'[m] = None /\ got'[m] = None
    <2> TAKE m \in Node
    <2>1. load'[m] = None /\ answer'[m] = None /\ pc'[m] = "idle" /\ m \in Caller
      BY <1>1 DEF TypeOK, StageInv, Caller
    <2> QED BY <1>1, <2>1 DEF StageInv
  <1> QED BY <1>5, <1>6 DEF ReloadInvOf, Holds, Fresh, Live, Expired

\* The owner has been reached: only what was read since then is on its way.
LEMMA ReloadGoesOn ==
  ASSUME Control, Next, NEW o \in Node, Home(o), NEW p \in Client,
         Uncounted, ReloadInvOf(o, p), inv[p] # None, o \notin inv[p].todo,
         o \notin inv[p].missed, inv'[p] # None, inv'[p].floor = inv[p].floor,
         inv'[p].todo \subseteq inv[p].todo,
         \A n \in Node : n \notin inv'[p].missed \cup inv'[p].todo /\ Live(cache'[n]) =>
                           n \notin inv[p].missed \cup inv[p].todo
  PROVE  ReloadInvOf(o, p)'
  <1>1. TypeOK /\ StageInv /\ TypeOK' /\ StageInv' /\ RingInv' /\ DataFlow
        /\ Node \subseteq Caller
    BY ControlStep, DataStep DEF Control, Caller
  <1> DEFINE f == inv[p].floor
  <1>2. /\ f <= db.ver
        /\ \A n \in Node :
             /\ n \notin inv[p].missed \cup inv[p].todo /\ Live(cache[n]) => cache[n].ver >= f
             /\ Holds(load[n]) => load[n].ver >= f
             /\ Fresh(answer[n], f) /\ Fresh(reply[n], f) /\ Fresh(got[n], f)
    BY DEF ReloadInvOf
  <1>3. f \in Nat /\ db.ver \in Nat /\ db'.ver \in Nat /\ db'.ver >= db.ver
    <2>1. conf \in Scenario /\ conf' \in Scenario
      BY <1>1 DEF TypeOK
    <2>2. Ver \subseteq Nat /\ UNCHANGED conf
      BY <2>1, ConfType, NextCases
    <2>3. inv[p] \in InvRecord /\ Ver' = Ver
      BY <2>2, <1>1, Types, Fixed
    <2> QED BY <1>1, <2>2, <2>3 DEF InvRecord, TypeOK, DataFlow
  <1> HIDE DEF f
  <1>4. f <= db'.ver
    BY <1>2, <1>3
  <1>5. ASSUME NEW n \in Node, LoadReturns(n)
        PROVE  /\ load[n].kind # "error" => load[n].ver >= f
               /\ answer'[n].kind = load[n].kind /\ answer'[n].ver = load[n].ver
               /\ \/ cache'[n] = cache[n]
                  \/ cache'[n].ver = load[n].ver /\ load[n].kind # "error"
    <2>1. /\ load[n] # None /\ load[n].phase = "store"
          /\ answer' = [answer EXCEPT ![n] = [kind |-> load[n].kind, ver |-> load[n].ver]]
          /\ cache' = [cache EXCEPT ![n] = cache'[n]]
          /\ Dated(load[n]) => cache'[n].ver = load[n].ver
          /\ ~Dated(load[n]) => cache'[n] = cache[n]
      BY <1>1, <1>5, LoadReturnsEffect
    <2>2. Dated(load[n]) => load[n].kind # "error"
      BY DEF Dated
    <2>3. answer'[n].kind = load[n].kind /\ answer'[n].ver = load[n].ver
      BY <1>1, <2>1 DEF TypeOK
    <2>4. load[n].kind # "error" => load[n].ver >= f
      BY <1>2, <2>1 DEF Holds
    <2> QED BY <2>1, <2>2, <2>3, <2>4
  <1>6. ASSUME NEW n \in Node, n \notin inv'[p].missed \cup inv'[p].todo, Live(cache'[n])
        PROVE  cache'[n].ver >= f
    <2>1. n \notin inv[p].missed \cup inv[p].todo
      BY <1>6
    <2>2. CASE Live(cache[n]) /\ cache'[n].ver = cache[n].ver
      BY <1>2, <2>1, <2>2
    <2>3. CASE LoadReturns(n)
      BY <1>2, <1>5, <1>6, <2>1, <2>3
    <2> QED BY <1>1, <1>6, <2>2, <2>3 DEF DataFlow, CacheFlow
  <1>7. ASSUME NEW n \in Node, Holds(load'[n])  PROVE load'[n].ver >= f
    <2>1. CASE load'[n] = load[n]
      BY <1>2, <1>7, <2>1
    <2>2. CASE PeerReturns(n)
      <3>1. got[n] # None /\ load'[n].kind = got[n].kind /\ load'[n].ver = got[n].ver
        BY <1>1, <2>2, PeerReturnsEffect
      <3> QED BY <1>2, <1>7, <3>1 DEF Fresh, Holds
    <2>3. CASE GetterReturns(n)
      <3>1. load'[n].ver = db.ver
        BY <1>1, <1>7, <2>3, GetterReturnsEffect DEF Holds
      <3> QED BY <1>2, <1>3, <3>1
    <2> QED BY <1>1, <1>7, <2>1, <2>2, <2>3 DEF DataFlow, LoadFlow, Holds
  <1>8. ASSUME NEW n \in Node  PROVE Fresh(answer'[n], f)
    BY <1>1, <1>2, <1>5 DEF DataFlow, LoadFlow, Fresh
  <1>9. ASSUME NEW n \in Node  PROVE Fresh(reply'[n], f)
    <2> SUFFICES ASSUME reply'[n] # None, reply'[n].kind # "error"
                 PROVE  reply'[n].ver >= f
      BY DEF Fresh
    <2>1. pc[n] # "idle" /\ n \in Caller
      BY <1>1 DEF DataFlow, ReplyFlow
    <2>2. at[n] \in Node
      BY <1>1, <2>1, AtType
    <2>3. \/ reply'[n] = reply[n]
          \/ reply'[n] = answer[at[n]]
          \/ /\ LoadReturns(at[n])
             /\ reply'[n] = [kind |-> load[at[n]].kind, ver |-> load[at[n]].ver]
      BY <1>1, <2>1 DEF DataFlow, ReplyFlow
    <2>4. CASE reply'[n] = reply[n]
      BY <1>2, <2>4 DEF Fresh
    <2>5. CASE reply'[n] = answer[at[n]]
      BY <1>2, <2>2, <2>5 DEF Fresh
    <2>6. CASE /\ LoadReturns(at[n])
               /\ reply'[n] = [kind |-> load[at[n]].kind, ver |-> load[at[n]].ver]
      <3>1. reply'[n].kind = load[at[n]].kind /\ reply'[n].ver = load[at[n]].ver
        BY <2>6
      <3> QED BY <1>5, <2>2, <2>6, <3>1
    <2> QED BY <2>3, <2>4, <2>5, <2>6
  <1>10. ASSUME NEW n \in Node  PROVE Fresh(got'[n], f)
    <2> SUFFICES ASSUME got'[n] # None, got'[n].kind # "error"
                 PROVE  got'[n].ver >= f
      BY DEF Fresh
    <2>1. CASE got'[n] = got[n]
      BY <1>2, <2>1 DEF Fresh
    <2>2. CASE reply[n] # None /\ got'[n] = reply[n]
      BY <1>2, <2>2 DEF Fresh
    <2>3. CASE /\ at'[n] \in Node /\ Live(cache[at'[n]])
               /\ got'[n].kind = cache[at'[n]].kind /\ got'[n].ver = cache[at'[n]].ver
      <3>1. pc'[n] # "idle" /\ n \in Caller
        BY <1>1 DEF StageInv
      <3>2. load'[n] # None /\ load'[n].phase = "call" /\ at'[n] = load'[n].to
        BY <1>1, <3>1 DEF TypeOK
      <3>3. Home(o)'
        BY <1>1, SettledStep
      <3>4. at'[n] = o
        BY <1>1, <3>2, <3>3 DEF RingInv
      <3> QED BY <1>2, <2>3, <3>4
    <2>4. pc'[n] \notin {"incReply", "incDone"}
      BY <1>1 DEF StageInv
    <2> QED BY <1>1, <2>1, <2>2, <2>3, <2>4 DEF DataFlow, GotFlow
  <1>11. inv'[p].floor = f /\ o \notin inv'[p].todo
    BY DEF f
  <1> QED BY <1>4, <1>6, <1>7, <1>8, <1>9, <1>10, <1>11
       DEF ReloadInvOf, Holds, Fresh, Live, Expired

\* No step brings back what an Invalidate has removed.
LEMMA ReloadStep ==
  ASSUME Control, ReloadInv, Next
  PROVE  ReloadInv'
  <1>1. TypeOK /\ StageInv /\ Control' /\ TypeOK' /\ RingInv' /\ DataFlow /\ UNCHANGED conf
        /\ RingInv
    BY ControlStep, DataStep DEF Control
  <1> SUFFICES ASSUME Uncounted, NEW o \in Node, Home(o)', NEW p \in Client, Undisturbed(p)'
               PROVE  ReloadInvOf(o, p)'
    BY <1>1, Fixed DEF ReloadInv
  <1>2. Home(o)
    BY <1>1, SettledStep
  <1>3. inv'[p] # None /\ inv'[p].calm /\ inv'[p].owner = o /\ o \notin inv'[p].missed
    BY <1>1 DEF Undisturbed, RingInv
  <1>4. CASE \E n \in Node : Invalidate(p, n)
    BY <1>1, <1>2, <1>4, ReloadBegins
  <1>5. CASE /\ inv[p] # None
             /\ inv'[p].owner = inv[p].owner /\ inv'[p].floor = inv[p].floor
             /\ inv'[p].calm => inv[p].calm
             /\ \/ inv'[p].todo = inv[p].todo /\ inv'[p].missed = inv[p].missed
                \/ \E m \in Node : InvalidatePeer(p, m) \/ InvalidateMisses(p, m)
             /\ inv'[p].calm /\ inv[p].owner \in inv[p].todo =>
                  \A n \in Node : flight[n] = "none" => flight'[n] = "none"
    <2>1. inv[p].owner = o
      BY <1>3, <1>5
    <2>2. ASSUME NEW m \in Node, InvalidatePeer(p, m) \/ InvalidateMisses(p, m)
          PROVE  /\ inv'[p].todo = inv[p].todo \ {m}
                 /\ inv'[p].missed = inv[p].missed \/ inv'[p].missed = inv[p].missed \cup {m}
                 /\ m \in inv'[p].missed \/ (InvalidatePeer(p, m) /\ cache'[m] = None)
      <3>1. /\ inv'[p].todo = inv[p].todo \ {m}
            /\ inv'[p].missed \in {inv[p].missed, inv[p].missed \cup {m}}
            /\ ~InvalidatePeer(p, m) => inv'[p].missed = inv[p].missed \cup {m}
        BY <1>1, <2>2, InvalidatePeerEffect
      <3>2. InvalidatePeer(p, m) => cache' = [cache EXCEPT ![m] = None]
        BY DEF InvalidatePeer
      <3> QED BY <1>1, <3>1, <3>2 DEF TypeOK
    <2>3. /\ inv'[p].todo \subseteq inv[p].todo /\ inv[p].missed \subseteq inv'[p].missed
          /\ \A n \in Node : n \notin inv'[p].missed \cup inv'[p].todo /\ Live(cache'[n]) =>
                               n \notin inv[p].missed \cup inv[p].todo
      <3>1. CASE inv'[p].todo = inv[p].todo /\ inv'[p].missed = inv[p].missed
        BY <3>1
      <3>2. CASE \E m \in Node : InvalidatePeer(p, m) \/ InvalidateMisses(p, m)
        <4> PICK m \in Node : InvalidatePeer(p, m) \/ InvalidateMisses(p, m)
          BY <3>2
        <4>1. /\ inv'[p].todo = inv[p].todo \ {m}
              /\ inv'[p].missed = inv[p].missed \/ inv'[p].missed = inv[p].missed \cup {m}
              /\ m \in inv'[p].missed \/ cache'[m] = None
          BY <2>2
        <4> QED BY <4>1 DEF Live
      <3> QED BY <1>5, <3>1, <3>2
    <2>4. ReloadInvOf(o, p)
      BY <1>2, <1>3, <1>5, <2>1, <2>3 DEF ReloadInv, Undisturbed
    <2>5. inv'[p].floor <= db'.ver
      <3>1. inv[p].floor <= db.ver
        BY <2>4 DEF ReloadInvOf
      <3>2. inv[p].floor \in Nat /\ db.ver \in Nat /\ db'.ver \in Nat /\ db'.ver >= db.ver
        <4>1. Ver \subseteq Nat /\ Ver' = Ver
          BY <1>1, ConfType, Fixed DEF TypeOK
        <4>2. inv[p] \in InvRecord
          BY <1>1, <1>5, Types
        <4> QED BY <1>1, <4>1, <4>2 DEF InvRecord, TypeOK, DataFlow
      <3>3. inv'[p].floor = inv[p].floor
        BY <1>5
      <3> QED BY <3>1, <3>2, <3>3
    <2>6. CASE o \in inv[p].todo /\ o \in inv'[p].todo
      <3>1. \A n \in Node : flight'[n] = "none"
        BY <1>3, <1>5, <2>1, <2>4, <2>6 DEF ReloadInvOf
      <3> QED BY <1>3, <1>5, <2>3, <2>4, <2>5, <2>6, <3>1, ReloadPending
    <2>7. CASE o \in inv[p].todo /\ o \notin inv'[p].todo
      <3>1. PICK m \in Node : InvalidatePeer(p, m) \/ InvalidateMisses(p, m)
        BY <1>5, <2>7
      <3>2. m = o /\ InvalidatePeer(p, m)
        BY <1>3, <2>2, <2>7, <3>1
      <3>3. flight' = flight
        BY <3>2 DEF InvalidatePeer, loaderVars
      <3>4. \A n \in Node : flight'[n] = "none"
        BY <2>4, <2>7, <3>3 DEF ReloadInvOf
      <3> QED BY <1>3, <1>5, <2>3, <2>4, <2>5, <2>7, <3>4, ReloadPending
    <2>8. CASE o \notin inv[p].todo
      <3>1. o \notin inv[p].missed
        BY <1>3, <2>3
      <3> QED BY <1>2, <1>3, <1>5, <2>3, <2>4, <2>8, <3>1, ReloadGoesOn
    <2> QED BY <2>6, <2>7, <2>8
  <1>6. InvFlow(p)
    BY InvStep
  <1> QED BY <1>3, <1>4, <1>5, <1>6 DEF InvFlow

-----------------------------------------------------------------------------
(* MonotonicReads. *)

\* Where the history of reads comes from.
ReadFlow ==
  /\ \A n \in Node :
       \/ seen'[n] = seen[n]
       \/ Live(cache[n]) /\ seen'[n] = Later(seen[n], cache[n].ver)
       \/ \E p \in Client : /\ pc[p] = "wait" /\ at[p] = n
                            /\ reply[p] # None /\ Dated(reply[p])
                            /\ seen'[n] = Later(seen[n], reply[p].ver)
  /\ \A p \in Client :
       /\ pc'[p] \in {"missed", "wait"} =>
            \/ pc[p] \in {"missed", "wait"} /\ at'[p] = at[p] /\ mark'[p] = mark[p]
            \/ pc[p] = "idle" /\ at'[p] \in Node /\ mark'[p] = seen[at'[p]]
       /\ pc'[p] = "done" =>
            \/ pc[p] = "done" /\ got'[p] = got[p] /\ mark'[p] = mark[p]
            \/ /\ pc[p] = "wait" /\ reply[p] # None
               /\ got'[p] = reply[p] /\ mark'[p] = mark[p]
            \/ /\ at'[p] \in Node /\ Live(cache[at'[p]])
               /\ got'[p].ver = cache[at'[p]].ver /\ mark'[p] = seen[at'[p]]
            \/ pc[p] = "degrade"

\* Every step obeys these rules.
LEMMA ReadFlowStep ==
  ASSUME Control, Next
  PROVE  ReadFlow
  <1>1. TypeOK /\ StageInv
    BY DEF Control
  <1>2. Client \cap Node = {} /\ Client \subseteq Caller /\ Node \subseteq Caller
    BY ClusterAssumption DEF Caller
  <1>3. ASSUME UNCHANGED <<seen, mark>>,
               \A p \in Client : /\ pc'[p] \in {"missed", "wait", "done"} =>
                                      at'[p] = at[p] /\ got'[p] = got[p]
                                 /\ pc'[p] \in {"missed", "wait"} => pc[p] \in {"missed", "wait"}
                                 /\ pc'[p] = "done" => pc[p] = "done"
        PROVE  ReadFlow
    BY <1>3 DEF ReadFlow
  <1>4. ASSUME UNCHANGED <<seen, mark, pc, at, got>>  PROVE ReadFlow
    BY <1>3, <1>4
  <1> USE <1>1, <1>2 DEF loaderVars, history
  <1>5. ASSUME NEW p \in Caller, NEW n \in Node, GetHit(p, n)  PROVE ReadFlow
    <2>1. Begins(p, n) /\ Live(cache[n])
      BY <1>5 DEF GetHit
    <2>2. /\ got'[p].ver = cache[n].ver
          /\ \A q \in Caller : q # p => got'[q] = got[q]
          /\ seen' = seen \/ seen' = [seen EXCEPT ![n] = Later(seen[n], cache[n].ver)]
      BY <1>5, <2>1, CacheTells DEF GetHit
    <2>3. /\ pc[p] = "idle" /\ at' = [at EXCEPT ![p] = n]
          /\ p \in Node => mark' = mark
          /\ p \in Client => mark' = [mark EXCEPT ![p] = seen[n]]
      BY <2>1, BeginsEffect
    <2>4. pc' = [pc EXCEPT ![p] = "done"]
      BY <1>5 DEF GetHit, Goto
    <2>5. \A m \in Node : \/ seen'[m] = seen[m]
                          \/ Live(cache[m]) /\ seen'[m] = Later(seen[m], cache[m].ver)
      BY <2>1, <2>2 DEF TypeOK
    <2>6. /\ \A q \in Client : q # p => /\ pc'[q] = pc[q] /\ at'[q] = at[q]
                                        /\ mark'[q] = mark[q] /\ got'[q] = got[q]
          /\ p \in Client => pc'[p] = "done" /\ at'[p] = n /\ mark'[p] = seen[n]
      BY <2>2, <2>3, <2>4 DEF TypeOK, Caller
    <2> QED BY <2>1, <2>2, <2>5, <2>6 DEF ReadFlow
  <1>6. ASSUME NEW p \in Caller, NEW n \in Node, GetMiss(p, n)  PROVE ReadFlow
    <2>1. Begins(p, n)
      BY <1>6 DEF GetMiss
    <2>2. /\ pc[p] = "idle" /\ at' = [at EXCEPT ![p] = n]
          /\ p \in Node => mark' = mark
          /\ p \in Client => mark' = [mark EXCEPT ![p] = seen[n]]
      BY <2>1, BeginsEffect
    <2>3. pc' = [pc EXCEPT ![p] = "missed"] /\ UNCHANGED <<seen, got>>
      BY <1>6 DEF GetMiss, Goto
    <2>4. /\ \A q \in Client : q # p => /\ pc'[q] = pc[q] /\ at'[q] = at[q]
                                        /\ mark'[q] = mark[q] /\ got'[q] = got[q]
          /\ p \in Client => pc'[p] = "missed" /\ at'[p] = n /\ mark'[p] = seen[n]
      BY <2>2, <2>3 DEF TypeOK, Caller
    <2> QED BY <2>2, <2>3, <2>4 DEF ReadFlow
  <1>7. ASSUME NEW p \in Caller, LoadJoin(p) \/ LoadStart(p)  PROVE ReadFlow
    <2>1. /\ pc[p] = "missed" /\ pc' = [pc EXCEPT ![p] = "wait"]
          /\ UNCHANGED <<seen, mark, at, got>>
      BY <1>7 DEF LoadJoin, Loader!Join, LoadStart, Loader!Start, Goto
    <2> QED BY <1>3, <2>1 DEF TypeOK
  <1>8. ASSUME NEW p \in Caller, WaitReturns(p)  PROVE ReadFlow
    <2>1. /\ at[p] \in Node /\ pc[p] = "wait" /\ reply[p] # None
          /\ got' = [got EXCEPT ![p] = reply[p]] /\ Told(p, at[p], reply[p])
      BY <1>8, WaitReturnsEffect
    <2>2. pc' = [pc EXCEPT ![p] = "done"] /\ UNCHANGED <<at, mark>>
      BY <1>8 DEF WaitReturns, Goto
    <2>3. \/ seen' = seen
          \/ /\ p \in Client /\ Dated(reply[p])
             /\ seen' = [seen EXCEPT ![at[p]] = Later(seen[at[p]], reply[p].ver)]
      BY <2>1 DEF Told
    <2>4. \A m \in Node :
            \/ seen'[m] = seen[m]
            \/ \E q \in Client : /\ pc[q] = "wait" /\ at[q] = m
                                 /\ reply[q] # None /\ Dated(reply[q])
                                 /\ seen'[m] = Later(seen[m], reply[q].ver)
      BY <2>1, <2>3 DEF TypeOK
    <2>5. \A q \in Client : /\ at'[q] = at[q] /\ mark'[q] = mark[q]
                            /\ q # p => pc'[q] = pc[q] /\ got'[q] = got[q]
                            /\ q = p => pc'[q] = "done" /\ got'[q] = reply[q]
      BY <2>1, <2>2 DEF TypeOK
    <2> QED BY <2>1, <2>4, <2>5 DEF ReadFlow
  <1>9. ASSUME NEW p \in Caller, WaitTimeout(p)  PROVE ReadFlow
    <2>1. pc' = [pc EXCEPT ![p] = "degrade"] /\ UNCHANGED <<seen, mark, at, got>>
      BY <1>9 DEF WaitTimeout, Loader!Abandon, Goto
    <2> QED BY <1>3, <2>1 DEF TypeOK
  <1>10. ASSUME NEW p \in Caller, Degrade(p)  PROVE ReadFlow
    <2>1. at[p] \in Node /\ pc[p] = "degrade"
      BY <1>10, AtType DEF Degrade
    <2>2. /\ \A q \in Caller : q # p => got'[q] = got[q]
          /\ Live(cache[at[p]]) => got'[p].ver = cache[at[p]].ver
          /\ ~Live(cache[at[p]]) => seen' = seen
          /\ seen' = seen \/ seen' = [seen EXCEPT ![at[p]] = Later(seen[at[p]], got'[p].ver)]
      BY <1>10, <2>1, CacheTells DEF Degrade
    <2>3. pc' = [pc EXCEPT ![p] = "done"] /\ UNCHANGED <<at, mark>>
      BY <1>10 DEF Degrade, Goto
    <2>4. \A m \in Node : \/ seen'[m] = seen[m]
                          \/ Live(cache[m]) /\ seen'[m] = Later(seen[m], cache[m].ver)
      BY <2>1, <2>2 DEF TypeOK
    <2>5. \A q \in Client : /\ at'[q] = at[q] /\ mark'[q] = mark[q]
                            /\ q # p => pc'[q] = pc[q] /\ got'[q] = got[q]
                            /\ q = p => pc'[q] = "done" /\ pc[q] = "degrade"
      BY <2>1, <2>2, <2>3 DEF TypeOK
    <2> QED BY <2>4, <2>5 DEF ReadFlow
  <1>11. ASSUME NEW n \in Node, PeerReturns(n) \/ PeerFails(n)  PROVE ReadFlow
    <2>1. /\ pc' = [pc EXCEPT ![n] = "idle"] /\ at' = [at EXCEPT ![n] = None]
          /\ got' = [got EXCEPT ![n] = None] /\ UNCHANGED <<seen, mark>>
      BY <1>11 DEF PeerReturns, PeerFails, Dropped, Goto
    <2> QED BY <1>3, <2>1 DEF TypeOK
  <1>12. ASSUME NEW n \in Node, GetterReturns(n) \/ LoadReturns(n) \/ LoadRetired(n)
         PROVE  ReadFlow
    BY <1>4, <1>12 DEF GetterReturns, LoadReturns, Loader!Finish, LoadRetired, Loader!Retire
  <1>13. ASSUME NEW p \in Client, NEW n \in Node,
                IncrementHere(p, n) \/ IncrementForwarded(p, n) \/ Invalidate(p, n)
         PROVE  ReadFlow
    <2>1. /\ pc'[p] \in {"incDone", "incCall", "invPeers"} /\ seen' = seen
          /\ \A q \in Client : q # p => /\ pc'[q] = pc[q] /\ at'[q] = at[q]
                                        /\ mark'[q] = mark[q] /\ got'[q] = got[q]
      <3>1. CASE IncrementHere(p, n)
        BY <3>1 DEF TypeOK, IncrementHere, Begun, Counted, Goto
      <3>2. CASE IncrementForwarded(p, n)
        BY <3>2 DEF TypeOK, IncrementForwarded, Begun, Goto
      <3>3. CASE Invalidate(p, n)
        BY <3>3 DEF TypeOK, Invalidate, Calls, Goto
      <3> QED BY <1>13, <3>1, <3>2, <3>3
    <2> QED BY <2>1 DEF ReadFlow
  <1>14. ASSUME NEW p \in Client,
                \/ IncrementServed(p) \/ IncrementReturns(p) \/ IncrementFails(p)
                \/ InvalidateReturns(p) \/ Consume(p)
         PROVE  ReadFlow
    <2>1. /\ pc'[p] \in {"incReply", "incDone", "invDone", "idle"} /\ seen' = seen
          /\ \A q \in Client : q # p => /\ pc'[q] = pc[q] /\ at'[q] = at[q]
                                        /\ mark'[q] = mark[q] /\ got'[q] = got[q]
      <3>1. CASE IncrementServed(p)
        BY <3>1 DEF TypeOK, IncrementServed, Counted, Goto
      <3>2. CASE IncrementReturns(p)
        BY <3>2 DEF TypeOK, IncrementReturns, Goto
      <3>3. CASE IncrementFails(p)
        BY <3>3 DEF TypeOK, IncrementFails, Goto
      <3>4. CASE InvalidateReturns(p)
        BY <3>4 DEF TypeOK, InvalidateReturns, Goto
      <3>5. CASE Consume(p)
        BY <3>5 DEF TypeOK, Consume, Loader!Consume, Goto
      <3> QED BY <1>14, <3>1, <3>2, <3>3, <3>4, <3>5
    <2> QED BY <2>1 DEF ReadFlow
  <1>15. ASSUME NEW p \in Client, NEW m \in Node,
                InvalidatePeer(p, m) \/ InvalidateMisses(p, m)
         PROVE  ReadFlow
    BY <1>4, <1>15 DEF InvalidatePeer, InvalidateMisses
  <1>16. ASSUME NEW n \in Node, NEW P \in conf.Peers[n],
                RegisterPeers(n, P) \/ SetPeers(n, P)
         PROVE  ReadFlow
    BY <1>4, <1>16 DEF RegisterPeers, SetPeers
  <1>17. ASSUME NEW n \in Node, Evict(n)  PROVE ReadFlow
    BY <1>4, <1>17 DEF Evict
  <1>18. ASSUME BackendWrite \/ Tick  PROVE ReadFlow
    BY <1>4, <1>18 DEF BackendWrite, Tick
  <1> QED
    BY <1>5, <1>6, <1>7, <1>8, <1>9, <1>10, <1>11, <1>12, <1>13, <1>14, <1>15,
       <1>16, <1>17, <1>18, NextCases

\* Old and OldAt for a version v, after the step.
OldNext(o, v) ==
  /\ v <= db'.ver
  /\ Live(cache'[o]) => v <= cache'[o].ver
  /\ Holds(load'[o]) => Upto(v, load'[o])
  /\ Upto(v, answer'[o])

\* The same for node n, which asks o.
OldAtNext(o, n, v) ==
  /\ OldNext(o, v)
  /\ Live(cache'[n]) => v <= cache'[n].ver
  /\ Holds(load'[n]) => Upto(v, load'[n])
  /\ Upto(v, answer'[n]) /\ Upto(v, reply'[n]) /\ Upto(v, got'[n])

\* The request of a load is at the owner.
LEMMA AtHome ==
  ASSUME Control, Next, NEW o \in Node, Home(o), NEW n \in Node
  PROVE  /\ pc[n] # "idle" => at[n] = o
         /\ pc'[n] # "idle" => at'[n] = o
  <1>1. TypeOK /\ RingInv /\ TypeOK' /\ RingInv'
    BY ControlStep DEF Control
  <1>2. Home(o)'
    BY <1>1, SettledStep
  <1> QED BY <1>1, <1>2 DEF TypeOK, RingInv

\* A load ends: its result is in the cache and answers those who ask next.
LEMMA ReturnsAt ==
  ASSUME Control, Control', NEW n \in Node, LoadReturns(n)
  PROVE  /\ load[n] # None /\ load[n].phase = "store" /\ load'[n] = None /\ db' = db
         /\ answer'[n] # None
         /\ answer'[n].kind = load[n].kind /\ answer'[n].ver = load[n].ver
         /\ Dated(load[n]) => /\ Holds(load[n]) /\ Live(cache'[n])
                              /\ cache'[n].ver = load[n].ver
         /\ ~Dated(load[n]) => cache'[n] = cache[n]
         /\ reply'[n] = None /\ got'[n] = None
  <1>1. TypeOK /\ StageInv /\ TypeOK' /\ StageInv' /\ n \in Caller
    BY DEF Control, Caller
  <1> DEFINE r == [kind |-> load[n].kind, ver |-> load[n].ver]
             e == cache'[n]
  <1>2. /\ load[n] # None /\ load[n].phase = "store" /\ pc[n] = "idle"
        /\ r # None
        /\ load' = [load EXCEPT ![n] = None] /\ answer' = [answer EXCEPT ![n] = r]
        /\ cache' = [cache EXCEPT ![n] = e]
        /\ Dated(load[n]) => Live(e) /\ e.ver = load[n].ver
        /\ ~Dated(load[n]) => e = cache[n]
        /\ UNCHANGED <<db, pc>>
    BY <1>1, LoadReturnsEffect
  <1>3. r.kind = load[n].kind /\ r.ver = load[n].ver
    OBVIOUS
  <1> HIDE DEF r, e
  <1>4. load'[n] = None /\ answer'[n] = r /\ cache'[n] = e /\ pc'[n] = "idle"
    BY <1>1, <1>2 DEF TypeOK
  <1>5. reply'[n] = None /\ got'[n] = None
    BY <1>1, <1>4 DEF StageInv
  <1>6. Dated(load[n]) => Holds(load[n])
    BY <1>2 DEF Dated, Holds
  <1> QED BY <1>2, <1>3, <1>4, <1>5, <1>6

\* What the owner has left behind stays behind.
LEMMA OldStays ==
  ASSUME Control, Next, Uncounted, NEW o \in Node, Home(o), NEW v \in Nat, Old(o, v)
  PROVE  OldNext(o, v)
  <1>1. TypeOK /\ StageInv /\ RingInv /\ Control' /\ TypeOK' /\ DataFlow
    BY ControlStep, DataStep DEF Control
  <1>2. /\ v <= db.ver
        /\ Live(cache[o]) => v <= cache[o].ver
        /\ Holds(load[o]) => Upto(v, load[o])
        /\ Upto(v, answer[o])
    BY DEF Old
  <1>3. v <= db'.ver
    <2>1. db.ver \in Nat /\ db'.ver \in Nat /\ db'.ver >= db.ver
      <3>1. Ver \subseteq Nat /\ Ver' = Ver
        BY <1>1, ConfType, Fixed, NextCases DEF TypeOK
      <3> QED BY <1>1, <3>1 DEF TypeOK, DataFlow
    <2> QED BY <1>2, <2>1
  <1>4. ASSUME LoadReturns(o), Dated(load[o])
        PROVE  v <= load[o].ver /\ cache'[o].ver = load[o].ver /\ answer'[o].ver = load[o].ver
    <2>1. /\ load[o] # None /\ Holds(load[o]) /\ cache'[o].ver = load[o].ver
          /\ answer'[o].ver = load[o].ver
      BY <1>1, <1>4, ReturnsAt
    <2> QED BY <1>2, <1>4, <2>1 DEF Upto
  <1>5. LoadReturns(o) =>
          /\ ~Dated(load[o]) => cache'[o] = cache[o]
          /\ Dated(answer'[o]) => Dated(load[o])
    BY <1>1, ReturnsAt DEF Dated
  <1>6. Live(cache'[o]) => v <= cache'[o].ver
    BY <1>1, <1>2, <1>4, <1>5 DEF DataFlow, CacheFlow
  <1>7. Holds(load'[o]) => Upto(v, load'[o])
    <2> SUFFICES ASSUME Holds(load'[o]) PROVE Upto(v, load'[o])
      OBVIOUS
    <2>1. ~PeerReturns(o)
      <3> SUFFICES ASSUME PeerReturns(o) PROVE FALSE
        OBVIOUS
      <3>1. load[o] # None /\ load[o].phase = "call"
        BY <1>1, PeerReturnsEffect
      <3> QED BY <1>1, <3>1 DEF RingInv
    <2>2. GetterReturns(o) => load'[o].ver = db.ver
      BY <1>1, GetterReturnsEffect DEF Holds
    <2> QED BY <1>1, <1>2, <2>1, <2>2 DEF DataFlow, LoadFlow, Holds, Upto
  <1>8. Upto(v, answer'[o])
    BY <1>1, <1>2, <1>4, <1>5 DEF DataFlow, LoadFlow, Upto
  <1> QED BY <1>3, <1>6, <1>7, <1>8 DEF OldNext

\* What a node has left behind stays behind, for all that the owner may tell it.
LEMMA OldAtStays ==
  ASSUME Control, Next, Uncounted, NEW o \in Node, Home(o), NEW n \in Node,
         NEW v \in Nat, OldAt(o, n, v)
  PROVE  OldAtNext(o, n, v)
  <1>1. TypeOK /\ StageInv /\ Control' /\ TypeOK' /\ StageInv' /\ DataFlow /\ n \in Caller
    BY ControlStep, DataStep DEF Control, Caller
  <1>2. /\ Old(o, v)
        /\ Live(cache[n]) => v <= cache[n].ver
        /\ Holds(load[n]) => Upto(v, load[n])
        /\ Upto(v, answer[n]) /\ Upto(v, reply[n]) /\ Upto(v, got[n])
    BY DEF OldAt
  <1>3. OldNext(o, v)
    BY <1>2, OldStays
  <1>4. /\ v <= db.ver
        /\ Live(cache[o]) => v <= cache[o].ver
        /\ Holds(load[o]) => Upto(v, load[o])
        /\ Upto(v, answer[o])
    BY <1>2 DEF Old
  <1>5. ASSUME NEW m \in {n, o}, LoadReturns(m), Dated(load[m])
        PROVE  v <= load[m].ver /\ cache'[m].ver = load[m].ver /\ answer'[m].ver = load[m].ver
    <2>1. /\ load[m] # None /\ Holds(load[m]) /\ cache'[m].ver = load[m].ver
          /\ answer'[m].ver = load[m].ver
      BY <1>1, <1>5, ReturnsAt
    <2> QED BY <1>2, <1>4, <1>5, <2>1 DEF Upto
  <1>6. LoadReturns(n) =>
          /\ ~Dated(load[n]) => cache'[n] = cache[n]
          /\ Dated(answer'[n]) => Dated(load[n])
    BY <1>1, ReturnsAt DEF Dated
  <1>7. Live(cache'[n]) => v <= cache'[n].ver
    BY <1>1, <1>2, <1>5, <1>6 DEF DataFlow, CacheFlow
  <1>8. Holds(load'[n]) => Upto(v, load'[n])
    <2> SUFFICES ASSUME Holds(load'[n]) PROVE Upto(v, load'[n])
      OBVIOUS
    <2>1. PeerReturns(n) => /\ got[n] # None
                            /\ load'[n].kind = got[n].kind /\ load'[n].ver = got[n].ver
      BY <1>1, PeerReturnsEffect
    <2>2. GetterReturns(n) => load'[n].ver = db.ver
      BY <1>1, GetterReturnsEffect DEF Holds
    <2>3. \/ load'[n] = load[n] \/ PeerReturns(n) \/ GetterReturns(n)
      BY <1>1 DEF DataFlow, LoadFlow, Holds
    <2> QED BY <1>2, <1>4, <2>1, <2>2, <2>3 DEF Holds, Upto, Dated
  <1>9. Upto(v, answer'[n])
    BY <1>1, <1>2, <1>5, <1>6 DEF DataFlow, LoadFlow, Upto
  <1>10. Upto(v, reply'[n])
    <2> SUFFICES ASSUME reply'[n] # None, Dated(reply'[n])  PROVE v <= reply'[n].ver
      BY DEF Upto
    <2>1. at[n] = o
      BY <1>1, AtHome DEF DataFlow, ReplyFlow
    <2>2. \/ reply'[n] = reply[n]
          \/ reply'[n] = answer[o]
          \/ LoadReturns(o) /\ reply'[n] = [kind |-> load[o].kind, ver |-> load[o].ver]
      BY <1>1, <2>1 DEF DataFlow, ReplyFlow
    <2>3. CASE LoadReturns(o) /\ reply'[n] = [kind |-> load[o].kind, ver |-> load[o].ver]
      <3>1. reply'[n].kind = load[o].kind /\ reply'[n].ver = load[o].ver
        BY <2>3
      <3>2. Dated(load[o])
        BY <3>1 DEF Dated
      <3> QED BY <1>5, <2>3, <3>1, <3>2
    <2> QED BY <1>2, <1>4, <2>2, <2>3 DEF Upto
  <1>11. Upto(v, got'[n])
    <2> SUFFICES ASSUME got'[n] # None, Dated(got'[n])  PROVE v <= got'[n].ver
      BY DEF Upto
    <2>1. pc'[n] \notin {"idle", "incReply", "incDone"}
      BY <1>1 DEF StageInv
    <2>2. at'[n] = o
      BY <2>1, AtHome
    <2>3. got'[n].kind # "error"
      BY DEF Dated
    <2>4. \/ got'[n] = got[n]
          \/ reply[n] # None /\ got'[n] = reply[n]
          \/ Live(cache[o]) /\ got'[n].ver = cache[o].ver
      BY <1>1, <2>1, <2>2, <2>3 DEF DataFlow, GotFlow
    <2> QED BY <1>2, <1>4, <2>4 DEF Upto
  <1> QED BY <1>3, <1>7, <1>8, <1>9, <1>10, <1>11 DEF OldAtNext

\* What a load stores is as new as all that its node has told.
LEMMA StoredIsOld ==
  ASSUME Control, Next, Uncounted, NEW o \in Node, Home(o), ReadInvAt(o),
         NEW n \in Node, LoadReturns(n), Dated(load[n])
  PROVE  OldAtNext(o, n, load[n].ver)
  <1>1. TypeOK /\ Control'
    BY ControlStep DEF Control
  <1>2. /\ load[n] # None /\ load'[n] = None /\ db' = db
        /\ answer'[n].ver = load[n].ver /\ cache'[n].ver = load[n].ver
        /\ Holds(load[n]) /\ reply'[n] = None /\ got'[n] = None
    BY <1>1, ReturnsAt
  <1>3. load[n].ver <= db.ver /\ (n # o => Old(o, load[n].ver))
    BY <1>2 DEF ReadInvAt
  <1>4. load[n].ver \in Nat
    BY <1>1, <1>2, Fields, ConfType
  <1>5. load[n].ver <= load[n].ver
    BY <1>4
  <1>6. OldNext(o, load[n].ver)
    <2>1. CASE n # o
      BY <1>3, <1>4, <2>1, OldStays
    <2>2. CASE n = o
      BY <1>2, <1>3, <1>5, <2>2 DEF OldNext, Holds, Upto
    <2> QED BY <2>1, <2>2
  <1> QED BY <1>2, <1>5, <1>6 DEF OldAtNext, Holds, Upto

\* Reads do not go back in a step.
LEMMA ReadStep ==
  ASSUME Control, FetchInv, ReadInv, Next
  PROVE  ReadInv'
  <1>1. TypeOK /\ StageInv /\ RingInv /\ Control' /\ TypeOK' /\ StageInv'
        /\ DataFlow /\ ReadFlow /\ UNCHANGED conf
    BY ControlStep, DataStep, ReadFlowStep DEF Control
  <1>2. Uncounted' = Uncounted /\ NegTTL' = NegTTL /\ Ver' = Ver /\ Ver \subseteq Nat
    BY <1>1, Fixed, ConfType DEF TypeOK
  <1> SUFFICES ASSUME Smooth', Uncounted, NEW o \in Node, Home(o)'  PROVE ReadInvAt(o)'
    BY <1>2 DEF ReadInv
  <1>3. Smooth /\ Home(o)
    BY <1>1, SettledStep
  <1>4. ReadInvAt(o)
    BY <1>3 DEF ReadInv
  <1>5. Node \subseteq Caller /\ Client \subseteq Caller /\ Client \cap Node = {}
    BY ClusterAssumption DEF Caller
  <1>6. ASSUME NEW n \in Node
        PROVE  /\ OldAt(o, n, seen[n])
               /\ Live(cache[n]) => OldAt(o, n, cache[n].ver)
               /\ answer[n] # None /\ Dated(answer[n]) => OldAt(o, n, answer[n].ver)
               /\ Holds(load[n]) /\ Dated(load[n]) =>
                    load[n].ver <= db.ver /\ (n # o => Old(o, load[n].ver))
               /\ reply[n] # None /\ Dated(reply[n]) => Old(o, reply[n].ver)
               /\ got[n] # None /\ Dated(got[n]) => Old(o, got[n].ver)
    BY <1>4 DEF ReadInvAt
  <1>7. ASSUME NEW n \in Node
        PROVE  /\ seen[n] \in Nat /\ seen'[n] \in Nat
               /\ Live(cache[n]) => cache[n].ver \in Nat
               /\ answer[n] # None => answer[n].ver \in Nat
               /\ load[n] # None => load[n].ver \in Nat
    <2>1. seen[n] \in Nat /\ seen'[n] \in Nat
      BY <1>1, <1>2 DEF TypeOK
    <2>2. /\ Live(cache[n]) => cache[n].ver \in Nat
          /\ load[n] # None => load[n].ver \in Nat
      BY <1>1, <1>2, Fields DEF Live
    <2>3. answer[n] # None => answer[n].ver \in Nat
      BY <1>1, <1>2 DEF StageInv
    <2> QED BY <2>1, <2>2, <2>3
  <1>8. \A p \in Caller : /\ reply[p] # None => reply[p].ver \in Nat
                          /\ got[p] # None => got[p].ver \in Nat
    BY <1>1, <1>2 DEF StageInv
  <1>9. db.ver \in Nat /\ db'.ver \in Nat /\ db'.ver >= db.ver /\ mark \in [Client -> Nat]
    BY <1>1, <1>2 DEF TypeOK, DataFlow
  <1>10. ASSUME NEW n \in Node
         PROVE  OldAtNext(o, n, seen'[n]) /\ seen[n] <= seen'[n]
    <2>1. OldAtNext(o, n, seen[n])
      BY <1>3, <1>6, <1>7, OldAtStays
    <2>2. CASE seen'[n] = seen[n]
      <3>1. seen[n] <= seen'[n]
        BY <1>7, <2>2
      <3> QED BY <2>1, <2>2, <3>1
    <2>3. ASSUME NEW v \in Nat, OldAt(o, n, v), seen'[n] = Later(seen[n], v)
          PROVE  OldAtNext(o, n, seen'[n]) /\ seen[n] <= seen'[n]
      <3>1. OldAtNext(o, n, v)
        BY <1>3, <2>3, OldAtStays
      <3>2. seen'[n] \in {seen[n], v}
        BY <2>3 DEF Later
      <3>3. seen[n] <= seen'[n]
        BY <1>7, <2>3 DEF Later
      <3> QED BY <2>1, <3>1, <3>2, <3>3
    <2>4. CASE Live(cache[n]) /\ seen'[n] = Later(seen[n], cache[n].ver)
      BY <1>6, <1>7, <2>3, <2>4
    <2>5. CASE \E p \in Client : /\ pc[p] = "wait" /\ at[p] = n
                                 /\ reply[p] # None /\ Dated(reply[p])
                                 /\ seen'[n] = Later(seen[n], reply[p].ver)
      <3>1. PICK p \in Client : /\ pc[p] = "wait" /\ at[p] = n
                                /\ reply[p] # None /\ Dated(reply[p])
                                /\ seen'[n] = Later(seen[n], reply[p].ver)
        BY <2>5
      <3>2. OldAt(o, n, reply[p].ver)
        BY <1>4, <3>1 DEF ReadInvAt
      <3>3. reply[p].ver \in Nat
        BY <1>5, <1>8, <3>1
      <3> QED BY <2>3, <3>1, <3>2, <3>3
    <2> QED BY <1>1, <2>2, <2>4, <2>5 DEF ReadFlow
  <1>11. ASSUME NEW n \in Node, LoadReturns(n), Dated(load[n])
         PROVE  OldAtNext(o, n, load[n].ver)
    BY <1>3, <1>4, <1>11, StoredIsOld
  <1>12. ASSUME NEW n \in Node, Live(cache'[n])  PROVE OldAtNext(o, n, cache'[n].ver)
    <2>1. ASSUME Live(cache[n])  PROVE OldAtNext(o, n, cache[n].ver)
      BY <1>3, <1>6, <1>7, <2>1, OldAtStays
    <2>2. CASE Live(cache[n]) /\ cache'[n].ver = cache[n].ver
      BY <2>1, <2>2
    <2>3. CASE LoadReturns(n)
      <3>1. /\ Dated(load[n]) => cache'[n].ver = load[n].ver
            /\ ~Dated(load[n]) => cache'[n] = cache[n]
        BY <1>1, <2>3, ReturnsAt
      <3>2. CASE Dated(load[n])
        BY <1>11, <2>3, <3>1, <3>2
      <3>3. CASE ~Dated(load[n])
        BY <1>12, <2>1, <3>1, <3>3
      <3> QED BY <3>2, <3>3
    <2> QED BY <1>1, <1>12, <2>2, <2>3 DEF DataFlow, CacheFlow
  <1>13. ASSUME NEW n \in Node, answer'[n] # None, Dated(answer'[n])
         PROVE  OldAtNext(o, n, answer'[n].ver)
    <2>1. CASE answer'[n] = answer[n]
      BY <1>3, <1>6, <1>7, <1>13, <2>1, OldAtStays
    <2>2. CASE LoadReturns(n)
      <3>1. answer'[n].kind = load[n].kind /\ answer'[n].ver = load[n].ver
        BY <1>1, <2>2, ReturnsAt
      <3>2. Dated(load[n])
        BY <1>13, <3>1 DEF Dated
      <3> QED BY <1>11, <2>2, <3>1, <3>2
    <2> QED BY <1>1, <1>13, <2>1, <2>2 DEF DataFlow, LoadFlow
  <1>14. ASSUME NEW n \in Node, Holds(load'[n]), Dated(load'[n])
         PROVE  load'[n].ver <= db'.ver /\ (n # o => OldNext(o, load'[n].ver))
    <2>1. CASE load'[n] = load[n]
      <3>1. /\ load[n].ver <= db.ver /\ (n # o => Old(o, load[n].ver))
            /\ load[n].ver \in Nat
        BY <1>6, <1>7, <1>14, <2>1 DEF Holds
      <3>2. n # o => OldNext(o, load[n].ver)
        BY <1>3, <3>1, OldStays
      <3>3. load[n].ver <= db'.ver
        BY <1>9, <3>1
      <3> QED BY <2>1, <3>2, <3>3
    <2>2. CASE PeerReturns(n)
      <3>1. got[n] # None /\ load'[n].kind = got[n].kind /\ load'[n].ver = got[n].ver
        BY <1>1, <2>2, PeerReturnsEffect
      <3>2. Dated(got[n]) /\ got[n].ver \in Nat
        BY <1>5, <1>8, <1>14, <3>1 DEF Dated
      <3>3. OldNext(o, got[n].ver)
        BY <1>3, <1>6, <3>1, <3>2, OldStays
      <3> QED BY <3>1, <3>3 DEF OldNext
    <2>3. CASE GetterReturns(n)
      <3>1. load'[n].ver = db.ver /\ load[n] # None /\ load[n].phase = "read"
        BY <1>1, <1>14, <2>3, GetterReturnsEffect DEF Holds
      <3>2. n = o
        BY <1>3, <3>1 DEF FetchInv, OwnerFetches, Home
      <3> QED BY <1>9, <3>1, <3>2
    <2> QED BY <1>1, <1>14, <2>1, <2>2, <2>3 DEF DataFlow, LoadFlow, Holds
  <1>15. ASSUME NEW n \in Node, reply'[n] # None, Dated(reply'[n])
         PROVE  OldNext(o, reply'[n].ver)
    <2>1. at[n] = o
      BY <1>1, <1>3, <1>5, <1>15, AtHome DEF DataFlow, ReplyFlow
    <2>2. \/ reply'[n] = reply[n]
          \/ reply'[n] = answer[o]
          \/ LoadReturns(o) /\ reply'[n] = [kind |-> load[o].kind, ver |-> load[o].ver]
      BY <1>1, <1>5, <1>15, <2>1 DEF DataFlow, ReplyFlow
    <2>3. CASE reply'[n] = reply[n]
      BY <1>3, <1>5, <1>6, <1>8, <1>15, <2>3, OldStays
    <2>4. CASE reply'[n] = answer[o]
      <3>1. OldAt(o, o, answer[o].ver) /\ answer[o].ver \in Nat
        BY <1>6, <1>7, <1>15, <2>4
      <3>2. Old(o, answer[o].ver)
        BY <3>1 DEF OldAt
      <3> QED BY <1>3, <2>4, <3>1, <3>2, OldStays
    <2>5. CASE LoadReturns(o) /\ reply'[n] = [kind |-> load[o].kind, ver |-> load[o].ver]
      <3>1. reply'[n].kind = load[o].kind /\ reply'[n].ver = load[o].ver
        BY <2>5
      <3>2. Dated(load[o])
        BY <1>15, <3>1 DEF Dated
      <3>3. OldAtNext(o, o, load[o].ver)
        BY <1>11, <2>5, <3>2
      <3> QED BY <3>1, <3>3 DEF OldAtNext
    <2> QED BY <2>2, <2>3, <2>4, <2>5
  <1>16. ASSUME NEW n \in Node, got'[n] # None, Dated(got'[n])
         PROVE  OldNext(o, got'[n].ver)
    <2>1. pc'[n] \notin {"idle", "incReply", "incDone"}
      BY <1>1, <1>5, <1>16 DEF StageInv
    <2>2. at'[n] = o
      BY <1>3, <2>1, AtHome
    <2>3. got'[n].kind # "error"
      BY <1>16 DEF Dated
    <2>4. \/ got'[n] = got[n]
          \/ reply[n] # None /\ got'[n] = reply[n]
          \/ Live(cache[o]) /\ got'[n].ver = cache[o].ver
      BY <1>1, <1>5, <1>16, <2>1, <2>2, <2>3 DEF DataFlow, GotFlow
    <2>5. CASE got'[n] = got[n]
      BY <1>3, <1>5, <1>6, <1>8, <1>16, <2>5, OldStays
    <2>6. CASE reply[n] # None /\ got'[n] = reply[n]
      BY <1>3, <1>5, <1>6, <1>8, <1>16, <2>6, OldStays
    <2>7. CASE Live(cache[o]) /\ got'[n].ver = cache[o].ver
      <3>1. OldAt(o, o, cache[o].ver) /\ cache[o].ver \in Nat
        BY <1>6, <1>7, <2>7
      <3>2. Old(o, cache[o].ver)
        BY <3>1 DEF OldAt
      <3> QED BY <1>3, <2>7, <3>1, <3>2, OldStays
    <2> QED BY <2>4, <2>5, <2>6, <2>7
  <1>17. ASSUME NEW p \in Client, pc'[p] \in {"missed", "wait"}
         PROVE  mark'[p] <= seen'[at'[p]]
    <2>1. CASE pc[p] \in {"missed", "wait"} /\ at'[p] = at[p] /\ mark'[p] = mark[p]
      <3>1. at[p] \in Node
        BY <1>1, <1>5, <2>1, AtType
      <3>2. mark[p] <= seen[at[p]]
        BY <1>4, <2>1 DEF ReadInvAt
      <3>3. seen[at[p]] <= seen'[at[p]] /\ seen[at[p]] \in Nat /\ seen'[at[p]] \in Nat
        BY <1>7, <1>10, <3>1
      <3>4. mark[p] \in Nat
        BY <1>9
      <3>5. mark[p] <= seen'[at[p]]
        BY <3>2, <3>3, <3>4
      <3> QED BY <2>1, <3>5
    <2>2. CASE at'[p] \in Node /\ mark'[p] = seen[at'[p]]
      BY <1>10, <2>2
    <2> QED BY <1>1, <1>17, <2>1, <2>2 DEF ReadFlow
  <1>18. ASSUME NEW p \in Client, reply'[p] # None, Dated(reply'[p])
         PROVE  OldAtNext(o, at'[p], reply'[p].ver) /\ mark'[p] <= reply'[p].ver
    <2>1. /\ at'[p] = at[p] /\ pc[p] \in {"missed", "wait"} /\ pc'[p] = "wait"
          /\ \/ reply'[p] = reply[p]
             \/ reply'[p] = answer[at[p]]
             \/ /\ LoadReturns(at[p])
                /\ reply'[p] = [kind |-> load[at[p]].kind, ver |-> load[at[p]].ver]
      BY <1>1, <1>5, <1>18 DEF DataFlow, ReplyFlow
    <2>2. mark'[p] = mark[p] /\ mark[p] \in Nat
      BY <1>1, <1>9, <2>1 DEF ReadFlow
    <2>3. at[p] \in Node
      BY <1>1, <1>5, <2>1, AtType
    <2>4. mark[p] <= seen[at[p]] /\ seen[at[p]] \in Nat
      BY <1>4, <1>7, <2>1, <2>3 DEF ReadInvAt
    <2>5. OldAt(o, at[p], seen[at[p]])
      BY <1>6, <2>3
    <2>6. CASE reply'[p] = reply[p]
      <3>1. OldAt(o, at[p], reply[p].ver) /\ mark[p] <= reply[p].ver
        BY <1>4, <1>18, <2>6 DEF ReadInvAt
      <3>2. reply[p].ver \in Nat
        BY <1>5, <1>8, <1>18, <2>6
      <3>3. OldAtNext(o, at[p], reply[p].ver)
        BY <1>3, <2>3, <3>1, <3>2, OldAtStays
      <3> QED BY <2>1, <2>2, <2>6, <3>1, <3>3
    <2>7. CASE reply'[p] = answer[at[p]]
      <3>1. OldAt(o, at[p], answer[at[p]].ver) /\ answer[at[p]].ver \in Nat
        BY <1>6, <1>7, <1>18, <2>3, <2>7
      <3>2. OldAtNext(o, at[p], answer[at[p]].ver)
        BY <1>3, <2>3, <3>1, OldAtStays
      <3>3. seen[at[p]] <= answer[at[p]].ver
        BY <1>18, <2>5, <2>7 DEF OldAt, Upto
      <3>4. mark[p] <= answer[at[p]].ver
        BY <2>2, <2>4, <3>1, <3>3
      <3> QED BY <2>1, <2>2, <2>7, <3>2, <3>4
    <2>8. CASE /\ LoadReturns(at[p])
               /\ reply'[p] = [kind |-> load[at[p]].kind, ver |-> load[at[p]].ver]
      <3>1. reply'[p].kind = load[at[p]].kind /\ reply'[p].ver = load[at[p]].ver
        BY <2>8
      <3>2. Dated(load[at[p]])
        BY <1>18, <3>1 DEF Dated
      <3>3. OldAtNext(o, at[p], load[at[p]].ver)
        BY <1>11, <2>3, <2>8, <3>2
      <3>4. load[at[p]] # None /\ Holds(load[at[p]]) /\ load[at[p]].ver \in Nat
        BY <1>1, <1>7, <2>3, <2>8, <3>2, ReturnsAt
      <3>5. seen[at[p]] <= load[at[p]].ver
        BY <2>5, <3>2, <3>4 DEF OldAt, Upto
      <3>6. mark[p] <= load[at[p]].ver
        BY <2>2, <2>4, <3>4, <3>5
      <3> QED BY <2>1, <2>2, <3>1, <3>3, <3>6
    <2> QED BY <2>1, <2>6, <2>7, <2>8
  <1>19. ASSUME NEW p \in Client, pc'[p] = "done", Dated(got'[p])
         PROVE  got'[p].ver >= mark'[p]
    <2>1. CASE pc[p] = "done" /\ got'[p] = got[p] /\ mark'[p] = mark[p]
      BY <1>4, <1>19, <2>1 DEF ReadInvAt
    <2>2. CASE pc[p] = "wait" /\ reply[p] # None /\ got'[p] = reply[p] /\ mark'[p] = mark[p]
      <3>1. mark[p] <= reply[p].ver
        BY <1>4, <1>19, <2>2 DEF ReadInvAt
      <3>2. mark[p] \in Nat /\ reply[p].ver \in Nat
        BY <1>5, <1>8, <1>9, <2>2
      <3>3. reply[p].ver >= mark[p]
        BY <3>1, <3>2
      <3> QED BY <2>2, <3>3
    <2>3. CASE /\ at'[p] \in Node /\ Live(cache[at'[p]])
               /\ got'[p].ver = cache[at'[p]].ver /\ mark'[p] = seen[at'[p]]
      <3>1. OldAt(o, at'[p], seen[at'[p]])
        BY <1>6, <2>3
      <3>2. seen[at'[p]] <= cache[at'[p]].ver
        BY <2>3, <3>1 DEF OldAt
      <3>3. seen[at'[p]] \in Nat /\ cache[at'[p]].ver \in Nat
        BY <1>7, <2>3
      <3>4. cache[at'[p]].ver >= seen[at'[p]]
        BY <3>2, <3>3
      <3> QED BY <2>3, <3>4
    <2>4. pc[p] # "degrade"
      BY <1>3, <1>5 DEF FetchInv
    <2> QED BY <1>1, <1>19, <2>1, <2>2, <2>3, <2>4 DEF ReadFlow
  <1> QED
    <2> USE <1>2 DEF OldNext, OldAtNext, Old, OldAt, Upto, Holds, Live, Expired, Dated
    <2>1. \A n \in Node :
            /\ OldAt(o, n, seen[n])'
            /\ (Live(cache[n]) => OldAt(o, n, cache[n].ver))'
            /\ (answer[n] # None /\ Dated(answer[n]) => OldAt(o, n, answer[n].ver))'
      BY <1>10, <1>12, <1>13
    <2>2. \A n \in Node :
            /\ (Holds(load[n]) /\ Dated(load[n]) =>
                  load[n].ver <= db.ver /\ (n # o => Old(o, load[n].ver)))'
            /\ (reply[n] # None /\ Dated(reply[n]) => Old(o, reply[n].ver))'
            /\ (got[n] # None /\ Dated(got[n]) => Old(o, got[n].ver))'
      BY <1>14, <1>15, <1>16
    <2>3. \A p \in Client :
            /\ (pc[p] \in {"missed", "wait"} => mark[p] <= seen[at[p]])'
            /\ (reply[p] # None /\ Dated(reply[p]) =>
                  OldAt(o, at[p], reply[p].ver) /\ mark[p] <= reply[p].ver)'
            /\ (pc[p] = "done" /\ Dated(got[p]) => got[p].ver >= mark[p])'
      BY <1>17, <1>18, <1>19
    <2> QED BY <2>1, <2>2, <2>3 DEF ReadInvAt

-----------------------------------------------------------------------------
(* The theorems. *)

\* Nothing is stored and nobody is under way at the start.
LEMMA InitIInv ==
  ASSUME Init
  PROVE  IInv
  <1>1. conf \in Scenario
    BY DEF Init
  <1>2. /\ TTL \in Nat /\ NegTTL \in Nat /\ conf.MaxVer \in Nat \ {0}
        /\ conf.Pools \subseteq [Node -> (SUBSET Node) \cup {None}]
        /\ conf.Kinds \subseteq {"number", "absent"} /\ MaxAge \in Nat
        /\ Ver = 0 .. conf.MaxVer /\ Longest \in Nat
    BY <1>1, ConfType
  <1>3. 0 \in Ver /\ 1 \in Ver /\ 0 \in 0 .. MaxAge + 1
    BY <1>2
  <1>4. /\ db.kind \in {"number", "absent"} /\ db.ver = 1
        /\ db \in [kind : {"number", "absent"}, ver : Ver]
    BY <1>2, <1>3 DEF Init
  <1>5. /\ cache = [n \in Node |-> None] /\ load = [n \in Node |-> None]
        /\ pc = [p \in Caller |-> "idle"] /\ at = [p \in Caller |-> None]
        /\ flight = [n \in Node |-> "none"] /\ answer = [n \in Node |-> None]
        /\ want = [p \in Caller |-> None] /\ reply = [p \in Caller |-> None]
        /\ got = [p \in Caller |-> None] /\ inv = [p \in Client |-> None]
        /\ seen = [n \in Node |-> 0] /\ mark = [p \in Client |-> 0] /\ granted = 0
        /\ lapse = [v \in Ver \ {0} |-> 0]
        /\ pool \in [Node -> (SUBSET Node) \cup {None}]
    BY <1>2 DEF Init, Loader!Init
  <1>6. Node \subseteq Caller /\ Client \subseteq Caller
    BY DEF Caller
  <1>7. TypeOK
    BY <1>1, <1>3, <1>4, <1>5, <1>6 DEF TypeOK
  <1>8. StageInv
    BY <1>4, <1>5, <1>6 DEF StageInv
  <1>9. RingInv
    BY <1>5, <1>6 DEF RingInv
  <1>10. FetchInv
    BY <1>5, <1>6 DEF FetchInv, OwnerFetches, NoError
  <1>11. ReadInv
    BY <1>4, <1>5, <1>6 DEF ReadInv, ReadInvAt, OldAt, Old, Upto, Live, Holds
  <1>12. TimeInv
    BY <1>5, <1>6 DEF TimeInv, Live, Holds, InTime
  <1>13. CountInv
    <2>1. \A n \in Node : Number(n) = 0
      BY <1>5 DEF Number, Live
    <2> QED BY <1>5, <1>6, <2>1 DEF CountInv
  <1>14. ReloadInv
    BY <1>5 DEF ReloadInv, Undisturbed
  <1> QED BY <1>7, <1>8, <1>9, <1>10, <1>11, <1>12, <1>13, <1>14 DEF IInv, Control

\* Every step keeps the invariant.
LEMMA NextIInv ==
  ASSUME IInv, [Next]_vars
  PROVE  IInv'
  <1>1. CASE Next
    BY <1>1, ControlStep, FetchStep, ReadStep, TimeStep, CountStep, ReloadStep DEF IInv
  <1>2. CASE UNCHANGED vars
    <2> USE <1>2 DEF vars, state
    <2>a. /\ Settled' <=> Settled
          /\ Smooth' <=> Smooth
          /\ \A n \in Node : OwnerFor(n)' = OwnerFor(n)
          /\ Uncounted' = Uncounted /\ OnlyIncrements' = OnlyIncrements
          /\ Ver' = Ver /\ NegTTL' = NegTTL
      BY Fixed DEF Settled, Smooth, OneRing, OwnerFor, PickPeer
    <2>b. ASSUME NEW o  PROVE Home(o)' <=> Home(o)
      BY <2>a DEF Home
    <2>c. TypeOK /\ StageInv /\ RingInv /\ FetchInv /\ ReadInv /\ CountInv /\ ReloadInv
      BY DEF IInv, Control
    <2>1. Control'
      <3>1. TypeOK'
        BY <2>c, TypeFolded, Types DEF TypeOK
      <3>2. StageInv'
        BY <2>a, <2>c DEF StageInv
      <3>3. RingInv'
        BY <2>b, <2>c DEF RingInv
      <3> QED BY <3>1, <3>2, <3>3 DEF Control
    <2>2. FetchInv' /\ ReadInv'
      <3>1. FetchInv'
        BY <2>a, <2>c DEF FetchInv, OwnerFetches, NoError
      <3>2. ASSUME NEW o \in Node, ReadInvAt(o)  PROVE ReadInvAt(o)'
        BY <2>a, <3>2 DEF ReadInvAt, OldAt, Old, Upto, Dated, Live, Holds, Expired
      <3>3. ReadInv'
        BY <2>a, <2>b, <2>c, <3>2 DEF ReadInv
      <3> QED BY <3>1, <3>3
    <2>3. TimeInv'
      BY DEF IInv, TimeInv, Live, Holds, InTime, Age, Asks, Longest, Uncounted, OneRing,
             PickPeer, Ver, Forever, MaxTTL, TTL, Jitter, NegTTL
    <2>4. CountInv' /\ ReloadInv'
      <3>1. \A n \in Node : Number(n)' = Number(n)
        BY DEF Number, Live, Expired
      <3>2. CountInv'
        BY <2>a, <2>b, <2>c, <3>1 DEF CountInv, Live, Expired
      <3>3. ASSUME NEW o \in Node, NEW p \in Client, ReloadInvOf(o, p)
            PROVE  ReloadInvOf(o, p)'
        BY <3>3 DEF ReloadInvOf, Fresh, Holds, Live, Expired
      <3>4. ReloadInv'
        BY <2>a, <2>b, <2>c, <3>3 DEF ReloadInv, Undisturbed
      <3> QED BY <3>2, <3>4
    <2> QED BY <2>1, <2>2, <2>3, <2>4 DEF IInv
  <1> QED BY <1>1, <1>2

\* The invariant holds throughout.
LEMMA Invariance ==
  Spec => []IInv
  <1>1. Init => IInv
    BY InitIInv
  <1>2. IInv /\ [Next]_vars => IInv'
    BY NextIInv
  <1> QED BY <1>1, <1>2, PTL DEF Spec

\* The variables have their types, whatever nodes, clients and scenarios there
\* are: no error is ever cached, and a node has a request at a peer only while
\* its load calls that peer.
THEOREM TypeCorrect == Spec => []TypeOK
  <1>1. IInv => TypeOK
    BY DEF IInv, Control
  <1> QED BY <1>1, Invariance, PTL

\* In a smooth cluster only the owner of the key reads the backend, however many
\* nodes there are and however their loads overlap.
THEOREM OnlyOwnerFetches == Spec => []OwnerFetches
  <1>1. IInv => OwnerFetches
    BY DEF IInv, FetchInv, OwnerFetches
  <1> QED BY <1>1, Invariance, PTL

\* In a smooth cluster no Get is told an older version than a Get at the same
\* node that had returned before it began.
THEOREM ReadsDoNotGoBack == Spec => []MonotonicReads
  <1>1. ASSUME IInv  PROVE MonotonicReads
    <2> SUFFICES ASSUME Smooth, Uncounted, NEW p \in Client, pc[p] = "done", Dated(got[p])
                 PROVE  got[p].ver >= mark[p]
      BY DEF MonotonicReads
    <2>1. TypeOK /\ StageInv /\ ReadInv /\ Settled /\ p \in Caller
      BY <1>1 DEF IInv, Control, Smooth, Caller
    <2>2. at[p] \in Node
      BY <2>1, AtType
    <2>3. PICK o \in Node : Home(o)
      BY <2>1, <2>2, HomeExists
    <2> QED BY <2>1, <2>3 DEF ReadInv, ReadInvAt
  <1> QED BY <1>1, Invariance, PTL

\* What a node with one ring serves was true of the backend at most twice the
\* longest ttl ago, apart from the time that it was under way between nodes: a
\* copy of a copy is the worst there is.
THEOREM CopiesAreInTime == Spec => []CopiesInTime
  <1>1. ASSUME IInv  PROVE CopiesInTime
    <2> SUFFICES ASSUME OneRing, Uncounted, TTL > 0, NEW n \in Node, Live(cache[n])
                 PROVE  lapse[cache[n].ver] <= MaxAge
      BY DEF CopiesInTime
    <2>1. TypeOK /\ StageInv /\ TimeInv /\ conf \in Scenario
      BY <1>1 DEF IInv, Control, TypeOK
    <2> DEFINE a == lapse[cache[n].ver]
               r == cache[n].rem
    <2>2. a + r <= Age(n) + Longest
      BY <2>1 DEF TimeInv
    <2>3. /\ cache[n].ver \in Ver /\ cache[n].ver >= 1
          /\ r \in Expired .. Forever /\ r # Expired
      BY <2>1, Fields DEF Live, StageInv
    <2>4. Longest \in Nat /\ Forever = Longest + 1 /\ MaxAge = Longest + Longest
          /\ Ver \subseteq Nat /\ \A v \in Ver \ {0} : lapse[v] \in Nat
      BY <2>1, ConfType, Types
    <2>5. r \in Nat
      BY <2>3, <2>4 DEF Expired
    <2>6. cache[n].ver \in Ver \ {0}
      BY <2>3, <2>4
    <2>7. a \in Nat
      BY <2>4, <2>6
    <2>8. Age(n) \in Nat /\ Age(n) <= Longest
      BY <2>4 DEF Age
    <2> HIDE DEF a, r
    <2>9. a <= MaxAge
      BY <2>2, <2>4, <2>5, <2>7, <2>8
    <2> QED BY <2>9 DEF a
  <1> QED BY <1>1, Invariance, PTL

\* An Increment through any node returns more than every Increment that had
\* returned before it began, also if calls and answers are lost.
THEOREM NumbersGrow == Spec => []CounterGrows
  <1>1. ASSUME IInv  PROVE CounterGrows
    <2> SUFFICES ASSUME Settled, OnlyIncrements, NEW p \in Client, pc[p] = "incDone",
                        got[p].kind = "number"
                 PROVE  got[p].ver > mark[p]
      BY DEF CounterGrows, OnlyIncrements
    <2>1. TypeOK /\ StageInv /\ CountInv /\ p \in Caller /\ conf \in Scenario
      BY <1>1 DEF IInv, Control, Caller, TypeOK
    <2>2. at[p] \in Node
      BY <2>1, AtType
    <2>3. PICK o \in Node : Home(o)
      BY <2>1, <2>2, HomeExists
    <2>4. mark[p] < got[p].ver
      BY <2>1, <2>3 DEF CountInv
    <2>5. mark[p] \in Nat /\ got[p].ver \in Nat
      BY <2>1, ConfType DEF TypeOK, StageInv
    <2> QED BY <2>4, <2>5
  <1> QED BY <1>1, Invariance, PTL

\* An Invalidate that has reached the owner undisturbed leaves no node that it
\* has reached with a value from before the call.
THEOREM ReloadIsForced == Spec => []InvalidateForcesReload
  <1>1. ASSUME IInv  PROVE InvalidateForcesReload
    <2> SUFFICES ASSUME Settled, Uncounted, NEW p \in Client, pc[p] = "invDone",
                        inv[p].calm, inv[p].owner \notin inv[p].missed,
                        NEW n \in Node \ inv[p].missed, Live(cache[n])
                 PROVE  cache[n].ver >= inv[p].floor
      BY DEF InvalidateForcesReload
    <2>1. TypeOK /\ StageInv /\ ReloadInv
      BY <1>1 DEF IInv, Control
    <2>2. PICK o \in Node : Home(o)
      BY <2>1, HomeExists
    <2>3. inv[p] # None /\ inv[p].todo = {}
      BY <2>1 DEF StageInv
    <2>4. ReloadInvOf(o, p)
      BY <2>1, <2>2, <2>3 DEF ReloadInv, Undisturbed
    <2> QED BY <2>3, <2>4 DEF ReloadInvOf
  <1> QED BY <1>1, Invariance, PTL
=============================================================================
