------------------------------ MODULE MCCluster -----------------------------
(***************************************************************************)
(* A TLC instance of Cluster.  No symmetry: the run checks liveness.       *)
(***************************************************************************)
EXTENDS Cluster, TLC

CONSTANTS n1, n2, n3, p1, p2

\* n1 is the owner of the key wherever it is a peer, n2 wherever n1 is not.
MCRank == n1 :> 1 @@ n2 :> 2 @@ n3 :> 3

Everywhere(x) == [n \in Node |-> x]
Everyone(x) == [p \in Client |-> x]
Only(p, x) == [q \in Client |-> IF q = p THEN x ELSE {}]

Plain ==
  [TTL |-> 0, Jitter |-> 0, NegTTL |-> 1, WaitBounded |-> FALSE, Pools |-> {Everywhere(Node)},
   Peers |-> Everywhere({}), Ops |-> Everyone({"Get"}), At |-> Everyone(Node),
   Kinds |-> {"number"}, Faults |-> {}, Watch |-> FALSE, MaxVer |-> 2]

\* Gets at the owner and at another node, of a key that changes and goes away.
Reads ==
  [Plain EXCEPT !.Pools = {Everywhere({n1, n2})}, !.At = p1 :> {n1, n2} @@ p2 :> {n2},
                !.Kinds = {"number", "absent"}, !.Faults = {"write", "evict"},
                !.Watch = TRUE]

\* Values that expire, lost calls and nodes that register their peers at
\* different times.  The client leaves loads behind that go on without it.
Copies ==
  [Plain EXCEPT !.TTL = 1, !.WaitBounded = TRUE,
                !.Pools = {[Everywhere({n1, n2}) EXCEPT ![n1] = None, ![n2] = None]},
                !.Peers = n1 :> {{n1, n2}} @@ n2 :> {{n1, n2}} @@ n3 :> {},
                !.Ops = Only(p1, {"Get"}), !.At = Everyone({n1, n2}),
                !.Faults = {"write", "time", "lose", "register"}]

\* The same for a key that may not exist and a ttl with jitter, one load after
\* the other.
Absences ==
  [Copies EXCEPT !.Jitter = 1, !.WaitBounded = FALSE, !.Pools = {Everywhere({n1, n2})},
                 !.Kinds = {"number", "absent"}, !.Faults = {"write", "time", "lose"}]

\* Counters in the cache of the owner, used through all nodes.
Counters ==
  [Plain EXCEPT !.Ops = Everyone({"Increment"}), !.Kinds = {"absent"},
                !.Faults = {"lose"}, !.MaxVer = 4]

\* Invalidations, from the owner or from another node, that do not reach every
\* node.  Nobody uses n3; what matters is that it may come first and fail.
Invalidations ==
  [Plain EXCEPT !.Ops = p1 :> {"Invalidate"} @@ p2 :> {"Get"},
                !.At = Everyone({n1, n2}),
                !.Faults = {"write", "miss"}]

\* Rings that are different at the start and change later on, and getters that
\* fail.
Circles ==
  [Plain EXCEPT !.WaitBounded = TRUE,
                !.Pools = {[Everywhere({}) EXCEPT ![n1] = {n2}, ![n2] = {n1}]},
                !.Peers = n1 :> {{n1, n2}, {n2}} @@ n2 :> {{n1, n2}, {n1}} @@ n3 :> {},
                !.Ops = Only(p1, {"Get"}), !.At = Everyone({n1, n2}),
                !.Faults = {"set", "fail"}]

MCScenario == {Reads, Copies, Absences, Counters, Invalidations, Circles}
=============================================================================
