------------------------------- MODULE MCGroup --------------------------------
(***************************************************************************)
(* TLC instances of Group.  Each set of scenarios belongs to one run.      *)
(***************************************************************************)
EXTENDS Group, TLC

\* Requests are interchangeable.  Used only by runs that check no liveness.
Symmetry == Permutations(Caller)

Plain ==
  [TTL |-> 1, Jitter |-> 0, StaleTTL |-> 0, NegTTL |-> 1,
   WaitBounded |-> TRUE, Durable |-> TRUE,
   Ops |-> {"Get"}, Kinds |-> {"number"}, Faults |-> {}, Watch |-> {},
   Width |-> 2, MaxVer |-> 2, MaxLoad |-> 1]

\* A backend that changes, loses the key and fails, invalidations, cancelled
\* requests and abandoned loads.  Evictions stand for expirations as well.
Reads ==
  [Plain EXCEPT !.Ops = {"Get", "Invalidate"}, !.Kinds = {"number", "absent"},
                !.Faults = {"write", "fail", "cancel", "evict"},
                !.Watch = {"read"}, !.Width = 3]

\* Ttls of 1 and 2 ticks (the jitter is as large as the ttl), one tick of stale
\* window, and loads that take up to one tick to store what they read.
Stale ==
  [Plain EXCEPT !.Jitter = 1, !.StaleTTL = 1, !.Kinds = {"number", "absent"},
                !.Faults = {"write", "time"}]

\* Durable increments and invalidations, with an incrementer that fails before
\* or after it has applied the increment.
Increments ==
  [Plain EXCEPT !.StaleTTL = 1, !.Ops = {"Increment", "Invalidate"},
                !.Kinds = {"number", "text"},
                !.Faults = {"fail", "cancel", "evict"}, !.Watch = {"inc"},
                !.Width = 3, !.MaxVer = 4]

\* Cache-only counters.
Counters ==
  [Plain EXCEPT !.StaleTTL = 1, !.Durable = FALSE, !.Ops = {"Increment"},
                !.Kinds = {"absent"}, !.Faults = {"cancel"}, !.Watch = {"inc"},
                !.Width = 3, !.MaxVer = 4]

SafetyScenarios == {Reads, Stale, Increments, Counters}

\* A bounded wait and durable increments, with a getter that may hang; and an
\* unbounded wait with cache-only increments.
LiveScenarios ==
  {[Plain EXCEPT !.StaleTTL = 1, !.Ops = {"Get", "Increment"},
                 !.Kinds = {"number", "absent"}, !.Faults = {"fail", "evict"}],
   [Plain EXCEPT !.NegTTL = 0, !.WaitBounded = FALSE, !.Durable = FALSE,
                 !.Ops = Operation, !.Kinds = {"text", "absent"},
                 !.Faults = {"write", "fail", "cancel"}]}

\* A load that is under way while its key is incremented, in the backend or in
\* the cache, or invalidated.
WriteRaceScenarios ==
  {[Plain EXCEPT !.TTL = 0, !.Ops = {"Get", "Increment"}, !.Watch = {"inc"}],
   [Plain EXCEPT !.TTL = 0, !.Durable = FALSE, !.Ops = {"Get", "Increment"},
                 !.Kinds = {"absent"}, !.Watch = {"inc"}],
   [Plain EXCEPT !.TTL = 0, !.Ops = {"Get", "Invalidate"},
                 !.Faults = {"write"}, !.Watch = {"inv"}]}
=============================================================================
