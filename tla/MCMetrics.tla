----------------------------- MODULE MCMetrics ------------------------------
(***************************************************************************)
(* A TLC instance of Metrics.                                              *)
(***************************************************************************)
EXTENDS Metrics

CONSTANTS r1, r2, g1, a1, d1

Quiet ==
  [Rate |-> <<0, 1>>, Latency |-> {1}, Calls |-> [t \in Thread |-> 0],
   Does |-> [t \in Request |-> {}]]

\* Every way through the API handler and ServeHTTP, beside Gets that wait for a
\* load in vain.
Counting ==
  [Quiet EXCEPT !.Calls = [t \in Thread |-> IF t \in Request THEN 1 ELSE 0],
                !.Does = r1 :> APIGet \cup APIIncrement \cup ServePeer
                         @@ r2 :> API({Miss(CacheGet)}, TRUE) \cup API({Miss(StaleHit)}, FALSE)]

\* Gets that hit, while /debug/stats takes a snapshot.
Reading ==
  [Quiet EXCEPT !.Calls = [t \in Thread |-> CASE t \in Request -> 2
                                              [] t \in Reader -> 1
                                              [] OTHER -> 0],
                !.Does = [t \in Request |-> {Inc("PeerHTTPRequests") \o Hit}]]

\* Observations that are sampled at different rates and switched on and off.
Sampling(rate) ==
  [Quiet EXCEPT !.Rate = rate,
                !.Calls = [t \in Thread |-> CASE t \in Request -> 3
                                              [] t \in Admin -> 2
                                              [] OTHER -> 0],
                !.Does = [t \in Request |-> API({<<>>}, FALSE)]]

\* Two ticks of the logger while its windows are filled.
Logging ==
  [Quiet EXCEPT !.Rate = <<1, 1>>, !.Latency = {1, 4},
                !.Calls = [t \in Thread |-> CASE t \in Request -> 3
                                              [] t = Logger -> 2
                                              [] OTHER -> 0],
                !.Does = [t \in Request |-> IF t = r1 THEN API({<<>>}, FALSE) ELSE {}]]

MCScenario ==
  [counting |-> Counting, reading |-> Reading, logging |-> Logging,
   third |-> Sampling(<<1, 3>>), twoFifths |-> Sampling(<<2, 5>>),
   twoThirds |-> Sampling(<<2, 3>>)]
=============================================================================
