------------------------------ MODULE Metrics -------------------------------
(***************************************************************************)
(* stats.go: the process-wide counters and latency windows, with the code  *)
(* that updates them (groupcache.go, cache.go, http.go, the API handler of *)
(* cmd/cache-server) and the code that reads them (StartLogger,            *)
(* /debug/stats).  All threads run concurrently and share only what is     *)
(* modelled here, so a thread is the sequence of the atomic operations     *)
(* that it still has to do, and a function of the code is the set of       *)
(* sequences it may do.  Which key is asked for, and what is found, is     *)
(* left open: it only decides between the sequences.                       *)
(***************************************************************************)
EXTENDS Integers, SequencesExt, Sorting

CONSTANTS Request,    \* goroutines that serve requests
          Loader,     \* goroutines that run a load
          Admin,      \* goroutines that switch the sampling on and off
          Logger,     \* the goroutine of StartLogger
          Reader,     \* goroutines that serve /debug/stats
          Cap,        \* capacity of a window, 8192 in the code
          MaxSample,  \* largest sample, 2^32-1 in the code
          P95, P99,   \* the two percentiles; a small window needs them apart
          None,
          Scenario    \* Scenario[c]: a scenario that a run covers

Series == {"api", "group", "cache"}
Thread == Request \cup Loader \cup Admin \cup Reader \cup {Logger}

\* The fields of Metrics, in the order in which Snapshot reads them.
Fields ==
  <<"APIRequests", "APIErrors",
    "APILatencyCount", "APILatencyTotalMicros", "APILastP95Micros", "APILastP99Micros",
    "GroupGets",
    "GroupGetLatencyCount", "GroupGetTotalMicros",
    "GroupGetLastP95Micros", "GroupGetLastP99Micros",
    "CacheHits", "CacheMisses",
    "CacheGetLatencyCount", "CacheGetTotalMicros",
    "CacheGetLastP95Micros", "CacheGetLastP99Micros",
    "FilterMisses", "PeerLoads", "LocalLoads", "PeerHTTPRequests">>

LatencyCount == [api |-> "APILatencyCount", group |-> "GroupGetLatencyCount",
                 cache |-> "CacheGetLatencyCount"]
TotalMicros == [api |-> "APILatencyTotalMicros", group |-> "GroupGetTotalMicros",
                cache |-> "CacheGetTotalMicros"]
LastP95 == [api |-> "APILastP95Micros", group |-> "GroupGetLastP95Micros",
            cache |-> "CacheGetLastP95Micros"]
LastP99 == [api |-> "APILastP99Micros", group |-> "GroupGetLastP99Micros",
            cache |-> "CacheGetLastP99Micros"]

-----------------------------------------------------------------------------
\* What the functions of the code do, as sequences of <<operation, argument>>.

Inc(f) == << <<"inc", f>> >>

\* RecordAPILatency, RecordGroupGetLatency, RecordCacheGetLatency.  A duration
\* is never negative: time.Since reads the monotonic clock.
Record(s) == << <<"count", s>>, <<"total", s>>, <<"enabled", s>>, <<"sample", s>>,
                <<"observe", s>> >>

\* cache.get
CacheGet == Record("cache")

\* degradeFromCaches: found in the active cache, in the stale cache, or nowhere,
\* with and without a stale cache.
ActiveHit == CacheGet \o Inc("CacheHits")
StaleHitTwice == CacheGet \o CacheGet \o Inc("CacheHits") \o Inc("CacheHits")
StaleHit == CacheGet \o CacheGet \o Inc("CacheHits")
Nowhere == {CacheGet, CacheGet \o CacheGet}

\* Group.Get, by whether its error is one that the API counts.  After a miss it
\* joins or starts a load, and may look again when it has waited too long.
Hit == Inc("GroupGets") \o CacheGet \o Inc("CacheHits") \o Record("group")
Miss(wait) == Inc("GroupGets") \o CacheGet \o Inc("CacheMisses")
                \o << <<"load", None>> >> \o wait \o Record("group")
NoKey == Record("group")
Served == {Hit} \cup {Miss(w) : w \in {<<>>, ActiveHit, StaleHit}}
Failed == {NoKey} \cup {Miss(w) : w \in {<<>>} \cup Nowhere}

\* The API handler, for Get and for Increment.
API(work, fails) ==
  {Inc("APIRequests") \o w \o (IF fails THEN Inc("APIErrors") ELSE <<>>)
     \o Record("api") : w \in work}
APIGet == API(Served, FALSE) \cup API(Failed, TRUE)
APIIncrement == API({<<>>}, FALSE) \cup API({<<>>}, TRUE)

\* ServeHTTP: a bad request, an invalidation or an increment; a Get.
ServePeer == {Inc("PeerHTTPRequests") \o w : w \in {<<>>} \cup Served \cup Failed}

\* loadFromPeer, then getLocally unless the peer has answered.
Load == {peer \o here : peer \in {<<>>, Inc("PeerLoads")},
                        here \in {Inc("FilterMisses"), Inc("LocalLoads"), <<>>}}

\* SetLatencySamplingEnabled
Switch == {<< <<"enable", b>> >> : b \in BOOLEAN}

SnapshotBackwards == [i \in DOMAIN Fields |-> <<"read", Fields[Len(Fields) + 1 - i]>>]
Snapshot == [i \in DOMAIN Fields |-> <<"read", Fields[i]>>]

\* One turn of the loop of StartLogger.
TickReadsEarly ==
  << <<"drain", "api">>, <<"drain", "group">>, <<"drain", "cache">>,
     <<"store95", "api">>, <<"store95", "group">>, <<"store95", "cache">> >>
  \o Snapshot \o
  << <<"store99", "api">>, <<"store99", "group">>, <<"store99", "cache">> >>

Tick ==
  << <<"drain", "api">>, <<"drain", "group">>, <<"drain", "cache">>,
     <<"store95", "api">>, <<"store99", "api">>, <<"store95", "group">>,
     <<"store99", "group">>, <<"store95", "cache">>, <<"store99", "cache">> >>
  \o Snapshot

Work(t) ==
  CASE t \in Request -> APIGet \cup APIIncrement \cup ServePeer
    [] t \in Loader -> {}
    [] t \in Admin -> Switch
    [] t \in Reader -> {Snapshot}
    [] t = Logger -> {Tick}

-----------------------------------------------------------------------------
\* A role is a set of goroutines of its own, and a duration an int64 number of
\* microseconds, so that those of a scenario have a longest one.
ASSUME MetricsAssumption ==
  /\ Cap \in Nat \ {0} /\ MaxSample \in Nat
  /\ P95 \in 1 .. 100 /\ P99 \in P95 .. 100
  /\ IsFiniteSet(Request) /\ IsFiniteSet(Loader)
  /\ Request \cap Loader = {} /\ (Request \cup Loader) \cap (Admin \cup Reader) = {}
  /\ Admin \cap Reader = {} /\ Logger \notin Request \cup Loader \cup Admin \cup Reader
  /\ None \notin Thread \cup Nat /\ None \notin Nat \X Nat
  /\ DOMAIN Scenario \subseteq STRING
  /\ \A c \in DOMAIN Scenario :
       /\ Scenario[c] \in [Rate  : Nat \X (Nat \ {0}),     \* the flag of the server
                            Latency : SUBSET Nat,           \* durations in microseconds
                            Calls : [Thread -> Nat],        \* bounds the calls
                            Does  : [Request -> SUBSET (APIGet \cup APIIncrement
                                                         \cup ServePeer)]]
       /\ \E d \in Scenario[c].Latency : \A e \in Scenario[c].Latency : e <= d

VARIABLES conf,      \* the name of the scenario, fixed from the start
          m,         \* the exported fields of Metrics
          enabled, every,   \* latencySamplingEnabled, latencySampleEvery
          samples,   \* samples[s]: apiLatencySamples, ...
          window,    \* window[s]: apiLatencyWindow.samples, ...
          todo,      \* todo[t]: what thread t has still to do
          us,        \* us[t]: the duration that t records
          last,      \* last[s]: the pair that p95p99AndReset gave the logger
          snap,      \* snap[t]: what t has read
          left,      \* left[t]: the calls t may still make
          offered, taken   \* history: samples offered and taken while enabled

vars == <<conf, m, enabled, every, samples, window, todo, us, last, snap, left,
          offered, taken>>

Field == ToSet(Fields)

\* The types of the variables; a window is never longer than its capacity.
TypeOK ==
  /\ conf \in DOMAIN Scenario
  /\ m \in [Field -> Nat]
  /\ enabled \in BOOLEAN /\ every \in Nat \ {0}
  /\ samples \in [Series -> Nat]
  /\ window \in [Series -> Seq(0 .. MaxSample)] /\ \A s \in Series : Len(window[s]) <= Cap
  /\ us \in [Thread -> Scenario[conf].Latency \cup {None}]
  /\ last \in [Series -> ((0 .. MaxSample) \X (0 .. MaxSample)) \cup {None}]
  /\ snap \in [Reader \cup {Logger} -> [Field -> Nat]]
  /\ left \in [Thread -> Nat]
  /\ offered \in [Series -> Nat] /\ taken \in [Series -> Nat]
  /\ \A t \in Thread : todo[t] # <<>> /\ Head(todo[t])[1] = "observe" => us[t] # None

\* SetLatencySampleRate(r): uint64(1 / rate), for rate = r[1] / r[2]
EveryRoundedUp(r) == (r[2] + r[1] - 1) \div r[1]
Every(r) == IF r[1] >= r[2] THEN 1 ELSE r[2] \div r[1]

\* newMetrics, then main sets the rate before anything else runs.
Init ==
  /\ conf \in DOMAIN Scenario
  /\ m = [f \in Field |-> 0]
  /\ enabled = (Scenario[conf].Rate[1] > 0)
  /\ every = IF Scenario[conf].Rate[1] > 0 THEN Every(Scenario[conf].Rate) ELSE 1
  /\ samples = [s \in Series |-> 0]
  /\ window = [s \in Series |-> <<>>]
  /\ todo = [t \in Thread |-> <<>>]
  /\ us = [t \in Thread |-> None]
  /\ last = [s \in Series |-> None]
  /\ snap = [t \in Reader \cup {Logger} |-> [f \in Field |-> 0]]
  /\ left = Scenario[conf].Calls
  /\ offered = [s \in Series |-> 0] /\ taken = [s \in Series |-> 0]

-----------------------------------------------------------------------------
At(t, op) == todo[t] # <<>> /\ Head(todo[t])[1] = op
Arg(t) == Head(todo[t])[2]
Skip(t, n) == todo' = [todo EXCEPT ![t] = SubSeq(@, n + 1, Len(@))]
Add(f, n) == m' = [m EXCEPT ![f] = @ + n]

Start(t) ==
  /\ todo[t] = <<>> /\ left[t] > 0
  /\ \E w \in Work(t) : (t \in Request => w \in Scenario[conf].Does[t])
                        /\ todo' = [todo EXCEPT ![t] = w]
  /\ left' = [left EXCEPT ![t] = @ - 1]
  /\ UNCHANGED <<conf, m, enabled, every, samples, window, us, last, snap, offered, taken>>

\* A miss starts a load in a goroutine of its own, or joins the one of its key.
Missed(t) ==
  /\ At(t, "load")
  /\ \/ \E g \in Loader, w \in Load :
          /\ todo[g] = <<>>
          /\ todo' = [todo EXCEPT ![t] = Tail(@), ![g] = w]
     \/ \E g \in Loader : todo[g] # <<>> /\ Skip(t, 1)
  /\ UNCHANGED <<conf, m, enabled, every, samples, window, us, last, snap, left, offered, taken>>

\* IncAPIRequests, IncGroupGets, IncCacheHits, ...
Increment(t) ==
  /\ At(t, "inc")
  /\ Add(Arg(t), 1)
  /\ Skip(t, 1)
  /\ UNCHANGED <<conf, enabled, every, samples, window, us, last, snap, left, offered, taken>>

RecordCount(t) ==
  /\ At(t, "count")
  /\ \E d \in Scenario[conf].Latency : us' = [us EXCEPT ![t] = d]
  /\ Add(LatencyCount[Arg(t)], 1)
  /\ Skip(t, 1)
  /\ UNCHANGED <<conf, enabled, every, samples, window, last, snap, left, offered, taken>>

RecordTotal(t) ==
  /\ At(t, "total")
  /\ Add(TotalMicros[Arg(t)], us[t])
  /\ Skip(t, 1)
  /\ UNCHANGED <<conf, enabled, every, samples, window, us, last, snap, left, offered, taken>>

\* shouldSampleLatency, first half: latencySamplingEnabled.Load
CheckEnabled(t) ==
  /\ At(t, "enabled")
  /\ IF enabled THEN Skip(t, 1) /\ UNCHANGED us
                ELSE Skip(t, 3) /\ us' = [us EXCEPT ![t] = None]
  /\ UNCHANGED <<conf, m, enabled, every, samples, window, last, snap, left, offered, taken>>

\* shouldSampleLatency, second half: the rate, and the shared counter.
ShouldSample(t) ==
  LET s == Arg(t)
      n == IF every <= 1 THEN samples[s] ELSE samples[s] + 1
      yes == every <= 1 \/ n % every = 0
  IN /\ At(t, "sample")
     /\ samples' = [samples EXCEPT ![s] = n]
     /\ offered' = [offered EXCEPT ![s] = @ + 1]
     /\ IF yes THEN Skip(t, 1) /\ UNCHANGED us
               ELSE Skip(t, 2) /\ us' = [us EXCEPT ![t] = None]
     /\ UNCHANGED <<conf, m, enabled, every, window, last, snap, left, taken>>

\* latencyWindow.observe
Kept(w, v) == IF Len(w) < Cap THEN Append(w, v) ELSE Append(Tail(w), v)
KeptAll(t, s) == window' = [window EXCEPT ![s] = Append(@, us[t])]
Keep(t, s) ==
  window' = [window EXCEPT ![s] = Kept(@, IF us[t] > MaxSample THEN MaxSample ELSE us[t])]

Observe(t) ==
  /\ At(t, "observe")
  /\ Keep(t, Arg(t))
  /\ taken' = [taken EXCEPT ![Arg(t)] = @ + 1]
  /\ us' = [us EXCEPT ![t] = None]
  /\ Skip(t, 1)
  /\ UNCHANGED <<conf, m, enabled, every, samples, last, snap, left, offered>>

SetEnabled(t) ==
  /\ At(t, "enable")
  /\ enabled' = Arg(t)
  /\ Skip(t, 1)
  /\ UNCHANGED <<conf, m, every, samples, window, us, last, snap, left, offered, taken>>

\* percentileIndex, counted from 1.
PercentileIndexDown(n, p) == IF n * p < 100 THEN 1 ELSE (n * p) \div 100
PercentileIndex(n, p) ==
  LET i == (n * p + 99) \div 100 IN IF i < 1 THEN 1 ELSE IF i > n THEN n ELSE i

\* latencyWindow.p95p99AndReset; None stands for "not ok".
Percentiles(w) ==
  LET buf == Sorted(w)
      n == Len(w)
  IN IF n = 0 THEN None
     ELSE <<buf[PercentileIndex(n, P95)], buf[PercentileIndex(n, P99)]>>

Drain ==
  /\ At(Logger, "drain")
  /\ last' = [last EXCEPT ![Arg(Logger)] = Percentiles(window[Arg(Logger)])]
  /\ window' = [window EXCEPT ![Arg(Logger)] = <<>>]
  /\ Skip(Logger, 1)
  /\ UNCHANGED <<conf, m, enabled, every, samples, us, snap, left, offered, taken>>

Stored(f, s, i) == IF last[s] = None THEN m ELSE [m EXCEPT ![f] = last[s][i]]

Publish ==
  LET s == Arg(Logger)
  IN
  /\ \/ At(Logger, "store95") /\ m' = Stored(LastP95[s], s, 1)
     \/ At(Logger, "store99") /\ m' = Stored(LastP99[s], s, 2)
  /\ Skip(Logger, 1)
  /\ UNCHANGED <<conf, enabled, every, samples, window, us, last, snap, left, offered, taken>>

\* Snapshot loads one field after the other.
Read(t) ==
  /\ At(t, "read")
  /\ snap' = [snap EXCEPT ![t][Arg(t)] = m[Arg(t)]]
  /\ Skip(t, 1)
  /\ UNCHANGED <<conf, m, enabled, every, samples, window, us, last, left, offered, taken>>

Next ==
  \/ \E t \in Thread : Start(t)
  \/ \E t \in Request :
       \/ Missed(t) \/ RecordCount(t) \/ RecordTotal(t)
       \/ CheckEnabled(t) \/ ShouldSample(t) \/ Observe(t)
  \/ \E t \in Request \cup Loader : Increment(t)
  \/ \E t \in Admin : SetEnabled(t)
  \/ Drain \/ Publish
  \/ \E t \in Reader \cup {Logger} : Read(t)

Spec == Init /\ [][Next]_vars

-----------------------------------------------------------------------------
AtRest == \A t \in Request \cup Loader : todo[t] = <<>>
Longest == CHOOSE d \in Scenario[conf].Latency : \A e \in Scenario[conf].Latency : e <= d

\* The counters themselves explain each other at every moment, in whichever order
\* the requests add to them: no more hits, misses or errors than calls, no time
\* without an observation, and no load that no miss has caused.  When no request
\* runs, no Get and no API call is missing from any of them.  (The rates that
\* /debug/stats and the logger publish are not computed from these but from a
\* Snapshot, in which hits may exceed Gets: see SnapshotCoversFinished.)
CountersAgree ==
  /\ m.CacheHits <= m.GroupGets /\ m.CacheMisses <= m.GroupGets
  /\ m.APIErrors <= m.APIRequests
  /\ m.PeerLoads <= m.CacheMisses
  /\ m.FilterMisses + m.LocalLoads <= m.CacheMisses
  /\ \A s \in Series : m[TotalMicros[s]] <= Longest * m[LatencyCount[s]]
  /\ AtRest =>
       /\ m.GroupGets <= m.CacheHits + m.CacheMisses
       /\ m.GroupGets <= m.GroupGetLatencyCount
       /\ m.APILatencyCount = m.APIRequests

\* A finished snapshot accounts for every Get that was over when it read
\* GroupGets: what is missing from its hits and misses was still running.  It
\* holds because Snapshot reads GroupGets first, which is also why it may report
\* more hits than Gets.
SnapshotCoversFinished ==
  \A t \in Reader \cup {Logger} : todo[t] = <<>> =>
    /\ snap[t].GroupGets <= snap[t].CacheHits + snap[t].CacheMisses + Cardinality(Request)
    /\ snap[t].CacheHits <= m.GroupGets

\* With a rate r in force, shouldSampleLatency takes at least the asked share of
\* the observations it is offered, up to one that is still due, and less than
\* twice the share, however requests interleave and however often the sampling
\* is switched off and on.
SampledShare ==
  LET r == Scenario[conf].Rate
  IN r[1] > 0 /\ AtRest =>
       \A s \in Series :
         /\ (taken[s] + 1) * r[2] > offered[s] * (IF r[1] > r[2] THEN r[2] ELSE r[1])
         /\ taken[s] > 0 => taken[s] * r[2] < 2 * r[1] * offered[s]

\* The 95th and 99th percentile in a line of the log belong to one another,
\* though they are two atomic fields: the logger is the only one who stores them.
\* (A snapshot of /debug/stats may see a new one beside an old one.)
LoggedPercentilesOrdered ==
  todo[Logger] = <<>> =>
    \A s \in Series : snap[Logger][LastP95[s]] <= snap[Logger][LastP99[s]]

\* The percentiles the logger takes from a window are the nearest-rank ones: the
\* smallest sample that p percent of the samples do not exceed.
IsPercentile(v, w, p) ==
  LET UpTo(x) == Cardinality({i \in DOMAIN w : w[i] <= x})
  IN /\ v \in ToSet(w)
     /\ 100 * UpTo(v) >= p * Len(w)
     /\ \A x \in ToSet(w) : x < v => 100 * UpTo(x) < p * Len(w)

NearestRank ==
  [][\A s \in Series : window[s] # <<>> /\ window'[s] = <<>> =>
       IsPercentile(last'[s][1], window[s], P95) /\ IsPercentile(last'[s][2], window[s], P99)]_vars
=============================================================================
