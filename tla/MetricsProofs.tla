--------------------------- MODULE MetricsProofs ----------------------------
(***************************************************************************)
(* Proofs about Metrics, for any number of goroutines, every scenario and  *)
(* every capacity: its types, CountersAgree, SnapshotCoversFinished,       *)
(* SampledShare, LoggedPercentilesOrdered and NearestRank.                 *)
(*                                                                         *)
(* A thread is the sequence of operations that it has still to do, so the  *)
(* inductive invariant has two halves.  One is about the sequences: what   *)
(* may follow what in the rest of a sequence (Ordered, Blocks) and what is *)
(* pending while something else is (NeedInv, ReadInv, LogInv).  It holds   *)
(* of the whole sequences and is kept when operations are dropped from the *)
(* front.  The other half says that what is missing between two counters   *)
(* is owed by threads that have still to do one of two operations          *)
(* (Balance, SumInv, SampleInv), and what a snapshot and the logger have   *)
(* read or stored so far (SnapInv, LoggedInv).                             *)
(***************************************************************************)
EXTENDS Metrics, DataLemmas, SequenceTheorems

\* The operations that the counters depend on.
oCall == <<"inc", "APIRequests">>
oErr == <<"inc", "APIErrors">>
oGet == <<"inc", "GroupGets">>
oHit == <<"inc", "CacheHits">>
oMiss == <<"inc", "CacheMisses">>
oFilter == <<"inc", "FilterMisses">>
oPeer == <<"inc", "PeerLoads">>
oLocal == <<"inc", "LocalLoads">>
oServe == <<"inc", "PeerHTTPRequests">>
oLoad == <<"load", None>>
oTime(s) == <<"count", s>>

\* The operations of a Record that follow its first.
Inner == {"total", "enabled", "sample", "observe"}
Outer == {"count", "total", "enabled", "sample"}
Then(op) == CASE op = "count" -> "total" [] op = "total" -> "enabled"
              [] op = "enabled" -> "sample" [] op = "sample" -> "observe"

RecordOps(s) == {<<"count", s>>, <<"total", s>>, <<"enabled", s>>, <<"sample", s>>,
                 <<"observe", s>>}
GetOps == {oGet, oHit, oMiss, oLoad} \cup RecordOps("cache") \cup RecordOps("group")
RequestOps == {oCall, oErr, oServe} \cup GetOps \cup RecordOps("api")
LoaderOps == {oPeer, oFilter, oLocal}
ReadOps == {<<"read", f>> : f \in Field}
TickOps == {<<o, s>> : o \in {"drain", "store95", "store99"}, s \in Series}
LoggerOps == ReadOps \cup TickOps

\* b may not come behind a.
Never(a, b) ==
  \/ a = b /\ a \in {oCall, oErr, oGet, oHit, oMiss, oLoad, oTime("api"), oTime("group"), oPeer}
  \/ b = oGet /\ a \in {oHit, oMiss, oLoad, oTime("group")}
  \/ b = oMiss /\ a = oLoad
  \/ b = oCall /\ a \in {oErr, oTime("api")}
  \/ a \in {oFilter, oLocal} /\ b \in {oFilter, oLocal}
  \/ b = <<"read", "GroupGets">> /\ a \in {<<"read", "CacheHits">>, <<"read", "CacheMisses">>}
  \/ \E s \in Series :
       \/ b = <<"read", LastP95[s]>> /\ a = <<"read", LastP99[s]>>
       \/ /\ b \in {<<"store95", s>>, <<"store99", s>>}
          /\ a \in {<<"read", LastP95[s]>>, <<"read", LastP99[s]>>}
       \/ b = <<"store95", s>> /\ a \in {<<"store95", s>>, <<"store99", s>>}
       \/ b = <<"store99", s>> /\ a = <<"store99", s>>
       \/ b = <<"drain", s>> /\ a \in {<<"store95", s>>, <<"store99", s>>}

Ordered(w) == \A i, j \in DOMAIN w : i < j => ~Never(w[i], w[j])

\* The operations of a Record are together; a sequence may begin inside of one.
Blocks(w) ==
  /\ \A i \in DOMAIN w : w[i][1] \in Outer =>
       i + 1 \in DOMAIN w /\ w[i + 1] = <<Then(w[i][1]), w[i][2]>>
  /\ \A i \in DOMAIN w : i > 1 /\ w[i][1] \in Inner => w[i - 1][1] \in Outer

\* What a Get or an API call counts at the end is pending while its beginning is.
NeedInv(N) ==
  /\ oGet \in N => (oHit \in N \/ oMiss \in N) /\ oTime("group") \in N
  /\ oCall \in N => oTime("api") \in N
ReadInv(N) ==
  /\ <<"read", "GroupGets">> \in N =>
       <<"read", "CacheHits">> \in N /\ <<"read", "CacheMisses">> \in N
LogInv(N) ==
  \A s \in Series :
    /\ <<"drain", s>> \in N => <<"store95", s>> \in N
    /\ <<"store95", s>> \in N => <<"store99", s>> \in N
    /\ <<"read", LastP95[s]>> \in N => <<"read", LastP99[s]>> \in N

\* The rest of what a thread of each kind does.
RequestRest(w) ==
  w \in Seq(RequestOps) /\ Ordered(w) /\ Blocks(w) /\ NeedInv(ToSet(w))
LoaderRest(w) == w \in Seq(LoaderOps) /\ Ordered(w)
AdminRest(w) == w \in Seq({<<"enable", b>> : b \in BOOLEAN})
ReaderRest(w) == w \in Seq(ReadOps) /\ Ordered(w) /\ ReadInv(ToSet(w))
LoggerRest(w) ==
  w \in Seq(LoggerOps) /\ Ordered(w) /\ ReadInv(ToSet(w)) /\ LogInv(ToSet(w))

\* TypeOK, without what TimeInv says of the durations.
TypeCore ==
  /\ conf \in DOMAIN Scenario
  /\ m \in [Field -> Nat]
  /\ enabled \in BOOLEAN /\ every \in Nat \ {0}
  /\ samples \in [Series -> Nat]
  /\ window \in [Series -> Seq(0 .. MaxSample)] /\ \A s \in Series : Len(window[s]) <= Cap
  /\ us \in [Thread -> Scenario[conf].Latency \cup {None}]
  /\ last \in [Series -> ((0 .. MaxSample) \X (0 .. MaxSample)) \cup {None}]
  /\ snap \in [Reader \cup {Logger} -> [Field -> Nat]]
  /\ left \in [Thread -> Nat]
  /\ offered \in [Series -> Nat] /\ taken \in [Series -> Nat]

TodoInv ==
  /\ todo = [t \in Thread |-> todo[t]]
  /\ \A t \in Request : RequestRest(todo[t])
  /\ \A t \in Loader : LoaderRest(todo[t])
  /\ \A t \in Admin : AdminRest(todo[t])
  /\ \A t \in Reader : ReaderRest(todo[t])
  /\ LoggerRest(todo[Logger])

\* A duration is there while it is needed.
TimeInv ==
  \A t \in Request : todo[t] # <<>> /\ Head(todo[t])[1] \in Inner =>
    us[t] \in Scenario[conf].Latency

\* Who owes what.
N(t) == ToSet(todo[t])
Hitting == {t \in Request : oHit \in N(t) /\ oGet \notin N(t)}
Missing == {t \in Request : oMiss \in N(t) /\ oGet \notin N(t)}
Erring == {t \in Request : oErr \in N(t) /\ oCall \notin N(t)}
Loading == {t \in Request : oLoad \in N(t) /\ oMiss \notin N(t)}
Searching == {t \in Request : (oHit \in N(t) \/ oMiss \in N(t)) /\ oGet \notin N(t)}
Getting == {t \in Request : oTime("group") \in N(t) /\ oGet \notin N(t)}
Calling == {t \in Request : oTime("api") \in N(t) /\ oCall \notin N(t)}
AtPeer == {t \in Loader : oPeer \in N(t)}
AtHome == {t \in Loader : oFilter \in N(t) \/ oLocal \in N(t)}
Adding(s) == {t \in Request : At(t, "total") /\ Arg(t) = s}
Observing(s) == {t \in Request : At(t, "observe") /\ Arg(t) = s}

Balance ==
  /\ m["CacheHits"] + Cardinality(Hitting) <= m["GroupGets"]
  /\ m["CacheMisses"] + Cardinality(Missing) <= m["GroupGets"]
  /\ m["APIErrors"] + Cardinality(Erring) <= m["APIRequests"]
  /\ m["PeerLoads"] + Cardinality(Loading) + Cardinality(AtPeer) <= m["CacheMisses"]
  /\ m["FilterMisses"] + m["LocalLoads"] + Cardinality(Loading) + Cardinality(AtHome)
       <= m["CacheMisses"]
  /\ m["GroupGets"] <= m["CacheHits"] + m["CacheMisses"] + Cardinality(Searching)
  /\ m["GroupGets"] <= m["GroupGetLatencyCount"] + Cardinality(Getting)
  /\ m["APIRequests"] = m["APILatencyCount"] + Cardinality(Calling)

\* The durations that are counted and not yet added are at most the longest one.
SumInv ==
  \A s \in Series :
    m[TotalMicros[s]] + Longest * Cardinality(Adding(s)) <= Longest * m[LatencyCount[s]]

\* Of the observations offered every every-th is taken, or about to be.
SampleInv ==
  /\ every = IF Scenario[conf].Rate[1] > 0 THEN Every(Scenario[conf].Rate) ELSE 1
  /\ \A s \in Series :
       /\ samples[s] = IF every <= 1 THEN 0 ELSE offered[s]
       /\ taken[s] + Cardinality(Observing(s)) = offered[s] \div every

\* What a snapshot has read so far.
Reads(t, f) == <<"read", f>> \in N(t)
SnapInv ==
  \A t \in Reader \cup {Logger} :
    /\ snap[t]["CacheHits"] <= m["CacheHits"]
    /\ ~Reads(t, "GroupGets") =>
         snap[t]["GroupGets"] <=
           (IF Reads(t, "CacheHits") THEN m["CacheHits"] ELSE snap[t]["CacheHits"])
           + (IF Reads(t, "CacheMisses") THEN m["CacheMisses"] ELSE snap[t]["CacheMisses"])
           + Cardinality(Request)

\* The percentiles that the logger took, published and read.
LoggedInv ==
  \A s \in Series :
    LET p == LastP95[s]
        q == LastP99[s]
        between == <<"store99", s>> \in N(Logger) /\ <<"store95", s>> \notin N(Logger)
    IN  /\ last[s] # None => last[s][1] <= last[s][2]
        /\ IF between /\ last[s] # None THEN m[p] = last[s][1] ELSE m[p] <= m[q]
        /\ ~Reads(Logger, p) =>
             IF Reads(Logger, q)
             THEN /\ snap[Logger][p] = m[p]
                  /\ {<<"store95", s>>, <<"store99", s>>} \cap N(Logger) = {}
             ELSE snap[Logger][p] <= snap[Logger][q]

IInv ==
  /\ TypeCore /\ TodoInv /\ TimeInv /\ Balance /\ SumInv /\ SampleInv /\ SnapInv /\ LoggedInv

-----------------------------------------------------------------------------
\* The operations differ.
LEMMA OpsDiffer ==
  /\ \A x \in {oErr, oGet, oHit, oMiss, oFilter, oPeer, oLocal, oServe, oLoad} : x # oCall
  /\ \A x \in {oGet, oHit, oMiss, oFilter, oPeer, oLocal, oServe, oLoad} : x # oErr
  /\ \A x \in {oHit, oMiss, oFilter, oPeer, oLocal, oServe, oLoad} : x # oGet
  /\ \A x \in {oMiss, oFilter, oPeer, oLocal, oServe, oLoad} : x # oHit
  /\ \A x \in {oFilter, oPeer, oLocal, oServe, oLoad} : x # oMiss
  /\ oServe # oLoad /\ oFilter # oLocal /\ oFilter # oPeer /\ oLocal # oPeer
  /\ \A s, o : \A x \in {oCall, oErr, oGet, oHit, oMiss, oFilter, oPeer, oLocal, oServe, oLoad} :
       o \in Inner \cup Outer => x # <<o, s>>
  BY DEF oErr, oCall, oGet, oHit, oMiss, oFilter, oPeer, oLocal, oServe, oLoad, Inner, Outer

\* What Never says of the operations of a request.
LEMMA NeverRequest ==
  ASSUME NEW a \in RequestOps, NEW b \in RequestOps
  PROVE  Never(a, b) <=>
           \/ a = b /\ a \in {oCall, oErr, oGet, oHit, oMiss, oLoad, oTime("api"), oTime("group")}
           \/ b = oGet /\ a \in {oHit, oMiss, oLoad, oTime("group")}
           \/ b = oMiss /\ a = oLoad
           \/ b = oCall /\ a \in {oErr, oTime("api")}
  <1>1. \A x \in RequestOps : x[1] \notin {"read", "store95", "store99", "drain"}
    BY DEF RequestOps, GetOps, RecordOps, oCall, oErr, oGet, oHit, oMiss, oServe, oLoad
  <1>2. /\ \A f : <<"read", f>> \notin RequestOps
        /\ \A s : /\ <<"store95", s>> \notin RequestOps /\ <<"store99", s>> \notin RequestOps
                  /\ <<"drain", s>> \notin RequestOps
    BY <1>1
  <1>3. oFilter \notin RequestOps /\ oLocal \notin RequestOps /\ oPeer \notin RequestOps
    BY DEF RequestOps, GetOps, RecordOps, oCall, oErr, oGet, oHit, oMiss, oServe, oLoad,
           oFilter, oLocal, oPeer
  <1> HIDE DEF RequestOps
  <1> QED
    BY <1>2, <1>3 DEF Never

\* The operations of a Record have no place of their own, except the first.
LEMMA NeverRecord ==
  ASSUME NEW s \in Series, NEW a \in RecordOps(s), NEW b \in RequestOps
  PROVE  /\ a \in RequestOps
         /\ Never(a, b) => a = oTime(s) /\ b \in {oTime(s), oGet, oCall}
         /\ Never(a, b) /\ b = oGet => s = "group"
         /\ Never(a, b) /\ b = oCall => s = "api"
         /\ Never(a, b) => s # "cache"
         /\ Never(b, a) => a = oTime(s) /\ b = a /\ s # "cache"
  <1>1. a \in RequestOps
    BY DEF RequestOps, GetOps, Series
  <1>2. \A x \in {oCall, oErr, oGet, oHit, oMiss, oLoad} : a # x
    BY DEF RecordOps, oCall, oErr, oGet, oHit, oMiss, oLoad
  <1>3. \A x : a = oTime(x) => x = s
    BY DEF RecordOps, oTime
  <1>4. oGet # oCall
    BY DEF oGet, oCall
  <1> HIDE DEF RecordOps, RequestOps
  <1>5. ASSUME Never(a, b)
        PROVE  \/ a = b /\ (a = oTime("api") \/ a = oTime("group"))
               \/ b = oGet /\ a = oTime("group")
               \/ b = oCall /\ a = oTime("api")
    BY <1>1, <1>2, <1>5, NeverRequest
  <1>6. ASSUME Never(b, a)
        PROVE  a = b /\ (a = oTime("api") \/ a = oTime("group"))
    BY <1>1, <1>2, <1>6, NeverRequest
  <1> QED
    BY <1>1, <1>2, <1>3, <1>4, <1>5, <1>6

\* The places of two lists, one behind the other.
LEMMA JoinPlaces ==
  ASSUME NEW T, NEW u \in Seq(T), NEW v \in Seq(T)
  PROVE  /\ u \o v \in Seq(T)
         /\ DOMAIN u = 1 .. Len(u) /\ DOMAIN v = 1 .. Len(v)
         /\ Len(u) \in Nat /\ Len(v) \in Nat
         /\ DOMAIN (u \o v) = 1 .. Len(u) + Len(v)
         /\ \A i \in 1 .. Len(u) : (u \o v)[i] = u[i]
         /\ \A i \in 1 .. Len(v) : (u \o v)[Len(u) + i] = v[i]
         /\ \A i \in 1 .. Len(u) + Len(v) :
              i \in 1 .. Len(u) \/ (i - Len(u) \in 1 .. Len(v) /\ (u \o v)[i] = v[i - Len(u)])
  OBVIOUS

LEMMA JoinOrdered ==
  ASSUME NEW T, NEW u \in Seq(T), NEW v \in Seq(T), Ordered(u), Ordered(v),
         \A a \in ToSet(u), b \in ToSet(v) : ~Never(a, b)
  PROVE  u \o v \in Seq(T) /\ Ordered(u \o v) /\ ToSet(u \o v) = ToSet(u) \cup ToSet(v)
  <1> DEFINE w == u \o v
             n == Len(u)
  <1>1. /\ w \in Seq(T)
        /\ DOMAIN u = 1 .. n /\ DOMAIN v = 1 .. Len(v)
        /\ n \in Nat /\ Len(v) \in Nat
        /\ DOMAIN w = 1 .. n + Len(v)
        /\ \A i \in 1 .. n : w[i] = u[i]
        /\ \A i \in 1 .. Len(v) : w[n + i] = v[i]
        /\ \A i \in 1 .. n + Len(v) :
             i \in 1 .. n \/ (i - n \in 1 .. Len(v) /\ w[i] = v[i - n])
    BY JoinPlaces
  <1> HIDE DEF w, n
  <1>2. ToSet(w) = ToSet(u) \cup ToSet(v)
    <2>1. ASSUME NEW i \in DOMAIN u
          PROVE  i \in DOMAIN w /\ w[i] = u[i]
      BY <1>1
    <2>2. ASSUME NEW i \in DOMAIN v
          PROVE  n + i \in DOMAIN w /\ w[n + i] = v[i]
      BY <1>1
    <2>3. ASSUME NEW i \in DOMAIN w
          PROVE  w[i] \in ToSet(u) \cup ToSet(v)
      <3>1. CASE i \in 1 .. n
        BY <1>1, <3>1 DEF ToSet
      <3>2. CASE i - n \in 1 .. Len(v) /\ w[i] = v[i - n]
        BY <1>1, <3>2 DEF ToSet
      <3> QED
        BY <1>1, <3>1, <3>2
    <2> QED
      BY <2>1, <2>2, <2>3 DEF ToSet
  <1>3. ASSUME NEW i \in DOMAIN w, NEW j \in DOMAIN w, i < j
        PROVE  ~Never(w[i], w[j])
    <2>1. CASE i \in 1 .. n /\ j \in 1 .. n
      BY <1>1, <1>3, <2>1 DEF Ordered
    <2>2. CASE i \in 1 .. n /\ j - n \in 1 .. Len(v) /\ w[j] = v[j - n]
      BY <1>1, <2>2 DEF ToSet
    <2>3. CASE /\ i - n \in 1 .. Len(v) /\ w[i] = v[i - n]
               /\ j - n \in 1 .. Len(v) /\ w[j] = v[j - n]
      <3>1. i - n < j - n
        BY <1>1, <1>3
      <3> QED
        BY <1>1, <2>3, <3>1 DEF Ordered
    <2>4. i \notin 1 .. n => j \notin 1 .. n
      BY <1>1, <1>3
    <2> QED
      BY <1>1, <2>1, <2>2, <2>3, <2>4
  <1> QED
    BY <1>1, <1>2, <1>3 DEF Ordered, w

\* The sequence does not begin inside of a Record.
Opens(w) == w = <<>> \/ w[1][1] \notin Inner

LEMMA JoinBlocks ==
  ASSUME NEW T, NEW u \in Seq(T), NEW v \in Seq(T), Blocks(u), Blocks(v), Opens(u), Opens(v)
  PROVE  Blocks(u \o v) /\ Opens(u \o v)
  <1> DEFINE w == u \o v
             n == Len(u)
  <1>1. /\ w \in Seq(T)
        /\ DOMAIN u = 1 .. n /\ DOMAIN v = 1 .. Len(v)
        /\ n \in Nat /\ Len(v) \in Nat
        /\ DOMAIN w = 1 .. n + Len(v)
        /\ \A i \in 1 .. n : w[i] = u[i]
        /\ \A i \in 1 .. Len(v) : w[n + i] = v[i]
        /\ \A i \in 1 .. n + Len(v) :
             i \in 1 .. n \/ (i - n \in 1 .. Len(v) /\ w[i] = v[i - n])
    BY JoinPlaces
  <1>2. Opens(w)
    <2>1. CASE u = <<>>
      BY <2>1 DEF Opens
    <2>2. CASE u # <<>>
      <3>1. 1 \in 1 .. n
        BY <2>2
      <3> QED
        BY <1>1, <2>2, <3>1 DEF Opens
    <2> QED
      BY <2>1, <2>2
  <1> HIDE DEF w, n
  <1>3. ASSUME NEW i \in DOMAIN w, w[i][1] \in Outer
        PROVE  i + 1 \in DOMAIN w /\ w[i + 1] = <<Then(w[i][1]), w[i][2]>>
    <2>1. CASE i \in 1 .. n
      <3>1. i + 1 \in 1 .. n /\ u[i + 1] = <<Then(u[i][1]), u[i][2]>>
        BY <1>1, <1>3, <2>1 DEF Blocks
      <3> QED
        BY <1>1, <2>1, <3>1
    <2>2. CASE i - n \in 1 .. Len(v) /\ w[i] = v[i - n]
      <3> DEFINE k == i - n
      <3>1. k + 1 \in 1 .. Len(v) /\ v[k + 1] = <<Then(v[k][1]), v[k][2]>>
        BY <1>1, <1>3, <2>2 DEF Blocks
      <3>2. n + (k + 1) = i + 1
        BY <1>1
      <3>3. w[n + (k + 1)] = v[k + 1] /\ n + (k + 1) \in DOMAIN w
        BY <1>1, <3>1
      <3> QED
        BY <2>2, <3>1, <3>2, <3>3
    <2> QED
      BY <1>1, <2>1, <2>2
  <1>4. ASSUME NEW i \in DOMAIN w, i > 1, w[i][1] \in Inner
        PROVE  w[i - 1][1] \in Outer
    <2>1. CASE i \in 1 .. n
      <3>1. i - 1 \in 1 .. n
        BY <1>1, <1>4, <2>1
      <3> QED
        BY <1>1, <1>4, <2>1, <3>1 DEF Blocks
    <2>2. CASE i - n \in 1 .. Len(v) /\ w[i] = v[i - n]
      <3>1. i - n # 1
        <4>1. v # <<>>
          BY <1>1, <2>2
        <4>2. v[1][1] \notin Inner
          BY <4>1 DEF Opens
        <4> QED
          BY <1>4, <2>2, <4>2
      <3> DEFINE k == (i - n) - 1
      <3>0. i \in Int /\ n \in Int /\ Len(v) \in Int
        BY <1>1
      <3>2. k \in 1 .. Len(v) /\ n + k = i - 1 /\ i - n > 1
        BY <2>2, <3>0, <3>1
      <3>3. v[k][1] \in Outer
        BY <1>1, <1>4, <2>2, <3>2 DEF Blocks
      <3>4. w[n + k] = v[k]
        BY <1>1, <3>2
      <3> QED
        BY <3>2, <3>3, <3>4
    <2> QED
      BY <1>1, <2>1, <2>2
  <1> QED
    BY <1>2, <1>3, <1>4 DEF Blocks, w

-----------------------------------------------------------------------------
\* The whole sequences: they are put together from pieces.

Piece(w) == w \in Seq(RequestOps) /\ Ordered(w) /\ Blocks(w) /\ Opens(w)
Apart(A, B) == \A a \in A, b \in B : ~Never(a, b)

LEMMA Joins ==
  ASSUME NEW u, NEW v, Piece(u), Piece(v), Apart(ToSet(u), ToSet(v))
  PROVE  Piece(u \o v) /\ ToSet(u \o v) = ToSet(u) \cup ToSet(v)
  <1>1. u \in Seq(RequestOps) /\ v \in Seq(RequestOps)
    BY DEF Piece
  <1>2. u \o v \in Seq(RequestOps) /\ Ordered(u \o v) /\ ToSet(u \o v) = ToSet(u) \cup ToSet(v)
    BY <1>1, JoinOrdered DEF Piece, Apart
  <1>3. Blocks(u \o v) /\ Opens(u \o v)
    BY <1>1, JoinBlocks DEF Piece
  <1> QED
    BY <1>2, <1>3 DEF Piece

\* An operation by itself.
LEMMA OnePiece ==
  ASSUME NEW x \in RequestOps, x[1] \notin Inner \cup Outer
  PROVE  Piece(<<x>>) /\ ToSet(<<x>>) = {x}
  <1>1. <<x>> \in Seq(RequestOps) /\ DOMAIN <<x>> = {1} /\ <<x>>[1] = x
    <2>1. DOMAIN <<x>> = 1 .. 1
      OBVIOUS
    <2> QED
      BY <2>1
  <1>2. ToSet(<<x>>) = {x}
    BY <1>1 DEF ToSet
  <1>3. Ordered(<<x>>)
    BY <1>1 DEF Ordered
  <1>4. Blocks(<<x>>) /\ Opens(<<x>>)
    BY <1>1 DEF Blocks, Opens
  <1> QED
    BY <1>1, <1>2, <1>3, <1>4 DEF Piece

LEMMA SinglePieces ==
  /\ Piece(Inc("APIRequests")) /\ ToSet(Inc("APIRequests")) = {oCall}
  /\ Piece(Inc("APIErrors")) /\ ToSet(Inc("APIErrors")) = {oErr}
  /\ Piece(Inc("GroupGets")) /\ ToSet(Inc("GroupGets")) = {oGet}
  /\ Piece(Inc("CacheHits")) /\ ToSet(Inc("CacheHits")) = {oHit}
  /\ Piece(Inc("CacheMisses")) /\ ToSet(Inc("CacheMisses")) = {oMiss}
  /\ Piece(Inc("PeerHTTPRequests")) /\ ToSet(Inc("PeerHTTPRequests")) = {oServe}
  /\ Piece(<<oLoad>>) /\ ToSet(<<oLoad>>) = {oLoad}
  <1>1. \A x \in {oCall, oErr, oGet, oHit, oMiss, oServe, oLoad} :
          x \in RequestOps /\ x[1] \notin Inner \cup Outer
    BY DEF RequestOps, GetOps, oCall, oErr, oGet, oHit, oMiss, oServe, oLoad, Inner, Outer
  <1>2. \A x \in {oCall, oErr, oGet, oHit, oMiss, oServe, oLoad} :
          Piece(<<x>>) /\ ToSet(<<x>>) = {x}
    BY <1>1, OnePiece
  <1>3. /\ Inc("APIRequests") = <<oCall>> /\ Inc("APIErrors") = <<oErr>>
        /\ Inc("GroupGets") = <<oGet>> /\ Inc("CacheHits") = <<oHit>>
        /\ Inc("CacheMisses") = <<oMiss>> /\ Inc("PeerHTTPRequests") = <<oServe>>
    BY DEF Inc, oCall, oErr, oGet, oHit, oMiss, oServe
  <1> QED
    BY <1>2, <1>3

LEMMA NoPiece ==
  Piece(<<>>) /\ ToSet(<<>>) = {}
  BY DEF Piece, ToSet, Ordered, Blocks, Opens

LEMMA RecordPiece ==
  ASSUME NEW s \in Series
  PROVE  Piece(Record(s)) /\ ToSet(Record(s)) = RecordOps(s) /\ RecordOps(s) \subseteq RequestOps
  <1> DEFINE w == Record(s)
  <1>1. RecordOps(s) \subseteq RequestOps
    BY DEF RequestOps, GetOps, Series
  <1>2. /\ DOMAIN w = 1 .. 5
        /\ w[1] = <<"count", s>> /\ w[2] = <<"total", s>> /\ w[3] = <<"enabled", s>>
        /\ w[4] = <<"sample", s>> /\ w[5] = <<"observe", s>>
    BY DEF Record
  <1>3. w \in Seq(RecordOps(s))
    BY DEF Record, RecordOps
  <1> HIDE DEF w
  <1>4. w \in Seq(RequestOps)
    BY <1>1, <1>3
  <1>5. DOMAIN w = {1, 2, 3, 4, 5}
    BY <1>2
  <1>6. ToSet(w) = RecordOps(s)
    BY <1>2, <1>5 DEF ToSet, RecordOps
  <1>7. Ordered(w)
    <2>1. ASSUME NEW i \in DOMAIN w, NEW j \in DOMAIN w, i < j, Never(w[i], w[j])
          PROVE  FALSE
      <3>1. w[i] \in RecordOps(s) /\ w[j] \in RecordOps(s)
        BY <1>6 DEF ToSet
      <3>2. w[i] = oTime(s) /\ w[j] = w[i]
        BY <1>1, <2>1, <3>1, NeverRecord
      <3>3. i = 1 /\ j = 1
        BY <1>2, <1>5, <3>2 DEF oTime
      <3> QED
        BY <2>1, <3>3
    <2> QED
      BY <2>1 DEF Ordered
  <1>8. Blocks(w)
    <2>1. ASSUME NEW i \in DOMAIN w, w[i][1] \in Outer
          PROVE  i + 1 \in DOMAIN w /\ w[i + 1] = <<Then(w[i][1]), w[i][2]>>
      <3>1. i \in {1, 2, 3, 4}
        BY <1>2, <1>5, <2>1 DEF Outer
      <3> QED
        BY <1>2, <1>5, <3>1 DEF Then
    <2>2. ASSUME NEW i \in DOMAIN w, i > 1
          PROVE  w[i - 1][1] \in Outer
      <3>1. i \in {2, 3, 4, 5}
        BY <1>5, <2>2
      <3> QED
        BY <1>2, <3>1 DEF Outer
    <2> QED
      BY <2>1, <2>2 DEF Blocks
  <1>9. Opens(w)
    BY <1>2 DEF Opens, Inner
  <1> QED
    BY <1>1, <1>4, <1>6, <1>7, <1>8, <1>9 DEF Piece, w

\* What may come in front of, and behind, what.
LEMMA ApartRules ==
  ASSUME NEW A \in SUBSET RequestOps
  PROVE  /\ oErr \notin A => Apart(A, {oErr})
         /\ oHit \notin A => Apart(A, {oHit})
         /\ oLoad \notin A => Apart(A, {oLoad})
         /\ oMiss \notin A /\ oLoad \notin A => Apart(A, {oMiss})
         /\ oCall \notin A => Apart({oCall}, A)
         /\ Apart({oServe}, A)
         /\ Apart(A, RecordOps("cache"))
         /\ oTime("group") \notin A => Apart(A, RecordOps("group"))
         /\ oTime("api") \notin A => Apart(A, RecordOps("api"))
  <1>1. \A x \in {oCall, oErr, oServe, oHit, oMiss, oLoad} : x \in RequestOps
    BY DEF RequestOps, GetOps
  <1>2. \A s : /\ oTime(s) # oCall /\ oTime(s) # oErr /\ oTime(s) # oServe
               /\ oTime(s) # oHit /\ oTime(s) # oMiss /\ oTime(s) # oLoad
    BY DEF oTime, oCall, oErr, oServe, oHit, oMiss, oLoad
  <1>3. /\ oErr # oCall /\ oErr # oGet /\ oErr # oMiss
        /\ oHit # oCall /\ oHit # oGet /\ oHit # oMiss
        /\ oLoad # oCall /\ oLoad # oGet /\ oLoad # oMiss
        /\ oMiss # oCall /\ oMiss # oGet /\ oCall # oHit /\ oCall # oErr
        /\ \A x \in {oCall, oErr, oGet, oHit, oMiss, oLoad} : oServe # x
    BY DEF oErr, oCall, oGet, oHit, oMiss, oServe, oLoad
  <1> HIDE DEF RequestOps
  <1>4. ASSUME NEW a \in A
        PROVE  /\ Never(a, oErr) => a = oErr
               /\ Never(a, oHit) => a = oHit
               /\ Never(a, oLoad) => a = oLoad
               /\ Never(a, oMiss) => a = oMiss \/ a = oLoad
    BY <1>1, <1>3, NeverRequest
  <1>5. ASSUME NEW a \in A
        PROVE  /\ Never(oCall, a) => a = oCall
               /\ ~Never(oServe, a)
    BY <1>1, <1>2, <1>3, NeverRequest
  <1>6. ASSUME NEW a \in A, NEW s \in Series, NEW b \in RecordOps(s), Never(a, b)
        PROVE  a = oTime(s) /\ s # "cache"
    BY <1>6, NeverRecord
  <1>7. {"cache", "group", "api"} \subseteq Series
    BY DEF Series
  <1>8. Apart(A, RecordOps("cache"))
    BY <1>6, <1>7 DEF Apart
  <1>9. oTime("group") \notin A => Apart(A, RecordOps("group"))
    BY <1>6, <1>7 DEF Apart
  <1>10. oTime("api") \notin A => Apart(A, RecordOps("api"))
    BY <1>6, <1>7 DEF Apart
  <1> QED
    BY <1>4, <1>5, <1>8, <1>9, <1>10 DEF Apart

\* cache.get, and what degradeFromCaches does.
LEMMA CachePieces ==
  /\ Piece(CacheGet) /\ ToSet(CacheGet) = RecordOps("cache")
  /\ \A w \in {<<>>, ActiveHit, StaleHit} \cup Nowhere :
       Piece(w) /\ ToSet(w) \subseteq RecordOps("cache") \cup {oHit}
  <1> DEFINE R == RecordOps("cache")
  <1>1. Piece(CacheGet) /\ ToSet(CacheGet) = R /\ R \subseteq RequestOps
    BY RecordPiece DEF CacheGet, Series
  <1>2. oHit \notin R
    BY DEF RecordOps, oHit
  <1> HIDE DEF R
  <1>3. Apart(R, R) /\ Apart(R, {oHit})
    BY <1>1, <1>2, ApartRules DEF R
  <1>4. Piece(CacheGet \o CacheGet) /\ ToSet(CacheGet \o CacheGet) = R
    BY <1>1, <1>3, Joins
  <1>5. \A w : Piece(w) /\ ToSet(w) = R =>
          Piece(w \o Inc("CacheHits")) /\ ToSet(w \o Inc("CacheHits")) = R \cup {oHit}
    <2>1. ASSUME NEW w, ToSet(w) = R
          PROVE  Apart(ToSet(w), ToSet(Inc("CacheHits")))
      BY <1>3, <2>1, SinglePieces DEF Apart
    <2> QED
      BY <2>1, SinglePieces, Joins
  <1>6. Piece(ActiveHit) /\ ToSet(ActiveHit) = R \cup {oHit}
    BY <1>1, <1>5 DEF ActiveHit
  <1>7. Piece(StaleHit) /\ ToSet(StaleHit) = R \cup {oHit}
    BY <1>4, <1>5 DEF StaleHit
  <1> QED
    BY <1>1, <1>4, <1>6, <1>7, NoPiece DEF Nowhere, R

\* A Get, from its beginning: what it counts first and what it counts last.
GetLike(w) ==
  /\ Piece(w) /\ ToSet(w) \subseteq GetOps
  /\ oTime("group") \in ToSet(w)
  /\ oGet \in ToSet(w) => oHit \in ToSet(w) \/ oMiss \in ToSet(w)
  /\ oHit \in ToSet(w) \/ oMiss \in ToSet(w) => oGet \in ToSet(w)
  /\ oLoad \in ToSet(w) => oMiss \in ToSet(w)

LEMMA GetPieces ==
  \A w \in Served \cup Failed : GetLike(w)
  <1> DEFINE R == RecordOps("cache")
             G == RecordOps("group")
  <1>1. /\ Piece(Record("group")) /\ ToSet(Record("group")) = G
        /\ G \subseteq RequestOps /\ R \subseteq RequestOps
    BY RecordPiece DEF Series
  <1>2. /\ oTime("group") \in G
        /\ \A x \in {oGet, oHit, oMiss, oLoad} : x \notin R /\ x \notin G
        /\ \A x \in R \cup {oGet, oHit, oMiss, oLoad} : x # oTime("group")
    BY DEF RecordOps, oTime, oGet, oHit, oMiss, oLoad
  <1>3. /\ \A x \in {oGet, oHit, oMiss, oLoad} : x \in RequestOps
        /\ GetOps = {oGet, oHit, oMiss, oLoad} \cup R \cup G
    BY DEF RequestOps, GetOps
  <1>4. /\ oGet # oHit /\ oGet # oMiss /\ oGet # oLoad
        /\ oHit # oMiss /\ oHit # oLoad /\ oMiss # oLoad
    BY DEF oGet, oHit, oMiss, oLoad
  <1> DEFINE a == Inc("GroupGets") \o CacheGet
  <1>5. Piece(a) /\ ToSet(a) = {oGet} \cup R
    <2>1. Apart({oGet}, R)
      BY <1>3, ApartRules
    <2>2. Apart(ToSet(Inc("GroupGets")), ToSet(CacheGet))
      BY <2>1, SinglePieces, CachePieces DEF Apart
    <2> QED
      BY <2>2, SinglePieces, CachePieces, Joins
  <1> HIDE DEF R, G, a
  <1>6. GetLike(Hit)
    <2> DEFINE b == a \o Inc("CacheHits")
    <2>1. Piece(b) /\ ToSet(b) = {oGet, oHit} \cup R
      <3>1. Apart({oGet} \cup R, {oHit})
        BY <1>1, <1>2, <1>3, <1>4, ApartRules
      <3>2. Apart(ToSet(a), ToSet(Inc("CacheHits")))
        BY <1>5, <3>1, SinglePieces DEF Apart
      <3>3. Piece(b) /\ ToSet(b) = ToSet(a) \cup ToSet(Inc("CacheHits"))
        BY <1>5, <3>2, SinglePieces, Joins
      <3> QED
        BY <1>5, <3>3, SinglePieces
    <2> HIDE DEF b
    <2>2. Apart({oGet, oHit} \cup R, G)
      BY <1>1, <1>2, <1>3, ApartRules DEF G
    <2>3. Piece(b \o Record("group")) /\ ToSet(b \o Record("group")) = {oGet, oHit} \cup R \cup G
      <3>1. Apart(ToSet(b), ToSet(Record("group")))
        BY <1>1, <2>1, <2>2 DEF Apart
      <3> QED
        BY <1>1, <2>1, <3>1, Joins
    <2>4. Hit = b \o Record("group")
      BY DEF Hit, b, a
    <2> QED
      BY <1>2, <1>3, <1>4, <2>3, <2>4 DEF GetLike
  <1>7. ASSUME NEW w \in {<<>>, ActiveHit, StaleHit} \cup Nowhere
        PROVE  GetLike(Miss(w))
    <2> DEFINE b == a \o Inc("CacheMisses")
               c == b \o <<oLoad>>
               d == c \o w
    <2>0. Piece(w) /\ ToSet(w) \subseteq R \cup {oHit}
      BY CachePieces DEF R
    <2>1. Piece(b) /\ ToSet(b) = {oGet, oMiss} \cup R
      <3>1. Apart({oGet} \cup R, {oMiss})
        BY <1>1, <1>2, <1>3, <1>4, ApartRules
      <3>2. Apart(ToSet(a), ToSet(Inc("CacheMisses")))
        BY <1>5, <3>1, SinglePieces DEF Apart
      <3>3. Piece(b) /\ ToSet(b) = ToSet(a) \cup ToSet(Inc("CacheMisses"))
        BY <1>5, <3>2, SinglePieces, Joins
      <3> QED
        BY <1>5, <3>3, SinglePieces
    <2> HIDE DEF b
    <2>2. Piece(c) /\ ToSet(c) = {oGet, oMiss, oLoad} \cup R
      <3>1. Apart({oGet, oMiss} \cup R, {oLoad})
        BY <1>1, <1>2, <1>3, <1>4, ApartRules
      <3>2. Apart(ToSet(b), ToSet(<<oLoad>>))
        BY <2>1, <3>1, SinglePieces DEF Apart
      <3>3. Piece(c) /\ ToSet(c) = ToSet(b) \cup ToSet(<<oLoad>>)
        BY <2>1, <3>2, SinglePieces, Joins
      <3> QED
        BY <2>1, <3>3, SinglePieces
    <2> HIDE DEF c
    <2>3. Piece(d) /\ ToSet(d) = {oGet, oMiss, oLoad} \cup R \cup ToSet(w)
      <3>1. Apart({oGet, oMiss, oLoad} \cup R, {oHit})
        BY <1>1, <1>2, <1>3, <1>4, ApartRules
      <3>2. Apart({oGet, oMiss, oLoad} \cup R, R)
        BY <1>1, <1>2, <1>3, <1>4, ApartRules DEF R
      <3>3. Apart(ToSet(c), ToSet(w))
        BY <2>0, <2>2, <3>1, <3>2 DEF Apart
      <3> QED
        BY <2>0, <2>2, <3>3, Joins
    <2> HIDE DEF d
    <2>4. /\ ToSet(d) \subseteq {oGet, oHit, oMiss, oLoad} \cup R
          /\ {oGet, oMiss, oLoad} \subseteq ToSet(d)
      BY <2>0, <2>3
    <2>5. Apart(ToSet(d), G)
      BY <1>1, <1>2, <1>3, <2>4, ApartRules DEF G
    <2>6. Piece(d \o Record("group")) /\ ToSet(d \o Record("group")) = ToSet(d) \cup G
      BY <1>1, <2>3, <2>5, Joins
    <2>7. Miss(w) = d \o Record("group")
      BY DEF Miss, d, c, b, a, oLoad
    <2> QED
      BY <1>2, <1>3, <1>4, <2>4, <2>6, <2>7 DEF GetLike
  <1>8. GetLike(NoKey)
    BY <1>1, <1>2, <1>3 DEF GetLike, NoKey
  <1> QED
    BY <1>6, <1>7, <1>8 DEF Served, Failed

\* What a request has to do when it begins.
Fresh(w) ==
  /\ RequestRest(w) /\ Opens(w)
  /\ oHit \in ToSet(w) \/ oMiss \in ToSet(w) => oGet \in ToSet(w)
  /\ oLoad \in ToSet(w) => oMiss \in ToSet(w)
  /\ oErr \in ToSet(w) \/ oTime("api") \in ToSet(w) => oCall \in ToSet(w)

LEMMA RequestPieces ==
  \A w \in APIGet \cup APIIncrement \cup ServePeer : Fresh(w)
  <1> DEFINE Q == RecordOps("api")
  <1>1. /\ Piece(Record("api")) /\ ToSet(Record("api")) = Q /\ Q \subseteq RequestOps
        /\ oTime("api") \in Q
    BY RecordPiece DEF Series, RecordOps, oTime
  <1>2. /\ \A x \in {oCall, oErr, oServe} : x \notin GetOps /\ x \notin Q /\ x # oTime("api")
        /\ \A x \in {oGet, oHit, oMiss, oLoad, oTime("group")} : x \notin Q
        /\ \A x \in GetOps : x # oTime("api")
    BY DEF RecordOps, GetOps, oTime, oGet, oHit, oMiss, oLoad, oCall, oErr, oServe
  <1>3. /\ oErr # oCall /\ oServe # oCall /\ oServe # oErr
        /\ \A x \in {oGet, oHit, oMiss, oLoad, oTime("group")} : x \in GetOps
    BY DEF oCall, oErr, oServe, RecordOps, GetOps, oTime
  <1>4. GetOps \subseteq RequestOps /\ {oCall, oErr, oServe} \subseteq RequestOps
    BY DEF RequestOps
  <1>5. \A w \in {<<>>} \cup Served \cup Failed :
          /\ Piece(w) /\ ToSet(w) \subseteq GetOps
          /\ oGet \in ToSet(w) =>
               (oHit \in ToSet(w) \/ oMiss \in ToSet(w)) /\ oTime("group") \in ToSet(w)
          /\ oHit \in ToSet(w) \/ oMiss \in ToSet(w) => oGet \in ToSet(w)
          /\ oLoad \in ToSet(w) => oMiss \in ToSet(w)
    BY GetPieces, NoPiece DEF GetLike
  <1> HIDE DEF Q
  <1>6. ASSUME NEW w \in {<<>>} \cup Served \cup Failed, NEW e \in {<<>>, Inc("APIErrors")}
        PROVE  Fresh(Inc("APIRequests") \o w \o e \o Record("api"))
    <2> DEFINE a == Inc("APIRequests") \o w
               b == a \o e
               c == b \o Record("api")
    <2>1. Piece(a) /\ ToSet(a) = {oCall} \cup ToSet(w)
      <3>1. Apart({oCall}, ToSet(w))
        BY <1>2, <1>4, <1>5, ApartRules
      <3>2. Apart(ToSet(Inc("APIRequests")), ToSet(w))
        BY <3>1, SinglePieces DEF Apart
      <3> QED
        BY <1>5, <3>2, SinglePieces, Joins
    <2> HIDE DEF a
    <2>2. Piece(b) /\ ToSet(b) = {oCall} \cup ToSet(w) \cup ToSet(e) /\ ToSet(e) \subseteq {oErr}
      <3>1. Piece(e) /\ ToSet(e) \subseteq {oErr}
        BY SinglePieces, NoPiece
      <3>2. Apart(ToSet(a), {oErr})
        BY <1>2, <1>3, <1>4, <1>5, <2>1, ApartRules
      <3>3. Apart(ToSet(a), ToSet(e))
        BY <3>1, <3>2 DEF Apart
      <3> QED
        BY <2>1, <3>1, <3>3, Joins
    <2> HIDE DEF b
    <2>3. Piece(c) /\ ToSet(c) = ToSet(b) \cup Q
      <3>1. ToSet(b) \subseteq RequestOps /\ oTime("api") \notin ToSet(b)
        BY <1>2, <1>3, <1>4, <1>5, <2>2
      <3>2. Apart(ToSet(b), Q)
        BY <3>1, ApartRules DEF Q
      <3> QED
        BY <1>1, <2>2, <3>2, Joins
    <2>4. c = Inc("APIRequests") \o w \o e \o Record("api")
      BY DEF a, b
    <2> HIDE DEF c
    <2>5. /\ oCall \in ToSet(c) /\ oTime("api") \in ToSet(c)
          /\ \A x \in {oGet, oHit, oMiss, oLoad, oTime("group")} : x \in ToSet(c) <=> x \in ToSet(w)
      BY <1>1, <1>2, <1>3, <2>2, <2>3
    <2>6. NeedInv(ToSet(c))
      BY <1>5, <2>5 DEF NeedInv
    <2>7. Fresh(c)
      BY <1>5, <2>3, <2>5, <2>6 DEF Fresh, RequestRest, Piece
    <2> QED
      BY <2>4, <2>7
  <1>7. ASSUME NEW w \in {<<>>} \cup Served \cup Failed
        PROVE  Fresh(Inc("PeerHTTPRequests") \o w)
    <2> DEFINE c == Inc("PeerHTTPRequests") \o w
    <2>1. Piece(c) /\ ToSet(c) = {oServe} \cup ToSet(w)
      <3>1. Apart({oServe}, ToSet(w))
        BY <1>2, <1>4, <1>5, ApartRules
      <3>2. Apart(ToSet(Inc("PeerHTTPRequests")), ToSet(w))
        BY <3>1, SinglePieces DEF Apart
      <3> QED
        BY <1>5, <3>2, SinglePieces, Joins
    <2> HIDE DEF c
    <2>2. /\ oCall \notin ToSet(c) /\ oErr \notin ToSet(c) /\ oTime("api") \notin ToSet(c)
          /\ \A x \in {oGet, oHit, oMiss, oLoad, oTime("group")} : x \in ToSet(c) <=> x \in ToSet(w)
      BY <1>2, <1>3, <1>5, <2>1
    <2>3. NeedInv(ToSet(c))
      BY <1>5, <2>2 DEF NeedInv
    <2>4. Fresh(c)
      BY <1>5, <2>1, <2>2, <2>3 DEF Fresh, RequestRest, Piece
    <2> QED
      BY <2>4 DEF c
  <1>8. ASSUME NEW w \in APIGet \cup APIIncrement
        PROVE  Fresh(w)
    <2>1. \E v \in {<<>>} \cup Served \cup Failed, e \in {<<>>, Inc("APIErrors")} :
            w = Inc("APIRequests") \o v \o e \o Record("api")
      BY DEF APIGet, APIIncrement, API
    <2> QED
      BY <1>6, <2>1
  <1>9. ASSUME NEW w \in ServePeer
        PROVE  Fresh(w)
    BY <1>7 DEF ServePeer
  <1> QED
    BY <1>8, <1>9

LEMMA NeverLoader ==
  ASSUME NEW a \in LoaderOps, NEW b \in LoaderOps
  PROVE  Never(a, b) <=> (a # oPeer /\ b # oPeer) \/ (a = oPeer /\ b = oPeer)
  <1>1. \A x \in LoaderOps :
          /\ \A f : x # <<"read", f>> /\ x # <<"store95", f>> /\ x # <<"store99", f>>
                    /\ x # <<"drain", f>> /\ x # oTime(f)
          /\ x # oCall /\ x # oErr /\ x # oGet /\ x # oHit /\ x # oMiss /\ x # oLoad
    BY DEF LoaderOps, oPeer, oFilter, oLocal, oCall, oErr, oGet, oHit, oMiss, oLoad, oTime
  <1>2. oPeer # oFilter /\ oPeer # oLocal
    BY DEF oPeer, oFilter, oLocal
  <1>3. \A x \in LoaderOps : x = oPeer \/ x = oFilter \/ x = oLocal
    BY DEF LoaderOps
  <1> HIDE DEF LoaderOps
  <1> QED
    BY <1>1, <1>2, <1>3 DEF Never

LEMMA Pair ==
  ASSUME NEW T, NEW a \in T, NEW b \in T
  PROVE  <<a>> \o <<b>> = <<a, b>>
  <1> DEFINE u == <<a>> \o <<b>>
             v == <<a, b>>
  <1>1. /\ u \in Seq(T) /\ Len(u) = 2 /\ u[1] = a /\ u[2] = b
        /\ v \in Seq(T) /\ Len(v) = 2 /\ v[1] = a /\ v[2] = b
    OBVIOUS
  <1> HIDE DEF u, v
  <1>2. \A i \in 1 .. 2 : u[i] = v[i]
    BY <1>1
  <1>3. u = v
    BY <1>1, <1>2
  <1> QED
    BY <1>3 DEF u, v

LEMMA LoadPieces ==
  \A w \in Load : LoaderRest(w)
  <1>0. oPeer # oFilter /\ oPeer # oLocal /\ {oPeer, oFilter, oLocal} = LoaderOps
    BY DEF oPeer, oFilter, oLocal, LoaderOps
  <1>1. LoaderRest(<<>>)
    BY DEF LoaderRest, Ordered
  <1>2. ASSUME NEW x \in LoaderOps
        PROVE  LoaderRest(<<x>>)
    <2>1. DOMAIN <<x>> = 1 .. 1 /\ <<x>> \in Seq(LoaderOps)
      OBVIOUS
    <2> QED
      BY <2>1 DEF LoaderRest, Ordered
  <1>3. ASSUME NEW x \in LoaderOps, x # oPeer
        PROVE  LoaderRest(<<oPeer, x>>)
    <2> DEFINE w == <<oPeer, x>>
    <2>1. DOMAIN w = 1 .. 2 /\ w \in Seq(LoaderOps) /\ w[1] = oPeer /\ w[2] = x
      BY <1>0
    <2>2. ~Never(oPeer, x)
      BY <1>0, <1>3, NeverLoader
    <2> HIDE DEF w
    <2>3. \A i, j \in DOMAIN w : i < j => i = 1 /\ j = 2
      BY <2>1
    <2> QED
      BY <2>1, <2>2, <2>3 DEF LoaderRest, Ordered, w
  <1>4. ASSUME NEW w \in Load
        PROVE  LoaderRest(w)
    <2>1. /\ Inc("PeerLoads") = <<oPeer>> /\ Inc("FilterMisses") = <<oFilter>>
          /\ Inc("LocalLoads") = <<oLocal>>
      BY DEF Inc, oPeer, oFilter, oLocal
    <2>2. PICK peer \in {<<>>, <<oPeer>>}, here \in {<<oFilter>>, <<oLocal>>, <<>>} :
            w = peer \o here
      <3>1. PICK peer \in {<<>>, Inc("PeerLoads")},
                 here \in {Inc("FilterMisses"), Inc("LocalLoads"), <<>>} : w = peer \o here
        BY DEF Load
      <3>2. peer \in {<<>>, <<oPeer>>} /\ here \in {<<oFilter>>, <<oLocal>>, <<>>}
        BY <2>1
      <3> QED
        BY <3>1, <3>2
    <2>3. CASE peer = <<>>
      <3>1. w = here
        BY <2>2, <2>3
      <3> QED
        BY <1>0, <1>1, <1>2, <2>2, <3>1
    <2>4. CASE peer = <<oPeer>> /\ here = <<>>
      <3>1. w = <<oPeer>>
        BY <2>2, <2>4
      <3> QED
        BY <1>0, <1>2, <3>1
    <2>5. CASE peer = <<oPeer>> /\ here # <<>>
      <3>1. PICK x \in {oFilter, oLocal} : here = <<x>>
        BY <2>2, <2>5
      <3>2. w = <<oPeer>> \o <<x>>
        BY <2>2, <2>5, <3>1
      <3>3. <<oPeer>> \o <<x>> = <<oPeer, x>>
        BY <1>0, Pair
      <3> QED
        BY <1>0, <1>3, <3>1, <3>2, <3>3
    <2> QED
      BY <2>3, <2>4, <2>5
  <1> QED
    BY <1>4

-----------------------------------------------------------------------------
\* The sequences of the readers and of the logger.
LEMMA NeverRead ==
  ASSUME NEW f, NEW b, Never(<<"read", f>>, b)
  PROVE  \/ b = <<"read", "GroupGets">> /\ f \in {"CacheHits", "CacheMisses"}
         \/ \E s \in Series :
              \/ b = <<"read", LastP95[s]>> /\ f = LastP99[s]
              \/ b \in {<<"store95", s>>, <<"store99", s>>} /\ f \in {LastP95[s], LastP99[s]}
  <1> DEFINE a == <<"read", f>>
  <1>1. /\ \A s : a # <<"store95", s>> /\ a # <<"store99", s>> /\ a # <<"drain", s>> /\ a # oTime(s)
        /\ a \notin {oCall, oErr, oGet, oHit, oMiss, oLoad, oPeer, oFilter, oLocal}
    BY DEF oCall, oErr, oGet, oHit, oMiss, oLoad, oPeer, oFilter, oLocal, oTime
  <1>2. \A g : a = <<"read", g>> => f = g
    OBVIOUS
  <1> HIDE DEF a
  <1>3. Never(a, b)
    BY DEF a
  <1> QED
    BY <1>1, <1>2, <1>3 DEF Never

LEMMA NeverTick ==
  ASSUME NEW o \in {"drain", "store95", "store99"}, NEW s, NEW b, Never(<<o, s>>, b)
  PROVE  \/ b = <<"store95", s>> /\ o # "drain"
         \/ b = <<"store99", s>> /\ o = "store99"
         \/ b = <<"drain", s>> /\ o # "drain"
  <1> DEFINE a == <<o, s>>
  <1>1. /\ \A f : a # <<"read", f>> /\ a # oTime(f)
        /\ a \notin {oCall, oErr, oGet, oHit, oMiss, oLoad, oPeer, oFilter, oLocal}
    BY DEF oCall, oErr, oGet, oHit, oMiss, oLoad, oPeer, oFilter, oLocal, oTime
  <1>2. /\ \A g : a = <<"store95", g>> => s = g /\ o = "store95"
        /\ \A g : a = <<"store99", g>> => s = g /\ o = "store99"
    OBVIOUS
  <1> HIDE DEF a
  <1>3. Never(a, b)
    BY DEF a
  <1> QED
    BY <1>1, <1>2, <1>3 DEF Never

\* Where the fields are, as far as their order matters.
LEMMA FieldPlaces ==
  /\ DOMAIN Fields = 1 .. 21
  /\ \A i \in 1 .. 21 :
       /\ Fields[i] = "GroupGets" <=> i = 7
       /\ Fields[i] = "CacheHits" <=> i = 12
       /\ Fields[i] = "CacheMisses" <=> i = 13
       /\ Fields[i] = "APILastP95Micros" <=> i = 5
       /\ Fields[i] = "APILastP99Micros" <=> i = 6
       /\ Fields[i] = "GroupGetLastP95Micros" <=> i = 10
       /\ Fields[i] = "GroupGetLastP99Micros" <=> i = 11
       /\ Fields[i] = "CacheGetLastP95Micros" <=> i = 16
       /\ Fields[i] = "CacheGetLastP99Micros" <=> i = 17
  BY DEF Fields

LEMMA SnapshotPiece ==
  /\ Snapshot \in Seq(ReadOps) /\ Ordered(Snapshot)
  /\ ToSet(Snapshot) = ReadOps
  /\ ReadInv(ReadOps) /\ LogInv(ReadOps)
  <1>1. DOMAIN Fields = 1 .. 21
    BY FieldPlaces
  <1>2. Snapshot = [i \in 1 .. 21 |-> <<"read", Fields[i]>>]
    BY <1>1 DEF Snapshot
  <1>3. \A i \in 1 .. 21 : Fields[i] \in Field
    BY <1>1 DEF Field, ToSet
  <1>4. Snapshot \in Seq(ReadOps) /\ DOMAIN Snapshot = 1 .. 21
    <2>1. Snapshot \in [1 .. 21 -> ReadOps]
      BY <1>2, <1>3 DEF ReadOps
    <2> HIDE DEF ReadOps
    <2>2. 21 \in Nat /\ DOMAIN Snapshot = 1 .. 21
      BY <2>1
    <2> QED
      BY <2>1, <2>2, SeqDef
  <1>5. ToSet(Snapshot) = ReadOps
    <2>1. ToSet(Snapshot) = {Snapshot[i] : i \in 1 .. 21}
      BY <1>4 DEF ToSet
    <2>2. Field = {Fields[i] : i \in 1 .. 21}
      BY <1>1 DEF Field, ToSet
    <2>3. \A i \in 1 .. 21 : Snapshot[i] = <<"read", Fields[i]>>
      BY <1>2
    <2> QED
      BY <2>1, <2>2, <2>3 DEF ReadOps
  <1>6. ASSUME NEW i \in 1 .. 21, NEW j \in 1 .. 21, i < j, Never(Snapshot[i], Snapshot[j])
        PROVE  FALSE
    <2>1. Snapshot[i] = <<"read", Fields[i]>> /\ Snapshot[j] = <<"read", Fields[j]>>
      BY <1>2
    <2>2. \/ Fields[j] = "GroupGets" /\ Fields[i] \in {"CacheHits", "CacheMisses"}
          \/ \E s \in Series : Fields[j] = LastP95[s] /\ Fields[i] = LastP99[s]
      BY <1>6, <2>1, NeverRead
    <2> QED
      BY <1>6, <2>2, FieldPlaces DEF Series, LastP95, LastP99
  <1>7. /\ {"GroupGets", "CacheHits", "CacheMisses"} \subseteq Field
        /\ \A s \in Series : LastP95[s] \in Field /\ LastP99[s] \in Field
    <2>1. {Fields[5], Fields[6], Fields[7], Fields[10], Fields[11], Fields[12], Fields[13],
           Fields[16], Fields[17]} \subseteq Field
      BY <1>3
    <2> QED
      BY <2>1, FieldPlaces DEF Series, LastP95, LastP99
  <1>8. ReadInv(ReadOps) /\ LogInv(ReadOps)
    BY <1>7 DEF ReadInv, LogInv, ReadOps
  <1> QED
    BY <1>4, <1>5, <1>6, <1>8 DEF Ordered

LEMMA TickPiece ==
  /\ LoggerRest(Tick)
  /\ ReadOps \subseteq ToSet(Tick) /\ \A s \in Series : <<"store95", s>> \in ToSet(Tick)
  <1> DEFINE u == << <<"drain", "api">>, <<"drain", "group">>, <<"drain", "cache">>,
                     <<"store95", "api">>, <<"store99", "api">>, <<"store95", "group">>,
                     <<"store99", "group">>, <<"store95", "cache">>, <<"store99", "cache">> >>
  <1>1. /\ DOMAIN u = 1 .. 9
        /\ \A i \in 1 .. 3 : u[i] = <<"drain", u[i][2]>>
        /\ \A i \in {4, 6, 8} : u[i] = <<"store95", u[i][2]>>
        /\ \A i \in {5, 7, 9} : u[i] = <<"store99", u[i][2]>>
        /\ u[1][2] = "api" /\ u[2][2] = "group" /\ u[3][2] = "cache"
        /\ u[4][2] = "api" /\ u[6][2] = "group" /\ u[8][2] = "cache"
        /\ u[5][2] = "api" /\ u[7][2] = "group" /\ u[9][2] = "cache"
    OBVIOUS
  <1>2. u \in Seq(TickOps)
    <2>1. {<<"drain", "api">>, <<"drain", "group">>, <<"drain", "cache">>,
           <<"store95", "api">>, <<"store99", "api">>, <<"store95", "group">>,
           <<"store99", "group">>, <<"store95", "cache">>, <<"store99", "cache">>} \subseteq TickOps
      BY DEF TickOps, Series
    <2> HIDE DEF TickOps
    <2> QED
      BY <2>1
  <1>3. Tick = u \o Snapshot
    BY DEF Tick
  <1> HIDE DEF u
  <1>4. Ordered(u)
    <2>1. ASSUME NEW i \in 1 .. 9, NEW j \in 1 .. 9, i < j, Never(u[i], u[j])
          PROVE  FALSE
      <3>1. /\ i <= 3 \/ i \in {4, 6, 8} \/ i \in {5, 7, 9}
            /\ j <= 3 \/ j \in {4, 6, 8} \/ j \in {5, 7, 9}
        OBVIOUS
      <3>2. CASE i <= 3
        <4>1. u[i] = <<"drain", u[i][2]>>
          BY <1>1, <3>2
        <4>2. Never(<<"drain", u[i][2]>>, u[j])
          BY <2>1, <4>1
        <4> QED
          BY <4>2, NeverTick
      <3>3. CASE i \in {4, 6, 8}
        <4>1. u[j] = <<"store95", u[i][2]>> \/ u[j] = <<"drain", u[i][2]>>
          BY <1>1, <2>1, <3>3, NeverTick
        <4>2. j > 3 /\ j \in {4, 6, 8} /\ u[j][2] = u[i][2]
          BY <1>1, <2>1, <3>1, <3>3, <4>1
        <4> QED
          BY <1>1, <2>1, <3>3, <4>2
      <3>4. CASE i \in {5, 7, 9}
        <4>1. \/ u[j] = <<"store95", u[i][2]>> \/ u[j] = <<"drain", u[i][2]>>
              \/ u[j] = <<"store99", u[i][2]>>
          BY <1>1, <2>1, <3>4, NeverTick
        <4>2. j > 3 /\ u[j][2] = u[i][2]
          BY <2>1, <3>4, <4>1
        <4> QED
          BY <1>1, <2>1, <3>1, <3>4, <4>2
      <3> QED
        BY <3>1, <3>2, <3>3, <3>4
    <2> QED
      BY <1>1, <2>1 DEF Ordered
  <1>5. ASSUME NEW a \in TickOps, NEW b \in ReadOps
        PROVE  ~Never(a, b)
    <2>1. PICK o \in {"drain", "store95", "store99"}, s \in Series : a = <<o, s>>
      BY DEF TickOps
    <2>2. PICK f \in Field : b = <<"read", f>>
      BY DEF ReadOps
    <2> QED
      BY <2>1, <2>2, NeverTick
  <1>6. ToSet(u) \subseteq TickOps
    <2>1. \A i \in DOMAIN u : u[i] \in TickOps
      BY <1>2
    <2> QED
      BY <2>1 DEF ToSet
  <1>7. u \in Seq(LoggerOps) /\ Snapshot \in Seq(LoggerOps)
    BY <1>2, SnapshotPiece DEF LoggerOps
  <1>8. Tick \in Seq(LoggerOps) /\ Ordered(Tick) /\ ToSet(Tick) = ToSet(u) \cup ReadOps
    BY <1>3, <1>4, <1>5, <1>6, <1>7, SnapshotPiece, JoinOrdered
  <1>9. \A f : <<"read", f>> \notin TickOps
    BY DEF TickOps
  <1>11. \A s \in Series : <<"store95", s>> \in ToSet(Tick) /\ <<"store99", s>> \in ToSet(Tick)
    <2>1. \A i \in 1 .. 9 : u[i] \in ToSet(u)
      BY <1>1 DEF ToSet
    <2>2. {u[4], u[5], u[6], u[7], u[8], u[9]} \subseteq ToSet(Tick)
      BY <1>8, <2>1
    <2>3. /\ u[4] = <<"store95", "api">> /\ u[6] = <<"store95", "group">>
          /\ u[8] = <<"store95", "cache">> /\ u[5] = <<"store99", "api">>
          /\ u[7] = <<"store99", "group">> /\ u[9] = <<"store99", "cache">>
      BY DEF u
    <2> QED
      BY <2>2, <2>3 DEF Series
  <1>10. ReadInv(ToSet(Tick)) /\ LogInv(ToSet(Tick))
    <2>1. \A f : <<"read", f>> \in ToSet(Tick) <=> <<"read", f>> \in ReadOps
      BY <1>6, <1>8, <1>9
    <2> QED
      BY <1>11, <2>1, SnapshotPiece DEF ReadInv, LogInv
  <1> QED
    BY <1>8, <1>10, <1>11 DEF LoggerRest

LEMMA SwitchPieces ==
  \A w \in Switch : AdminRest(w)
  <1>1. ASSUME NEW b \in BOOLEAN
        PROVE  << <<"enable", b>> >> \in Seq({<<"enable", c>> : c \in BOOLEAN})
    <2> DEFINE E == {<<"enable", c>> : c \in BOOLEAN}
    <2>1. <<"enable", b>> \in E
      OBVIOUS
    <2> HIDE DEF E
    <2>2. << <<"enable", b>> >> \in Seq(E)
      BY <2>1
    <2> QED
      BY <2>2 DEF E
  <1> QED
    BY <1>1 DEF Switch, AdminRest

-----------------------------------------------------------------------------
\* The rest of a sequence, when operations are dropped from its front.

Rest(w, k) == SubSeq(w, k + 1, Len(w))

LEMMA Drop ==
  ASSUME NEW T, NEW w \in Seq(T), NEW k \in 1 .. Len(w)
  PROVE  /\ Rest(w, k) \in Seq(T)
         /\ DOMAIN w = 1 .. Len(w) /\ Len(w) \in Nat
         /\ DOMAIN Rest(w, k) = 1 .. Len(w) - k /\ Len(Rest(w, k)) = Len(w) - k
         /\ \A i \in 1 .. Len(w) - k : k + i \in 1 .. Len(w) /\ Rest(w, k)[i] = w[k + i]
         /\ ToSet(Rest(w, k)) \subseteq ToSet(w)
         /\ \A y \in ToSet(w) : y \in ToSet(Rest(w, k)) \/ \E i \in 1 .. k : y = w[i]
         /\ Ordered(w) => /\ Ordered(Rest(w, k))
                          /\ \A i \in 1 .. k : \A y \in ToSet(Rest(w, k)) : ~Never(w[i], y)
         /\ Blocks(w) => Blocks(Rest(w, k))
  <1> DEFINE v == Rest(w, k)
             n == Len(w)
  <1>1. /\ v \in Seq(T) /\ DOMAIN w = 1 .. n /\ n \in Nat
        /\ DOMAIN v = 1 .. n - k /\ Len(v) = n - k
        /\ \A i \in 1 .. n - k : k + i \in 1 .. n /\ v[i] = w[k + i]
    BY DEF Rest
  <1> HIDE DEF v
  <1>2. ToSet(v) \subseteq ToSet(w)
    <2>1. \A i \in DOMAIN v : v[i] \in ToSet(w)
      BY <1>1 DEF ToSet
    <2> QED
      BY <2>1 DEF ToSet
  <1>3. ASSUME NEW y \in ToSet(w)
        PROVE  y \in ToSet(v) \/ \E i \in 1 .. k : y = w[i]
    <2>1. PICK i \in 1 .. n : y = w[i]
      BY <1>1 DEF ToSet
    <2>2. CASE i > k
      <3>1. i - k \in 1 .. n - k /\ k + (i - k) = i
        BY <1>1, <2>2
      <3>2. v[i - k] = w[i] /\ i - k \in DOMAIN v
        BY <1>1, <3>1
      <3> QED
        BY <2>1, <3>2 DEF ToSet
    <2>3. CASE ~(i > k)
      BY <1>1, <2>1, <2>3
    <2> QED
      BY <2>2, <2>3
  <1>4. ASSUME Ordered(w)
        PROVE  Ordered(v) /\ \A i \in 1 .. k : \A y \in ToSet(v) : ~Never(w[i], y)
    <2>1. ASSUME NEW i \in DOMAIN v, NEW j \in DOMAIN v, i < j
          PROVE  ~Never(v[i], v[j])
      <3>0. i \in 1 .. n - k /\ j \in 1 .. n - k /\ n \in Int
        BY <1>1
      <3>1. k + i < k + j
        <4>1. i \in Int /\ j \in Int /\ k \in Int
          BY <3>0
        <4> QED
          BY <2>1, <4>1
      <3>2. /\ k + i \in DOMAIN w /\ k + j \in DOMAIN w
            /\ v[i] = w[k + i] /\ v[j] = w[k + j]
        BY <1>1, <3>0
      <3> QED
        BY <1>4, <3>1, <3>2 DEF Ordered
    <2>2. ASSUME NEW i \in 1 .. k, NEW y \in ToSet(v)
          PROVE  ~Never(w[i], y)
      <3>1. PICK j \in DOMAIN v : y = v[j]
        BY DEF ToSet
      <3>2. /\ i \in DOMAIN w /\ k + j \in DOMAIN w /\ i < k + j /\ y = w[k + j]
        BY <1>1, <3>1
      <3> QED
        BY <1>4, <3>2 DEF Ordered
    <2> QED
      BY <2>1, <2>2 DEF Ordered
  <1>5. ASSUME Blocks(w)
        PROVE  Blocks(v)
    <2>1. ASSUME NEW i \in DOMAIN v, v[i][1] \in Outer
          PROVE  i + 1 \in DOMAIN v /\ v[i + 1] = <<Then(v[i][1]), v[i][2]>>
      <3>1. k + i \in DOMAIN w /\ v[i] = w[k + i] /\ i \in Int
        BY <1>1
      <3>2. (k + i) + 1 \in DOMAIN w /\ w[(k + i) + 1] = <<Then(v[i][1]), v[i][2]>>
        BY <1>5, <2>1, <3>1 DEF Blocks
      <3>3. (k + i) + 1 = k + (i + 1) /\ i + 1 \in 1 .. n - k
        BY <1>1, <3>1, <3>2
      <3> QED
        BY <1>1, <3>2, <3>3
    <2>2. ASSUME NEW i \in DOMAIN v, i > 1, v[i][1] \in Inner
          PROVE  v[i - 1][1] \in Outer
      <3>1. k + i \in DOMAIN w /\ v[i] = w[k + i] /\ k + i > 1 /\ i \in Int
        BY <1>1, <2>2
      <3>2. w[(k + i) - 1][1] \in Outer
        BY <1>5, <2>2, <3>1 DEF Blocks
      <3>3. (k + i) - 1 = k + (i - 1) /\ i - 1 \in 1 .. n - k
        <4>1. i \in 1 .. n - k /\ n \in Int
          BY <1>1
        <4> QED
          BY <2>2, <4>1
      <3> QED
        BY <1>1, <3>2, <3>3
    <2> QED
      BY <2>1, <2>2 DEF Blocks
  <1> QED
    BY <1>1, <1>2, <1>3, <1>4, <1>5 DEF v

\* The operations that Balance asks about.
Key == {oCall, oErr, oGet, oHit, oMiss, oLoad, oTime("api"), oTime("group")}

LEMMA KeyFacts ==
  /\ \A x \in Key : Never(x, x) /\ x[1] \notin Inner
  /\ oGet # oCall /\ oHit # oGet /\ oMiss # oGet /\ oHit # oMiss
  /\ oTime("api") # oTime("group")
  /\ Never(oHit, oGet) /\ Never(oMiss, oGet) /\ Never(oLoad, oGet) /\ Never(oTime("group"), oGet)
  /\ Never(oLoad, oMiss) /\ Never(oErr, oCall) /\ Never(oTime("api"), oCall)
  <1>1. \A x \in Key : x[1] \notin Inner
    BY DEF Key, oCall, oErr, oGet, oHit, oMiss, oLoad, oTime, Inner
  <1>2. \A x \in Key : Never(x, x)
    BY DEF Key, Never
  <1>3. /\ oGet # oCall /\ oHit # oGet /\ oMiss # oGet /\ oHit # oMiss
        /\ oTime("api") # oTime("group")
    BY DEF oCall, oGet, oHit, oMiss, oTime
  <1>4. /\ Never(oHit, oGet) /\ Never(oMiss, oGet) /\ Never(oLoad, oGet)
        /\ Never(oTime("group"), oGet)
        /\ Never(oLoad, oMiss) /\ Never(oErr, oCall) /\ Never(oTime("api"), oCall)
    BY DEF Never
  <1> QED
    BY <1>1, <1>2, <1>3, <1>4

\* A request goes on: what it still has to do loses its head, and the rest of a
\* Record that it leaves.
LEMMA RequestDrop ==
  ASSUME NEW w, RequestRest(w), NEW k \in 1 .. Len(w), \A i \in 1 .. k : i > 1 => w[i][1] \in Inner
  PROVE  /\ RequestRest(Rest(w, k))
         /\ \A y \in Key : y \in ToSet(Rest(w, k)) <=> y \in ToSet(w) /\ y # w[1]
         /\ \A y \in ToSet(Rest(w, k)) : ~Never(w[1], y)
         /\ w[k][1] \notin Outer /\ Rest(w, k) # <<>> => Rest(w, k)[1][1] \notin Inner
         /\ w[k][1] \in Outer =>
              Rest(w, k) # <<>> /\ Rest(w, k)[1] = <<Then(w[k][1]), w[k][2]>>
  <1> DEFINE v == Rest(w, k)
  <1>1. w \in Seq(RequestOps) /\ Ordered(w) /\ Blocks(w) /\ NeedInv(ToSet(w))
    BY DEF RequestRest
  <1>2. /\ v \in Seq(RequestOps) /\ Ordered(v) /\ Blocks(v)
        /\ ToSet(v) \subseteq ToSet(w)
        /\ \A y \in ToSet(w) : y \in ToSet(v) \/ \E i \in 1 .. k : y = w[i]
        /\ \A i \in 1 .. k : \A y \in ToSet(v) : ~Never(w[i], y)
    BY <1>1, Drop
  <1>3. /\ DOMAIN w = 1 .. Len(w) /\ Len(w) \in Nat
        /\ DOMAIN v = 1 .. Len(w) - k /\ Len(v) = Len(w) - k
        /\ \A i \in 1 .. Len(w) - k : k + i \in 1 .. Len(w) /\ v[i] = w[k + i]
    BY <1>1, Drop
  <1> HIDE DEF v
  <1>4. 1 \in 1 .. k /\ k \in 1 .. Len(w) /\ \A i \in 1 .. k : i = 1 \/ w[i][1] \in Inner
    BY <1>3
  <1>5. \A y \in ToSet(v) : ~Never(w[1], y)
    BY <1>2, <1>4
  <1>6. ASSUME NEW y \in Key
        PROVE  y \in ToSet(v) <=> y \in ToSet(w) /\ y # w[1]
    <2>1. Never(y, y) /\ y[1] \notin Inner
      BY KeyFacts
    <2>2. y \in ToSet(v) => y # w[1]
      BY <1>5, <2>1
    <2>3. y \in ToSet(w) /\ y # w[1] => y \in ToSet(v)
      BY <1>2, <1>4, <2>1
    <2> QED
      BY <1>2, <2>2, <2>3
  <1>7. NeedInv(ToSet(v))
    <2>1. {oCall, oGet, oHit, oMiss, oTime("api"), oTime("group")} \subseteq Key
      BY DEF Key
    <2>2. ASSUME oGet \in ToSet(v)
          PROVE  (oHit \in ToSet(v) \/ oMiss \in ToSet(v)) /\ oTime("group") \in ToSet(v)
      <3>1. oGet \in ToSet(w)
        BY <1>2, <2>2
      <3>2. w[1] # oHit /\ w[1] # oMiss /\ w[1] # oTime("group")
        BY <1>5, <2>2, KeyFacts
      <3> QED
        BY <1>1, <1>6, <2>1, <3>1, <3>2 DEF NeedInv
    <2>3. ASSUME oCall \in ToSet(v)
          PROVE  oTime("api") \in ToSet(v)
      <3>1. oCall \in ToSet(w)
        BY <1>2, <2>3
      <3>2. w[1] # oTime("api")
        BY <1>5, <2>3, KeyFacts
      <3> QED
        BY <1>1, <1>6, <2>1, <3>1, <3>2 DEF NeedInv
    <2> QED
      BY <2>2, <2>3 DEF NeedInv
  <1>8. ASSUME w[k][1] \notin Outer, v # <<>>
        PROVE  v[1][1] \notin Inner
    <2>1. k + 1 \in DOMAIN w /\ v[1] = w[k + 1] /\ k + 1 > 1 /\ (k + 1) - 1 = k
      BY <1>2, <1>3, <1>8
    <2> QED
      BY <1>1, <1>8, <2>1 DEF Blocks
  <1>9. ASSUME w[k][1] \in Outer
        PROVE  v # <<>> /\ v[1] = <<Then(w[k][1]), w[k][2]>>
    <2>1. k \in DOMAIN w
      BY <1>3, <1>4
    <2>2. k + 1 \in 1 .. Len(w) /\ w[k + 1] = <<Then(w[k][1]), w[k][2]>>
      BY <1>1, <1>3, <1>9, <2>1 DEF Blocks
    <2>3. 1 \in 1 .. Len(w) - k /\ k \in Int
      BY <1>3, <2>2
    <2> QED
      BY <1>2, <1>3, <2>2, <2>3
  <1> QED
    BY <1>1, <1>2, <1>5, <1>6, <1>7, <1>8, <1>9 DEF v, RequestRest

LEMMA LoaderDrop ==
  ASSUME NEW w, LoaderRest(w), w # <<>>
  PROVE  /\ LoaderRest(Rest(w, 1)) /\ w[1] \in LoaderOps
         /\ ToSet(Rest(w, 1)) \subseteq ToSet(w) /\ w[1] \in ToSet(w)
         /\ \A y \in ToSet(w) : y \in ToSet(Rest(w, 1)) \/ y = w[1]
         /\ w[1] = oPeer => oPeer \notin ToSet(Rest(w, 1))
         /\ w[1] # oPeer => oFilter \notin ToSet(Rest(w, 1)) /\ oLocal \notin ToSet(Rest(w, 1))
  <1> DEFINE v == Rest(w, 1)
  <1>1. w \in Seq(LoaderOps) /\ Ordered(w) /\ 1 \in 1 .. Len(w)
    BY DEF LoaderRest
  <1>2. /\ v \in Seq(LoaderOps) /\ Ordered(v)
        /\ ToSet(v) \subseteq ToSet(w)
        /\ \A y \in ToSet(w) : y \in ToSet(v) \/ \E i \in 1 .. 1 : y = w[i]
        /\ \A i \in 1 .. 1 : \A y \in ToSet(v) : ~Never(w[i], y)
    BY <1>1, Drop
  <1>3. 1 \in 1 .. 1 /\ \A i \in 1 .. 1 : i = 1
    OBVIOUS
  <1>4. w[1] \in LoaderOps /\ 1 \in DOMAIN w
    BY <1>1
  <1>5. {oPeer, oFilter, oLocal} \subseteq LoaderOps /\ oPeer # oFilter /\ oPeer # oLocal
    BY DEF LoaderOps, oPeer, oFilter, oLocal
  <1> HIDE DEF v, LoaderOps
  <1>6. \A y \in {oPeer, oFilter, oLocal} : y \in ToSet(v) => ~Never(w[1], y)
    BY <1>2, <1>3
  <1>7. /\ w[1] = oPeer => oPeer \notin ToSet(v)
        /\ w[1] # oPeer => oFilter \notin ToSet(v) /\ oLocal \notin ToSet(v)
    BY <1>4, <1>5, <1>6, NeverLoader
  <1>8. w[1] \in ToSet(w)
    BY <1>4 DEF ToSet
  <1> QED
    BY <1>2, <1>3, <1>4, <1>7, <1>8 DEF v, LoaderRest

\* What a list of reads, or of the logger, keeps.
LEMMA ReadDrop ==
  ASSUME NEW T, NEW w \in Seq(T), Ordered(w), w # <<>>
  PROVE  /\ Rest(w, 1) \in Seq(T) /\ Ordered(Rest(w, 1)) /\ w[1] \in T
         /\ ToSet(Rest(w, 1)) \subseteq ToSet(w) /\ w[1] \in ToSet(w)
         /\ \A y \in ToSet(w) : y \in ToSet(Rest(w, 1)) \/ y = w[1]
         /\ \A y \in ToSet(Rest(w, 1)) : ~Never(w[1], y)
         /\ ReadInv(ToSet(w)) => ReadInv(ToSet(Rest(w, 1)))
         /\ LogInv(ToSet(w)) => LogInv(ToSet(Rest(w, 1)))
  <1> DEFINE v == Rest(w, 1)
  <1>1. 1 \in 1 .. Len(w) /\ DOMAIN w = 1 .. Len(w)
    OBVIOUS
  <1>2. /\ v \in Seq(T) /\ Ordered(v)
        /\ ToSet(v) \subseteq ToSet(w)
        /\ \A y \in ToSet(w) : y \in ToSet(v) \/ \E i \in 1 .. 1 : y = w[i]
        /\ \A i \in 1 .. 1 : \A y \in ToSet(v) : ~Never(w[i], y)
    BY <1>1, Drop
  <1>3. 1 \in 1 .. 1 /\ \A i \in 1 .. 1 : i = 1
    OBVIOUS
  <1> HIDE DEF v
  <1>4. w[1] \in T /\ w[1] \in ToSet(w)
    BY <1>1 DEF ToSet
  <1>5. \A y \in ToSet(v) : ~Never(w[1], y)
    BY <1>2, <1>3
  <1>6. \A y \in ToSet(w) : y \in ToSet(v) \/ y = w[1]
    BY <1>2, <1>3
  <1>7. ReadInv(ToSet(w)) => ReadInv(ToSet(v))
    <2>1. /\ Never(<<"read", "CacheHits">>, <<"read", "GroupGets">>)
          /\ Never(<<"read", "CacheMisses">>, <<"read", "GroupGets">>)
      BY DEF Never
    <2> QED
      BY <1>2, <1>5, <1>6, <2>1 DEF ReadInv
  <1>8. LogInv(ToSet(w)) => LogInv(ToSet(v))
    <2>1. \A s \in Series : /\ Never(<<"read", LastP99[s]>>, <<"read", LastP95[s]>>)
                            /\ Never(<<"store95", s>>, <<"drain", s>>)
                            /\ Never(<<"store99", s>>, <<"store95", s>>)
      BY DEF Never
    <2> QED
      BY <1>2, <1>5, <1>6, <2>1 DEF LogInv
  <1> QED
    BY <1>2, <1>4, <1>5, <1>6, <1>7, <1>8 DEF v

-----------------------------------------------------------------------------
\* The threads.  The roles are different goroutines.

LEMMA Roles ==
  /\ \A t \in Request : t \in Thread /\ t \notin Loader /\ t \notin Admin /\ t \notin Reader /\ t # Logger
  /\ \A t \in Loader : t \in Thread /\ t \notin Admin /\ t \notin Reader /\ t # Logger
  /\ \A t \in Admin : t \in Thread /\ t \notin Reader /\ t # Logger
  /\ \A t \in Reader : t \in Thread /\ t # Logger
  /\ Logger \in Thread
  BY MetricsAssumption DEF Thread

Proper(t, v) ==
  /\ t \in Request => RequestRest(v)
  /\ t \in Loader => LoaderRest(v)
  /\ t \in Admin => AdminRest(v)
  /\ t \in Reader => ReaderRest(v)
  /\ t = Logger => LoggerRest(v)

LEMMA Replaced ==
  ASSUME TodoInv, NEW t \in Thread, NEW v, Proper(t, v), todo' = [todo EXCEPT ![t] = v]
  PROVE  /\ TodoInv' /\ todo'[t] = v
         /\ \A r \in Thread : r # t => todo'[r] = todo[r]
  <1>1. todo = [r \in Thread |-> todo[r]]
    BY DEF TodoInv
  <1>2. /\ todo' = [r \in Thread |-> todo'[r]] /\ todo'[t] = v
        /\ \A r \in Thread : r # t => todo'[r] = todo[r]
    BY <1>1
  <1>3. \A r \in Thread : Proper(r, todo[r])
    BY DEF TodoInv, Proper
  <1>4. \A r \in Thread : Proper(r, todo'[r])
    BY <1>2, <1>3
  <1>5. /\ \A r \in Request : RequestRest(todo'[r])
        /\ \A r \in Loader : LoaderRest(todo'[r])
        /\ \A r \in Admin : AdminRest(todo'[r])
        /\ \A r \in Reader : ReaderRest(todo'[r])
        /\ LoggerRest(todo'[Logger])
    BY <1>4, Roles DEF Proper
  <1> QED
    BY <1>2, <1>5 DEF TodoInv

\* A request takes a step.
LEMMA RequestStep ==
  ASSUME TodoInv, NEW t \in Request, todo[t] # <<>>, NEW k \in 1 .. Len(todo[t]), Skip(t, k),
         \A i \in 1 .. k : i > 1 => todo[t][i][1] \in Inner
  PROVE  /\ TodoInv'
         /\ \A r \in Thread : r # t => todo'[r] = todo[r]
         /\ \A y \in Key : y \in N(t)' <=> y \in N(t) /\ y # Head(todo[t])
         /\ \A y \in N(t)' : ~Never(Head(todo[t]), y)
         /\ todo[t][k][1] \notin Outer /\ todo'[t] # <<>> => Head(todo'[t])[1] \notin Inner
         /\ todo[t][k][1] \in Outer =>
              todo'[t] # <<>> /\ Head(todo'[t]) = <<Then(todo[t][k][1]), todo[t][k][2]>>
  <1> DEFINE w == todo[t]
             v == Rest(w, k)
  <1>1. RequestRest(w)
    BY DEF TodoInv
  <1>2. /\ RequestRest(v)
        /\ \A y \in Key : y \in ToSet(v) <=> y \in ToSet(w) /\ y # w[1]
        /\ \A y \in ToSet(v) : ~Never(w[1], y)
        /\ w[k][1] \notin Outer /\ v # <<>> => v[1][1] \notin Inner
        /\ w[k][1] \in Outer => v # <<>> /\ v[1] = <<Then(w[k][1]), w[k][2]>>
    BY <1>1, RequestDrop
  <1>3. todo' = [todo EXCEPT ![t] = v]
    BY DEF Skip, Rest
  <1>4. Proper(t, v) /\ t \in Thread
    BY <1>2, Roles DEF Proper
  <1>5. TodoInv' /\ todo'[t] = v /\ \A r \in Thread : r # t => todo'[r] = todo[r]
    BY <1>3, <1>4, Replaced
  <1>6. w \in Seq(RequestOps) /\ v \in Seq(RequestOps)
    BY <1>1, <1>2 DEF RequestRest
  <1> HIDE DEF v
  <1>7. Head(w) = w[1] /\ (v # <<>> => Head(v) = v[1])
    BY <1>6
  <1>8. N(t) = ToSet(w) /\ N(t)' = ToSet(v)
    BY <1>5 DEF N
  <1> HIDE DEF w
  <1> QED
    BY <1>2, <1>5, <1>7, <1>8 DEF w

\* The first of several operations, for the steps that drop one.
LEMMA RequestHead ==
  ASSUME TodoInv, NEW t \in Request, todo[t] # <<>>
  PROVE  /\ 1 \in 1 .. Len(todo[t]) /\ Head(todo[t]) = todo[t][1] /\ Head(todo[t]) \in RequestOps
         /\ \A i \in 1 .. 1 : i > 1 => todo[t][i][1] \in Inner
         /\ Head(todo[t]) \in N(t) /\ NeedInv(N(t))
         /\ Head(todo[t])[1] \in {"enabled", "sample"} =>
              /\ 2 \in 1 .. Len(todo[t])
              /\ todo[t][2] = <<Then(Head(todo[t])[1]), Head(todo[t])[2]>>
         /\ Head(todo[t])[1] = "enabled" =>
              /\ 3 \in 1 .. Len(todo[t])
              /\ todo[t][3] = <<"observe", Head(todo[t])[2]>>
  <1> DEFINE w == todo[t]
  <1>1. w \in Seq(RequestOps) /\ w # <<>> /\ Blocks(w) /\ NeedInv(ToSet(w))
    BY DEF TodoInv, RequestRest
  <1> HIDE DEF w
  <1>2. /\ 1 \in 1 .. Len(w) /\ Head(w) = w[1] /\ w[1] \in RequestOps /\ DOMAIN w = 1 .. Len(w)
        /\ Len(w) \in Nat
    BY <1>1
  <1>3. w[1] \in ToSet(w)
    BY <1>2 DEF ToSet
  <1>4. ASSUME w[1][1] \in {"enabled", "sample"}
        PROVE  2 \in 1 .. Len(w) /\ w[2] = <<Then(w[1][1]), w[1][2]>>
    <2>1. w[1][1] \in Outer /\ 1 \in DOMAIN w /\ 1 + 1 = 2
      BY <1>2, <1>4 DEF Outer
    <2> QED
      BY <1>1, <1>2, <2>1 DEF Blocks
  <1>5. ASSUME w[1][1] = "enabled"
        PROVE  3 \in 1 .. Len(w) /\ w[3] = <<"observe", w[1][2]>>
    <2>1. 2 \in 1 .. Len(w) /\ w[2] = <<"sample", w[1][2]>>
      BY <1>4, <1>5 DEF Then
    <2>2. w[2][1] \in Outer /\ 2 \in DOMAIN w /\ 2 + 1 = 3 /\ Then("sample") = "observe"
      BY <1>2, <2>1 DEF Outer, Then
    <2> QED
      BY <1>1, <1>2, <2>1, <2>2 DEF Blocks
  <1>6. \A i \in 1 .. 1 : ~(i > 1)
    OBVIOUS
  <1> QED
    BY <1>1, <1>2, <1>3, <1>4, <1>5, <1>6 DEF N, w

-----------------------------------------------------------------------------
\* What a step of a request does to its own sequence.
Went(t) ==
  /\ TodoInv'
  /\ \A r \in Request : r # t => todo'[r] = todo[r]
  /\ \A y \in Key : y \in N(t)' <=> y \in N(t) /\ y # Head(todo[t])
  /\ \A y \in N(t)' : ~Never(Head(todo[t]), y)
Alone(t) == \A r \in Thread : r # t => todo'[r] = todo[r]
Goes(t, op) == todo'[t] # <<>> /\ Head(todo'[t]) = <<op, Arg(t)>>
Leaves(t) == todo'[t] = <<>> \/ Head(todo'[t])[1] \notin Inner

LEMMA WentOne ==
  ASSUME TodoInv, NEW t \in Request, todo[t] # <<>>, Skip(t, 1)
  PROVE  /\ Went(t) /\ Alone(t)
         /\ Head(todo[t])[1] \notin Outer => Leaves(t)
         /\ Head(todo[t])[1] \in Outer => Goes(t, Then(Head(todo[t])[1]))
  <1>1. /\ 1 \in 1 .. Len(todo[t]) /\ Head(todo[t]) = todo[t][1]
        /\ \A i \in 1 .. 1 : i > 1 => todo[t][i][1] \in Inner
    BY RequestHead
  <1>2. /\ TodoInv'
        /\ \A r \in Thread : r # t => todo'[r] = todo[r]
        /\ \A y \in Key : y \in N(t)' <=> y \in N(t) /\ y # Head(todo[t])
        /\ \A y \in N(t)' : ~Never(Head(todo[t]), y)
        /\ todo[t][1][1] \notin Outer /\ todo'[t] # <<>> => Head(todo'[t])[1] \notin Inner
        /\ todo[t][1][1] \in Outer =>
             todo'[t] # <<>> /\ Head(todo'[t]) = <<Then(todo[t][1][1]), todo[t][1][2]>>
    BY <1>1, RequestStep
  <1> QED
    BY <1>1, <1>2, Roles DEF Went, Alone, Goes, Leaves, Arg

LEMMA WentOut ==
  ASSUME TodoInv, NEW t \in Request, todo[t] # <<>>, NEW k \in {2, 3}, Skip(t, k),
         Head(todo[t])[1] = IF k = 2 THEN "sample" ELSE "enabled"
  PROVE  Went(t) /\ Alone(t) /\ Leaves(t)
  <1>1. /\ k \in 1 .. Len(todo[t]) /\ Head(todo[t]) = todo[t][1]
        /\ \A i \in 1 .. k : i > 1 => todo[t][i][1] \in Inner
        /\ todo[t][k][1] \notin Outer
    <2>1. Then("sample") = "observe" /\ Then("enabled") = "sample"
      BY DEF Then
    <2>2. Head(todo[t]) = todo[t][1]
      BY RequestHead
    <2>3. CASE k = 2
      <3>1. 2 \in 1 .. Len(todo[t]) /\ todo[t][2] = <<"observe", Head(todo[t])[2]>>
        BY <2>1, <2>3, RequestHead
      <3>2. \A i \in 1 .. 2 : i > 1 => i = 2
        OBVIOUS
      <3> QED
        BY <2>2, <2>3, <3>1, <3>2 DEF Inner, Outer
    <2>4. CASE k = 3
      <3>1. /\ 3 \in 1 .. Len(todo[t]) /\ todo[t][2] = <<"sample", Head(todo[t])[2]>>
            /\ todo[t][3] = <<"observe", Head(todo[t])[2]>>
        BY <2>1, <2>4, RequestHead
      <3>2. \A i \in 1 .. 3 : i > 1 => i = 2 \/ i = 3
        OBVIOUS
      <3> QED
        BY <2>2, <2>4, <3>1, <3>2 DEF Inner, Outer
    <2> QED
      BY <2>3, <2>4
  <1>2. /\ TodoInv'
        /\ \A r \in Thread : r # t => todo'[r] = todo[r]
        /\ \A y \in Key : y \in N(t)' <=> y \in N(t) /\ y # Head(todo[t])
        /\ \A y \in N(t)' : ~Never(Head(todo[t]), y)
        /\ todo[t][k][1] \notin Outer /\ todo'[t] # <<>> => Head(todo'[t])[1] \notin Inner
    BY <1>1, RequestStep
  <1> QED
    BY <1>1, <1>2, Roles DEF Went, Alone, Leaves

\* A thread with nothing to do begins.
LEMMA Started ==
  ASSUME TodoInv, conf \in DOMAIN Scenario, NEW t \in Thread, Start(t)
  PROVE  /\ TodoInv' /\ Alone(t) /\ t \notin Loader
         /\ t \in Request => Fresh(todo'[t])
         /\ t \in Reader => N(t)' = ReadOps
         /\ t = Logger => N(t)' = ToSet(Tick)
  <1>1. PICK w \in Work(t) : todo' = [todo EXCEPT ![t] = w]
    BY DEF Start
  <1>2. CASE t \in Request
    <2>1. w \in APIGet \cup APIIncrement \cup ServePeer
      BY <1>1, <1>2, Roles DEF Work
    <2>2. Fresh(w)
      BY <2>1, RequestPieces
    <2>3. Proper(t, w)
      BY <1>2, <2>2, Roles DEF Proper, Fresh
    <2> QED
      BY <1>1, <1>2, <2>2, <2>3, Replaced, Roles DEF Alone
  <1>3. CASE t \in Loader
    BY <1>1, <1>3, Roles DEF Work
  <1>4. CASE t \in Admin
    <2>1. w \in Switch
      BY <1>1, <1>4, Roles DEF Work
    <2>2. Proper(t, w)
      BY <1>4, <2>1, SwitchPieces, Roles DEF Proper
    <2> QED
      BY <1>1, <1>4, <2>2, Replaced, Roles DEF Alone
  <1>5. CASE t \in Reader
    <2>1. w = Snapshot
      BY <1>1, <1>5, Roles DEF Work
    <2>2. Proper(t, w)
      BY <1>5, <2>1, SnapshotPiece, Roles DEF Proper, ReaderRest
    <2>3. TodoInv' /\ todo'[t] = w /\ \A r \in Thread : r # t => todo'[r] = todo[r]
      BY <1>1, <2>2, Replaced
    <2> QED
      BY <1>5, <2>1, <2>3, SnapshotPiece, Roles DEF Alone, N
  <1>6. CASE t = Logger
    <2>1. w = Tick
      BY <1>1, <1>6, Roles DEF Work
    <2>2. Proper(t, w)
      BY <1>6, <2>1, TickPiece, Roles DEF Proper
    <2>3. TodoInv' /\ todo'[t] = w /\ \A r \in Thread : r # t => todo'[r] = todo[r]
      BY <1>1, <2>2, Replaced
    <2> QED
      BY <1>6, <2>1, <2>3, Roles DEF Alone, N
  <1> QED
    BY <1>2, <1>3, <1>4, <1>5, <1>6 DEF Thread

LEMMA LoaderStep ==
  ASSUME TodoInv, NEW t \in Loader, todo[t] # <<>>, Skip(t, 1)
  PROVE  /\ TodoInv' /\ Alone(t) /\ Head(todo[t]) \in LoaderOps
         /\ Head(todo[t]) \in N(t) /\ N(t)' \subseteq N(t)
         /\ \A y \in N(t) : y \in N(t)' \/ y = Head(todo[t])
         /\ Head(todo[t]) = oPeer => oPeer \notin N(t)'
         /\ Head(todo[t]) # oPeer => oFilter \notin N(t)' /\ oLocal \notin N(t)'
  <1> DEFINE w == todo[t]
             v == Rest(w, 1)
  <1>1. LoaderRest(w)
    BY DEF TodoInv
  <1>2. /\ LoaderRest(v) /\ w[1] \in LoaderOps
        /\ ToSet(v) \subseteq ToSet(w) /\ w[1] \in ToSet(w)
        /\ \A y \in ToSet(w) : y \in ToSet(v) \/ y = w[1]
        /\ w[1] = oPeer => oPeer \notin ToSet(v)
        /\ w[1] # oPeer => oFilter \notin ToSet(v) /\ oLocal \notin ToSet(v)
    BY <1>1, LoaderDrop
  <1>3. todo' = [todo EXCEPT ![t] = v]
    BY DEF Skip, Rest
  <1>4. Proper(t, v) /\ t \in Thread
    BY <1>2, Roles DEF Proper
  <1>5. TodoInv' /\ todo'[t] = v /\ \A r \in Thread : r # t => todo'[r] = todo[r]
    BY <1>3, <1>4, Replaced
  <1>6. Head(w) = w[1]
    BY <1>1 DEF LoaderRest
  <1> HIDE DEF v
  <1>7. N(t) = ToSet(w) /\ N(t)' = ToSet(v)
    BY <1>5 DEF N
  <1> HIDE DEF w
  <1> QED
    BY <1>2, <1>5, <1>6, <1>7 DEF Alone, w

LEMMA AdminStep ==
  ASSUME TodoInv, NEW t \in Admin, todo[t] # <<>>, Skip(t, 1)
  PROVE  TodoInv' /\ Alone(t) /\ \E b \in BOOLEAN : Head(todo[t]) = <<"enable", b>>
  <1> DEFINE w == todo[t]
             v == Rest(w, 1)
             E == {<<"enable", b>> : b \in BOOLEAN}
  <1>1. w \in Seq(E) /\ w # <<>>
    BY DEF TodoInv, AdminRest
  <1> HIDE DEF E
  <1>2. 1 \in 1 .. Len(w) /\ Head(w) \in E
    BY <1>1
  <1>3. v \in Seq(E)
    BY <1>1, <1>2, Drop
  <1>4. todo' = [todo EXCEPT ![t] = v]
    BY DEF Skip, Rest
  <1>5. Proper(t, v) /\ t \in Thread
    BY <1>3, Roles DEF Proper, AdminRest, E
  <1>6. TodoInv' /\ todo'[t] = v /\ \A r \in Thread : r # t => todo'[r] = todo[r]
    BY <1>4, <1>5, Replaced
  <1> QED
    BY <1>2, <1>6 DEF Alone, E

\* A reader or the logger takes a step.
LEMMA ReadStep ==
  ASSUME TodoInv, NEW t \in Reader \cup {Logger}, todo[t] # <<>>, Skip(t, 1)
  PROVE  /\ TodoInv' /\ Alone(t) /\ Head(todo[t]) \in LoggerOps
         /\ t # Logger => Head(todo[t]) \in ReadOps
         /\ N(t)' \subseteq N(t) /\ Head(todo[t]) \in N(t)
         /\ \A y \in N(t) : y \in N(t)' \/ y = Head(todo[t])
         /\ \A y \in N(t)' : ~Never(Head(todo[t]), y)
  <1> DEFINE w == todo[t]
             v == Rest(w, 1)
             T == IF t = Logger THEN LoggerOps ELSE ReadOps
  <1>1. /\ w \in Seq(T) /\ Ordered(w) /\ ReadInv(ToSet(w)) /\ w # <<>>
        /\ t = Logger => LogInv(ToSet(w))
    BY DEF TodoInv, ReaderRest, LoggerRest
  <1>2. T \subseteq LoggerOps /\ (t # Logger => T = ReadOps) /\ (t = Logger => T = LoggerOps)
    BY DEF LoggerOps
  <1> HIDE DEF T
  <1>3. /\ v \in Seq(T) /\ Ordered(v) /\ w[1] \in T
        /\ ToSet(v) \subseteq ToSet(w) /\ w[1] \in ToSet(w)
        /\ \A y \in ToSet(w) : y \in ToSet(v) \/ y = w[1]
        /\ \A y \in ToSet(v) : ~Never(w[1], y)
        /\ ReadInv(ToSet(v))
        /\ t = Logger => LogInv(ToSet(v))
    BY <1>1, ReadDrop
  <1>4. todo' = [todo EXCEPT ![t] = v]
    BY DEF Skip, Rest
  <1>5. Proper(t, v) /\ t \in Thread
    BY <1>2, <1>3, Roles DEF Proper, ReaderRest, LoggerRest
  <1>6. TodoInv' /\ todo'[t] = v /\ \A r \in Thread : r # t => todo'[r] = todo[r]
    BY <1>4, <1>5, Replaced
  <1>7. Head(w) = w[1]
    BY <1>1
  <1> HIDE DEF v
  <1>8. N(t) = ToSet(w) /\ N(t)' = ToSet(v)
    BY <1>6 DEF N
  <1> HIDE DEF w
  <1> QED
    BY <1>2, <1>3, <1>6, <1>7, <1>8 DEF Alone, w

\* A miss: the request goes on, and a loader may begin.
LEMMA MissedStep ==
  ASSUME TodoInv, NEW t \in Request, Missed(t)
  PROVE  /\ Went(t) /\ Leaves(t) /\ Head(todo[t]) = oLoad
         /\ \E g \in Loader :
              /\ \A r \in Thread : r # t /\ r # g => todo'[r] = todo[r]
              /\ todo'[g] = todo[g] \/ todo[g] = <<>>
  <1>1. todo[t] # <<>> /\ Head(todo[t])[1] = "load"
    BY DEF Missed, At
  <1>2. /\ 1 \in 1 .. Len(todo[t]) /\ Head(todo[t]) = todo[t][1] /\ Head(todo[t]) \in RequestOps
        /\ \A i \in 1 .. 1 : i > 1 => todo[t][i][1] \in Inner
    BY <1>1, RequestHead
  <1>3. Head(todo[t]) = oLoad
    BY <1>1, <1>2 DEF RequestOps, GetOps, RecordOps, oCall, oErr, oServe, oGet, oHit, oMiss, oLoad
  <1>4. Head(todo[t])[1] \notin Outer
    BY <1>1 DEF Outer
  <1>5. CASE \E g \in Loader : todo[g] # <<>> /\ Skip(t, 1)
    <2>1. Went(t) /\ Alone(t) /\ Leaves(t)
      BY <1>1, <1>4, <1>5, WentOne
    <2> QED
      BY <1>3, <1>5, <2>1, Roles DEF Alone
  <1>6. CASE \E g \in Loader, w \in Load :
               todo[g] = <<>> /\ todo' = [todo EXCEPT ![t] = Tail(@), ![g] = w]
    <2>1. PICK g \in Loader, w \in Load :
            todo[g] = <<>> /\ todo' = [todo EXCEPT ![t] = Tail(@), ![g] = w]
      BY <1>6
    <2> DEFINE v == Rest(todo[t], 1)
    <2>2. t \in Thread /\ g \in Thread /\ t # g
      BY Roles
    <2>3. RequestRest(todo[t])
      BY DEF TodoInv
    <2>4. /\ RequestRest(v)
          /\ \A y \in Key : y \in ToSet(v) <=> y \in ToSet(todo[t]) /\ y # todo[t][1]
          /\ \A y \in ToSet(v) : ~Never(todo[t][1], y)
          /\ v # <<>> => v[1][1] \notin Inner
      BY <1>2, <1>4, <2>3, RequestDrop
    <2>5. Tail(todo[t]) = v
      <3>1. todo[t] \in Seq(RequestOps)
        BY <2>3 DEF RequestRest
      <3> QED
        BY <1>1, <3>1 DEF Rest
    <2> HIDE DEF v
    <2>6. todo = [r \in Thread |-> todo[r]]
      BY DEF TodoInv
    <2>7. /\ todo' = [r \in Thread |-> todo'[r]] /\ todo'[t] = v /\ todo'[g] = w
          /\ \A r \in Thread : r # t /\ r # g => todo'[r] = todo[r]
      BY <2>1, <2>2, <2>5, <2>6
    <2>8. LoaderRest(w)
      BY LoadPieces
    <2>9. \A r \in Thread : Proper(r, todo'[r])
      <3>1. \A r \in Thread : Proper(r, todo[r])
        BY DEF TodoInv, Proper
      <3>2. Proper(t, v) /\ Proper(g, w)
        BY <2>4, <2>8, Roles DEF Proper
      <3> QED
        BY <2>7, <3>1, <3>2
    <2>10. /\ \A r \in Request : RequestRest(todo'[r])
           /\ \A r \in Loader : LoaderRest(todo'[r])
           /\ \A r \in Admin : AdminRest(todo'[r])
           /\ \A r \in Reader : ReaderRest(todo'[r])
           /\ LoggerRest(todo'[Logger])
      BY <2>9, Roles DEF Proper
    <2>11. TodoInv'
      BY <2>7, <2>10 DEF TodoInv
    <2>12. N(t) = ToSet(todo[t]) /\ N(t)' = ToSet(v)
      BY <2>7 DEF N
    <2>13. \A r \in Request : r # t => todo'[r] = todo[r]
      BY <2>7, Roles
    <2>14. Went(t)
      BY <1>2, <2>4, <2>11, <2>12, <2>13 DEF Went
    <2>15. v # <<>> => Head(v) = v[1]
      BY <2>4 DEF RequestRest
    <2>16. Leaves(t)
      BY <2>4, <2>7, <2>15 DEF Leaves
    <2> QED
      BY <1>3, <2>1, <2>7, <2>14, <2>16
  <1> QED
    BY <1>5, <1>6 DEF Missed

\* The arguments of the operations.
LEMMA OpArgs ==
  /\ \A x \in RequestOps :
       /\ x = <<x[1], x[2]>>
       /\ x[1] = "inc" => x \in {oCall, oErr, oServe, oGet, oHit, oMiss}
       /\ x[1] \in Inner \cup Outer => x[2] \in Series
       /\ x[1] \in {"inc", "load"} \cup Inner \cup Outer
  /\ \A x \in LoggerOps :
       /\ x = <<x[1], x[2]>>
       /\ \/ x[1] = "read" /\ x[2] \in Field
          \/ x[1] \in {"drain", "store95", "store99"} /\ x[2] \in Series
  /\ \A x \in LoaderOps : x = <<x[1], x[2]>> /\ x[1] = "inc"
  <1>1. ASSUME NEW x \in RequestOps
        PROVE  /\ x = <<x[1], x[2]>>
               /\ x[1] = "inc" => x \in {oCall, oErr, oServe, oGet, oHit, oMiss}
               /\ x[1] \in Inner \cup Outer => x[2] \in Series
               /\ x[1] \in {"inc", "load"} \cup Inner \cup Outer
    <2>1. \/ x \in {oCall, oErr, oServe, oGet, oHit, oMiss, oLoad}
          \/ \E s \in Series : x \in RecordOps(s)
      BY DEF RequestOps, GetOps, Series
    <2>2. CASE x \in {oCall, oErr, oServe, oGet, oHit, oMiss, oLoad}
      BY <2>2 DEF oCall, oErr, oServe, oGet, oHit, oMiss, oLoad, Inner, Outer
    <2>3. CASE \E s \in Series : x \in RecordOps(s)
      <3>1. PICK s \in Series : x \in RecordOps(s)
        BY <2>3
      <3>2. /\ x = <<x[1], x[2]>> /\ x[2] = s
            /\ x[1] \in {"count", "total", "enabled", "sample", "observe"}
        BY <3>1 DEF RecordOps
      <3> QED
        BY <3>2 DEF Inner, Outer
    <2> QED
      BY <2>1, <2>2, <2>3
  <1>2. ASSUME NEW x \in LoggerOps
        PROVE  /\ x = <<x[1], x[2]>>
               /\ \/ x[1] = "read" /\ x[2] \in Field
                  \/ x[1] \in {"drain", "store95", "store99"} /\ x[2] \in Series
    <2>1. CASE x \in ReadOps
      BY <2>1 DEF ReadOps
    <2>2. CASE x \in TickOps
      BY <2>2 DEF TickOps
    <2> QED
      BY <2>1, <2>2 DEF LoggerOps
  <1>3. \A x \in LoaderOps : x = <<x[1], x[2]>> /\ x[1] = "inc"
    BY DEF LoaderOps, oPeer, oFilter, oLocal
  <1> QED
    BY <1>1, <1>2, <1>3

LEMMA FieldNames ==
  /\ \A f \in {"APIRequests", "APIErrors", "GroupGets", "CacheHits", "CacheMisses",
               "FilterMisses", "PeerLoads", "LocalLoads", "PeerHTTPRequests",
               "GroupGetLatencyCount", "APILatencyCount"} : f \in Field
  /\ \A s \in Series : /\ LatencyCount[s] \in Field /\ TotalMicros[s] \in Field
                       /\ LastP95[s] \in Field /\ LastP99[s] \in Field
  <1>1. \A i \in 1 .. 21 : Fields[i] \in Field
    BY FieldPlaces DEF Field, ToSet
  <1>2. {Fields[1], Fields[2], Fields[3], Fields[4], Fields[5], Fields[6], Fields[7], Fields[8],
         Fields[9], Fields[10], Fields[11], Fields[12], Fields[13], Fields[14], Fields[15],
         Fields[16], Fields[17], Fields[18], Fields[19], Fields[20], Fields[21]} \subseteq Field
    BY <1>1
  <1>3. /\ \A f \in {"APIRequests", "APIErrors", "GroupGets", "CacheHits", "CacheMisses",
                     "FilterMisses", "PeerLoads", "LocalLoads", "PeerHTTPRequests"} : f \in Field
        /\ \A f \in {"APILatencyCount", "GroupGetLatencyCount", "CacheGetLatencyCount",
                     "APILatencyTotalMicros", "GroupGetTotalMicros", "CacheGetTotalMicros",
                     "APILastP95Micros", "GroupGetLastP95Micros", "CacheGetLastP95Micros",
                     "APILastP99Micros", "GroupGetLastP99Micros", "CacheGetLastP99Micros"} :
             f \in Field
    BY <1>2 DEF Fields
  <1> HIDE DEF Field
  <1> QED
    BY <1>3 DEF Series, LatencyCount, TotalMicros, LastP95, LastP99

-----------------------------------------------------------------------------
\* Percentiles.

LEMMA IndexFacts ==
  ASSUME NEW n \in Nat \ {0}, NEW p \in 1 .. 100
  PROVE  /\ PercentileIndex(n, p) \in 1 .. n
         /\ n * p <= 100 * PercentileIndex(n, p)
         /\ 100 * (PercentileIndex(n, p) - 1) < n * p
         /\ \A q \in p .. 100 : PercentileIndex(n, p) <= PercentileIndex(n, q)
  <1>1. ASSUME NEW q \in 1 .. 100
        PROVE  n * q \in Nat /\ 1 <= n * q /\ n * q <= 100 * n
    OBVIOUS
  <1>2. ASSUME NEW x \in Nat, 1 <= x, x <= 100 * n
        PROVE  LET i == (x + 99) \div 100
               IN  i \in 1 .. n /\ x <= 100 * i /\ 100 * (i - 1) < x
    BY <1>2
  <1>3. ASSUME NEW q \in 1 .. 100
        PROVE  PercentileIndex(n, q) = (n * q + 99) \div 100 /\ PercentileIndex(n, q) \in 1 .. n
    <2> DEFINE i == (n * q + 99) \div 100
    <2>1. i \in 1 .. n
      BY <1>1, <1>2
    <2> HIDE DEF i
    <2>2. ~(i < 1) /\ ~(i > n)
      BY <2>1
    <2>3. PercentileIndex(n, q) = i
      BY <2>2 DEF PercentileIndex, i
    <2> QED
      BY <2>1, <2>3 DEF i
  <1>4. ASSUME NEW q \in p .. 100
        PROVE  PercentileIndex(n, p) <= PercentileIndex(n, q)
    <2>1. q \in 1 .. 100 /\ p <= q
      OBVIOUS
    <2>2. n * p <= n * q /\ n * p \in Nat /\ n * q \in Nat
      BY <1>1, <2>1
    <2>3. \A x, y \in Nat : x <= y => (x + 99) \div 100 <= (y + 99) \div 100
      OBVIOUS
    <2> QED
      BY <1>3, <2>1, <2>2, <2>3
  <1>5. /\ PercentileIndex(n, p) = (n * p + 99) \div 100 /\ PercentileIndex(n, p) \in 1 .. n
        /\ n * p \in Nat /\ 1 <= n * p /\ n * p <= 100 * n
    BY <1>1, <1>3
  <1>6. n * p <= 100 * PercentileIndex(n, p) /\ 100 * (PercentileIndex(n, p) - 1) < n * p
    BY <1>2, <1>5
  <1> QED
    BY <1>4, <1>5, <1>6

LEMMA PlacesMoved ==
  ASSUME NEW D, IsFiniteSet(D), NEW g \in Bijection(D, D), NEW A \in SUBSET D, NEW B,
         \A k : k \in B <=> k \in D /\ g[k] \in A
  PROVE  Cardinality(B) = Cardinality(A)
  <1>1. B = {k \in D : g[k] \in A}
    OBVIOUS
  <1> QED
    BY <1>1, PlacesMove

LEMMA SomeElements ==
  ASSUME NEW S, NEW w \in Seq(S), w # <<>>
  PROVE  Len(w) \in Nat \ {0} /\ DOMAIN w = 1 .. Len(w) /\ \A k \in 1 .. Len(w) : w[k] \in S
  OBVIOUS

\* The sample at a place of the sorted window, as IsPercentile asks for it.
LEMMA PlacedSample ==
  ASSUME NEW w \in Seq(Nat), w # <<>>, NEW p \in 1 .. 100
  PROVE  IsPercentile(Sorted(w)[PercentileIndex(Len(w), p)], w, p)
  <1> DEFINE n == Len(w)
             D == 1 .. n
             i == PercentileIndex(n, p)
             b == Sorted(w)
             v == b[i]
             UpTo(x) == {k \in DOMAIN w : w[k] <= x}
             Low(x) == {k \in D : b[k] <= x}
  <1>1. n \in Nat \ {0} /\ DOMAIN w = D /\ w \in Seq(Int) /\ \A k \in D : w[k] \in Nat
    OBVIOUS
  <1>2. i \in D /\ n * p <= 100 * i /\ 100 * (i - 1) < n * p
    BY <1>1, IndexFacts
  <1>3. IsFiniteSet(D) /\ Cardinality(D) = n
    BY <1>1, FS_Interval
  <1>4. PICK g \in Bijection(D, D) : /\ b = [k \in D |-> w[g[k]]]
                                     /\ \A j, k \in D : j < k => w[g[j]] <= w[g[k]]
    BY <1>1, SortedFacts
  <1>5. /\ g \in [D -> D] /\ \A a \in D : \E k \in D : g[k] = a
    BY DEF Bijection, Surjection
  <1> HIDE DEF n, i, b
  <1>6. /\ \A k \in D : b[k] = w[g[k]] /\ g[k] \in D /\ b[k] \in Nat
        /\ \A j, k \in D : j < k => b[j] <= b[k]
    BY <1>1, <1>4, <1>5
  <1>7. ASSUME NEW x \in Nat
        PROVE  /\ IsFiniteSet(UpTo(x)) /\ Cardinality(UpTo(x)) = Cardinality(Low(x))
               /\ IsFiniteSet(Low(x)) /\ Cardinality(Low(x)) \in Nat
    <2>1. UpTo(x) \in SUBSET D /\ Low(x) \subseteq D
      BY <1>1
    <2>2. IsFiniteSet(UpTo(x)) /\ IsFiniteSet(Low(x)) /\ Cardinality(Low(x)) \in Nat
      BY <1>3, <2>1, FS_Subset, FS_CardinalityType
    <2>3. \A k : k \in Low(x) <=> k \in D /\ g[k] \in UpTo(x)
      BY <1>1, <1>6
    <2> HIDE DEF UpTo, Low, D
    <2>4. Cardinality(Low(x)) = Cardinality(UpTo(x))
      BY <1>3, <2>1, <2>3, PlacesMoved
    <2> QED
      BY <2>2, <2>4
  <1>8. v \in Nat /\ v \in ToSet(w)
    <2>1. v = w[g[i]] /\ g[i] \in DOMAIN w /\ v \in Nat
      BY <1>1, <1>2, <1>6
    <2> QED
      BY <2>1 DEF ToSet
  <1>9. Cardinality(UpTo(v)) >= i
    <2>1. 1 .. i \subseteq Low(v)
      <3>1. ASSUME NEW k \in 1 .. i
            PROVE  k \in D /\ b[k] <= v
        <4>1. k \in D /\ (k < i \/ k = i)
          BY <1>1, <1>2
        <4> QED
          BY <1>2, <1>6, <1>8, <4>1
      <3> QED
        BY <3>1
    <2>2. Cardinality(1 .. i) = i /\ IsFiniteSet(1 .. i)
      <3>1. i \in Int /\ i >= 1
        BY <1>1, <1>2
      <3> QED
        BY <3>1, FS_Interval
    <2>3. Cardinality(1 .. i) <= Cardinality(Low(v))
      BY <1>7, <1>8, <2>1, FS_Subset
    <2> QED
      BY <1>7, <1>8, <2>2, <2>3
  <1>10. ASSUME NEW x \in ToSet(w), x < v
         PROVE  Cardinality(UpTo(x)) <= i - 1 /\ Cardinality(UpTo(x)) \in Nat
    <2>1. x \in Nat
      BY <1>1 DEF ToSet
    <2>2. Low(x) \subseteq 1 .. (i - 1)
      <3>1. ASSUME NEW k \in Low(x)
            PROVE  k \in 1 .. (i - 1)
        <4>1. k \in D /\ b[k] <= x /\ b[k] \in Nat
          BY <1>6
        <4>2. ~(i < k) /\ k # i
          BY <1>2, <1>6, <1>8, <1>10, <2>1, <4>1
        <4>3. i \in Int /\ k \in Int /\ k >= 1
          BY <1>1, <1>2, <4>1
        <4> QED
          BY <4>2, <4>3
      <3> QED
        BY <3>1
    <2>3. Cardinality(1 .. (i - 1)) = i - 1 /\ IsFiniteSet(1 .. (i - 1))
      <3>1. i \in Int /\ i >= 1
        BY <1>1, <1>2
      <3> QED
        BY <3>1, FS_Interval
    <2>4. Cardinality(Low(x)) <= Cardinality(1 .. (i - 1))
      BY <2>2, <2>3, FS_Subset
    <2> QED
      BY <1>7, <2>1, <2>3, <2>4
  <1> HIDE DEF v
  <1>11. /\ i \in Int /\ n * p \in Int /\ p * n = n * p
         /\ Cardinality(UpTo(v)) \in Nat
    <2>1. \A x, y \in Int : x * y \in Int /\ y * x = x * y
      OBVIOUS
    <2>2. n \in Int /\ p \in Int /\ i \in Int
      BY <1>1, <1>2
    <2>3. Cardinality(UpTo(v)) \in Nat
      BY <1>7, <1>8
    <2> QED
      BY <2>1, <2>2, <2>3
  <1>12. 100 * Cardinality(UpTo(v)) >= p * n
    BY <1>2, <1>9, <1>11
  <1>13. \A x \in ToSet(w) : x < v => 100 * Cardinality(UpTo(x)) < p * n
    <2>1. ASSUME NEW x \in ToSet(w), x < v
          PROVE  100 * Cardinality(UpTo(x)) < p * n
      BY <1>2, <1>10, <1>11, <2>1
    <2> QED
      BY <2>1
  <1> QED
    BY <1>8, <1>12, <1>13 DEF IsPercentile, v, b, i, n

\* What the logger takes from a window.
LEMMA PercentileFacts ==
  ASSUME NEW w \in Seq(0 .. MaxSample)
  PROVE  /\ Percentiles(w) \in ((0 .. MaxSample) \X (0 .. MaxSample)) \cup {None}
         /\ Percentiles(w) # None => Percentiles(w)[1] <= Percentiles(w)[2]
         /\ w # <<>> => /\ IsPercentile(Percentiles(w)[1], w, P95)
                        /\ IsPercentile(Percentiles(w)[2], w, P99)
  <1>1. CASE w = <<>>
    <2>1. Len(w) = 0
      BY <1>1
    <2> QED
      BY <1>1, <2>1 DEF Percentiles
  <1>2. CASE w # <<>>
    <2> DEFINE n == Len(w)
               i == PercentileIndex(n, P95)
               j == PercentileIndex(n, P99)
               b == Sorted(w)
    <2>1. /\ n \in Nat \ {0} /\ w \in Seq(Int) /\ w \in Seq(Nat) /\ DOMAIN w = 1 .. n
          /\ \A k \in 1 .. n : w[k] \in 0 .. MaxSample
      <3>1. n \in Nat \ {0} /\ DOMAIN w = 1 .. n /\ \A k \in 1 .. n : w[k] \in 0 .. MaxSample
        BY <1>2, SomeElements
      <3>2. 0 .. MaxSample \subseteq Nat /\ 0 .. MaxSample \subseteq Int
        BY MetricsAssumption
      <3>3. \A S, T : S \subseteq T => Seq(S) \subseteq Seq(T)
        OBVIOUS
      <3> QED
        BY <3>1, <3>2, <3>3
    <2>2. P95 \in 1 .. 100 /\ P99 \in 1 .. 100 /\ P99 \in P95 .. 100
      BY MetricsAssumption
    <2>3. i \in 1 .. n /\ j \in 1 .. n /\ i <= j
      BY <2>1, <2>2, IndexFacts
    <2>4. PICK g \in Bijection(1 .. n, 1 .. n) : /\ b = [k \in 1 .. n |-> w[g[k]]]
                                       /\ \A k, l \in 1 .. n : k < l => w[g[k]] <= w[g[l]]
      BY <2>1, SortedFacts
    <2>5. g \in [1 .. n -> 1 .. n]
      BY DEF Bijection, Surjection
    <2>6. Percentiles(w) = <<b[i], b[j]>>
      BY <2>1 DEF Percentiles
    <2>7. IsPercentile(b[i], w, P95) /\ IsPercentile(b[j], w, P99)
      BY <1>2, <2>1, <2>2, PlacedSample
    <2> HIDE DEF n, i, j, b
    <2>8. \A k \in 1 .. n : b[k] = w[g[k]] /\ b[k] \in 0 .. MaxSample
      BY <2>1, <2>4, <2>5
    <2>9. b[i] <= b[j]
      <3>1. CASE i = j
        <4>1. b[i] \in Int
          BY <2>3, <2>8
        <4> QED
          BY <3>1, <4>1
      <3>2. CASE i # j
        <4>1. i < j
          BY <2>1, <2>3, <3>2
        <4> QED
          BY <2>3, <2>4, <2>8, <4>1
      <3> QED
        BY <3>1, <3>2
    <2> QED
      BY <2>3, <2>6, <2>7, <2>8, <2>9
  <1> QED
    BY <1>1, <1>2

-----------------------------------------------------------------------------
\* Types.

LEMMA Configured ==
  ASSUME conf \in DOMAIN Scenario
  PROVE  /\ Scenario[conf].Rate \in Nat \X (Nat \ {0})
         /\ Scenario[conf].Latency \in SUBSET Nat
         /\ Scenario[conf].Calls \in [Thread -> Nat]
         /\ \A d \in Scenario[conf].Latency : d \in Nat /\ d # None
         /\ Longest \in Scenario[conf].Latency
         /\ \A e \in Scenario[conf].Latency : e <= Longest
  <1>1. Scenario[conf] \in [Rate : Nat \X (Nat \ {0}), Latency : SUBSET Nat,
                            Calls : [Thread -> Nat],
                            Does : [Request -> SUBSET (APIGet \cup APIIncrement \cup ServePeer)]]
    BY MetricsAssumption
  <1>2. /\ Scenario[conf].Rate \in Nat \X (Nat \ {0}) /\ Scenario[conf].Latency \in SUBSET Nat
        /\ Scenario[conf].Calls \in [Thread -> Nat]
    BY <1>1
  <1>3. \E d \in Scenario[conf].Latency : \A e \in Scenario[conf].Latency : e <= d
    BY MetricsAssumption
  <1>4. None \notin Nat
    BY MetricsAssumption
  <1> QED
    BY <1>2, <1>3, <1>4 DEF Longest

LEMMA AtRequest ==
  ASSUME TodoInv, NEW t \in Request, NEW op, At(t, op)
  PROVE  /\ todo[t] # <<>> /\ Head(todo[t]) = <<op, Arg(t)>> /\ Head(todo[t]) \in RequestOps
         /\ Head(todo[t])[1] = op
         /\ op \in Inner \cup Outer => Arg(t) \in Series
         /\ op = "inc" => /\ Head(todo[t]) \in {oCall, oErr, oServe, oGet, oHit, oMiss}
                          /\ Arg(t) \in Field
  <1>1. todo[t] # <<>> /\ Head(todo[t])[1] = op /\ Head(todo[t])[2] = Arg(t)
    BY DEF At, Arg
  <1>2. Head(todo[t]) \in RequestOps
    BY <1>1, RequestHead
  <1>3. /\ Head(todo[t]) = <<op, Arg(t)>>
        /\ op \in Inner \cup Outer => Arg(t) \in Series
        /\ op = "inc" => Head(todo[t]) \in {oCall, oErr, oServe, oGet, oHit, oMiss}
    BY <1>1, <1>2, OpArgs
  <1>4. op = "inc" =>
          Arg(t) \in {"APIRequests", "APIErrors", "PeerHTTPRequests", "GroupGets", "CacheHits",
                      "CacheMisses"}
    BY <1>3 DEF oCall, oErr, oServe, oGet, oHit, oMiss
  <1> QED
    BY <1>1, <1>2, <1>3, <1>4, FieldNames

LEMMA AtLoader ==
  ASSUME TodoInv, NEW t \in Loader, At(t, "inc")
  PROVE  /\ todo[t] # <<>> /\ Head(todo[t]) = <<"inc", Arg(t)>> /\ Head(todo[t]) \in LoaderOps
         /\ Arg(t) \in {"PeerLoads", "FilterMisses", "LocalLoads"} /\ Arg(t) \in Field
  <1>1. todo[t] # <<>> /\ Head(todo[t])[1] = "inc" /\ Head(todo[t])[2] = Arg(t)
    BY DEF At, Arg
  <1>2. todo[t] \in Seq(LoaderOps)
    BY DEF TodoInv, LoaderRest
  <1>3. Head(todo[t]) \in LoaderOps
    BY <1>1, <1>2
  <1>4. Head(todo[t]) = <<"inc", Arg(t)>>
    BY <1>1, <1>3, OpArgs
  <1>5. Arg(t) \in {"PeerLoads", "FilterMisses", "LocalLoads"}
    BY <1>3, <1>4 DEF LoaderOps, oPeer, oFilter, oLocal
  <1> QED
    BY <1>1, <1>3, <1>4, <1>5, FieldNames

LEMMA AtReader ==
  ASSUME TodoInv, NEW t \in Reader \cup {Logger}, NEW op, At(t, op)
  PROVE  /\ todo[t] # <<>> /\ Head(todo[t]) = <<op, Arg(t)>>
         /\ op = "read" => Arg(t) \in Field
         /\ op \in {"drain", "store95", "store99"} => Arg(t) \in Series
  <1>1. todo[t] # <<>> /\ Head(todo[t])[1] = op /\ Head(todo[t])[2] = Arg(t)
    BY DEF At, Arg
  <1>2. Head(todo[t]) \in LoggerOps
    <2>1. todo[t] \in Seq(ReadOps) \/ todo[t] \in Seq(LoggerOps)
      BY DEF TodoInv, ReaderRest, LoggerRest
    <2>2. Head(todo[t]) \in ReadOps \/ Head(todo[t]) \in LoggerOps
      BY <1>1, <2>1
    <2> QED
      BY <2>2 DEF LoggerOps
  <1> QED
    BY <1>1, <1>2, OpArgs

\* A sample that is kept.
LEMMA KeptFacts ==
  ASSUME NEW w \in Seq(0 .. MaxSample), Len(w) <= Cap, NEW v \in 0 .. MaxSample
  PROVE  Kept(w, v) \in Seq(0 .. MaxSample) /\ Len(Kept(w, v)) <= Cap /\ Kept(w, v) # <<>>
  <1>1. Cap \in Nat \ {0}
    BY MetricsAssumption
  <1> DEFINE S == 0 .. MaxSample
  <1> HIDE DEF S
  <1>2. w \in Seq(S) /\ v \in S
    BY DEF S
  <1>3. CASE Len(w) < Cap
    <2>1. Kept(w, v) = Append(w, v)
      BY <1>3 DEF Kept
    <2>2. Append(w, v) \in Seq(S) /\ Len(Append(w, v)) = Len(w) + 1 /\ Len(w) \in Nat
      BY <1>2
    <2>3. Append(w, v) # <<>>
      BY <2>2
    <2> QED
      BY <1>1, <1>3, <2>1, <2>2, <2>3 DEF S
  <1>4. CASE ~(Len(w) < Cap)
    <2>1. Kept(w, v) = Append(Tail(w), v)
      BY <1>4 DEF Kept
    <2>2. Len(w) = Cap /\ Len(w) \in Nat /\ w # <<>>
      BY <1>1, <1>2, <1>4
    <2>3. Tail(w) \in Seq(S) /\ Len(Tail(w)) = Len(w) - 1
      BY <1>2, <2>2
    <2>4. Append(Tail(w), v) \in Seq(S) /\ Len(Append(Tail(w), v)) = Len(w)
      BY <1>2, <2>2, <2>3
    <2>5. Append(Tail(w), v) # <<>>
      BY <1>1, <2>2, <2>4
    <2> QED
      BY <2>1, <2>2, <2>4, <2>5 DEF S
  <1> QED
    BY <1>3, <1>4

\* The sample that Observe keeps.
LEMMA Observed ==
  ASSUME TypeCore, TodoInv, TimeInv, NEW t \in Request, Observe(t)
  PROVE  \E v \in 0 .. MaxSample :
           window' = [window EXCEPT ![Arg(t)] = Kept(@, v)]
  <1>1. At(t, "observe") /\ Keep(t, Arg(t))
    BY DEF Observe
  <1>2. us[t] \in Scenario[conf].Latency
    BY <1>1 DEF TimeInv, At, Inner
  <1>3. us[t] \in Nat /\ MaxSample \in Nat
    BY <1>2, Configured, MetricsAssumption DEF TypeCore
  <1>4. (IF us[t] > MaxSample THEN MaxSample ELSE us[t]) \in 0 .. MaxSample
    BY <1>3
  <1> QED
    BY <1>1, <1>4 DEF Keep

LEMMA AddType ==
  ASSUME m \in [Field -> Nat], NEW f \in Field, NEW n \in Nat, Add(f, n)
  PROVE  /\ m' \in [Field -> Nat] /\ m'[f] = m[f] + n
         /\ \A g \in Field : g # f => m'[g] = m[g]
  BY DEF Add

LEMMA TypeStep ==
  ASSUME TypeCore, TodoInv, TimeInv, Next
  PROVE  TypeCore'
  <1>0. None \notin Nat /\ MaxSample \in Nat /\ Cap \in Nat \ {0}
    BY MetricsAssumption
  <1>1. ASSUME NEW t \in Thread, Start(t)
        PROVE  TypeCore'
    <2>1. left' \in [Thread -> Nat]
      BY <1>1 DEF Start, TypeCore
    <2> QED
      BY <1>1, <2>1 DEF Start, TypeCore
  <1>2. ASSUME NEW t \in Request, Missed(t)
        PROVE  TypeCore'
    BY <1>2 DEF Missed, TypeCore
  <1>3. ASSUME NEW t \in Request \cup Loader, Increment(t)
        PROVE  TypeCore'
    <2>1. Arg(t) \in Field
      BY <1>3, AtRequest, AtLoader DEF Increment
    <2>2. m' \in [Field -> Nat]
      BY <1>3, <2>1, AddType DEF Increment, TypeCore
    <2> QED
      BY <1>3, <2>2 DEF Increment, TypeCore
  <1>4. ASSUME NEW t \in Request, RecordCount(t)
        PROVE  TypeCore'
    <2>1. Arg(t) \in Series
      BY <1>4, AtRequest DEF RecordCount, Outer
    <2>2. m' \in [Field -> Nat]
      BY <1>4, <2>1, AddType, FieldNames DEF RecordCount, TypeCore
    <2>3. us' \in [Thread -> Scenario[conf].Latency \cup {None}]
      BY <1>4, Roles DEF RecordCount, TypeCore
    <2> QED
      BY <1>4, <2>2, <2>3 DEF RecordCount, TypeCore
  <1>5. ASSUME NEW t \in Request, RecordTotal(t)
        PROVE  TypeCore'
    <2>1. Arg(t) \in Series
      BY <1>5, AtRequest DEF RecordTotal, Outer
    <2>2. us[t] \in Nat
      BY <1>5, Configured DEF RecordTotal, TimeInv, At, Inner, TypeCore
    <2>3. m' \in [Field -> Nat]
      BY <1>5, <2>1, <2>2, AddType, FieldNames DEF RecordTotal, TypeCore
    <2> QED
      BY <1>5, <2>3 DEF RecordTotal, TypeCore
  <1>6. ASSUME NEW t \in Request, CheckEnabled(t)
        PROVE  TypeCore'
    <2>1. us' \in [Thread -> Scenario[conf].Latency \cup {None}]
      BY <1>6, Roles DEF CheckEnabled, TypeCore
    <2> QED
      BY <1>6, <2>1 DEF CheckEnabled, TypeCore
  <1>7. ASSUME NEW t \in Request, ShouldSample(t)
        PROVE  TypeCore'
    <2>1. us' \in [Thread -> Scenario[conf].Latency \cup {None}]
      BY <1>7, Roles DEF ShouldSample, TypeCore
    <2>2. samples' \in [Series -> Nat] /\ offered' \in [Series -> Nat]
      <3>1. At(t, "sample")
        BY <1>7 DEF ShouldSample
      <3>2. Arg(t) \in Series
        BY <3>1, AtRequest DEF Outer
      <3> QED
        BY <1>7, <3>2 DEF ShouldSample, TypeCore
    <2> QED
      BY <1>7, <2>1, <2>2 DEF ShouldSample, TypeCore
  <1>8. ASSUME NEW t \in Request, Observe(t)
        PROVE  TypeCore'
    <2>1. Arg(t) \in Series
      BY <1>8, AtRequest DEF Observe, Inner
    <2>2. PICK v \in 0 .. MaxSample : window' = [window EXCEPT ![Arg(t)] = Kept(@, v)]
      BY <1>8, Observed
    <2>3. /\ Kept(window[Arg(t)], v) \in Seq(0 .. MaxSample)
          /\ Len(Kept(window[Arg(t)], v)) <= Cap
      BY <2>1, KeptFacts DEF TypeCore
    <2>4. /\ window' \in [Series -> Seq(0 .. MaxSample)] /\ \A s \in Series : Len(window'[s]) <= Cap
      <3> DEFINE S == Seq(0 .. MaxSample)
                 k == Kept(window[Arg(t)], v)
      <3>1. window \in [Series -> S] /\ k \in S /\ window' = [window EXCEPT ![Arg(t)] = k]
        BY <2>2, <2>3 DEF TypeCore
      <3>2. Len(k) <= Cap /\ \A s \in Series : Len(window[s]) <= Cap
        BY <2>3 DEF TypeCore
      <3> HIDE DEF S, k
      <3>3. /\ window' \in [Series -> S] /\ window'[Arg(t)] = k
            /\ \A s \in Series : s # Arg(t) => window'[s] = window[s]
        BY <2>1, <3>1
      <3>4. \A s \in Series : Len(window'[s]) <= Cap
        BY <3>2, <3>3
      <3> QED
        BY <3>3, <3>4 DEF S
    <2>5. us' \in [Thread -> Scenario[conf].Latency \cup {None}] /\ taken' \in [Series -> Nat]
      BY <1>8, <2>1, Roles DEF Observe, TypeCore
    <2> QED
      BY <1>8, <2>4, <2>5 DEF Observe, TypeCore
  <1>9. ASSUME NEW t \in Admin, SetEnabled(t)
        PROVE  TypeCore'
    <2>1. enabled' \in BOOLEAN
      <3>1. todo[t] # <<>> /\ Skip(t, 1) /\ enabled' = Arg(t)
        BY <1>9 DEF SetEnabled, At
      <3>2. PICK b \in BOOLEAN : Head(todo[t]) = <<"enable", b>>
        BY <3>1, AdminStep
      <3> QED
        BY <3>1, <3>2 DEF Arg
    <2> QED
      BY <1>9, <2>1 DEF SetEnabled, TypeCore
  <1>10. ASSUME Drain
         PROVE  TypeCore'
    <2> DEFINE a == Arg(Logger)
               L == ((0 .. MaxSample) \X (0 .. MaxSample)) \cup {None}
               S == Seq(0 .. MaxSample)
    <2>1. a \in Series
      BY <1>10, AtReader DEF Drain
    <2>2. Percentiles(window[a]) \in L /\ <<>> \in S
      BY <2>1, PercentileFacts DEF TypeCore
    <2>3. /\ last' = [last EXCEPT ![a] = Percentiles(window[a])] /\ last \in [Series -> L]
          /\ window' = [window EXCEPT ![a] = <<>>] /\ window \in [Series -> S]
          /\ \A s \in Series : Len(window[s]) <= Cap
      BY <1>10 DEF Drain, TypeCore
    <2> HIDE DEF a, L, S
    <2>4. /\ last' \in [Series -> L] /\ window' \in [Series -> S]
          /\ \A s \in Series : window'[s] = <<>> \/ window'[s] = window[s]
      BY <2>1, <2>2, <2>3
    <2>5. \A s \in Series : Len(window'[s]) <= Cap
      BY <1>0, <2>3, <2>4
    <2> QED
      BY <1>10, <2>4, <2>5 DEF Drain, TypeCore, L, S
  <1>11. ASSUME Publish
         PROVE  TypeCore'
    <2>1. m' \in [Field -> Nat]
      <3> DEFINE s == Arg(Logger)
      <3>1. PICK op \in {"store95", "store99"} : At(Logger, op)
        BY <1>11 DEF Publish
      <3>2. s \in Series
        BY <3>1, AtReader
      <3>3. LastP95[s] \in Field /\ LastP99[s] \in Field
        BY <3>2, FieldNames
      <3>4. last[s] # None => last[s][1] \in Nat /\ last[s][2] \in Nat
        BY <3>2 DEF TypeCore
      <3>5. m' = Stored(LastP95[s], s, 1) \/ m' = Stored(LastP99[s], s, 2)
        BY <1>11 DEF Publish
      <3> HIDE DEF s
      <3> QED
        BY <3>3, <3>4, <3>5 DEF Stored, TypeCore
    <2> QED
      BY <1>11, <2>1 DEF Publish, TypeCore
  <1>12. ASSUME NEW t \in Reader \cup {Logger}, Read(t)
         PROVE  TypeCore'
    <2>1. Arg(t) \in Field
      BY <1>12, AtReader DEF Read
    <2>2. snap' \in [Reader \cup {Logger} -> [Field -> Nat]]
      <3> DEFINE R == Reader \cup {Logger}
      <3>1. /\ snap \in [R -> [Field -> Nat]] /\ m[Arg(t)] \in Nat /\ t \in R
            /\ snap' = [snap EXCEPT ![t][Arg(t)] = m[Arg(t)]]
        BY <1>12, <2>1 DEF Read, TypeCore
      <3> HIDE DEF R
      <3> QED
        BY <2>1, <3>1 DEF R
    <2> QED
      BY <1>12, <2>2 DEF Read, TypeCore
  <1> QED
    BY <1>1, <1>2, <1>3, <1>4, <1>5, <1>6, <1>7, <1>8, <1>9, <1>10, <1>11, <1>12 DEF Next

-----------------------------------------------------------------------------
\* The steps of a request, one by one.
LEMMA RequestActs ==
  ASSUME TodoInv, NEW t \in Request
  PROVE  /\ Increment(t) => Went(t) /\ Alone(t) /\ Leaves(t)
         /\ RecordCount(t) => /\ Went(t) /\ Alone(t) /\ Goes(t, "total")
                              /\ Arg(t) \in Series /\ Head(todo[t]) = oTime(Arg(t))
         /\ RecordTotal(t) => /\ Went(t) /\ Alone(t) /\ Goes(t, "enabled")
                              /\ Arg(t) \in Series /\ Head(todo[t]) \notin Key
         /\ CheckEnabled(t) => /\ Went(t) /\ Alone(t) /\ Head(todo[t]) \notin Key
                               /\ Leaves(t) \/ (Goes(t, "sample") /\ us' = us)
         /\ ShouldSample(t) =>
              /\ Went(t) /\ Alone(t) /\ Head(todo[t]) \notin Key /\ Arg(t) \in Series
              /\ IF every <= 1 \/ (samples[Arg(t)] + 1) % every = 0
                 THEN Goes(t, "observe") /\ us' = us
                 ELSE Leaves(t)
         /\ Observe(t) => /\ Went(t) /\ Alone(t) /\ Leaves(t)
                          /\ Arg(t) \in Series /\ Head(todo[t]) \notin Key
  <1>0. \A o \in Inner : \A s : <<o, s>> \notin Key
    BY KeyFacts
  <1>1. ASSUME Increment(t)
        PROVE  Went(t) /\ Alone(t) /\ Leaves(t)
    <2>1. todo[t] # <<>> /\ Head(todo[t])[1] = "inc" /\ Skip(t, 1)
      BY <1>1 DEF Increment, At
    <2>2. "inc" \notin Outer
      BY DEF Outer
    <2> QED
      BY <2>1, <2>2, WentOne
  <1>2. ASSUME RecordCount(t)
        PROVE  /\ Went(t) /\ Alone(t) /\ Goes(t, "total")
               /\ Arg(t) \in Series /\ Head(todo[t]) = oTime(Arg(t))
    <2>1. At(t, "count") /\ Skip(t, 1)
      BY <1>2 DEF RecordCount
    <2>2. /\ todo[t] # <<>> /\ Head(todo[t]) = <<"count", Arg(t)>> /\ Head(todo[t])[1] = "count"
          /\ Arg(t) \in Series
      BY <2>1, AtRequest DEF Outer
    <2>3. "count" \in Outer /\ Then("count") = "total"
      BY DEF Outer, Then
    <2> QED
      BY <2>1, <2>2, <2>3, WentOne DEF oTime
  <1>3. ASSUME RecordTotal(t)
        PROVE  /\ Went(t) /\ Alone(t) /\ Goes(t, "enabled")
               /\ Arg(t) \in Series /\ Head(todo[t]) \notin Key
    <2>1. At(t, "total") /\ Skip(t, 1)
      BY <1>3 DEF RecordTotal
    <2>2. /\ todo[t] # <<>> /\ Head(todo[t]) = <<"total", Arg(t)>> /\ Head(todo[t])[1] = "total"
          /\ Arg(t) \in Series
      BY <2>1, AtRequest DEF Outer
    <2>3. "total" \in Outer /\ "total" \in Inner /\ Then("total") = "enabled"
      BY DEF Outer, Inner, Then
    <2> QED
      BY <1>0, <2>1, <2>2, <2>3, WentOne
  <1>4. ASSUME CheckEnabled(t)
        PROVE  /\ Went(t) /\ Alone(t) /\ Head(todo[t]) \notin Key
               /\ Leaves(t) \/ (Goes(t, "sample") /\ us' = us)
    <2>1. /\ At(t, "enabled")
          /\ \/ Skip(t, 1) /\ us' = us
             \/ Skip(t, 3)
      BY <1>4 DEF CheckEnabled
    <2>2. /\ todo[t] # <<>> /\ Head(todo[t]) = <<"enabled", Arg(t)>>
          /\ Head(todo[t])[1] = "enabled"
      BY <2>1, AtRequest
    <2>3. "enabled" \in Outer /\ "enabled" \in Inner /\ Then("enabled") = "sample"
      BY DEF Outer, Inner, Then
    <2>4. CASE Skip(t, 1) /\ us' = us
      BY <1>0, <2>2, <2>3, <2>4, WentOne
    <2>5. CASE Skip(t, 3)
      <3>1. 3 \in {2, 3} /\ Head(todo[t])[1] = IF 3 = 2 THEN "sample" ELSE "enabled"
        BY <2>2
      <3>2. Went(t) /\ Alone(t) /\ Leaves(t)
        BY <2>2, <2>5, <3>1, WentOut
      <3> QED
        BY <1>0, <2>2, <2>3, <3>2
    <2> QED
      BY <2>1, <2>4, <2>5
  <1>5. ASSUME ShouldSample(t)
        PROVE  /\ Went(t) /\ Alone(t) /\ Head(todo[t]) \notin Key /\ Arg(t) \in Series
               /\ IF every <= 1 \/ (samples[Arg(t)] + 1) % every = 0
                  THEN Goes(t, "observe") /\ us' = us
                  ELSE Leaves(t)
    <2>1. /\ At(t, "sample")
          /\ IF every <= 1 \/ (samples[Arg(t)] + 1) % every = 0
             THEN Skip(t, 1) /\ us' = us
             ELSE Skip(t, 2)
      BY <1>5 DEF ShouldSample
    <2>2. /\ todo[t] # <<>> /\ Head(todo[t]) = <<"sample", Arg(t)>>
          /\ Head(todo[t])[1] = "sample" /\ Arg(t) \in Series
      BY <2>1, AtRequest DEF Outer
    <2>3. "sample" \in Outer /\ "sample" \in Inner /\ Then("sample") = "observe"
      BY DEF Outer, Inner, Then
    <2>4. CASE every <= 1 \/ (samples[Arg(t)] + 1) % every = 0
      <3>1. Skip(t, 1) /\ us' = us
        BY <2>1, <2>4
      <3> QED
        BY <1>0, <2>2, <2>3, <2>4, <3>1, WentOne
    <2>5. CASE ~(every <= 1 \/ (samples[Arg(t)] + 1) % every = 0)
      <3>1. Skip(t, 2)
        BY <2>1, <2>5
      <3> QED
        BY <1>0, <2>2, <2>3, <2>5, <3>1, WentOut
    <2> QED
      BY <2>4, <2>5
  <1>6. ASSUME Observe(t)
        PROVE  /\ Went(t) /\ Alone(t) /\ Leaves(t)
               /\ Arg(t) \in Series /\ Head(todo[t]) \notin Key
    <2>1. At(t, "observe") /\ Skip(t, 1)
      BY <1>6 DEF Observe
    <2>2. /\ todo[t] # <<>> /\ Head(todo[t]) = <<"observe", Arg(t)>>
          /\ Head(todo[t])[1] = "observe" /\ Arg(t) \in Series
      BY <2>1, AtRequest DEF Inner
    <2>3. "observe" \notin Outer /\ "observe" \in Inner
      BY DEF Outer, Inner
    <2> QED
      BY <1>0, <2>1, <2>2, <2>3, WentOne
  <1> QED
    BY <1>1, <1>2, <1>3, <1>4, <1>5, <1>6

\* The sequences stay in shape, and a duration is there when it is needed.
LEMMA TodoStep ==
  ASSUME TypeCore, TodoInv, TimeInv, Next
  PROVE  TodoInv' /\ TimeInv'
  <1>0. conf \in DOMAIN Scenario
    BY DEF TypeCore
  <1>1. ASSUME \A r \in Request : todo'[r] = todo[r], us' = us, conf' = conf
        PROVE  TimeInv'
    BY <1>1 DEF TimeInv
  <1>2. ASSUME NEW t \in Request, \A r \in Request : r # t => todo'[r] = todo[r] /\ us'[r] = us[r],
               conf' = conf, Leaves(t) \/ us'[t] \in Scenario[conf].Latency
        PROVE  TimeInv'
    BY <1>2 DEF TimeInv, Leaves
  <1>3. \A t \in Request : At(t, "total") \/ At(t, "enabled") \/ At(t, "sample") =>
          us[t] \in Scenario[conf].Latency
    BY DEF TimeInv, At, Inner
  <1>4. \A t, r \in Thread : \A d : us' = [us EXCEPT ![t] = d] =>
          us'[t] = d /\ (r # t => us'[r] = us[r])
    BY DEF TypeCore
  <1>5. \A t \in Request : t \in Thread
    BY Roles
  <1>6. ASSUME NEW t \in Thread, Start(t)
        PROVE  TodoInv' /\ TimeInv'
    <2>1. /\ TodoInv' /\ Alone(t) /\ (t \in Request => Fresh(todo'[t]))
          /\ us' = us /\ conf' = conf
      BY <1>0, <1>6, Started DEF Start
    <2>2. CASE t \in Request
      <3>1. Leaves(t)
        <4>1. Opens(todo'[t]) /\ todo'[t] \in Seq(RequestOps)
          BY <2>1, <2>2 DEF Fresh, RequestRest
        <4>2. todo'[t] # <<>> => Head(todo'[t]) = todo'[t][1]
          BY <4>1
        <4> QED
          BY <4>1, <4>2 DEF Opens, Leaves
      <3> QED
        BY <1>2, <1>5, <2>1, <2>2, <3>1 DEF Alone
    <2>3. CASE t \notin Request
      BY <1>1, <1>5, <2>1, <2>3 DEF Alone
    <2> QED
      BY <2>1, <2>2, <2>3
  <1>7. ASSUME NEW t \in Request, Missed(t)
        PROVE  TodoInv' /\ TimeInv'
    <2>1. Went(t) /\ Leaves(t) /\ us' = us /\ conf' = conf
      BY <1>7, MissedStep DEF Missed
    <2> QED
      BY <1>2, <2>1 DEF Went
  <1>8. ASSUME NEW t \in Request, Increment(t)
        PROVE  TodoInv' /\ TimeInv'
    <2>1. Went(t) /\ Leaves(t) /\ us' = us /\ conf' = conf
      BY <1>8, RequestActs DEF Increment
    <2> QED
      BY <1>2, <2>1 DEF Went
  <1>9. ASSUME NEW t \in Request, RecordCount(t)
        PROVE  TodoInv' /\ TimeInv'
    <2>1. Went(t) /\ conf' = conf
      BY <1>9, RequestActs DEF RecordCount
    <2>2. PICK d \in Scenario[conf].Latency : us' = [us EXCEPT ![t] = d]
      BY <1>9 DEF RecordCount
    <2>3. us'[t] \in Scenario[conf].Latency /\ \A r \in Request : r # t => us'[r] = us[r]
      BY <1>4, <1>5, <2>2
    <2> QED
      BY <1>2, <2>1, <2>3 DEF Went
  <1>10. ASSUME NEW t \in Request, RecordTotal(t)
         PROVE  TodoInv' /\ TimeInv'
    <2>1. Went(t) /\ us' = us /\ conf' = conf /\ At(t, "total")
      BY <1>10, RequestActs DEF RecordTotal
    <2> QED
      BY <1>2, <1>3, <2>1 DEF Went
  <1>11. ASSUME NEW t \in Request, CheckEnabled(t)
         PROVE  TodoInv' /\ TimeInv'
    <2>1. /\ Went(t) /\ conf' = conf /\ At(t, "enabled")
          /\ Leaves(t) \/ us' = us
          /\ us' = us \/ us' = [us EXCEPT ![t] = None]
      BY <1>11, RequestActs DEF CheckEnabled
    <2>2. \A r \in Request : r # t => us'[r] = us[r]
      BY <1>4, <1>5, <2>1
    <2>3. Leaves(t) \/ us'[t] \in Scenario[conf].Latency
      BY <1>3, <2>1
    <2> QED
      BY <1>2, <2>1, <2>2, <2>3 DEF Went
  <1>12. ASSUME NEW t \in Request, ShouldSample(t)
         PROVE  TodoInv' /\ TimeInv'
    <2>1. /\ Went(t) /\ conf' = conf /\ At(t, "sample")
          /\ us' = us \/ us' = [us EXCEPT ![t] = None]
      BY <1>12, RequestActs DEF ShouldSample
    <2>2. Leaves(t) \/ us' = us
      BY <1>12, RequestActs
    <2>3. \A r \in Request : r # t => us'[r] = us[r]
      BY <1>4, <1>5, <2>1
    <2>4. Leaves(t) \/ us'[t] \in Scenario[conf].Latency
      BY <1>3, <2>1, <2>2
    <2> QED
      BY <1>2, <2>1, <2>3, <2>4 DEF Went
  <1>13. ASSUME NEW t \in Request, Observe(t)
         PROVE  TodoInv' /\ TimeInv'
    <2>1. Went(t) /\ Leaves(t) /\ conf' = conf /\ us' = [us EXCEPT ![t] = None]
      BY <1>13, RequestActs DEF Observe
    <2>2. \A r \in Request : r # t => us'[r] = us[r]
      BY <1>4, <1>5, <2>1
    <2> QED
      BY <1>2, <2>1, <2>2 DEF Went
  <1>14. ASSUME NEW t \in Loader, Increment(t)
         PROVE  TodoInv' /\ TimeInv'
    <2>1. TodoInv' /\ Alone(t) /\ us' = us /\ conf' = conf
      BY <1>14, LoaderStep DEF Increment, At
    <2> QED
      BY <1>1, <2>1, Roles DEF Alone
  <1>15. ASSUME NEW t \in Admin, SetEnabled(t)
         PROVE  TodoInv' /\ TimeInv'
    <2>1. TodoInv' /\ Alone(t) /\ us' = us /\ conf' = conf
      BY <1>15, AdminStep DEF SetEnabled, At
    <2> QED
      BY <1>1, <2>1, Roles DEF Alone
  <1>16. ASSUME NEW t \in Reader \cup {Logger}, todo[t] # <<>>, Skip(t, 1), us' = us, conf' = conf
         PROVE  TodoInv' /\ TimeInv'
    <2>1. TodoInv' /\ Alone(t)
      BY <1>16, ReadStep
    <2> QED
      BY <1>1, <1>16, <2>1, Roles DEF Alone
  <1>17. ASSUME Drain \/ Publish
         PROVE  TodoInv' /\ TimeInv'
    BY <1>16, <1>17 DEF Drain, Publish, At
  <1>18. ASSUME NEW t \in Reader \cup {Logger}, Read(t)
         PROVE  TodoInv' /\ TimeInv'
    BY <1>16, <1>18 DEF Read, At
  <1> QED
    BY <1>6, <1>7, <1>8, <1>9, <1>10, <1>11, <1>12, <1>13, <1>14, <1>15, <1>17, <1>18 DEF Next

-----------------------------------------------------------------------------
\* What is owed: the sets of Balance change only where a thread takes a step.

Moved(A, B, x) ==
  /\ Cardinality(A) \in Nat /\ Cardinality(B) \in Nat
  /\ x \in A /\ x \notin B => Cardinality(B) = Cardinality(A) - 1
  /\ x \notin A /\ x \in B => Cardinality(B) = Cardinality(A) + 1
  /\ (x \in A <=> x \in B) => Cardinality(B) = Cardinality(A)

LEMMA MovedOne ==
  ASSUME NEW A, IsFiniteSet(A), NEW B, NEW x, A \ {x} = B \ {x}
  PROVE  Moved(A, B, x)
  <1>1. /\ Cardinality(A) \in Nat /\ Cardinality(B) \in Nat
        /\ Cardinality(B) + (IF x \in A THEN 1 ELSE 0)
             = Cardinality(A) + (IF x \in B THEN 1 ELSE 0)
    BY OneMoves
  <1> DEFINE a == Cardinality(A)
             b == Cardinality(B)
  <1> HIDE DEF a, b
  <1>2. a \in Nat /\ b \in Nat
        /\ b + (IF x \in A THEN 1 ELSE 0) = a + (IF x \in B THEN 1 ELSE 0)
    BY <1>1 DEF a, b
  <1>3. CASE x \in A /\ x \notin B
    <2>1. b + 1 = a + 0
      BY <1>2, <1>3
    <2> QED
      BY <1>2, <1>3, <2>1 DEF Moved, a, b
  <1>4. CASE x \notin A /\ x \in B
    <2>1. b + 0 = a + 1
      BY <1>2, <1>4
    <2> QED
      BY <1>2, <1>4, <2>1 DEF Moved, a, b
  <1>5. CASE x \in A <=> x \in B
    <2>1. b = a
      BY <1>2, <1>5
    <2> QED
      BY <1>2, <1>5, <2>1 DEF Moved, a, b
  <1> QED
    BY <1>3, <1>4, <1>5

LEMMA RequestMoves ==
  ASSUME NEW t \in Request, \A r \in Request : r # t => todo'[r] = todo[r]
  PROVE  /\ Moved(Hitting, Hitting', t) /\ Moved(Missing, Missing', t)
         /\ Moved(Erring, Erring', t) /\ Moved(Loading, Loading', t)
         /\ Moved(Searching, Searching', t) /\ Moved(Getting, Getting', t)
         /\ Moved(Calling, Calling', t)
         /\ \A s : Moved(Adding(s), Adding(s)', t) /\ Moved(Observing(s), Observing(s)', t)
  <1>0. /\ IsFiniteSet(Request)
        /\ \A A \in SUBSET Request : IsFiniteSet(A)
    BY MetricsAssumption, FS_Subset
  <1>1. \A A, B \in SUBSET Request : A \ {t} = B \ {t} => Moved(A, B, t)
    BY <1>0, MovedOne
  <1>2. \A r \in Request : r # t => N(r)' = N(r)
    BY DEF N
  <1>3. Moved(Hitting, Hitting', t)
    <2>1. Hitting \in SUBSET Request /\ Hitting' \in SUBSET Request /\ Hitting \ {t} = Hitting' \ {t}
      BY <1>2 DEF Hitting
    <2> QED
      BY <1>1, <2>1
  <1>4. Moved(Missing, Missing', t)
    <2>1. Missing \in SUBSET Request /\ Missing' \in SUBSET Request /\ Missing \ {t} = Missing' \ {t}
      BY <1>2 DEF Missing
    <2> QED
      BY <1>1, <2>1
  <1>5. Moved(Erring, Erring', t)
    <2>1. Erring \in SUBSET Request /\ Erring' \in SUBSET Request /\ Erring \ {t} = Erring' \ {t}
      BY <1>2 DEF Erring
    <2> QED
      BY <1>1, <2>1
  <1>6. Moved(Loading, Loading', t)
    <2>1. Loading \in SUBSET Request /\ Loading' \in SUBSET Request /\ Loading \ {t} = Loading' \ {t}
      BY <1>2 DEF Loading
    <2> QED
      BY <1>1, <2>1
  <1>7. Moved(Searching, Searching', t)
    <2>1. Searching \in SUBSET Request /\ Searching' \in SUBSET Request /\ Searching \ {t} = Searching' \ {t}
      BY <1>2 DEF Searching
    <2> QED
      BY <1>1, <2>1
  <1>8. Moved(Getting, Getting', t)
    <2>1. Getting \in SUBSET Request /\ Getting' \in SUBSET Request /\ Getting \ {t} = Getting' \ {t}
      BY <1>2 DEF Getting
    <2> QED
      BY <1>1, <2>1
  <1>9. Moved(Calling, Calling', t)
    <2>1. Calling \in SUBSET Request /\ Calling' \in SUBSET Request /\ Calling \ {t} = Calling' \ {t}
      BY <1>2 DEF Calling
    <2> QED
      BY <1>1, <2>1
  <1>10. ASSUME NEW s
         PROVE  Moved(Adding(s), Adding(s)', t)
    <2>1. /\ Adding(s) \in SUBSET Request /\ Adding(s)' \in SUBSET Request
          /\ Adding(s) \ {t} = Adding(s)' \ {t}
      BY DEF Adding, At, Arg
    <2> QED
      BY <1>1, <2>1
  <1>11. ASSUME NEW s
         PROVE  Moved(Observing(s), Observing(s)', t)
    <2>1. /\ Observing(s) \in SUBSET Request /\ Observing(s)' \in SUBSET Request
          /\ Observing(s) \ {t} = Observing(s)' \ {t}
      BY DEF Observing, At, Arg
    <2> QED
      BY <1>1, <2>1
  <1> QED
    BY <1>3, <1>4, <1>5, <1>6, <1>7, <1>8, <1>9, <1>10, <1>11

LEMMA LoaderMoves ==
  ASSUME NEW g \in Loader, \A r \in Loader : r # g => todo'[r] = todo[r]
  PROVE  Moved(AtPeer, AtPeer', g) /\ Moved(AtHome, AtHome', g)
  <1>1. \A A, B \in SUBSET Loader : A \ {g} = B \ {g} => Moved(A, B, g)
    <2>1. \A A \in SUBSET Loader : IsFiniteSet(A)
      BY MetricsAssumption, FS_Subset
    <2> QED
      BY <2>1, MovedOne
  <1>2. \A r \in Loader : r # g => N(r)' = N(r)
    BY DEF N
  <1>3. AtPeer \in SUBSET Loader /\ AtPeer' \in SUBSET Loader /\ AtPeer \ {g} = AtPeer' \ {g}
    BY <1>2 DEF AtPeer
  <1>4. AtHome \in SUBSET Loader /\ AtHome' \in SUBSET Loader /\ AtHome \ {g} = AtHome' \ {g}
    BY <1>2 DEF AtHome
  <1> QED
    BY <1>1, <1>3, <1>4

LEMMA OwedNat ==
  /\ Cardinality(Hitting) \in Nat /\ Cardinality(Missing) \in Nat /\ Cardinality(Erring) \in Nat
  /\ Cardinality(Loading) \in Nat /\ Cardinality(Searching) \in Nat /\ Cardinality(Getting) \in Nat
  /\ Cardinality(Calling) \in Nat /\ Cardinality(AtPeer) \in Nat /\ Cardinality(AtHome) \in Nat
  /\ Cardinality(Searching) <= Cardinality(Request) /\ Cardinality(Request) \in Nat
  /\ \A s : Cardinality(Adding(s)) \in Nat /\ Cardinality(Observing(s)) \in Nat
  <1>1. \A A \in SUBSET Request : /\ Cardinality(A) \in Nat /\ Cardinality(A) <= Cardinality(Request)
    BY MetricsAssumption, FS_Subset, FS_CardinalityType
  <1>2. \A A \in SUBSET Loader : Cardinality(A) \in Nat
    BY MetricsAssumption, FS_Subset, FS_CardinalityType
  <1>3. /\ Hitting \in SUBSET Request /\ Missing \in SUBSET Request /\ Erring \in SUBSET Request
        /\ Loading \in SUBSET Request /\ Searching \in SUBSET Request /\ Getting \in SUBSET Request
        /\ Calling \in SUBSET Request /\ Request \in SUBSET Request
        /\ AtPeer \in SUBSET Loader /\ AtHome \in SUBSET Loader
        /\ \A s : Adding(s) \in SUBSET Request /\ Observing(s) \in SUBSET Request
    BY DEF Hitting, Missing, Erring, Loading, Searching, Getting, Calling, AtPeer, AtHome,
           Adding, Observing
  <1> QED
    BY <1>1, <1>2, <1>3

\* The fields that Balance relates.
Counted == {"CacheHits", "GroupGets", "CacheMisses", "APIErrors", "APIRequests", "PeerLoads",
            "FilterMisses", "LocalLoads", "GroupGetLatencyCount", "APILatencyCount"}

LEMMA CountedFields ==
  ASSUME m \in [Field -> Nat]
  PROVE  \A f \in Counted : f \in Field /\ m[f] \in Nat
  BY FieldNames DEF Counted

\* Nothing that Balance asks about changes.
LEMMA Quiet ==
  ASSUME Balance, \A f \in Counted : m'[f] = m[f],
         \A r \in Request : \A y \in Key : y \in N(r)' <=> y \in N(r),
         \A r \in Loader : todo'[r] = todo[r]
  PROVE  Balance'
  <1>1. \A r \in Loader : N(r)' = N(r)
    BY DEF N
  <1>2. /\ oCall \in Key /\ oErr \in Key /\ oGet \in Key /\ oHit \in Key /\ oMiss \in Key
        /\ oLoad \in Key /\ oTime("api") \in Key /\ oTime("group") \in Key
    BY DEF Key
  <1>3. /\ Hitting' = Hitting /\ Missing' = Missing /\ Erring' = Erring /\ Loading' = Loading
        /\ Searching' = Searching /\ Getting' = Getting /\ Calling' = Calling
    BY <1>2 DEF Hitting, Missing, Erring, Loading, Searching, Getting, Calling
  <1>4. AtPeer' = AtPeer /\ AtHome' = AtHome
    BY <1>1 DEF AtPeer, AtHome
  <1>5. /\ m'["CacheHits"] = m["CacheHits"] /\ m'["GroupGets"] = m["GroupGets"]
        /\ m'["CacheMisses"] = m["CacheMisses"] /\ m'["APIErrors"] = m["APIErrors"]
        /\ m'["APIRequests"] = m["APIRequests"] /\ m'["PeerLoads"] = m["PeerLoads"]
        /\ m'["FilterMisses"] = m["FilterMisses"] /\ m'["LocalLoads"] = m["LocalLoads"]
        /\ m'["GroupGetLatencyCount"] = m["GroupGetLatencyCount"]
        /\ m'["APILatencyCount"] = m["APILatencyCount"]
    BY DEF Counted
  <1> QED
    BY <1>3, <1>4, <1>5 DEF Balance

\* Whether the thread that takes the step owes something, before and after it.
LEMMA Owing ==
  ASSUME NEW t \in Request
  PROVE  /\ t \in Hitting <=> oHit \in N(t) /\ oGet \notin N(t)
         /\ t \in Missing <=> oMiss \in N(t) /\ oGet \notin N(t)
         /\ t \in Erring <=> oErr \in N(t) /\ oCall \notin N(t)
         /\ t \in Loading <=> oLoad \in N(t) /\ oMiss \notin N(t)
         /\ t \in Searching <=> (oHit \in N(t) \/ oMiss \in N(t)) /\ oGet \notin N(t)
         /\ t \in Getting <=> oTime("group") \in N(t) /\ oGet \notin N(t)
         /\ t \in Calling <=> oTime("api") \in N(t) /\ oCall \notin N(t)
         /\ t \in Hitting' <=> oHit \in N(t)' /\ oGet \notin N(t)'
         /\ t \in Missing' <=> oMiss \in N(t)' /\ oGet \notin N(t)'
         /\ t \in Erring' <=> oErr \in N(t)' /\ oCall \notin N(t)'
         /\ t \in Loading' <=> oLoad \in N(t)' /\ oMiss \notin N(t)'
         /\ t \in Searching' <=> (oHit \in N(t)' \/ oMiss \in N(t)') /\ oGet \notin N(t)'
         /\ t \in Getting' <=> oTime("group") \in N(t)' /\ oGet \notin N(t)'
         /\ t \in Calling' <=> oTime("api") \in N(t)' /\ oCall \notin N(t)'
  BY DEF Hitting, Missing, Erring, Loading, Searching, Getting, Calling

\* The eight operations that matter are different from each other.
LEMMA KeysDiffer ==
  /\ oCall # oErr /\ oCall # oGet /\ oCall # oHit /\ oCall # oMiss /\ oCall # oLoad
  /\ oErr # oGet /\ oErr # oHit /\ oErr # oMiss /\ oErr # oLoad
  /\ oGet # oHit /\ oGet # oMiss /\ oGet # oLoad /\ oHit # oMiss /\ oHit # oLoad /\ oMiss # oLoad
  /\ oTime("api") # oTime("group")
  /\ \A s : \A x \in {oCall, oErr, oGet, oHit, oMiss, oLoad, oServe} : oTime(s) # x
  /\ \A x \in {oCall, oErr, oGet, oHit, oMiss, oLoad} : oServe # x
  BY DEF oCall, oErr, oGet, oHit, oMiss, oLoad, oTime, oServe

\* The number that each set of Balance changes by, when a request takes a step.
LEMMA OwedChange ==
  ASSUME TodoInv, NEW t \in Request, todo[t] # <<>>, Went(t)
  PROVE  LET x == Head(todo[t])
             B(p) == IF p THEN 1 ELSE 0
         IN  /\ x = oHit => /\ Cardinality(Hitting') = Cardinality(Hitting) - 1
                            /\ Cardinality(Searching') >= Cardinality(Searching) - 1
                            /\ Cardinality(Missing') = Cardinality(Missing)
                            /\ Cardinality(Getting') = Cardinality(Getting)
             /\ x = oMiss => /\ Cardinality(Missing') = Cardinality(Missing) - 1
                             /\ Cardinality(Searching') >= Cardinality(Searching) - 1
                             /\ Cardinality(Hitting') = Cardinality(Hitting)
                             /\ Cardinality(Getting') = Cardinality(Getting)
                             /\ Cardinality(Loading') <= Cardinality(Loading) + 1
             /\ x = oGet => /\ Cardinality(Hitting') <= Cardinality(Hitting) + 1
                            /\ Cardinality(Missing') <= Cardinality(Missing) + 1
                            /\ Cardinality(Searching') = Cardinality(Searching) + 1
                            /\ Cardinality(Getting') = Cardinality(Getting) + 1
             /\ x = oErr => Cardinality(Erring') = Cardinality(Erring) - 1
             /\ x = oCall => /\ Cardinality(Erring') <= Cardinality(Erring) + 1
                             /\ Cardinality(Calling') = Cardinality(Calling) + 1
             /\ x = oLoad => Cardinality(Loading') = Cardinality(Loading) - 1
             /\ x = oTime("group") => Cardinality(Getting') = Cardinality(Getting) - 1
             /\ x = oTime("api") => Cardinality(Calling') = Cardinality(Calling) - 1
             /\ x \notin {oHit, oGet} => Cardinality(Hitting') = Cardinality(Hitting)
             /\ x \notin {oMiss, oGet} => Cardinality(Missing') = Cardinality(Missing)
             /\ x \notin {oErr, oCall} => Cardinality(Erring') = Cardinality(Erring)
             /\ x \notin {oLoad, oMiss} => Cardinality(Loading') = Cardinality(Loading)
             /\ x \notin {oHit, oMiss, oGet} => Cardinality(Searching') = Cardinality(Searching)
             /\ x \notin {oTime("group"), oGet} => Cardinality(Getting') = Cardinality(Getting)
             /\ x \notin {oTime("api"), oCall} => Cardinality(Calling') = Cardinality(Calling)
  <1> DEFINE x == Head(todo[t])
  <1>1. x \in N(t) /\ NeedInv(N(t))
    BY RequestHead
  <1> HIDE DEF x
  <1>2. /\ \A y \in Key : y \in N(t)' <=> y \in N(t) /\ y # x
        /\ \A y \in N(t)' : ~Never(x, y)
    BY DEF Went, x
  <1>3. /\ Moved(Hitting, Hitting', t) /\ Moved(Missing, Missing', t)
        /\ Moved(Erring, Erring', t) /\ Moved(Loading, Loading', t)
        /\ Moved(Searching, Searching', t) /\ Moved(Getting, Getting', t)
        /\ Moved(Calling, Calling', t)
    BY RequestMoves DEF Went
  <1>4. /\ oCall \in N(t)' <=> oCall \in N(t) /\ oCall # x
        /\ oErr \in N(t)' <=> oErr \in N(t) /\ oErr # x
        /\ oGet \in N(t)' <=> oGet \in N(t) /\ oGet # x
        /\ oHit \in N(t)' <=> oHit \in N(t) /\ oHit # x
        /\ oMiss \in N(t)' <=> oMiss \in N(t) /\ oMiss # x
        /\ oLoad \in N(t)' <=> oLoad \in N(t) /\ oLoad # x
        /\ oTime("api") \in N(t)' <=> oTime("api") \in N(t) /\ oTime("api") # x
        /\ oTime("group") \in N(t)' <=> oTime("group") \in N(t) /\ oTime("group") # x
    BY <1>2 DEF Key
  <1>5. /\ x \in {oHit, oMiss, oLoad, oTime("group"), oGet} => oGet \notin N(t)'
        /\ x = oLoad => oMiss \notin N(t)'
        /\ x \in {oErr, oTime("api"), oCall} => oCall \notin N(t)'
    BY <1>2, <1>4, KeyFacts
  <1>6. /\ x \in {oHit, oMiss, oLoad, oTime("group")} => oGet \notin N(t)
        /\ x = oLoad => oMiss \notin N(t)
        /\ x \in {oErr, oTime("api")} => oCall \notin N(t)
    BY <1>4, <1>5, KeysDiffer
  <1>7. /\ x = oHit => Cardinality(Hitting') = Cardinality(Hitting) - 1
        /\ x = oGet => Cardinality(Hitting') <= Cardinality(Hitting) + 1
        /\ x \notin {oHit, oGet} => Cardinality(Hitting') = Cardinality(Hitting)
    <2>1. Cardinality(Hitting) \in Nat /\ Cardinality(Hitting') \in Nat
      BY <1>3 DEF Moved
    <2>2. /\ t \in Hitting /\ t \notin Hitting' => Cardinality(Hitting') = Cardinality(Hitting) - 1
          /\ t \notin Hitting /\ t \in Hitting' => Cardinality(Hitting') = Cardinality(Hitting) + 1
          /\ (t \in Hitting <=> t \in Hitting') => Cardinality(Hitting') = Cardinality(Hitting)
      BY <1>3 DEF Moved
    <2>3. x = oHit => t \in Hitting /\ t \notin Hitting'
      BY <1>1, <1>4, <1>5, <1>6, Owing, KeysDiffer DEF NeedInv
    <2>4. x = oGet => t \notin Hitting
      BY <1>1, <1>4, <1>5, <1>6, Owing, KeysDiffer DEF NeedInv
    <2>5. x \notin {oHit, oGet} => (t \in Hitting <=> t \in Hitting')
      BY <1>4, Owing
    <2> QED
      BY <2>1, <2>2, <2>3, <2>4, <2>5
  <1>8. /\ x = oMiss => Cardinality(Missing') = Cardinality(Missing) - 1
        /\ x = oGet => Cardinality(Missing') <= Cardinality(Missing) + 1
        /\ x \notin {oMiss, oGet} => Cardinality(Missing') = Cardinality(Missing)
    <2>1. Cardinality(Missing) \in Nat /\ Cardinality(Missing') \in Nat
      BY <1>3 DEF Moved
    <2>2. /\ t \in Missing /\ t \notin Missing' => Cardinality(Missing') = Cardinality(Missing) - 1
          /\ t \notin Missing /\ t \in Missing' => Cardinality(Missing') = Cardinality(Missing) + 1
          /\ (t \in Missing <=> t \in Missing') => Cardinality(Missing') = Cardinality(Missing)
      BY <1>3 DEF Moved
    <2>3. x = oMiss => t \in Missing /\ t \notin Missing'
      BY <1>1, <1>4, <1>5, <1>6, Owing, KeysDiffer DEF NeedInv
    <2>4. x = oGet => t \notin Missing
      BY <1>1, <1>4, <1>5, <1>6, Owing, KeysDiffer DEF NeedInv
    <2>5. x \notin {oMiss, oGet} => (t \in Missing <=> t \in Missing')
      BY <1>4, Owing
    <2> QED
      BY <2>1, <2>2, <2>3, <2>4, <2>5
  <1>9. /\ x = oErr => Cardinality(Erring') = Cardinality(Erring) - 1
        /\ x = oCall => Cardinality(Erring') <= Cardinality(Erring) + 1
        /\ x \notin {oErr, oCall} => Cardinality(Erring') = Cardinality(Erring)
    <2>1. Cardinality(Erring) \in Nat /\ Cardinality(Erring') \in Nat
      BY <1>3 DEF Moved
    <2>2. /\ t \in Erring /\ t \notin Erring' => Cardinality(Erring') = Cardinality(Erring) - 1
          /\ t \notin Erring /\ t \in Erring' => Cardinality(Erring') = Cardinality(Erring) + 1
          /\ (t \in Erring <=> t \in Erring') => Cardinality(Erring') = Cardinality(Erring)
      BY <1>3 DEF Moved
    <2>3. x = oErr => t \in Erring /\ t \notin Erring'
      BY <1>1, <1>4, <1>5, <1>6, Owing, KeysDiffer DEF NeedInv
    <2>4. x = oCall => t \notin Erring
      BY <1>1, <1>4, <1>5, <1>6, Owing, KeysDiffer DEF NeedInv
    <2>5. x \notin {oErr, oCall} => (t \in Erring <=> t \in Erring')
      BY <1>4, Owing
    <2> QED
      BY <2>1, <2>2, <2>3, <2>4, <2>5
  <1>10. /\ x = oLoad => Cardinality(Loading') = Cardinality(Loading) - 1
         /\ x = oMiss => Cardinality(Loading') <= Cardinality(Loading) + 1
         /\ x \notin {oLoad, oMiss} => Cardinality(Loading') = Cardinality(Loading)
    <2>1. Cardinality(Loading) \in Nat /\ Cardinality(Loading') \in Nat
      BY <1>3 DEF Moved
    <2>2. /\ t \in Loading /\ t \notin Loading' => Cardinality(Loading') = Cardinality(Loading) - 1
          /\ t \notin Loading /\ t \in Loading' => Cardinality(Loading') = Cardinality(Loading) + 1
          /\ (t \in Loading <=> t \in Loading') => Cardinality(Loading') = Cardinality(Loading)
      BY <1>3 DEF Moved
    <2>3. x = oLoad => t \in Loading /\ t \notin Loading'
      BY <1>1, <1>4, <1>5, <1>6, Owing, KeysDiffer DEF NeedInv
    <2>4. x = oMiss => t \notin Loading
      BY <1>1, <1>4, <1>5, <1>6, Owing, KeysDiffer DEF NeedInv
    <2>5. x \notin {oLoad, oMiss} => (t \in Loading <=> t \in Loading')
      BY <1>4, Owing
    <2> QED
      BY <2>1, <2>2, <2>3, <2>4, <2>5
  <1>11. /\ x = oHit => Cardinality(Searching') >= Cardinality(Searching) - 1
         /\ x = oMiss => Cardinality(Searching') >= Cardinality(Searching) - 1
         /\ x = oGet => Cardinality(Searching') = Cardinality(Searching) + 1
         /\ x \notin {oHit, oMiss, oGet} => Cardinality(Searching') = Cardinality(Searching)
    <2>1. Cardinality(Searching) \in Nat /\ Cardinality(Searching') \in Nat
      BY <1>3 DEF Moved
    <2>2. /\ t \in Searching /\ t \notin Searching' => Cardinality(Searching') = Cardinality(Searching) - 1
          /\ t \notin Searching /\ t \in Searching' => Cardinality(Searching') = Cardinality(Searching) + 1
          /\ (t \in Searching <=> t \in Searching') => Cardinality(Searching') = Cardinality(Searching)
      BY <1>3 DEF Moved
    <2>3. x = oHit => t \in Searching
      BY <1>1, <1>4, <1>5, <1>6, Owing, KeysDiffer DEF NeedInv
    <2>4. x = oMiss => t \in Searching
      BY <1>1, <1>4, <1>5, <1>6, Owing, KeysDiffer DEF NeedInv
    <2>5. x = oGet => t \notin Searching /\ t \in Searching'
      BY <1>1, <1>4, <1>5, <1>6, Owing, KeysDiffer DEF NeedInv
    <2>6. x \notin {oHit, oMiss, oGet} => (t \in Searching <=> t \in Searching')
      BY <1>4, Owing
    <2> QED
      BY <2>1, <2>2, <2>3, <2>4, <2>5, <2>6
  <1>12. /\ x = oTime("group") => Cardinality(Getting') = Cardinality(Getting) - 1
         /\ x = oGet => Cardinality(Getting') = Cardinality(Getting) + 1
         /\ x \notin {oTime("group"), oGet} => Cardinality(Getting') = Cardinality(Getting)
    <2>1. Cardinality(Getting) \in Nat /\ Cardinality(Getting') \in Nat
      BY <1>3 DEF Moved
    <2>2. /\ t \in Getting /\ t \notin Getting' => Cardinality(Getting') = Cardinality(Getting) - 1
          /\ t \notin Getting /\ t \in Getting' => Cardinality(Getting') = Cardinality(Getting) + 1
          /\ (t \in Getting <=> t \in Getting') => Cardinality(Getting') = Cardinality(Getting)
      BY <1>3 DEF Moved
    <2>3. x = oTime("group") => t \in Getting /\ t \notin Getting'
      BY <1>1, <1>4, <1>5, <1>6, Owing, KeysDiffer DEF NeedInv
    <2>4. x = oGet => t \notin Getting /\ t \in Getting'
      BY <1>1, <1>4, <1>5, <1>6, Owing, KeysDiffer DEF NeedInv
    <2>5. x \notin {oTime("group"), oGet} => (t \in Getting <=> t \in Getting')
      BY <1>4, Owing
    <2> QED
      BY <2>1, <2>2, <2>3, <2>4, <2>5
  <1>13. /\ x = oTime("api") => Cardinality(Calling') = Cardinality(Calling) - 1
         /\ x = oCall => Cardinality(Calling') = Cardinality(Calling) + 1
         /\ x \notin {oTime("api"), oCall} => Cardinality(Calling') = Cardinality(Calling)
    <2>1. Cardinality(Calling) \in Nat /\ Cardinality(Calling') \in Nat
      BY <1>3 DEF Moved
    <2>2. /\ t \in Calling /\ t \notin Calling' => Cardinality(Calling') = Cardinality(Calling) - 1
          /\ t \notin Calling /\ t \in Calling' => Cardinality(Calling') = Cardinality(Calling) + 1
          /\ (t \in Calling <=> t \in Calling') => Cardinality(Calling') = Cardinality(Calling)
      BY <1>3 DEF Moved
    <2>3. x = oTime("api") => t \in Calling /\ t \notin Calling'
      BY <1>1, <1>4, <1>5, <1>6, Owing, KeysDiffer DEF NeedInv
    <2>4. x = oCall => t \notin Calling /\ t \in Calling'
      BY <1>1, <1>4, <1>5, <1>6, Owing, KeysDiffer DEF NeedInv
    <2>5. x \notin {oTime("api"), oCall} => (t \in Calling <=> t \in Calling')
      BY <1>4, Owing
    <2> QED
      BY <2>1, <2>2, <2>3, <2>4, <2>5
  <1> QED
    BY <1>7, <1>8, <1>9, <1>10, <1>11, <1>12, <1>13, KeysDiffer DEF x

LEMMA BalanceStep ==
  ASSUME TypeCore, TodoInv, Balance, Next
  PROVE  Balance'
  <1>0. m \in [Field -> Nat] /\ conf \in DOMAIN Scenario
    BY DEF TypeCore
  <1>1. \A f \in Counted : f \in Field /\ m[f] \in Nat
    BY <1>0, CountedFields
  <1>2. /\ m["CacheHits"] \in Nat /\ m["GroupGets"] \in Nat /\ m["CacheMisses"] \in Nat
        /\ m["APIErrors"] \in Nat /\ m["APIRequests"] \in Nat /\ m["PeerLoads"] \in Nat
        /\ m["FilterMisses"] \in Nat /\ m["LocalLoads"] \in Nat
        /\ m["GroupGetLatencyCount"] \in Nat /\ m["APILatencyCount"] \in Nat
    BY <1>1 DEF Counted
  <1>3. /\ Cardinality(Hitting) \in Nat /\ Cardinality(Missing) \in Nat
        /\ Cardinality(Erring) \in Nat /\ Cardinality(Loading) \in Nat
        /\ Cardinality(Searching) \in Nat /\ Cardinality(Getting) \in Nat
        /\ Cardinality(Calling) \in Nat /\ Cardinality(AtPeer) \in Nat
        /\ Cardinality(AtHome) \in Nat
    BY OwedNat
  <1>4. /\ Cardinality(Hitting') \in Nat /\ Cardinality(Missing') \in Nat
        /\ Cardinality(Erring') \in Nat /\ Cardinality(Loading') \in Nat
        /\ Cardinality(Searching') \in Nat /\ Cardinality(Getting') \in Nat
        /\ Cardinality(Calling') \in Nat /\ Cardinality(AtPeer') \in Nat
        /\ Cardinality(AtHome') \in Nat
    <2>1. /\ \A A \in SUBSET Request : Cardinality(A) \in Nat
          /\ \A A \in SUBSET Loader : Cardinality(A) \in Nat
      BY MetricsAssumption, FS_Subset, FS_CardinalityType
    <2>2. /\ Hitting' \in SUBSET Request /\ Missing' \in SUBSET Request
          /\ Erring' \in SUBSET Request /\ Loading' \in SUBSET Request
          /\ Searching' \in SUBSET Request /\ Getting' \in SUBSET Request
          /\ Calling' \in SUBSET Request /\ AtPeer' \in SUBSET Loader /\ AtHome' \in SUBSET Loader
      BY DEF Hitting, Missing, Erring, Loading, Searching, Getting, Calling, AtPeer, AtHome
    <2> QED
      BY <2>1, <2>2
  <1>5. ASSUME \A r \in Loader : todo'[r] = todo[r]
        PROVE  AtPeer' = AtPeer /\ AtHome' = AtHome
    BY <1>5 DEF AtPeer, AtHome, N
  <1>6. ASSUME NEW t \in Request, todo[t] # <<>>, Went(t), Head(todo[t]) \notin Key, Alone(t),
               \A f \in Counted : m'[f] = m[f]
        PROVE  Balance'
    <2>1. \A r \in Request : \A y \in Key : y \in N(r)' <=> y \in N(r)
      <3>1. \A r \in Request : r # t => N(r)' = N(r)
        BY <1>6 DEF Went, N
      <3>2. \A y \in Key : y \in N(t)' <=> y \in N(t)
        BY <1>6 DEF Went
      <3> QED
        BY <3>1, <3>2
    <2>2. \A r \in Loader : todo'[r] = todo[r]
      BY <1>6, Roles DEF Alone
    <2> QED
      BY <1>6, <2>1, <2>2, Quiet
  <1>7. ASSUME NEW t \in Request, Increment(t)
        PROVE  Balance'
    <2> DEFINE x == Head(todo[t])
    <2>1. /\ todo[t] # <<>> /\ x = <<"inc", Arg(t)>> /\ Arg(t) \in Field
          /\ x \in {oCall, oErr, oServe, oGet, oHit, oMiss}
      BY <1>7, AtRequest DEF Increment
    <2>2. Went(t) /\ Alone(t)
      BY <1>7, RequestActs
    <2>3. m'[Arg(t)] = m[Arg(t)] + 1 /\ \A g \in Field : g # Arg(t) => m'[g] = m[g]
      BY <1>0, <1>7, <2>1, AddType DEF Increment
    <2>4. \A f \in Counted : f # Arg(t) => m'[f] = m[f]
      BY <1>1, <2>3
    <2>5. AtPeer' = AtPeer /\ AtHome' = AtHome
      BY <1>5, <2>2, Roles DEF Alone
    <2>6. CASE x = oCall
      <3>1. Arg(t) = "APIRequests"
        BY <2>1, <2>6 DEF oCall
      <3>2. /\ m'["APIRequests"] = m["APIRequests"] + 1
            /\ m'["CacheHits"] = m["CacheHits"] /\ m'["GroupGets"] = m["GroupGets"]
            /\ m'["CacheMisses"] = m["CacheMisses"] /\ m'["APIErrors"] = m["APIErrors"]
            /\ m'["PeerLoads"] = m["PeerLoads"] /\ m'["FilterMisses"] = m["FilterMisses"]
            /\ m'["LocalLoads"] = m["LocalLoads"] /\ m'["GroupGetLatencyCount"] = m["GroupGetLatencyCount"]
            /\ m'["APILatencyCount"] = m["APILatencyCount"]
        BY <2>3, <2>4, <3>1 DEF Counted
      <3>3. /\ Cardinality(Erring') <= Cardinality(Erring) + 1
            /\ Cardinality(Calling') = Cardinality(Calling) + 1
            /\ Cardinality(Hitting') = Cardinality(Hitting)
            /\ Cardinality(Missing') = Cardinality(Missing)
            /\ Cardinality(Loading') = Cardinality(Loading)
            /\ Cardinality(Searching') = Cardinality(Searching)
            /\ Cardinality(Getting') = Cardinality(Getting)
        BY <2>1, <2>2, <2>6, OwedChange, KeysDiffer
      <3>4. /\ m'["CacheHits"] + Cardinality(Hitting') <= m'["GroupGets"]
            /\ m'["CacheMisses"] + Cardinality(Missing') <= m'["GroupGets"]
        BY <1>2, <1>3, <1>4, <2>5, <3>2, <3>3 DEF Balance
      <3>5. /\ m'["APIErrors"] + Cardinality(Erring') <= m'["APIRequests"]
        BY <1>2, <1>3, <1>4, <2>5, <3>2, <3>3 DEF Balance
      <3>6. /\ m'["PeerLoads"] + Cardinality(Loading') + Cardinality(AtPeer') <= m'["CacheMisses"]
        BY <1>2, <1>3, <1>4, <2>5, <3>2, <3>3 DEF Balance
      <3>7. /\ m'["FilterMisses"] + m'["LocalLoads"] + Cardinality(Loading') + Cardinality(AtHome')
               <= m'["CacheMisses"]
        BY <1>2, <1>3, <1>4, <2>5, <3>2, <3>3 DEF Balance
      <3>8. /\ m'["GroupGets"] <= m'["CacheHits"] + m'["CacheMisses"] + Cardinality(Searching')
            /\ m'["GroupGets"] <= m'["GroupGetLatencyCount"] + Cardinality(Getting')
        BY <1>2, <1>3, <1>4, <2>5, <3>2, <3>3 DEF Balance
      <3>9. /\ m'["APIRequests"] = m'["APILatencyCount"] + Cardinality(Calling')
        <4>1. m["APIRequests"] = m["APILatencyCount"] + Cardinality(Calling)
          BY DEF Balance
        <4>2. /\ m["APILatencyCount"] \in Nat /\ Cardinality(Calling) \in Nat
          BY <1>2, <1>3
        <4>3. /\ m'["APIRequests"] = m["APIRequests"] + 1
              /\ m'["APILatencyCount"] = m["APILatencyCount"]
              /\ Cardinality(Calling') = Cardinality(Calling) + 1
          BY <3>2, <3>3
        <4> QED
          BY <4>1, <4>2, <4>3
      <3> QED
        BY <3>4, <3>5, <3>6, <3>7, <3>8, <3>9 DEF Balance
    <2>7. CASE x = oErr
      <3>1. Arg(t) = "APIErrors"
        BY <2>1, <2>7 DEF oErr
      <3>2. /\ m'["APIErrors"] = m["APIErrors"] + 1
            /\ m'["CacheHits"] = m["CacheHits"] /\ m'["GroupGets"] = m["GroupGets"]
            /\ m'["CacheMisses"] = m["CacheMisses"] /\ m'["APIRequests"] = m["APIRequests"]
            /\ m'["PeerLoads"] = m["PeerLoads"] /\ m'["FilterMisses"] = m["FilterMisses"]
            /\ m'["LocalLoads"] = m["LocalLoads"] /\ m'["GroupGetLatencyCount"] = m["GroupGetLatencyCount"]
            /\ m'["APILatencyCount"] = m["APILatencyCount"]
        BY <2>3, <2>4, <3>1 DEF Counted
      <3>3. /\ Cardinality(Erring') = Cardinality(Erring) - 1
            /\ Cardinality(Hitting') = Cardinality(Hitting)
            /\ Cardinality(Missing') = Cardinality(Missing)
            /\ Cardinality(Loading') = Cardinality(Loading)
            /\ Cardinality(Searching') = Cardinality(Searching)
            /\ Cardinality(Getting') = Cardinality(Getting)
            /\ Cardinality(Calling') = Cardinality(Calling)
        BY <2>1, <2>2, <2>7, OwedChange, KeysDiffer
      <3> QED
        BY <1>2, <1>3, <1>4, <2>5, <3>2, <3>3 DEF Balance
    <2>8. CASE x = oGet
      <3>1. Arg(t) = "GroupGets"
        BY <2>1, <2>8 DEF oGet
      <3>2. /\ m'["GroupGets"] = m["GroupGets"] + 1
            /\ m'["CacheHits"] = m["CacheHits"] /\ m'["CacheMisses"] = m["CacheMisses"]
            /\ m'["APIErrors"] = m["APIErrors"] /\ m'["APIRequests"] = m["APIRequests"]
            /\ m'["PeerLoads"] = m["PeerLoads"] /\ m'["FilterMisses"] = m["FilterMisses"]
            /\ m'["LocalLoads"] = m["LocalLoads"] /\ m'["GroupGetLatencyCount"] = m["GroupGetLatencyCount"]
            /\ m'["APILatencyCount"] = m["APILatencyCount"]
        BY <2>3, <2>4, <3>1 DEF Counted
      <3>3. /\ Cardinality(Hitting') <= Cardinality(Hitting) + 1
            /\ Cardinality(Missing') <= Cardinality(Missing) + 1
            /\ Cardinality(Searching') = Cardinality(Searching) + 1
            /\ Cardinality(Getting') = Cardinality(Getting) + 1
            /\ Cardinality(Erring') = Cardinality(Erring)
            /\ Cardinality(Loading') = Cardinality(Loading)
            /\ Cardinality(Calling') = Cardinality(Calling)
        BY <2>1, <2>2, <2>8, OwedChange, KeysDiffer
      <3> QED
        BY <1>2, <1>3, <1>4, <2>5, <3>2, <3>3 DEF Balance
    <2>9. CASE x = oHit
      <3>1. Arg(t) = "CacheHits"
        BY <2>1, <2>9 DEF oHit
      <3>2. /\ m'["CacheHits"] = m["CacheHits"] + 1
            /\ m'["GroupGets"] = m["GroupGets"] /\ m'["CacheMisses"] = m["CacheMisses"]
            /\ m'["APIErrors"] = m["APIErrors"] /\ m'["APIRequests"] = m["APIRequests"]
            /\ m'["PeerLoads"] = m["PeerLoads"] /\ m'["FilterMisses"] = m["FilterMisses"]
            /\ m'["LocalLoads"] = m["LocalLoads"] /\ m'["GroupGetLatencyCount"] = m["GroupGetLatencyCount"]
            /\ m'["APILatencyCount"] = m["APILatencyCount"]
        BY <2>3, <2>4, <3>1 DEF Counted
      <3>3. /\ Cardinality(Hitting') = Cardinality(Hitting) - 1
            /\ Cardinality(Searching') >= Cardinality(Searching) - 1
            /\ Cardinality(Missing') = Cardinality(Missing)
            /\ Cardinality(Erring') = Cardinality(Erring)
            /\ Cardinality(Loading') = Cardinality(Loading)
            /\ Cardinality(Getting') = Cardinality(Getting)
            /\ Cardinality(Calling') = Cardinality(Calling)
        BY <2>1, <2>2, <2>9, OwedChange, KeysDiffer
      <3> QED
        BY <1>2, <1>3, <1>4, <2>5, <3>2, <3>3 DEF Balance
    <2>10. CASE x = oMiss
      <3>1. Arg(t) = "CacheMisses"
        BY <2>1, <2>10 DEF oMiss
      <3>2. /\ m'["CacheMisses"] = m["CacheMisses"] + 1
            /\ m'["CacheHits"] = m["CacheHits"] /\ m'["GroupGets"] = m["GroupGets"]
            /\ m'["APIErrors"] = m["APIErrors"] /\ m'["APIRequests"] = m["APIRequests"]
            /\ m'["PeerLoads"] = m["PeerLoads"] /\ m'["FilterMisses"] = m["FilterMisses"]
            /\ m'["LocalLoads"] = m["LocalLoads"] /\ m'["GroupGetLatencyCount"] = m["GroupGetLatencyCount"]
            /\ m'["APILatencyCount"] = m["APILatencyCount"]
        BY <2>3, <2>4, <3>1 DEF Counted
      <3>3. /\ Cardinality(Missing') = Cardinality(Missing) - 1
            /\ Cardinality(Searching') >= Cardinality(Searching) - 1
            /\ Cardinality(Loading') <= Cardinality(Loading) + 1
            /\ Cardinality(Hitting') = Cardinality(Hitting)
            /\ Cardinality(Erring') = Cardinality(Erring)
            /\ Cardinality(Getting') = Cardinality(Getting)
            /\ Cardinality(Calling') = Cardinality(Calling)
        BY <2>1, <2>2, <2>10, OwedChange, KeysDiffer
      <3> QED
        BY <1>2, <1>3, <1>4, <2>5, <3>2, <3>3 DEF Balance
    <2>11. CASE x = oServe
      <3>1. Arg(t) = "PeerHTTPRequests"
        BY <2>1, <2>11 DEF oServe
      <3>2. \A f \in Counted : m'[f] = m[f]
        BY <2>4, <3>1 DEF Counted
      <3>3. x \notin Key
        BY <2>11, KeysDiffer DEF Key
      <3> QED
        BY <1>6, <2>1, <2>2, <3>2, <3>3
    <2> QED
      BY <2>1, <2>6, <2>7, <2>8, <2>9, <2>10, <2>11

  <1>8. ASSUME NEW t \in Request, RecordCount(t)
        PROVE  Balance'
    <2> DEFINE f == LatencyCount[Arg(t)]
    <2>1. /\ Went(t) /\ Alone(t) /\ Arg(t) \in Series /\ Head(todo[t]) = oTime(Arg(t))
          /\ todo[t] # <<>>
      BY <1>8, RequestActs DEF RecordCount, At
    <2>2. f \in Field
      BY <2>1, FieldNames
    <2>3. m'[f] = m[f] + 1 /\ \A g \in Field : g # f => m'[g] = m[g]
      BY <1>0, <1>8, <2>2, AddType DEF RecordCount
    <2>4. \A g \in Counted : g # f => m'[g] = m[g]
      BY <1>1, <2>3
    <2>5. AtPeer' = AtPeer /\ AtHome' = AtHome
      BY <1>5, <2>1, Roles DEF Alone
    <2>6. CASE Arg(t) = "cache"
      <3>1. \A g \in Counted : m'[g] = m[g]
        BY <2>4, <2>6 DEF Counted, LatencyCount
      <3>2. Head(todo[t]) \notin Key
        <4>1. oTime("cache") # oTime("api") /\ oTime("cache") # oTime("group")
          BY DEF oTime
        <4> QED
          BY <2>1, <2>6, <4>1, KeysDiffer DEF Key
      <3> QED
        BY <1>6, <2>1, <3>1, <3>2
    <2>7. CASE Arg(t) = "api"
      <3>1. f = "APILatencyCount"
        BY <2>7 DEF LatencyCount
      <3>2. /\ m'["APILatencyCount"] = m["APILatencyCount"] + 1
            /\ m'["CacheHits"] = m["CacheHits"] /\ m'["GroupGets"] = m["GroupGets"]
            /\ m'["CacheMisses"] = m["CacheMisses"] /\ m'["APIErrors"] = m["APIErrors"]
            /\ m'["APIRequests"] = m["APIRequests"] /\ m'["PeerLoads"] = m["PeerLoads"]
            /\ m'["FilterMisses"] = m["FilterMisses"] /\ m'["LocalLoads"] = m["LocalLoads"]
            /\ m'["GroupGetLatencyCount"] = m["GroupGetLatencyCount"]
        BY <2>3, <2>4, <3>1 DEF Counted
      <3>3. /\ Cardinality(Calling') = Cardinality(Calling) - 1
            /\ Cardinality(Hitting') = Cardinality(Hitting)
            /\ Cardinality(Missing') = Cardinality(Missing)
            /\ Cardinality(Erring') = Cardinality(Erring)
            /\ Cardinality(Loading') = Cardinality(Loading)
            /\ Cardinality(Searching') = Cardinality(Searching)
            /\ Cardinality(Getting') = Cardinality(Getting)
        BY <2>1, <2>7, OwedChange, KeysDiffer
      <3> QED
        BY <1>2, <1>3, <1>4, <2>5, <3>2, <3>3 DEF Balance
    <2>8. CASE Arg(t) = "group"
      <3>1. f = "GroupGetLatencyCount"
        BY <2>8 DEF LatencyCount
      <3>2. /\ m'["GroupGetLatencyCount"] = m["GroupGetLatencyCount"] + 1
            /\ m'["CacheHits"] = m["CacheHits"] /\ m'["GroupGets"] = m["GroupGets"]
            /\ m'["CacheMisses"] = m["CacheMisses"] /\ m'["APIErrors"] = m["APIErrors"]
            /\ m'["APIRequests"] = m["APIRequests"] /\ m'["PeerLoads"] = m["PeerLoads"]
            /\ m'["FilterMisses"] = m["FilterMisses"] /\ m'["LocalLoads"] = m["LocalLoads"]
            /\ m'["APILatencyCount"] = m["APILatencyCount"]
        BY <2>3, <2>4, <3>1 DEF Counted
      <3>3. /\ Cardinality(Getting') = Cardinality(Getting) - 1
            /\ Cardinality(Hitting') = Cardinality(Hitting)
            /\ Cardinality(Missing') = Cardinality(Missing)
            /\ Cardinality(Erring') = Cardinality(Erring)
            /\ Cardinality(Loading') = Cardinality(Loading)
            /\ Cardinality(Searching') = Cardinality(Searching)
            /\ Cardinality(Calling') = Cardinality(Calling)
        BY <2>1, <2>8, OwedChange, KeysDiffer
      <3> QED
        BY <1>2, <1>3, <1>4, <2>5, <3>2, <3>3 DEF Balance
    <2> QED
      BY <2>1, <2>6, <2>7, <2>8 DEF Series
  <1>9. ASSUME NEW t \in Request, RecordTotal(t)
        PROVE  Balance'
    <2>1. /\ Went(t) /\ Alone(t) /\ Head(todo[t]) \notin Key /\ todo[t] # <<>> /\ Arg(t) \in Series
      BY <1>9, RequestActs DEF RecordTotal, At
    <2>2. \A g \in Field : g # TotalMicros[Arg(t)] => m'[g] = m[g]
      BY <1>0, <1>9 DEF RecordTotal, Add
    <2>3. \A g \in Counted : g # TotalMicros[Arg(t)]
      BY <2>1 DEF Counted, TotalMicros, Series
    <2>4. \A g \in Counted : m'[g] = m[g]
      BY <1>1, <2>2, <2>3
    <2> QED
      BY <1>6, <2>1, <2>4
  <1>10. ASSUME NEW t \in Request, CheckEnabled(t) \/ ShouldSample(t) \/ Observe(t)
         PROVE  Balance'
    <2>1. /\ Went(t) /\ Alone(t) /\ Head(todo[t]) \notin Key /\ todo[t] # <<>> /\ m' = m
      BY <1>10, RequestActs DEF CheckEnabled, ShouldSample, Observe, At
    <2> QED
      BY <1>6, <2>1
  <1>11. ASSUME NEW t \in Request, Missed(t)
         PROVE  Balance'
    <2>1. Went(t) /\ Head(todo[t]) = oLoad /\ todo[t] # <<>> /\ m' = m
      BY <1>11, MissedStep DEF Missed, At
    <2>2. PICK g \in Loader : /\ \A r \in Thread : r # t /\ r # g => todo'[r] = todo[r]
                              /\ todo'[g] = todo[g] \/ todo[g] = <<>>
      BY <1>11, MissedStep
    <2>3. Moved(AtPeer, AtPeer', g) /\ Moved(AtHome, AtHome', g)
      <3>1. \A r \in Loader : r # g => todo'[r] = todo[r]
        BY <2>2, Roles
      <3> QED
        BY <3>1, LoaderMoves
    <2>4. /\ g \in AtPeer => g \in AtPeer'
          /\ g \in AtHome => g \in AtHome'
      <3>1. CASE todo'[g] = todo[g]
        BY <3>1 DEF AtPeer, AtHome, N
      <3>2. CASE todo[g] = <<>>
        <4>1. N(g) = {}
          BY <3>2, NoPiece DEF N
        <4> QED
          BY <4>1 DEF AtPeer, AtHome
      <3> QED
        BY <2>2, <3>1, <3>2
    <2>5. /\ Cardinality(AtPeer') <= Cardinality(AtPeer) + 1
          /\ Cardinality(AtHome') <= Cardinality(AtHome) + 1
      BY <1>3, <1>4, <2>3, <2>4 DEF Moved
    <2>6. /\ Cardinality(Loading') = Cardinality(Loading) - 1
          /\ Cardinality(Hitting') = Cardinality(Hitting)
          /\ Cardinality(Missing') = Cardinality(Missing)
          /\ Cardinality(Erring') = Cardinality(Erring)
          /\ Cardinality(Searching') = Cardinality(Searching)
          /\ Cardinality(Getting') = Cardinality(Getting)
          /\ Cardinality(Calling') = Cardinality(Calling)
      BY <2>1, OwedChange, KeysDiffer
    <2>7. /\ m'["CacheHits"] + Cardinality(Hitting') <= m'["GroupGets"]
          /\ m'["CacheMisses"] + Cardinality(Missing') <= m'["GroupGets"]
      BY <1>2, <1>3, <1>4, <2>1, <2>5, <2>6 DEF Balance
    <2>8. /\ m'["APIErrors"] + Cardinality(Erring') <= m'["APIRequests"]
      BY <1>2, <1>3, <1>4, <2>1, <2>5, <2>6 DEF Balance
    <2>9. /\ m'["PeerLoads"] + Cardinality(Loading') + Cardinality(AtPeer') <= m'["CacheMisses"]
      <3>1. m["PeerLoads"] + Cardinality(Loading) + Cardinality(AtPeer) <= m["CacheMisses"]
        BY DEF Balance
      <3>2. /\ m["PeerLoads"] \in Nat /\ m["CacheMisses"] \in Nat /\ Cardinality(Loading) \in Nat
            /\ Cardinality(AtPeer) \in Nat /\ Cardinality(AtPeer') \in Nat
        BY <1>2, <1>3, <1>4
      <3>3. /\ Cardinality(AtPeer') <= Cardinality(AtPeer) + 1
            /\ Cardinality(Loading') = Cardinality(Loading) - 1
        BY <2>5, <2>6
      <3> QED
        BY <2>1, <3>1, <3>2, <3>3
    <2>10. /\ m'["FilterMisses"] + m'["LocalLoads"] + Cardinality(Loading') + Cardinality(AtHome')
               <= m'["CacheMisses"]
      <3>1. /\ m["FilterMisses"] + m["LocalLoads"] + Cardinality(Loading) + Cardinality(AtHome)
                 <= m["CacheMisses"]
        BY DEF Balance
      <3>2. /\ m["FilterMisses"] \in Nat /\ m["LocalLoads"] \in Nat /\ m["CacheMisses"] \in Nat
            /\ Cardinality(Loading) \in Nat /\ Cardinality(AtHome) \in Nat
            /\ Cardinality(AtHome') \in Nat
        BY <1>2, <1>3, <1>4
      <3>3. /\ Cardinality(AtHome') <= Cardinality(AtHome) + 1
            /\ Cardinality(Loading') = Cardinality(Loading) - 1
        BY <2>5, <2>6
      <3> QED
        BY <2>1, <3>1, <3>2, <3>3
    <2>11. /\ m'["GroupGets"] <= m'["CacheHits"] + m'["CacheMisses"] + Cardinality(Searching')
          /\ m'["GroupGets"] <= m'["GroupGetLatencyCount"] + Cardinality(Getting')
      BY <1>2, <1>3, <1>4, <2>1, <2>5, <2>6 DEF Balance
    <2>12. /\ m'["APIRequests"] = m'["APILatencyCount"] + Cardinality(Calling')
      BY <1>2, <1>3, <1>4, <2>1, <2>5, <2>6 DEF Balance
    <2> QED
      BY <2>7, <2>8, <2>9, <2>10, <2>11, <2>12 DEF Balance
  <1>12. ASSUME NEW t \in Loader, Increment(t)
         PROVE  Balance'
    <2> DEFINE x == Head(todo[t])
    <2>1. /\ todo[t] # <<>> /\ x = <<"inc", Arg(t)>> /\ x \in LoaderOps
          /\ Arg(t) \in {"PeerLoads", "FilterMisses", "LocalLoads"} /\ Arg(t) \in Field
      BY <1>12, AtLoader DEF Increment
    <2>2. /\ Alone(t) /\ x \in N(t) /\ N(t)' \subseteq N(t)
          /\ \A y \in N(t) : y \in N(t)' \/ y = x
          /\ x = oPeer => oPeer \notin N(t)'
          /\ x # oPeer => oFilter \notin N(t)' /\ oLocal \notin N(t)'
      BY <1>12, <2>1, LoaderStep DEF Increment
    <2>3. m'[Arg(t)] = m[Arg(t)] + 1 /\ \A g \in Field : g # Arg(t) => m'[g] = m[g]
      BY <1>0, <1>12, <2>1, AddType DEF Increment
    <2>4. \A f \in Counted : f # Arg(t) => m'[f] = m[f]
      BY <1>1, <2>3
    <2>5. \A r \in Request : todo'[r] = todo[r]
      BY <2>2, Roles DEF Alone
    <2>6. /\ Hitting' = Hitting /\ Missing' = Missing /\ Erring' = Erring /\ Loading' = Loading
          /\ Searching' = Searching /\ Getting' = Getting /\ Calling' = Calling
      <3>1. \A r \in Request : N(r)' = N(r)
        BY <2>5 DEF N
      <3> QED
        BY <3>1 DEF Hitting, Missing, Erring, Loading, Searching, Getting, Calling
    <2>7. Moved(AtPeer, AtPeer', t) /\ Moved(AtHome, AtHome', t)
      <3>1. \A r \in Loader : r # t => todo'[r] = todo[r]
        BY <2>2, Roles DEF Alone
      <3> QED
        BY <3>1, LoaderMoves
    <2>8. /\ t \in AtPeer <=> oPeer \in N(t)
          /\ t \in AtPeer' <=> oPeer \in N(t)'
          /\ t \in AtHome <=> oFilter \in N(t) \/ oLocal \in N(t)
          /\ t \in AtHome' <=> oFilter \in N(t)' \/ oLocal \in N(t)'
      BY DEF AtPeer, AtHome
    <2>9. /\ m'["CacheHits"] = m["CacheHits"] /\ m'["GroupGets"] = m["GroupGets"]
          /\ m'["CacheMisses"] = m["CacheMisses"] /\ m'["APIErrors"] = m["APIErrors"]
          /\ m'["APIRequests"] = m["APIRequests"]
          /\ m'["GroupGetLatencyCount"] = m["GroupGetLatencyCount"]
          /\ m'["APILatencyCount"] = m["APILatencyCount"]
      BY <2>1, <2>4 DEF Counted
    <2>10. oPeer # oFilter /\ oPeer # oLocal
      BY DEF oPeer, oFilter, oLocal
    <2>11. CASE x = oPeer
      <3>1. Arg(t) = "PeerLoads"
        BY <2>1, <2>11 DEF oPeer
      <3>2. /\ m'["PeerLoads"] = m["PeerLoads"] + 1
            /\ m'["FilterMisses"] = m["FilterMisses"] /\ m'["LocalLoads"] = m["LocalLoads"]
        BY <2>3, <2>4, <3>1 DEF Counted
      <3>3. /\ t \in AtPeer /\ t \notin AtPeer'
            /\ t \in AtHome <=> t \in AtHome'
        BY <2>2, <2>8, <2>10, <2>11
      <3>4. /\ Cardinality(AtPeer') = Cardinality(AtPeer) - 1
            /\ Cardinality(AtHome') = Cardinality(AtHome)
        BY <2>7, <3>3 DEF Moved
      <3> QED
        BY <1>2, <1>3, <2>6, <2>9, <3>2, <3>4 DEF Balance
    <2>12. CASE x # oPeer
      <3>1. Arg(t) \in {"FilterMisses", "LocalLoads"} /\ x \in {oFilter, oLocal}
        BY <2>1, <2>12 DEF oPeer, oFilter, oLocal
      <3>2. /\ m'["PeerLoads"] = m["PeerLoads"]
            /\ m'["FilterMisses"] + m'["LocalLoads"] = m["FilterMisses"] + m["LocalLoads"] + 1
            /\ m'["FilterMisses"] \in Nat /\ m'["LocalLoads"] \in Nat
        BY <1>2, <2>3, <2>4, <3>1 DEF Counted
      <3>3. /\ t \in AtHome /\ t \notin AtHome'
            /\ t \in AtPeer <=> t \in AtPeer'
        BY <2>2, <2>8, <2>10, <2>12, <3>1
      <3>4. /\ Cardinality(AtHome') = Cardinality(AtHome) - 1
            /\ Cardinality(AtPeer') = Cardinality(AtPeer)
        BY <2>7, <3>3 DEF Moved
      <3> QED
        BY <1>2, <1>3, <2>6, <2>9, <3>2, <3>4 DEF Balance
    <2> QED
      BY <2>11, <2>12
  <1>13. ASSUME \A r \in Request \cup Loader : todo'[r] = todo[r], \A f \in Counted : m'[f] = m[f]
         PROVE  Balance'
    <2>1. \A r \in Request : \A y \in Key : y \in N(r)' <=> y \in N(r)
      BY <1>13 DEF N
    <2> QED
      BY <1>13, <2>1, Quiet
  <1>14. ASSUME NEW t \in Thread, Start(t)
         PROVE  Balance'
    <2>1. Alone(t) /\ t \notin Loader /\ m' = m /\ todo[t] = <<>>
      BY <1>0, <1>14, Started DEF Start
    <2>2. CASE t \notin Request
      BY <1>13, <2>1, <2>2, Roles DEF Alone
    <2>3. CASE t \in Request
      <3>1. Fresh(todo'[t])
        BY <1>0, <1>14, <2>3, Started
      <3>2. N(t) = {} /\ N(t)' = ToSet(todo'[t])
        BY <2>1, NoPiece DEF N
      <3>3. \A r \in Request : r # t => todo'[r] = todo[r]
        BY <2>1, Roles DEF Alone
      <3>4. /\ Moved(Hitting, Hitting', t) /\ Moved(Missing, Missing', t)
            /\ Moved(Erring, Erring', t) /\ Moved(Loading, Loading', t)
            /\ Moved(Searching, Searching', t) /\ Moved(Getting, Getting', t)
            /\ Moved(Calling, Calling', t)
        BY <2>3, <3>3, RequestMoves
      <3>5. /\ t \notin Hitting /\ t \notin Hitting' /\ t \notin Missing /\ t \notin Missing'
            /\ t \notin Erring /\ t \notin Erring' /\ t \notin Loading /\ t \notin Loading'
            /\ t \notin Searching /\ t \notin Searching' /\ t \notin Getting
            /\ t \notin Calling /\ t \notin Calling'
        BY <2>3, <3>1, <3>2, Owing DEF Fresh
      <3>6. /\ Cardinality(Hitting') = Cardinality(Hitting)
            /\ Cardinality(Missing') = Cardinality(Missing)
            /\ Cardinality(Erring') = Cardinality(Erring)
            /\ Cardinality(Loading') = Cardinality(Loading)
            /\ Cardinality(Searching') = Cardinality(Searching)
            /\ Cardinality(Calling') = Cardinality(Calling)
        BY <3>4, <3>5 DEF Moved
      <3>7. Cardinality(Getting') >= Cardinality(Getting)
        BY <1>3, <1>4, <3>4, <3>5 DEF Moved
      <3>8. AtPeer' = AtPeer /\ AtHome' = AtHome
        BY <1>5, <2>1, <2>3, Roles DEF Alone
      <3>9. /\ m'["CacheHits"] + Cardinality(Hitting') <= m'["GroupGets"]
            /\ m'["CacheMisses"] + Cardinality(Missing') <= m'["GroupGets"]
        BY <1>2, <1>3, <1>4, <2>1, <3>6, <3>7, <3>8 DEF Balance
      <3>10. /\ m'["APIErrors"] + Cardinality(Erring') <= m'["APIRequests"]
        BY <1>2, <1>3, <1>4, <2>1, <3>6, <3>7, <3>8 DEF Balance
      <3>11. /\ m'["PeerLoads"] + Cardinality(Loading') + Cardinality(AtPeer') <= m'["CacheMisses"]
        BY <1>2, <1>3, <1>4, <2>1, <3>6, <3>7, <3>8 DEF Balance
      <3>12. /\ m'["FilterMisses"] + m'["LocalLoads"] + Cardinality(Loading') + Cardinality(AtHome')
               <= m'["CacheMisses"]
        BY <1>2, <1>3, <1>4, <2>1, <3>6, <3>7, <3>8 DEF Balance
      <3>13. /\ m'["GroupGets"] <= m'["CacheHits"] + m'["CacheMisses"] + Cardinality(Searching')
            /\ m'["GroupGets"] <= m'["GroupGetLatencyCount"] + Cardinality(Getting')
        <4>1. /\ m["GroupGets"] <= m["CacheHits"] + m["CacheMisses"] + Cardinality(Searching)
              /\ m["GroupGets"] <= m["GroupGetLatencyCount"] + Cardinality(Getting)
          BY DEF Balance
        <4>2. /\ m["GroupGets"] \in Nat /\ m["CacheHits"] \in Nat /\ m["CacheMisses"] \in Nat
              /\ m["GroupGetLatencyCount"] \in Nat /\ Cardinality(Searching) \in Nat
              /\ Cardinality(Getting) \in Nat /\ Cardinality(Getting') \in Nat
          BY <1>2, <1>3, <1>4
        <4> QED
          BY <2>1, <3>6, <3>7, <4>1, <4>2
      <3>14. /\ m'["APIRequests"] = m'["APILatencyCount"] + Cardinality(Calling')
        BY <1>2, <1>3, <1>4, <2>1, <3>6, <3>7, <3>8 DEF Balance
      <3> QED
        BY <3>9, <3>10, <3>11, <3>12, <3>13, <3>14 DEF Balance
    <2> QED
      BY <2>2, <2>3
  <1>15. ASSUME NEW t \in Admin, SetEnabled(t)
         PROVE  Balance'
    <2>1. Alone(t) /\ m' = m
      BY <1>15, AdminStep DEF SetEnabled, At
    <2> QED
      BY <1>13, <2>1, Roles DEF Alone
  <1>16. ASSUME NEW t \in Reader \cup {Logger}, todo[t] # <<>>, Skip(t, 1),
                \A f \in Counted : m'[f] = m[f]
         PROVE  Balance'
    <2>1. Alone(t)
      BY <1>16, ReadStep
    <2> QED
      BY <1>13, <1>16, <2>1, Roles DEF Alone
  <1>17. ASSUME Drain
         PROVE  Balance'
    BY <1>16, <1>17 DEF Drain, At
  <1>18. ASSUME Publish
         PROVE  Balance'
    <2> DEFINE s == Arg(Logger)
    <2>1. PICK op \in {"store95", "store99"} : At(Logger, op)
      BY <1>18 DEF Publish
    <2>2. s \in Series
      BY <2>1, AtReader
    <2>3. \A f \in Counted : f # LastP95[s] /\ f # LastP99[s]
      BY <2>2 DEF Counted, LastP95, LastP99, Series
    <2>4. m' = Stored(LastP95[s], s, 1) \/ m' = Stored(LastP99[s], s, 2)
      BY <1>18 DEF Publish
    <2> HIDE DEF s
    <2>5. \A f \in Counted : m'[f] = m[f]
      BY <1>0, <1>1, <2>3, <2>4 DEF Stored
    <2> QED
      BY <1>16, <1>18, <2>5 DEF Publish, At
  <1>19. ASSUME NEW t \in Reader \cup {Logger}, Read(t)
         PROVE  Balance'
    BY <1>16, <1>19 DEF Read, At
  <1> QED
    BY <1>7, <1>8, <1>9, <1>10, <1>11, <1>12, <1>14, <1>15, <1>17, <1>18, <1>19 DEF Next

-----------------------------------------------------------------------------
\* The totals and the samples.

LEMMA HeadsStay ==
  ASSUME NEW t \in Request, \A r \in Request : r # t => todo'[r] = todo[r]
  PROVE  /\ /\ todo[t] = <<>> \/ Head(todo[t])[1] # "total"
            /\ todo'[t] = <<>> \/ Head(todo'[t])[1] # "total"
            => \A s : Adding(s)' = Adding(s)
         /\ /\ todo[t] = <<>> \/ Head(todo[t])[1] # "observe"
            /\ todo'[t] = <<>> \/ Head(todo'[t])[1] # "observe"
            => \A s : Observing(s)' = Observing(s)
  BY DEF Adding, Observing, At, Arg

\* The heads of the other threads do not count.
LEMMA OthersStay ==
  ASSUME \A r \in Request : todo'[r] = todo[r]
  PROVE  \A s : Adding(s)' = Adding(s) /\ Observing(s)' = Observing(s)
  BY DEF Adding, Observing, At, Arg

\* What the steps do to the threads that stand before a total or an observe.
LEMMA HeadStep ==
  ASSUME TypeCore, TodoInv, Next
  PROVE  /\ \/ \A s : Adding(s)' = Adding(s)
            \/ \E t \in Request : RecordCount(t) \/ RecordTotal(t)
         /\ \/ \A s : Observing(s)' = Observing(s)
            \/ \E t \in Request : ShouldSample(t) \/ Observe(t)
  <1> DEFINE Goal == /\ \/ \A s : Adding(s)' = Adding(s)
                        \/ \E t \in Request : RecordCount(t) \/ RecordTotal(t)
                     /\ \/ \A s : Observing(s)' = Observing(s)
                        \/ \E t \in Request : ShouldSample(t) \/ Observe(t)
  <1>0. "total" \in Inner /\ "observe" \in Inner /\ conf \in DOMAIN Scenario
    BY DEF Inner, TypeCore
  <1>1. ASSUME NEW t \in Request, Went(t), Leaves(t),
               todo[t] = <<>> \/ Head(todo[t])[1] \notin {"total", "observe"}
        PROVE  \A s : Adding(s)' = Adding(s) /\ Observing(s)' = Observing(s)
    BY <1>0, <1>1, HeadsStay DEF Went, Leaves
  <1>2. ASSUME NEW t \in Thread, Start(t)
        PROVE  Goal
    <2>1. Alone(t) /\ todo[t] = <<>> /\ (t \in Request => Fresh(todo'[t]))
      BY <1>0, <1>2, Started DEF Start
    <2>2. CASE t \in Request
      <3>1. todo'[t] = <<>> \/ Head(todo'[t])[1] \notin Inner
        <4>1. Opens(todo'[t]) /\ todo'[t] \in Seq(RequestOps)
          BY <2>1, <2>2 DEF Fresh, RequestRest
        <4>2. todo'[t] # <<>> => Head(todo'[t]) = todo'[t][1]
          BY <4>1
        <4> QED
          BY <4>1, <4>2 DEF Opens
      <3>2. \A r \in Request : r # t => todo'[r] = todo[r]
        BY <2>1, Roles DEF Alone
      <3> QED
        BY <1>0, <2>1, <2>2, <3>1, <3>2, HeadsStay
    <2>3. CASE t \notin Request
      <3>1. \A r \in Request : todo'[r] = todo[r]
        BY <2>1, <2>3, Roles DEF Alone
      <3> QED
        BY <3>1, OthersStay
    <2> QED
      BY <2>2, <2>3
  <1>3. ASSUME NEW t \in Request, Missed(t)
        PROVE  Goal
    BY <1>1, <1>3, MissedStep DEF Missed, At
  <1>4. ASSUME NEW t \in Request, Increment(t)
        PROVE  Goal
    BY <1>1, <1>4, RequestActs DEF Increment, At
  <1>5. ASSUME NEW t \in Request, RecordCount(t) \/ RecordTotal(t)
        PROVE  Goal
    <2>1. /\ \A r \in Request : r # t => todo'[r] = todo[r]
          /\ todo[t] = <<>> \/ Head(todo[t])[1] # "observe"
          /\ Head(todo'[t])[1] # "observe"
      BY <1>5, RequestActs DEF Went, Goes, RecordCount, RecordTotal, At
    <2>2. \A s : Observing(s)' = Observing(s)
      BY <2>1, HeadsStay
    <2> QED
      BY <1>5, <2>2
  <1>6. ASSUME NEW t \in Request, CheckEnabled(t)
        PROVE  Goal
    <2>1. /\ \A r \in Request : r # t => todo'[r] = todo[r]
          /\ todo[t] = <<>> \/ (Head(todo[t])[1] # "observe" /\ Head(todo[t])[1] # "total")
          /\ Leaves(t) \/ Goes(t, "sample")
      BY <1>6, RequestActs DEF Went, CheckEnabled, At
    <2>2. todo'[t] = <<>> \/ (Head(todo'[t])[1] # "observe" /\ Head(todo'[t])[1] # "total")
      BY <1>0, <2>1 DEF Leaves, Goes
    <2> QED
      BY <2>1, <2>2, HeadsStay
  <1>7. ASSUME NEW t \in Request, ShouldSample(t) \/ Observe(t)
        PROVE  Goal
    <2>1. /\ \A r \in Request : r # t => todo'[r] = todo[r]
          /\ Leaves(t) \/ Goes(t, "observe")
      BY <1>7, RequestActs DEF Went
    <2>2. Head(todo[t])[1] # "total"
      BY <1>7 DEF ShouldSample, Observe, At
    <2>3. todo'[t] = <<>> \/ Head(todo'[t])[1] # "total"
      BY <1>0, <2>1 DEF Leaves, Goes
    <2>4. \A s : Adding(s)' = Adding(s)
      BY <2>1, <2>2, <2>3, HeadsStay
    <2> QED
      BY <1>7, <2>4
  <1>8. ASSUME NEW t \in Loader, Increment(t)
        PROVE  Goal
    <2>1. \A r \in Request : todo'[r] = todo[r]
      BY <1>8, LoaderStep, Roles DEF Increment, At, Alone
    <2> QED
      BY <2>1, OthersStay
  <1>9. ASSUME NEW t \in Admin, SetEnabled(t)
        PROVE  Goal
    <2>1. \A r \in Request : todo'[r] = todo[r]
      BY <1>9, AdminStep, Roles DEF SetEnabled, At, Alone
    <2> QED
      BY <2>1, OthersStay
  <1>10. ASSUME NEW t \in Reader \cup {Logger}, todo[t] # <<>>, Skip(t, 1)
         PROVE  Goal
    <2>1. \A r \in Request : todo'[r] = todo[r]
      BY <1>10, ReadStep, Roles DEF Alone
    <2> QED
      BY <2>1, OthersStay
  <1>11. ASSUME Drain \/ Publish
         PROVE  Goal
    BY <1>10, <1>11 DEF Drain, Publish, At
  <1>12. ASSUME NEW t \in Reader \cup {Logger}, Read(t)
         PROVE  Goal
    BY <1>10, <1>12 DEF Read, At
  <1> HIDE DEF Goal
  <1>13. Goal
    BY <1>2, <1>3, <1>4, <1>5, <1>6, <1>7, <1>8, <1>9, <1>11, <1>12 DEF Next
  <1> QED
    BY <1>13 DEF Goal

LEMMA ConfStays ==
  ASSUME Next
  PROVE  conf' = conf /\ every' = every /\ Longest' = Longest
  <1>1. conf' = conf /\ every' = every
    BY DEF Next, Start, Missed, Increment, RecordCount, RecordTotal, CheckEnabled, ShouldSample,
           Observe, SetEnabled, Drain, Publish, Read
  <1> QED
    BY <1>1 DEF Longest

\* The fields of a series are its own.
LEMMA SeriesFields ==
  \A s, r \in Series :
    /\ LatencyCount[s] # TotalMicros[r]
    /\ s # r => LatencyCount[s] # LatencyCount[r] /\ TotalMicros[s] # TotalMicros[r]
    /\ LastP95[s] # LatencyCount[r] /\ LastP95[s] # TotalMicros[r]
    /\ LastP99[s] # LatencyCount[r] /\ LastP99[s] # TotalMicros[r]
    /\ LastP95[s] # LastP99[r]
    /\ s # r => LastP95[s] # LastP95[r] /\ LastP99[s] # LastP99[r]
    /\ \A f \in {"APIRequests", "APIErrors", "GroupGets", "CacheHits", "CacheMisses",
                 "FilterMisses", "PeerLoads", "LocalLoads", "PeerHTTPRequests"} :
         /\ f # LatencyCount[s] /\ f # TotalMicros[s] /\ f # LastP95[s] /\ f # LastP99[s]
  BY DEF Series, LatencyCount, TotalMicros, LastP95, LastP99

\* The fields that a step leaves alone, as far as the totals are concerned.
LEMMA FieldsStay ==
  ASSUME TypeCore, TodoInv, Next
  PROVE  \/ \A s \in Series : m'[TotalMicros[s]] = m[TotalMicros[s]]
                              /\ m'[LatencyCount[s]] = m[LatencyCount[s]]
         \/ \E t \in Request : RecordCount(t) \/ RecordTotal(t)
  <1> DEFINE Goal == \A s \in Series : m'[TotalMicros[s]] = m[TotalMicros[s]]
                                       /\ m'[LatencyCount[s]] = m[LatencyCount[s]]
  <1>0. m \in [Field -> Nat]
    BY DEF TypeCore
  <1>1. ASSUME NEW t \in Request \cup Loader, Increment(t)
        PROVE  Goal
    <2>1. Arg(t) \in {"APIRequests", "APIErrors", "GroupGets", "CacheHits", "CacheMisses",
                      "FilterMisses", "PeerLoads", "LocalLoads", "PeerHTTPRequests"}
      <3>1. CASE t \in Request
        <4>1. /\ Head(todo[t]) = <<"inc", Arg(t)>>
              /\ Head(todo[t]) \in {oCall, oErr, oServe, oGet, oHit, oMiss}
          BY <1>1, <3>1, AtRequest DEF Increment
        <4> QED
          BY <4>1 DEF oCall, oErr, oServe, oGet, oHit, oMiss
      <3>2. CASE t \in Loader
        BY <1>1, <3>2, AtLoader DEF Increment
      <3> QED
        BY <3>1, <3>2
    <2>2. Arg(t) \in Field
      BY <2>1, FieldNames
    <2>3. \A g \in Field : g # Arg(t) => m'[g] = m[g]
      BY <1>0, <1>1, <2>2 DEF Increment, Add
    <2> QED
      BY <2>1, <2>3, FieldNames, SeriesFields
  <1>2. ASSUME Publish
        PROVE  Goal
    <2> DEFINE s == Arg(Logger)
    <2>1. PICK op \in {"store95", "store99"} : At(Logger, op)
      BY <1>2 DEF Publish
    <2>2. s \in Series
      BY <2>1, AtReader
    <2>3. m' = Stored(LastP95[s], s, 1) \/ m' = Stored(LastP99[s], s, 2)
      BY <1>2 DEF Publish
    <2> HIDE DEF s
    <2>4. \A g \in Field : g # LastP95[s] /\ g # LastP99[s] => m'[g] = m[g]
      BY <1>0, <2>3 DEF Stored
    <2> QED
      BY <2>2, <2>4, FieldNames, SeriesFields
  <1>3. \/ m' = m \/ Publish
        \/ \E t \in Request \cup Loader : Increment(t)
        \/ \E t \in Request : RecordCount(t) \/ RecordTotal(t)
    BY DEF Next, Start, Missed, CheckEnabled, ShouldSample, Observe, SetEnabled, Drain, Read
  <1> QED
    BY <1>1, <1>2, <1>3

LEMMA Distribute ==
  ASSUME NEW a \in Nat, NEW b \in Int
  PROVE  /\ a * (b + 1) = a * b + a /\ a * (b - 1) = a * b - a
         /\ a * b \in Int
  OBVIOUS

LEMMA SumStep ==
  ASSUME TypeCore, TodoInv, TimeInv, SumInv, Next
  PROVE  SumInv'
  <1>0. conf' = conf /\ Longest' = Longest /\ m \in [Field -> Nat] /\ conf \in DOMAIN Scenario
    BY ConfStays DEF TypeCore
  <1>1. Longest \in Nat /\ \A e \in Scenario[conf].Latency : e <= Longest /\ e \in Nat
    BY <1>0, Configured
  <1>2. \A s \in Series : /\ m[TotalMicros[s]] \in Nat /\ m[LatencyCount[s]] \in Nat
                          /\ TotalMicros[s] \in Field /\ LatencyCount[s] \in Field
                          /\ Cardinality(Adding(s)) \in Nat
    BY <1>0, FieldNames, OwedNat
  <1>3. CASE \E t \in Request : RecordCount(t)
    <2>1. PICK t \in Request : RecordCount(t)
      BY <1>3
    <2>2. Went(t) /\ Goes(t, "total") /\ Arg(t) \in Series /\ At(t, "count")
      BY <2>1, RequestActs DEF RecordCount
    <2>3. /\ m'[LatencyCount[Arg(t)]] = m[LatencyCount[Arg(t)]] + 1
          /\ \A g \in Field : g # LatencyCount[Arg(t)] => m'[g] = m[g]
      BY <1>0, <1>2, <2>1, <2>2, AddType DEF RecordCount
    <2>4. \A s : Moved(Adding(s), Adding(s)', t)
      BY <2>2, RequestMoves DEF Went
    <2>5. ASSUME NEW s \in Series
          PROVE  m'[TotalMicros[s]] + Longest * Cardinality(Adding(s)')
                   <= Longest * m'[LatencyCount[s]]
      <3>1. t \notin Adding(s)
        BY <2>2 DEF Adding, At
      <3>2. t \in Adding(s)' <=> s = Arg(t)
        <4>1. t \in Adding(s)' <=> Arg(t)' = s
          BY <2>2 DEF Adding, At, Goes, Arg
        <4>2. Arg(t)' = Arg(t)
          BY <2>2 DEF Goes, Arg
        <4> QED
          BY <4>1, <4>2
      <3>3. m[TotalMicros[s]] + Longest * Cardinality(Adding(s)) <= Longest * m[LatencyCount[s]]
        BY DEF SumInv
      <3>4. m'[TotalMicros[s]] = m[TotalMicros[s]]
        BY <1>2, <2>2, <2>3, SeriesFields
      <3>5. CASE s = Arg(t)
        <4>1. /\ Cardinality(Adding(s)') = Cardinality(Adding(s)) + 1
              /\ m'[LatencyCount[s]] = m[LatencyCount[s]] + 1
          BY <2>3, <2>4, <3>1, <3>2, <3>5 DEF Moved
        <4>2. /\ Longest * (Cardinality(Adding(s)) + 1) = Longest * Cardinality(Adding(s)) + Longest
              /\ Longest * (m[LatencyCount[s]] + 1) = Longest * m[LatencyCount[s]] + Longest
              /\ Longest * Cardinality(Adding(s)) \in Int /\ Longest * m[LatencyCount[s]] \in Int
          BY <1>1, <1>2, Distribute
        <4> QED
          BY <1>1, <1>2, <3>3, <3>4, <4>1, <4>2
      <3>6. CASE s # Arg(t)
        <4>1. /\ Cardinality(Adding(s)') = Cardinality(Adding(s))
              /\ m'[LatencyCount[s]] = m[LatencyCount[s]]
          BY <1>2, <2>2, <2>3, <2>4, <3>1, <3>2, <3>6, SeriesFields DEF Moved
        <4> QED
          BY <3>3, <3>4, <4>1
      <3> QED
        BY <3>5, <3>6
    <2> QED
      BY <1>0, <2>5 DEF SumInv
  <1>4. CASE \E t \in Request : RecordTotal(t)
    <2>1. PICK t \in Request : RecordTotal(t)
      BY <1>4
    <2>2. Went(t) /\ Goes(t, "enabled") /\ Arg(t) \in Series /\ At(t, "total")
      BY <2>1, RequestActs DEF RecordTotal
    <2>3. us[t] \in Nat /\ us[t] <= Longest
      BY <1>1, <2>2 DEF TimeInv, At, Inner
    <2>4. /\ m'[TotalMicros[Arg(t)]] = m[TotalMicros[Arg(t)]] + us[t]
          /\ \A g \in Field : g # TotalMicros[Arg(t)] => m'[g] = m[g]
      BY <1>0, <1>2, <2>1, <2>2, <2>3, AddType DEF RecordTotal
    <2>5. \A s : Moved(Adding(s), Adding(s)', t)
      BY <2>2, RequestMoves DEF Went
    <2>6. ASSUME NEW s \in Series
          PROVE  m'[TotalMicros[s]] + Longest * Cardinality(Adding(s)')
                   <= Longest * m'[LatencyCount[s]]
      <3>1. t \in Adding(s) <=> s = Arg(t)
        BY <2>2 DEF Adding
      <3>2. t \notin Adding(s)'
        BY <2>2 DEF Adding, At, Goes
      <3>3. m[TotalMicros[s]] + Longest * Cardinality(Adding(s)) <= Longest * m[LatencyCount[s]]
        BY DEF SumInv
      <3>4. m'[LatencyCount[s]] = m[LatencyCount[s]]
        BY <1>2, <2>2, <2>4, SeriesFields
      <3>5. CASE s = Arg(t)
        <4>1. /\ Cardinality(Adding(s)') = Cardinality(Adding(s)) - 1
              /\ m'[TotalMicros[s]] = m[TotalMicros[s]] + us[t]
          BY <2>4, <2>5, <3>1, <3>2, <3>5 DEF Moved
        <4>2. /\ Longest * (Cardinality(Adding(s)) - 1) = Longest * Cardinality(Adding(s)) - Longest
              /\ Longest * Cardinality(Adding(s)) \in Int /\ Longest * m[LatencyCount[s]] \in Int
          BY <1>1, <1>2, Distribute
        <4> QED
          BY <1>1, <1>2, <2>3, <3>3, <3>4, <4>1, <4>2
      <3>6. CASE s # Arg(t)
        <4>1. /\ Cardinality(Adding(s)') = Cardinality(Adding(s))
              /\ m'[TotalMicros[s]] = m[TotalMicros[s]]
          BY <1>2, <2>2, <2>4, <2>5, <3>1, <3>2, <3>6, SeriesFields DEF Moved
        <4> QED
          BY <3>3, <3>4, <4>1
      <3> QED
        BY <3>5, <3>6
    <2> QED
      BY <1>0, <2>6 DEF SumInv
  <1>5. CASE ~\E t \in Request : RecordCount(t) \/ RecordTotal(t)
    <2>1. \A s : Adding(s)' = Adding(s)
      BY <1>5, HeadStep
    <2>2. \A s \in Series : m'[TotalMicros[s]] = m[TotalMicros[s]]
                            /\ m'[LatencyCount[s]] = m[LatencyCount[s]]
      BY <1>5, FieldsStay
    <2> QED
      BY <1>0, <2>1, <2>2 DEF SumInv
  <1> QED
    BY <1>3, <1>4, <1>5

LEMMA EveryPlus ==
  ASSUME NEW n \in Nat, NEW d \in Nat \ {0}
  PROVE  (n + 1) \div d = (n \div d) + (IF (n + 1) % d = 0 THEN 1 ELSE 0)
  OBVIOUS

LEMMA DivNat ==
  ASSUME NEW n \in Nat, NEW d \in Nat \ {0}
  PROVE  n \div d \in Nat
  OBVIOUS

LEMMA SampleStep ==
  ASSUME TypeCore, TodoInv, SampleInv, Next
  PROVE  SampleInv'
  <1>0. conf' = conf /\ every' = every /\ every \in Nat \ {0}
    BY ConfStays DEF TypeCore
  <1>1. \A s \in Series : /\ samples[s] \in Nat /\ offered[s] \in Nat /\ taken[s] \in Nat
                          /\ Cardinality(Observing(s)) \in Nat /\ (offered[s] \div every) \in Nat
    <2>1. \A s \in Series : samples[s] \in Nat /\ offered[s] \in Nat /\ taken[s] \in Nat
      BY DEF TypeCore
    <2>2. \A s : Cardinality(Observing(s)) \in Nat
      BY OwedNat
    <2>3. \A s \in Series : (offered[s] \div every) \in Nat
      BY <1>0, <2>1, DivNat
    <2> QED
      BY <2>1, <2>2, <2>3
  <1>2. \A s \in Series : /\ samples[s] = IF every <= 1 THEN 0 ELSE offered[s]
                          /\ taken[s] + Cardinality(Observing(s)) = offered[s] \div every
    BY DEF SampleInv
  <1>3. CASE \E t \in Request : ShouldSample(t)
    <2>1. PICK t \in Request : ShouldSample(t)
      BY <1>3
    <2>0. PICK a : a = Arg(t)
      OBVIOUS
    <2> DEFINE yes == every <= 1 \/ (samples[a] + 1) % every = 0
    <2>2. /\ Went(t) /\ a \in Series /\ At(t, "sample") /\ taken' = taken
          /\ IF yes THEN Goes(t, "observe") ELSE Leaves(t)
      BY <2>0, <2>1, RequestActs DEF ShouldSample
    <2>3. /\ samples' = [samples EXCEPT ![a] = IF every <= 1 THEN samples[a] ELSE samples[a] + 1]
          /\ offered' = [offered EXCEPT ![a] = @ + 1]
      BY <2>0, <2>1 DEF ShouldSample
    <2>4. \A s : Moved(Observing(s), Observing(s)', t)
      BY <2>2, RequestMoves DEF Went
    <2>5. \A s : t \notin Observing(s)
      BY <2>2 DEF Observing, At
    <2>6. \A s : t \in Observing(s)' <=> yes /\ s = a
      <3>1. CASE yes
        <4>1. \A s : t \in Observing(s)' <=> Arg(t)' = s
          BY <2>2, <3>1 DEF Observing, At, Goes, Arg
        <4>2. Arg(t)' = a
          BY <2>0, <2>2, <3>1 DEF Goes, Arg
        <4> HIDE DEF yes
        <4> QED
          BY <3>1, <4>1, <4>2
      <3>2. CASE ~yes
        <4>1. Leaves(t) /\ "observe" \in Inner
          BY <2>2, <3>2 DEF Inner
        <4>2. \A s : t \notin Observing(s)'
          BY <4>1 DEF Observing, At, Leaves
        <4> HIDE DEF yes
        <4> QED
          BY <3>2, <4>2
      <3> QED
        BY <3>1, <3>2
    <2>7. ASSUME NEW s \in Series, s # a
          PROVE  /\ samples'[s] = samples[s] /\ offered'[s] = offered[s]
                 /\ Cardinality(Observing(s)') = Cardinality(Observing(s))
      <3>1. samples'[s] = samples[s] /\ offered'[s] = offered[s]
        BY <2>3, <2>7 DEF TypeCore
      <3>2. Cardinality(Observing(s)') = Cardinality(Observing(s))
        BY <2>4, <2>5, <2>6, <2>7 DEF Moved
      <3> QED
        BY <3>1, <3>2
    <2>8. /\ samples'[a] = IF every <= 1 THEN samples[a] ELSE samples[a] + 1
          /\ offered'[a] = offered[a] + 1
      BY <2>2, <2>3 DEF TypeCore
    <2>9. /\ yes => Cardinality(Observing(a)') = Cardinality(Observing(a)) + 1
          /\ ~yes => Cardinality(Observing(a)') = Cardinality(Observing(a))
      <3>1. t \in Observing(a)' <=> yes
        BY <2>6
      <3>2. t \notin Observing(a) /\ Moved(Observing(a), Observing(a)', t)
        BY <2>4, <2>5
      <3> HIDE DEF yes
      <3> QED
        BY <3>1, <3>2 DEF Moved
    <2>10. (offered[a] + 1) \div every = (offered[a] \div every) + (IF yes THEN 1 ELSE 0)
      <3>1. CASE every <= 1
        <4>1. every = 1
          BY <1>0, <3>1
        <4>2. (offered[a] + 1) \div 1 = (offered[a] \div 1) + 1
          BY <1>1, <2>2
        <4> QED
          BY <3>1, <4>1, <4>2
      <3>2. CASE ~(every <= 1)
        <4>1. samples[a] = offered[a]
          BY <1>2, <2>2, <3>2
        <4> QED
          BY <1>0, <1>1, <2>2, <3>2, <4>1, EveryPlus
      <3> QED
        BY <3>1, <3>2
    <2>11. /\ samples'[a] = IF every <= 1 THEN 0 ELSE offered'[a]
           /\ taken'[a] + Cardinality(Observing(a)') = offered'[a] \div every
      <3>1. samples'[a] = IF every <= 1 THEN 0 ELSE offered'[a]
        BY <1>2, <2>2, <2>8
      <3>2. taken[a] + Cardinality(Observing(a)) = offered[a] \div every
        BY <1>2, <2>2
      <3>3. /\ taken[a] \in Nat /\ Cardinality(Observing(a)) \in Nat
            /\ (offered[a] \div every) \in Nat
        BY <1>1, <2>2
      <3> HIDE DEF yes
      <3>4. CASE yes
        <4>1. (offered[a] + 1) \div every = (offered[a] \div every) + 1
          BY <2>10, <3>4
        <4> QED
          BY <2>2, <2>8, <2>9, <3>1, <3>2, <3>3, <3>4, <4>1
      <3>5. CASE ~yes
        <4>1. (offered[a] + 1) \div every = (offered[a] \div every) + 0
          BY <2>10, <3>5
        <4> QED
          BY <2>2, <2>8, <2>9, <3>1, <3>2, <3>3, <3>5, <4>1
      <3> QED
        BY <3>4, <3>5
    <2>12. \A s \in Series : /\ samples'[s] = IF every <= 1 THEN 0 ELSE offered'[s]
                             /\ taken'[s] + Cardinality(Observing(s)') = offered'[s] \div every
      <3>1. ASSUME NEW s \in Series, s # a
            PROVE  /\ samples'[s] = IF every <= 1 THEN 0 ELSE offered'[s]
                   /\ taken'[s] + Cardinality(Observing(s)') = offered'[s] \div every
        BY <1>2, <2>2, <2>7, <3>1
      <3>2. ASSUME NEW s \in Series, s = a
            PROVE  /\ samples'[s] = IF every <= 1 THEN 0 ELSE offered'[s]
                   /\ taken'[s] + Cardinality(Observing(s)') = offered'[s] \div every
        BY <2>11, <3>2
      <3> QED
        BY <3>1, <3>2
    <2> QED
      BY <1>0, <2>12 DEF SampleInv
  <1>4. CASE \E t \in Request : Observe(t)
    <2>1. PICK t \in Request : Observe(t)
      BY <1>4
    <2>2. /\ Went(t) /\ Leaves(t) /\ Arg(t) \in Series /\ At(t, "observe")
          /\ samples' = samples /\ offered' = offered /\ taken' = [taken EXCEPT ![Arg(t)] = @ + 1]
      BY <2>1, RequestActs DEF Observe
    <2>3. \A s : Moved(Observing(s), Observing(s)', t)
      BY <2>2, RequestMoves DEF Went
    <2>4. \A s : t \in Observing(s) <=> s = Arg(t)
      BY <2>2 DEF Observing
    <2>5. \A s : t \notin Observing(s)'
      BY <2>2 DEF Observing, At, Leaves, Inner
    <2>6. ASSUME NEW s \in Series
          PROVE  taken'[s] + Cardinality(Observing(s)') = offered[s] \div every
      <3>1. CASE s = Arg(t)
        <4>1. Cardinality(Observing(s)') = Cardinality(Observing(s)) - 1
          BY <2>3, <2>4, <2>5, <3>1 DEF Moved
        <4>2. taken'[s] = taken[s] + 1
          BY <2>2, <3>1 DEF TypeCore
        <4> QED
          BY <1>1, <1>2, <4>1, <4>2
      <3>2. CASE s # Arg(t)
        <4>1. Cardinality(Observing(s)') = Cardinality(Observing(s))
          BY <2>3, <2>4, <2>5, <3>2 DEF Moved
        <4>2. taken'[s] = taken[s]
          BY <2>2, <3>2 DEF TypeCore
        <4> QED
          BY <1>2, <4>1, <4>2
      <3> QED
        BY <3>1, <3>2
    <2> QED
      BY <1>0, <1>2, <2>2, <2>6 DEF SampleInv
  <1>5. CASE ~\E t \in Request : ShouldSample(t) \/ Observe(t)
    <2>1. \A s : Observing(s)' = Observing(s)
      BY <1>5, HeadStep
    <2>2. samples' = samples /\ offered' = offered /\ taken' = taken
      BY <1>5 DEF Next, Start, Missed, Increment, RecordCount, RecordTotal, CheckEnabled,
                  SetEnabled, Drain, Publish, Read
    <2> QED
      BY <1>0, <2>1, <2>2 DEF SampleInv
  <1> QED
    BY <1>3, <1>4, <1>5

\* The fields that a step of the counters and of the logger leaves alone.
LEMMA FieldsGrow ==
  ASSUME TypeCore, TodoInv, TimeInv, Next
  PROVE  /\ \A f \in {"CacheHits", "CacheMisses"} : m[f] \in Nat /\ m'[f] \in Nat /\ m[f] <= m'[f]
         /\ \/ \A s \in Series : m'[LastP95[s]] = m[LastP95[s]] /\ m'[LastP99[s]] = m[LastP99[s]]
            \/ Publish
  <1> DEFINE H == {"CacheHits", "CacheMisses"}
             Stay == \A s \in Series :
                       m'[LastP95[s]] = m[LastP95[s]] /\ m'[LastP99[s]] = m[LastP99[s]]
             Grow == \A f \in H : m[f] <= m'[f]
  <1>0. m \in [Field -> Nat] /\ m' \in [Field -> Nat] /\ conf \in DOMAIN Scenario
    BY TypeStep DEF TypeCore
  <1>1. \A f \in H : f \in Field /\ m[f] \in Nat /\ m'[f] \in Nat
    BY <1>0, FieldNames
  <1>2. \A s \in Series : /\ LastP95[s] \in Field /\ LastP99[s] \in Field
                          /\ LatencyCount[s] \in Field /\ TotalMicros[s] \in Field
    BY FieldNames
  <1>3. ASSUME NEW t \in Request \cup Loader, Increment(t)
        PROVE  Grow /\ Stay
    <2>1. At(t, "inc") /\ Add(Arg(t), 1)
      BY <1>3 DEF Increment
    <2>2. Arg(t) \in {"APIRequests", "APIErrors", "GroupGets", "CacheHits", "CacheMisses",
                      "FilterMisses", "PeerLoads", "LocalLoads", "PeerHTTPRequests"}
      <3>1. CASE t \in Request
        <4>1. Head(todo[t]) \in {oCall, oErr, oServe, oGet, oHit, oMiss}
          BY <2>1, <3>1, AtRequest
        <4> QED
          BY <4>1 DEF Arg, oCall, oErr, oServe, oGet, oHit, oMiss
      <3>2. CASE t \in Loader
        BY <2>1, <3>2, AtLoader
      <3> QED
        BY <3>1, <3>2
    <2>3. Arg(t) \in Field
      BY <2>2, FieldNames
    <2>4. m'[Arg(t)] = m[Arg(t)] + 1 /\ \A g \in Field : g # Arg(t) => m'[g] = m[g]
      BY <1>0, <2>1, <2>3, AddType
    <2>5. Grow
      BY <1>1, <2>4
    <2>6. Stay
      BY <1>2, <2>2, <2>4, SeriesFields
    <2> QED
      BY <2>5, <2>6
  <1>4. ASSUME NEW f \in Field, NEW n \in Nat, NEW s \in Series, f \in {LatencyCount[s], TotalMicros[s]},
               Add(f, n)
        PROVE  Grow /\ Stay
    <2>1. m'[f] = m[f] + n /\ \A g \in Field : g # f => m'[g] = m[g]
      BY <1>0, <1>4, AddType
    <2>2. Grow
      BY <1>1, <1>4, <2>1, SeriesFields
    <2>3. Stay
      BY <1>2, <1>4, <2>1, SeriesFields
    <2> QED
      BY <2>2, <2>3
  <1>5. ASSUME NEW t \in Request, RecordCount(t)
        PROVE  Grow /\ Stay
    <2>1. Arg(t) \in Series /\ Add(LatencyCount[Arg(t)], 1)
      BY <1>5, RequestActs DEF RecordCount
    <2> QED
      BY <1>2, <1>4, <2>1
  <1>6. ASSUME NEW t \in Request, RecordTotal(t)
        PROVE  Grow /\ Stay
    <2>1. Arg(t) \in Series /\ Add(TotalMicros[Arg(t)], us[t]) /\ At(t, "total")
      BY <1>6, RequestActs DEF RecordTotal
    <2>2. us[t] \in Nat
      BY <1>0, <2>1, Configured DEF TimeInv, At, Inner
    <2> QED
      BY <1>2, <1>4, <2>1, <2>2
  <1>7. ASSUME Publish
        PROVE  Grow
    <2>1. PICK op \in {"store95", "store99"} : At(Logger, op)
      BY <1>7 DEF Publish
    <2>2. PICK s \in Series : s = Arg(Logger)
      BY <2>1, AtReader
    <2>3. m' = Stored(LastP95[s], s, 1) \/ m' = Stored(LastP99[s], s, 2)
      BY <1>7, <2>2 DEF Publish
    <2>4. \A g \in Field : g # LastP95[s] /\ g # LastP99[s] => m'[g] = m[g]
      BY <1>0, <2>3 DEF Stored
    <2> QED
      BY <1>1, <2>4, SeriesFields
  <1>8. ASSUME m' = m
        PROVE  Grow /\ Stay
    BY <1>1, <1>8
  <1>9. \/ m' = m \/ Publish
        \/ \E t \in Request \cup Loader : Increment(t)
        \/ \E t \in Request : RecordCount(t) \/ RecordTotal(t)
    BY DEF Next, Start, Missed, CheckEnabled, ShouldSample, Observe, SetEnabled, Drain, Read
  <1>10. Grow /\ (Stay \/ Publish)
    BY <1>3, <1>5, <1>6, <1>7, <1>8, <1>9
  <1> QED
    BY <1>1, <1>10

\* What a step does to a thread that reads.
LEMMA WhoReads ==
  ASSUME TypeCore, TodoInv, Next, NEW r \in Reader \cup {Logger}
  PROVE  \/ todo'[r] = todo[r] /\ snap'[r] = snap[r]
         \/ Start(r) \/ Read(r)
         \/ r = Logger /\ (Drain \/ Publish)
  <1> DEFINE Goal == \/ todo'[r] = todo[r] /\ snap'[r] = snap[r]
                     \/ Start(r) \/ Read(r)
                     \/ r = Logger /\ (Drain \/ Publish)
  <1>0. /\ conf \in DOMAIN Scenario /\ snap \in [Reader \cup {Logger} -> [Field -> Nat]]
        /\ r \in Thread
    BY Roles DEF TypeCore
  <1>1. ASSUME NEW t \in Thread, Start(t)
        PROVE  Goal
    <2>1. Alone(t) /\ snap' = snap
      BY <1>0, <1>1, Started DEF Start
    <2> QED
      BY <1>0, <1>1, <2>1 DEF Alone
  <1>2. ASSUME NEW t \in Request,
               \/ RecordCount(t) \/ RecordTotal(t) \/ CheckEnabled(t) \/ ShouldSample(t)
               \/ Observe(t) \/ Increment(t)
        PROVE  Goal
    <2>1. Alone(t) /\ snap' = snap
      BY <1>2, RequestActs DEF RecordCount, RecordTotal, CheckEnabled, ShouldSample, Observe,
                               Increment
    <2> QED
      BY <1>0, <2>1, Roles DEF Alone
  <1>3. ASSUME NEW t \in Request, Missed(t)
        PROVE  Goal
    <2>1. snap' = snap /\ \E g \in Loader : \A q \in Thread : q # t /\ q # g => todo'[q] = todo[q]
      BY <1>3, MissedStep DEF Missed
    <2> QED
      BY <1>0, <2>1, Roles
  <1>4. ASSUME NEW t \in Loader, Increment(t)
        PROVE  Goal
    <2>1. snap' = snap /\ todo[t] # <<>> /\ Skip(t, 1)
      BY <1>4 DEF Increment, At
    <2>2. Alone(t)
      BY <2>1, LoaderStep
    <2> QED
      BY <1>0, <2>1, <2>2, Roles DEF Alone
  <1>5. ASSUME NEW t \in Admin, SetEnabled(t)
        PROVE  Goal
    <2>1. snap' = snap /\ todo[t] # <<>> /\ Skip(t, 1)
      BY <1>5 DEF SetEnabled, At
    <2>2. Alone(t)
      BY <2>1, AdminStep
    <2> QED
      BY <1>0, <2>1, <2>2, Roles DEF Alone
  <1>6. ASSUME NEW t \in Reader \cup {Logger}, t # r, todo[t] # <<>>, Skip(t, 1),
               snap' = snap \/ snap' = [snap EXCEPT ![t][Arg(t)] = m[Arg(t)]]
        PROVE  Goal
    <2>1. Alone(t)
      BY <1>6, ReadStep
    <2>2. snap'[r] = snap[r]
      BY <1>0, <1>6
    <2> QED
      BY <1>0, <1>6, <2>1, <2>2 DEF Alone
  <1>7. ASSUME Drain \/ Publish
        PROVE  Goal
    BY <1>6, <1>7 DEF Drain, Publish, At
  <1>8. ASSUME NEW t \in Reader \cup {Logger}, Read(t)
        PROVE  Goal
    BY <1>6, <1>8 DEF Read, At
  <1> QED
    BY <1>1, <1>2, <1>3, <1>4, <1>5, <1>7, <1>8 DEF Next

LEMMA ReadFacts ==
  ASSUME TypeCore, TodoInv, NEW r \in Reader \cup {Logger}, Read(r)
  PROVE  \E f \in Field :
           /\ m' = m /\ last' = last /\ snap'[r][f] = m[f]
           /\ \A g \in Field : g # f => snap'[r][g] = snap[r][g]
           /\ <<"read", f>> \in N(r)
           /\ \A y : y # <<"read", f>> => (y \in N(r)' <=> y \in N(r))
           /\ \A y \in N(r)' : ~Never(<<"read", f>>, y)
           /\ ReadInv(N(r)) /\ (r = Logger => LogInv(N(r)))
  <1>0. snap \in [Reader \cup {Logger} -> [Field -> Nat]]
    BY DEF TypeCore
  <1>1. At(r, "read") /\ Skip(r, 1) /\ m' = m /\ last' = last
    BY DEF Read
  <1>2. PICK f \in Field : f = Arg(r)
    BY <1>1, AtReader
  <1>3. todo[r] # <<>> /\ Head(todo[r]) = <<"read", f>>
    BY <1>1, <1>2, AtReader
  <1>4. snap'[r] = [snap[r] EXCEPT ![f] = m[f]]
    BY <1>0, <1>2 DEF Read
  <1>5. snap'[r][f] = m[f] /\ \A g \in Field : g # f => snap'[r][g] = snap[r][g]
    BY <1>0, <1>4
  <1>6. /\ N(r)' \subseteq N(r) /\ Head(todo[r]) \in N(r)
        /\ \A y \in N(r) : y \in N(r)' \/ y = Head(todo[r])
        /\ \A y \in N(r)' : ~Never(Head(todo[r]), y)
    BY <1>1, <1>3, ReadStep
  <1>7. ReadInv(N(r)) /\ (r = Logger => LogInv(N(r)))
    BY DEF TodoInv, ReaderRest, LoggerRest, N
  <1> QED
    BY <1>1, <1>3, <1>5, <1>6, <1>7

LEMMA TickFacts ==
  ASSUME TodoInv, NEW op \in {"drain", "store95", "store99"}, At(Logger, op), Skip(Logger, 1)
  PROVE  \E s \in Series :
           /\ s = Arg(Logger) /\ <<op, s>> \in N(Logger)
           /\ \A y : y # <<op, s>> => (y \in N(Logger)' <=> y \in N(Logger))
           /\ \A y \in N(Logger)' : ~Never(<<op, s>>, y)
           /\ LogInv(N(Logger))
  <1>1. PICK s \in Series : s = Arg(Logger)
    BY AtReader
  <1>2. todo[Logger] # <<>> /\ Head(todo[Logger]) = <<op, s>>
    BY <1>1, AtReader
  <1>3. /\ N(Logger)' \subseteq N(Logger) /\ Head(todo[Logger]) \in N(Logger)
        /\ \A y \in N(Logger) : y \in N(Logger)' \/ y = Head(todo[Logger])
        /\ \A y \in N(Logger)' : ~Never(Head(todo[Logger]), y)
    BY <1>2, ReadStep
  <1>4. LogInv(N(Logger))
    BY DEF TodoInv, LoggerRest, N
  <1> QED
    BY <1>1, <1>2, <1>3, <1>4

\* SnapInv for one thread, in numbers: what is still to be read is taken from m.
Found(t, f) == IF Reads(t, f) THEN m[f] ELSE snap[t][f]
Snapped(t) ==
  /\ snap[t]["CacheHits"] <= m["CacheHits"]
  /\ ~Reads(t, "GroupGets") =>
       snap[t]["GroupGets"] <= Found(t, "CacheHits") + Found(t, "CacheMisses") + Cardinality(Request)

LEMMA SnapStep ==
  ASSUME TypeCore, TodoInv, TimeInv, Balance, SnapInv, Next
  PROVE  SnapInv'
  <1>0. /\ \A f \in {"CacheHits", "CacheMisses", "GroupGets"} :
             /\ f \in Field /\ m[f] \in Nat /\ m'[f] \in Nat
             /\ \A r \in Reader \cup {Logger} : snap[r][f] \in Nat /\ snap'[r][f] \in Nat
        /\ m["CacheHits"] <= m'["CacheHits"] /\ m["CacheMisses"] <= m'["CacheMisses"]
        /\ Cardinality(Request) \in Nat /\ conf \in DOMAIN Scenario
    <2>1. /\ \A f \in {"CacheHits", "CacheMisses", "GroupGets"} : f \in Field
          /\ m \in [Field -> Nat] /\ m' \in [Field -> Nat]
          /\ snap \in [Reader \cup {Logger} -> [Field -> Nat]]
          /\ snap' \in [Reader \cup {Logger} -> [Field -> Nat]]
          /\ conf \in DOMAIN Scenario
      BY TypeStep, FieldNames DEF TypeCore
    <2>2. \A f \in Field, r \in Reader \cup {Logger} : snap[r][f] \in Nat /\ snap'[r][f] \in Nat
      BY <2>1
    <2> QED
      BY <2>1, <2>2, FieldsGrow, OwedNat
  <1>1. m["GroupGets"] <= m["CacheHits"] + m["CacheMisses"] + Cardinality(Request)
    <2>1. /\ Cardinality(Searching) \in Nat /\ Cardinality(Searching) <= Cardinality(Request)
          /\ Cardinality(Request) \in Nat
      BY OwedNat
    <2>2. m["GroupGets"] <= m["CacheHits"] + m["CacheMisses"] + Cardinality(Searching)
      BY DEF Balance
    <2> QED
      BY <1>0, <2>1, <2>2
  <1>2. SUFFICES ASSUME NEW r \in Reader \cup {Logger} PROVE Snapped(r)'
    BY DEF SnapInv, Snapped, Found
  <1>3. Snapped(r)
    BY DEF SnapInv, Snapped, Found
  <1>4. ASSUME snap'[r] = snap[r], \A f : Reads(r, f)' <=> Reads(r, f)
        PROVE  Snapped(r)'
    <2>1. snap'[r]["CacheHits"] <= m'["CacheHits"]
      BY <1>0, <1>3, <1>4 DEF Snapped
    <2>2. ASSUME NEW f \in {"CacheHits", "CacheMisses"}
          PROVE  Found(r, f) \in Nat /\ Found(r, f)' \in Nat /\ Found(r, f) <= Found(r, f)'
      BY <1>0, <1>4 DEF Found
    <2>3. ASSUME ~Reads(r, "GroupGets")'
          PROVE  snap'[r]["GroupGets"] <= Found(r, "CacheHits")' + Found(r, "CacheMisses")'
                                            + Cardinality(Request)
      <3>1. snap[r]["GroupGets"] <= Found(r, "CacheHits") + Found(r, "CacheMisses")
                                            + Cardinality(Request)
        BY <1>3, <1>4, <2>3 DEF Snapped
      <3> QED
        BY <1>0, <1>4, <2>2, <3>1
    <2> QED
      BY <2>1, <2>3 DEF Snapped
  <1>5. CASE todo'[r] = todo[r] /\ snap'[r] = snap[r]
    BY <1>4, <1>5 DEF Reads, N
  <1>6. CASE Start(r)
    <2>1. snap' = snap /\ m' = m
      BY <1>6 DEF Start
    <2>2. ReadOps \subseteq N(r)'
      BY <1>0, <1>6, Started, Roles, TickPiece
    <2>3. Reads(r, "GroupGets")'
      BY <1>0, <2>2 DEF Reads, ReadOps
    <2> QED
      BY <1>3, <2>1, <2>3 DEF Snapped
  <1>7. CASE r = Logger /\ (Drain \/ Publish)
    <2>1. PICK op \in {"drain", "store95", "store99"} : At(Logger, op)
      BY <1>7 DEF Drain, Publish
    <2>2. Skip(Logger, 1) /\ snap' = snap
      BY <1>7 DEF Drain, Publish
    <2>3. PICK s \in Series : \A y : y # <<op, s>> => (y \in N(Logger)' <=> y \in N(Logger))
      BY <2>1, <2>2, TickFacts
    <2>4. \A f : <<"read", f>> # <<op, s>>
      OBVIOUS
    <2> QED
      BY <1>4, <1>7, <2>2, <2>3, <2>4 DEF Reads
  <1>8. CASE Read(r)
    <2>1. PICK f \in Field :
            /\ m' = m /\ last' = last /\ snap'[r][f] = m[f]
            /\ \A g \in Field : g # f => snap'[r][g] = snap[r][g]
            /\ <<"read", f>> \in N(r)
            /\ \A y : y # <<"read", f>> => (y \in N(r)' <=> y \in N(r))
            /\ \A y \in N(r)' : ~Never(<<"read", f>>, y)
            /\ ReadInv(N(r))
      BY <1>8, ReadFacts
    <2>2. Reads(r, f) /\ \A g : g # f => (Reads(r, g)' <=> Reads(r, g))
      BY <2>1 DEF Reads
    <2>3. snap'[r]["CacheHits"] <= m'["CacheHits"]
      BY <1>0, <1>3, <2>1 DEF Snapped
    <2>4. \A g \in {"CacheHits", "CacheMisses"} : Found(r, g)' = Found(r, g)
      <3>1. ASSUME NEW g \in {"CacheHits", "CacheMisses"}
            PROVE  Found(r, g)' = Found(r, g)
        <4>1. CASE g = f
          BY <2>1, <2>2, <4>1 DEF Found
        <4>2. CASE g # f
          BY <1>0, <2>1, <2>2, <4>2 DEF Found
        <4> QED
          BY <4>1, <4>2
      <3> QED
        BY <3>1
    <2>5. ASSUME ~Reads(r, "GroupGets")'
          PROVE  snap'[r]["GroupGets"] <= Found(r, "CacheHits") + Found(r, "CacheMisses")
                                            + Cardinality(Request)
      <3>1. CASE f = "GroupGets"
        <4>1. Found(r, "CacheHits") = m["CacheHits"] /\ Found(r, "CacheMisses") = m["CacheMisses"]
          BY <2>1, <3>1 DEF ReadInv, Found, Reads
        <4> QED
          BY <1>1, <2>1, <3>1, <4>1
      <3>2. CASE f # "GroupGets"
        BY <1>0, <1>3, <2>1, <2>2, <2>5, <3>2 DEF Snapped
      <3> QED
        BY <3>1, <3>2
    <2> QED
      BY <2>3, <2>4, <2>5 DEF Snapped
  <1> QED
    BY <1>5, <1>6, <1>7, <1>8, WhoReads

\* LoggedInv for one series.
Stores(s) == <<"store95", s>> \in N(Logger) \/ <<"store99", s>> \in N(Logger)
Between(s) == <<"store99", s>> \in N(Logger) /\ <<"store95", s>> \notin N(Logger)
Logged(s, p, q) ==
  /\ last[s] # None => last[s][1] <= last[s][2]
  /\ Between(s) /\ last[s] # None => m[p] = last[s][1]
  /\ ~(Between(s) /\ last[s] # None) => m[p] <= m[q]
  /\ ~Reads(Logger, p) /\ Reads(Logger, q) => snap[Logger][p] = m[p] /\ ~Stores(s)
  /\ ~Reads(Logger, p) /\ ~Reads(Logger, q) => snap[Logger][p] <= snap[Logger][q]

LEMMA LoggedParts ==
  LoggedInv <=> \A s \in Series : Logged(s, LastP95[s], LastP99[s])
  <1>1. \A s : {<<"store95", s>>, <<"store99", s>>} \cap N(Logger) = {} <=> ~Stores(s)
    BY DEF Stores
  <1> QED
    BY <1>1 DEF LoggedInv, Logged, Between

LEMMA LoggedStep ==
  ASSUME TypeCore, TodoInv, TimeInv, LoggedInv, Next
  PROVE  LoggedInv'
  <1>0. /\ conf \in DOMAIN Scenario /\ last \in [Series -> ((0 .. MaxSample) \X (0 .. MaxSample)) \cup {None}]
        /\ window \in [Series -> Seq(0 .. MaxSample)] /\ m \in [Field -> Nat]
        /\ Logger \in Reader \cup {Logger} /\ Logger \in Thread
    BY Roles DEF TypeCore
  <1>1. SUFFICES ASSUME NEW s \in Series, NEW p, p = LastP95[s], NEW q, q = LastP99[s]
                 PROVE  Logged(s, p, q)'
    <2>1. \A s \in Series : Logged(s, LastP95[s], LastP99[s])'
      BY <1>1
    <2>2. LoggedInv' <=> (\A s \in Series : Logged(s, LastP95[s], LastP99[s]))'
      BY LoggedParts, PTL
    <2> QED
      BY <2>1, <2>2
  <1>2. Logged(s, p, q)
    BY <1>1, LoggedParts
  <1>3. p \in Field /\ q \in Field /\ p # q
    BY <1>1, FieldNames, SeriesFields
  <1>4. ASSUME last'[s] = last[s], m'[p] = m[p], m'[q] = m[q], snap'[Logger] = snap[Logger],
               \A y \in {<<"store95", s>>, <<"store99", s>>, <<"read", p>>, <<"read", q>>} :
                  y \in N(Logger)' <=> y \in N(Logger)
        PROVE  Logged(s, p, q)'
    <2>1. (Between(s)' <=> Between(s)) /\ (Stores(s)' <=> Stores(s))
      BY <1>4 DEF Between, Stores
    <2>2. /\ Reads(Logger, p)' <=> Reads(Logger, p)
          /\ Reads(Logger, q)' <=> Reads(Logger, q)
      BY <1>4 DEF Reads
    <2> QED
      BY <1>2, <1>4, <2>1, <2>2 DEF Logged
  <1>5. CASE Start(Logger)
    <2>1. UNCHANGED <<m, last, snap>> /\ todo[Logger] = <<>>
      BY <1>5 DEF Start
    <2>2. N(Logger)' = ToSet(Tick)
      BY <1>0, <1>5, Started
    <2>3. <<"store95", s>> \in N(Logger)' /\ Reads(Logger, p)'
      BY <1>3, <2>2, TickPiece DEF Reads, ReadOps
    <2>4. N(Logger) = {}
      BY <2>1, NoPiece DEF N
    <2>5. ~Between(s)' /\ ~Between(s)
      BY <2>3, <2>4 DEF Between
    <2> QED
      BY <1>2, <2>1, <2>3, <2>5 DEF Logged
  <1>6. CASE Read(Logger)
    <2>1. PICK f \in Field :
            /\ m' = m /\ last' = last /\ snap'[Logger][f] = m[f]
            /\ \A g \in Field : g # f => snap'[Logger][g] = snap[Logger][g]
            /\ <<"read", f>> \in N(Logger)
            /\ \A y : y # <<"read", f>> => (y \in N(Logger)' <=> y \in N(Logger))
            /\ \A y \in N(Logger)' : ~Never(<<"read", f>>, y)
            /\ LogInv(N(Logger))
      BY <1>0, <1>6, ReadFacts
    <2>2. Reads(Logger, f) /\ \A g : g # f => (Reads(Logger, g)' <=> Reads(Logger, g))
      BY <2>1 DEF Reads
    <2>3. (Between(s)' <=> Between(s)) /\ (Stores(s)' <=> Stores(s))
      BY <2>1 DEF Between, Stores
    <2>4. Reads(Logger, p) => Reads(Logger, q)
      BY <1>1, <2>1 DEF LogInv, Reads
    <2>5. CASE f = p
      <3>1. ~Stores(s)'
        <4>1. Never(<<"read", p>>, <<"store95", s>>) /\ Never(<<"read", p>>, <<"store99", s>>)
          BY <1>1 DEF Never
        <4> QED
          BY <2>1, <2>5, <4>1 DEF Stores
      <3>2. Reads(Logger, q)'
        BY <1>3, <2>2, <2>4, <2>5
      <3> QED
        BY <1>2, <2>1, <2>3, <2>5, <3>1, <3>2 DEF Logged
    <2>6. CASE f = q
      <3>1. Reads(Logger, p)' <=> Reads(Logger, p)
        BY <1>3, <2>2, <2>6
      <3>2. ~Stores(s) => ~Between(s)
        BY DEF Stores, Between
      <3> QED
        BY <1>2, <1>3, <2>1, <2>2, <2>3, <2>6, <3>1, <3>2 DEF Logged
    <2>7. CASE f # p /\ f # q
      <3>1. /\ Reads(Logger, p)' <=> Reads(Logger, p)
            /\ Reads(Logger, q)' <=> Reads(Logger, q)
        BY <2>2, <2>7
      <3> QED
        BY <1>2, <1>3, <2>1, <2>3, <2>7, <3>1 DEF Logged
    <2> QED
      BY <2>5, <2>6, <2>7
  <1>7. CASE Drain
    <2>1. /\ At(Logger, "drain") /\ Skip(Logger, 1) /\ m' = m /\ snap' = snap
          /\ last' = [last EXCEPT ![Arg(Logger)] = Percentiles(window[Arg(Logger)])]
      BY <1>7 DEF Drain
    <2>2. PICK r \in Series :
            /\ r = Arg(Logger) /\ <<"drain", r>> \in N(Logger)
            /\ \A y : y # <<"drain", r>> => (y \in N(Logger)' <=> y \in N(Logger))
            /\ LogInv(N(Logger))
      BY <2>1, TickFacts
    <2>3. /\ \A y \in {<<"store95", s>>, <<"store99", s>>, <<"read", p>>, <<"read", q>>} :
               y \in N(Logger)' <=> y \in N(Logger)
      BY <2>2
    <2>4. CASE r # s
      BY <1>0, <1>4, <2>1, <2>2, <2>3, <2>4
    <2>5. CASE r = s
      <3>1. last'[s] # None => last'[s][1] <= last'[s][2]
        BY <1>0, <2>1, <2>2, <2>5, PercentileFacts
      <3>2. (Between(s)' <=> Between(s)) /\ (Stores(s)' <=> Stores(s))
        BY <2>3 DEF Between, Stores
      <3>3. ~Between(s)
        BY <2>2, <2>5 DEF LogInv, Between
      <3>4. /\ Reads(Logger, p)' <=> Reads(Logger, p)
            /\ Reads(Logger, q)' <=> Reads(Logger, q)
        BY <2>3 DEF Reads
      <3> QED
        BY <1>2, <2>1, <3>1, <3>2, <3>3, <3>4 DEF Logged
    <2> QED
      BY <2>4, <2>5
  <1>8. CASE Publish
    <2>1. PICK op \in {"store95", "store99"} :
            /\ At(Logger, op)
            /\ op = "store95" => m' = Stored(LastP95[Arg(Logger)], Arg(Logger), 1)
            /\ op = "store99" => m' = Stored(LastP99[Arg(Logger)], Arg(Logger), 2)
      BY <1>8 DEF Publish
    <2>2. Skip(Logger, 1) /\ last' = last /\ snap' = snap
      BY <1>8 DEF Publish
    <2>3. PICK r \in Series :
            /\ r = Arg(Logger) /\ <<op, r>> \in N(Logger)
            /\ \A y : y # <<op, r>> => (y \in N(Logger)' <=> y \in N(Logger))
            /\ \A y \in N(Logger)' : ~Never(<<op, r>>, y)
            /\ LogInv(N(Logger))
      BY <2>1, <2>2, TickFacts
    <2>4. CASE r # s
      <3>1. \A y \in {<<"store95", s>>, <<"store99", s>>, <<"read", p>>, <<"read", q>>} :
               y \in N(Logger)' <=> y \in N(Logger)
        BY <2>3, <2>4
      <3>2. p # LastP95[r] /\ p # LastP99[r] /\ q # LastP95[r] /\ q # LastP99[r]
        BY <1>1, <2>4, SeriesFields
      <3>3. m'[p] = m[p] /\ m'[q] = m[q]
        BY <1>0, <1>3, <2>1, <2>3, <3>2 DEF Stored
      <3> QED
        BY <1>4, <2>2, <3>1, <3>3
    <2>5. CASE r = s
      <3>1. \A f : Reads(Logger, f)' <=> Reads(Logger, f)
        <4>1. \A f : <<"read", f>> # <<op, r>>
          OBVIOUS
        <4> QED
          BY <2>3, <4>1 DEF Reads
      <3>2. Stores(s)
        BY <2>3, <2>5 DEF Stores
      <3>3. CASE op = "store95"
        <4>1. m' = IF last[s] = None THEN m ELSE [m EXCEPT ![p] = last[s][1]]
          BY <1>1, <2>1, <2>3, <2>5, <3>3 DEF Stored
        <4>2. <<"store99", s>> \in N(Logger)'
          BY <2>3, <2>5, <3>3 DEF LogInv
        <4>3. <<"store95", s>> \notin N(Logger)'
          BY <2>3, <2>5, <3>3 DEF Never
        <4>4. Between(s)' /\ ~Between(s)
          BY <2>3, <2>5, <3>3, <4>2, <4>3 DEF Between
        <4>5. last[s] # None => m'[p] = last[s][1]
          BY <1>0, <1>3, <4>1
        <4> QED
          BY <1>2, <2>2, <3>1, <3>2, <4>1, <4>4, <4>5 DEF Logged
      <3>4. CASE op = "store99"
        <4>1. m' = IF last[s] = None THEN m ELSE [m EXCEPT ![q] = last[s][2]]
          BY <1>1, <2>1, <2>3, <2>5, <3>4 DEF Stored
        <4>2. <<"store99", s>> \notin N(Logger)' /\ <<"store95", s>> \notin N(Logger)'
          BY <2>3, <2>5, <3>4 DEF Never
        <4>3. Between(s) /\ ~Between(s)'
          BY <2>3, <2>5, <3>4, <4>2 DEF Between
        <4>4. last[s] # None => m'[p] = m[p] /\ m'[q] = last[s][2]
          BY <1>0, <1>3, <4>1
        <4> QED
          BY <1>2, <2>2, <3>1, <3>2, <4>1, <4>3, <4>4 DEF Logged
      <3> QED
        BY <3>3, <3>4
    <2> QED
      BY <2>4, <2>5
  <1>9. CASE /\ todo'[Logger] = todo[Logger] /\ snap'[Logger] = snap[Logger]
             /\ ~Drain /\ ~Publish
    <2>1. last' = last
      BY <1>9 DEF Next, Start, Missed, Increment, RecordCount, RecordTotal, CheckEnabled,
                  ShouldSample, Observe, SetEnabled, Read
    <2>2. m'[p] = m[p] /\ m'[q] = m[q]
      BY <1>1, <1>9, FieldsGrow
    <2>3. N(Logger)' = N(Logger)
      BY <1>9 DEF N
    <2> QED
      BY <1>4, <1>9, <2>1, <2>2, <2>3
  <1> QED
    BY <1>0, <1>5, <1>6, <1>7, <1>8, <1>9, WhoReads

-----------------------------------------------------------------------------
\* The invariant.

\* A thread at rest owes nothing.
LEMMA NothingOwed ==
  ASSUME \A t \in Request : todo[t] = <<>>
  PROVE  /\ Cardinality(Hitting) = 0 /\ Cardinality(Missing) = 0 /\ Cardinality(Erring) = 0
         /\ Cardinality(Loading) = 0 /\ Cardinality(Searching) = 0 /\ Cardinality(Getting) = 0
         /\ Cardinality(Calling) = 0
         /\ \A s : Cardinality(Adding(s)) = 0 /\ Cardinality(Observing(s)) = 0
  <1>1. \A t \in Request : N(t) = {}
    BY NoPiece DEF N
  <1>2. /\ Hitting = {} /\ Missing = {} /\ Erring = {} /\ Loading = {} /\ Searching = {}
        /\ Getting = {} /\ Calling = {}
    BY <1>1 DEF Hitting, Missing, Erring, Loading, Searching, Getting, Calling
  <1>3. \A s : Adding(s) = {} /\ Observing(s) = {}
    BY DEF Adding, Observing, At
  <1> QED
    BY <1>2, <1>3, FS_EmptySet

LEMMA NoLoads ==
  ASSUME \A t \in Loader : todo[t] = <<>>
  PROVE  Cardinality(AtPeer) = 0 /\ Cardinality(AtHome) = 0
  <1>1. \A t \in Loader : N(t) = {}
    BY NoPiece DEF N
  <1>2. AtPeer = {} /\ AtHome = {}
    BY <1>1 DEF AtPeer, AtHome
  <1> QED
    BY <1>2, FS_EmptySet

LEMMA EveryFacts ==
  ASSUME NEW a \in Nat \ {0}, NEW b \in Nat \ {0}, a < b
  PROVE  /\ b \div a \in Nat \ {0}
         /\ (b \div a) * a <= b /\ b < (b \div a) * a + a
  <1>1. /\ b = a * (b \div a) + (b % a) /\ b % a \in 0 .. a - 1 /\ b \div a \in Int
    OBVIOUS
  <1> DEFINE e == b \div a
             r == b % a
  <1> HIDE DEF e, r
  <1>2. b = a * e + r /\ r \in Nat /\ r < a /\ e \in Int
    BY <1>1 DEF e, r
  <1>3. e >= 1
    BY <1>2
  <1>4. e * a = a * e
    BY <1>2
  <1> QED
    BY <1>2, <1>3, <1>4 DEF e

LEMMA EveryType ==
  ASSUME conf \in DOMAIN Scenario
  PROVE  (IF Scenario[conf].Rate[1] > 0 THEN Every(Scenario[conf].Rate) ELSE 1) \in Nat \ {0}
  <1> DEFINE a == Scenario[conf].Rate[1]
             b == Scenario[conf].Rate[2]
  <1>1. a \in Nat /\ b \in Nat \ {0}
    BY Configured
  <1>2. Every(Scenario[conf].Rate) = IF a >= b THEN 1 ELSE b \div a
    BY DEF Every
  <1> HIDE DEF a, b
  <1>3. a > 0 /\ ~(a >= b) => b \div a \in Nat \ {0}
    <2>1. SUFFICES ASSUME a > 0, ~(a >= b) PROVE b \div a \in Nat \ {0}
      OBVIOUS
    <2>2. a \in Nat \ {0} /\ a < b
      BY <1>1, <2>1
    <2> QED
      BY <1>1, <2>2, EveryFacts
  <1> QED
    BY <1>1, <1>2, <1>3 DEF a

LEMMA Initially ==
  Init => IInv
  <1> SUFFICES ASSUME Init PROVE IInv
    OBVIOUS
  <1>0. /\ conf \in DOMAIN Scenario /\ m = [f \in Field |-> 0] /\ todo = [t \in Thread |-> <<>>]
        /\ samples = [s \in Series |-> 0] /\ offered = [s \in Series |-> 0]
        /\ taken = [s \in Series |-> 0] /\ last = [s \in Series |-> None]
        /\ snap = [t \in Reader \cup {Logger} |-> [f \in Field |-> 0]]
        /\ every = IF Scenario[conf].Rate[1] > 0 THEN Every(Scenario[conf].Rate) ELSE 1
    BY DEF Init
  <1>1. every \in Nat \ {0}
    BY <1>0, EveryType
  <1>2. \A t \in Thread : todo[t] = <<>>
    BY <1>0
  <1>3. /\ \A t \in Request : todo[t] = <<>> /\ t \in Thread
        /\ \A t \in Loader : todo[t] = <<>> /\ t \in Thread
        /\ \A t \in Admin : todo[t] = <<>> /\ t \in Thread
        /\ \A t \in Reader : todo[t] = <<>> /\ t \in Thread
        /\ todo[Logger] = <<>> /\ Logger \in Thread
    BY <1>2, Roles
  <1>4. TypeCore
    <2>1. window = [s \in Series |-> <<>>] /\ us = [t \in Thread |-> None]
          /\ left = Scenario[conf].Calls /\ enabled \in BOOLEAN
      BY DEF Init
    <2>2. Scenario[conf].Calls \in [Thread -> Nat]
      BY <1>0, Configured
    <2>3. Cap \in Nat /\ Len(<<>>) = 0 /\ 0 <= Cap /\ <<>> \in Seq(0 .. MaxSample)
      BY MetricsAssumption
    <2>4. window \in [Series -> Seq(0 .. MaxSample)] /\ \A s \in Series : Len(window[s]) <= Cap
      BY <2>1, <2>3
    <2> QED
      BY <1>0, <1>1, <2>1, <2>2, <2>4 DEF TypeCore
  <1>5. TodoInv
    <2>1. RequestRest(<<>>)
      BY NoPiece DEF Piece, RequestRest, NeedInv
    <2>2. LoaderRest(<<>>) /\ AdminRest(<<>>)
      BY DEF LoaderRest, AdminRest, Ordered
    <2>3. ReaderRest(<<>>) /\ LoggerRest(<<>>)
      BY NoPiece DEF ReaderRest, LoggerRest, Ordered, ReadInv, LogInv
    <2> QED
      BY <1>0, <1>3, <2>1, <2>2, <2>3 DEF TodoInv
  <1>6. TimeInv
    BY <1>3 DEF TimeInv
  <1>7. \A f \in Counted : m[f] = 0
    BY <1>0, <1>4, CountedFields DEF TypeCore
  <1>8. Balance
    <2>1. /\ m["CacheHits"] = 0 /\ m["CacheMisses"] = 0 /\ m["GroupGets"] = 0
          /\ m["APIErrors"] = 0 /\ m["APIRequests"] = 0 /\ m["PeerLoads"] = 0
          /\ m["FilterMisses"] = 0 /\ m["LocalLoads"] = 0
          /\ m["GroupGetLatencyCount"] = 0 /\ m["APILatencyCount"] = 0
      BY <1>7 DEF Counted
    <2> QED
      BY <1>3, <2>1, NothingOwed, NoLoads DEF Balance
  <1>9. SumInv
    <2>1. Longest \in Nat
      BY <1>0, Configured
    <2>2. \A s \in Series : m[TotalMicros[s]] = 0 /\ m[LatencyCount[s]] = 0
      BY <1>0, FieldNames
    <2>3. \A s : Cardinality(Adding(s)) = 0
      BY <1>3, NothingOwed
    <2> QED
      BY <2>1, <2>2, <2>3 DEF SumInv
  <1>10. SampleInv
    <2>1. 0 \div every = 0
      BY <1>1
    <2>2. \A s : Cardinality(Observing(s)) = 0
      BY <1>3, NothingOwed
    <2> QED
      BY <1>0, <2>1, <2>2 DEF SampleInv
  <1>11. \A t \in Reader \cup {Logger}, f \in Field : ~Reads(t, f) /\ snap[t][f] = 0
    BY <1>0, <1>3, NoPiece DEF Reads, N
  <1>12. SnapInv
    <2>1. Cardinality(Request) \in Nat
      BY OwedNat
    <2>2. "CacheHits" \in Field /\ "CacheMisses" \in Field /\ "GroupGets" \in Field
      BY FieldNames
    <2> QED
      BY <1>0, <1>11, <2>1, <2>2 DEF SnapInv
  <1>13. LoggedInv
    <2>1. \A s \in Series : LastP95[s] \in Field /\ LastP99[s] \in Field
      BY FieldNames
    <2>2. \A s \in Series : Logged(s, LastP95[s], LastP99[s])
      BY <1>0, <1>11, <2>1 DEF Logged
    <2> QED
      BY <2>2, LoggedParts
  <1> QED
    BY <1>4, <1>5, <1>6, <1>8, <1>9, <1>10, <1>12, <1>13 DEF IInv

LEMMA Stutter ==
  IInv /\ UNCHANGED vars => IInv'
  <1> SUFFICES ASSUME IInv, UNCHANGED vars PROVE IInv'
    OBVIOUS
  <1>0. UNCHANGED <<conf, m, enabled, every, samples, window, todo, us, last, snap, left,
                    offered, taken>>
    BY DEF vars
  <1>1. \A t : N(t)' = N(t)
    BY <1>0 DEF N
  <1>2. TypeCore' /\ TodoInv' /\ TimeInv'
    BY <1>0 DEF IInv, TypeCore, TodoInv, TimeInv
  <1>3. Balance'
    BY <1>0, <1>1, Quiet DEF IInv
  <1>4. \A s : Adding(s)' = Adding(s) /\ Observing(s)' = Observing(s)
    BY <1>0, OthersStay
  <1>5. SumInv' /\ SampleInv'
    BY <1>0, <1>4 DEF IInv, SumInv, SampleInv, Longest
  <1>6. SnapInv' /\ LoggedInv'
    BY <1>0, <1>1 DEF IInv, SnapInv, LoggedInv, Reads
  <1> QED
    BY <1>2, <1>3, <1>5, <1>6 DEF IInv

LEMMA Stepwise ==
  IInv /\ [Next]_vars => IInv'
  <1>1. ASSUME IInv, Next
        PROVE  IInv'
    <2>1. TypeCore' /\ TodoInv' /\ TimeInv'
      BY <1>1, TypeStep, TodoStep DEF IInv
    <2>2. Balance' /\ SumInv' /\ SampleInv'
      BY <1>1, BalanceStep, SumStep, SampleStep DEF IInv
    <2>3. SnapInv' /\ LoggedInv'
      BY <1>1, SnapStep, LoggedStep DEF IInv
    <2> QED
      BY <2>1, <2>2, <2>3 DEF IInv
  <1> QED
    BY <1>1, Stutter

\* The inductive invariant holds in every reachable state.
THEOREM Inductive == Spec => []IInv
  BY Initially, Stepwise, PTL DEF Spec

-----------------------------------------------------------------------------
\* What follows from the invariant.

\* Only a request stands before an observe, and its duration is there.
LEMMA TypesHold ==
  IInv => TypeOK
  <1> SUFFICES ASSUME IInv PROVE TypeOK
    OBVIOUS
  <1>0. TypeCore /\ TodoInv /\ TimeInv
    BY DEF IInv
  <1>1. ASSUME NEW t \in Thread, todo[t] # <<>>, Head(todo[t])[1] = "observe"
        PROVE  us[t] # None
    <2>1. CASE t \in Request
      <3>1. us[t] \in Scenario[conf].Latency
        BY <1>0, <1>1, <2>1 DEF TimeInv, Inner
      <3> QED
        BY <1>0, <3>1, Configured DEF TypeCore
    <2>2. CASE t \in Loader
      <3>1. todo[t] \in Seq(LoaderOps)
        BY <1>0, <2>2 DEF TodoInv, LoaderRest
      <3>2. Head(todo[t]) \in LoaderOps
        BY <1>1, <3>1
      <3> QED
        BY <1>1, <3>2, OpArgs
    <2>3. CASE t \in Admin
      <3> DEFINE E == {<<"enable", b>> : b \in BOOLEAN}
      <3>1. todo[t] \in Seq(E)
        BY <1>0, <2>3 DEF TodoInv, AdminRest
      <3>2. \A x \in E : x[1] = "enable"
        OBVIOUS
      <3> HIDE DEF E
      <3>3. Head(todo[t]) \in E
        BY <1>1, <3>1
      <3> QED
        BY <1>1, <3>2, <3>3
    <2>4. CASE t \in Reader \cup {Logger}
      <3>1. todo[t] \in Seq(ReadOps) \/ todo[t] \in Seq(LoggerOps)
        BY <1>0, <2>4 DEF TodoInv, ReaderRest, LoggerRest
      <3>2. Head(todo[t]) \in LoggerOps
        BY <1>1, <3>1 DEF LoggerOps
      <3> QED
        BY <1>1, <3>2, OpArgs
    <2> QED
      BY <2>1, <2>2, <2>3, <2>4 DEF Thread
  <1> QED
    BY <1>0, <1>1 DEF TypeCore, TypeOK

LEMMA CountersHold ==
  IInv => CountersAgree
  <1> SUFFICES ASSUME IInv PROVE CountersAgree
    OBVIOUS
  <1>0. TypeCore /\ Balance /\ SumInv
    BY DEF IInv
  <1>1. /\ m["CacheHits"] \in Nat /\ m["CacheMisses"] \in Nat /\ m["GroupGets"] \in Nat
        /\ m["APIErrors"] \in Nat /\ m["APIRequests"] \in Nat /\ m["PeerLoads"] \in Nat
        /\ m["FilterMisses"] \in Nat /\ m["LocalLoads"] \in Nat
        /\ m["GroupGetLatencyCount"] \in Nat /\ m["APILatencyCount"] \in Nat
    BY <1>0, CountedFields DEF TypeCore, Counted
  <1>2. /\ m["CacheHits"] <= m["GroupGets"] /\ m["CacheMisses"] <= m["GroupGets"]
        /\ m["APIErrors"] <= m["APIRequests"] /\ m["PeerLoads"] <= m["CacheMisses"]
        /\ m["FilterMisses"] + m["LocalLoads"] <= m["CacheMisses"]
    BY <1>0, <1>1, OwedNat DEF Balance
  <1>3. ASSUME NEW s \in Series
        PROVE  m[TotalMicros[s]] <= Longest * m[LatencyCount[s]]
    <2>1. /\ m[TotalMicros[s]] \in Nat /\ m[LatencyCount[s]] \in Nat
          /\ Cardinality(Adding(s)) \in Nat /\ Longest \in Nat
      BY <1>0, FieldNames, OwedNat, Configured DEF TypeCore
    <2>2. Longest * Cardinality(Adding(s)) \in Nat /\ Longest * m[LatencyCount[s]] \in Nat
      BY <2>1
    <2>3. m[TotalMicros[s]] + Longest * Cardinality(Adding(s)) <= Longest * m[LatencyCount[s]]
      BY <1>0 DEF SumInv
    <2> QED
      BY <2>1, <2>2, <2>3
  <1>4. ASSUME AtRest
        PROVE  /\ m["GroupGets"] <= m["CacheHits"] + m["CacheMisses"]
               /\ m["GroupGets"] <= m["GroupGetLatencyCount"]
               /\ m["APILatencyCount"] = m["APIRequests"]
    <2>1. /\ Cardinality(Searching) = 0 /\ Cardinality(Getting) = 0 /\ Cardinality(Calling) = 0
      BY <1>4, NothingOwed DEF AtRest
    <2> QED
      BY <1>0, <1>1, <2>1 DEF Balance
  <1> QED
    BY <1>2, <1>3, <1>4 DEF CountersAgree

LEMMA SnapshotsHold ==
  IInv => SnapshotCoversFinished
  <1> SUFFICES ASSUME IInv, NEW t \in Reader \cup {Logger}, todo[t] = <<>>
               PROVE  /\ snap[t]["GroupGets"]
                           <= snap[t]["CacheHits"] + snap[t]["CacheMisses"] + Cardinality(Request)
                      /\ snap[t]["CacheHits"] <= m["GroupGets"]
    BY DEF SnapshotCoversFinished
  <1>1. \A f : ~Reads(t, f)
    BY NoPiece DEF Reads, N
  <1>2. /\ snap[t]["CacheHits"] <= m["CacheHits"]
        /\ snap[t]["GroupGets"]
             <= snap[t]["CacheHits"] + snap[t]["CacheMisses"] + Cardinality(Request)
    BY <1>1 DEF IInv, SnapInv
  <1>3. m["CacheHits"] \in Nat /\ m["GroupGets"] \in Nat /\ snap[t]["CacheHits"] \in Nat
    BY FieldNames DEF IInv, TypeCore
  <1>4. m["CacheHits"] + Cardinality(Hitting) <= m["GroupGets"] /\ Cardinality(Hitting) \in Nat
    BY OwedNat DEF IInv, Balance
  <1> QED
    BY <1>2, <1>3, <1>4

\* Of o observations one in e is taken, where e is the whole part of b / a.
LEMMA Share ==
  ASSUME NEW a \in Nat \ {0}, NEW b \in Nat \ {0}, NEW o \in Nat, a < b
  PROVE  LET k == o \div (b \div a)
         IN  /\ (k + 1) * b > o * a
             /\ k > 0 => k * b < 2 * a * o
  <1> DEFINE e == b \div a
             k == o \div e
  <1>1. e \in Nat \ {0} /\ e * a <= b /\ b < e * a + a
    BY EveryFacts
  <1> HIDE DEF e
  <1>2. k \in Nat /\ k * e <= o /\ o < k * e + e
    <2>1. o = e * k + (o % e) /\ o % e \in 0 .. e - 1 /\ k \in Nat
      BY <1>1
    <2> QED
      BY <1>1, <2>1
  <1> HIDE DEF k
  <1>3. (k + 1) * b >= (k + 1) * (e * a)
    BY <1>1, <1>2
  <1>4. (k + 1) * (e * a) = (k * e + e) * a
    BY <1>1, <1>2
  <1>5. (k * e + e) * a > o * a
    BY <1>1, <1>2
  <1>6. (k + 1) * b > o * a
    <2>1. (k + 1) * b \in Int /\ (k * e + e) * a \in Int /\ o * a \in Int
      BY <1>1, <1>2
    <2> QED
      BY <1>3, <1>4, <1>5, <2>1
  <1>7. ASSUME k > 0
        PROVE  k * b < 2 * a * o
    <2>1. k * b < k * (e * a + a)
      BY <1>1, <1>2, <1>7
    <2>2. a <= e * a
      BY <1>1
    <2>3. k * (e * a + a) <= k * (2 * (e * a))
      BY <1>1, <1>2, <2>2
    <2>4. k * (2 * (e * a)) = 2 * a * (k * e)
      BY <1>1, <1>2
    <2>5. 2 * a * (k * e) <= 2 * a * o
      BY <1>1, <1>2
    <2>6. /\ k * b \in Int /\ k * (e * a + a) \in Int /\ 2 * a * (k * e) \in Int
          /\ 2 * a * o \in Int
      BY <1>1, <1>2
    <2> QED
      BY <2>1, <2>3, <2>4, <2>5, <2>6
  <1> QED
    BY <1>6, <1>7 DEF k, e

LEMMA SharesHold ==
  IInv => SampledShare
  <1> DEFINE a == Scenario[conf].Rate[1]
             b == Scenario[conf].Rate[2]
  <1> SUFFICES ASSUME IInv, a > 0, AtRest, NEW s \in Series
               PROVE  /\ (taken[s] + 1) * b > offered[s] * (IF a > b THEN b ELSE a)
                      /\ taken[s] > 0 => taken[s] * b < 2 * a * offered[s]
    BY DEF SampledShare
  <1>1. /\ a \in Nat \ {0} /\ b \in Nat \ {0} /\ offered[s] \in Nat /\ taken[s] \in Nat
    BY Configured DEF IInv, TypeCore
  <1>2. Cardinality(Observing(s)) = 0
    BY NothingOwed DEF AtRest
  <1>3. every = (IF a >= b THEN 1 ELSE b \div a) /\ every \in Nat \ {0}
    BY DEF IInv, SampleInv, Every, TypeCore
  <1>4. taken[s] = offered[s] \div every
    <2>1. taken[s] + Cardinality(Observing(s)) = offered[s] \div every
      BY DEF IInv, SampleInv
    <2> QED
      BY <1>1, <1>2, <2>1
  <1> DEFINE o == offered[s]
             k == taken[s]
  <1> HIDE DEF a, b, o, k
  <1>5. a \in Nat \ {0} /\ b \in Nat \ {0} /\ o \in Nat /\ k \in Nat
    BY <1>1 DEF o, k
  <1>6. CASE a >= b
    <2>1. k = o
      <3>1. every = 1
        BY <1>3, <1>6
      <3>2. o \div 1 = o
        BY <1>5
      <3> QED
        BY <1>4, <3>1, <3>2 DEF o, k
    <2>2. (IF a > b THEN b ELSE a) = b
      BY <1>5, <1>6
    <2>3. (o + 1) * b > o * b
      BY <1>5
    <2>4. ASSUME o > 0
          PROVE  o * b < 2 * a * o
      <3>1. o * b <= o * a /\ 0 < o * a /\ o * a \in Int /\ o * b \in Int
        BY <1>5, <1>6, <2>4
      <3>2. 2 * a * o = (o * a) + (o * a)
        BY <1>5
      <3> QED
        BY <3>1, <3>2
    <2> QED
      BY <2>1, <2>2, <2>3, <2>4 DEF o, k
  <1>7. CASE ~(a >= b)
    <2>1. a < b /\ (IF a > b THEN b ELSE a) = a
      BY <1>5, <1>7
    <2>2. k = o \div (b \div a)
      BY <1>3, <1>4, <1>7 DEF o, k
    <2>3. (k + 1) * b > o * a /\ (k > 0 => k * b < 2 * a * o)
      BY <1>5, <2>1, <2>2, Share
    <2> QED
      BY <2>1, <2>3 DEF o, k
  <1> QED
    BY <1>6, <1>7

LEMMA LogLinesHold ==
  IInv => LoggedPercentilesOrdered
  <1> SUFFICES ASSUME IInv, todo[Logger] = <<>>, NEW s \in Series
               PROVE  snap[Logger][LastP95[s]] <= snap[Logger][LastP99[s]]
    BY DEF LoggedPercentilesOrdered
  <1>1. \A f : ~Reads(Logger, f)
    BY NoPiece DEF Reads, N
  <1>2. Logged(s, LastP95[s], LastP99[s])
    BY LoggedParts DEF IInv
  <1> QED
    BY <1>1, <1>2 DEF Logged

\* A window is emptied by the logger only, which takes its percentiles.
LEMMA Emptied ==
  ASSUME IInv, Next, NEW s \in Series, window[s] # <<>>, window'[s] = <<>>
  PROVE  IsPercentile(last'[s][1], window[s], P95) /\ IsPercentile(last'[s][2], window[s], P99)
  <1>0. /\ window \in [Series -> Seq(0 .. MaxSample)] /\ \A r \in Series : Len(window[r]) <= Cap
        /\ last \in [Series -> ((0 .. MaxSample) \X (0 .. MaxSample)) \cup {None}]
        /\ TypeCore /\ TodoInv /\ TimeInv
    BY DEF IInv, TypeCore
  <1>1. ASSUME NEW t \in Request, Observe(t)
        PROVE  FALSE
    <2>1. PICK v \in 0 .. MaxSample : window' = [window EXCEPT ![Arg(t)] = Kept(@, v)]
      BY <1>0, <1>1, Observed
    <2>2. Kept(window[s], v) # <<>>
      BY <1>0, KeptFacts
    <2> QED
      BY <1>0, <2>1, <2>2
  <1>2. window' = window \/ Drain \/ \E t \in Request : Observe(t)
    BY DEF Next, Start, Missed, Increment, RecordCount, RecordTotal, CheckEnabled, ShouldSample,
           SetEnabled, Publish, Read
  <1>3. Drain
    BY <1>1, <1>2
  <1>4. At(Logger, "drain")
    BY <1>3 DEF Drain
  <1>5. Arg(Logger) \in Series
    BY <1>0, <1>4, AtReader
  <1>6. s = Arg(Logger)
    BY <1>0, <1>3 DEF Drain
  <1>7. last'[s] = Percentiles(window[s])
    BY <1>0, <1>3, <1>6 DEF Drain
  <1> QED
    BY <1>0, <1>7, PercentileFacts

-----------------------------------------------------------------------------
\* The counters, windows, snapshots and durations have their types; in particular
\* a window of latencyWindow.observe never grows past its capacity, and no sample
\* is taken of a duration that is not there.
THEOREM TypeCorrect == Spec => []TypeOK
  BY Inductive, TypesHold, PTL

\* The counters that stats.go keeps without a lock explain each other, however the
\* requests and the loads they start interleave.
THEOREM CountersConsistent == Spec => []CountersAgree
  BY Inductive, CountersHold, PTL

\* A finished Snapshot misses at most the Gets that were running.
THEOREM SnapshotsCover == Spec => []SnapshotCoversFinished
  BY Inductive, SnapshotsHold, PTL

\* shouldSampleLatency takes the share of the observations that it was asked for.
THEOREM SharesKept == Spec => []SampledShare
  BY Inductive, SharesHold, PTL

\* The two percentiles in a line of the log belong to one another.
THEOREM LogLinesOrdered == Spec => []LoggedPercentilesOrdered
  BY Inductive, LogLinesHold, PTL

\* p95p99AndReset gives the nearest-rank percentiles of the window it empties.
THEOREM PercentilesNearest == Spec => NearestRank
  <1>1. IInv /\ [Next]_vars =>
          [\A s \in Series : window[s] # <<>> /\ window'[s] = <<>> =>
             IsPercentile(last'[s][1], window[s], P95)
               /\ IsPercentile(last'[s][2], window[s], P99)]_vars
    BY Emptied
  <1> QED
    BY <1>1, Inductive, PTL DEF Spec, NearestRank
=============================================================================
