----------------------------- MODULE DemoServer -----------------------------
(***************************************************************************)
(* cmd/cache-server with the demo backend: the processes of a cluster that *)
(* start, stop and start again, the keys that each start writes to Redis,  *)
(* and the getter and the incrementer with which a process reads and       *)
(* writes the same keys.  Redis keeps its data; a command on it may fail,  *)
(* before or after it took effect.  Which process serves a key, and what   *)
(* it keeps in its cache, is left to Cluster and Group.                    *)
(***************************************************************************)
EXTENDS Integers

CONSTANTS Node,      \* processes
          Request,   \* calls of the getter and of the incrementer
          Key,
          Seeds,     \* the keys that a start writes, key0 .. key100 in the code
          Db,        \* the keys of the built-in map: Tom, Jack and Sam
          Built,     \* Built[k]: the number that the code has for k
          Faults,    \* what may happen: "stop", "fail", "nil"
          MaxNumber, \* bound on the numbers
          None

VARIABLES redis,     \* redis[k]: a number, or None
          phase,     \* phase[n]: "down", "seed" or "up"
          toSeed,    \* toSeed[n]: what the pipeline of n has still to set
          pc, at, key,   \* where request p is, in which process, for which key
          told       \* told[k]: the largest number an Increment has returned

vars == <<redis, phase, toSeed, pc, at, key, told>>

\* The types of the variables.
TypeOK ==
  /\ redis \in [Key -> 0 .. MaxNumber \cup {None}]
  /\ phase \in [Node -> {"down", "seed", "up"}]
  /\ toSeed \in [Node -> SUBSET Seeds]
  /\ pc \in [Request -> {"idle", "get", "set", "incr"}]
  /\ at \in [Request -> Node \cup {None}] /\ key \in [Request -> Key \cup {None}]
  /\ told \in [Key -> 0 .. MaxNumber]

\* Nothing runs.  Redis holds the numbers that earlier starts have left, or none.
Init ==
  /\ redis \in {[k \in Key |-> Built[k]]} \cup
               (IF "nil" \in Faults THEN {[k \in Key |-> None]} ELSE {})
  /\ phase = [n \in Node |-> "down"]
  /\ toSeed = [n \in Node |-> {}]
  /\ pc = [p \in Request |-> "idle"]
  /\ at = [p \in Request |-> None] /\ key = [p \in Request |-> None]
  /\ told = [k \in Key |-> 0]

Fails == "fail" \in Faults
Number(v) == IF v = None THEN 0 ELSE v
Returns(p) == /\ pc' = [pc EXCEPT ![p] = "idle"]
              /\ at' = [at EXCEPT ![p] = None]
              /\ key' = [key EXCEPT ![p] = None]

-----------------------------------------------------------------------------
\* main, seedRedisNumericKeys: a ping, then a pipeline of SETs.
StartServer(n) ==
  /\ phase[n] = "down"
  /\ \/ /\ phase' = [phase EXCEPT ![n] = "seed"]
        /\ toSeed' = [toSeed EXCEPT ![n] = Seeds]
     \/ /\ Fails                               \* the ping fails: skip the seed
        /\ phase' = [phase EXCEPT ![n] = "up"]
        /\ UNCHANGED toSeed
  /\ UNCHANGED <<redis, pc, at, key, told>>

\* Redis executes one SET of the pipeline.
SeedSet(n, k) ==
  /\ k \in toSeed[n]
  /\ redis' = [redis EXCEPT ![k] = Built[k]]
  /\ toSeed' = [toSeed EXCEPT ![n] = @ \ {k}]
  /\ UNCHANGED <<phase, pc, at, key, told>>

\* The pipeline has ended, or has failed on the way: the group is created.
Seeded(n) ==
  /\ phase[n] = "seed" /\ (toSeed[n] = {} \/ Fails)
  /\ phase' = [phase EXCEPT ![n] = "up"]
  /\ toSeed' = [toSeed EXCEPT ![n] = {}]
  /\ UNCHANGED <<redis, pc, at, key, told>>

\* A process ends and takes its requests with it.
Stop(n) ==
  /\ "stop" \in Faults /\ phase[n] # "down"
  /\ phase' = [phase EXCEPT ![n] = "down"]
  /\ toSeed' = [toSeed EXCEPT ![n] = {}]
  /\ pc' = [p \in Request |-> IF at[p] = n THEN "idle" ELSE pc[p]]
  /\ at' = [p \in Request |-> IF at[p] = n THEN None ELSE at[p]]
  /\ key' = [p \in Request |-> IF at[p] = n THEN None ELSE key[p]]
  /\ UNCHANGED <<redis, told>>

\* A load calls the getter, an Increment the incrementer.
Call(p, n, k) ==
  /\ pc[p] = "idle" /\ phase[n] = "up"
  /\ \E s \in {"get", "incr"} : pc' = [pc EXCEPT ![p] = s]
  /\ at' = [at EXCEPT ![p] = n] /\ key' = [key EXCEPT ![p] = k]
  /\ UNCHANGED <<redis, phase, toSeed, told>>

\* getDemoValue: GET finds a value; or nothing, or an error, and the built-in
\* map is asked instead.
DemoGet(p) ==
  /\ pc[p] = "get"
  /\ \/ redis[key[p]] # None /\ Returns(p)
     \/ (redis[key[p]] = None \/ Fails) /\ key[p] \notin Db /\ Returns(p)
     \/ /\ redis[key[p]] = None \/ Fails
        /\ key[p] \in Db
        /\ pc' = [pc EXCEPT ![p] = "set"] /\ UNCHANGED <<at, key>>
  /\ UNCHANGED <<redis, phase, toSeed, told>>

\* getDemoValue: the number of the map is written back, with or without success.
DemoSet(p) ==
  /\ pc[p] = "set"
  /\ \/ redis' = [redis EXCEPT ![key[p]] = Built[key[p]]]
     \/ Fails /\ UNCHANGED redis
  /\ Returns(p)
  /\ UNCHANGED <<phase, toSeed, told>>

\* newRedisIncrementer: INCRBY, which counts from 0 if there is no value.  An
\* increment that times out may have been applied.
RedisIncr(p) ==
  LET k == key[p]
      v == Number(redis[k]) + 1
  IN /\ pc[p] = "incr" /\ v <= MaxNumber
     /\ \/ /\ redis' = [redis EXCEPT ![k] = v]
           /\ told' = [told EXCEPT ![k] = IF v > @ THEN v ELSE @]
        \/ Fails /\ redis' = [redis EXCEPT ![k] = v] /\ UNCHANGED told
        \/ Fails /\ UNCHANGED <<redis, told>>
     /\ Returns(p)
     /\ UNCHANGED <<phase, toSeed>>

Next ==
  \/ \E n \in Node : StartServer(n) \/ Seeded(n) \/ Stop(n)
                     \/ \E k \in Key : SeedSet(n, k)
  \/ \E p \in Request : DemoGet(p) \/ DemoSet(p) \/ RedisIncr(p)
                        \/ \E n \in Node, k \in Key : Call(p, n, k)

Spec == Init /\ [][Next]_vars

\* WithIncrementer: "installs a durable increment backend".  A number that an
\* Increment has returned is not taken back: Redis never holds less afterwards.
IncrementsSurvive == \A k \in Key : told[k] <= Number(redis[k])
=============================================================================
