------------------------- MODULE SingleflightProofs -------------------------
(***************************************************************************)
(* Proofs about Singleflight, for every set of requests, keys, calls and   *)
(* values: its types, coalescing (OneFlight), that no request is lost      *)
(* (NoLostCaller), and that it implements SharedLoad.                      *)
(*                                                                         *)
(* None of the invariants is inductive by itself.  MapInv says that the    *)
(* map and the states of the calls agree, which is what makes the delete   *)
(* of completeCall remove its own entry and no other; RefInv says what a   *)
(* request may rely on about the call it refers to; ChanInv says that the  *)
(* list of a call holds exactly the channels that still wait to be sent.   *)
(***************************************************************************)
EXTENDS Singleflight, TLAPS

\* The map and the calls agree on which call is registered for which key.
MapInv ==
  /\ \A c \in Call : Registered(c) => ckey[c] \in Key /\ m[ckey[c]] = c
  /\ \A k \in Key : m[k] # None => Registered(m[k]) /\ ckey[m[k]] = k

\* A request in progress refers to a call of its key, whose result is set
\* once the function has ended.
RefInv ==
  \A p \in Caller :
    /\ pc[p] = "idle" => ref[p] = None
    /\ Waiting(p) => /\ ref[p] \in Call
                     /\ arg[p] \in Key
                     /\ ckey[ref[p]] = arg[p]
    /\ pc[p] \in {"idle", "lead", "waitWG"} => ch[p] = None

ResInv ==
  \A c \in Call :
    \/ st[c] \in {"running", "wedged"} /\ res[c] = None
    \/ res[c] \in Result
    \/ Fresh(c)

\* The list of a call holds the channels it still has to write to.
ChanInv ==
  /\ \A c \in Call : \A p \in chs[c] :
       /\ pc[p] \in {"waitCh", "left"}
       /\ ref[p] = c
       /\ ch[p] = None
       /\ st[c] # "dead"
  /\ \A p \in Caller :
       pc[p] = "waitCh" /\ p \notin chs[ref[p]] =>
         /\ ch[p] \in Result
         /\ ch[p] = res[ref[p]]
         /\ st[ref[p]] \in {"delivering", "dead"}

IInv == TypeOK /\ MapInv /\ RefInv /\ ResInv /\ ChanInv

\* The empty Group (its zero value) satisfies the inductive invariant.
LEMMA InitIInv == Init => IInv
  BY NoneAssumption DEF Init, IInv, TypeOK, MapInv, RefInv, ResInv, ChanInv,
     Registered, Waiting, Fresh, CallState, CallerState, Result

\* Do finding a call for its key preserves the inductive invariant.
LEMMA DoJoinIInv ==
  ASSUME IInv, NEW p \in Caller, NEW k \in Key, DoJoin(p, k)
  PROVE  IInv'
  <1> USE NoneAssumption DEF IInv, DoJoin, Enter, callVars
  <1>1. TypeOK'  BY DEF TypeOK, CallerState
  <1>2. MapInv'  BY DEF TypeOK, MapInv, Registered
  <1>3. RefInv'  BY DEF TypeOK, MapInv, RefInv, Registered, Waiting
  <1>4. ResInv'  BY DEF TypeOK, MapInv, ResInv, Registered, Fresh
  <1>5. ChanInv' BY DEF TypeOK, ChanInv
  <1> QED BY <1>1, <1>2, <1>3, <1>4, <1>5

\* DoChan adding its channel to a registered call preserves it: the call has
\* not copied its channels yet, because it is still in the map.
LEMMA DoChanJoinIInv ==
  ASSUME IInv, NEW p \in Caller, NEW k \in Key, DoChanJoin(p, k)
  PROVE  IInv'
  <1> USE NoneAssumption DEF IInv, DoChanJoin, Enter
  <1>1. TypeOK'  BY DEF TypeOK, CallerState
  <1>2. MapInv'  BY DEF TypeOK, MapInv, Registered
  <1>3. RefInv'  BY DEF TypeOK, MapInv, RefInv, Registered, Waiting
  <1>4. ResInv'  BY DEF TypeOK, MapInv, ResInv, Registered, Fresh
  <1>5. ChanInv' BY DEF TypeOK, MapInv, RefInv, ChanInv, Registered
  <1> QED BY <1>1, <1>2, <1>3, <1>4, <1>5

\* Do registering a new call preserves it: the key was not in the map.
LEMMA DoLeadIInv ==
  ASSUME IInv, NEW p \in Caller, NEW k \in Key, NEW c \in Call, DoLead(p, k, c)
  PROVE  IInv'
  <1> USE NoneAssumption DEF IInv, DoLead, NewCall, Enter, Fresh
  <1>1. TypeOK'  BY DEF TypeOK, CallState, CallerState
  <1>2. MapInv'  BY DEF TypeOK, MapInv, Registered
  <1>3. RefInv'  BY DEF TypeOK, RefInv, Waiting
  <1>4. ResInv'  BY DEF TypeOK, ResInv
  <1>5. ChanInv' BY DEF TypeOK, RefInv, ChanInv, Waiting
  <1> QED BY <1>1, <1>2, <1>3, <1>4, <1>5

\* DoChan registering a new call with its own channel preserves it.
LEMMA DoChanLeadIInv ==
  ASSUME IInv, NEW p \in Caller, NEW k \in Key, NEW c \in Call,
         DoChanLead(p, k, c)
  PROVE  IInv'
  <1> USE NoneAssumption DEF IInv, DoChanLead, NewCall, Enter, Fresh
  <1>1. TypeOK'  BY DEF TypeOK, CallState, CallerState
  <1>2. MapInv'  BY DEF TypeOK, MapInv, Registered
  <1>3. RefInv'  BY DEF TypeOK, RefInv, Waiting
  <1>4. ResInv'  BY DEF TypeOK, ResInv
  <1>5. ChanInv' BY DEF TypeOK, RefInv, ChanInv, Waiting
  <1> QED BY <1>1, <1>2, <1>3, <1>4, <1>5

\* A result stored by completeCall, after the function returned or after
\* safeCall recovered from its panic, preserves it.
LEMMA PublishIInv ==
  ASSUME IInv, NEW c \in Call, NEW r \in Result, st[c] = "running",
         Publish(c, r), UNCHANGED <<m, ckey, chs, pc, arg, ref, ch, got>>
  PROVE  IInv'
  <1> USE NoneAssumption DEF IInv, Publish
  <1>1. TypeOK'  BY DEF TypeOK, CallState
  <1>2. MapInv'  BY DEF TypeOK, MapInv, Registered
  <1>3. RefInv'  BY DEF TypeOK, RefInv, Waiting
  <1>4. ResInv'  BY DEF TypeOK, ResInv, Fresh
  <1>5. ChanInv' BY DEF TypeOK, RefInv, ChanInv, Waiting
  <1> QED BY <1>1, <1>2, <1>3, <1>4, <1>5

\* A panic that unwinds out of Do preserves it: the call stays in the map.
LEMMA FnPanicUnwindsIInv ==
  ASSUME IInv, NEW p \in Caller, FnPanicUnwinds(p)
  PROVE  IInv'
  <1> USE NoneAssumption DEF IInv, FnPanicUnwinds
  <1>0. ref[p] \in Call  BY DEF RefInv, Waiting
  <1>1. TypeOK'  BY <1>0 DEF TypeOK, CallState, CallerState
  <1>2. MapInv'  BY <1>0 DEF TypeOK, MapInv, Registered
  <1>3. RefInv'  BY <1>0 DEF TypeOK, RefInv, Waiting
  <1>4. ResInv'  BY <1>0 DEF TypeOK, ResInv, Fresh
  <1>5. ChanInv' BY <1>0 DEF TypeOK, RefInv, ChanInv, Waiting
  <1> QED BY <1>1, <1>2, <1>3, <1>4, <1>5

\* The delete of completeCall removes the entry of its own call, no other.
LEMMA DeleteIInv ==
  ASSUME IInv, NEW c \in Call, Delete(c)
  PROVE  IInv'
  <1> USE NoneAssumption DEF IInv, Delete
  <1>1. TypeOK'  BY DEF TypeOK, CallState
  <1>2. MapInv'  BY DEF TypeOK, MapInv, Registered
  <1>3. RefInv'  BY DEF TypeOK, RefInv, Waiting
  <1>4. ResInv'  BY DEF TypeOK, ResInv, Fresh
  <1>5. ChanInv' BY DEF TypeOK, RefInv, ChanInv, Waiting
  <1> QED BY <1>1, <1>2, <1>3, <1>4, <1>5

\* One send of completeCall moves a request from the list to its buffer.
LEMMA SendIInv ==
  ASSUME IInv, NEW c \in Call, NEW p \in Caller, Send(c, p)
  PROVE  IInv'
  <1> USE NoneAssumption DEF IInv, Send
  <1>0. res[c] \in Result  BY DEF ResInv, Fresh
  <1>1. TypeOK'  BY <1>0 DEF TypeOK
  <1>2. MapInv'  BY DEF TypeOK, MapInv, Registered
  <1>3. RefInv'  BY DEF TypeOK, RefInv, ChanInv, Waiting
  <1>4. ResInv'  BY DEF TypeOK, ResInv, Fresh
  <1>5. ChanInv' BY <1>0 DEF TypeOK, ChanInv
  <1> QED BY <1>1, <1>2, <1>3, <1>4, <1>5

\* completeCall returning preserves it: no channel is left to write.
LEMMA EndCallIInv ==
  ASSUME IInv, NEW c \in Call, EndCall(c)
  PROVE  IInv'
  <1> USE NoneAssumption DEF IInv, EndCall
  <1>1. TypeOK'  BY DEF TypeOK, CallState
  <1>2. MapInv'  BY DEF TypeOK, MapInv, Registered
  <1>3. RefInv'  BY DEF TypeOK, RefInv, Waiting
  <1>4. ResInv'  BY DEF TypeOK, ResInv, Fresh
  <1>5. ChanInv' BY DEF TypeOK, RefInv, ChanInv, Waiting
  <1> QED BY <1>1, <1>2, <1>3, <1>4, <1>5

\* A request that returns a result, and whose channel is in no list,
\* preserves it.
LEMMA ReturnsIInv ==
  ASSUME IInv, NEW p \in Caller, Waiting(p), NEW r \in Result, Returns(p, r),
         \A c \in Call : p \notin chs[c]
  PROVE  IInv'
  <1> USE NoneAssumption DEF IInv, Returns, callVars
  <1>1. TypeOK'  BY DEF TypeOK, CallerState
  <1>2. MapInv'  BY DEF TypeOK, MapInv, Registered
  <1>3. RefInv'  BY DEF TypeOK, RefInv, Waiting
  <1>4. ResInv'  BY DEF TypeOK, ResInv, Fresh
  <1>5. ChanInv' BY DEF TypeOK, RefInv, ChanInv, Waiting
  <1> QED BY <1>1, <1>2, <1>3, <1>4, <1>5

\* wg.Wait returning, and the leader of Do returning, preserve it: the result
\* of the call is set by then.
LEMMA WaitReturnsIInv ==
  ASSUME IInv, NEW p \in Caller, WaitReturns(p) \/ LeadReturns(p)
  PROVE  IInv'
  <1>1. Waiting(p) /\ ref[p] \in Call
    BY DEF IInv, RefInv, Waiting, WaitReturns, LeadReturns
  <1>2. res[ref[p]] \in Result
    BY <1>1 DEF IInv, ResInv, Fresh, WaitReturns, LeadReturns
  <1>3. \A c \in Call : p \notin chs[c]
    BY DEF IInv, ChanInv, WaitReturns, LeadReturns
  <1> QED BY <1>1, <1>2, <1>3, ReturnsIInv DEF WaitReturns, LeadReturns

\* A receive preserves it: a channel with a result is in no list any more.
LEMMA ReceiveIInv ==
  ASSUME IInv, NEW p \in Caller, Receive(p)
  PROVE  IInv'
  <1>1. Waiting(p) /\ ch[p] \in Result
    BY DEF IInv, TypeOK, Waiting, Receive
  <1>2. \A c \in Call : p \notin chs[c]
    BY DEF IInv, ChanInv, Receive
  <1> QED BY <1>1, <1>2, ReturnsIInv DEF Receive

\* A request that gives up stays in the list of its call, which will still
\* write to its buffer.
LEMMA LeaveIInv ==
  ASSUME IInv, NEW p \in Caller, Leave(p)
  PROVE  IInv'
  <1> USE NoneAssumption DEF IInv, Leave, callVars
  <1>1. TypeOK'  BY DEF TypeOK, CallerState
  <1>2. MapInv'  BY DEF TypeOK, MapInv, Registered
  <1>3. RefInv'  BY DEF TypeOK, RefInv, Waiting
  <1>4. ResInv'  BY DEF TypeOK, ResInv, Fresh
  <1>5. ChanInv' BY DEF TypeOK, RefInv, ChanInv, Waiting
  <1> QED BY <1>1, <1>2, <1>3, <1>4, <1>5

\* Forgetting a request that is over preserves it.
LEMMA RecycleIInv ==
  ASSUME IInv, NEW p \in Caller, Recycle(p)
  PROVE  IInv'
  <1> USE NoneAssumption DEF IInv, Recycle, callVars
  <1>1. TypeOK'  BY DEF TypeOK, CallerState
  <1>2. MapInv'  BY DEF TypeOK, MapInv, Registered
  <1>3. RefInv'  BY DEF TypeOK, RefInv, Waiting
  <1>4. ResInv'  BY DEF TypeOK, ResInv, Fresh
  <1>5. ChanInv' BY DEF TypeOK, RefInv, ChanInv, Waiting
  <1> QED BY <1>1, <1>2, <1>3, <1>4, <1>5

-----------------------------------------------------------------------------
\* Every step of Group.Do, Group.DoChan and completeCall preserves the
\* inductive invariant.
LEMMA NextIInv == IInv /\ [Next]_vars => IInv'
  <1> SUFFICES ASSUME IInv, [Next]_vars  PROVE IInv'
    OBVIOUS
  <1>1. CASE UNCHANGED vars
    BY <1>1 DEF vars, IInv, TypeOK, MapInv, RefInv, ResInv, ChanInv,
       Registered, Waiting, Fresh
  <1>2. ASSUME NEW p \in Caller, NEW k \in Key,
               \/ DoJoin(p, k)
               \/ DoChanJoin(p, k)
               \/ \E c \in Call : DoLead(p, k, c) \/ DoChanLead(p, k, c)
        PROVE  IInv'
    BY <1>2, DoJoinIInv, DoChanJoinIInv, DoLeadIInv, DoChanLeadIInv
  <1>3. ASSUME NEW c \in Call, NEW r \in Value, FnReturn(c, r)
        PROVE  IInv'
    BY <1>3, PublishIInv DEF FnReturn, Result
  <1>4. ASSUME NEW c \in Call, FnPanicRecovered(c)
        PROVE  IInv'
    BY <1>4, PublishIInv DEF FnPanicRecovered, Result
  <1>5. ASSUME NEW c \in Call,
               \/ Delete(c)
               \/ \E p \in Caller : Send(c, p)
               \/ EndCall(c)
        PROVE  IInv'
    BY <1>5, DeleteIInv, SendIInv, EndCallIInv
  <1>6. ASSUME NEW p \in Caller,
               \/ FnPanicUnwinds(p)
               \/ WaitReturns(p)
               \/ LeadReturns(p)
               \/ Receive(p)
               \/ Leave(p)
               \/ Recycle(p)
        PROVE  IInv'
    BY <1>6, FnPanicUnwindsIInv, WaitReturnsIInv, ReceiveIInv, LeaveIInv,
       RecycleIInv
  <1> QED BY <1>1, <1>2, <1>3, <1>4, <1>5, <1>6 DEF Next

\* The inductive invariant holds in every reachable state of the Group.
LEMMA Inductive == Spec => []IInv
  BY InitIInv, NextIInv, PTL DEF Spec

\* Type correctness: every variable keeps its type, and a request returns from
\* Do or DoChan only with a result that some execution produced.
THEOREM TypeCorrect == Spec => []TypeOK
  <1>1. IInv => TypeOK  BY DEF IInv
  <1> QED BY <1>1, Inductive, PTL

\* Coalescing: however many requests, keys and calls there are, no two calls of
\* one key are registered at the same time, including the window between the
\* wg.Done and the delete of completeCall.
THEOREM Coalescing == Spec => []OneFlight
  <1>1. IInv => OneFlight  BY DEF IInv, MapInv, OneFlight
  <1> QED BY <1>1, Inductive, PTL

\* No lost caller: a request waiting on its DoChan channel has its result in the
\* buffer, or is in the list of a completeCall that has still to send it.
THEOREM NoCallerLost == Spec => []NoLostCaller
  <1>1. IInv => NoLostCaller
    BY NoneAssumption DEF IInv, TypeOK, RefInv, ChanInv, NoLostCaller, Waiting,
       Result
  <1> QED BY <1>1, Inductive, PTL

-----------------------------------------------------------------------------
(***************************************************************************)
(* Refinement.  A new call is a Start, a request that finds a call a Join; *)
(* storing a result is the Finish, the delete the Retire.  The sends and   *)
(* the end of completeCall are invisible: whoever waits was answered when  *)
(* the result was stored.                                                  *)
(***************************************************************************)
\* The empty Group maps to the initial state of SharedLoad.
LEMMA RefineInit == Init => Shared!Init
  BY NoneAssumption DEF Init, Shared!Init, flightOf, answerOf, replyOf, Waiting

\* A request that registers a call, in Do or in DoChan, starts an execution.
LEMMA RefineLead ==
  ASSUME IInv, NEW p \in Caller, NEW k \in Key, NEW c \in Call,
         DoLead(p, k, c) \/ DoChanLead(p, k, c)
  PROVE  Shared!Start(p, k)
  <1> USE NoneAssumption DEF DoLead, DoChanLead, NewCall, Enter, Fresh, Waiting
  <1> USE DEF IInv, TypeOK
  <1>1. ~Waiting(p) /\ flightOf(k) = "none"
    BY DEF flightOf
  <1>2. [j \in Key |-> flightOf(j)]' =
          [[j \in Key |-> flightOf(j)] EXCEPT ![k] = "running"]
    <2>1. flightOf(k)' = "running"
      BY DEF flightOf
    <2>2. ASSUME NEW j \in Key, j # k  PROVE flightOf(j)' = flightOf(j)
      <3>1. m'[j] = m[j] /\ m[j] # c
        BY <2>2 DEF MapInv, Registered
      <3>2. m[j] # None => st'[m[j]] = st[m[j]]
        BY <3>1
      <3> QED BY <3>1, <3>2 DEF flightOf
    <2> QED BY <2>1, <2>2
  <1>3. [j \in Key |-> answerOf(j)]' = [j \in Key |-> answerOf(j)]
    BY DEF answerOf, flightOf, MapInv, Registered
  <1>4. [q \in Caller |-> IF Waiting(q) THEN arg[q] ELSE None]' =
          [[q \in Caller |-> IF Waiting(q) THEN arg[q] ELSE None]
             EXCEPT ![p] = k]
    OBVIOUS
  <1>5. [q \in Caller |-> replyOf(q)]' = [q \in Caller |-> replyOf(q)]
    BY DEF replyOf, RefInv
  <1> QED BY <1>1, <1>2, <1>3, <1>4, <1>5 DEF Shared!Start

\* A request that finds a registered call shares its execution, also when that
\* execution has finished and completeCall has not deleted the key yet.
LEMMA RefineJoin ==
  ASSUME IInv, NEW p \in Caller, NEW k \in Key,
         DoJoin(p, k) \/ DoChanJoin(p, k)
  PROVE  Shared!Join(p, k)
  <1> USE NoneAssumption DEF DoJoin, DoChanJoin, Enter, Waiting, callVars
  <1> USE DEF IInv, TypeOK
  <1>1. ~Waiting(p) /\ flightOf(k) # "none"
    BY DEF flightOf
  <1>2. \A j \in Key : flightOf(j)' = flightOf(j) /\ answerOf(j)' = answerOf(j)
    BY DEF flightOf, answerOf
  <1>3. [q \in Caller |-> IF Waiting(q) THEN arg[q] ELSE None]' =
          [[q \in Caller |-> IF Waiting(q) THEN arg[q] ELSE None]
             EXCEPT ![p] = k]
    OBVIOUS
  <1>4. replyOf(p)' = answerOf(k)
    <2>1. Registered(m[k])  BY DEF MapInv
    <2>2. ch'[p] = None     BY DEF RefInv
    <2>3. Waiting(p)' /\ ref'[p] = m[k]
      OBVIOUS
    <2> QED BY <2>1, <2>2, <2>3 DEF replyOf, answerOf, flightOf, Registered
  <1>5. \A q \in Caller \ {p} : replyOf(q)' = replyOf(q)
    BY DEF replyOf
  <1>6. [q \in Caller |-> replyOf(q)]' =
          [[q \in Caller |-> replyOf(q)] EXCEPT ![p] = answerOf(k)]
    BY <1>4, <1>5
  <1>7. UNCHANGED <<[j \in Key |-> flightOf(j)], [j \in Key |-> answerOf(j)]>>
    BY <1>2
  <1>8. UNCHANGED got
    OBVIOUS
  <1> HIDE DEF Waiting, DoJoin, DoChanJoin, IInv
  <1> QED BY <1>1, <1>3, <1>6, <1>7, <1>8 DEF Shared!Join

\* Storing a result finishes the execution of the call's key and answers
\* exactly the requests that wait for it and have no answer yet.
LEMMA RefinePublish ==
  ASSUME IInv, NEW c \in Call, NEW r \in Result, st[c] = "running",
         Publish(c, r), UNCHANGED <<m, ckey, chs, pc, arg, ref, ch, got>>
  PROVE  Shared!Finish(ckey[c], r)
  <1> DEFINE k == ckey[c]
  <1> USE NoneAssumption DEF Publish, Waiting, IInv, TypeOK
  <1>1. k \in Key /\ m[k] = c
    BY DEF MapInv, Registered
  <1>2. flightOf(k) = "running" /\ flightOf(k)' = "finished" /\ answerOf(k)' = r
    BY <1>1 DEF flightOf, answerOf
  <1>3. ASSUME NEW j \in Key, j # k
        PROVE  flightOf(j)' = flightOf(j) /\ answerOf(j)' = answerOf(j)
    <2>1. m[j] # c  BY <1>3 DEF MapInv
    <2> QED BY <2>1 DEF flightOf, answerOf
  <1>4. ASSUME NEW q \in Caller
        PROVE  replyOf(q)' =
                 IF (IF Waiting(q) THEN arg[q] ELSE None) = k
                    /\ replyOf(q) = None
                 THEN r ELSE replyOf(q)
    <2>1. CASE ~Waiting(q)  BY <1>1, <2>1 DEF replyOf
    <2>2. CASE Waiting(q) /\ ref[q] = c
      <3>1. ch[q] = None /\ arg[q] = k
        BY <2>2 DEF RefInv, ChanInv
      <3> QED BY <2>2, <3>1 DEF replyOf
    <2>3. CASE Waiting(q) /\ ref[q] # c
      <3>1. replyOf(q)' = replyOf(q)
        BY <2>3 DEF replyOf, RefInv
      <3>2. arg[q] = k => replyOf(q) # None
        <4> SUFFICES ASSUME arg[q] = k  PROVE replyOf(q) # None
          OBVIOUS
        <4>1. ref[q] \in Call /\ ckey[ref[q]] = k
          BY <2>3 DEF RefInv
        <4>2. ~Registered(ref[q])
          BY <1>1, <2>3, <4>1 DEF MapInv
        <4>3. res[ref[q]] \in Result
          BY <4>1, <4>2 DEF ResInv, Registered, Fresh
        <4> QED BY <2>3, <4>2, <4>3 DEF replyOf, Registered, Result
      <3> QED BY <2>3, <3>1, <3>2
    <2> QED BY <2>1, <2>2, <2>3
  <1> QED BY <1>1, <1>2, <1>3, <1>4 DEF Shared!Finish

\* The delete of completeCall forgets the execution of its key.
LEMMA RefineDelete ==
  ASSUME IInv, NEW c \in Call, Delete(c)
  PROVE  Shared!Retire(ckey[c])
  <1> DEFINE k == ckey[c]
  <1> USE NoneAssumption DEF Delete, Waiting, IInv, TypeOK
  <1>1. k \in Key /\ m[k] = c
    BY DEF MapInv, Registered
  <1>2. flightOf(k) = "finished" /\ flightOf(k)' = "none" /\ answerOf(k)' = None
    BY <1>1 DEF flightOf, answerOf
  <1>3. ASSUME NEW j \in Key, j # k
        PROVE  flightOf(j)' = flightOf(j) /\ answerOf(j)' = answerOf(j)
    <2>1. m[j] # c  BY <1>3 DEF MapInv
    <2> QED BY <2>1, <1>3, <1>1 DEF flightOf, answerOf
  <1>4. \A q \in Caller : replyOf(q)' = replyOf(q)
    BY DEF replyOf, RefInv
  <1> QED BY <1>1, <1>2, <1>3, <1>4 DEF Shared!Retire

\* A send of completeCall is invisible: it hands over an answer that the
\* request has had since the result was stored.
LEMMA RefineSend ==
  ASSUME IInv, NEW c \in Call, NEW p \in Caller, Send(c, p)
  PROVE  UNCHANGED Shared!vars
  <1> USE NoneAssumption DEF Send, Waiting, IInv, TypeOK
  <1>1. \A j \in Key : flightOf(j)' = flightOf(j) /\ answerOf(j)' = answerOf(j)
    BY DEF flightOf, answerOf
  <1>2. ref[p] = c /\ res[c] \in Result
    BY DEF ChanInv, ResInv, Fresh
  <1>3. \A q \in Caller : replyOf(q)' = replyOf(q)
    BY <1>2 DEF replyOf, Result
  <1> QED BY <1>1, <1>3 DEF Shared!vars

\* The end of completeCall is invisible.
LEMMA RefineEndCall ==
  ASSUME IInv, NEW c \in Call, EndCall(c)
  PROVE  UNCHANGED Shared!vars
  <1> USE NoneAssumption DEF EndCall, Waiting, IInv, TypeOK
  <1>1. \A j \in Key : m[j] # c
    BY DEF MapInv, Registered
  <1>2. \A j \in Key : flightOf(j)' = flightOf(j) /\ answerOf(j)' = answerOf(j)
    BY <1>1 DEF flightOf, answerOf
  <1>3. \A q \in Caller : replyOf(q)' = replyOf(q)
    BY DEF replyOf, RefInv
  <1> QED BY <1>2, <1>3 DEF Shared!vars

\* A request that returns from wg.Wait, from leading a Do or from its channel
\* returns the answer it was given.
LEMMA RefineReturn ==
  ASSUME IInv, NEW p \in Caller,
         WaitReturns(p) \/ LeadReturns(p) \/ Receive(p)
  PROVE  Shared!Return(p)
  <1> USE NoneAssumption DEF Waiting, IInv, TypeOK, callVars
  <1> USE DEF WaitReturns, LeadReturns, Receive, Returns
  <1>1. Waiting(p) /\ arg[p] \in Key /\ ref[p] \in Call
    BY DEF RefInv
  <1>2. replyOf(p) \in Result /\ got' = [got EXCEPT ![p] = replyOf(p)]
    BY <1>1 DEF replyOf, RefInv, ResInv, Fresh, Result
  <1>3. \A j \in Key : flightOf(j)' = flightOf(j) /\ answerOf(j)' = answerOf(j)
    BY DEF flightOf, answerOf
  <1>4. ~Waiting(p)' /\ replyOf(p)' = None
    BY DEF replyOf
  <1>5. \A q \in Caller \ {p} : /\ replyOf(q)' = replyOf(q)
                               /\ Waiting(q)' = Waiting(q)
                               /\ arg'[q] = arg[q]
    BY DEF replyOf
  <1> HIDE DEF WaitReturns, LeadReturns, Receive, Returns, Waiting, IInv, TypeOK
  <1>6. [q \in Caller |-> IF Waiting(q) THEN arg[q] ELSE None]' =
          [[q \in Caller |-> IF Waiting(q) THEN arg[q] ELSE None]
             EXCEPT ![p] = None]
    BY <1>4, <1>5
  <1>7. [q \in Caller |-> replyOf(q)]' =
          [[q \in Caller |-> replyOf(q)] EXCEPT ![p] = None]
    BY <1>4, <1>5
  <1>8. UNCHANGED <<[j \in Key |-> flightOf(j)], [j \in Key |-> answerOf(j)]>>
    BY <1>3
  <1> QED BY <1>1, <1>2, <1>6, <1>7, <1>8 DEF Shared!Return, Result

\* A request that gives up on its channel, or unwinds with the panic of the
\* function, abandons its wait.  The execution it started still counts as
\* running: nothing will ever finish it.
LEMMA RefineAbandon ==
  ASSUME IInv, NEW p \in Caller, Leave(p) \/ FnPanicUnwinds(p)
  PROVE  Shared!Abandon(p)
  <1> USE NoneAssumption DEF Waiting, IInv, TypeOK, callVars
  <1> USE DEF Leave, FnPanicUnwinds
  <1>1. Waiting(p) /\ arg[p] \in Key /\ ref[p] \in Call
    BY DEF RefInv
  <1>2. \A j \in Key : flightOf(j)' = flightOf(j) /\ answerOf(j)' = answerOf(j)
    BY <1>1 DEF flightOf, answerOf
  <1>3. ~Waiting(p)' /\ replyOf(p)' = None
    BY DEF replyOf
  <1>4. \A q \in Caller \ {p} : /\ replyOf(q)' = replyOf(q)
                               /\ Waiting(q)' = Waiting(q)
                               /\ arg'[q] = arg[q]
    BY <1>1 DEF replyOf, RefInv
  <1>5. UNCHANGED got
    OBVIOUS
  <1> HIDE DEF Leave, FnPanicUnwinds, Waiting, IInv, TypeOK
  <1>6. [q \in Caller |-> IF Waiting(q) THEN arg[q] ELSE None]' =
          [[q \in Caller |-> IF Waiting(q) THEN arg[q] ELSE None]
             EXCEPT ![p] = None]
    BY <1>3, <1>4
  <1>7. [q \in Caller |-> replyOf(q)]' =
          [[q \in Caller |-> replyOf(q)] EXCEPT ![p] = None]
    BY <1>3, <1>4
  <1>8. UNCHANGED <<[j \in Key |-> flightOf(j)], [j \in Key |-> answerOf(j)]>>
    BY <1>2
  <1> QED BY <1>1, <1>5, <1>6, <1>7, <1>8 DEF Shared!Abandon

\* A request whose identity is reused has had its result consumed.
LEMMA RefineRecycle ==
  ASSUME IInv, NEW p \in Caller, Recycle(p)
  PROVE  Shared!Consume(p)
  <1> USE NoneAssumption DEF Waiting, IInv, TypeOK, callVars, Recycle
  <1>1. ~Waiting(p) /\ ~Waiting(p)' /\ got' = [got EXCEPT ![p] = None]
    OBVIOUS
  <1>2. \A j \in Key : flightOf(j)' = flightOf(j) /\ answerOf(j)' = answerOf(j)
    BY DEF flightOf, answerOf
  <1>3. replyOf(p) = None /\ replyOf(p)' = None
    BY DEF replyOf
  <1>4. \A q \in Caller \ {p} : /\ replyOf(q)' = replyOf(q)
                               /\ Waiting(q)' = Waiting(q)
                               /\ arg'[q] = arg[q]
    BY DEF replyOf
  <1> HIDE DEF Recycle, Waiting
  <1> QED BY <1>1, <1>2, <1>3, <1>4 DEF Shared!Consume

\* Every step of the Group is a step of SharedLoad or changes nothing there.
LEMMA RefineNext == IInv /\ [Next]_vars => [Shared!Next]_(Shared!vars)
  <1> SUFFICES ASSUME IInv, [Next]_vars  PROVE [Shared!Next]_(Shared!vars)
    OBVIOUS
  <1>1. CASE UNCHANGED vars
    <2>1. UNCHANGED Shared!vars
      BY <1>1 DEF vars, Shared!vars, flightOf, answerOf, replyOf, Waiting
    <2> QED BY <2>1
  <1>2. ASSUME NEW p \in Caller, NEW k \in Key, NEW c \in Call,
               DoLead(p, k, c) \/ DoChanLead(p, k, c)
        PROVE  Shared!Next
    BY <1>2, RefineLead DEF Shared!Next
  <1>3. ASSUME NEW p \in Caller, NEW k \in Key, DoJoin(p, k) \/ DoChanJoin(p, k)
        PROVE  Shared!Next
    BY <1>3, RefineJoin DEF Shared!Next
  <1>4. ASSUME NEW c \in Call, NEW r \in Result, st[c] = "running",
               Publish(c, r), UNCHANGED <<m, ckey, chs, pc, arg, ref, ch, got>>
        PROVE  Shared!Next
    <2>1. ckey[c] \in Key  BY <1>4 DEF IInv, MapInv, Registered
    <2> QED BY <1>4, <2>1, RefinePublish DEF Shared!Next
  <1>5. ASSUME NEW c \in Call, NEW r \in Value, FnReturn(c, r)
        PROVE  Shared!Next
    BY <1>5, <1>4 DEF FnReturn, Result
  <1>6. ASSUME NEW c \in Call, FnPanicRecovered(c)
        PROVE  Shared!Next
    BY <1>6, <1>4 DEF FnPanicRecovered, Result
  <1>7. ASSUME NEW c \in Call, Delete(c)
        PROVE  Shared!Next
    <2>1. ckey[c] \in Key  BY <1>7 DEF IInv, MapInv, Registered, Delete
    <2> QED BY <1>7, <2>1, RefineDelete DEF Shared!Next
  <1>8. ASSUME NEW c \in Call, EndCall(c) \/ \E p \in Caller : Send(c, p)
        PROVE  UNCHANGED Shared!vars
    BY <1>8, RefineEndCall, RefineSend
  <1>9. ASSUME NEW p \in Caller, WaitReturns(p) \/ LeadReturns(p) \/ Receive(p)
        PROVE  Shared!Next
    BY <1>9, RefineReturn DEF Shared!Next
  <1>10. ASSUME NEW p \in Caller, Leave(p) \/ FnPanicUnwinds(p)
         PROVE  Shared!Next
    BY <1>10, RefineAbandon DEF Shared!Next
  <1>11. ASSUME NEW p \in Caller, Recycle(p)
         PROVE  Shared!Next
    BY <1>11, RefineRecycle DEF Shared!Next
  <1> QED
    BY <1>1, <1>2, <1>3, <1>5, <1>6, <1>7, <1>8, <1>9, <1>10, <1>11 DEF Next

\* Do, DoChan and completeCall implement SharedLoad: for every set of requests
\* and keys, whoever asked for a key during an execution returns the result of
\* that execution, and no execution starts while one is known.
THEOREM Refinement == Spec => SharedLoadSpec
  BY Inductive, RefineInit, RefineNext, PTL DEF Spec, SharedLoadSpec, Shared!Spec
=============================================================================
