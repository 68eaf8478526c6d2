------------------------- MODULE CoordinatorProofs -------------------------
(***************************************************************************)
(* The coordinator's replica load is exact, a forgotten request gives its  *)
(* replica back and no caller is stranded, for every number of calls, ids, *)
(* replicas and terminal stages.                                           *)
(***************************************************************************)
EXTENDS Coordinator, SequenceTheorems, FiniteSetTheorems, TLAPS

-----------------------------------------------------------------------------
(* Types.                                                                  *)

\* The round-robin cursor stays on the ring of replicas (_select_replica).
LEMMA AdmitType ==
    ASSUME TypeOK, NEW pin \in Pins, NEW k \in Replica, Admit(pin, k)
    PROVE  inflight' \in [Replica -> Nat] /\ cursor' \in Replica
  <1>1. (k + 1) % NumReplicas \in Replica
    BY ReplicaAssumption DEF Replica
  <1> QED
    BY <1>1 DEF Admit, TypeOK

\* Loads stay natural numbers (the floor of _release_replica).
LEMMA ReleaseType ==
    ASSUME TypeOK, NEW S \in SUBSET Call
    PROVE  ReleaseLoad(S) \in [Replica -> Nat]
  <1>1. ASSUME NEW k \in Replica
        PROVE  Cardinality({c \in S : info[c].owner = k}) \in Nat
    <2>1. IsFiniteSet({c \in S : info[c].owner = k})
      BY CallAssumption, FS_Subset
    <2> QED
      BY <2>1, FS_CardinalityType
  <1>2. ASSUME NEW k \in Replica
        PROVE  Minus(inflight[k], Cardinality({c \in S : info[c].owner = k})) \in Nat
    BY <1>1, <1>2 DEF Minus, TypeOK
  <1> QED
    BY <1>2 DEF ReleaseLoad

\* What an appended message does to the type of the queues.
LEMMA PutType ==
    ASSUME TypeOK, NEW i \in Id, NEW m \in Message, Put(i, m)
    PROVE  queue' \in [Call -> Seq(Message)]
  <1>1. ASSUME NEW c \in Call PROVE Append(queue[c], m) \in Seq(Message)
    BY DEF TypeOK
  <1> QED
    BY <1>1 DEF Put, TypeOK

\* A call that gives up its replica still has a well-formed info.
LEMMA OwnerDropped ==
    ASSUME TypeOK, NEW c \in Call
    PROVE  [info EXCEPT ![c].owner = None]
             \in [Call -> RequestInfo]
  BY ZenonT(60) DEF TypeOK, RequestInfo

\* So has a call whose state is set.
LEMMA StateChanged ==
    ASSUME NEW c \in Call, NEW state \in State,
           NEW f \in [Call -> RequestInfo]
    PROVE  [f EXCEPT ![c].state = state] \in [Call -> RequestInfo]
  BY DEF RequestInfo

ReleasedType(c) ==
    /\ info' \in [Call -> RequestInfo]
    /\ inflight' \in [Replica -> Nat]

\* The end of a request keeps its info and the loads well formed.
LEMMA ReleaseStep ==
    ASSUME TypeOK, NEW c \in Call, NEW state \in State, Release(c, state)
    PROVE  ReleasedType(c)
  <1>1. inflight' \in [Replica -> Nat]
    BY ReleaseType DEF Release
  <1>2. info' \in [Call -> RequestInfo]
    <2> DEFINE dropped == [info EXCEPT ![c].owner = None]
    <2>1. dropped \in [Call -> RequestInfo]
      BY OwnerDropped
    <2>2. info' = [dropped EXCEPT ![c].state = state]
      BY DEF Release
    <2> HIDE DEF dropped
    <2> QED
      BY <2>1, <2>2, StateChanged
  <1> QED
    BY <1>1, <1>2 DEF ReleasedType

\* The variables that only a few actions change.
Types1 ==
    /\ {requests, futures, queues} \subseteq [Id -> Call \cup {None}]
    /\ abort_tasks \in [Id -> {"none", "broadcast", "done"}]
    /\ partial \in [Id -> SUBSET Terminals]
    /\ caller \in [Call -> Place]
    /\ seen \in [Call -> SUBSET Terminals]
    /\ work \in [Call -> SUBSET Terminals]
    /\ handler \in Call \cup {None}
    /\ {loop, fatal} \subseteq BOOLEAN

Types2 ==
    /\ info \in [Call -> RequestInfo]
    /\ future \in [Call -> FutureState]
    /\ queue \in [Call -> Seq(Message)]
    /\ inflight \in [Replica -> Nat]
    /\ cursor \in Replica

\* The type invariant in two parts, which most steps change one of.
LEMMA TypeSplit == TypeOK <=> Types1 /\ Types2
  BY DEF TypeOK, Types1, Types2

\* The steps of a caller preserve the types (submit, stream).
LEMMA CallerType ==
    ASSUME TypeOK, NEW c \in Call, Caller(c)
    PROVE  TypeOK'
  <1> USE CallAssumption
  <1>1. ASSUME NEW pin \in Pins, NEW k \in Replica,
               NEW T \in (SUBSET Terminals) \ {{}}, Submit(c, pin, k, T)
        PROVE  TypeOK'
    <2>1. inflight' \in [Replica -> Nat] /\ cursor' \in Replica
      BY <1>1, AdmitType DEF Submit
    <2>2. Types1'
      BY <1>1 DEF Submit, TypeOK, Types1, Place
    <2>3. [state |-> "pending", owner |-> k, terminals |-> T] \in RequestInfo
      BY DEF RequestInfo, State
    <2>4. info' \in [Call -> RequestInfo] /\ future' \in [Call -> FutureState]
      BY <1>1, <2>3 DEF Submit, TypeOK, FutureState
    <2>5. Types2'
      BY <1>1, <2>1, <2>4 DEF Submit, TypeOK, Types2
    <2> QED
      BY <2>2, <2>5, TypeSplit DEF TypeOK, Types1, Types2
  <1>2. ASSUME SubmitRefused(c) PROVE TypeOK'
    BY <1>2 DEF SubmitRefused, TypeOK, Place, tables, results, load
  <1>3. ASSUME NEW pin \in Pins, NEW k \in Replica, SubmitRejected(c, pin, k)
        PROVE  TypeOK'
    <2>1. inflight' \in [Replica -> Nat] /\ cursor' \in Replica
      BY <1>3, AdmitType DEF SubmitRejected
    <2> QED
      BY <1>3, <2>1 DEF SubmitRejected, TypeOK, Place, tables, results
  <1>4. ASSUME Submitted(c) PROVE TypeOK'
    <2>1. Types1'
      BY <1>4 DEF Submitted, TypeOK, Types1, Place, tables
    <2>2. info' \in [Call -> RequestInfo]
      <3>1. requests[IdOf[c]] \in Call \cup {None}
        BY DEF TypeOK
      <3> QED
        BY <1>4, <3>1, StateChanged DEF Submitted, TypeOK, State
    <2>3. Types2'
      BY <1>4, <2>2 DEF Submitted, TypeOK, Types2, results, load
    <2> QED
      BY <2>1, <2>3 DEF TypeOK, Types1, Types2
  <1>5. ASSUME SubmitFails(c) PROVE TypeOK'
    <2>1. Types1'
      BY <1>5 DEF SubmitFails, TypeOK, Types1, Place, Leaving, tables
    <2>2. inflight' \in [Replica -> Nat]
      BY <1>5, ReleaseType DEF SubmitFails, TypeOK
    <2>3. requests[IdOf[c]] \in Call \cup {None}
      BY DEF TypeOK
    <2>4. info' \in [Call -> RequestInfo]
      BY <1>5, <2>3, OwnerDropped DEF SubmitFails, TypeOK
    <2> QED
      BY <1>5, <2>1, <2>2, <2>4 DEF SubmitFails, TypeOK, Types1, results
  <1>6. ASSUME SubmitReturns(c) PROVE TypeOK'
    BY <1>6 DEF SubmitReturns, TypeOK, Place, results, load
  <1>7. ASSUME StreamNext(c) PROVE TypeOK'
    <2>1. Head(queue[c]) \in Message /\ Tail(queue[c]) \in Seq(Message)
      BY <1>7 DEF StreamNext, TypeOK
    <2>2. queue' \in [Call -> Seq(Message)]
      BY <1>7, <2>1 DEF StreamNext, TypeOK
    <2>3. seen' \in [Call -> SUBSET Terminals]
      <3>1. Head(queue[c]).ok => Head(queue[c]).stage \in Terminals
        <4>1. CASE Head(queue[c]) \in [stage : Terminals, ok : {TRUE}]
          BY <4>1
        <4>2. CASE Head(queue[c]) = Failure
          BY <4>2 DEF Failure
        <4> QED
          BY <2>1, <4>1, <4>2 DEF Message
      <3>2. seen' = IF Head(queue[c]).ok
                    THEN [seen EXCEPT ![c] = @ \cup {Head(queue[c]).stage}] ELSE seen
        BY <1>7 DEF StreamNext
      <3> QED
        BY <3>1, <3>2 DEF TypeOK
    <2>4. caller' \in [Call -> Place]
      BY <1>7 DEF StreamNext, TypeOK, Place
    <2> QED
      BY <1>7, <2>2, <2>3, <2>4 DEF StreamNext, TypeOK, tables, load
  <1>8. ASSUME Cancel(c) PROVE TypeOK'
    <2>1. work' \in [Call -> SUBSET Terminals]
      BY <1>8 DEF Cancel, TypeOK
    <2>2. caller' \in [Call -> Place]
      BY <1>8 DEF Cancel, TypeOK, Place, Leaving
    <2>3. futures' \in [Id -> Call \cup {None}]
      BY <1>8 DEF Cancel, TypeOK
    <2> QED
      BY <1>8, <2>1, <2>2, <2>3 DEF Cancel, TypeOK, results, load
  <1>9. ASSUME CloseStream(c) PROVE TypeOK'
    <2> DEFINE i == IdOf[c]
               abort == queues[i] = c /\ requests[i] # None /\ Abortable(i)
    <2>1. CASE abort
      <3>1. StartAbort(i) /\ caller' = [caller EXCEPT ![c] = "aborting"]
              /\ UNCHANGED <<queues, futures>>
        BY <1>9, <2>1 DEF CloseStream
      <3> QED
        BY <1>9, <3>1 DEF CloseStream, StartAbort, TypeOK, Place, results, load
    <2>2. CASE ~abort
      <3>1. /\ caller' = [caller EXCEPT ![c] = "done"]
            /\ queues' = Pop(queues, c)
            /\ futures' = IF queues[i] = c THEN [futures EXCEPT ![i] = None]
                          ELSE futures
            /\ UNCHANGED abort_tasks
        BY <1>9, <2>2 DEF CloseStream
      <3> QED
        BY <1>9, <3>1 DEF CloseStream, Pop, TypeOK, Place, results, load
    <2> QED
      BY <2>1, <2>2
  <1>10. ASSUME CancelClosing(c) PROVE TypeOK'
    BY <1>10 DEF CancelClosing, Pop, TypeOK, Place, results, load
  <1> QED
    BY <1>1, <1>2, <1>3, <1>4, <1>5, <1>6, <1>7, <1>8, <1>9, <1>10 DEF Caller

\* The abort task preserves the types (abort, _run_abort).
LEMMA AbortType ==
    ASSUME TypeOK, NEW i \in Id, Abort(i)
    PROVE  TypeOK'
  <1> USE CallAssumption
  <1>1. ASSUME AbortCall(i) PROVE TypeOK'
    BY <1>1 DEF AbortCall, StartAbort, TypeOK, results, load, callers
  <1>2. ASSUME FinishAbort(i) PROVE TypeOK'
    <2>1. CASE requests[i] = None
      BY <1>2, <2>1 DEF FinishAbort, TypeOK, results, callers
    <2>2. CASE requests[i] # None
      <3>1. requests[i] \in Call
        BY <2>2 DEF TypeOK
      <3>2. /\ Release(requests[i], "aborted") /\ Reject(i)
            /\ Put(i, Failure) /\ Forget(i)
        BY <1>2, <2>2 DEF FinishAbort
      <3>3. ReleasedType(requests[i])
        BY <3>1, <3>2, ReleaseStep DEF State
      <3>4. future' \in [Call -> FutureState]
        BY <3>2 DEF Reject, TypeOK, FutureState
      <3>5. queue' \in [Call -> Seq(Message)]
        BY <3>2, PutType DEF Message
      <3>6. /\ requests' \in [Id -> Call \cup {None}]
            /\ partial' \in [Id -> SUBSET Terminals]
        BY <3>2 DEF Forget, TypeOK
      <3> QED
        BY <1>2, <3>3, <3>4, <3>5, <3>6
           DEF FinishAbort, TypeOK, callers, ReleasedType
    <2> QED
      BY <2>1, <2>2
  <1>3. ASSUME AbortFails(i) PROVE TypeOK'
    BY <1>3 DEF AbortFails, TypeOK, results, load, callers
  <1>4. ASSUME AbortTaskDone(i) PROVE TypeOK'
    <2>1. caller' \in [Call -> Place]
      BY <1>4 DEF AbortTaskDone, TypeOK, Place
    <2>2. {queues, futures}' \subseteq [Id -> Call \cup {None}]
      BY <1>4 DEF AbortTaskDone, TypeOK
    <2> QED
      BY <1>4, <2>1, <2>2 DEF AbortTaskDone, TypeOK, results, load
  <1> QED
    BY <1>1, <1>2, <1>3, <1>4 DEF Abort

\* The completion loop preserves the types (_handle_completion).
LEMMA CompletionType ==
    ASSUME TypeOK, CompletionLoop
    PROVE  TypeOK'
  <1> USE CallAssumption
  <1>1. ASSUME NEW c \in Call, NEW s \in Terminals, Completed(c, s) PROVE TypeOK'
    <2> DEFINE i == IdOf[c]
               t == requests[i]
    <2>1. work' \in [Call -> SUBSET Terminals]
      BY <1>1 DEF Completed, TypeOK
    <2>2. CASE t = None \/ s \notin info[t].terminals
      <3>1. UNCHANGED <<requests, partial, info, results, inflight>>
        BY <1>1, <2>2 DEF Completed, Complete
      <3> QED
        BY <1>1, <2>1, <3>1 DEF Completed, TypeOK, results, callers
    <2>3. CASE t # None /\ s \in info[t].terminals
      <3>1. t \in Call /\ i \in Id
        BY <2>3 DEF TypeOK
      <3>2. Put(i, [stage |-> s, ok |-> TRUE])
        BY <1>1, <2>3 DEF Completed, Complete
      <3>3. queue' \in [Call -> Seq(Message)]
        BY <3>1, <3>2, PutType DEF Message
      <3>4. CASE /\ Release(t, "completed") /\ Forget(i)
                 /\ future' = [d \in Call |->
                                 IF d = futures[i] /\ future[d] = "pending"
                                 THEN "result" ELSE future[d]]
        <4>1. ReleasedType(t)
          BY <3>1, <3>4, ReleaseStep DEF State
        <4>2. future' \in [Call -> FutureState]
          BY <3>4 DEF TypeOK, FutureState
        <4>3. /\ requests' \in [Id -> Call \cup {None}]
              /\ partial' \in [Id -> SUBSET Terminals]
          BY <3>1, <3>4 DEF Forget, TypeOK
        <4> QED
          BY <1>1, <2>1, <3>3, <4>1, <4>2, <4>3
             DEF Completed, TypeOK, callers, ReleasedType
      <3>5. CASE /\ partial' = [partial EXCEPT ![i] = partial[i] \cup {s}]
                 /\ UNCHANGED <<requests, info, future, inflight>>
        <4>1. partial' \in [Id -> SUBSET Terminals]
          BY <3>1, <3>5 DEF TypeOK
        <4> QED
          BY <1>1, <2>1, <3>3, <3>5, <4>1 DEF Completed, TypeOK, callers
      <3> QED
        BY <1>1, <2>3, <3>4, <3>5 DEF Completed, Complete
    <2> QED
      BY <2>2, <2>3
  <1>2. ASSUME NEW c \in Call, NEW s \in Terminals, StageFails(c, s) PROVE TypeOK'
    <2>1. work' \in [Call -> SUBSET Terminals] /\ handler' \in Call \cup {None}
      BY <1>2 DEF StageFails, TypeOK
    <2>2. info' \in [Call -> RequestInfo]
      <3>1. \A d \in Call : [info EXCEPT ![d].state = "failed"] \in [Call -> RequestInfo]
        BY StateChanged DEF TypeOK, State
      <3>2. CASE requests[IdOf[c]] = None
        BY <1>2, <3>2 DEF StageFails, TypeOK
      <3>3. CASE requests[IdOf[c]] # None
        <4>1. requests[IdOf[c]] \in Call
          BY <3>3 DEF TypeOK
        <4>2. info' = [info EXCEPT ![requests[IdOf[c]]].state = "failed"]
          BY <1>2, <3>3 DEF StageFails
        <4> QED
          BY <3>1, <4>1, <4>2
      <3> QED
        BY <3>2, <3>3
    <2> QED
      BY <1>2, <2>1, <2>2 DEF StageFails, TypeOK, tables, results, load, callers
  <1>3. ASSUME FinishFailure PROVE TypeOK'
    <2>1. handler \in Call /\ IdOf[handler] \in Id
      BY <1>3 DEF FinishFailure, TypeOK
    <2>2. ReleasedType(handler)
      <3>1. info[handler].state \in State
        BY <2>1 DEF TypeOK, RequestInfo
      <3> QED
        BY <1>3, <2>1, <3>1, ReleaseStep DEF FinishFailure
    <2>3. future' \in [Call -> FutureState]
      BY <1>3 DEF FinishFailure, Reject, TypeOK, FutureState
    <2>4. queue' \in [Call -> Seq(Message)]
      BY <1>3, <2>1, PutType DEF FinishFailure, Message
    <2>5. /\ requests' \in [Id -> Call \cup {None}]
          /\ partial' \in [Id -> SUBSET Terminals]
      BY <1>3, <2>1 DEF FinishFailure, Forget, TypeOK
    <2> QED
      BY <1>3, <2>2, <2>3, <2>4, <2>5
         DEF FinishFailure, TypeOK, callers, ReleasedType
  <1>4. ASSUME FailureBroadcastFails PROVE TypeOK'
    BY <1>4 DEF FailureBroadcastFails, TypeOK, tables, results, load, callers
  <1> QED
    BY <1>1, <1>2, <1>3, <1>4 DEF CompletionLoop

\* The runtime monitor preserves the types (fail_pending_requests).
LEMMA FailPendingType ==
    ASSUME TypeOK, FailPending
    PROVE  TypeOK'
  <1>1. inflight' \in [Replica -> Nat]
    BY ReleaseType DEF FailPending, Tracked
  <1>2. info' \in [Call -> RequestInfo]
    <2>1. ASSUME NEW c \in Call
          PROVE  [info[c] EXCEPT !.state = "failed", !.owner = None] \in RequestInfo
      <3>1. info[c] \in RequestInfo
        BY DEF TypeOK
      <3>2. \A r \in RequestInfo : [r EXCEPT !.state = "failed"] \in RequestInfo
        BY DEF RequestInfo, State
      <3>3. \A r \in RequestInfo : [r EXCEPT !.owner = None] \in RequestInfo
        BY DEF RequestInfo
      <3> QED
        BY <3>1, <3>2, <3>3
    <2> QED
      BY <2>1 DEF FailPending, TypeOK
  <1>3. future' \in [Call -> FutureState]
    BY DEF FailPending, TypeOK, FutureState
  <1>4. queue' \in [Call -> Seq(Message)]
    <2>1. ASSUME NEW c \in Call PROVE Append(queue[c], Failure) \in Seq(Message)
      <3>1. Failure \in Message /\ queue[c] \in Seq(Message)
        BY DEF TypeOK, Message
      <3> QED
        BY <3>1
    <2> QED
      BY <2>1 DEF FailPending, TypeOK
  <1>5. /\ requests' \in [Id -> Call \cup {None}]
        /\ partial' \in [Id -> SUBSET Terminals]
    BY DEF FailPending
  <1>6. /\ UNCHANGED <<futures, queues, abort_tasks, cursor, caller, seen, work,
                        handler, loop>>
        /\ fatal' \in BOOLEAN
    BY DEF FailPending, callers
  <1> QED
    BY <1>1, <1>2, <1>3, <1>4, <1>5, <1>6 DEF TypeOK

\* Every step preserves the types.
LEMMA TypeStep == TypeOK /\ [Next]_vars => TypeOK'
  <1> SUFFICES ASSUME TypeOK, [Next]_vars PROVE TypeOK'
    OBVIOUS
  <1>1. CASE UNCHANGED vars
    BY <1>1 DEF vars, tables, results, load, callers, TypeOK
  <1>2. CASE Finished
    BY <1>2, <1>1 DEF Finished
  <1> QED
    BY <1>1, <1>2, CallerType, AbortType, CompletionType, FailPendingType DEF Next

\* The coordinator starts well typed.
LEMMA TypeInit == Init => TypeOK
  <1> SUFFICES ASSUME Init PROVE TypeOK
    OBVIOUS
  <1>1. queue \in [Call -> Seq(Message)]
    BY DEF Init
  <1>2. cursor \in Replica /\ inflight \in [Replica -> Nat]
    BY ReplicaAssumption DEF Init, Replica
  <1>3. info \in [Call -> RequestInfo]
    BY DEF Init, RequestInfo, State
  <1> QED
    BY <1>1, <1>2, <1>3 DEF Init, TypeOK, Place, FutureState

\* The type invariant of the coordinator, for every value of the constants.
THEOREM TypeCorrect == Spec => []TypeOK
  BY TypeInit, TypeStep, PTL DEF Spec

-----------------------------------------------------------------------------
(* What a step does to the replicas: it binds one call, frees the replicas *)
(* of some calls, or leaves them alone.                                    *)

Kept == inflight' = inflight /\ \A d \in Call : info'[d].owner = info[d].owner

Freed(S) ==
    /\ inflight' = ReleaseLoad(S)
    /\ \A d \in Call : info'[d].owner = IF d \in S THEN None ELSE info[d].owner

Bound(c, k) ==
    /\ inflight' = [inflight EXCEPT ![k] = @ + 1]
    /\ info'[c].owner = k
    /\ \A d \in Call \ {c} : info'[d].owner = info[d].owner

\* Setting the state of a request leaves its replica alone.
LEMMA StateKeepsOwner ==
    ASSUME TypeOK, NEW c \in Call, NEW state,
           info' = [info EXCEPT ![c].state = state]
    PROVE  \A d \in Call : info'[d].owner = info[d].owner
  BY DEF TypeOK, RequestInfo

\* Release gives up the replica of its own request and of no other.
LEMMA ReleaseFrees ==
    ASSUME TypeOK, NEW c \in Call, NEW state, Release(c, state)
    PROVE  Freed({c})
  <1>1. ASSUME NEW d \in Call
        PROVE  info'[d].owner = IF d \in {c} THEN None ELSE info[d].owner
    <2>1. info[d] \in RequestInfo /\ info \in [Call -> RequestInfo]
      BY DEF TypeOK
    <2>2. \A r \in RequestInfo :
            [[r EXCEPT !.owner = None] EXCEPT !.state = state].owner = None
      BY DEF RequestInfo
    <2> QED
      BY <2>1, <2>2 DEF Release
  <1> QED
    BY <1>1 DEF Freed, Release

\* Counters that were exact stay exact when replicas are given up: nothing is
\* released twice, and the floor of _release_replica is never reached.
LEMMA FreedExact ==
    ASSUME TypeOK, InflightExact, NEW S \in SUBSET Call, Freed(S)
    PROVE  InflightExact'
  <1> SUFFICES ASSUME NEW k \in Replica
               PROVE  inflight'[k] = Cardinality({c \in Call : info'[c].owner = k})
    BY DEF InflightExact
  <1> DEFINE own == {c \in Call : info[c].owner = k}
             gone == {c \in S : info[c].owner = k}
  <1>1. k # None
    BY CallAssumption, ReplicaAssumption DEF Replica
  <1>2. {c \in Call : info'[c].owner = k} = own \ gone
    BY <1>1 DEF Freed
  <1>3. gone \subseteq own /\ own \cap gone = gone
    OBVIOUS
  <1>4. IsFiniteSet(own)
    BY CallAssumption, FS_Subset
  <1>5. Cardinality(own \ gone) = Cardinality(own) - Cardinality(gone)
    BY <1>3, <1>4, FS_Difference, ZenonT(60)
  <1>6. Cardinality(gone) <= Cardinality(own)
    BY <1>3, <1>4, FS_Subset
  <1>7. Cardinality(gone) \in Nat /\ Cardinality(own) \in Nat
    BY <1>3, <1>4, FS_Subset, FS_CardinalityType
  <1>8. inflight'[k] = Minus(inflight[k], Cardinality(gone))
    BY DEF Freed, ReleaseLoad
  <1>9. inflight[k] = Cardinality(own)
    BY DEF InflightExact
  <1> HIDE DEF own, gone
  <1> QED
    BY <1>2, <1>5, <1>6, <1>7, <1>8, <1>9 DEF Minus

\* So do they when a call that held no replica is bound to one.
LEMMA BoundExact ==
    ASSUME TypeOK, InflightExact, NEW c \in Call, info[c].owner = None,
           NEW k \in Replica, Bound(c, k)
    PROVE  InflightExact'
  <1> SUFFICES ASSUME NEW r \in Replica
               PROVE  inflight'[r] = Cardinality({d \in Call : info'[d].owner = r})
    BY DEF InflightExact
  <1> DEFINE own == {d \in Call : info[d].owner = r}
  <1>1. r # None
    BY CallAssumption, ReplicaAssumption DEF Replica
  <1>2. inflight[r] = Cardinality(own)
    BY DEF InflightExact
  <1>3. CASE r = k
    <2>1. {d \in Call : info'[d].owner = r} = own \cup {c}
      BY <1>3 DEF Bound
    <2>2. c \notin own
      BY <1>1
    <2>3. IsFiniteSet(own)
      BY CallAssumption, FS_Subset
    <2>4. Cardinality(own \cup {c}) = Cardinality(own) + 1
      BY <2>2, <2>3, FS_AddElement
    <2>5. inflight'[r] = inflight[r] + 1
      BY <1>3 DEF Bound, TypeOK
    <2> QED
      BY <1>2, <2>1, <2>4, <2>5
  <1>4. CASE r # k
    <2>1. {d \in Call : info'[d].owner = r} = own
      BY <1>1, <1>4 DEF Bound
    <2>2. inflight'[r] = inflight[r]
      BY <1>4 DEF Bound, TypeOK
    <2> QED
      BY <1>2, <2>1, <2>2
  <1> QED
    BY <1>3, <1>4

\* And when no replica changes hands.
LEMMA KeptExact ==
    ASSUME InflightExact, Kept
    PROVE  InflightExact'
  <1> SUFFICES ASSUME NEW k \in Replica
               PROVE  inflight'[k] = Cardinality({c \in Call : info'[c].owner = k})
    BY DEF InflightExact
  <1>1. {c \in Call : info'[c].owner = k} = {c \in Call : info[c].owner = k}
    BY DEF Kept
  <1> QED
    BY <1>1 DEF Kept, InflightExact

-----------------------------------------------------------------------------
(* The three effects, with what they do to the request table.              *)

\* The failure handler is about an earlier call with the id of d.
Outrun(d) == handler \in Call \ {d} /\ IdOf[handler] = IdOf[d]

KeptStep ==
    /\ \A d \in Call : info'[d].owner = info[d].owner
    /\ requests' = requests
    /\ ~ResolverRejects => inflight' = inflight

FreeStep(S) ==
    /\ Freed(S)
    /\ \A d \in Call \ S :
         requests[IdOf[d]] = d => requests'[IdOf[d]] = d \/ Outrun(d)

BindStep(c, k) ==
    /\ Bound(c, k)
    /\ caller[c] = "new" /\ caller'[c] = "submitting"
    /\ requests[IdOf[c]] = None
    /\ requests' = [requests EXCEPT ![IdOf[c]] = c]

Effect ==
    \/ KeptStep
    \/ \E S \in SUBSET Call : FreeStep(S)
    \/ \E c \in Call, k \in Replica : BindStep(c, k)

\* No caller starts over.
NoneRenewed == \A d \in Call : caller'[d] = "new" => caller[d] = "new"

\* submit() and stream().
LEMMA CallerEffect ==
    ASSUME TypeOK, NEW c \in Call, Caller(c)
    PROVE  Effect /\ NoneRenewed
  <1> USE CallAssumption
  <1>1. ASSUME NEW pin \in Pins, NEW k \in Replica,
               NEW T \in (SUBSET Terminals) \ {{}}, Submit(c, pin, k, T)
        PROVE  Effect /\ NoneRenewed
    <2>1. info' = [info EXCEPT ![c] = [state |-> "pending", owner |-> k,
                                       terminals |-> T]]
      BY <1>1 DEF Submit
    <2>2. Bound(c, k)
      BY <1>1, <2>1 DEF Submit, Admit, Bound, TypeOK
    <2>3. BindStep(c, k)
      BY <1>1, <2>2 DEF Submit, BindStep, Reserved, TypeOK
    <2> QED
      BY <1>1, <2>3 DEF Submit, Effect, NoneRenewed, TypeOK
  <1>2. ASSUME SubmitRefused(c) PROVE Effect /\ NoneRenewed
    BY <1>2 DEF SubmitRefused, Effect, KeptStep, NoneRenewed, TypeOK, tables, load
  <1>3. ASSUME NEW pin \in Pins, NEW k \in Replica, SubmitRejected(c, pin, k)
        PROVE  Effect /\ NoneRenewed
    BY <1>3 DEF SubmitRejected, Effect, KeptStep, NoneRenewed, TypeOK, tables
  <1>4. ASSUME Submitted(c) PROVE Effect /\ NoneRenewed
    <2>1. NoneRenewed
      BY <1>4 DEF Submitted, NoneRenewed, TypeOK
    <2>2. requests[IdOf[c]] \in Call \cup {None}
      BY DEF TypeOK
    <2>3. \A d \in Call : info'[d].owner = info[d].owner
      BY <1>4, <2>2, StateKeepsOwner DEF Submitted
    <2> QED
      BY <1>4, <2>1, <2>3 DEF Submitted, Effect, KeptStep, tables, load
  <1>5. ASSUME SubmitFails(c) PROVE Effect /\ NoneRenewed
    <2> DEFINE t == requests[IdOf[c]]
    <2>1. NoneRenewed
      BY <1>5 DEF SubmitFails, NoneRenewed, Leaving, TypeOK
    <2>2. CASE t = None
      BY <1>5, <2>1, <2>2 DEF SubmitFails, Effect, KeptStep, tables
    <2>3. CASE t # None
      <3>1. t \in Call
        BY <2>3 DEF TypeOK
      <3>2. /\ inflight' = ReleaseLoad({t})
            /\ info' = [info EXCEPT ![t].owner = None]
            /\ requests' = requests
        BY <1>5, <2>3 DEF SubmitFails, tables
      <3>3. ASSUME NEW d \in Call
            PROVE  info'[d].owner = IF d \in {t} THEN None ELSE info[d].owner
        BY <3>1, <3>2 DEF TypeOK, RequestInfo
      <3>4. FreeStep({t})
        BY <3>2, <3>3 DEF FreeStep, Freed
      <3> QED
        BY <2>1, <3>1, <3>4 DEF Effect
    <2> QED
      BY <2>2, <2>3
  <1>6. ASSUME SubmitReturns(c) PROVE Effect /\ NoneRenewed
    BY <1>6 DEF SubmitReturns, Effect, KeptStep, NoneRenewed, TypeOK, load
  <1>7. ASSUME StreamNext(c) PROVE Effect /\ NoneRenewed
    BY <1>7 DEF StreamNext, Effect, KeptStep, NoneRenewed, TypeOK, tables, load
  <1>8. ASSUME Cancel(c) PROVE Effect /\ NoneRenewed
    BY <1>8 DEF Cancel, Effect, KeptStep, NoneRenewed, Leaving, TypeOK, load
  <1>9. ASSUME CloseStream(c) PROVE Effect /\ NoneRenewed
    BY <1>9 DEF CloseStream, Effect, KeptStep, NoneRenewed, TypeOK, load
  <1>10. ASSUME CancelClosing(c) PROVE Effect /\ NoneRenewed
    BY <1>10 DEF CancelClosing, Effect, KeptStep, NoneRenewed, TypeOK, load
  <1> QED
    BY <1>1, <1>2, <1>3, <1>4, <1>5, <1>6, <1>7, <1>8, <1>9, <1>10 DEF Caller

\* The end of the request tracked under an id frees that request alone.
LEMMA ForgetFrees ==
    ASSUME TypeOK, NEW i \in Id, NEW state, requests[i] # None,
           Release(requests[i], state), Forget(i)
    PROVE  Effect
  <1>1. requests[i] \in Call
    BY DEF TypeOK
  <1>2. Freed({requests[i]})
    BY <1>1, ReleaseFrees
  <1>3. FreeStep({requests[i]})
    BY <1>2, CallAssumption DEF FreeStep, Forget, TypeOK
  <1> QED
    BY <1>1, <1>3 DEF Effect

\* The abort task.
LEMMA AbortEffect ==
    ASSUME TypeOK, NEW i \in Id, Abort(i)
    PROVE  Effect /\ NoneRenewed
  <1>1. ASSUME AbortCall(i) PROVE Effect /\ NoneRenewed
    BY <1>1 DEF AbortCall, Effect, KeptStep, NoneRenewed, load, callers
  <1>2. ASSUME FinishAbort(i) PROVE Effect /\ NoneRenewed
    <2>1. CASE requests[i] = None
      BY <1>2, <2>1 DEF FinishAbort, Effect, KeptStep, NoneRenewed, callers
    <2>2. CASE requests[i] # None
      <3>1. Release(requests[i], "aborted") /\ Forget(i)
        BY <1>2, <2>2 DEF FinishAbort
      <3>2. Effect
        BY <2>2, <3>1, ForgetFrees
      <3> QED
        BY <1>2, <3>2 DEF FinishAbort, NoneRenewed, callers
    <2> QED
      BY <2>1, <2>2
  <1>3. ASSUME AbortFails(i) PROVE Effect /\ NoneRenewed
    BY <1>3 DEF AbortFails, Effect, KeptStep, NoneRenewed, load, callers
  <1>4. ASSUME AbortTaskDone(i) PROVE Effect /\ NoneRenewed
    BY <1>4 DEF AbortTaskDone, Effect, KeptStep, NoneRenewed, load
  <1> QED
    BY <1>1, <1>2, <1>3, <1>4 DEF Abort

\* The completion loop.
LEMMA CompletionEffect ==
    ASSUME TypeOK, CompletionLoop
    PROVE  Effect /\ NoneRenewed
  <1> USE CallAssumption
  <1>1. ASSUME NEW c \in Call, NEW s \in Terminals, Completed(c, s)
        PROVE  Effect /\ NoneRenewed
    <2> DEFINE i == IdOf[c]
               t == requests[i]
    <2>1. NoneRenewed
      BY <1>1 DEF Completed, NoneRenewed, callers
    <2>2. CASE t = None \/ s \notin info[t].terminals
      BY <1>1, <2>1, <2>2 DEF Completed, Complete, Effect, KeptStep
    <2>3. CASE t # None /\ s \in info[t].terminals
      <3>1. \/ Release(t, "completed") /\ Forget(i)
            \/ UNCHANGED <<requests, info, inflight>>
        BY <1>1, <2>3 DEF Completed, Complete
      <3>2. CASE Release(t, "completed") /\ Forget(i)
        BY <2>1, <2>3, <3>2, ForgetFrees
      <3>3. CASE UNCHANGED <<requests, info, inflight>>
        BY <2>1, <3>3 DEF Effect, KeptStep
      <3> QED
        BY <3>1, <3>2, <3>3
    <2> QED
      BY <2>2, <2>3
  <1>2. ASSUME NEW c \in Call, NEW s \in Terminals, StageFails(c, s)
        PROVE  Effect /\ NoneRenewed
    <2> DEFINE t == requests[IdOf[c]]
    <2>1. CASE t = None
      BY <1>2, <2>1
         DEF StageFails, Effect, KeptStep, NoneRenewed, tables, load, callers
    <2>2. CASE t # None
      <3>1. t \in Call
        BY <2>2 DEF TypeOK
      <3>2. info' = [info EXCEPT ![t].state = "failed"]
        BY <1>2, <2>2 DEF StageFails
      <3>3. \A d \in Call : info'[d].owner = info[d].owner
        BY <3>1, <3>2, StateKeepsOwner
      <3> QED
        BY <1>2, <3>3
           DEF StageFails, Effect, KeptStep, NoneRenewed, tables, load, callers
    <2> QED
      BY <2>1, <2>2
  <1>3. ASSUME FinishFailure PROVE Effect /\ NoneRenewed
    <2>1. handler \in Call
      BY <1>3 DEF FinishFailure, TypeOK
    <2>2. Freed({handler})
      BY <1>3, <2>1, ReleaseFrees DEF FinishFailure
    <2>3. FreeStep({handler})
      BY <1>3, <2>1, <2>2 DEF FinishFailure, Forget, FreeStep, Outrun, TypeOK
    <2> QED
      BY <1>3, <2>1, <2>3 DEF FinishFailure, Effect, NoneRenewed, callers
  <1>4. ASSUME FailureBroadcastFails PROVE Effect /\ NoneRenewed
    BY <1>4
       DEF FailureBroadcastFails, Effect, KeptStep, NoneRenewed, tables, load, callers
  <1> QED
    BY <1>1, <1>2, <1>3, <1>4 DEF CompletionLoop

\* The runtime monitor frees every request that is tracked.
LEMMA FailPendingEffect ==
    ASSUME TypeOK, FailPending
    PROVE  Effect /\ NoneRenewed
  <1>1. ASSUME NEW d \in Call
        PROVE  info'[d].owner = IF d \in Tracked THEN None ELSE info[d].owner
    <2>1. info[d] \in RequestInfo
      BY DEF TypeOK
    <2>2. \A r \in RequestInfo :
            [r EXCEPT !.state = "failed", !.owner = None].owner = None
      BY DEF RequestInfo
    <2> QED
      BY <2>1, <2>2 DEF FailPending
  <1>2. FreeStep(Tracked)
    BY <1>1 DEF FailPending, FreeStep, Freed, Tracked
  <1> QED
    BY <1>2 DEF FailPending, Effect, NoneRenewed, Tracked, callers

\* Every step binds one call, frees some, or leaves the replicas alone.
LEMMA StepEffect ==
    ASSUME TypeOK, [Next]_vars
    PROVE  Effect /\ NoneRenewed
  <1>1. CASE UNCHANGED vars
    BY <1>1 DEF vars, tables, load, callers, Effect, KeptStep, NoneRenewed
  <1>2. CASE Finished
    BY <1>1, <1>2 DEF Finished
  <1> QED
    BY <1>1, <1>2, CallerEffect, AbortEffect, CompletionEffect, FailPendingEffect
       DEF Next

-----------------------------------------------------------------------------
(* The load of the replicas and the request table.                         *)

\* A call that was not admitted yet holds no replica.
NewUnowned == \A c \in Call : caller[c] = "new" => info[c].owner = None

\* Only admission gives a call a replica, and it ends the state "new".
LEMMA NewUnownedStep ==
    ASSUME TypeOK, NewUnowned, [Next]_vars
    PROVE  NewUnowned'
  <1> SUFFICES ASSUME NEW d \in Call, caller'[d] = "new"
               PROVE  info'[d].owner = None
    BY DEF NewUnowned
  <1>1. Effect /\ caller[d] = "new" /\ info[d].owner = None
    BY StepEffect DEF NoneRenewed, NewUnowned
  <1>2. CASE KeptStep
    BY <1>1, <1>2 DEF KeptStep
  <1>3. ASSUME NEW S \in SUBSET Call, FreeStep(S) PROVE info'[d].owner = None
    BY <1>1, <1>3 DEF FreeStep, Freed
  <1>4. ASSUME NEW c \in Call, NEW k \in Replica, BindStep(c, k)
        PROVE  info'[d].owner = None
    BY <1>1, <1>4 DEF BindStep, Bound
  <1> QED
    BY <1>1, <1>2, <1>3, <1>4 DEF Effect

\* The load counters stay equal to the number of holders: a step keeps all
\* holders, frees some or binds one.
LEMMA InflightStep ==
    ASSUME ~ResolverRejects, TypeOK, NewUnowned, InflightExact, [Next]_vars
    PROVE  InflightExact'
  <1>1. CASE KeptStep
    BY <1>1, KeptExact DEF KeptStep, Kept
  <1>2. ASSUME NEW S \in SUBSET Call, FreeStep(S) PROVE InflightExact'
    BY <1>2, FreedExact DEF FreeStep
  <1>3. ASSUME NEW c \in Call, NEW k \in Replica, BindStep(c, k)
        PROVE  InflightExact'
    BY <1>3, BoundExact DEF BindStep, NewUnowned
  <1> QED
    BY <1>1, <1>2, <1>3, StepEffect DEF Effect

\* Nothing is bound and nothing counted at the start.
LEMMA LoadInit == Init => NewUnowned /\ InflightExact
  <1> SUFFICES ASSUME Init PROVE NewUnowned /\ InflightExact
    OBVIOUS
  <1>1. \A c \in Call : info[c].owner = None
    BY DEF Init
  <1>2. ASSUME NEW k \in Replica
        PROVE  inflight[k] = Cardinality({c \in Call : info[c].owner = k})
    <2>1. k # None
      BY CallAssumption, ReplicaAssumption DEF Replica
    <2>2. {c \in Call : info[c].owner = k} = {}
      BY <1>1, <2>1
    <2> QED
      BY <2>2, FS_EmptySet DEF Init
  <1> QED
    BY <1>1, <1>2 DEF NewUnowned, InflightExact

\* If the terminal-stage resolver never raises, ReplicaInfo.inflight is the
\* number of requests bound to the replica in every reachable state: no path of
\* _submit_request, _run_abort, _handle_completion and fail_pending_requests
\* releases a replica twice or forgets one, whichever coroutine comes first.
THEOREM InflightCounts == ~ResolverRejects => (Spec => []InflightExact)
  <1> SUFFICES ASSUME ~ResolverRejects PROVE Spec => []InflightExact
    OBVIOUS
  <1>1. Init => TypeOK /\ NewUnowned /\ InflightExact
    BY TypeInit, LoadInit
  <1>2. TypeOK /\ NewUnowned /\ InflightExact /\ [Next]_vars
          => (TypeOK /\ NewUnowned /\ InflightExact)'
    BY TypeStep, NewUnownedStep, InflightStep
  <1> QED
    BY <1>1, <1>2, PTL DEF Spec

\* A step that forgets a request gives its replica back, unless the failure
\* handler of an earlier call with the same id takes it.
LEMMA ForgottenStep ==
    ASSUME TypeOK, [Next]_vars, NEW d \in Call,
           requests[IdOf[d]] = d, requests'[IdOf[d]] # d
    PROVE  info'[d].owner = None \/ Outrun(d)
  <1>1. CASE KeptStep
    BY <1>1 DEF KeptStep
  <1>2. ASSUME NEW S \in SUBSET Call, FreeStep(S)
        PROVE  info'[d].owner = None \/ Outrun(d)
    BY <1>2 DEF FreeStep, Freed
  <1>3. ASSUME NEW c \in Call, NEW k \in Replica, BindStep(c, k) PROVE FALSE
    BY <1>3, CallAssumption DEF BindStep, TypeOK
  <1> QED
    BY <1>1, <1>2, <1>3, StepEffect DEF Effect

\* For every assignment of ids to calls, a request leaves _requests only with
\* its replica released (_run_abort, _handle_completion, fail_pending_requests);
\* the failure path that resumes after its broadcast for an earlier call with
\* that id is the only way around it.
THEOREM ForgottenAreReleased == Spec => ForgottenReleased
  <1>1. TypeOK /\ [Next]_vars =>
          [\A c \in Call :
             requests[IdOf[c]] = c /\ requests'[IdOf[c]] # c =>
                \/ info'[c].owner = None
                \/ handler \in Call \ {c} /\ IdOf[handler] = IdOf[c]]_vars
    BY ForgottenStep DEF Outrun
  <1> QED
    BY <1>1, TypeInit, TypeStep, PTL DEF Spec, ForgottenReleased

-----------------------------------------------------------------------------
(* One call at a time holds a request id, also when ids are used again.    *)

Active(c) == caller[c] \notin {"new", "done"}

\* A call that is under way owns the completion future of its id.
Holds == \A c \in Call : Active(c) => futures[IdOf[c]] = c

\* No call gets under way and no future is touched.
Quiet ==
    /\ futures' = futures
    /\ \A d \in Call : Active(d)' => Active(d)

\* A call that is under way returns and gives its id back.
Return(c) ==
    /\ Active(c) /\ ~Active(c)'
    /\ futures' = [futures EXCEPT ![IdOf[c]] = None]
    /\ \A d \in Call : Active(d)' => Active(d)

\* A call takes an id nobody holds.
Enter(c) ==
    /\ futures[IdOf[c]] = None
    /\ futures' = [futures EXCEPT ![IdOf[c]] = c]
    /\ \A d \in Call \ {c} : Active(d)' => Active(d)

\* Steps that begin no call, and the return of a caller.
LEMMA HoldsKept ==
    ASSUME TypeOK, Holds, Quiet \/ \E c \in Call : Return(c) \/ Enter(c)
    PROVE  Holds'
  <1> USE CallAssumption
  <1>1. CASE Quiet
    BY <1>1 DEF Quiet, Holds
  <1>2. ASSUME NEW c \in Call, Return(c) PROVE Holds'
    BY <1>2 DEF Return, Holds, TypeOK
  <1>3. ASSUME NEW c \in Call, Enter(c) PROVE Holds'
    <2> SUFFICES ASSUME NEW d \in Call, Active(d)' PROVE futures'[IdOf[d]] = d
      BY DEF Holds
    <2>1. CASE d = c
      BY <1>3, <2>1 DEF Enter, TypeOK
    <2>2. CASE d # c
      BY <1>3, <2>2 DEF Enter, Holds, TypeOK
    <2> QED
      BY <2>1, <2>2
  <1> QED
    BY <1>1, <1>2, <1>3

\* submit() and stream() give an id back only when they return.
LEMMA CallerHolds ==
    ASSUME TypeOK, Holds, NEW c \in Call, Caller(c)
    PROVE  Quiet \/ \E d \in Call : Return(d) \/ Enter(d)
  <1> USE CallAssumption
  <1>1. ASSUME NEW pin \in Pins, NEW k \in Replica,
               NEW T \in (SUBSET Terminals) \ {{}}, Submit(c, pin, k, T)
        PROVE  Enter(c)
    BY <1>1 DEF Submit, Enter, Reserved, Active, TypeOK
  <1>2. ASSUME SubmitRefused(c) PROVE Quiet
    BY <1>2 DEF SubmitRefused, Quiet, Active, TypeOK, tables
  <1>3. ASSUME NEW pin \in Pins, NEW k \in Replica, SubmitRejected(c, pin, k)
        PROVE  Quiet
    BY <1>3 DEF SubmitRejected, Quiet, Active, TypeOK, tables
  <1>4. ASSUME Submitted(c) PROVE Quiet
    BY <1>4 DEF Submitted, Quiet, Active, TypeOK, tables
  <1>5. ASSUME SubmitFails(c) PROVE Quiet
    BY <1>5 DEF SubmitFails, Quiet, Active, Leaving, TypeOK, tables
  <1>6. ASSUME SubmitReturns(c) PROVE Return(c)
    BY <1>6 DEF SubmitReturns, Return, Active, TypeOK
  <1>7. ASSUME StreamNext(c) PROVE Quiet
    BY <1>7 DEF StreamNext, Quiet, Active, TypeOK, tables
  <1>8. ASSUME Cancel(c) PROVE Quiet \/ Return(c)
    BY <1>8 DEF Cancel, Quiet, Return, Active, Leaving, TypeOK
  <1>9. ASSUME CloseStream(c) PROVE Quiet \/ Return(c)
    BY <1>9 DEF CloseStream, Quiet, Return, Active, TypeOK
  <1>10. ASSUME CancelClosing(c) PROVE Quiet \/ Return(c)
    BY <1>10 DEF CancelClosing, Quiet, Return, Active, TypeOK
  <1> QED
    BY <1>1, <1>2, <1>3, <1>4, <1>5, <1>6, <1>7, <1>8, <1>9, <1>10 DEF Caller

\* The other coroutines touch futures only for a caller that returns.
LEMMA OtherHolds ==
    ASSUME TypeOK, Holds,
           (\E i \in Id : Abort(i)) \/ CompletionLoop \/ FailPending
    PROVE  Quiet \/ \E d \in Call : Return(d)
  <1> USE CallAssumption
  <1>1. ASSUME NEW i \in Id, AbortCall(i) \/ FinishAbort(i) \/ AbortFails(i)
        PROVE  Quiet
    BY <1>1 DEF AbortCall, FinishAbort, AbortFails, Quiet, Active, callers
  <1>2. ASSUME NEW i \in Id, AbortTaskDone(i)
        PROVE  Quiet \/ \E d \in Call : Return(d)
    <2> DEFINE waiting == {c \in Call : IdOf[c] = i /\ caller[c] = "aborting"}
    <2>1. caller' = [c \in Call |-> IF c \in waiting THEN "done" ELSE caller[c]]
      BY <1>2 DEF AbortTaskDone
    <2>2. \A d \in Call : Active(d)' => Active(d)
      BY <2>1 DEF Active
    <2>3. CASE queues[i] \in waiting
      <3>1. futures' = [futures EXCEPT ![i] = None]
        BY <1>2, <2>3 DEF AbortTaskDone
      <3>2. PICK w \in waiting : w = queues[i]
        BY <2>3
      <3>3. Return(w)
        BY <2>1, <2>2, <3>1 DEF Return, Active
      <3> QED
        BY <3>3
    <2>4. CASE queues[i] \notin waiting
      BY <1>2, <2>2, <2>4 DEF AbortTaskDone, Quiet
    <2> QED
      BY <2>3, <2>4
  <1>3. ASSUME CompletionLoop PROVE Quiet
    BY <1>3 DEF CompletionLoop, Completed, StageFails, FinishFailure,
                FailureBroadcastFails, Quiet, Active, tables, callers
  <1>4. ASSUME FailPending PROVE Quiet
    BY <1>4 DEF FailPending, Quiet, Active, callers
  <1> QED
    BY <1>1, <1>2, <1>3, <1>4 DEF Abort

\* Every step leaves a call under way with the future of its id.
LEMMA HoldsStep ==
    ASSUME TypeOK, Holds, [Next]_vars
    PROVE  Holds'
  <1>1. CASE UNCHANGED vars
    BY <1>1 DEF vars, tables, callers, Holds, Active
  <1>2. CASE Finished
    BY <1>1, <1>2 DEF Finished
  <1> QED
    BY <1>1, <1>2, CallerHolds, OtherHolds, HoldsKept DEF Next

\* While a call is under way no other call is admitted under its request id,
\* for any assignment of ids to calls (_request_id_is_reserved): whatever the
\* other coroutines do, the call keeps the completion future of its id until
\* it returns.
THEOREM IdsExclusive == Spec => []IdExclusive
  <1>1. Init => TypeOK /\ Holds
    BY TypeInit DEF Init, Holds, Active
  <1>2. TypeOK /\ Holds /\ [Next]_vars => (TypeOK /\ Holds)'
    BY TypeStep, HoldsStep
  <1>3. Holds => IdExclusive
    BY DEF Holds, Active, IdExclusive
  <1> QED
    BY <1>1, <1>2, <1>3, PTL DEF Spec

-----------------------------------------------------------------------------
(* No caller is stranded.                                                  *)

\* The caller waits for the request it has sent or is sending.
Pending(c) == caller[c] \in {"submitting", "waiting"}

\* An id that is tracked for another call has no caller under way.
Tracks == \A c \in Call : Active(c) => requests[IdOf[c]] \in {c, None}

\* A stream under way reads the queue of its id.
Listens == \A c \in Streams : Active(c) => queues[IdOf[c]] = c

\* Nothing of an earlier request is left when a call begins.
Fresh ==
    /\ \A i \in Id : requests[i] = None => partial[i] = {}
    /\ \A c \in Call : caller[c] = "new" => seen[c] = {}

Queued(c) == {queue[c][k] : k \in DOMAIN queue[c]}

\* The terminals a stream has seen or will see.
Heard(c) == seen[c] \cup {m.stage : m \in Queued(c)}

\* A stream learns of every terminal that counts for its request.
Reported ==
    \A c \in Streams : Pending(c) /\ requests[IdOf[c]] = c => partial[IdOf[c]] \subseteq Heard(c)

\* What ends a caller's wait for a request that is not tracked any more.
Woken(c) ==
    IF c \in Streams THEN Failure \in Queued(c) \/ info[c].terminals \subseteq Heard(c)
    ELSE future[c] # "pending"

Wakes == \A c \in Call : Pending(c) /\ requests[IdOf[c]] # c => Woken(c)

\* A stream that goes on has not seen all it waits for.
Unserved == \A c \in Streams : Pending(c) => ~(info[c].terminals \subseteq seen[c])

SInv == Holds /\ Tracks /\ Listens /\ Fresh /\ Reported /\ Wakes /\ Unserved

\* What most steps do to the callers: none begins to wait, and what they have
\* to read stays there.
Grow ==
    /\ seen' = seen
    /\ \A c \in Call : /\ Pending(c)' => Pending(c)
                       /\ Active(c)' => Active(c)
                       /\ caller'[c] = "new" => caller[c] = "new"
                       /\ info'[c].terminals = info[c].terminals
                       /\ future[c] # "pending" => future'[c] # "pending"
                       /\ Queued(c) \subseteq Queued(c)'
    /\ \A c \in Streams : Active(c)' => queues'[IdOf[c]] = c
    /\ \A i \in Id : /\ requests'[i] \in {requests[i], None}
                     /\ requests'[i] = None => partial'[i] = {}

\* A step after which callers have at least as much to read keeps the
\* invariant, if it tells those it takes the request from.
LEMMA GrowKeeps ==
    ASSUME TypeOK, SInv, Grow, Holds',
           \A c \in Streams : Pending(c) /\ requests'[IdOf[c]] = c
                              => partial'[IdOf[c]] \subseteq Heard(c)',
           \A c \in Call : Pending(c) /\ requests[IdOf[c]] = c /\ requests'[IdOf[c]] # c
                           => Woken(c)'
    PROVE  SInv'
  <1> USE CallAssumption
  <1>0. Streams \subseteq Call /\ \A c \in Call : IdOf[c] \in Id /\ c # None
    OBVIOUS
  <1>1. Tracks' /\ Listens' /\ Fresh'
    BY <1>0 DEF SInv, Grow, Tracks, Listens, Fresh
  <1>2. Reported'
    BY <1>0 DEF Grow, Reported
  <1>3. ASSUME NEW c \in Call PROVE Heard(c) \subseteq Heard(c)'
    BY DEF Grow, Heard
  <1>4. ASSUME NEW c \in Call, Woken(c) PROVE Woken(c)'
    <2>1. CASE c \in Streams
      BY <1>3, <1>4, <2>1 DEF Woken, Grow
    <2>2. CASE c \notin Streams
      BY <1>4, <2>2 DEF Woken, Grow
    <2> QED
      BY <2>1, <2>2
  <1>5. Wakes'
    <2> SUFFICES ASSUME NEW c \in Call, Pending(c)', requests'[IdOf[c]] # c PROVE Woken(c)'
      BY DEF Wakes
    <2>1. Pending(c)
      BY DEF Grow
    <2>2. CASE requests[IdOf[c]] = c
      BY <2>1, <2>2
    <2>3. CASE requests[IdOf[c]] # c
      BY <1>4, <2>1, <2>3 DEF SInv, Wakes
    <2> QED
      BY <2>2, <2>3
  <1>6. Unserved'
    BY <1>0 DEF SInv, Unserved, Grow
  <1> QED
    BY <1>1, <1>2, <1>5, <1>6 DEF SInv

\* A message put into the queue of an id is there for whoever reads it.
LEMMA PutQueued ==
    ASSUME TypeOK, NEW i \in Id, NEW m \in Message, Put(i, m), NEW c \in Call
    PROVE  /\ Queued(c) \subseteq Queued(c)'
           /\ c = queues[i] => m \in Queued(c)'
  <1>1. queue[c] \in Seq(Message)
    BY DEF TypeOK
  <1>2. CASE c = queues[i]
    <2> DEFINE q == queue[c]
    <2>1. queue'[c] = Append(q, m)
      BY <1>2 DEF Put
    <2>2. /\ Len(q) \in Nat /\ DOMAIN q = 1 .. Len(q) /\ Len(queue'[c]) = Len(q) + 1
          /\ queue'[c] \in Seq(Message)
          /\ \A k \in 1 .. Len(q) : queue'[c][k] = q[k]
          /\ queue'[c][Len(q) + 1] = m
      BY <1>1, <2>1, AppendProperties, LenProperties
    <2>3. DOMAIN queue'[c] = 1 .. Len(q) + 1
      BY <2>2, LenProperties
    <2>4. \A k \in 1 .. Len(q) : k \in 1 .. Len(q) + 1
      BY <2>2
    <2>5. Len(q) + 1 \in 1 .. Len(q) + 1
      BY <2>2
    <2> QED
      BY <2>2, <2>3, <2>4, <2>5 DEF Queued
  <1>3. CASE c # queues[i]
    BY <1>3 DEF Put, Queued
  <1> QED
    BY <1>2, <1>3

\* A step that changes neither queues nor results nor the tracked requests.
Still ==
    /\ UNCHANGED <<requests, partial, future, queue, seen>>
    /\ \A c \in Call : /\ Pending(c)' => Pending(c)
                       /\ Active(c)' => Active(c)
                       /\ caller'[c] = "new" => caller[c] = "new"
                       /\ info'[c].terminals = info[c].terminals
    /\ \A c \in Streams : Active(c)' => queues'[IdOf[c]] = c

\* A step that changes nothing a caller reads keeps the invariant.
LEMMA StillKeeps ==
    ASSUME TypeOK, SInv, Still, Holds' PROVE SInv'
  <1> USE CallAssumption
  <1>1. \A c \in Call : Queued(c)' = Queued(c) /\ Heard(c)' = Heard(c)
    BY DEF Still, Queued, Heard
  <1>2. Grow
    BY <1>1 DEF Still, Grow, SInv, Fresh
  <1>3. \A c \in Streams : Pending(c) /\ requests'[IdOf[c]] = c
                           => partial'[IdOf[c]] \subseteq Heard(c)'
    BY <1>1 DEF Still, SInv, Reported
  <1>4. requests' = requests
    BY DEF Still
  <1> QED
    BY <1>2, <1>3, <1>4, GrowKeeps

\* Terminals are part of a request from the beginning.
LEMMA TerminalsKept ==
    ASSUME TypeOK, NEW c \in Call, NEW v, NEW d \in Call
    PROVE  /\ [info EXCEPT ![c].state = v][d].terminals = info[d].terminals
           /\ [info EXCEPT ![c].owner = v][d].terminals = info[d].terminals
  BY DEF TypeOK, RequestInfo

\* Giving up a replica does not change what a request waits for.
LEMMA ReleaseKeepsTerminals ==
    ASSUME TypeOK, NEW c \in Call, NEW state, Release(c, state), NEW d \in Call
    PROVE  info'[d].terminals = info[d].terminals
  <1>1. info' = [info EXCEPT ![c].owner = None, ![c].state = state]
    BY DEF Release
  <1> QED
    BY <1>1 DEF TypeOK, RequestInfo

\* Callers that go on or return without a word from others.
LEMMA CallerStill ==
    ASSUME TypeOK, SInv, NEW c \in Call, Caller(c)
    PROVE  \/ Still
           \/ StreamNext(c)
           \/ \E pin \in Pins, k \in Replica, T \in (SUBSET Terminals) \ {{}} : Submit(c, pin, k, T)
  <1> USE CallAssumption
  <1>0. /\ Listens /\ caller \in [Call -> Place] /\ Streams \subseteq Call
        /\ queues \in [Id -> Call \cup {None}] /\ IdOf \in [Call -> Id]
        /\ requests \in [Id -> Call \cup {None}]
    BY DEF SInv, TypeOK
  <1>1. CASE SubmitRefused(c) \/ \E pin \in Pins, k \in Replica : SubmitRejected(c, pin, k)
    <2>1. /\ UNCHANGED <<requests, partial, future, queue, seen, info, queues>>
          /\ caller' = [caller EXCEPT ![c] = "done"]
      BY <1>1 DEF SubmitRefused, SubmitRejected, tables, results
    <2> QED
      BY <1>0, <2>1 DEF Still, Pending, Active, Listens
  <1>2. CASE Submitted(c)
    <2>1. /\ UNCHANGED <<requests, partial, future, queue, seen, queues>>
          /\ caller[c] = "submitting" /\ caller' = [caller EXCEPT ![c] = "waiting"]
      BY <1>2 DEF Submitted, tables, results
    <2>2. \A d \in Call : info'[d].terminals = info[d].terminals
      <3>1. CASE requests[IdOf[c]] = None
        BY <1>2, <3>1 DEF Submitted
      <3>2. CASE requests[IdOf[c]] # None
        BY <1>0, <1>2, <3>2, TerminalsKept DEF Submitted
      <3> QED
        BY <3>1, <3>2
    <2> QED
      BY <1>0, <2>1, <2>2 DEF Still, Pending, Active, Listens
  <1>3. CASE SubmitFails(c)
    <2>1. /\ UNCHANGED <<requests, partial, future, queue, seen, queues>>
          /\ caller[c] = "submitting" /\ caller' = [caller EXCEPT ![c] = Leaving(c)]
      BY <1>3 DEF SubmitFails, tables, results
    <2>2. \A d \in Call : info'[d].terminals = info[d].terminals
      <3>1. CASE requests[IdOf[c]] = None
        BY <1>3, <3>1 DEF SubmitFails
      <3>2. CASE requests[IdOf[c]] # None
        BY <1>0, <1>3, <3>2, TerminalsKept DEF SubmitFails
      <3> QED
        BY <3>1, <3>2
    <2> QED
      BY <1>0, <2>1, <2>2 DEF Still, Pending, Active, Listens, Leaving
  <1>4. CASE SubmitReturns(c)
    <2>1. /\ UNCHANGED <<requests, partial, future, queue, seen, info, queues>>
          /\ caller' = [caller EXCEPT ![c] = "done"]
      BY <1>4 DEF SubmitReturns, results
    <2> QED
      BY <1>0, <2>1 DEF Still, Pending, Active, Listens
  <1>5. CASE Cancel(c)
    <2>1. /\ UNCHANGED <<requests, partial, future, queue, seen, info, queues>>
          /\ caller[c] \in {"submitting", "waiting"}
          /\ caller' = [caller EXCEPT ![c] = Leaving(c)]
      BY <1>5 DEF Cancel, results
    <2> QED
      BY <1>0, <2>1 DEF Still, Pending, Active, Listens, Leaving
  <1>6. CASE CloseStream(c) \/ CancelClosing(c)
    <2>1. /\ UNCHANGED <<requests, partial, future, queue, seen, info>>
          /\ caller[c] \in {"closing", "aborting"}
          /\ \/ caller' = [caller EXCEPT ![c] = "aborting"] /\ queues' = queues
             \/ caller' = [caller EXCEPT ![c] = "done"] /\ queues' = Pop(queues, c)
      BY <1>6 DEF CloseStream, CancelClosing, results
    <2>2. ASSUME NEW d \in Streams, Active(d)' PROVE queues'[IdOf[d]] = d
      <3>1. Active(d) /\ queues[IdOf[d]] = d
        BY <1>0, <2>1, <2>2 DEF Active, Listens
      <3>2. CASE queues' = Pop(queues, c) /\ caller' = [caller EXCEPT ![c] = "done"]
        <4>1. d # c
          BY <1>0, <2>2, <3>2 DEF Active
        <4> QED
          BY <1>0, <3>1, <3>2, <4>1 DEF Pop
      <3> QED
        BY <2>1, <3>1, <3>2
    <2>3. \A d \in Call : /\ Pending(d)' => Pending(d)
                          /\ Active(d)' => Active(d)
                          /\ caller'[d] = "new" => caller[d] = "new"
      BY <1>0, <2>1 DEF Pending, Active
    <2> QED
      BY <2>1, <2>2, <2>3 DEF Still
  <1> QED
    BY <1>1, <1>2, <1>3, <1>4, <1>5, <1>6 DEF Caller

\* A new call finds nothing under its id, and nothing told to it before.
LEMMA SubmitKeeps ==
    ASSUME TypeOK, SInv, Holds', NEW c \in Call, NEW pin \in Pins, NEW k \in Replica,
           NEW T \in (SUBSET Terminals) \ {{}}, Submit(c, pin, k, T)
    PROVE  SInv'
  <1> USE CallAssumption
  <1> DEFINE i == IdOf[c]
  <1>0. /\ caller \in [Call -> Place] /\ Streams \subseteq Call /\ i \in Id
        /\ queues \in [Id -> Call \cup {None}] /\ IdOf \in [Call -> Id]
        /\ requests \in [Id -> Call \cup {None}] /\ info \in [Call -> RequestInfo]
        /\ future \in [Call -> FutureState]
    BY DEF TypeOK
  <1>1. /\ caller[c] = "new" /\ requests[i] = None /\ futures[i] = None /\ queues[i] = None
        /\ requests' = [requests EXCEPT ![i] = c]
        /\ future' = [future EXCEPT ![c] = "pending"]
        /\ queues' = IF c \in Streams THEN [queues EXCEPT ![i] = c] ELSE queues
        /\ caller' = [caller EXCEPT ![c] = "submitting"]
        /\ UNCHANGED <<partial, queue, seen>>
    BY DEF Submit, Reserved
  <1>2. /\ info'[c].terminals = T
        /\ \A d \in Call \ {c} : info'[d] = info[d]
    BY <1>0 DEF Submit
  <1>3. partial[i] = {} /\ seen[c] = {} /\ T # {}
    BY <1>0, <1>1 DEF SInv, Fresh
  <1>4. \A d \in Call \ {c} : /\ Active(d)' <=> Active(d)
                              /\ Pending(d)' <=> Pending(d)
                              /\ future'[d] = future[d]
    BY <1>0, <1>1 DEF Active, Pending
  <1>5. \A d \in Call \ {c} : Active(d) => IdOf[d] # i
    BY <1>0, <1>1 DEF SInv, Holds
  <1>6. \A d \in Call : Heard(d)' = Heard(d) /\ Queued(d)' = Queued(d)
    BY <1>1 DEF Heard, Queued
  <1>7. \A d \in Call : Pending(d) => Active(d)
    BY DEF Pending, Active
  <1>8. Tracks'
    <2> SUFFICES ASSUME NEW d \in Call, Active(d)' PROVE requests'[IdOf[d]] \in {d, None}
      BY DEF Tracks
    <2>1. CASE d = c
      BY <1>0, <1>1, <2>1
    <2>2. CASE d # c
      BY <1>0, <1>1, <1>4, <1>5, <2>2 DEF SInv, Tracks
    <2> QED
      BY <2>1, <2>2
  <1>9. Listens'
    <2> SUFFICES ASSUME NEW d \in Streams, Active(d)' PROVE queues'[IdOf[d]] = d
      BY DEF Listens
    <2>1. CASE d = c
      BY <1>0, <1>1, <2>1
    <2>2. CASE d # c
      BY <1>0, <1>1, <1>4, <1>5, <2>2 DEF SInv, Listens
    <2> QED
      BY <2>1, <2>2
  <1>10. Fresh'
    BY <1>0, <1>1 DEF SInv, Fresh
  <1>11. Reported'
    <2> SUFFICES ASSUME NEW d \in Streams, Pending(d)', requests'[IdOf[d]] = d
                 PROVE  partial'[IdOf[d]] \subseteq Heard(d)'
      BY DEF Reported
    <2>1. CASE d = c
      BY <1>1, <1>3, <2>1
    <2>2. CASE d # c
      BY <1>0, <1>1, <1>4, <1>5, <1>6, <1>7, <2>2 DEF SInv, Reported
    <2> QED
      BY <2>1, <2>2
  <1>12. Wakes'
    <2> SUFFICES ASSUME NEW d \in Call, Pending(d)', requests'[IdOf[d]] # d PROVE Woken(d)'
      BY DEF Wakes
    <2>1. d # c
      BY <1>0, <1>1
    <2>2. Pending(d) /\ requests[IdOf[d]] # d
      BY <1>0, <1>1, <1>4, <1>5, <1>7, <2>1
    <2>3. Woken(d)
      BY <2>2 DEF SInv, Wakes
    <2> QED
      BY <1>2, <1>4, <1>6, <2>1, <2>3 DEF Woken
  <1>13. Unserved'
    <2> SUFFICES ASSUME NEW d \in Streams, Pending(d)'
                 PROVE  ~(info'[d].terminals \subseteq seen'[d])
      BY DEF Unserved
    <2>1. CASE d = c
      BY <1>1, <1>2, <1>3, <2>1
    <2>2. CASE d # c
      BY <1>0, <1>1, <1>2, <1>4, <2>2 DEF SInv, Unserved
    <2> QED
      BY <2>1, <2>2
  <1> QED
    BY <1>8, <1>9, <1>10, <1>11, <1>12, <1>13 DEF SInv

\* A stream that reads a message and goes on has seen what it read.
LEMMA ReadKeeps ==
    ASSUME TypeOK, SInv, Holds', NEW c \in Call, StreamNext(c)
    PROVE  SInv'
  <1> USE CallAssumption
  <1> DEFINE q == queue[c]
             m == Head(queue[c])
  <1>0. /\ caller \in [Call -> Place] /\ Streams \subseteq Call
        /\ queue \in [Call -> Seq(Message)] /\ seen \in [Call -> SUBSET Terminals]
    BY DEF TypeOK
  <1>1. /\ c \in Streams /\ caller[c] = "waiting" /\ q # << >>
        /\ queue' = [queue EXCEPT ![c] = Tail(@)]
        /\ seen' = IF m.ok THEN [seen EXCEPT ![c] = @ \cup {m.stage}] ELSE seen
        /\ \/ caller' = [caller EXCEPT ![c] = "closing"]
           \/ caller' = caller /\ m.ok /\ ~(info[c].terminals \subseteq seen'[c])
        /\ UNCHANGED <<requests, futures, queues, partial, info, future>>
    BY DEF StreamNext, tables
  <1>2. /\ \A d \in Call \ {c} : /\ Active(d)' <=> Active(d)
                                 /\ Pending(d)' <=> Pending(d)
                                 /\ Heard(d)' = Heard(d) /\ Queued(d)' = Queued(d)
                                 /\ seen'[d] = seen[d] /\ caller'[d] = caller[d]
        /\ Active(c)' /\ Active(c) /\ Pending(c)
    <2>1. \A d \in Call \ {c} : caller'[d] = caller[d] /\ queue'[d] = queue[d] /\ seen'[d] = seen[d]
      BY <1>0, <1>1
    <2>2. caller'[c] \in {"closing", "waiting"}
      BY <1>0, <1>1
    <2> QED
      BY <1>1, <2>1, <2>2 DEF Active, Pending, Heard, Queued
  <1>3. /\ \A e \in Queued(c) : e = m \/ e \in Queued(c)'
    <2>1. q \in Seq(Message)
      BY <1>0
    <2>2. /\ Len(q) \in Nat /\ DOMAIN q = 1 .. Len(q) /\ Tail(q) \in Seq(Message)
          /\ Len(Tail(q)) = Len(q) - 1 /\ m = q[1]
          /\ \A j \in 1 .. Len(Tail(q)) : Tail(q)[j] = q[j + 1]
      BY <1>1, <2>1, HeadTailProperties, LenProperties
    <2>3. DOMAIN Tail(q) = 1 .. Len(q) - 1
      BY <2>2, LenProperties
    <2>4. queue'[c] = Tail(q)
      BY <1>0, <1>1
    <2>5. ASSUME NEW j \in DOMAIN q PROVE q[j] = m \/ q[j] \in Queued(c)'
      <3>1. CASE j = 1
        BY <2>2, <3>1
      <3>2. CASE j # 1
        <4>1. j - 1 \in 1 .. Len(q) - 1 /\ (j - 1) + 1 = j
          BY <2>2, <3>2
        <4>2. j - 1 \in DOMAIN queue'[c] /\ queue'[c][j - 1] = q[j]
          BY <2>2, <2>3, <2>4, <4>1
        <4> QED
          BY <4>2 DEF Queued
      <3> QED
        BY <3>1, <3>2
    <2> QED
      BY <2>5 DEF Queued
  <1> HIDE DEF q, m
  <1>4. ASSUME Pending(c)'
        PROVE  /\ m.ok /\ ~(info[c].terminals \subseteq seen'[c])
               /\ seen'[c] = seen[c] \cup {m.stage}
    BY <1>0, <1>1, <1>4 DEF Pending
  <1>5. ASSUME Pending(c)' PROVE Heard(c) \subseteq Heard(c)' /\ (Failure \in Queued(c) => Failure \in Queued(c)')
    <2>1. m.ok /\ seen'[c] = seen[c] \cup {m.stage}
      BY <1>4, <1>5
    <2>2. m # Failure
      BY <2>1 DEF Failure
    <2> QED
      BY <1>3, <2>1, <2>2 DEF Heard
  <1>6. Tracks' /\ Listens'
    BY <1>1, <1>2 DEF SInv, Tracks, Listens
  <1>7. Fresh'
    BY <1>1, <1>2 DEF SInv, Fresh, Active
  <1>8. Reported'
    <2> SUFFICES ASSUME NEW d \in Streams, Pending(d)', requests'[IdOf[d]] = d
                 PROVE  partial'[IdOf[d]] \subseteq Heard(d)'
      BY DEF Reported
    <2>1. Pending(d) /\ Heard(d) \subseteq Heard(d)'
      BY <1>2, <1>5
    <2> QED
      BY <1>1, <2>1 DEF SInv, Reported
  <1>9. Wakes'
    <2> SUFFICES ASSUME NEW d \in Call, Pending(d)', requests'[IdOf[d]] # d PROVE Woken(d)'
      BY DEF Wakes
    <2>1. /\ Pending(d) /\ Heard(d) \subseteq Heard(d)'
          /\ Failure \in Queued(d) => Failure \in Queued(d)'
      BY <1>2, <1>5
    <2>2. Woken(d)
      BY <1>1, <2>1 DEF SInv, Wakes
    <2>3. Failure' = Failure
      BY DEF Failure
    <2> QED
      BY <1>1, <2>1, <2>2, <2>3 DEF Woken
  <1>10. Unserved'
    <2> SUFFICES ASSUME NEW d \in Streams, Pending(d)'
                 PROVE  ~(info'[d].terminals \subseteq seen'[d])
      BY DEF Unserved
    <2>1. CASE d = c
      BY <1>1, <1>4, <2>1
    <2>2. CASE d # c
      BY <1>1, <1>2, <2>2 DEF SInv, Unserved
    <2> QED
      BY <2>1, <2>2
  <1> QED
    BY <1>6, <1>7, <1>8, <1>9, <1>10 DEF SInv

\* A request ends: everyone who waits under its id is told.
LEMMA EndKeeps ==
    ASSUME TypeOK, SInv, Holds', NEW i \in Id, NEW m \in Message, Put(i, m), Forget(i),
           UNCHANGED <<caller, seen, queues>>,
           \A c \in Call : info'[c].terminals = info[c].terminals,
           \A c \in Call : future[c] # "pending" => future'[c] # "pending",
           \A c \in Call : c = futures[i] => future'[c] # "pending",
           \/ m = Failure
           \/ \A c \in Streams : Pending(c) /\ IdOf[c] = i /\ requests[i] = c
                                 => info[c].terminals \subseteq Heard(c) \cup {m.stage}
    PROVE  SInv'
  <1> USE CallAssumption
  <1>0. /\ requests \in [Id -> Call \cup {None}] /\ partial \in [Id -> SUBSET Terminals]
        /\ Streams \subseteq Call /\ IdOf \in [Call -> Id]
    BY DEF TypeOK
  <1>1. /\ requests' = [requests EXCEPT ![i] = None]
        /\ partial' = [partial EXCEPT ![i] = {}]
    BY DEF Forget
  <1>2. \A c \in Call : Queued(c) \subseteq Queued(c)' /\ (c = queues[i] => m \in Queued(c)')
    BY PutQueued
  <1>3. \A c \in Call : (Pending(c)' <=> Pending(c)) /\ (Active(c)' <=> Active(c))
    BY DEF Pending, Active
  <1>4. Grow
    BY <1>0, <1>1, <1>2, <1>3 DEF Grow, SInv, Listens, Fresh
  <1>5. \A c \in Call : Heard(c) \subseteq Heard(c)' /\ (c = queues[i] => m.stage \in Heard(c)')
    BY <1>2 DEF Heard
  <1>6. ASSUME NEW c \in Streams, Pending(c), requests'[IdOf[c]] = c
        PROVE  partial'[IdOf[c]] \subseteq Heard(c)'
    <2>1. IdOf[c] # i /\ requests[IdOf[c]] = c /\ partial'[IdOf[c]] = partial[IdOf[c]]
      BY <1>0, <1>1, <1>6
    <2> QED
      BY <1>5, <1>6, <2>1 DEF SInv, Reported
  <1>7. ASSUME NEW c \in Call, Pending(c), requests[IdOf[c]] = c, requests'[IdOf[c]] # c
        PROVE  Woken(c)'
    <2>1. IdOf[c] = i /\ Active(c)
      BY <1>0, <1>1, <1>7 DEF Pending, Active
    <2>2. CASE c \in Streams
      <3>1. c = queues[i]
        BY <2>1, <2>2 DEF SInv, Listens
      <3>2. CASE m = Failure
        BY <1>2, <2>2, <3>1, <3>2 DEF Woken, Failure
      <3>3. CASE info[c].terminals \subseteq Heard(c) \cup {m.stage}
        <4>1. info'[c].terminals \subseteq Heard(c)'
          BY <1>5, <3>1, <3>3
        <4> QED
          BY <2>2, <4>1 DEF Woken
      <3> QED
        BY <1>7, <2>1, <2>2, <3>2, <3>3
    <2>3. CASE c \notin Streams
      <3>1. futures[i] = c
        BY <2>1 DEF SInv, Holds
      <3> QED
        BY <2>3, <3>1 DEF Woken
    <2> QED
      BY <2>2, <2>3
  <1> QED
    BY <1>4, <1>6, <1>7, GrowKeeps

\* _reject_completion_future settles the future of an id.
LEMMA RejectSettles ==
    ASSUME NEW i \in Id, Reject(i), NEW c \in Call
    PROVE  /\ future[c] # "pending" => future'[c] # "pending"
           /\ c = futures[i] => future'[c] # "pending"
  BY DEF Reject

\* The message that fails a stream is a message.
LEMMA FailureType == Failure \in Message
  BY DEF Message

\* The abort tasks.
LEMMA AbortKeeps ==
    ASSUME TypeOK, SInv, Holds', NEW i \in Id, Abort(i)
    PROVE  SInv'
  <1> USE CallAssumption
  <1>0. /\ caller \in [Call -> Place] /\ Streams \subseteq Call
        /\ queues \in [Id -> Call \cup {None}] /\ IdOf \in [Call -> Id]
        /\ requests \in [Id -> Call \cup {None}]
    BY DEF TypeOK
  <1>1. CASE \/ AbortCall(i) \/ AbortFails(i)
             \/ FinishAbort(i) /\ requests[i] = None
    <2>1. UNCHANGED <<requests, partial, info, future, queue, queues, caller, seen>>
      BY <1>1 DEF AbortCall, AbortFails, FinishAbort, results, callers
    <2>2. Still
      BY <2>1 DEF Still, Pending, Active, SInv, Listens
    <2> QED
      BY <2>2, StillKeeps
  <1>2. CASE FinishAbort(i) /\ requests[i] # None
    <2>1. /\ Release(requests[i], "aborted") /\ Reject(i) /\ Put(i, Failure) /\ Forget(i)
          /\ UNCHANGED <<caller, seen, queues>>
      BY <1>2 DEF FinishAbort, callers
    <2>2. requests[i] \in Call
      BY <1>0, <1>2
    <2>3. \A c \in Call : info'[c].terminals = info[c].terminals
      BY <2>1, <2>2, ReleaseKeepsTerminals
    <2> QED
      BY <2>1, <2>3, RejectSettles, FailureType, EndKeeps
  <1>3. CASE AbortTaskDone(i)
    <2> DEFINE waiting == {c \in Call : IdOf[c] = i /\ caller[c] = "aborting"}
    <2>1. /\ caller' = [c \in Call |-> IF c \in waiting THEN "done" ELSE caller[c]]
          /\ queues' = IF queues[i] \in waiting THEN [queues EXCEPT ![i] = None] ELSE queues
          /\ UNCHANGED <<requests, partial, info, future, queue, seen>>
      BY <1>3 DEF AbortTaskDone, results
    <2>2. \A c \in Call : /\ Pending(c)' => Pending(c)
                          /\ Active(c)' => Active(c) /\ c \notin waiting
                          /\ caller'[c] = "new" => caller[c] = "new"
      BY <2>1 DEF Pending, Active
    <2> HIDE DEF waiting
    <2>3. ASSUME NEW c \in Streams, Active(c)' PROVE queues'[IdOf[c]] = c
      <3>1. queues[IdOf[c]] = c /\ c \notin waiting
        BY <1>0, <2>2, <2>3 DEF SInv, Listens
      <3> QED
        BY <1>0, <2>1, <3>1
    <2>4. Still
      BY <2>1, <2>2, <2>3 DEF Still
    <2> QED
      BY <2>4, StillKeeps
  <1> QED
    BY <1>1, <1>2, <1>3 DEF Abort

\* A completion that counts.
LEMMA CompleteKeeps ==
    ASSUME TypeOK, SInv, Holds', NEW i \in Id, NEW c \in Call, NEW s \in Terminals,
           requests[i] = c, Complete(i, c, s), UNCHANGED <<caller, seen, queues>>
    PROVE  SInv'
  <1> USE CallAssumption
  <1> DEFINE expected == info[c].terminals
             reported == partial[i] \cup {s}
             m == [stage |-> s, ok |-> TRUE]
  <1>0. /\ Streams \subseteq Call /\ IdOf \in [Call -> Id]
        /\ requests \in [Id -> Call \cup {None}] /\ partial \in [Id -> SUBSET Terminals]
        /\ expected \in SUBSET Terminals /\ m \in Message /\ m.stage = s
    BY DEF TypeOK, RequestInfo, Message
  <1>1. CASE s \notin expected
    <2>1. UNCHANGED <<requests, partial, info, future, queue>>
      BY <1>1 DEF Complete, results
    <2>2. Still
      BY <2>1 DEF Still, Pending, Active, SInv, Listens
    <2> QED
      BY <2>2, StillKeeps
  <1>2. CASE s \in expected /\ (Cardinality(expected) <= 1 \/ reported = expected)
    <2>1. /\ Put(i, m) /\ Release(c, "completed") /\ Forget(i)
          /\ future' = [d \in Call |-> IF d = futures[i] /\ future[d] = "pending"
                                       THEN "result" ELSE future[d]]
      BY <1>2 DEF Complete
    <2>2. \A d \in Call : info'[d].terminals = info[d].terminals
      BY <2>1, ReleaseKeepsTerminals
    <2>3. \A d \in Call : /\ future[d] # "pending" => future'[d] # "pending"
                          /\ d = futures[i] => future'[d] # "pending"
      BY <2>1
    <2>4. expected \subseteq reported
      <3>1. CASE Cardinality(expected) <= 1
        <4>1. IsFiniteSet(expected)
          BY <1>0, TerminalAssumption, FS_Subset
        <4>2. IsFiniteSet(expected \ {s}) /\ Cardinality(expected \ {s}) = Cardinality(expected) - 1
              /\ Cardinality(expected \ {s}) \in Nat /\ Cardinality(expected) \in Nat
          BY <1>2, <4>1, FS_RemoveElement, FS_CardinalityType
        <4>3. Cardinality(expected \ {s}) = 0
          BY <3>1, <4>2
        <4>4. expected \ {s} = {}
          BY <4>2, <4>3, FS_EmptySet
        <4> QED
          BY <4>4
      <3> QED
        BY <1>2, <3>1
    <2>5. \A d \in Streams : Pending(d) /\ IdOf[d] = i /\ requests[i] = d
                             => info[d].terminals \subseteq Heard(d) \cup {m.stage}
      BY <1>0, <2>4 DEF SInv, Reported
    <2> HIDE DEF m
    <2> QED
      BY <1>0, <2>1, <2>2, <2>3, <2>5, EndKeeps
  <1>3. CASE s \in expected /\ ~(Cardinality(expected) <= 1 \/ reported = expected)
    <2>1. /\ Put(i, m) /\ partial' = [partial EXCEPT ![i] = reported]
          /\ UNCHANGED <<requests, info, future>>
      BY <1>3 DEF Complete
    <2> HIDE DEF m
    <2>2. \A d \in Call : Queued(d) \subseteq Queued(d)' /\ (d = queues[i] => m \in Queued(d)')
      BY <1>0, <2>1, PutQueued
    <2>3. \A d \in Call : (Pending(d)' <=> Pending(d)) /\ (Active(d)' <=> Active(d))
      BY DEF Pending, Active
    <2>4. Grow
      BY <1>0, <2>1, <2>2, <2>3 DEF Grow, SInv, Listens, Fresh
    <2>5. \A d \in Call : Heard(d) \subseteq Heard(d)' /\ (d = queues[i] => s \in Heard(d)')
      BY <1>0, <2>2 DEF Heard
    <2>6. ASSUME NEW d \in Streams, Pending(d), requests'[IdOf[d]] = d
          PROVE  partial'[IdOf[d]] \subseteq Heard(d)'
      <3>1. requests[IdOf[d]] = d /\ Active(d)
        BY <2>1, <2>6 DEF Pending, Active
      <3>2. partial[IdOf[d]] \subseteq Heard(d)'
        BY <2>5, <2>6, <3>1 DEF SInv, Reported
      <3>3. CASE IdOf[d] = i
        <4>1. queues[i] = d
          BY <3>1, <3>3 DEF SInv, Listens
        <4> QED
          BY <1>0, <2>1, <2>5, <3>2, <3>3, <4>1
      <3>4. CASE IdOf[d] # i
        BY <1>0, <2>1, <3>2, <3>4
      <3> QED
        BY <3>3, <3>4
    <2> QED
      BY <2>1, <2>4, <2>6, GrowKeeps
  <1> QED
    BY <1>1, <1>2, <1>3

\* The completion loop.
LEMMA CompletionKeeps ==
    ASSUME TypeOK, SInv, Holds', CompletionLoop
    PROVE  SInv'
  <1> USE CallAssumption
  <1>0. /\ Streams \subseteq Call /\ IdOf \in [Call -> Id]
        /\ requests \in [Id -> Call \cup {None}] /\ handler \in Call \cup {None}
    BY DEF TypeOK
  <1>1. ASSUME NEW c \in Call, NEW s \in Terminals, Completed(c, s) PROVE SInv'
    <2>1. UNCHANGED <<caller, seen, queues>>
      BY <1>1 DEF Completed, callers
    <2>2. CASE requests[IdOf[c]] = None
      <3>1. UNCHANGED <<requests, partial, info, future, queue>>
        BY <1>1, <2>2 DEF Completed, results
      <3>2. Still
        BY <2>1, <3>1 DEF Still, Pending, Active, SInv, Listens
      <3> QED
        BY <3>2, StillKeeps
    <2>3. CASE requests[IdOf[c]] # None
      <3>1. PICK i \in Id, t \in Call : i = IdOf[c] /\ t = requests[i]
        BY <1>0, <2>3
      <3>2. Complete(i, t, s)
        BY <1>1, <2>3, <3>1 DEF Completed
      <3> QED
        BY <2>1, <3>1, <3>2, CompleteKeeps
    <2> QED
      BY <2>2, <2>3
  <1>2. ASSUME NEW c \in Call, NEW s \in Terminals, StageFails(c, s) PROVE SInv'
    <2>1. UNCHANGED <<requests, partial, future, queue, caller, seen, queues>>
      BY <1>2 DEF StageFails, tables, results, callers
    <2>2. \A d \in Call : info'[d].terminals = info[d].terminals
      <3>1. CASE requests[IdOf[c]] = None
        BY <1>2, <3>1 DEF StageFails
      <3>2. CASE requests[IdOf[c]] # None
        <4>1. PICK t \in Call : t = requests[IdOf[c]]
          BY <1>0, <3>2
        <4>2. info' = [info EXCEPT ![t].state = "failed"]
          BY <1>2, <3>2, <4>1 DEF StageFails
        <4> QED
          BY <4>2, TerminalsKept
      <3> QED
        BY <3>1, <3>2
    <2>3. Still
      BY <2>1, <2>2 DEF Still, Pending, Active, SInv, Listens
    <2> QED
      BY <2>3, StillKeeps
  <1>3. CASE FinishFailure
    <2>1. PICK h \in Call, i \in Id : h = handler /\ i = IdOf[h]
      BY <1>0, <1>3 DEF FinishFailure
    <2>2. /\ Reject(i) /\ Put(i, Failure) /\ Forget(i) /\ Release(h, info[h].state)
          /\ UNCHANGED <<caller, seen, queues>>
      BY <1>3, <2>1 DEF FinishFailure, callers
    <2>3. \A d \in Call : info'[d].terminals = info[d].terminals
      BY <2>2, ReleaseKeepsTerminals
    <2> QED
      BY <2>2, <2>3, RejectSettles, FailureType, EndKeeps
  <1>4. CASE FailureBroadcastFails
    <2>1. UNCHANGED <<requests, partial, info, future, queue, queues, caller, seen>>
      BY <1>4 DEF FailureBroadcastFails, tables, results, callers
    <2>2. Still
      BY <2>1 DEF Still, Pending, Active, SInv, Listens
    <2> QED
      BY <2>2, StillKeeps
  <1> QED
    BY <1>1, <1>2, <1>3, <1>4 DEF CompletionLoop

\* The runtime monitor tells everyone at once.
LEMMA FailPendingKeeps ==
    ASSUME TypeOK, SInv, Holds', FailPending
    PROVE  SInv'
  <1> USE CallAssumption
  <1>0. /\ Streams \subseteq Call /\ IdOf \in [Call -> Id]
        /\ requests \in [Id -> Call \cup {None}] /\ queue \in [Call -> Seq(Message)]
    BY DEF TypeOK
  <1>1. /\ requests' = [i \in Id |-> None] /\ partial' = [i \in Id |-> {}]
        /\ UNCHANGED <<caller, seen, queues>>
    BY DEF FailPending, callers
  <1>2. \A c \in Call : info'[c].terminals = info[c].terminals
    BY ZenonT(60) DEF FailPending, TypeOK, RequestInfo
  <1>3. \A c \in Call : /\ future[c] # "pending" => future'[c] # "pending"
                        /\ requests[IdOf[c]] # None /\ futures[IdOf[c]] = c
                           => future'[c] # "pending"
    BY DEF FailPending
  <1>4. ASSUME NEW c \in Call
        PROVE  /\ Queued(c) \subseteq Queued(c)'
               /\ requests[IdOf[c]] # None /\ queues[IdOf[c]] = c => Failure \in Queued(c)'
    <2>1. CASE requests[IdOf[c]] # None /\ queues[IdOf[c]] = c
      <3> DEFINE q == queue[c]
      <3>1. queue'[c] = Append(q, Failure) /\ q \in Seq(Message)
        BY <1>0, <2>1 DEF FailPending
      <3>2. /\ Len(q) \in Nat /\ DOMAIN q = 1 .. Len(q) /\ Len(queue'[c]) = Len(q) + 1
            /\ queue'[c] \in Seq(Message)
            /\ \A k \in 1 .. Len(q) : queue'[c][k] = q[k]
            /\ queue'[c][Len(q) + 1] = Failure
        BY <3>1, FailureType, AppendProperties, LenProperties
      <3>3. DOMAIN queue'[c] = 1 .. Len(q) + 1
        BY <3>2, LenProperties
      <3>4. \A k \in 1 .. Len(q) : k \in 1 .. Len(q) + 1
        BY <3>2
      <3>5. Len(q) + 1 \in 1 .. Len(q) + 1
        BY <3>2
      <3> QED
        BY <3>2, <3>3, <3>4, <3>5 DEF Queued
    <2>2. CASE ~(requests[IdOf[c]] # None /\ queues[IdOf[c]] = c)
      BY <2>2 DEF FailPending, Queued
    <2> QED
      BY <2>1, <2>2
  <1>5. \A c \in Call : (Pending(c)' <=> Pending(c)) /\ (Active(c)' <=> Active(c))
    BY <1>1 DEF Pending, Active
  <1>6. Grow
    BY <1>0, <1>1, <1>2, <1>3, <1>4, <1>5 DEF Grow, SInv, Listens
  <1>7. ASSUME NEW c \in Call, Pending(c), requests[IdOf[c]] = c PROVE Woken(c)'
    <2>1. Active(c)
      BY <1>7 DEF Pending, Active
    <2>2. CASE c \in Streams
      <3>1. Failure \in Queued(c)'
        BY <1>0, <1>4, <1>7, <2>1, <2>2 DEF SInv, Listens
      <3> QED
        BY <2>2, <3>1 DEF Woken, Failure
    <2>3. CASE c \notin Streams
      <3>1. future'[c] # "pending"
        BY <1>0, <1>3, <1>7, <2>1 DEF SInv, Holds
      <3> QED
        BY <2>3, <3>1 DEF Woken
    <2> QED
      BY <2>2, <2>3
  <1>8. \A c \in Streams : requests'[IdOf[c]] # c
    BY <1>0, <1>1
  <1> QED
    BY <1>6, <1>7, <1>8, GrowKeeps

\* Every step of the coordinator and of its callers keeps the invariant.
LEMMA SInvStep ==
    ASSUME TypeOK, SInv, [Next]_vars
    PROVE  SInv'
  <1>1. Holds'
    BY HoldsStep DEF SInv
  <1>2. CASE UNCHANGED vars
    <2>1. Still
      BY <1>2 DEF vars, tables, results, callers, Still, Pending, Active, SInv, Listens
    <2> QED
      BY <1>1, <2>1, StillKeeps
  <1>3. CASE Finished
    BY <1>2, <1>3 DEF Finished
  <1>4. ASSUME NEW c \in Call, Caller(c) PROVE SInv'
    BY <1>1, <1>4, CallerStill, StillKeeps, ReadKeeps, SubmitKeeps
  <1> QED
    BY <1>1, <1>2, <1>3, <1>4, AbortKeeps, CompletionKeeps, FailPendingKeeps DEF Next

-----------------------------------------------------------------------------
(* A tracked request has a message to come.                                *)

\* The terminals that have reported are expected ones, and not all of them.
Partials ==
    \A c \in Call : requests[IdOf[c]] = c =>
        /\ partial[IdOf[c]] \subseteq info[c].terminals
        /\ partial[IdOf[c]] # info[c].terminals

\* The expected terminals that have not reported will, or the completion loop
\* is about to fail the request.
Due ==
    loop => \A c \in Call : caller[c] = "waiting" /\ requests[IdOf[c]] = c =>
        handler = c \/ info[c].terminals \ partial[IdOf[c]] \subseteq work[c]

DInv == Partials /\ Due

\* The request of d is the one it was.
SameRequest(d) ==
    requests'[IdOf[d]] = d =>
        /\ requests[IdOf[d]] = d
        /\ partial'[IdOf[d]] = partial[IdOf[d]]
        /\ info'[d].terminals = info[d].terminals

\* So is what its caller waits for.
SameWait(d) ==
    caller'[d] = "waiting" /\ requests'[IdOf[d]] = d =>
        /\ caller[d] = "waiting" /\ work'[d] = work[d]
        /\ handler = d => handler' = d

\* A step that keeps requests and waits, or ends them, keeps the invariant.
LEMMA SameKeeps ==
    ASSUME DInv, loop' => loop, \A d \in Call : SameRequest(d) /\ SameWait(d)
    PROVE  DInv'
  <1>1. Partials'
    BY DEF DInv, Partials, SameRequest
  <1>2. Due'
    <2> SUFFICES ASSUME loop', NEW d \in Call, caller'[d] = "waiting", requests'[IdOf[d]] = d
                 PROVE  handler' = d \/ info'[d].terminals \ partial'[IdOf[d]] \subseteq work'[d]
      BY DEF Due
    <2>1. SameRequest(d) /\ SameWait(d)
      OBVIOUS
    <2>2. handler = d \/ info[d].terminals \ partial[IdOf[d]] \subseteq work[d]
      BY <2>1 DEF DInv, Due, SameRequest, SameWait
    <2> QED
      BY <2>1, <2>2 DEF SameRequest, SameWait
  <1> QED
    BY <1>1, <1>2 DEF DInv

\* submit() and stream(): a call that is sent expects every terminal to report.
LEMMA CallerDue ==
    ASSUME TypeOK, SInv, DInv, NEW c \in Call, Caller(c)
    PROVE  DInv'
  <1> USE CallAssumption
  <1>0. /\ caller \in [Call -> Place] /\ IdOf \in [Call -> Id]
        /\ requests \in [Id -> Call \cup {None}] /\ info \in [Call -> RequestInfo]
        /\ partial \in [Id -> SUBSET Terminals] /\ work \in [Call -> SUBSET Terminals]
    BY DEF TypeOK
  <1>1. ASSUME NEW pin \in Pins, NEW k \in Replica,
               NEW T \in (SUBSET Terminals) \ {{}}, Submit(c, pin, k, T)
        PROVE  DInv'
    <2>1. /\ requests[IdOf[c]] = None /\ requests' = [requests EXCEPT ![IdOf[c]] = c]
          /\ caller' = [caller EXCEPT ![c] = "submitting"]
          /\ UNCHANGED <<partial, work, handler, loop>>
      BY <1>1 DEF Submit, Reserved
    <2>2. info'[c].terminals = T /\ \A d \in Call \ {c} : info'[d] = info[d]
      BY <1>0, <1>1 DEF Submit
    <2>3. partial[IdOf[c]] = {} /\ T # {}
      BY <1>0, <2>1 DEF SInv, Fresh
    <2>4. ASSUME NEW d \in Call, requests'[IdOf[d]] = d, d # c
          PROVE  requests[IdOf[d]] = d
      BY <1>0, <2>1, <2>4
    <2>5. Partials'
      <3> SUFFICES ASSUME NEW d \in Call, requests'[IdOf[d]] = d
                   PROVE  /\ partial'[IdOf[d]] \subseteq info'[d].terminals
                          /\ partial'[IdOf[d]] # info'[d].terminals
        BY DEF Partials
      <3>1. CASE d = c
        BY <2>1, <2>2, <2>3, <3>1
      <3>2. CASE d # c
        BY <2>1, <2>2, <2>4, <3>2 DEF DInv, Partials
      <3> QED
        BY <3>1, <3>2
    <2>6. Due'
      <3> SUFFICES ASSUME loop', NEW d \in Call, caller'[d] = "waiting", requests'[IdOf[d]] = d
                   PROVE  handler' = d \/ info'[d].terminals \ partial'[IdOf[d]] \subseteq work'[d]
        BY DEF Due
      <3>1. d # c /\ caller[d] = "waiting"
        BY <1>0, <2>1
      <3> QED
        BY <2>1, <2>2, <2>4, <3>1 DEF DInv, Due
    <2> QED
      BY <2>5, <2>6 DEF DInv
  <1>2. CASE SubmitRefused(c) \/ \E pin \in Pins, k \in Replica : SubmitRejected(c, pin, k)
    <2>1. /\ UNCHANGED <<requests, partial, info, work, handler, loop>>
          /\ caller' = [caller EXCEPT ![c] = "done"]
      BY <1>2 DEF SubmitRefused, SubmitRejected, tables
    <2> QED
      BY <1>0, <2>1, SameKeeps DEF SameRequest, SameWait
  <1>3. ASSUME Submitted(c) PROVE DInv'
    <2>1. /\ UNCHANGED <<requests, partial, handler, loop>>
          /\ caller' = [caller EXCEPT ![c] = "waiting"]
          /\ work' = [work EXCEPT ![c] = Terminals]
      BY <1>3 DEF Submitted, tables
    <2>2. \A d \in Call : info'[d].terminals = info[d].terminals
      <3>1. CASE requests[IdOf[c]] = None
        BY <1>3, <3>1 DEF Submitted
      <3>2. CASE requests[IdOf[c]] # None
        BY <1>0, <1>3, <3>2, TerminalsKept DEF Submitted
      <3> QED
        BY <3>1, <3>2
    <2>3. Partials'
      BY <2>1, <2>2 DEF DInv, Partials
    <2>4. Due'
      <3> SUFFICES ASSUME loop', NEW d \in Call, caller'[d] = "waiting", requests'[IdOf[d]] = d
                   PROVE  handler' = d \/ info'[d].terminals \ partial'[IdOf[d]] \subseteq work'[d]
        BY DEF Due
      <3>1. CASE d = c
        <4>1. info[c].terminals \subseteq Terminals
          BY <1>0 DEF RequestInfo
        <4> QED
          BY <1>0, <2>1, <2>2, <3>1, <4>1
      <3>2. CASE d # c
        BY <1>0, <2>1, <2>2, <3>2 DEF DInv, Due
      <3> QED
        BY <3>1, <3>2
    <2> QED
      BY <2>3, <2>4 DEF DInv
  <1>4. CASE SubmitFails(c)
    <2>1. /\ UNCHANGED <<requests, partial, work, handler, loop>>
          /\ caller' = [caller EXCEPT ![c] = Leaving(c)] /\ Leaving(c) # "waiting"
      BY <1>4 DEF SubmitFails, tables, Leaving
    <2>2. \A d \in Call : info'[d].terminals = info[d].terminals
      <3>1. CASE requests[IdOf[c]] = None
        BY <1>4, <3>1 DEF SubmitFails
      <3>2. CASE requests[IdOf[c]] # None
        BY <1>0, <1>4, <3>2, TerminalsKept DEF SubmitFails
      <3> QED
        BY <3>1, <3>2
    <2> QED
      BY <1>0, <2>1, <2>2, SameKeeps DEF SameRequest, SameWait
  <1>5. CASE Cancel(c)
    <2>1. /\ UNCHANGED <<requests, partial, info, handler, loop>>
          /\ caller' = [caller EXCEPT ![c] = Leaving(c)] /\ Leaving(c) # "waiting"
      BY <1>5 DEF Cancel, Leaving
    <2>2. \A d \in Call \ {c} : work'[d] = work[d]
      BY <1>0, <1>5 DEF Cancel
    <2>3. \A d \in Call : caller'[d] = "waiting" => d # c /\ caller[d] = "waiting"
      BY <1>0, <2>1
    <2> QED
      BY <2>1, <2>2, <2>3, SameKeeps DEF SameRequest, SameWait
  <1>6. CASE SubmitReturns(c) \/ StreamNext(c) \/ CloseStream(c) \/ CancelClosing(c)
    <2>1. /\ UNCHANGED <<requests, partial, info, work, handler, loop>>
          /\ \/ caller' = caller
             \/ \E p \in {"done", "closing", "aborting"} : caller' = [caller EXCEPT ![c] = p]
      BY <1>6 DEF SubmitReturns, StreamNext, CloseStream, CancelClosing, tables
    <2>2. \A d \in Call : caller'[d] = "waiting" => caller[d] = "waiting"
      BY <1>0, <2>1
    <2> QED
      BY <2>1, <2>2, SameKeeps DEF SameRequest, SameWait
  <1> QED
    BY <1>1, <1>2, <1>3, <1>4, <1>5, <1>6 DEF Caller

\* The abort tasks end requests and nothing else.
LEMMA AbortDue ==
    ASSUME TypeOK, DInv, NEW i \in Id, Abort(i)
    PROVE  DInv'
  <1> USE CallAssumption
  <1>0. /\ IdOf \in [Call -> Id] /\ requests \in [Id -> Call \cup {None}]
        /\ partial \in [Id -> SUBSET Terminals]
    BY DEF TypeOK
  <1>1. CASE \/ AbortCall(i) \/ AbortFails(i) \/ AbortTaskDone(i)
             \/ FinishAbort(i) /\ requests[i] = None
    <2>1. /\ UNCHANGED <<requests, partial, info, work, handler, loop>>
          /\ \A d \in Call : caller'[d] = "waiting" => caller[d] = "waiting"
      BY <1>1 DEF AbortCall, AbortFails, AbortTaskDone, FinishAbort, callers
    <2> QED
      BY <2>1, SameKeeps DEF SameRequest, SameWait
  <1>2. CASE FinishAbort(i) /\ requests[i] # None
    <2>1. /\ Release(requests[i], "aborted") /\ UNCHANGED <<caller, work, handler, loop>>
          /\ requests' = [requests EXCEPT ![i] = None]
          /\ partial' = [partial EXCEPT ![i] = {}]
      BY <1>2 DEF FinishAbort, callers, Forget
    <2>2. \A d \in Call : info'[d].terminals = info[d].terminals
      BY <1>0, <1>2, <2>1, ReleaseKeepsTerminals
    <2>3. \A d \in Call : SameRequest(d)
      BY <1>0, <2>1, <2>2 DEF SameRequest
    <2> QED
      BY <2>1, <2>3, SameKeeps DEF SameWait
  <1> QED
    BY <1>1, <1>2 DEF Abort

\* A completion is taken from what is still to come, and counts for the request
\* its id is tracked for.
LEMMA CompletedDue ==
    ASSUME TypeOK, DInv, NEW c \in Call, NEW s \in Terminals, Completed(c, s)
    PROVE  DInv'
  <1> USE CallAssumption
  <1> DEFINE i == IdOf[c]
             t == requests[i]
  <1>0. /\ IdOf \in [Call -> Id] /\ requests \in [Id -> Call \cup {None}] /\ i \in Id
        /\ partial \in [Id -> SUBSET Terminals] /\ work \in [Call -> SUBSET Terminals]
    BY DEF TypeOK
  <1>1. /\ handler = None /\ UNCHANGED <<caller, handler, loop>>
        /\ work' = [work EXCEPT ![c] = @ \ {s}]
    BY DEF Completed, callers
  <1>2. \A d \in Call \ {c} : work'[d] = work[d]
    BY <1>0, <1>1
  <1>3. work'[c] = work[c] \ {s}
    BY <1>0, <1>1
  <1>4. CASE t = None \/ s \notin info[t].terminals
    <2>1. UNCHANGED <<requests, partial, info>>
      BY <1>4 DEF Completed, Complete
    <2>2. Partials'
      BY <2>1 DEF DInv, Partials
    <2>3. Due'
      <3> SUFFICES ASSUME loop', NEW d \in Call, caller'[d] = "waiting", requests'[IdOf[d]] = d
                   PROVE  info'[d].terminals \ partial'[IdOf[d]] \subseteq work'[d]
        BY DEF Due
      <3>1. info[d].terminals \ partial[IdOf[d]] \subseteq work[d]
        BY <1>1, <2>1 DEF DInv, Due
      <3>2. CASE d = c
        BY <1>3, <1>4, <2>1, <3>1, <3>2
      <3>3. CASE d # c
        BY <1>2, <2>1, <3>1, <3>3
      <3> QED
        BY <3>2, <3>3
    <2> QED
      BY <2>2, <2>3 DEF DInv
  <1>5. CASE t # None /\ s \in info[t].terminals
    <2>1. t \in Call
      BY <1>0, <1>5
    <2>2. \/ Release(t, "completed") /\ Forget(i)
          \/ /\ partial[i] \cup {s} # info[t].terminals
             /\ partial' = [partial EXCEPT ![i] = @ \cup {s}]
             /\ UNCHANGED <<requests, info>>
      BY <1>5 DEF Completed, Complete
    <2>3. CASE Release(t, "completed") /\ Forget(i)
      <3>1. \A d \in Call : info'[d].terminals = info[d].terminals
        BY <2>1, <2>3, ReleaseKeepsTerminals
      <3>2. \A d \in Call : requests'[IdOf[d]] = d =>
              /\ IdOf[d] # i /\ requests[IdOf[d]] = d
              /\ partial'[IdOf[d]] = partial[IdOf[d]]
        BY <1>0, <2>3 DEF Forget
      <3>3. \A d \in Call : requests'[IdOf[d]] = d => d # c
        BY <3>2
      <3>4. \A d \in Call : SameRequest(d) /\ SameWait(d)
        BY <1>1, <1>2, <3>1, <3>2, <3>3 DEF SameRequest, SameWait
      <3> QED
        BY <1>1, <3>4, SameKeeps
    <2>4. CASE /\ partial[i] \cup {s} # info[t].terminals
               /\ partial' = [partial EXCEPT ![i] = @ \cup {s}]
               /\ UNCHANGED <<requests, info>>
      <3>1. partial'[i] = partial[i] \cup {s} /\ \A j \in Id \ {i} : partial'[j] = partial[j]
        BY <1>0, <2>4
      <3>2. Partials'
        <4> SUFFICES ASSUME NEW d \in Call, requests[IdOf[d]] = d
                     PROVE  /\ partial'[IdOf[d]] \subseteq info[d].terminals
                            /\ partial'[IdOf[d]] # info[d].terminals
          BY <2>4 DEF Partials
        <4>1. CASE IdOf[d] = i
          <5>1. partial[i] \subseteq info[d].terminals /\ d = t
            BY <4>1 DEF DInv, Partials
          <5> QED
            BY <1>5, <2>4, <3>1, <4>1, <5>1
        <4>2. CASE IdOf[d] # i
          BY <1>0, <3>1, <4>2 DEF DInv, Partials
        <4> QED
          BY <4>1, <4>2
      <3>3. Due'
        <4> SUFFICES ASSUME loop', NEW d \in Call, caller'[d] = "waiting", requests'[IdOf[d]] = d
                     PROVE  info'[d].terminals \ partial'[IdOf[d]] \subseteq work'[d]
          BY DEF Due
        <4>1. info[d].terminals \ partial[IdOf[d]] \subseteq work[d]
          BY <1>1, <2>4 DEF DInv, Due
        <4>2. CASE IdOf[d] = i
          BY <1>2, <1>3, <2>4, <3>1, <4>1, <4>2
        <4>3. CASE IdOf[d] # i
          BY <1>0, <1>2, <2>4, <3>1, <4>1, <4>3
        <4> QED
          BY <4>2, <4>3
      <3> QED
        BY <3>2, <3>3 DEF DInv
    <2> QED
      BY <2>2, <2>3, <2>4
  <1> QED
    BY <1>4, <1>5

\* The rest of the completion loop, and the runtime monitor.
LEMMA FailureDue ==
    ASSUME TypeOK, DInv,
           \/ \E c \in Call, s \in Terminals : StageFails(c, s)
           \/ FinishFailure \/ FailureBroadcastFails \/ FailPending
    PROVE  DInv'
  <1> USE CallAssumption
  <1>0. /\ IdOf \in [Call -> Id] /\ requests \in [Id -> Call \cup {None}]
        /\ partial \in [Id -> SUBSET Terminals] /\ work \in [Call -> SUBSET Terminals]
        /\ handler \in Call \cup {None}
    BY DEF TypeOK
  <1>1. ASSUME NEW c \in Call, NEW s \in Terminals, StageFails(c, s) PROVE DInv'
    <2>1. /\ UNCHANGED <<requests, partial, caller, loop>> /\ handler = None
          /\ work' = [work EXCEPT ![c] = {}]
      BY <1>1 DEF StageFails, tables, callers
    <2>2. CASE requests[IdOf[c]] = None
      <3>1. info' = info /\ handler' = handler
        BY <1>1, <2>2 DEF StageFails
      <3>2. \A d \in Call : requests'[IdOf[d]] = d => d # c
        BY <2>1, <2>2
      <3>3. \A d \in Call \ {c} : work'[d] = work[d]
        BY <1>0, <2>1
      <3> QED
        BY <2>1, <3>1, <3>2, <3>3, SameKeeps DEF SameRequest, SameWait
    <2>3. CASE requests[IdOf[c]] # None
      <3>1. PICK t \in Call : t = requests[IdOf[c]]
        BY <1>0, <2>3
      <3>2. handler' = t /\ info' = [info EXCEPT ![t].state = "failed"]
        BY <1>1, <2>3, <3>1 DEF StageFails
      <3>3. \A d \in Call : info'[d].terminals = info[d].terminals
        BY <3>2, TerminalsKept
      <3>4. Partials'
        BY <2>1, <3>3 DEF DInv, Partials
      <3>5. Due'
        <4> SUFFICES ASSUME loop', NEW d \in Call, caller'[d] = "waiting",
                            requests'[IdOf[d]] = d, d # t
                     PROVE  info'[d].terminals \ partial'[IdOf[d]] \subseteq work'[d]
          BY <3>2 DEF Due
        <4>1. d # c
          BY <2>1, <3>1
        <4>2. work'[d] = work[d]
          BY <1>0, <2>1, <4>1
        <4> QED
          BY <2>1, <3>3, <4>2 DEF DInv, Due
      <3> QED
        BY <3>4, <3>5 DEF DInv
    <2> QED
      BY <2>2, <2>3
  <1>2. CASE FinishFailure
    <2>1. PICK h \in Call, i \in Id : h = handler /\ i = IdOf[h]
      BY <1>0, <1>2 DEF FinishFailure
    <2>2. /\ Release(h, info[h].state) /\ UNCHANGED <<caller, work, loop>>
          /\ requests' = [requests EXCEPT ![i] = None]
          /\ partial' = [partial EXCEPT ![i] = {}]
      BY <1>2, <2>1 DEF FinishFailure, callers, Forget
    <2>3. \A d \in Call : info'[d].terminals = info[d].terminals
      BY <2>2, ReleaseKeepsTerminals
    <2>4. \A d \in Call : requests'[IdOf[d]] = d =>
            IdOf[d] # i /\ requests[IdOf[d]] = d /\ partial'[IdOf[d]] = partial[IdOf[d]]
      BY <1>0, <2>2
    <2>5. \A d \in Call : requests'[IdOf[d]] = d => handler # d
      BY <2>1, <2>4
    <2>6. \A d \in Call : SameRequest(d) /\ SameWait(d)
      BY <2>2, <2>3, <2>4, <2>5 DEF SameRequest, SameWait
    <2> QED
      BY <2>2, <2>6, SameKeeps
  <1>3. CASE FailureBroadcastFails
    <2>1. UNCHANGED <<requests, partial, info>> /\ ~loop'
      BY <1>3 DEF FailureBroadcastFails, tables
    <2> QED
      BY <2>1 DEF DInv, Partials, Due
  <1>4. CASE FailPending
    <2>1. \A d \in Call : requests'[IdOf[d]] # d
      BY <1>0, <1>4 DEF FailPending
    <2> QED
      BY <2>1 DEF DInv, Partials, Due
  <1> QED
    BY <1>1, <1>2, <1>3, <1>4

\* Every step keeps a message to come for every tracked request.
LEMMA DInvStep ==
    ASSUME TypeOK, SInv, DInv, [Next]_vars
    PROVE  DInv'
  <1>1. CASE UNCHANGED vars
    BY <1>1 DEF vars, tables, callers, DInv, Partials, Due
  <1>2. CASE Finished
    BY <1>1, <1>2 DEF Finished
  <1> QED
    BY <1>1, <1>2, CallerDue, AbortDue, CompletedDue, FailureDue DEF Next, CompletionLoop

\* While the completion loop runs, a caller of submit() or stream() that waits
\* is woken: what ended its request (_run_abort, _handle_completion,
\* fail_pending_requests) has left a result in the future or queue it reads, or
\* the request is tracked and its failure or every terminal it still expects is
\* to come.  This holds for any assignment of ids to calls, also when the
\* failure path of an earlier request drops a later one under the same id.
THEOREM NoneStranded == Spec => []NoCallerStranded
  <1> USE CallAssumption
  <1>1. Init => TypeOK /\ SInv
    BY TypeInit DEF Init, SInv, Holds, Tracks, Listens, Fresh, Reported, Wakes, Unserved,
                    Active, Pending
  <1>2. Init => DInv
    BY DEF Init, DInv, Partials, Due
  <1>3. TypeOK /\ SInv /\ DInv /\ [Next]_vars => (TypeOK /\ SInv /\ DInv)'
    BY TypeStep, SInvStep, DInvStep
  <1>4. TypeOK /\ SInv /\ DInv => NoCallerStranded
    <2> SUFFICES ASSUME TypeOK, SInv, DInv, loop, NEW c \in Call, caller[c] = "waiting"
                 PROVE  \/ requests[IdOf[c]] = c /\ WakeUpDue(c)
                        \/ IF c \in Streams THEN queue[c] # << >> ELSE future[c] # "pending"
      BY DEF NoCallerStranded
    <2>1. CASE requests[IdOf[c]] = c
      <3>1. /\ partial[IdOf[c]] \subseteq info[c].terminals
            /\ partial[IdOf[c]] # info[c].terminals
        BY <2>1 DEF DInv, Partials
      <3>2. handler = c \/ info[c].terminals \ partial[IdOf[c]] \subseteq work[c]
        BY <2>1 DEF DInv, Due
      <3> QED
        BY <2>1, <3>1, <3>2 DEF WakeUpDue
    <2>2. CASE requests[IdOf[c]] # c
      <3>1. Pending(c) /\ Woken(c)
        BY <2>2 DEF SInv, Wakes, Pending
      <3>2. ASSUME c \in Streams, queue[c] = << >> PROVE FALSE
        <4>1. Queued(c) = {}
          BY <3>2 DEF Queued
        <4>2. info[c].terminals \subseteq seen[c]
          BY <3>1, <3>2, <4>1 DEF Woken, Heard
        <4> QED
          BY <3>1, <3>2, <4>2 DEF SInv, Unserved
      <3> QED
        BY <3>1, <3>2 DEF Woken
    <2> QED
      BY <2>1, <2>2
  <1> QED
    BY <1>1, <1>2, <1>3, <1>4, PTL DEF Spec
=============================================================================
