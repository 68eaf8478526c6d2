---------------------------- MODULE Coordinator ----------------------------
(***************************************************************************)
(* Request tracking of the pipeline coordinator.                           *)
(*                                                                         *)
(* A Call is one invocation of submit() or stream(): it registers a        *)
(* RequestInfo, a completion future and (for stream) a queue under its     *)
(* request id, sends the request to a replica of the entry stage and waits *)
(* for the terminal stages.  Four kinds of coroutine share those tables:   *)
(* the callers, the abort tasks (one per id, shielded from their callers), *)
(* the completion loop and the runtime monitor.  Each action below runs    *)
(* from one await to the next.  Tables are keyed by request id, while a    *)
(* coroutine that resumes may still hold the info of an earlier call with  *)
(* that id, so the infos are kept per call.                                *)
(***************************************************************************)
EXTENDS Integers, FiniteSets, Sequences

CONSTANTS
    Call,               \* invocations of submit() and stream()
    Streams,            \* those of stream()
    Id,                 \* request ids
    IdOf,               \* the id each call uses
    NumReplicas,        \* replicas of the entry stage
    Capacity,           \* ReplicaInfo.capacity
    Terminals,          \* _terminal_stages
    ResolverRejects,    \* terminal_stages_resolver may raise
    BroadcastMayFail,   \* broadcast_abort may raise
    None

ASSUME CallAssumption ==
    /\ IsFiniteSet(Call) /\ Streams \subseteq Call
    /\ IdOf \in [Call -> Id]
    /\ None \notin Call /\ None \notin Int
ASSUME ReplicaAssumption == NumReplicas \in Nat \ {0} /\ Capacity \in Nat
ASSUME TerminalAssumption == IsFiniteSet(Terminals) /\ Terminals # {}
ASSUME FailureAssumption == {ResolverRejects, BroadcastMayFail} \subseteq BOOLEAN

Replica == 0 .. NumReplicas - 1

VARIABLES
    requests,       \* _requests: the call tracked under each id
    futures,        \* _completion_futures
    queues,         \* _stream_queues
    abort_tasks,    \* _abort_tasks
    info,           \* the RequestInfo of each call
    future,         \* the completion future of each call
    queue,          \* the stream queue of each call
    partial,        \* _partial_results: terminals that reported, per id
    inflight,       \* ReplicaInfo.inflight
    cursor,         \* _rr_cursors[entry_stage]
    caller,         \* place of each caller coroutine
    seen,           \* completed_stages of each stream
    work,           \* terminals whose completion message is still to come
    handler,        \* the call whose failure the completion loop broadcasts
    loop,           \* the completion loop runs
    fatal           \* _fatal_error is set

tables == <<requests, futures, queues, abort_tasks, partial>>
results == <<future, queue>>
load == <<inflight, cursor>>
callers == <<caller, seen>>
vars == <<tables, info, results, load, callers, work, handler, loop, fatal>>

State == {"none", "pending", "running", "completed", "failed", "aborted"}
Final == {"completed", "failed", "aborted"}
Place == {"new", "submitting", "waiting", "closing", "aborting", "done"}
Failure == [stage |-> None, ok |-> FALSE]
Message == [stage : Terminals, ok : {TRUE}] \cup {Failure}

RequestInfo == [state : State, owner : Replica \cup {None},
                terminals : SUBSET Terminals]
FutureState == {"none", "pending", "result", "error", "cancelled"}

TypeOK ==
    /\ {requests, futures, queues} \subseteq [Id -> Call \cup {None}]
    /\ abort_tasks \in [Id -> {"none", "broadcast", "done"}]
    /\ info \in [Call -> RequestInfo]
    /\ future \in [Call -> FutureState]
    /\ queue \in [Call -> Seq(Message)]
    /\ partial \in [Id -> SUBSET Terminals]
    /\ inflight \in [Replica -> Nat]
    /\ cursor \in Replica
    /\ caller \in [Call -> Place]
    /\ seen \in [Call -> SUBSET Terminals]
    /\ work \in [Call -> SUBSET Terminals]
    /\ handler \in Call \cup {None}
    /\ {loop, fatal} \subseteq BOOLEAN

Init ==
    /\ requests = [i \in Id |-> None]
    /\ futures = [i \in Id |-> None]
    /\ queues = [i \in Id |-> None]
    /\ abort_tasks = [i \in Id |-> "none"]
    /\ info = [c \in Call |-> [state |-> "none", owner |-> None, terminals |-> {}]]
    /\ future = [c \in Call |-> "none"]
    /\ queue = [c \in Call |-> << >>]
    /\ partial = [i \in Id |-> {}]
    /\ inflight = [k \in Replica |-> 0]
    /\ cursor = 0
    /\ caller = [c \in Call |-> "new"]
    /\ seen = [c \in Call |-> {}]
    /\ work = [c \in Call |-> {}]
    /\ handler = None
    /\ loop = TRUE /\ fatal = FALSE

-----------------------------------------------------------------------------
(* Replica selection.                                                      *)

is_full(k) == inflight[k] >= Capacity

\* The replica `offset` places after the round-robin cursor.
After(offset) == (cursor + offset) % NumReplicas

\* _select_replica picks k: the first replica from the cursor on that is not
\* full, or plain round robin when all are.
SelectReplica(k) ==
    LET open == {o \in 0 .. NumReplicas - 1 : ~is_full(After(o))}
    IN  IF open = {} THEN k = After(0)
        ELSE \E o \in open : k = After(o) /\ \A p \in open : o <= p

\* A call is bound to replica k: a pinned call names its replica and leaves the
\* cursor alone.
Admit(pin, k) ==
    /\ IF pin # None THEN k = pin /\ cursor' = cursor
       ELSE SelectReplica(k) /\ cursor' = (k + 1) % NumReplicas
    /\ inflight' = [inflight EXCEPT ![k] = @ + 1]

\* max(0, n - k).
Minus(n, k) == IF n >= k THEN n - k ELSE 0

\* _release_replica for every call of S whose info still names an owner.
ReleaseLoad(S) ==
    [k \in Replica |-> Minus(inflight[k], Cardinality({c \in S : info[c].owner = k}))]

-----------------------------------------------------------------------------
(* submit() and stream(): admission.                                       *)

\* Mutant of Reserved: the id is free once its request has ended.
ReservedByRequest(i) == requests[i] # None \/ abort_tasks[i] # "none"

\* _request_id_is_reserved.
Reserved(i) ==
    \/ requests[i] # None
    \/ futures[i] # None
    \/ queues[i] # None
    \/ abort_tasks[i] # "none"

\* _submit_request up to the send: everything is registered under the id.
Submit(c, pin, k, terminals) ==
    LET i == IdOf[c]
    IN /\ caller[c] = "new"
       /\ ~fatal /\ ~Reserved(i)
       /\ Admit(pin, k)
       /\ requests' = [requests EXCEPT ![i] = c]
       /\ info' = [info EXCEPT ![c] = [state |-> "pending", owner |-> k,
                                       terminals |-> terminals]]
       /\ futures' = [futures EXCEPT ![i] = c]
       /\ future' = [future EXCEPT ![c] = "pending"]
       /\ queues' = IF c \in Streams THEN [queues EXCEPT ![i] = c] ELSE queues
       /\ caller' = [caller EXCEPT ![c] = "submitting"]
       /\ UNCHANGED <<abort_tasks, partial, queue, seen, work, handler, loop, fatal>>

\* The id is taken or the runtime has failed.
SubmitRefused(c) ==
    /\ caller[c] = "new"
    /\ fatal \/ Reserved(IdOf[c])
    /\ caller' = [caller EXCEPT ![c] = "done"]
    /\ UNCHANGED <<tables, info, results, load, seen, work, handler, loop, fatal>>

\* The terminal-stage resolver raises after the replica was charged.
SubmitRejected(c, pin, k) ==
    /\ ResolverRejects
    /\ caller[c] = "new"
    /\ ~fatal /\ ~Reserved(IdOf[c])
    /\ Admit(pin, k)
    /\ caller' = [caller EXCEPT ![c] = "done"]
    /\ UNCHANGED <<tables, info, results, seen, work, handler, loop, fatal>>

\* Place of a caller whose coroutine leaves its body with or without error:
\* stream() still has its finally block to run.
Leaving(c) == IF c \in Streams THEN "closing" ELSE "done"

\* submit_to_stage returns.  Every stage of the pipeline that is a terminal may
\* report, also one the request does not expect.
Submitted(c) ==
    LET t == requests[IdOf[c]]
    IN /\ caller[c] = "submitting"
       /\ work' = [work EXCEPT ![c] = Terminals]
       /\ info' = IF t = None THEN info ELSE [info EXCEPT ![t].state = "running"]
       /\ caller' = [caller EXCEPT ![c] = "waiting"]
       /\ UNCHANGED <<tables, results, load, seen, handler, loop, fatal>>

\* Mutant of SubmitFails: the replica is not released.
SubmitFailsKeepsReplica(c) ==
    /\ caller[c] = "submitting"
    /\ info' = [info EXCEPT ![c].owner = None]
    /\ caller' = [caller EXCEPT ![c] = Leaving(c)]
    /\ UNCHANGED <<tables, results, load, seen, work, handler, loop, fatal>>

\* submit_to_stage raises: the replica is released, the entries stay (a KeyError
\* takes the exception's place when they are gone already).
SubmitFails(c) ==
    LET t == requests[IdOf[c]]
    IN /\ caller[c] = "submitting"
       /\ inflight' = IF t = None THEN inflight ELSE ReleaseLoad({t})
       /\ info' = IF t = None THEN info ELSE [info EXCEPT ![t].owner = None]
       /\ caller' = [caller EXCEPT ![c] = Leaving(c)]
       /\ UNCHANGED <<tables, results, cursor, seen, work, handler, loop, fatal>>

-----------------------------------------------------------------------------
(* submit() and stream(): waiting, cancellation, clean-up.                 *)

Pop(table, c) ==
    [table EXCEPT ![IdOf[c]] = IF @ = c THEN None ELSE @]

\* submit() sees its future settled.
SubmitReturns(c) ==
    /\ c \notin Streams
    /\ caller[c] = "waiting" /\ future[c] # "pending"
    /\ futures' = [futures EXCEPT ![IdOf[c]] = None]
    /\ caller' = [caller EXCEPT ![c] = "done"]
    /\ UNCHANGED <<requests, queues, abort_tasks, partial, info, results, load,
                   seen, work, handler, loop, fatal>>

\* stream() takes the next message: a failure or the last expected terminal
\* ends its loop.
StreamNext(c) ==
    LET m == Head(queue[c])
    IN /\ c \in Streams
       /\ caller[c] = "waiting" /\ queue[c] # << >>
       /\ queue' = [queue EXCEPT ![c] = Tail(@)]
       /\ seen' = IF m.ok THEN [seen EXCEPT ![c] = @ \cup {m.stage}] ELSE seen
       /\ caller' = IF m.ok /\ ~(info[c].terminals \subseteq seen'[c]) THEN caller
                    ELSE [caller EXCEPT ![c] = "closing"]
       /\ UNCHANGED <<tables, info, future, load, work, handler, loop, fatal>>

\* The caller is cancelled, or the consumer closes the stream early.  While the
\* send is pending the request may or may not have left.
Cancel(c) ==
    /\ caller[c] \in {"submitting", "waiting"}
    /\ caller' = [caller EXCEPT ![c] = Leaving(c)]
    /\ futures' = IF c \notin Streams /\ caller[c] = "waiting"
                  THEN [futures EXCEPT ![IdOf[c]] = None] ELSE futures
    /\ work' \in {work, [work EXCEPT ![c] = IF caller[c] = "submitting"
                                            THEN Terminals ELSE @]}
    /\ UNCHANGED <<requests, queues, abort_tasks, partial, info, results, load,
                   seen, handler, loop, fatal>>

\* abort(id) does something: join the task under way or start one.
Abortable(i) ==
    \/ abort_tasks[i] # "none"
    \/ requests[i] # None /\ info[requests[i]].state \notin Final

StartAbort(i) ==
    abort_tasks' = [abort_tasks EXCEPT ![i] = IF @ = "none" THEN "broadcast" ELSE @]

\* Mutant of CloseStream: the stream only forgets its own entries.
CloseStreamWithoutAbort(c) ==
    /\ caller[c] = "closing"
    /\ caller' = [caller EXCEPT ![c] = "done"]
    /\ queues' = Pop(queues, c)
    /\ futures' = IF queues[IdOf[c]] = c
                  THEN [futures EXCEPT ![IdOf[c]] = None] ELSE futures
    /\ UNCHANGED <<requests, abort_tasks, partial, info, results, load, seen, work,
                   handler, loop, fatal>>

\* The finally block of stream(): a request that is still tracked is aborted,
\* then the entries go.
CloseStream(c) ==
    LET i == IdOf[c]
        abort == queues[i] = c /\ requests[i] # None /\ Abortable(i)
    IN /\ caller[c] = "closing"
       /\ IF abort
          THEN /\ StartAbort(i)
               /\ caller' = [caller EXCEPT ![c] = "aborting"]
               /\ UNCHANGED <<queues, futures>>
          ELSE /\ caller' = [caller EXCEPT ![c] = "done"]
               /\ queues' = Pop(queues, c)
               /\ futures' = IF queues[i] = c THEN [futures EXCEPT ![i] = None]
                             ELSE futures
               /\ UNCHANGED abort_tasks
       /\ UNCHANGED <<requests, partial, info, results, load, seen, work, handler,
                      loop, fatal>>

\* A caller that waits for its abort is cancelled: the task goes on without it.
CancelClosing(c) ==
    LET i == IdOf[c]
    IN /\ caller[c] = "aborting"
       /\ caller' = [caller EXCEPT ![c] = "done"]
       /\ queues' = Pop(queues, c)
       /\ futures' = IF queues[i] = c THEN [futures EXCEPT ![i] = None] ELSE futures
       /\ UNCHANGED <<requests, abort_tasks, partial, info, results, load, seen,
                      work, handler, loop, fatal>>

-----------------------------------------------------------------------------
(* abort(): the coordinator-owned task.                                    *)

\* client.abort(id) from outside the stream.
AbortCall(i) ==
    /\ requests[i] # None /\ abort_tasks[i] = "none" /\ Abortable(i)
    /\ StartAbort(i)
    /\ UNCHANGED <<requests, futures, queues, partial, info, results, load, callers,
                   work, handler, loop, fatal>>

\* _reject_completion_future: cancelled under a stream, an exception otherwise.
Reject(i) ==
    future' = [c \in Call |->
                 IF c = futures[i] /\ future[c] = "pending"
                 THEN IF queues[i] # None THEN "cancelled" ELSE "error"
                 ELSE future[c]]

Put(i, m) ==
    queue' = [c \in Call |-> IF c = queues[i] THEN Append(queue[c], m) ELSE queue[c]]

Forget(i) ==
    /\ requests' = [requests EXCEPT ![i] = None]
    /\ partial' = [partial EXCEPT ![i] = {}]

Release(c, state) ==
    /\ info' = [info EXCEPT ![c].owner = None, ![c].state = state]
    /\ inflight' = ReleaseLoad({c})

\* Mutant of FinishAbort: the stream is not told.
FinishAbortSilent(i) ==
    LET c == requests[i]
    IN /\ abort_tasks[i] = "broadcast"
       /\ abort_tasks' = [abort_tasks EXCEPT ![i] = "done"]
       /\ IF c = None
          THEN UNCHANGED <<requests, partial, info, future, inflight>>
          ELSE Release(c, "aborted") /\ Reject(i) /\ Forget(i)
       /\ UNCHANGED <<futures, queues, queue, cursor, callers, work, handler, loop,
                      fatal>>

\* _run_abort after its broadcast: the request may have ended meanwhile.
FinishAbort(i) ==
    LET c == requests[i]
    IN /\ abort_tasks[i] = "broadcast"
       /\ abort_tasks' = [abort_tasks EXCEPT ![i] = "done"]
       /\ IF c = None
          THEN UNCHANGED <<requests, partial, info, results, inflight>>
          ELSE Release(c, "aborted") /\ Reject(i) /\ Put(i, Failure) /\ Forget(i)
       /\ UNCHANGED <<futures, queues, cursor, callers, work, handler, loop, fatal>>

\* The broadcast raises.
AbortFails(i) ==
    /\ BroadcastMayFail
    /\ abort_tasks[i] = "broadcast"
    /\ abort_tasks' = [abort_tasks EXCEPT ![i] = "done"]
    /\ UNCHANGED <<requests, futures, queues, partial, info, results, load, callers,
                   work, handler, loop, fatal>>

\* _on_abort_task_done, then the shielded callers resume and clean up.
AbortTaskDone(i) ==
    LET waiting == {c \in Call : IdOf[c] = i /\ caller[c] = "aborting"}
        owner == queues[i] \in waiting
    IN /\ abort_tasks[i] = "done"
       /\ abort_tasks' = [abort_tasks EXCEPT ![i] = "none"]
       /\ caller' = [c \in Call |-> IF c \in waiting THEN "done" ELSE caller[c]]
       /\ queues' = IF owner THEN [queues EXCEPT ![i] = None] ELSE queues
       /\ futures' = IF owner THEN [futures EXCEPT ![i] = None] ELSE futures
       /\ UNCHANGED <<requests, partial, info, results, load, seen, work, handler,
                      loop, fatal>>

-----------------------------------------------------------------------------
(* The completion loop.                                                    *)

\* A successful completion of stage s for id i, tracked as c.
Complete(i, c, s) ==
    LET expected == info[c].terminals
        reported == partial[i] \cup {s}
        last == Cardinality(expected) <= 1 \/ reported = expected
    IN IF s \notin expected
       THEN UNCHANGED <<requests, partial, info, results, inflight>>
       ELSE /\ Put(i, [stage |-> s, ok |-> TRUE])
            /\ IF last
               THEN /\ Release(c, "completed")
                    /\ Forget(i)
                    /\ future' = [d \in Call |->
                                    IF d = futures[i] /\ future[d] = "pending"
                                    THEN "result" ELSE future[d]]
               ELSE /\ partial' = [partial EXCEPT ![i] = reported]
                    /\ UNCHANGED <<requests, info, future, inflight>>

\* _handle_completion, success: the message names only the id.
Completed(c, s) ==
    LET i == IdOf[c]
    IN /\ loop /\ ~fatal /\ handler = None
       /\ s \in work[c]
       /\ work' = [work EXCEPT ![c] = @ \ {s}]
       /\ IF requests[i] = None
          THEN UNCHANGED <<requests, partial, info, results, inflight>>
          ELSE Complete(i, requests[i], s)
       /\ UNCHANGED <<futures, queues, abort_tasks, cursor, callers, handler, loop,
                      fatal>>

\* _handle_completion, failure: the state is set, then the abort broadcast.
StageFails(c, s) ==
    LET t == requests[IdOf[c]]
    IN /\ loop /\ ~fatal /\ handler = None
       /\ s \in work[c]
       /\ work' = [work EXCEPT ![c] = {}]
       /\ IF t = None THEN UNCHANGED <<info, handler>>
          ELSE handler' = t /\ info' = [info EXCEPT ![t].state = "failed"]
       /\ UNCHANGED <<tables, results, load, callers, loop, fatal>>

\* Mutant of FinishFailure: the replica is not released.
FinishFailureNoRelease ==
    LET i == IdOf[handler]
    IN /\ handler # None
       /\ Reject(i) /\ Put(i, Failure) /\ Forget(i)
       /\ handler' = None
       /\ UNCHANGED <<futures, queues, abort_tasks, info, load, callers, work, loop,
                      fatal>>

\* The rest of the failure path after the broadcast: its own info is released,
\* everything else is looked up by id again.
FinishFailure ==
    LET i == IdOf[handler]
    IN /\ handler # None
       /\ Reject(i) /\ Put(i, Failure) /\ Forget(i)
       /\ Release(handler, info[handler].state)
       /\ handler' = None
       /\ UNCHANGED <<futures, queues, abort_tasks, cursor, callers, work, loop,
                      fatal>>

\* The broadcast raises: the exception ends run_completion_loop.
FailureBroadcastFails ==
    /\ BroadcastMayFail
    /\ handler # None
    /\ handler' = None
    /\ loop' = FALSE
    /\ UNCHANGED <<tables, info, results, load, callers, work, fatal>>

-----------------------------------------------------------------------------
(* The runtime monitor.                                                    *)

Tracked == {c \in Call : requests[IdOf[c]] = c}

\* Mutant of FailPending: streams are failed through the future only.
FailPendingNoQueue ==
    /\ ~fatal
    /\ fatal' = TRUE
    /\ info' = [c \in Call |-> IF c \in Tracked
                  THEN [info[c] EXCEPT !.state = "failed", !.owner = None] ELSE info[c]]
    /\ inflight' = ReleaseLoad(Tracked)
    /\ future' = [c \in Call |-> IF c \in Tracked /\ future[c] = "pending"
                                 THEN "error" ELSE future[c]]
    /\ requests' = [i \in Id |-> None]
    /\ partial' = [i \in Id |-> {}]
    /\ UNCHANGED <<futures, queues, abort_tasks, queue, cursor, callers, work,
                   handler, loop>>

\* fail_pending_requests: a stage process died.
FailPending ==
    /\ ~fatal
    /\ fatal' = TRUE
    /\ info' = [c \in Call |-> IF c \in Tracked
                  THEN [info[c] EXCEPT !.state = "failed", !.owner = None] ELSE info[c]]
    /\ inflight' = ReleaseLoad(Tracked)
    /\ future' = [c \in Call |->
                    IF requests[IdOf[c]] # None /\ futures[IdOf[c]] = c
                         /\ future[c] = "pending"
                    THEN IF queues[IdOf[c]] # None THEN "cancelled" ELSE "error"
                    ELSE future[c]]
    /\ queue' = [c \in Call |->
                   IF requests[IdOf[c]] # None /\ queues[IdOf[c]] = c
                   THEN Append(queue[c], Failure) ELSE queue[c]]
    /\ requests' = [i \in Id |-> None]
    /\ partial' = [i \in Id |-> {}]
    /\ UNCHANGED <<futures, queues, abort_tasks, cursor, callers, work, handler,
                   loop>>

-----------------------------------------------------------------------------
Pins == Replica \cup {None}

Caller(c) ==
    \/ \E pin \in Pins, k \in Replica, T \in (SUBSET Terminals) \ {{}} :
          Submit(c, pin, k, T)
    \/ SubmitRefused(c)
    \/ \E pin \in Pins, k \in Replica : SubmitRejected(c, pin, k)
    \/ Submitted(c)
    \/ SubmitFails(c)
    \/ SubmitReturns(c)
    \/ StreamNext(c)
    \/ Cancel(c)
    \/ CloseStream(c)
    \/ CancelClosing(c)

Abort(i) == AbortCall(i) \/ FinishAbort(i) \/ AbortFails(i) \/ AbortTaskDone(i)

CompletionLoop ==
    \/ \E c \in Call, s \in Terminals : Completed(c, s) \/ StageFails(c, s)
    \/ FinishFailure
    \/ FailureBroadcastFails

\* Every caller has returned and nothing is under way.
Finished ==
    /\ \A c \in Call : caller[c] = "done"
    /\ UNCHANGED vars

Next ==
    \/ \E c \in Call : Caller(c)
    \/ \E i \in Id : Abort(i)
    \/ CompletionLoop
    \/ FailPending
    \/ Finished

\* The event loop resumes every coroutine that can go on, sends and broadcasts
\* return, and the stages report on every request they were given.
Fairness ==
    /\ \A c \in Call :
        /\ WF_vars(Submitted(c) \/ SubmitFails(c))
        /\ WF_vars(SubmitReturns(c))
        /\ WF_vars(StreamNext(c))
        /\ WF_vars(CloseStream(c))
        /\ \A s \in Terminals : SF_vars(Completed(c, s) \/ StageFails(c, s))
    /\ \A i \in Id : WF_vars(FinishAbort(i) \/ AbortFails(i)) /\ WF_vars(AbortTaskDone(i))
    /\ WF_vars(FinishFailure \/ FailureBroadcastFails)

Spec == Init /\ [][Next]_vars /\ Fairness

-----------------------------------------------------------------------------
(* Properties.                                                             *)

\* A replica's inflight counter is the number of requests bound to it: every
\* path that ends a request releases its replica exactly once, and the floor
\* in _release_replica never hides a double release.
InflightExact ==
    \A k \in Replica : inflight[k] = Cardinality({c \in Call : info[c].owner = k})

\* A request that is forgotten gives its replica back, also when its id is used
\* again at once.  The one exception is in the code: the failure handler that
\* resumes after its abort broadcast drops the entry of its id, which may be a
\* later call's by then, and releases the earlier call only (_handle_completion).
ForgottenReleased ==
    [][\A c \in Call :
         requests[IdOf[c]] = c /\ requests'[IdOf[c]] # c =>
            \/ info'[c].owner = None
            \/ handler \in Call \ {c} /\ IdOf[handler] = IdOf[c]]_vars

\* While a call is under way no other call is admitted under its id, also when
\* it waits for its abort or the request has ended before its caller.
IdExclusive ==
    \A c, d \in Call :
        /\ IdOf[c] = IdOf[d]
        /\ {caller[c], caller[d]} \cap {"new", "done"} = {}
        => c = d

\* What still ends the request of call c, which is tracked: the completion loop
\* fails it, or each expected terminal that has not reported will report.
WakeUpDue(c) ==
    LET missing == info[c].terminals \ partial[IdOf[c]]
    IN \/ handler = c
       \/ missing # {} /\ missing \subseteq work[c]

\* While the completion loop runs, a caller that waits is woken: its result is
\* in its future or queue, or its request is tracked and a message that ends it
\* is still to come.  An abort broadcast that raises ends the loop
\* (_handle_completion), which nobody notices; then a caller waits for an abort
\* or for the runtime monitor.
NoCallerStranded ==
    loop => \A c \in Call : caller[c] = "waiting" =>
        \/ requests[IdOf[c]] = c /\ WakeUpDue(c)
        \/ IF c \in Streams THEN queue[c] # << >> ELSE future[c] # "pending"

\* Every call returns once it was sent: aborted, completed, failed with a stage
\* or failed with the runtime.
CallReturns == \A c \in Call : (caller[c] = "waiting") ~> (caller[c] = "done")

\* A stream leaves nothing behind: after it has returned, however it ended, its
\* request stops being tracked and its id can be used again, or another call
\* uses it already.
StreamLeavesNothing ==
    \A c \in Streams : (caller[c] = "done") ~>
        (~Reserved(IdOf[c]) \/ futures[IdOf[c]] \in Call \ {c})

=============================================================================
