---------------------------- MODULE StageRuntime ----------------------------
(***************************************************************************)
(* Stage, the I/O shell of one pipeline stage (role "single"): it receives *)
(* payloads and stream chunks from the stages before it, hands them to the *)
(* scheduler thread in order, routes the scheduler's results, and gives up *)
(* everything it knows of a request when the request is aborted or fails.  *)
(*                                                                         *)
(* Every message of another process gets a task.  Tasks read their data    *)
(* concurrently and acknowledge it; the tasks of one lane, a request and a *)
(* source, then pass one after the other, each waiting for a future of its *)
(* predecessor.  A lane holds the tasks that have not passed.  A stage of  *)
(* the same process calls the handler itself, one message after the other, *)
(* which is a task that has read its data.                                 *)
(*                                                                         *)
(* Code between two awaits is one step, but the end of a read and the      *)
(* acknowledgement that follows it are one step too.  Request ids are      *)
(* used once and the cap of 10000 on _aborted is not reached.  A task may  *)
(* raise over its message or its acknowledgement; messages to the          *)
(* coordinator are sent.  The numbers and the bookkeeping of outgoing      *)
(* chunks, KV pages, tensor parallelism, profiling, admin operations and   *)
(* request updates, which only pass through, are left out.  No stage sends *)
(* error signals.                                                          *)
(***************************************************************************)
EXTENDS Naturals, Sequences, SequencesExt

CONSTANTS
    Request,
    Source,         \* stages before this one
    Script,         \* what each source sends for a request, in order
    Wiring,         \* the configurations to consider
    MaxOutbox,      \* outbox entries (bound)
    None

Kind == {"chunk", "done", "payload"}

\* Stream data may come before the payload, how each source delivers, and
\* whether requests come from the coordinator instead.
Config == [early : BOOLEAN, via : [Source -> {"relay", "ipc", "local"}],
           entry : BOOLEAN]

ASSUME ScriptAssumption ==
    /\ Script \in [Source -> Seq(Kind)]
    /\ MaxOutbox \in Nat
    /\ Request \cap {"none", "raised", "failing"} = {}
    /\ None \notin [req : Request, type : {"stream", "result", "error"}]
    /\ Wiring \subseteq Config

VARIABLES
    config,     \* how the stage is wired (fixed)
    arrived,    \* number of messages received, per lane
    lane,       \* tasks of the lane that have not passed
    taken,      \* messages given to scheduler or input handler (history)
    acks,       \* acknowledgements sent, per lane (history)
    aborted,    \* _aborted
    active,     \* _active_requests
    open,       \* the requests _stream_queue has
    pending,    \* AggregatedInput._pending
    sched,      \* what the scheduler knows of the request
    outbox,     \* scheduler.outbox
    drain,      \* what _drain_outbox is sending, or None
    crash,      \* progress of _handle_scheduler_crash
    doomed,     \* the requests it still has to fail
    phase       \* running, broken (a task raised), stopping, stopped

requests == <<aborted, active, open, pending, sched>>
receiving == <<arrived, lane, taken, acks>>
sending == <<outbox, drain>>
ending == <<crash, doomed, phase>>
vars == <<config, requests, receiving, sending, ending>>

Lane == Request \X Source
Type == {"stream", "result", "error"}
State == {"new", "reading", "draining", "drained", "raised", "read", "failed",
          "failing", "unwinding", "dead"}
Task == [id : Nat, st : State]

TypeOK ==
    /\ config \in Config
    /\ arrived \in [Lane -> Nat] /\ acks \in [Lane -> Nat]
    /\ lane \in [Lane -> Seq(Task)] /\ taken \in [Lane -> Seq(Nat)]
    /\ aborted \subseteq Request /\ active \subseteq Request
    /\ open \subseteq active
    /\ pending \in [Request -> SUBSET Source]
    /\ sched \in [Request -> {"none", "given", "finished"}]
    /\ outbox \in Seq([req : Request, type : Type])
    /\ drain \in {None} \cup [req : Request, type : Type]
    /\ crash \in {"none", "raised", "failing"} \cup Request
    /\ doomed \subseteq Request
    /\ phase \in {"running", "broken", "stopping", "stopped"}

Init ==
    /\ config \in Wiring
    /\ arrived = [l \in Lane |-> 0] /\ acks = [l \in Lane |-> 0]
    /\ lane = [l \in Lane |-> <<>>] /\ taken = [l \in Lane |-> <<>>]
    /\ aborted = {} /\ active = {} /\ open = {}
    /\ pending = [r \in Request |-> {}]
    /\ sched = [r \in Request |-> "none"]
    /\ outbox = <<>> /\ drain = None
    /\ crash = "none" /\ doomed = {} /\ phase = "running"

\* Until stop() is called.
Running == phase \in {"running", "broken"}
Via(l) == config.via[l[2]]
KindOf(l, id) == Script[l[2]][id]

-----------------------------------------------------------------------------
(* Giving up a request.                                                    *)

\* Mutant of Clear: the input handler keeps what it has.
ClearButInput(r) ==
    /\ active' = active \ {r}
    /\ open' = open \ {r}
    /\ pending' = pending

\* Mutant of Clear: the stream queue stays open.
ClearButQueue(r) ==
    /\ active' = active \ {r}
    /\ open' = open
    /\ pending' = [pending EXCEPT ![r] = {}]

\* _clear_request_state.
Clear(r) ==
    /\ active' = active \ {r}
    /\ open' = open \ {r}
    /\ pending' = [pending EXCEPT ![r] = {}]

\* _on_abort; any number of times, at any time.
Abort(r) ==
    /\ Running
    /\ aborted' = aborted \cup {r}
    /\ Clear(r)
    /\ sched' = [sched EXCEPT ![r] = "finished"]
    /\ UNCHANGED <<config, receiving, sending, ending>>

-----------------------------------------------------------------------------
(* Receiving.                                                              *)

\* _on_submit, for the first stage of a pipeline.
Submit(r) ==
    /\ Running /\ config.entry
    /\ sched[r] = "none"
    /\ active' = active \cup {r}
    /\ open' = open \cup {r}
    /\ sched' = [sched EXCEPT ![r] = "given"]
    /\ UNCHANGED <<config, aborted, pending, receiving, sending, ending>>

\* _schedule_receive_task, or a call of receive_local_*.
Arrive(l) ==
    /\ Running /\ ~config.entry
    /\ arrived[l] < Len(Script[l[2]])
    /\ Via(l) = "local" => lane[l] = <<>>
    /\ arrived' = [arrived EXCEPT ![l] = @ + 1]
    /\ lane' = [lane EXCEPT ![l] =
           Append(@, [id |-> arrived'[l],
                      st |-> IF Via(l) = "local" THEN "read" ELSE "new"])]
    /\ UNCHANGED <<config, taken, acks, requests, sending, ending>>

\* Task i of the lane goes on in state st.
Becomes(l, i, st) == lane' = [lane EXCEPT ![l][i].st = st]

\* Mutant of Start: what has arrived for an aborted request is forgotten.
StartForgets(l, i) ==
    LET kind == KindOf(l, lane[l][i].id) IN
    /\ Running
    /\ lane[l][i].st = "new"
    /\ i > 1 => lane[l][i - 1].st # "new"
    /\ IF kind = "done" THEN Becomes(l, i, "read") /\ active' = active
       ELSE IF l[1] \in aborted
       THEN (\E st \in {"drained", "raised"} : Becomes(l, i, st)) /\ active' = active
       ELSE /\ active' = IF kind = "chunk" THEN active \cup {l[1]} ELSE active
            /\ \E st \in IF Via(l) = "relay" THEN {"reading", "raised"}
                         ELSE {"read", "failed"} : Becomes(l, i, st)
    /\ UNCHANGED <<config, arrived, taken, acks, aborted, open, pending, sched,
                   sending, ending>>

\* The handler's first step, tasks starting in the order they were made:
\* a signal waits for its turn; data of an aborted request is read to be thrown
\* away, other data to be used.  Only relayed data takes time to read.  A message
\* without its data_ref or with an unknown transport raises, and so does CUDA IPC
\* data that is thrown away and cannot be imported.
Start(l, i) ==
    LET kind == KindOf(l, lane[l][i].id) IN
    /\ Running
    /\ lane[l][i].st = "new"
    /\ i > 1 => lane[l][i - 1].st # "new"
    /\ \/ /\ kind = "done"
          /\ Becomes(l, i, "read")
          /\ active' = active
       \/ /\ kind # "done" /\ l[1] \in aborted
          /\ \E st \in {IF Via(l) = "relay" THEN "draining" ELSE "drained", "raised"} :
                 Becomes(l, i, st)
          /\ active' = active
       \/ /\ kind # "done" /\ l[1] \notin aborted
          /\ active' = IF kind = "chunk" THEN active \cup {l[1]} ELSE active
          /\ \/ Via(l) = "relay" /\ \E st \in {"reading", "raised"} : Becomes(l, i, st)
             \/ Via(l) = "ipc" /\ \E st \in {"read", "failed"} : Becomes(l, i, st)
    /\ UNCHANGED <<config, arrived, taken, acks, aborted, open, pending, sched,
                   sending, ending>>

\* The relay read ends and is acknowledged, with success or with the error, or
\* the acknowledgement cannot be sent.
ReadEnds(l, i) ==
    /\ Running
    /\ \/ /\ lane[l][i].st = "reading"
          /\ \E st \in {"read", "failed"} : Becomes(l, i, st)
          /\ acks' = [acks EXCEPT ![l] = @ + 1]
       \/ /\ lane[l][i].st = "draining"
          /\ Becomes(l, i, "drained")
          /\ acks' = [acks EXCEPT ![l] = @ + 1]
       \/ /\ lane[l][i].st \in {"reading", "draining"}
          /\ Becomes(l, i, "raised")
          /\ acks' = acks
    /\ UNCHANGED <<config, arrived, taken, requests, sending, ending>>

\* Mutant of Turn: nobody waits.
TurnAlways(l, i) == i \in DOMAIN lane[l]

\* The predecessor of task i has passed: its future is set.
Turn(l, i) == i = 1

\* The task has passed and with it its future is set.
Passes(l, i) == lane' = [lane EXCEPT ![l] = RemoveAt(@, i)]

\* _run_receive_task after a discard, or after its handler has raised: the task
\* passes all the same, and its done callback ends the loop of run() while the
\* tasks behind it go on.
Discarded(l, i) ==
    /\ Running /\ Turn(l, i)
    /\ lane[l][i].st \in {"drained", "raised"}
    /\ phase' = IF lane[l][i].st = "raised" THEN "broken" ELSE phase
    /\ Passes(l, i)
    /\ UNCHANGED <<config, arrived, taken, acks, requests, sending, crash, doomed>>

\* _open_pre_payload_stream_if_allowed.
Accepts(r) == r \in open \/ config.early

\* The beginning of _send_failure, up to its await.
FailureStarts(l, i) ==
    /\ Becomes(l, i, "failing")
    /\ aborted' = aborted \cup {l[1]}
    /\ UNCHANGED <<open, pending, taken>>

\* A stream item, or the end of the stream, goes to the scheduler; without a
\* queue for it the request fails.
DeliverStream(l, i) ==
    LET r == l[1] IN
    /\ active' = active \cup {r}
    /\ \/ /\ Accepts(r)
          /\ open' = open \cup {r}
          /\ taken' = [taken EXCEPT ![l] = Append(@, lane[l][i].id)]
          /\ Passes(l, i)
          /\ UNCHANGED <<aborted, pending, sched>>
       \/ /\ ~Accepts(r)
          /\ sched' = [sched EXCEPT ![r] = "finished"]
          /\ FailureStarts(l, i)

\* AggregatedInput.receive.
Expected == {s \in Source : "payload" \in Range(Script[s])}

\* _receive_payload_from_stage and, when the input is complete, _execute.
DeliverPayload(l, i) ==
    LET r == l[1]
        got == pending[r] \cup {l[2]}
    IN
    /\ active' = active \cup {r}
    /\ open' = open \cup {r}
    /\ pending' = [pending EXCEPT ![r] = IF got = Expected THEN {} ELSE got]
    /\ sched' = [sched EXCEPT ![r] = IF got = Expected THEN "given" ELSE @]
    /\ taken' = [taken EXCEPT ![l] = Append(@, lane[l][i].id)]
    /\ Passes(l, i)
    /\ UNCHANGED aborted

\* Mutant of Deliver: whether the request was aborted is not asked again after
\* the wait for the predecessor.
DeliverUnchecked(l, i) ==
    LET r == l[1]
        kind == KindOf(l, lane[l][i].id)
    IN
    /\ Running /\ Turn(l, i)
    /\ lane[l][i].st = "read"
    /\ IF kind = "payload" THEN DeliverPayload(l, i) ELSE DeliverStream(l, i)
    /\ UNCHANGED <<config, arrived, acks, sending, ending>>

\* Its turn has come: what a task with its data does, unless the request was
\* aborted since it began.
Deliver(l, i) ==
    LET r == l[1]
        kind == KindOf(l, lane[l][i].id)
    IN
    /\ Running /\ Turn(l, i)
    /\ lane[l][i].st = "read"
    /\ \/ r \in aborted /\ Passes(l, i) /\ UNCHANGED <<requests, taken>>
       \/ r \notin aborted /\ kind = "payload" /\ DeliverPayload(l, i)
       \/ r \notin aborted /\ kind # "payload" /\ DeliverStream(l, i)
    /\ UNCHANGED <<config, arrived, acks, sending, ending>>

\* A failed read: _queue_stream_error for a chunk, which asks again whether the
\* request was aborted; _send_failure for a payload, which does not.
DeliverError(l, i) ==
    LET r == l[1]
        kind == KindOf(l, lane[l][i].id)
    IN
    /\ Running /\ Turn(l, i)
    /\ lane[l][i].st = "failed"
    /\ \/ /\ kind = "chunk" /\ r \in aborted
          /\ Passes(l, i) /\ UNCHANGED <<requests, taken>>
       \/ /\ kind = "chunk" /\ r \notin aborted
          /\ sched' = [sched EXCEPT ![r] = "finished"]
          /\ FailureStarts(l, i) /\ UNCHANGED active
       \/ /\ kind = "payload"
          /\ FailureStarts(l, i) /\ UNCHANGED <<active, sched>>
    /\ UNCHANGED <<config, arrived, acks, sending, ending>>

\* The end of _send_failure.
FailureSent(l, i) ==
    /\ Running
    /\ lane[l][i].st = "failing"
    /\ Clear(l[1])
    /\ Passes(l, i)
    /\ UNCHANGED <<config, arrived, taken, acks, aborted, sched, sending, ending>>

-----------------------------------------------------------------------------
(* The scheduler thread and the drain of its outbox.                       *)

\* The scheduler puts something in its outbox: stream items, then a result or an
\* error.  It need not wait for the end of the streams it is sent.
Emit(r, type) ==
    /\ sched[r] = "given" /\ crash = "none"
    /\ Len(outbox) < MaxOutbox
    /\ outbox' = Append(outbox, [req |-> r, type |-> type])
    /\ sched' = [sched EXCEPT ![r] = IF type = "stream" THEN @ ELSE "finished"]
    /\ UNCHANGED <<config, aborted, active, open, pending, receiving, drain, ending>>

\* _drain_outbox_external takes an entry; those of inactive requests are
\* dropped, an error is recorded at once.
DrainTake ==
    /\ phase # "stopped"
    /\ drain = None /\ outbox # <<>>
    /\ outbox' = Tail(outbox)
    /\ \/ Head(outbox).req \notin active /\ UNCHANGED <<drain, aborted>>
       \/ /\ Head(outbox).req \in active
          /\ drain' = Head(outbox)
          /\ aborted' = IF drain'.type = "error" THEN aborted \cup {drain'.req}
                        ELSE aborted
    /\ UNCHANGED <<config, active, open, pending, sched, receiving, ending>>

\* Mutant of DrainSent: a routed result does not clear the request.
DrainSentKeeps ==
    /\ phase # "stopped"
    /\ drain # None
    /\ drain' = None
    /\ IF drain.type # "error" THEN UNCHANGED <<active, open, pending>>
       ELSE Clear(drain.req)
    /\ UNCHANGED <<config, aborted, sched, receiving, outbox, ending>>

\* What was taken has been sent: the end of _route_result or _send_failure.
DrainSent ==
    /\ phase # "stopped"
    /\ drain # None
    /\ drain' = None
    /\ IF drain.type = "stream" THEN UNCHANGED <<active, open, pending>>
       ELSE Clear(drain.req)
    /\ UNCHANGED <<config, aborted, sched, receiving, outbox, ending>>

-----------------------------------------------------------------------------
(* The scheduler thread dies; the stage stops.                             *)

\* The thread raises: _running is cleared, the loop is to fail the requests.
Crash ==
    /\ Running /\ crash = "none"
    /\ crash' = "raised"
    /\ UNCHANGED <<config, requests, receiving, sending, doomed, phase>>

\* _handle_scheduler_crash collects the requests there are.
CrashHandler ==
    /\ phase # "stopped" /\ crash = "raised"
    /\ crash' = "failing"
    /\ doomed' = active \ aborted
    /\ UNCHANGED <<config, requests, receiving, sending, phase>>

\* It fails one of them; crash is the request whose failure is being sent.
CrashFail(r) ==
    /\ phase # "stopped" /\ crash = "failing"
    /\ r \in doomed
    /\ crash' = r /\ doomed' = doomed \ {r}
    /\ aborted' = aborted \cup {r}
    /\ sched' = [sched EXCEPT ![r] = "finished"]
    /\ UNCHANGED <<config, active, open, pending, receiving, sending, phase>>

CrashSent ==
    /\ phase # "stopped" /\ crash \in Request
    /\ Clear(crash)
    /\ crash' = "failing"
    /\ UNCHANGED <<config, aborted, sched, receiving, sending, doomed, phase>>

\* stop() cancels the tasks, and a cancelled task cancels the future it waits
\* for.  One that reads or sends unwinds: its finally block waits for its
\* predecessor and passes.  One that waits for its predecessor, in its handler
\* or already in the finally block, dies: waiting there for a cancelled future
\* raises, and it never sets its own future.
Cancelled(l, i) ==
    CASE Via(l) = "local" \/ lane[l][i].st = "new" -> "dead"
      [] i = 1 \/ lane[l][i].st \in {"reading", "draining"} -> "unwinding"
      [] OTHER -> "dead"

\* The shutdown message, a receive task that has raised, or the dead scheduler:
\* the loop of run() ends and calls stop().
Stop ==
    /\ Running
    /\ phase' = "stopping"
    /\ lane' = [l \in Lane |-> [i \in DOMAIN lane[l] |->
                   [lane[l][i] EXCEPT !.st = Cancelled(l, i)]]]
    /\ UNCHANGED <<config, arrived, taken, acks, requests, sending, crash, doomed>>

\* A cancelled task passes.
Unwind(l, i) ==
    /\ phase = "stopping" /\ Turn(l, i)
    /\ lane[l][i].st = "unwinding"
    /\ Passes(l, i)
    /\ UNCHANGED <<config, arrived, taken, acks, requests, sending, ending>>

\* gather has all tasks; the rest of stop(), and run() returns or raises.
Stopped ==
    /\ phase = "stopping"
    /\ \A l \in Lane : \A i \in DOMAIN lane[l] : lane[l][i].st = "dead"
    /\ phase' = "stopped"
    /\ lane' = [l \in Lane |-> <<>>]
    /\ outbox' = <<>> /\ drain' = None
    /\ UNCHANGED <<config, arrived, taken, acks, requests, crash, doomed>>

-----------------------------------------------------------------------------
Step(l, i) ==
    \/ Start(l, i) \/ ReadEnds(l, i)
    \/ Discarded(l, i) \/ Deliver(l, i) \/ DeliverError(l, i) \/ FailureSent(l, i)
    \/ Unwind(l, i)

Next ==
    \/ \E l \in Lane : Arrive(l) \/ \E i \in DOMAIN lane[l] : Step(l, i)
    \/ \E r \in Request : \/ Submit(r) \/ Abort(r) \/ CrashFail(r)
                          \/ \E type \in Type : Emit(r, type)
    \/ DrainTake \/ DrainSent
    \/ Crash \/ CrashHandler \/ CrashSent
    \/ Stop \/ Stopped

\* The loop resumes what can go on, reads and sends end, a stopping, broken or
\* crashed stage leaves its loop.  Of the others: a source sends all of its messages,
\* and the scheduler ends a request with its result.  Messages are finitely
\* many, so that fairness to all tasks together is fairness to each.
Fairness ==
    /\ WF_vars(\E l \in Lane : \E i \in DOMAIN lane[l] : Step(l, i))
    /\ WF_vars(DrainTake) /\ WF_vars(DrainSent)
    /\ WF_vars(CrashHandler) /\ WF_vars(CrashSent)
    /\ \A r \in Request : WF_vars(CrashFail(r))
    /\ WF_vars((crash # "none" \/ phase = "broken") /\ Stop) /\ WF_vars(Stopped)
    /\ WF_vars(\E l \in Lane : Arrive(l))
    /\ \A r \in Request : SF_vars(Emit(r, "result"))

Spec == Init /\ [][Next]_vars /\ Fairness

-----------------------------------------------------------------------------
(* Properties.                                                             *)

\* The scheduler and the input handler get the messages of a source in the
\* order it sent them, although their data is read concurrently and any read
\* may fail; and without a gap, unless a task has raised: those behind it
\* deliver until stop() is called.
LaneOrder ==
    \A l \in Lane : \A k \in DOMAIN taken[l] :
        /\ phase = "running" => taken[l][k] = k
        /\ \A j \in 1 .. k - 1 : taken[l][j] < taken[l][k]

\* Once a request is aborted or has failed, nothing of it reaches the scheduler
\* any more, although tasks that began before are still on their way.
QuietAfterAbort ==
    [][\A r \in aborted :
          /\ \A s \in Source : taken'[<<r, s>>] = taken[<<r, s>>]
          /\ sched[r] # "given" => sched'[r] # "given"]_vars

\* A failure of r is on its way to the coordinator.
Failing(r) ==
    \/ crash = r
    \/ drain # None /\ drain.req = r
    \/ \E s \in Source : \E i \in DOMAIN lane[<<r, s>>] :
           lane[<<r, s>>][i].st = "failing"

\* A running stage keeps nothing of an aborted or failed request: no late chunk,
\* signal, payload or result makes it active again.
NothingHeld ==
    \A r \in aborted :
        Running /\ ~Failing(r) => r \notin active \cup open /\ pending[r] = {}

\* Relayed messages that have arrived, each of which holds a buffer of its
\* sender.
Transfers(l) ==
    IF Via(l) # "relay" THEN 0
    ELSE Len(SelectSeq(SubSeq(Script[l[2]], 1, arrived[l]), LAMBDA k : k # "done"))

\* Every relayed message is acknowledged exactly once, also one whose request
\* was aborted before or during the read, unless the stage stops; it does when
\* an acknowledgement could not be sent.
TransfersAcked ==
    \A l \in Lane :
        (Running /\ acks[l] # Transfers(l)) ~> (~Running \/ acks[l] = Transfers(l))

\* A request the scheduler is not done with leaves a running stage, whichever
\* way it ends.  It may come back: a chunk or an end of stream that follows the
\* result makes a finished request active again, and where stream data may come
\* before the payload nothing clears it then.
RequestLeaves ==
    \A r \in Request :
        (r \in active /\ sched[r] # "finished") ~> (~Running \/ r \notin active)

\* stop() returns, so that run() can raise what made it stop and the process
\* can end.
StopReturns == (phase = "stopping") ~> (phase = "stopped")
=============================================================================
