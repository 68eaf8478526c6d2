# A TLA+ model of the SGLang-Omni realtime serving path

The repository serves multi-stage omni models. This project models the path of
a realtime video session: the WebSocket session and its manager in the API
process, the coordinator that tracks requests across stages, the runtime of a
stage, and the scheduler thread that owns the KV memory of the MOSS-VL realtime
stage with its frame window; and, in front of them, the router: the admission
its processes share and the transaction that updates the weights of the
workers. The modules are translated from the source; `PROJECT.json` names the
lines behind every definition, the mutants, the hazards, the findings and the
theorems.

Paths below are relative to `src/sglang_omni` unless they begin with another
directory of the repository.

## 1. The system

### Parts, state and operations

| Part | State | Operations | Model |
|---|---|---|---|
| Session manager, `serve/video_realtime.py` | open sessions, replica of each, cap | open, refuse, close | `SessionManager` |
| Realtime session, same file | input queue, credits, pending frame, flags, four tasks | receive, handle, submit, respond, teardown | `VideoSession` |
| Frame store, `models/moss_vl_realtime/frame_store.py` | names per request, shared-memory segments | put, forget, discard, cleanup | `VideoSession` |
| Client, `client/client.py` | none of its own | generate, update, abort | seen from both sides |
| Coordinator, `pipeline/coordinator.py` | requests, futures, queues, abort tasks, replica load | submit, stream, abort, completion, runtime failure | `Coordinator` |
| Coordinator admin operations | pending admin operations | broadcast, collect | planned |
| Stage runtime, `pipeline/stage/` | receive tasks in lanes, aggregated inputs, aborted ids, stream queues | receive, read, acknowledge, deliver, drain, abort, crash, stop | `StageRuntime`; environment of `Coordinator` |
| OmniScheduler, `scheduling/omni_scheduler.py` | batches, step in flight, pending aborts | two event loops, resolve, abort | `RealtimeKV`, as far as the realtime stage uses it |
| Realtime scheduler, `models/moss_vl_realtime/scheduler.py` | phases, parked requests, window state, budgets | one loop iteration | `RealtimeKV` |
| KV append transaction, `batch_adapter.py`, `runtime_state.py`, `kv_layout.py` | page rows, lengths, free slots | prepare, stage, commit, roll back | `RealtimeKV` |
| Frame window, `frame_window.py` | frame records, visible counts | commit a frame, plan, apply | slots in `RealtimeKV`, planner and metadata in `FrameWindow` |
| Usage accounting, event ordering | counters, sequence numbers | commit, sample, freeze, accept | planned |
| Router admission, `sglang_omni_router/admission_shm.py` | one slot per data plane, a retired slot | acquire, release, touch, aggregate | `SharedAdmission` |
| Router supervisor, `sglang_omni_router/supervisor.py` | children, generations, rapid deaths | reap, fold, reclaim, respawn | `SharedAdmission` for data planes, restarts in `WeightUpdate` |
| Router control plane, `sglang_omni_router/app.py`, `control_plane.py`, `update_journal.py`, `snapshot.py`, `internal_channel.py` | registry, journal, snapshot file, data-plane records | update weights, recover, publish, acknowledge, operator's changes | `WeightUpdate`, abstractly `WeightGate` |
| Router relay, `sglang_omni_router/proxy.py` | none shared | relay a request to a worker | not modelled |
| Adapters, `vl_api_adapter/`, `vl_legacy_adapter/` | per-response ledger, bridge rounds | settle, translate | planned |

Everything else (other model families, speech endpoints, relays, process
runner) is listed in `PROJECT.json` with the reason it is left out.

### How the parts interact

A connection is admitted by the manager, which pins it to a replica. The
session's worker turns client messages into `update_request` calls and its
response task consumes `Client.generate`, which is `Coordinator.stream`. The
coordinator charges an entry replica, registers the request and waits for the
terminal stages; completions, aborts, a dead stage process and the caller's
own cancellation race with each other. At the stage, messages enter the
scheduler thread's inbox. Events of a request that is decoding are spliced
into its KV row by an extend batch; `input.*.processed` events travel back and
return the session's credits.

Between coordinator and scheduler, a stage reads the data of its messages
concurrently, restores the order of each source, aggregates the inputs of a
request, and routes what the scheduler puts into its outbox. An abort, a failed
read and a dead scheduler each end a request there while its other messages are
still on their way.

The router runs apart from this: several data-plane processes relay requests
to API servers. They share a memory-mapped file of admission slots, which the
supervisor repairs when one of them dies and the control plane sums for
`/health`, and they follow the snapshot file in which the control plane
publishes its registry. Updating the weights of workers takes the journal, the
registry, the snapshot, the data planes' heartbeats and the workers themselves.

### What is hard

- asyncio tasks that share an object and resume after an await on state that
  has moved: session teardown against the response task, an abort task against
  the failure handler and the caller, request ids that are used again;
- resources that several paths may release: session slots, replica load, input
  credits, shared-memory frames, KV slots;
- a lookahead decode step that is in flight while the request it belongs to is
  extended, compacted, parked, preempted or aborted;
- two coordinate systems (token positions and KV positions) after the frame
  window has compacted a row;
- processes that read each other's memory without a lock and may die between
  two stores;
- messages whose data is read concurrently and whose order, acknowledgement and
  clean-up must survive failing reads, aborts and cancellation;
- a transaction over several processes and a disk, any of which may fail in the
  middle, and acknowledgements that are late or belong to a dead process;
- memory and context limits that are checked in one place and used in another;
- things that must happen: a queued event is spliced in, a cancelled call
  returns, a closed session ends although its request does not answer.

`hazards` in `PROJECT.json` lists them at their lines with the properties that
cover them, and the ones no property covers yet with the reason.

## 2. Modules

### SessionManager

Sessions move through `handler` (connecting, running, closing, closed, refused); the
request a session pins is kept apart in `generation`, because `close()` bounds the
abort by `cleanup_timeout_s` and then frees the slot in a `finally`.
`AssignReplica` is the least-loaded choice of `_assign_replica`. `open` and
`close` of the manager are `OpenSession`, `RefuseSession` and `FinishClose`; the
names leave room for those of `VideoSession` beside them in the proofs.

*Properties.* `ReplicaWithinCapacity`, and the action property
`RefusedOnlyWhenFull`: a connection is turned away only while `max_sessions`
others are served or being torn down.

### VideoSession

`receiver`, `worker`, `response` and `main` are the places of the four
coroutines. Each action runs from one await to the next. Abstractions:

- a message is its kind; a violated sequence or timestamp rule is a choice,
  since an event that passes carries `next_seq_no`;
- `outstanding_seq_nos` and `accepted_by_seq` have the same keys and are one
  function `credit`; `frame_refs_by_seq` is part of `names`;
- sends are awaits that complete in any order, a superset of what the send
  lock allows, and fail only when the connection is not open;
- the Condition's lock is never contended across an await, so
  `_release_input` and `_close_input_queue` are atomic;
- an `update_request` that raises did not submit the event;
- a cancelled receiver or worker does nothing more;
- text, usage and silence chunks only send and are not distinguished from the
  other sends; the stage is external (`StageTake`, `StageEnds`, `Emit`).

*Properties.* `WireOrdered` (acknowledgements come first, the end comes once),
`CreditsAccounted`, `FramesReclaimed`, and under fairness `SessionEnds`,
`InputProgress`.

### Coordinator

A `Call` is one invocation of `submit()` or `stream()`. The tables
`_requests`, `_completion_futures`, `_stream_queues`, `_abort_tasks` and
`_partial_results` are functions of the request id. `RequestInfo`, future and
queue objects are kept per call, because a coroutine that resumes may hold the
object of an earlier call while the tables already belong to a newer one.
Replica selection (`SelectReplica`, `Admit`) keeps the round-robin cursor and
the fall back when every replica is full. Abstractions:

- actions run from await to await; broadcasts and sends may suspend;
- a stage answers only after `submit_to_stage` returned, as both use one
  ordered socket path;
- every terminal stage of the pipeline may report, also one the request does
  not expect;
- stream chunks and `update_request` pass through and change no table.

*Properties.* `InflightExact`, `NoCallerStranded`, `IdExclusive`, the action
property `ForgottenReleased`, and under fairness `CallReturns`,
`StreamLeavesNothing`. `TypeOK` is proved and in no run. `ForgottenReleased` is
checked with ids that are used again and names the one exception the code makes
(section 4). `NoCallerStranded` asks more of a tracked request than its entry:
the message that ends it must still be to come (`WakeUpDue`), and only while the
completion loop runs.

### StageRuntime

A message of another process gets a task; the tasks of one lane, a request and
a source, read their data concurrently and pass one after the other, each
waiting for a future of its predecessor. `lane` is that chain, with the place of
every task (`State`). `Deliver` is the receive handler after its turn has come:
stream queue, input handler, aggregation and submission to the scheduler.
`Clear` is the clean-up that aborts, failures and results share.
`DrainTake` and `DrainSent` route the outbox; `CrashHandler`, `CrashFail` and
`CrashSent` are the failure path of a dead scheduler thread; `Stop` cancels every
task and `Stopped` is the end of `gather`. A task that raises over its message
or its acknowledgement passes all the same (`Discarded`); the stage is then
`broken`, the tasks behind may still deliver, and it stops. A stage of the same process calls the
handler directly, which is a task that has read its data. Three deliveries
(relay, CUDA IPC, local) and stages with early stream data or requests from the
coordinator are configurations. Not there: the numbering of outgoing chunks, KV
pages, admin operations, request updates and the tensor-parallel roles. A
scheduler may finish a request before the end of its streams (`Emit`), as
`omni_scheduler.py` and `streaming_simple_scheduler.py` expect.

*Properties.* `LaneOrder`, `NothingHeld`, the action property
`QuietAfterAbort`, and under fairness `TransfersAcked`, `RequestLeaves`. The
last speaks of requests the scheduler is not done with: a finished one may become
active again (section 4).
`StopReturns` states what `run()` needs of `stop()` and is violated (section 4).

### RealtimeKV

The scheduler thread is sequential; `pc` is its place in one loop iteration,
in the order of the code: receive, parked expiry, event barrier, frame window,
extend (build, budget, stage, run), prefill, capacity guard, rate limit,
preemption, decode. Resolving a step, an abort that has to wait for it and a
deferred control-plane abort are subroutines that run to their end (`Quiet`).
A request owns one row: `enc` vision cells, `dec` text cells and the cells of
steps in flight; `appended`, `alloc` and `fill` are the lengths the runtime
state and the request keep. Both event loops are covered, with and without a
frame window, which is off by default: `async_decode` and `frame_window` are chosen
at the start and never change. Without a window `EvaluateFrameWindow` has no
candidates and leaves the step in flight alone: a request with frames then decodes
and parks while a lookahead step is launched, and before an extend it is
`EventsBarrier` alone that resolves that step.

Abstractions: page size 1, a slot is a number, a frame is `FrameSlots` slots
that move together; `last_batch` is merged into the running batch; the row of
a request that is gone holds stale numbers, as upstream's release leaves it;
the radix cache and upstream release are external; the planner of the frame
window may return any of the `Plans` of `WindowPlan`, to which the planner of
`FrameWindow` is proved to keep (`PlannerKeepsToPlans`), and planning twice without
new frames changes nothing (`due`), which is the last conjunct of its
`RoundSettles`; `frames` counts the frames in a row, also without a window, when
the code keeps no records of them because nothing reads any; one rank stands for all
tensor-parallel ranks, which run the same deterministic schedule; the lookahead is
eligible whenever `async_decode` is on, because the realtime builder sets the
minimum batch size to one and its sampling parameters carry no penalties.

*Properties.* `RowsSound`: every slot has one owner and a row can be released at
any time (`SlotAccounting`), and its lengths, cells and the gap between token
and KV positions agree (`RowConsistent`). `RowsSettled`: the frame window and an
extend rewrite no row that a launched step may still read. `AllocationsFit`: what
the budget let through fits the pool, the row and the context. Under fairness
`EventsConsumed`, `AbortReleases`.

### FrameWindow

One request: the committed frames, the records that describe them, the encoder
region as a sequence of runs (each the set of frames whose vision it holds), and
the visible-frame counts of the text. `CommitFrame` appends a frame at any
interval; `Round` computes `Plan` (aged raw frames, chunks to pool or drop,
pooled frames that expire, pooled frames that are not made because they would
expire at once), or its degraded form when there are no slots for pooled frames,
and applies it: `Rewritten` for the row, `Spans` and `Remap` for the counts. A
round may be skipped any number of times. Slots are `RealtimeKV`'s; a frame's
grid stands for its number of slots. Text between two frames has one count.

*Properties.* `RecordsDescribeRow`: records and row agree run by run and the
frames that are gone are counted once. `VisibleExact` compares counts that were
remapped round after round with the reference definition, the runs that hold a
frame the text had seen. `RoundSettles` is an action property: a round takes
nothing from within the window and leaves nothing that another would take:
the plan computed from its result removes nothing.

### SharedAdmission

`slot` is the file: `seq` and fields of every data plane's slot and of the
retired one. A writer marks `seq` odd, stores the fields (`Torn` while half
done) and makes `seq` even; the last field and the even `seq` are one step, as
no reader accepts either before both are there. Reads of other processes'
slots are three loads; a data plane reads its own slot in one step, which is
sound because a live data plane keeps its slot (`NotFenced`). `Crash` may come
between any two stores. The supervisor reads the dead slot, holds the retired slot odd while it moves the
counters and clears the dead slot, then starts the next generation or fails
closed. The control plane sums the slots between two reads of the retired
slot. Abstractions: total store order, as the code demands; retries and spin
budgets are a choice between another attempt and the error; the probe interval
of `_UNSTABLE_REPROBE_SECS` is a choice; `shutdown()` is one step; `shed` and
`skipped` are history variables. The own-slot error returns of `try_acquire`,
`release` and `touch` have no actions: `NotFenced` says they are never taken.

*Properties.* `Overshoot` (the documented "at most N-1 requests"),
`SeqlockSound` (a stable read is whole, `StableReadWhole`, and `NotFenced`),
`NeverInvents` (the documented "lose (never invent) rejections") and the action
property `NeverBackwards`, which allows a decrease of `/health`'s total only by what a death in mid-write made unreadable.

### WeightUpdate and WeightGate

`phase` is the place of the control plane's admin handler: `Begin` (checks and
journal), `Disable` (flags, publish), the acknowledgement barrier (`Acked`),
`Broadcast`, then `Succeed` or `Fail`, and the final publish. `pool` is the registry,
`file` the snapshot file, `view` what each data plane has applied, `record` what
the control plane believes of it, `journal` and `synced` the journal file as a
reader and as a reboot would find it. `CrashCP`, `Reboot`, `Corrupt`, failing
writes, `RestartDP` and late heartbeats are faults, counted together;
`StartCP` restores the registry from snapshot and journal. Operators may enable,
disable, add, delete and resolve. `uncertain` is a history variable: the workers
that an update was sent to and neither all targets nor an operator confirmed.

`WeightGate` is the abstract specification: workers with uncertain weights are
not served. `GateSpec` is the refinement, with `open` the targets of a broadcast
under way and `served` the workers that some data plane's snapshot would route
to; the abstract `NoMixedWeights` then holds of the data planes' views.

*Properties.* `GateSpec`; `AckTruthful`: the control plane never believes a data
plane further than it is, whatever heartbeats do; `UncertainJournaled`: the
journal, also the one a reboot brings back, names every uncertain worker. Nothing
like it holds of a worker that an operator has disabled: that flag is kept in the
snapshot file only, which goes with a reboot or a restart of the supervisor, and
`StartCP` then restores every worker the journal does not name as enabled.

## 3. Runs

| Run | Instance | Shows |
|---|---|---|
| `session_manager` | 2 replicas, 4 slots, 5 connections | placement, no refusal while a slot is free |
| `video_session` | 4 client messages, capacity 1 | acknowledgement order, credits, frames, termination |
| `coordinator` | a stream and a submit, distinct ids, 2 replicas, 2 terminals | replica load, no stranded caller while the loop runs |
| `coordinator_live` | a stream and a submit under one id | the id is used by one call at a time; forgotten requests are released; every call returns; a stream leaves nothing |
| `stage_runtime` | 1 request, a stream and 2 payloads, 4 wirings, outbox of 1 | order, clean-up, acknowledgements, every request leaves |
| `stage_stop` | 1 request, 1 stream of 3 chunks | **violated**: `stop()` waits for ever |
| `kv_window` | 1 request, 4 events, 16 slots | rows and lengths after compaction, or as they grow without a window |
| `kv_batch` | 2 requests, 8 slots, context 7 | slot ownership, settled rows and limits under both loops, with and without a window |
| `kv_live` | 2 requests, 5 slots, context 4 | no lost event, aborts release, with and without a window |
| `frame_window` | 6 frames, 2 grids, intervals 0, 1, 2, 4, windows 2 and 3, ratio 2 | records, row, visible counts; rounds settle |
| `shared_admission` | 2 data planes, bound 1, 2 generations, 3 operations | overshoot, torn reads, fencing, counters across deaths |
| `weight_update` | 2 workers, 2 data planes, 2 updates, 2 faults | refinement of `WeightGate`, acknowledgements, journal |

*Why the bounds are enough.* Five connections on four slots meet a full
manager and every imbalance two replicas can have. Four messages are
configure, a frame, its payload and one more event, so that the second event
waits for the only credit while the first is at any point of its life. A
stream and a submit are the two kinds of caller; two of them fill both
replicas, and two terminals are the least that need aggregation. At a
stage, requests share only the drain and the crash handler, so one request
with a stream, which may end after the result, and two payloads to aggregate meets
every race of receiving. Two frames
are the least the window pools; four events leave room to extend a row after
it was compacted, which is where the dead zone can be wrong. Two requests of
context 7 cannot both fit into 8 slots, so budget victims, preemption and the
decode guard all occur. Two data planes are a writer and a reader; the
bound of one request is overshot by one; each may die once and its successor
act once more (`MaxSeq` limits the operations, `MaxGeneration` the deaths), and
two deaths are the least that fold twice. Two workers are a target
that succeeds and one that fails, two data planes one that acknowledges and one
that does not; two faults are a crash and the late heartbeat or the failed write
that could make it harmful, and two updates a failed one and its successor. Six
frames make two pooled frames and leave two raw ones; the intervals lie below,
at and beyond both windows, and two grids make chunks that cannot be pooled. KV
slots are taken lowest first, which loses nothing as they are interchangeable.
Symmetry is used in runs of invariants and action properties only.

Deadlock is not checked in `session_manager`, `stage_runtime`, `stage_stop` and
`frame_window`: every connection may be closed for good, a stage may have
stopped, and after the last frame no round changes anything. `shared_admission`
ends in `Terminated` when the supervisor fails closed. `coordinator` has an
explicit `Finished` step, and the other modules end in stuttering steps of their
own or never stop.

*Fairness.* `VideoSession` and `Coordinator`: the event loop resumes every
coroutine that can go on, sends and broadcasts return or raise, a connection
that is gone is reported to the receiver, and a stage answers for every event
or request it was given (strong fairness for completions, since the completion
loop is busy at times). Nothing forces a client to act, and no fairness is
assumed of cancellation. `coordinator_live` assumes broadcasts succeed: one
that raises ends the completion loop (hazard at `coordinator.py:786`).
`RealtimeKV`: the scheduler thread never stops (weak fairness of its step) and
a rate interval is finite (strong fairness of the decode that is not rate
limited). `StageRuntime`: the event loop resumes every task, reads and sends end
in success or failure, sources send all they began to send, and a scheduler that
lives ends a request it was given with its result (strong fairness, as the outbox
may be full at times). Messages are finitely many, so that weak fairness of all
tasks together is enough. Nothing forces an abort, a crash or a stop, but a stage
whose scheduler has crashed or one of whose tasks has raised does stop. `SharedAdmission`, `WeightUpdate`,
`FrameWindow` and `SessionManager` state no fairness: their properties are about
safety.

## 4. Findings

- `pipeline/stage/runtime.py`, `stop()`: it cancels the receive tasks and gathers
  them. Cancelling a task that waits for its predecessor cancels the future it waits
  for; its `finally`, which awaits that future whether or not the handler has, raises
  before the task's own future is set. A task behind it that was still reading then waits for that future
  for ever, and `gather` does not return. Three chunks of one stream under way are enough
  (`stage_stop`).

Observed while modelling, and not kept as runs:

- `video_realtime.py:916`: the comment says the session count and the count of
  pinned requests "can never diverge"; a teardown whose abort times out frees
  the slot while the coordinator's abort task still owns the request.
- `coordinator.py:797`: after its abort broadcast the failure handler works by
  id again and can drop a request that reused the id, whose replica stays charged
  (two calls under one id; `ForgottenReleased` names it as its exception).
- `coordinator.py:528`: a request the terminal-stage resolver rejects leaves
  its replica charged (`Coordinator` with `ResolverRejects = TRUE` violates
  `InflightExact`).
- `coordinator.py:753`: an abort broadcast that raises ends the completion loop,
  and callers then wait for an abort or the end of a stage process;
  `coordinator.py:412`: `submit()` has no clean-up when its send fails.
- `sglang_omni_router/app.py`: a control plane that dies after it has cleared the
  journal and before the last publish leaves the targets disabled with nothing in
  the journal to say why; this is safe, and an operator has to enable them.
- `pipeline/stage/runtime.py:605` and `:845`: a chunk or an end of stream that comes
  after the result was routed makes the request active again. Without early stream
  data the stage then reports the finished request as failed; with it, the request
  stays active for good.
- `sglang_omni_router/control_plane.py`: a worker's disabled flag is kept in the
  snapshot file only and lost with it.
- A stage drops a request whose id was aborted before without an answer; a
  failed read of an aborted request is reported as a second failure.

## 5. Proofs

Every invariant and action property that a passing run checks is also a theorem.
The theorems hold for every value of the constants that
satisfies the named assumptions of the component's module: sizes are positive,
sets that are counted are finite, model values are distinct, a pool holds at
least one context (`_validate_kv_pool_capacity`) and a prompt fits it. The
constants that bound a run (`MaxEvents`, `MaxFaults`, `MaxSeq` and the like) are
constants like the others, so the theorems hold for every bound.

Each component's proofs are laid out alike: the inductive invariant, one lemma
per action or group of actions that keeps it, and at the end the theorems, which
combine these with `Init`.

### CoordinatorProofs

- `TypeCorrect`: one lemma per group of actions.
- `InflightCounts`: without a raising resolver, `InflightExact`. Every step
  binds one call to a replica (`BindStep`), gives up the replicas of a set of
  calls (`FreeStep`), or leaves them alone (`KeptStep`). `FreedExact` is the
  central lemma: when a counter is exact, releasing the owners in a set subtracts
  their number and the floor at zero is not reached. Binding needs the
  strengthening `NewUnowned`: `InflightExact` alone would allow a call that
  starts with an owner.
- `ForgottenAreReleased`: for every assignment of ids, from the same
  classification. `FinishFailure` is the only step whose proof needs the exception.
- `IdsExclusive`: for every assignment of ids. `IdExclusive` does not mention the
  table that enforces it; the invariant `Holds` does: a call under way owns the
  completion future of its id until it returns.
- `NoneStranded`: for every assignment of ids, also repeated ones. `SInv` says
  what wakes a caller whose request is not tracked any more (`Wakes`). To keep it,
  every terminal counted for a request must be one its stream has seen or has in
  its queue (`Reported`), the queue and the table entry of an id must be the call's
  own (`Listens`, `Tracks`), a call must start with neither partial results nor
  seen terminals (`Fresh`), and a stream that still waits must lack a terminal
  (`Unserved`). `DInv` is about tracked requests: the terminals that have reported
  are expected and not all of them (`Partials`), and those missing are still at
  work, or the loop is about to fail the request (`Due`).

### VideoSessionProofs

`TypeCorrect`, `WireInOrder`, `CreditsKept` and `FramesGone`, for every capacity
and number of messages. One invariant carries all four, since credits, frames
and answers depend on each other: an answer returns a credit only if the event
still has it, so an answer under way must belong to an event that was submitted,
that has no later final answer and whose frame was read (`Sound`, `Precedes`,
`Underway`); sequence numbers never pass the messages received (`Numbered`);
nothing happens before the stage is ready (`Ordered`); the teardown comes after
the worker and its release after the response task (`Ending`); and who may send
`session.done` is decided by `request_finished` (`DoneSentBy`).

The last part of the module is about the manager of all sessions, `SessionManager`:
`ManagerTypeCorrect`, `ReplicaCapacity` and `RefusalsJustified`. The dictionary holds
the sessions being served or torn down (`Slots`); the point is that when no replica
has room, the manager as a whole is full, by adding up the sessions per replica.

### StageRuntimeProofs

`TypeCorrect`, `LanesOrdered`, `NothingStaysHeld` and the action property
`QuietAfter`, for every set of requests and sources, every script and every
wiring. `LaneOrder` speaks of what was taken only: `Waiting` adds that the tasks
of a lane are the latest arrivals in order, `Behind` that what was taken is older
than what waits, and `Gapless` that, until a task has raised, taken and waiting
messages of a living request are all that arrived. `NothingHeld` needs to know who
will still clean up (`WillClear`, `Released`), and that a first stage has no
lanes (`Entered`). `ScriptAssumption` names what the proofs need of the
constants: `None` is no outbox entry and request names are not places of the
crash handler.

### RealtimeKVProofs

`TypeCorrect`, `RowsAreSound`, `RowsAreSettled` and `AllocationsAlwaysFit`, for
every number of requests, slots and frames, both event loops, with and without a
frame window, and every limit.
`IInv` is their common invariant, inductive without the sum of the budget:

- `Control` and `Flushed`: what the place in the loop says about aborts, steps and
  candidates in progress, and that a pending event means no launched step;
- `PlaceOf`, `DueOf`: where a request may be while it has a staged segment, is
  marked aborted, or waits for the window (`WindowDue`, kept beside `IInv`: nothing
  waits for a window that is not there);
- `LengthsOf`, `FramesOf`, `ContextOf`, `Capacity`: the lengths as equations for
  each place. They are inequalities for a request whose resolve has failed, as its
  step's slot is lost to the row until the abort that follows; that abort is why
  the inequality does no harm;
- `Rows`, `TailOf`, `StepsOf`: every slot is free or in one cell of one row, the
  dead zone behind a compacted row is empty, and the slots of steps in flight are
  the last cells in launch order, which makes resolving, dropping and
  releasing a step give back the right slot.

`DataKept` and `Still` let the many steps that move only the control state share
one argument. The first lemmas are about the allocator: `Alloc` is an injection
into the free slots. `AllocationsAlwaysFit` adds `Budgeted`: while a batch is
staged, the pool and what the victims will give back cover the segments that have
no slots yet. It needs sums over requests, and the number of slots a victim owns.

### FrameWindowProofs

`RecordsAlwaysDescribeRow`, `VisibleAlwaysExact`, the action property
`EveryRoundSettles` and the link to `RealtimeKV`, `PlannerKeepsToPlans`, for every raw and pool window, ratio, set of grids and
intervals, and every number of frames. The proofs have two halves.

The planner, without the row. `Fits` says what a plan may be: the chunks tile the
first aged raw frames (`Tiling`), a chunk that is pooled has one grid
(`Uniform`), and the new records are the kept pooled frames, the produced ones
and the raw frames behind the chunks. `Settled` says what it must leave. `PlanFits`
proves both of `plan_frame_window`, also when it drops what it has just
produced (`UnmadeAre`: chunks that are not made are the first poolable ones), and
`DegradedFits` proves that both carry over to the plan without slots. What the
planner counts are prefixes of sequences in the order of time (`Prefix`,
`Trailing`, `AgedAre`, `ExpiredAre`); the k-th chunk to pool is found by its rank
(`NthIs`).

The row, for any plan that fits. `Planned` and `Layout` name the five sizes of a
round: e pooled runs evicted and a kept, P made of N raw runs, b raw runs left.
`Covered` and `Runs` give spans and runs by these sizes. `RemapExact` is the
central lemma: runs are in the order of their frames, so that the runs a token sees
are a prefix of the row, and a span meets the first c old rows exactly if its run
has one of their frames. It needs `VisibleExact` before the round, which is why
the two are one invariant. `EvictedExact` counts: evicted, dropped and covered
rows partition the old row (`EveryRun`), and the frames of disjoint rows add up.
The inductive invariant `Inv` adds to the two properties that times never go back
(`TimesGrow`), that no run is empty, and that the newest frame has a run of its
own (`RunsFull`), from which the window is measured. Nothing is assumed of the
windows but that they are numbers; the pool window may be shorter than the raw one.

What a round leaves is in order again (`NextInvInOrder`), has less than a chunk of
aged frames and close pooled ones, from which a new plan would be empty (`Idle`,
`NothingLeft`): the last conjunct of `RoundSettles`. `PlannerKeepsToPlans` counts
what a plan removes (`TilingSize`: full chunks and dropped frames add up to the
tiling) and finds it in `Plans`, from which `RealtimeKV` chooses. What is proved
there of slots and rows for any such plan therefore holds of the plans that are
computed; the slots of a frame are all its model knows of one.

### SharedAdmissionProofs

For every number of data planes, every bound, any number of deaths, each at any
store, and any interleaving of loads:

- `TypeCorrect` and `SeqlocksSound`. `SeqlockSound` is not inductive: `Marked`
  says when a slot is odd, with the writer alive, dead or replaced by the
  supervisor, and that it is torn only then; `Reads` says a reader has seen an even
  number not ahead of the slot.
- `OvershootBounded`, the documented bound of N - 1. A data plane that is summing
  has a forecast (`Estimate`): what it has read and what the slots ahead of it
  show. `Gap` states, for every value v from `MaxInflight` on, that the sum of the
  slots, the admissions not yet written (`Unwritten`) and the summing data
  planes whose forecast is below v (`Below`) come to at most v + N - 1. The bound
  is v = `MaxInflight`. It has to be claimed for every v: when a slot ahead of
  a reader grows by one, forecasts below v are those that were below v - 1, and
  when one behind it shrinks, the reader keeps a forecast that is too high.
  `Raises`, `Lowers`, `Admits`, `Starts` and `Continues` are the five ways a step
  moves the gap. `Exact` (a stable read is what the slot holds) and `Accounted`
  (slot and counter of a data plane differ by the one write under way) connect it
  with the code's steps.
- `NothingInvented` and `NothingLost`, for `/health`. Each rejection is counted by
  one data plane (`Counted`), stands in one slot (`Listed`), or has been moved to
  the retired one (`Retained`); the fold moves it in the store that tears the
  retired slot. `Tally` bounds both sums between rounds; `Scan` does so within a
  round for what was read and what is still ahead, as long as the retired slot has
  the version the round began with. A fold makes `Scan` vacuous, since the version
  never returns. `Fold` has the values the supervisor has read and not yet written.

### WeightUpdateProofs

`TypeCorrect`, `AcksTruthful`, `JournalSurvives`, `NoMixed` and the refinement
`ImplementsGate`, for every set of workers and data planes and any number of faults
and updates. `Clocks` orders epochs and sequence numbers of writer, file and
readers; `Claims` says what any heartbeat, delivered or late, may claim, also one
of a dead process; `Underway` ties each phase to journal, registry, file and
acknowledged views; `Shut` says that no pool anywhere routes to an uncertain
worker. The refinement then takes each step: a broadcast is the abstract
beginning of an update because the barrier has established that no view serves a
target; success and an operator's enabling are its end; everything else leaves the
served workers outside the uncertain ones.

### SumTheorems

Sums over finite index sets, for budgets and counters. A sum of natural numbers
is the number of pairs `<<x, i>>` with `i` in `1 .. f[x]`. The equation takes one
induction, over the subsets of the index set by a minimal counterexample
(`FoldUnique`, with `WFMin`, as the library's induction rule takes an operator the
provers cannot instantiate). The cardinality of a union of disjoint sets is the sum
of theirs (`SumOfParts`). The rest (removal of an index, monotonicity, change of one
term) are facts about cardinalities.

### Only model-checked

- Liveness: `EventsConsumed`, `AbortReleases`, `CallReturns`,
  `StreamLeavesNothing`, `SessionEnds`, `InputProgress`, `TransfersAcked`,
  `RequestLeaves`. Reasoning under fairness is out of the proof system's reach.
- `StopReturns` is violated (section 4).

## 6. Plan

1. Abstract specifications with proved refinements: a credit window that
   `VideoSession` implements, a one-shot request that `Coordinator` implements.
2. `SharedAdmission`: that admission resumes after a death, as a temporal
   property on an instance without the `/health` reader.
3. Coordinator admin operations; usage accounting and the v2 adapter on top of
   `VideoSession`; `OmniScheduler` pause and weight update; the composition of
   `Coordinator` with `StageRuntime`.

## 7. Not modelled

Most of the repository's lines are numerical code: the model families, their
components, vocoders and kernels, whose behaviour is not one of states and
interleavings. Of the rest, these are left out: wire formats, HTTP validation
and logging; relays and sockets below the control plane, taken as ordered and
reliable between live processes; process start and shutdown of the runner; image
decoding and byte limits of frames; the router's relay of single requests and its
health states; the schedulers of the speech stages and their feature caches.
Each is listed in `PROJECT.json` with its reason.
