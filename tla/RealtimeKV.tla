----------------------------- MODULE RealtimeKV -----------------------------
(***************************************************************************)
(* The scheduler thread of the MOSS-VL realtime stage and the KV slots of  *)
(* its persistent requests.                                                *)
(*                                                                         *)
(* A request owns one row of the page table req_to_token: enc slots of     *)
(* vision KV, then dec slots of text KV, then the slots of decode steps    *)
(* that were launched and are not resolved yet.  Frames and prompts that   *)
(* arrive while it decodes are spliced in by an extend batch, whose page   *)
(* row is staged before the forward and committed or rolled back after it. *)
(* A frame window, if configured, later drops or pools old frames and      *)
(* compacts the row, after which token positions (appended + dec) and KV   *)
(* positions (enc + dec) differ.  A request that samples silence parks.    *)
(* With async_decode one decode step is in flight while the next is        *)
(* launched.                                                               *)
(*                                                                         *)
(* The thread is sequential: pc is the place in one iteration of the event *)
(* loop.  A step to resolve, an abort that waits for it and a deferred     *)
(* control-plane abort are subroutine calls: they run to their end before  *)
(* the iteration goes on (Quiet).                                          *)
(***************************************************************************)
EXTENDS Integers, FiniteSets, Sequences, FiniteSetsExt, WindowPlan

CONSTANTS
    Req,            \* the persistent requests
    NumSlots,       \* size of the KV pool; slot 0 is the empty cell
    Width,          \* width of a row of req_to_token
    ContextLimit,   \* server_args.context_length
    PromptLen,      \* tokens of a request's initial text prompt
    FrameSlots,     \* encoder slots of one frame
    PoolRatio,      \* frames folded into one pooled frame
    MaxEvents       \* events a client sends per request (bound)

ASSUME SizesAssumption ==
    /\ IsFiniteSet(Req)
    /\ {NumSlots, Width, ContextLimit, PromptLen, FrameSlots} \subseteq Nat \ {0}
    /\ PoolRatio \in Nat /\ PoolRatio >= 2
    /\ MaxEvents \in Nat
\* _validate_kv_pool_capacity refuses a pool smaller than one context.
ASSUME PoolAssumption == ContextLimit <= NumSlots /\ ContextLimit <= Width
\* The initial prompt is admitted only when it fits the context.
ASSUME PromptAssumption == PromptLen + 1 <= ContextLimit

VARIABLES
    async_decode, \* enable_async_decode: which event loop runs, for good
    frame_window, \* frame_window_config is not None: whether frames age, for good
    pc,         \* place of the scheduler thread in one loop iteration
    free,       \* free slots of token_to_kv_pool_allocator
    row,        \* req_to_token: one row per request
    kv,         \* lengths kept in the runtime state and in the Req
    st,         \* place in the batches, phase, session flags
    frames,     \* raw and pooled frames in the row (their records are kept for
                \* the window only); due: the window has not planned them yet
    events,     \* the session's pending events
    sent,       \* events accepted so far (bound MaxEvents)
    staged,     \* the segment appended to the request, until commit or undo
    prepared,   \* the decode step prepared in this iteration, and its slots
    pending,    \* _async_pending: the launched step and its slots
    resolving,  \* the step whose results are being processed
    doomed,     \* requests to abort with immediate release
    controls,   \* control-plane aborts taken from the inbox, not applied yet
    cand        \* frame-window candidates of this iteration

memory == <<free, row, kv>>
inputs == <<events, sent>>
steps == <<prepared, pending, resolving>>
aborts == <<doomed, controls>>
state == <<pc, memory, st, frames, inputs, staged, steps, aborts, cand>>
vars == <<async_decode, frame_window, state>>

Slot == 1 .. NumSlots
Cell == 1 .. Width
NoStep == << >>
Step == UNION {[S -> Slot] : S \in SUBSET Req}
NoEvents == [frame |-> 0, prompt |-> 0]
NoSegment == [frames |-> 0, enc |-> 0, len |-> 0]
NoLengths == [enc |-> 0, dec |-> 0, appended |-> 0, alloc |-> 0, fill |-> 0]

Gone == [place |-> "gone", phase |-> "aborted", to_finish |-> FALSE,
         open |-> FALSE, final |-> FALSE]

Place == {"new", "waiting", "prefill", "running", "extend", "parked", "gone"}
Phase == {"waiting", "extending", "decoding", "aborted"}
PC == {"recv", "expire", "events", "window", "apply", "extend", "budget",
       "stage", "run_extend", "prefill", "run_prefill", "guard", "rate",
       "preempt", "decode", "run_decode", "idle"}

At(place) == {r \in Req : st[r].place = place}
Live == {r \in Req : st[r].place \notin {"new", "gone"}}

\* committed_total (KV space) and token_total (token space).
KvTotal(r) == kv[r].enc + kv[r].dec
TokenTotal(r) == kv[r].appended + kv[r].dec

TypeOK ==
    /\ async_decode \in BOOLEAN /\ frame_window \in BOOLEAN
    /\ pc \in PC
    /\ free \subseteq Slot
    /\ row \in [Req -> [Cell -> Slot \cup {0}]]
    /\ kv \in [Req -> [enc : Nat, dec : Nat, appended : Nat, alloc : Nat,
                       fill : Nat]]
    /\ st \in [Req -> [place : Place, phase : Phase, to_finish : BOOLEAN,
                       open : BOOLEAN, final : BOOLEAN]]
    /\ frames \in [Req -> [raw : Nat, pooled : Nat, due : BOOLEAN]]
    /\ events \in [Req -> [frame : Nat, prompt : Nat]]
    /\ sent \in [Req -> 0 .. MaxEvents]
    /\ staged \in [Req -> [frames : Nat, enc : Nat, len : Nat]]
    /\ {prepared, pending, resolving} \subseteq Step
    /\ {doomed, controls, cand} \subseteq SUBSET Req

\* A row of the pool outside a request's life holds slot numbers of an earlier
\* owner: upstream's release does not clear it.
StaleRow == [i \in Cell |-> 1]

Init ==
    /\ async_decode \in BOOLEAN /\ frame_window \in BOOLEAN
    /\ pc = "recv"
    /\ free = Slot
    /\ row = [r \in Req |-> StaleRow]
    /\ kv = [r \in Req |-> NoLengths]
    /\ st = [r \in Req |-> [place |-> "new", phase |-> "waiting",
                            to_finish |-> FALSE, open |-> FALSE, final |-> FALSE]]
    /\ frames = [r \in Req |-> [raw |-> 0, pooled |-> 0, due |-> FALSE]]
    /\ events = [r \in Req |-> NoEvents]
    /\ sent = [r \in Req |-> 0]
    /\ staged = [r \in Req |-> NoSegment]
    /\ prepared = NoStep /\ pending = NoStep /\ resolving = NoStep
    /\ doomed = {} /\ controls = {} /\ cand = {}

-----------------------------------------------------------------------------
(* Page rows and the allocator.                                            *)

\* The n free slots the allocator hands out next.  Slots are interchangeable,
\* so that the lowest are taken loses no behaviour.
Alloc(n) ==
    [k \in 1 .. n |->
        CHOOSE s \in free : Cardinality({t \in free : t < s}) = k - 1]

\* The cells 1..n of a row, as release_kv_cache reads them.
Prefix(cells, n) == {cells[i] : i \in 1 .. n}
Held(r) == Prefix(row[r], kv[r].alloc)

EncoderSlots(r) == [i \in 1 .. kv[r].enc |-> row[r][i]]
DecoderSlots(r) == [i \in 1 .. kv[r].dec |-> row[r][kv[r].enc + i]]

\* slots into the cells after position `from`; the other cells stay.
Write(cells, from, slots) ==
    [i \in Cell |-> IF i - from \in 1 .. Len(slots) THEN slots[i - from] ELSE cells[i]]

\* cells from+1 .. to become empty.
Clear(cells, from, to) ==
    [i \in Cell |-> IF i > from /\ i <= to THEN 0 ELSE cells[i]]

-----------------------------------------------------------------------------
(* Subroutines: resolve the step in flight, abort.                         *)

Quiet == resolving = NoStep /\ doomed = {} /\ controls = {}

Outcome == {"token", "silence", "finish"}

\* _resolve_pending_async: the launched step is taken to be processed.
Flush ==
    /\ resolving' = pending
    /\ pending' = NoStep

\* process_batch_result for the requests of batch, whose lengths after the
\* forward are len: append the sampled token, release the finished requests,
\* park the silent ones that nothing wakes.
ProcessResult(batch, len, cells, freed, out) ==
    LET finished == {r \in batch : out[r] = "finish" \/ st[r].to_finish}
        parked == {r \in batch \ finished :
                     /\ out[r] = "silence" /\ st[r].open /\ ~st[r].final
                     /\ events[r] = NoEvents}
    IN /\ free' = free \cup freed
                    \cup UNION {Prefix(cells[r], len[r].alloc) : r \in finished}
       /\ row' = [r \in Req |-> IF r \in finished THEN StaleRow ELSE cells[r]]
       /\ kv' = [r \in Req |->
                   IF r \in finished THEN NoLengths
                   ELSE IF r \in batch THEN [len[r] EXCEPT !.fill = @ + 1]
                   ELSE len[r]]
       /\ st' = [r \in Req |->
                   IF r \in finished THEN Gone
                   ELSE IF r \in parked
                   THEN [st[r] EXCEPT !.place = "parked", !.phase = "waiting"]
                   ELSE IF r \in batch
                   THEN [st[r] EXCEPT !.place = "running",
                                      !.phase = IF @ = "aborted" THEN @ ELSE "decoding"]
                   ELSE st[r]]

\* The lengths after a decode step: an aborted state no longer advances.
Advance(batch) ==
    [r \in Req |-> IF r \in batch /\ st[r].phase # "aborted"
                   THEN [kv[r] EXCEPT !.dec = @ + 1] ELSE kv[r]]

\* _resolve_and_process: the rows of requests that finished are dropped, the
\* overrun slots of requests that parked are freed, the others advance.
Resolve ==
    LET batch == DOMAIN resolving \cap At("running")
        overrun == DOMAIN resolving \cap At("parked")
        next == Advance(batch)
        len == [r \in Req |-> IF r \in overrun /\ kv[r].alloc > KvTotal(r)
                              THEN [kv[r] EXCEPT !.alloc = KvTotal(r)] ELSE next[r]]
        cells == [r \in Req |-> IF r \in overrun
                                THEN Clear(row[r], KvTotal(r), KvTotal(r) + 1)
                                ELSE row[r]]
    IN /\ resolving # NoStep
       /\ \E out \in [batch -> Outcome] :
            ProcessResult(batch, len, cells, {resolving[r] : r \in overrun}, out)
       /\ resolving' = NoStep
       /\ UNCHANGED <<pc, frames, inputs, staged, prepared, pending, aborts,
                      cand>>

\* execute_resolve raises: no slot is touched, every request of the step is
\* aborted; a newer launched step is drained by the first of these aborts.
ResolveFails ==
    /\ resolving # NoStep
    /\ doomed' = doomed \cup (DOMAIN resolving \cap Live)
    /\ resolving' = NoStep
    /\ UNCHANGED <<pc, memory, st, frames, inputs, staged, prepared, pending,
                   controls, cand>>

\* Release everything r holds and forget it.
Release(r) ==
    /\ free' = free \cup Held(r)
    /\ row' = [row EXCEPT ![r] = StaleRow]
    /\ kv' = [kv EXCEPT ![r] = NoLengths]
    /\ st' = [st EXCEPT ![r] = Gone]

\* abort(rid, defer_running_cleanup=False) of a request in the step in flight
\* first resolves that step.
AbortFlush(r) ==
    /\ resolving = NoStep /\ pc # "budget"
    /\ r \in doomed \cup controls
    /\ r \in DOMAIN pending
    /\ Flush
    /\ UNCHANGED <<pc, memory, st, frames, inputs, staged, prepared, aborts,
                   cand>>

Abort(r) ==
    /\ resolving = NoStep /\ pc # "budget"
    /\ r \in doomed
    /\ r \notin DOMAIN pending
    /\ Release(r)
    /\ doomed' = doomed \ {r}
    /\ UNCHANGED <<pc, frames, inputs, staged, steps, controls, cand>>

\* Mutant of ControlAbort: a parked request is marked as if it still decoded.
ControlAbortMarks(r) ==
    /\ resolving = NoStep /\ doomed = {}
    /\ r \in controls
    /\ r \notin DOMAIN pending
    /\ controls' = controls \ {r}
    /\ IF st[r].place \in {"running", "parked"}
       THEN /\ st' = [st EXCEPT ![r].phase = "aborted", ![r].to_finish = TRUE,
                                ![r].open = FALSE]
            /\ UNCHANGED memory
       ELSE Release(r)
    /\ UNCHANGED <<pc, frames, inputs, staged, steps, doomed, cand>>

\* abort(rid) from the control plane: a request of a batch is only marked and
\* finishes with its next decode result; any other is released at once.
ControlAbort(r) ==
    /\ resolving = NoStep /\ doomed = {}
    /\ r \in controls
    /\ r \notin DOMAIN pending
    /\ controls' = controls \ {r}
    /\ IF st[r].place = "running"
       THEN /\ st' = [st EXCEPT ![r].phase = "aborted", ![r].to_finish = TRUE,
                                ![r].open = FALSE]
            /\ UNCHANGED memory
       ELSE Release(r)
    /\ UNCHANGED <<pc, frames, inputs, staged, steps, doomed, cand>>
-----------------------------------------------------------------------------
(* recv_requests and process_input_requests: messages in inbox order.      *)

AtRecv == pc = "recv" /\ Quiet

\* _enqueue_built_request: the session opens and the request waits.
Submit(r) ==
    /\ AtRecv
    /\ st[r].place = "new"
    /\ st' = [st EXCEPT ![r].place = "waiting", ![r].open = TRUE]
    /\ UNCHANGED <<pc, memory, frames, inputs, staged, steps, aborts, cand>>

\* request_update with an event the session accepts: a frame or a prompt,
\* possibly the final one.
Update(r, kind, last) ==
    /\ AtRecv
    /\ r \in Live /\ st[r].open /\ ~st[r].final
    /\ sent[r] < MaxEvents
    /\ sent' = [sent EXCEPT ![r] = @ + 1]
    /\ events' = [events EXCEPT ![r][kind] = @ + 1]
    /\ st' = [st EXCEPT ![r].final = last]
    /\ UNCHANGED <<pc, memory, frames, staged, steps, aborts, cand>>

\* A request_update that accept refuses, or the admin action that freezes the
\* accounting of a request: abort with immediate release.
RejectUpdate(r) ==
    /\ AtRecv
    /\ r \in Live
    /\ doomed' = {r}
    /\ UNCHANGED <<pc, memory, st, frames, inputs, staged, steps, controls,
                   cand>>

\* An abort message of the control-plane listener thread.
AbortMessage(r) ==
    /\ AtRecv
    /\ r \in Live /\ st[r].phase # "aborted"
    /\ controls' = {r}
    /\ UNCHANGED <<pc, memory, st, frames, inputs, staged, steps, doomed, cand>>

\* The inbox is drained: plan the next batch.
BeginPlan ==
    /\ AtRecv
    /\ pc' = "expire"
    /\ UNCHANGED <<memory, st, frames, inputs, staged, steps, aborts, cand>>

-----------------------------------------------------------------------------
(* get_next_batch_to_run.                                                  *)

\* _expire_parked_requests: any parked request may have timed out.
ExpireParked ==
    /\ pc = "expire" /\ Quiet
    /\ doomed' \in SUBSET At("parked")
    /\ pc' = "events"
    /\ UNCHANGED <<memory, st, frames, inputs, staged, steps, controls, cand>>

\* Mutant of HasPendingEvents: parked requests are overlooked.
HasPendingRunningEvents ==
    \E r \in At("running") : st[r].open /\ events[r] # NoEvents

HasPendingEvents ==
    \E r \in At("running") \cup At("parked") : st[r].open /\ events[r] # NoEvents

\* A launched step is resolved before events are spliced into the requests.
EventsBarrier ==
    /\ pc = "events" /\ Quiet
    /\ pc' = "window"
    /\ IF HasPendingEvents THEN Flush ELSE UNCHANGED <<pending, resolving>>
    /\ UNCHANGED <<memory, st, frames, inputs, staged, prepared, aborts, cand>>

\* The candidates of _evaluate_frame_window, taken before the step in flight
\* is resolved for them.
FrameWindowCandidates ==
    {r \in At("running") \cup At("parked") :
        /\ st[r].phase \in {"decoding", "waiting"}
        /\ frames[r].raw + frames[r].pooled > 0}

\* Nothing is a candidate, and the step in flight stays there, without a window.
EvaluateFrameWindow ==
    /\ pc = "window" /\ Quiet
    /\ cand' = IF frame_window THEN FrameWindowCandidates ELSE {}
    /\ pc' = "apply"
    /\ IF cand' # {} THEN Flush ELSE UNCHANGED <<pending, resolving>>
    /\ UNCHANGED <<memory, st, frames, inputs, staged, prepared, aborts>>

\* A plan of _evaluate_frame_window.
Plan(r) == Plans(frames[r].pooled, frames[r].raw, PoolRatio)

\* Mutant of ApplyFrameWindow: the tail of the compacted row is not cleared.
ApplyFrameWindowNoClear(r, plan) ==
    LET old == EncoderSlots(r)
        cut == (plan.drop + PoolRatio * plan.fold) * FrameSlots
        new == SubSeq(old, cut + 1, Len(old))
    IN /\ row' = [row EXCEPT ![r] = Write(row[r], 0, new \o DecoderSlots(r))]
       /\ free' = free \cup {old[i] : i \in 1 .. cut}
       /\ kv' = [kv EXCEPT ![r].enc = Len(new), ![r].alloc = Len(new) + kv[r].dec]
       /\ frames' = [frames EXCEPT ![r].raw = @ - plan.drop - PoolRatio * plan.fold,
                                   ![r].due = FALSE]

\* apply_frame_window_plan: allocate the pooled frames' slots (or degrade to
\* dropping), rewrite and clear the row, free what left it, shrink the lengths.
\* Which aged chunks fold is immaterial to slot ownership: they all leave.
ApplyFrameWindow(r, plan) ==
    LET fold == IF plan.fold * FrameSlots <= Cardinality(free) THEN plan.fold ELSE 0
        pooled == Alloc(fold * FrameSlots)
        old == EncoderSlots(r)
        cut1 == plan.evict * FrameSlots
        cut2 == frames[r].pooled * FrameSlots
        cut3 == cut2 + (plan.drop + PoolRatio * plan.fold) * FrameSlots
        new == SubSeq(old, cut1 + 1, cut2) \o pooled \o SubSeq(old, cut3 + 1, Len(old))
        left == {old[i] : i \in 1 .. cut1 \cup (cut2 + 1) .. cut3}
        total == Len(new) + kv[r].dec
    IN /\ row' = [row EXCEPT ![r] =
                    Clear(Write(row[r], 0, new \o DecoderSlots(r)), total, Width)]
       /\ free' = (free \ {pooled[i] : i \in DOMAIN pooled}) \cup left
       /\ kv' = [kv EXCEPT ![r].enc = Len(new), ![r].alloc = total]
       /\ frames' = [frames EXCEPT ![r].pooled = @ - plan.evict + fold,
                                   ![r].raw = @ - plan.drop - PoolRatio * plan.fold,
                                   ![r].due = FALSE]

\* The evaluation of one candidate.  A plan is computed from the records alone,
\* so that only records that grew since the last evaluation can yield one.
WindowRound(r) ==
    /\ pc = "apply" /\ Quiet
    /\ r \in cand
    /\ cand' = cand \ {r}
    /\ \/ /\ frames' = [frames EXCEPT ![r].due = FALSE]
          /\ UNCHANGED memory
       \/ /\ frames[r].due
          /\ \E plan \in Plan(r) : ApplyFrameWindow(r, plan)
    /\ UNCHANGED <<pc, st, inputs, staged, steps, aborts>>

\* Pooling or the metadata check raises before the row is rewritten.
WindowRoundFails(r) ==
    /\ pc = "apply" /\ Quiet
    /\ r \in cand /\ frames[r].due
    /\ cand' = cand \ {r}
    /\ doomed' = {r}
    /\ UNCHANGED <<pc, memory, st, frames, inputs, staged, steps, controls>>

WindowDone ==
    /\ pc = "apply" /\ Quiet
    /\ cand = {}
    /\ pc' = "extend"
    /\ UNCHANGED <<memory, st, frames, inputs, staged, steps, aborts, cand>>

-----------------------------------------------------------------------------
(* _materialize_realtime_extensions.                                       *)

\* Every queued event becomes one segment: a frame is FrameSlots pad tokens
\* and one text token, a prompt is one text token.
Segment(e) ==
    [frames |-> e.frame, enc |-> e.frame * FrameSlots,
     len |-> e.frame * FrameSlots + e.frame + e.prompt]

Staged == {r \in Req : staged[r] # NoSegment}

\* Mutant of Extensible: a parked request is not woken.
ExtensibleRunning(r) ==
    /\ st[r].place = "running" /\ st[r].phase = "decoding"
    /\ st[r].open /\ events[r] # NoEvents

\* A request whose session holds events and that can take a segment.
Extensible(r) ==
    /\ st[r].place \in {"running", "parked"}
    /\ st[r].phase \in {"decoding", "waiting"}
    /\ st[r].open /\ events[r] # NoEvents

\* _guard_realtime_context_capacity.
SegmentFits(r, seg) ==
    /\ TokenTotal(r) + seg.len + 2 <= ContextLimit
    /\ KvTotal(r) + seg.len + 1 <= Width

\* _build_segment and _append_segment_to_request want exactly one pending
\* token and no empty cell in the committed prefix.
Coalesces(r) ==
    /\ kv[r].fill = TokenTotal(r) + 1
    /\ 0 \notin Prefix(row[r], KvTotal(r))

Materialize(r) ==
    LET seg == Segment(events[r])
    IN /\ pc = "extend" /\ Quiet
       /\ Extensible(r)
       /\ events' = [events EXCEPT ![r] = NoEvents]
       /\ Coalesces(r) /\ SegmentFits(r, seg)
       /\ staged' = [staged EXCEPT ![r] = seg]
       /\ kv' = [kv EXCEPT ![r].fill = @ + seg.len]
       /\ UNCHANGED <<pc, free, row, st, frames, sent, steps, aborts, cand>>

\* The context is exhausted, or resolving a frame or building raises.
MaterializeFails(r) ==
    /\ pc = "extend" /\ Quiet
    /\ Extensible(r)
    /\ events' = [events EXCEPT ![r] = NoEvents]
    /\ doomed' = {r}
    /\ UNCHANGED <<pc, memory, st, frames, sent, staged, steps, controls, cand>>

MaterializeDone ==
    /\ pc = "extend" /\ Quiet
    /\ ~ \E r \in Req : Extensible(r)
    /\ pc' = IF Staged = {} THEN "prefill" ELSE "budget"
    /\ UNCHANGED <<memory, st, frames, inputs, staged, steps, aborts, cand>>

-----------------------------------------------------------------------------
(* _enforce_extend_memory_budget: plan the victims, then abort them.       *)

Needed(S) == SumFunctionOnSet([r \in Req |-> staged[r].len + 2], S)
VirtualAvailable ==
    Cardinality(free) + SumFunctionOnSet([r \in Req |-> KvTotal(r)], doomed)

Heaviest(S) == {v \in S : \A r \in S : KvTotal(r) <= KvTotal(v)}

BudgetShort == Staged \ doomed # {} /\ VirtualAvailable < Needed(Staged \ doomed)

BudgetVictim(v) ==
    /\ pc = "budget"
    /\ BudgetShort
    /\ v \in Heaviest((At("running") \cup At("parked")) \ doomed)
    /\ doomed' = doomed \cup {v}
    /\ UNCHANGED <<pc, memory, st, frames, inputs, staged, steps, controls,
                   cand>>

\* _undo_appended_segment for every request of S.
UndoLengths(S) ==
    [r \in Req |-> IF r \in S THEN [kv[r] EXCEPT !.fill = @ - staged[r].len] ELSE kv[r]]
UndoSegments(S) == [r \in Req |-> IF r \in S THEN NoSegment ELSE staged[r]]

BudgetDone ==
    /\ pc = "budget"
    /\ ~BudgetShort
    /\ kv' = UndoLengths(doomed)
    /\ staged' = UndoSegments(doomed)
    /\ pc' = IF Staged \ doomed = {} THEN "prefill" ELSE "stage"
    /\ UNCHANGED <<free, row, st, frames, inputs, steps, aborts, cand>>

-----------------------------------------------------------------------------
(* The extend batch: allocation and staging, forward, commit or rollback.  *)

\* prepare_for_extend for one request: upstream writes the new slots behind
\* the token prefix and counts token positions; the staged transaction then
\* installs the spliced layout.  The first new slot is the pending token's.
StageAppend(r) ==
    LET n == staged[r].len + 1
        new == Alloc(n)
        e == staged[r].enc
        layout == EncoderSlots(r) \o SubSeq(new, 2, e + 1)
                    \o DecoderSlots(r) \o <<new[1]>> \o SubSeq(new, e + 2, n)
    IN /\ pc = "stage" /\ Quiet
       /\ r \in Staged \ At("extend")
       /\ n <= Cardinality(free)
       /\ free' = free \ {new[i] : i \in 1 .. n}
       /\ row' = [row EXCEPT ![r] = Write(Write(row[r], TokenTotal(r), new), 0, layout)]
       /\ kv' = [kv EXCEPT ![r].alloc = TokenTotal(r) + n]
       /\ st' = [st EXCEPT ![r].place = "extend", ![r].phase = "extending"]
       /\ UNCHANGED <<pc, frames, inputs, staged, steps, aborts, cand>>

\* The synchronous path of the loop flushes a step in flight before it runs
\* the batch.
StageDone ==
    /\ pc = "stage" /\ Quiet
    /\ Staged \subseteq At("extend")
    /\ pc' = "run_extend"
    /\ Flush
    /\ UNCHANGED <<memory, st, frames, inputs, staged, prepared, aborts, cand>>

\* The layout before the append: the decoder part moved up by the new frames.
CommittedLayout(r) ==
    LET shift == kv[r].enc + staged[r].enc
    IN  EncoderSlots(r) \o [i \in 1 .. kv[r].dec |-> row[r][shift + i]]

\* rollback_moss_vl_realtime_batch: restore the committed layout, clear the
\* tail, free the new slots.
RollbackExtend ==
    LET batch == At("extend")
        restored(r) == Clear(Write(row[r], 0, CommittedLayout(r)), KvTotal(r), Width)
        new(r) == Prefix(row[r], KvTotal(r) + staged[r].len + 1)
                    \ Prefix(restored(r), KvTotal(r))
    IN /\ row' = [r \in Req |-> IF r \in batch THEN restored(r) ELSE row[r]]
       /\ free' = free \cup UNION {new(r) : r \in batch}
       /\ st' = [r \in Req |-> IF r \in batch
                               THEN [st[r] EXCEPT !.place = "running", !.phase = "waiting"]
                               ELSE st[r]]
       /\ staged' = [r \in Req |-> NoSegment]
       /\ doomed' = Staged
       /\ UNCHANGED <<frames, inputs, steps, controls, cand>>

Settle(len, S) ==
    [r \in Req |-> IF r \in S THEN [len[r] EXCEPT !.alloc = KvTotal(r)] ELSE len[r]]

\* prepare_for_extend raises: the appended segments are undone as well.
StageFails ==
    /\ pc = "stage" /\ Quiet
    /\ RollbackExtend
    /\ kv' = Settle(UndoLengths(Staged), Staged)
    /\ pc' = "prefill"

\* The forward raises: every request of the batch is aborted.
RunExtendFails ==
    /\ pc = "run_extend" /\ Quiet
    /\ RollbackExtend
    /\ kv' = Settle(kv, Staged)
    /\ pc' = "recv"

\* Mutant of CommitLengths: upstream's token-space bookkeeping is kept.
CommitLengthsTokenSpace ==
    [r \in Req |->
        IF st[r].place # "extend" THEN kv[r]
        ELSE [kv[r] EXCEPT !.enc = @ + staged[r].enc,
                           !.dec = @ + staged[r].len - staged[r].enc + 1,
                           !.appended = @ + staged[r].enc]]

\* commit_moss_vl_realtime_batch: lengths advance, the upstream bookkeeping is
\* brought back to KV space and the dead zone between the two is cleared.
CommitLengths ==
    [r \in Req |->
        IF st[r].place # "extend" THEN kv[r]
        ELSE LET seg == staged[r]
                 enc == kv[r].enc + seg.enc
                 dec == kv[r].dec + seg.len - seg.enc + 1
             IN [kv[r] EXCEPT !.enc = enc, !.dec = dec, !.alloc = enc + dec,
                              !.appended = @ + seg.enc]]

RunExtend ==
    LET batch == At("extend")
        len == CommitLengths
        cells == [r \in Req |->
                    IF r \in batch
                    THEN Clear(row[r], len[r].enc + len[r].dec,
                                       len[r].appended + len[r].dec)
                    ELSE row[r]]
    IN /\ pc = "run_extend" /\ Quiet
       /\ \E out \in [batch -> Outcome] : ProcessResult(batch, len, cells, {}, out)
       /\ frames' = [r \in Req |->
                        IF r \in batch /\ staged[r].frames > 0
                        THEN [frames[r] EXCEPT !.raw = @ + staged[r].frames,
                                               !.due = frame_window]
                        ELSE frames[r]]
       /\ staged' = [r \in Req |-> NoSegment]
       /\ pc' = "recv"
       /\ UNCHANGED <<inputs, steps, aborts, cand>>

-----------------------------------------------------------------------------
(* The upstream prefill of waiting requests (external planner).            *)

BatchSlots(batch) ==
    LET slots == Alloc(Cardinality(batch))
    IN  CHOOSE f \in [batch -> {slots[k] : k \in DOMAIN slots}] :
            \A r, q \in batch : f[r] = f[q] => r = q

\* One waiting request is admitted when its prompt fits; its slots are taken
\* and a step in flight is flushed before the forward.
Prefill(r) ==
    LET slots == Alloc(PromptLen)
    IN /\ pc = "prefill" /\ Quiet
       /\ st[r].place = "waiting"
       /\ PromptLen <= Cardinality(free)
       /\ free' = free \ {slots[k] : k \in DOMAIN slots}
       /\ row' = [row EXCEPT ![r] = Write(row[r], 0, slots)]
       /\ kv' = [kv EXCEPT ![r].alloc = PromptLen, ![r].fill = PromptLen]
       /\ st' = [st EXCEPT ![r].place = "prefill"]
       /\ pc' = "run_prefill"
       /\ Flush
       /\ UNCHANGED <<frames, inputs, staged, prepared, aborts, cand>>

NoPrefill ==
    /\ pc = "prefill" /\ Quiet
    /\ At("waiting") = {} \/ Cardinality(free) < PromptLen
    /\ pc' = "guard"
    /\ UNCHANGED <<memory, st, frames, inputs, staged, steps, aborts, cand>>

\* post_prefill binds the row and sets the decoder length.
RunPrefill ==
    LET batch == At("prefill")
        len == [r \in Req |-> IF r \in batch THEN [kv[r] EXCEPT !.dec = PromptLen]
                              ELSE kv[r]]
    IN /\ pc = "run_prefill" /\ Quiet
       /\ \E out \in [batch -> Outcome] : ProcessResult(batch, len, row, {}, out)
       /\ pc' = "recv"
       /\ UNCHANGED <<frames, inputs, staged, steps, aborts, cand>>

\* Mutant of RunPrefillFails: the step's slots are not given back.
RunPrefillFailsLeaks ==
    /\ pc = "run_prefill" /\ Quiet
    /\ kv' = Settle(kv, At("prefill"))
    /\ doomed' = At("prefill")
    /\ pc' = "recv"
    /\ UNCHANGED <<free, row, st, frames, inputs, staged, steps, controls, cand>>

\* The forward raises: nothing is committed, the step's slots are freed.
RunPrefillFails ==
    LET batch == At("prefill")
    IN /\ pc = "run_prefill" /\ Quiet
       /\ free' = free \cup UNION {Held(r) : r \in batch}
       /\ row' = [r \in Req |-> IF r \in batch THEN Clear(row[r], 0, kv[r].alloc)
                                ELSE row[r]]
       /\ kv' = Settle(kv, batch)
       /\ doomed' = batch
       /\ pc' = "recv"
       /\ UNCHANGED <<st, frames, inputs, staged, steps, controls, cand>>

-----------------------------------------------------------------------------
(* Decode: capacity guard, rate limit, memory pressure, step.              *)

\* realtime_decode_capacity_error: slots of steps in flight count as well.
CapacityError(r) ==
    LET allocated == IF kv[r].alloc > KvTotal(r) THEN kv[r].alloc ELSE KvTotal(r)
        logical == kv[r].appended + allocated - kv[r].enc
    IN  allocated + 1 > Width \/ logical + 2 > ContextLimit

\* Mutant of GuardDecodeCapacity: no second look after the flush.
GuardDecodeCapacityOnce ==
    LET errors == {r \in At("running") : CapacityError(r)}
    IN /\ pc = "guard" /\ Quiet
       /\ IF errors # {} /\ pending # NoStep
          THEN Flush /\ UNCHANGED doomed
          ELSE doomed' = errors /\ UNCHANGED <<pending, resolving>>
       /\ pc' = "rate"
       /\ UNCHANGED <<memory, st, frames, inputs, staged, prepared, controls, cand>>

\* _guard_decode_capacity: near the limit the step in flight is resolved first,
\* and only the requests that are then still at the limit are aborted.
GuardDecodeCapacity ==
    LET errors == {r \in At("running") : CapacityError(r)}
    IN /\ pc = "guard" /\ Quiet
       /\ IF errors # {} /\ pending # NoStep
          THEN Flush /\ UNCHANGED <<pc, doomed>>
          ELSE doomed' = errors /\ pc' = "rate" /\ UNCHANGED <<pending,
                                                               resolving>>
       /\ UNCHANGED <<memory, st, frames, inputs, staged, prepared, controls,
                      cand>>

\* _decode_rate_limited: every running request may still be in its interval.
RateLimited ==
    /\ pc = "rate" /\ Quiet
    /\ At("running") # {}
    /\ pc' = "idle"
    /\ UNCHANGED <<memory, st, frames, inputs, staged, steps, aborts, cand>>

NotRateLimited ==
    /\ pc = "rate" /\ Quiet
    /\ pc' = "preempt"
    /\ UNCHANGED <<memory, st, frames, inputs, staged, steps, aborts, cand>>

CheckDecodeMem == Cardinality(At("running")) <= Cardinality(free)

\* _preempt_decode_memory_pressure: the heaviest live session goes, but never
\* the last one.
Preempt(v) ==
    LET live == At("running") \cup At("parked")
    IN /\ pc = "preempt" /\ Quiet
       /\ At("running") # {} /\ ~CheckDecodeMem
       /\ Cardinality(live) > 1
       /\ v \in Heaviest(live)
       /\ doomed' = {v}
       /\ UNCHANGED <<pc, memory, st, frames, inputs, staged, steps, controls,
                      cand>>

PreemptDone ==
    /\ pc = "preempt" /\ Quiet
    /\ \/ At("running") = {} /\ pc' = "idle"
       \/ At("running") # {} /\ CheckDecodeMem /\ pc' = "decode"
    /\ UNCHANGED <<memory, st, frames, inputs, staged, steps, aborts, cand>>

\* prepare_for_decode: one slot per running request behind what it holds.
PrepareDecode ==
    LET batch == At("running")
        slot == BatchSlots(batch)
    IN /\ pc = "decode" /\ Quiet
       /\ free' = free \ {slot[r] : r \in batch}
       /\ row' = [r \in Req |-> IF r \in batch
                                THEN [row[r] EXCEPT ![kv[r].alloc + 1] = slot[r]]
                                ELSE row[r]]
       /\ kv' = [r \in Req |-> IF r \in batch THEN [kv[r] EXCEPT !.alloc = @ + 1]
                               ELSE kv[r]]
       /\ prepared' = slot
       /\ pc' = "run_decode"
       /\ UNCHANGED <<st, frames, inputs, staged, pending, resolving, aborts,
                      cand>>

\* Asynchronous loop: launch this step, then resolve the one before it.
LaunchDecode ==
    /\ pc = "run_decode" /\ Quiet
    /\ async_decode
    /\ pending' = prepared
    /\ resolving' = pending
    /\ prepared' = NoStep
    /\ pc' = "recv"
    /\ UNCHANGED <<memory, st, frames, inputs, staged, aborts, cand>>

\* Synchronous loop: execute and process_batch_result.
RunDecode ==
    LET batch == DOMAIN prepared
    IN /\ pc = "run_decode" /\ Quiet
       /\ ~async_decode
       /\ \E out \in [batch -> Outcome] :
            ProcessResult(batch, Advance(batch), row, {}, out)
       /\ prepared' = NoStep
       /\ pc' = "recv"
       /\ UNCHANGED <<frames, inputs, staged, pending, resolving, aborts, cand>>

\* The launch or the forward raises: _rollback_decode frees this step's slots
\* and restores the lengths (the slot of a step before it stays), then every
\* request of the batch is aborted.
DecodeFails ==
    LET batch == DOMAIN prepared
    IN /\ pc = "run_decode" /\ Quiet
       /\ free' = free \cup {prepared[r] : r \in batch}
       /\ kv' = [r \in Req |-> IF r \in batch THEN [kv[r] EXCEPT !.alloc = @ - 1]
                               ELSE kv[r]]
       /\ row' = [r \in Req |-> IF r \in batch
                                THEN [row[r] EXCEPT ![kv[r].alloc] = 0] ELSE row[r]]
       /\ prepared' = NoStep
       /\ doomed' = batch
       /\ pc' = "recv"
       /\ UNCHANGED <<st, frames, inputs, staged, pending, resolving, controls,
                      cand>>

\* No batch: the loop flushes the step in flight and goes round.
Idle ==
    /\ pc = "idle" /\ Quiet
    /\ Flush
    /\ pc' = "recv"
    /\ UNCHANGED <<memory, st, frames, inputs, staged, prepared, aborts, cand>>

-----------------------------------------------------------------------------
Message ==
    \E r \in Req :
        \/ Submit(r)
        \/ \E kind \in {"frame", "prompt"}, last \in BOOLEAN : Update(r, kind, last)
        \/ RejectUpdate(r)
        \/ AbortMessage(r)

Subroutine ==
    \/ Resolve
    \/ ResolveFails
    \/ \E r \in Req : AbortFlush(r) \/ Abort(r) \/ ControlAbort(r)

Planning ==
    \/ BeginPlan
    \/ ExpireParked
    \/ EventsBarrier
    \/ EvaluateFrameWindow
    \/ \E r \in Req : WindowRound(r) \/ WindowRoundFails(r)
    \/ WindowDone

Extending ==
    \/ \E r \in Req : Materialize(r) \/ MaterializeFails(r)
    \/ MaterializeDone
    \/ \E r \in Req : BudgetVictim(r)
    \/ BudgetDone
    \/ \E r \in Req : StageAppend(r)
    \/ StageDone
    \/ StageFails
    \/ RunExtend
    \/ RunExtendFails

Decoding ==
    \/ \E r \in Req : Prefill(r)
    \/ NoPrefill
    \/ RunPrefill
    \/ RunPrefillFails
    \/ GuardDecodeCapacity
    \/ RateLimited
    \/ NotRateLimited
    \/ \E r \in Req : Preempt(r)
    \/ PreemptDone
    \/ PrepareDecode
    \/ LaunchDecode
    \/ RunDecode
    \/ DecodeFails
    \/ Idle

Scheduler == Subroutine \/ Planning \/ Extending \/ Decoding

Next == (Message \/ Scheduler) /\ UNCHANGED <<async_decode, frame_window>>

\* The scheduler thread never stops, and a rate interval is finite, so that a
\* decode that is asked for again and again is not deferred for ever.  Nothing
\* makes a client send messages.
Fairness == WF_state(Scheduler) /\ SF_state(NotRateLimited)

Spec == Init /\ [][Next]_vars /\ Fairness

-----------------------------------------------------------------------------
(* Properties.                                                             *)

In(r, step) == IF r \in DOMAIN step THEN 1 ELSE 0

\* Prepared and launched steps that hold a slot of r.
InFlight(r) == In(r, prepared) + In(r, pending) + In(r, resolving)

\* Every slot is free or in the row of exactly one request, whatever the order
\* of extends, window rewrites, lookahead steps, parks and aborts: no slot is
\* lost and none is freed twice or shared.
SlotsPartitioned ==
    /\ \A r \in Req : free \cap Held(r) = {}
    /\ \A r, q \in Req : r # q => Held(r) \cap Held(q) \subseteq {0}
    /\ Slot \subseteq free \cup UNION {Held(r) : r \in Req}

\* Releasing a request that is not inside an extend transaction returns each
\* slot once and never slot 0: the dead zone of a compacted row and the slots
\* staged twice are out of kv_allocated_len's reach.
RowReleasable ==
    \A r \in Req : st[r].place # "extend" =>
        /\ 0 \notin Held(r)
        /\ Cardinality(Held(r)) = kv[r].alloc

\* No slot is lost, shared, or given back twice, across extends, window
\* rewrites, lookahead steps, parks and aborts.
SlotAccounting == SlotsPartitioned /\ RowReleasable

\* Between two steps a request has exactly one pending sampled token in token
\* space and, in KV space, one slot per committed position and per step in
\* flight: _build_segment, the window and the overrun free rely on both.
LengthsAgree ==
    \A r \in (At("running") \cup At("parked")) \ doomed :
        /\ kv[r].fill = TokenTotal(r) + 1 + staged[r].len
        /\ kv[r].alloc = KvTotal(r) + InFlight(r)

\* The cells between the KV positions in use and the token positions are empty
\* outside an extend, as the next extend's prefix_indices copies them.
DeadZoneEmpty ==
    \A r \in At("running") \cup At("parked") :
        \A i \in kv[r].alloc + 1 .. TokenTotal(r) : row[r][i] = 0

\* A row, its lengths and the steps in flight agree whenever a step may read
\* them (_build_segment, prefix_indices, the overrun free).
RowConsistent == LengthsAgree /\ DeadZoneEmpty

\* Slots and rows are sound, whatever the scheduler did to them and in which
\* order: nothing is lost, shared or freed twice, and the lengths agree.
RowsSound == SlotAccounting /\ RowConsistent

\* The frame window rewrites only rows of live requests that no launched step
\* reads, although its candidates are taken before that step is resolved.
WindowSeesSettledRow ==
    pc = "apply" /\ Quiet =>
        \A r \in cand : frames[r].due =>
            /\ st[r].place \in {"running", "parked"}
            /\ kv[r].alloc = KvTotal(r)

\* No extend is built, staged or run while a decode step is in flight.
NoStepUnderExtend == Staged # {} => pending = NoStep /\ resolving = NoStep

\* No row is rewritten, by the frame window or by an extend, while a launched
\* step may still read it.
RowsSettled == WindowSeesSettledRow /\ NoStepUnderExtend

\* _enforce_extend_memory_budget leaves room for the whole batch, so that the
\* allocation in prepare_for_extend cannot fail midway.
ExtendFits ==
    pc = "stage" /\ Quiet =>
        SumFunctionOnSet([r \in Req |-> staged[r].len + 1], Staged \ At("extend"))
            <= Cardinality(free)

\* prepare_for_decode, which runs outside any error handler, never meets a
\* request at its limit nor an empty pool, and the upstream OOM abort of the
\* last session is never needed.
DecodeFits ==
    Quiet =>
        /\ pc = "decode" => \A r \in At("running") : ~CapacityError(r)
        /\ pc = "preempt" /\ At("running") # {} /\ ~CheckDecodeMem =>
               Cardinality(At("running") \cup At("parked")) > 1

\* No token position passes the context limit and no slot the row's end.
WithinContext ==
    \A r \in Live : kv[r].fill <= ContextLimit /\ kv[r].alloc <= Width

\* Whatever the scheduler has let through to an allocation fits: the pool, the
\* row and the context limit.
AllocationsFit == ExtendFits /\ DecodeFits /\ WithinContext

\* No lost wake-up: events queued for a request that runs or is parked are
\* spliced into it, or the request ends.
EventsConsumed ==
    \A r \in Req :
        (st[r].place \in {"running", "parked"} /\ events[r] # NoEvents)
            ~> (events[r] = NoEvents \/ st[r].place = "gone")

\* An abort from the control plane releases the request, also when it only
\* marks it and even when decoding is rate limited.
AbortReleases ==
    \A r \in Req : (r \in controls) ~> (st[r].place = "gone" /\ Held(r) = {})

=============================================================================
