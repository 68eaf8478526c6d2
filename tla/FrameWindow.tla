----------------------------- MODULE FrameWindow ----------------------------
(***************************************************************************)
(* The two-level window over the vision region of one realtime request:    *)
(* what plan_frame_window removes or pools, and how the row, the frame     *)
(* records and the visible-frame counts of the text follow.                *)
(*                                                                         *)
(* RealtimeKV models the same rounds as changes of slots, for any of the   *)
(* Plans of WindowPlan; here the planner is computed and slots are left    *)
(* out: a run of the row is the set of frames whose vision is in it.       *)
(*                                                                         *)
(* All text after the k-th frame and before the next one has the count of  *)
(* that frame's placeholder, also text that gets its count only with the   *)
(* next segment: one entry of visible stands for it.  A segment of several *)
(* frames is one step per frame.                                           *)
(***************************************************************************)
EXTENDS Naturals, Sequences, FiniteSets, SequencesExt, FiniteSetsExt, Functions

CONSTANTS
    Grid,           \* spatial grids, which also give a frame its slots
    RawWindow,      \* raw_window_s
    PoolWindow,     \* pool_window_s
    PoolRatio,      \* pool_ratio
    Interval,       \* times between two frames
    MaxFrames       \* frames (bound)

ASSUME WindowAssumption ==
    /\ {RawWindow, PoolWindow, MaxFrames} \subseteq Nat
    /\ PoolRatio \in Nat \ {0, 1}
    /\ Interval \subseteq Nat

VARIABLES
    pooling,    \* pooling_enabled (fixed)
    frames,     \* the frames that were committed (history)
    records,    \* state.frame_records
    row,        \* the runs of the encoder region, each a set of frames
    visible,    \* visible_frame_counts; entry k + 1: text after frame k
    evicted     \* state.evicted_frame_count

vars == <<pooling, frames, records, row, visible, evicted>>

Init ==
    /\ pooling \in BOOLEAN
    /\ frames = <<>> /\ records = <<>> /\ row = <<>>
    /\ visible = <<0>>
    /\ evicted = 0

\* A frame is committed with its record, its run and its placeholder token.
\* accept() lets no timestamp go back.
CommitFrame(dt, g) ==
    LET ts == IF frames = <<>> THEN 0 ELSE Last(frames).ts + dt IN
    /\ Len(frames) < MaxFrames
    /\ frames' = Append(frames, [ts |-> ts, grid |-> g])
    /\ records' = Append(records, [ts |-> ts, grid |-> g, pooled |-> FALSE,
                                   sources |-> 1])
    /\ row' = Append(row, {Len(frames')})
    /\ visible' = Append(visible, Last(visible) + 1)
    /\ UNCHANGED <<pooling, evicted>>

-----------------------------------------------------------------------------
(* plan_frame_window.                                                      *)

\* The length of the longest prefix of s whose elements all satisfy Test.
Leading(s, Test(_)) == Cardinality({n \in DOMAIN s : \A i \in 1 .. n : Test(s[i])})

Virtuals(recs) == SubSeq(recs, 1, Leading(recs, LAMBDA r : r.pooled))
Raws(recs) == SubSeq(recs, Len(Virtuals(recs)) + 1, Len(recs))

\* Mutant of Aged: a frame exactly at the window leaves it.
AgedAtWindow(raws) ==
    Leading(raws, LAMBDA r : Last(raws).ts - r.ts >= RawWindow)

\* Raw frames that trail the newest by more than the window.
Aged(raws) ==
    Leading(raws, LAMBDA r : Last(raws).ts - r.ts > RawWindow)

\* The aged frames in full chunks of PoolRatio; frames of different grids
\* cannot be pooled.  Without pooling all of them are one chunk to drop.
Chunks(raws) ==
    IF pooling
    THEN [k \in 1 .. Aged(raws) \div PoolRatio |->
             LET start == (k - 1) * PoolRatio IN
             [start |-> start, count |-> PoolRatio,
              pool |-> \A i \in 1 .. PoolRatio :
                           raws[start + i].grid = raws[start + 1].grid]]
    ELSE IF Aged(raws) = 0 THEN <<>>
    ELSE <<[start |-> 0, count |-> Aged(raws), pool |-> FALSE]>>

Made(chunks) == {k \in DOMAIN chunks : chunks[k].pool}
Dropped(chunks) == DOMAIN chunks \ Made(chunks)

\* The n-th number of S.
Nth(S, n) == CHOOSE k \in S : Cardinality({j \in S : j <= k}) = n

\* The chunks that become a pooled frame, in their order.
Poolable(chunks) ==
    [n \in 1 .. Cardinality(Made(chunks)) |-> chunks[Nth(Made(chunks), n)]]

\* The pooled frame of a chunk has the time of its last member.
Produced(raws, chunks) ==
    LET pool == Poolable(chunks) IN
    [k \in DOMAIN pool |->
        [ts |-> raws[pool[k].start + pool[k].count].ts,
         grid |-> raws[pool[k].start + 1].grid,
         pooled |-> TRUE, sources |-> pool[k].count]]

\* Pooled frames, the new ones included, that trail the newest of them.
Expired(virtuals) ==
    Leading(Front(virtuals), LAMBDA r : Last(virtuals).ts - r.ts > PoolWindow)

\* The raw frames of the chunks in K.
Members(chunks, K) == SumFunctionOnSet([k \in DOMAIN chunks |-> chunks[k].count], K)
Total(chunks) == Members(chunks, DOMAIN chunks)

\* A new pooled frame that would expire at once is not made: the first of the
\* poolable chunks are dropped instead.
Unmade(chunks, n) ==
    [k \in DOMAIN chunks |->
        [chunks[k] EXCEPT !.pool = @ /\ Cardinality({j \in Made(chunks) : j <= k}) > n]]

Plan(recs) ==
    LET old == Virtuals(recs)
        raws == Raws(recs)
        chunks == Chunks(raws)
        all == old \o Produced(raws, chunks)
        gone == IF all = <<>> THEN 0 ELSE Expired(all)
    IN
    [evict |-> Min({gone, Len(old)}),
     chunks |-> Unmade(chunks, Max({gone, Len(old)}) - Len(old)),
     new |-> SubSeq(all, gone + 1, Len(all))
             \o SubSeq(raws, Total(chunks) + 1, Len(raws))]

Removes(plan) == plan.evict > 0 \/ plan.chunks # <<>>

\* The plan when there are no slots for pooled frames: _degraded_new_records.
Degraded(recs, plan) ==
    [evict |-> plan.evict,
     chunks |-> [k \in DOMAIN plan.chunks |-> [plan.chunks[k] EXCEPT !.pool = FALSE]],
     new |-> SubSeq(recs, plan.evict + 1, Len(Virtuals(recs)))
             \o SubSeq(recs, Len(Virtuals(recs)) + Total(plan.chunks) + 1, Len(recs))]

-----------------------------------------------------------------------------
(* apply_frame_window_plan.                                                *)

\* The old rows from + 1 .. to, which row i of the result covers.
Span(from, to) == [from |-> from, to |-> to]

\* covered_spans.
Spans(recs, plan) ==
    LET v == Len(Virtuals(recs))
        pool == Poolable(plan.chunks)
        cursor == v + Total(plan.chunks)
        kept == Cardinality({i \in DOMAIN plan.new : ~plan.new[i].pooled})
    IN
    [i \in 1 .. v - plan.evict |-> Span(plan.evict + i - 1, plan.evict + i)]
    \o [k \in DOMAIN pool |-> Span(v + pool[k].start, v + pool[k].start + pool[k].count)]
    \o [i \in 1 .. kept |-> Span(cursor + i - 1, cursor + i)]

\* Mutant of Remap: a pooled frame is seen by text that saw all its members.
RemapWhole(spans, c) == Cardinality({i \in DOMAIN spans : spans[i].to <= c})

\* visible_count_remap: the rows that intersect the first c old ones.
Remap(spans, c) == Cardinality({i \in DOMAIN spans : spans[i].from < c})

\* Mutant of Consumed: chunks that are dropped stay in the row.
ConsumedPooled(plan) == Members(plan.chunks, Made(plan.chunks))

\* aged_raw_total, the raw runs that leave the row.
Consumed(plan) == Total(plan.chunks)

\* kept_virtual_runs, produced_runs and kept_raw_runs.
Rewritten(plan) ==
    LET v == Len(Virtuals(records))
        pool == Poolable(plan.chunks)
    IN
    SubSeq(row, plan.evict + 1, v)
    \o [k \in DOMAIN pool |->
           UNION {row[v + pool[k].start + i] : i \in 1 .. pool[k].count}]
    \o SubSeq(row, v + Consumed(plan) + 1, Len(row))

\* The row, then _commit_metadata_update.
Apply(plan) ==
    /\ row' = Rewritten(plan)
    /\ records' = plan.new
    /\ visible' = [k \in DOMAIN visible |->
                      Remap(Spans(records, plan), Min({visible[k], Len(records)}))]
    /\ evicted' = evicted + Members(plan.chunks, Dropped(plan.chunks))
                  + SumFunctionOnSet([i \in DOMAIN records |-> records[i].sources],
                                     1 .. plan.evict)

\* A round of _evaluate_frame_window; rounds may also be skipped.
Round ==
    LET plan == Plan(records) IN
    /\ records # <<>> /\ Removes(plan)
    /\ \/ Apply(plan)
       \/ Poolable(plan.chunks) # <<>> /\ Apply(Degraded(records, plan))
    /\ UNCHANGED <<pooling, frames>>

Next == Round \/ \E dt \in Interval, g \in Grid : CommitFrame(dt, g)

Spec == Init /\ [][Next]_vars

-----------------------------------------------------------------------------
(* Properties.                                                             *)

\* The frame whose time a run has.
Newest(run) == Max(run)

\* The records describe the row run by run, in the order of the frames, pooled
\* frames first; frames that are in no run are counted as evicted, each once.
\* The checks of _record_slot_runs, covered_spans and plan_frame_window, which
\* would abort the request, are therefore never hit.
RecordsDescribeRow ==
    /\ Len(row) = Len(records)
    /\ \A i \in DOMAIN row :
           /\ records[i].sources = Cardinality(row[i])
           /\ records[i].pooled = (records[i].sources > 1)
           /\ records[i].ts = frames[Newest(row[i])].ts
           /\ \A f \in row[i] : frames[f].grid = records[i].grid
    /\ \A i, j \in DOMAIN row : i < j =>
           /\ \A f \in row[i], g \in row[j] : f < g
           /\ records[j].pooled => records[i].pooled
    /\ evicted + Cardinality(UNION Range(row)) = Len(frames)

\* After any number of rounds a token sees exactly the runs with a frame that
\* was there when the token was made, although its count was mapped by each
\* round from the count of the round before.
VisibleExact ==
    \A k \in DOMAIN visible :
        visible[k] = Cardinality({i \in DOMAIN row : \E f \in row[i] : f < k})

\* A frame's distance to the newest one.
Age(f) == Last(frames).ts - frames[f].ts

\* A round removes no raw frame within the window and leaves less than a chunk
\* of raw frames, and no pooled frame, behind it: "a soft overshoot of at most
\* ratio-1 frames"; planning again without a new frame changes nothing.
RoundSettles ==
    [][Round =>
        /\ \A f \in 1 .. Len(frames) :
               {f} \in Range(row) /\ Age(f) <= RawWindow => {f} \in Range(row')
        /\ Cardinality({f \in 1 .. Len(frames) :
                           {f} \in Range(row') /\ Age(f) > RawWindow})
               < IF pooling THEN PoolRatio ELSE 1
        /\ \A x, y \in Range(row') :
               Cardinality(x) > 1 /\ Cardinality(y) > 1 =>
                   Age(Newest(x)) - Age(Newest(y)) <= PoolWindow
        /\ ~Removes(Plan(records))']_vars
=============================================================================
