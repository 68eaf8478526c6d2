-------------------------- MODULE RealtimeKVProofs --------------------------
(***************************************************************************)
(* Rows, lengths and budgets of the realtime scheduler, for every number   *)
(* of requests, slots and frames, for both event loops, with and without a *)
(* frame window.                                                           *)
(***************************************************************************)
EXTENDS RealtimeKV, FiniteSetTheorems, FunctionTheorems, SequenceTheorems,
        SumTheorems, TLAPS

-----------------------------------------------------------------------------
(* The allocator.                                                          *)

\* The number of free slots below s.
Rank(s) == Cardinality({t \in free : t < s})

\* The pool is finite.
LEMMA FreeFinite ==
    ASSUME free \subseteq Slot
    PROVE  IsFiniteSet(free) /\ Cardinality(free) \in Nat
  <1>1. IsFiniteSet(Slot)
    BY SizesAssumption, FS_Interval DEF Slot
  <1> QED
    BY <1>1, FS_Subset, FS_CardinalityType

\* Free slots are handed out in the order of their numbers.
LEMMA RankGrows ==
    ASSUME free \subseteq Slot, NEW s \in free, NEW t \in free, s < t
    PROVE  Rank(s) \in Nat /\ Rank(t) \in Nat /\ Rank(s) < Rank(t)
  <1> DEFINE A == {u \in free : u < s}
             B == {u \in free : u < t}
  <1>1. IsFiniteSet(A) /\ IsFiniteSet(B) /\ IsFiniteSet(A \cup {s})
    BY FreeFinite, FS_Subset, FS_AddElement
  <1>2. s \notin A
    BY DEF Slot
  <1>3. Cardinality(A \cup {s}) = Cardinality(A) + 1
    BY <1>1, <1>2, FS_AddElement
  <1>4. A \cup {s} \subseteq B
    <2>1. \A u \in free : u \in Int
      BY SizesAssumption DEF Slot
    <2>2. \A u \in free : u < s => u < t
      BY <2>1
    <2> QED
      BY <2>2
  <1>5. Cardinality(A \cup {s}) <= Cardinality(B)
    BY <1>1, <1>4, FS_Subset
  <1>6. Cardinality(A) \in Nat /\ Cardinality(B) \in Nat
    BY <1>1, FS_CardinalityType
  <1> QED
    BY <1>3, <1>5, <1>6 DEF Rank

\* Every rank below the number of free slots is the rank of one free slot.
LEMMA RankTaken ==
    ASSUME free \subseteq Slot, NEW k \in 0 .. Cardinality(free) - 1
    PROVE  \E s \in free : Rank(s) = k
  <1> DEFINE n == Cardinality(free)
             f == [s \in free |-> Rank(s)]
  <1>1. n \in Nat /\ IsFiniteSet(free)
    BY FreeFinite
  <1>2. \A s \in free : Rank(s) \in 0 .. n - 1
    <2> TAKE s \in free
    <2> DEFINE A == {u \in free : u < s}
    <2>1. IsFiniteSet(A) /\ A \subseteq free \ {s}
      BY <1>1, FS_Subset DEF Slot
    <2>2. IsFiniteSet(free \ {s}) /\ Cardinality(free \ {s}) = n - 1
      BY <1>1, FS_RemoveElement
    <2>3. Cardinality(A) \in Nat /\ Cardinality(A) <= n - 1
      BY <2>1, <2>2, FS_Subset, FS_CardinalityType
    <2> QED
      BY <1>1, <2>3 DEF Rank
  <1>3. f \in Injection(free, 0 .. n - 1)
    <2>1. \A s, t \in free : f[s] = f[t] => s = t
      <3> TAKE s, t \in free
      <3>1. s \in Int /\ t \in Int
        BY SizesAssumption DEF Slot
      <3>2. s < t \/ t < s \/ s = t
        BY <3>1
      <3> QED
        BY <3>2, RankGrows
    <2>2. f \in [free -> 0 .. n - 1]
      BY <1>2
    <2> QED
      BY <2>1, <2>2 DEF Injection, IsInjective
  <1>4. IsFiniteSet(0 .. n - 1) /\ Cardinality(0 .. n - 1) = n
    BY <1>1, FS_Interval
  <1>5. f \in Surjection(free, 0 .. n - 1)
    BY <1>3, <1>4, FS_Injection
  <1> QED
    BY <1>5 DEF Surjection

\* The allocator hands out distinct free slots.
LEMMA AllocFree ==
    ASSUME free \subseteq Slot, NEW n \in Nat, n <= Cardinality(free)
    PROVE  /\ Alloc(n) \in [1 .. n -> free]
           /\ \A i, j \in 1 .. n : Alloc(n)[i] = Alloc(n)[j] => i = j
  <1>1. Cardinality(free) \in Nat
    BY FreeFinite
  <1>2. \A k \in 1 .. n : Alloc(n)[k] \in free /\ Rank(Alloc(n)[k]) = k - 1
    <2> TAKE k \in 1 .. n
    <2>1. k - 1 \in 0 .. Cardinality(free) - 1
      BY <1>1
    <2>2. \E s \in free : Cardinality({t \in free : t < s}) = k - 1
      BY <2>1, RankTaken DEF Rank
    <2> QED
      BY <2>2 DEF Alloc, Rank
  <1>3. Alloc(n) \in [1 .. n -> free]
    BY <1>2 DEF Alloc
  <1>4. ASSUME NEW i \in 1 .. n, NEW j \in 1 .. n, Alloc(n)[i] = Alloc(n)[j]
        PROVE  i = j
    <2>1. i - 1 = j - 1
      BY <1>2, <1>4
    <2> QED
      BY <2>1
  <1> QED
    BY <1>3, <1>4

-----------------------------------------------------------------------------
(* The inductive invariant.                                                *)

\* The places of a request that decodes, also between two extends.
Resident == {"running", "parked"}

\* Where the thread is in an iteration says what is in progress: aborts are
\* applied before the iteration goes on, a step is prepared only for the forward
\* that follows, candidates are kept only while the window is applied.
Control ==
    /\ controls # {} => pc = "recv"
    /\ prepared # NoStep => pc = "run_decode"
    /\ pc \in {"decode", "run_decode"} => Quiet
    /\ cand # {} => pc = "apply"
    /\ pc = "run_decode" => DOMAIN prepared = At("running")
    /\ ~async_decode => pending = NoStep /\ resolving = NoStep

\* A request is inside an extend only between materialization and commit, with
\* the segment that it took, and nobody aborts it there; a request that an abort
\* marked only waits for its next result.
PlaceOf(r) ==
    /\ st[r].place = "extend" => pc \in {"stage", "run_extend"} /\ r \in Staged
    /\ r \in Staged =>
         /\ pc \in {"extend", "budget", "stage", "run_extend"}
         /\ st[r].place \in Resident \cup {"extend"}
         /\ st[r].phase # "aborted"
         /\ events[r] = NoEvents
         /\ pc = "run_extend" => st[r].place = "extend"
         /\ pc # "budget" => r \notin doomed
    /\ st[r].place # "gone" /\ st[r].phase = "aborted" =>
         st[r].place = "running" /\ st[r].to_finish /\ ~st[r].open
    /\ st[r].place \in Resident => st[r].phase # "extending"
    /\ st[r].place \notin Resident \cup {"gone"} => InFlight(r) = 0

\* Events that a request can take, and segments it took, mean that the launched
\* step was flushed.
Flushed ==
    /\ pc \in {"window", "apply", "extend"} /\ HasPendingEvents => pending = NoStep
    /\ Staged # {} => pending = NoStep /\ resolving = NoStep

\* The frames of a request change only in an extend, and the window is applied
\* before another step is launched.
DueOf(r) ==
    /\ frames[r].due => frames[r].raw > 0
    /\ frames[r].due /\ st[r].place \in Resident \cup {"extend"}
         /\ st[r].phase # "aborted" =>
         /\ InFlight(r) = 0
         /\ pc \in {"recv", "expire", "events", "window", "apply"}
         /\ pc = "apply" => r \in cand \cup doomed
    /\ frames[r].due /\ r \in cand =>
         /\ st[r].place \in Resident
         /\ st[r].phase # "aborted"
         /\ r \notin doomed

\* Nothing is due for a window that is not there.
WindowDue == \A r \in Req : frames[r].due => frame_window

\* The lengths of a request by its place.  A failed resolve loses the slot of its
\* step to the row: only requests that are then aborted have such a slot.
LengthsOf(r) ==
    /\ kv[r].appended >= kv[r].enc
    /\ st[r].place \in {"new", "waiting", "gone"} => kv[r] = NoLengths
    /\ st[r].place = "prefill" =>
         /\ kv[r].enc = 0 /\ kv[r].dec = 0 /\ kv[r].appended = 0
         /\ kv[r].fill = PromptLen
         /\ \/ pc = "run_prefill" /\ kv[r].alloc = PromptLen
            \/ r \in doomed /\ kv[r].alloc = 0
    /\ st[r].place = "extend" =>
         /\ kv[r].fill = TokenTotal(r) + 1 + staged[r].len
         /\ kv[r].alloc = TokenTotal(r) + staged[r].len + 1
    /\ st[r].place \in Resident =>
         /\ kv[r].alloc >= KvTotal(r) + InFlight(r)
         /\ kv[r].fill >= TokenTotal(r) + 1 + staged[r].len
         /\ st[r].place = "parked" => InFlight(r) <= 1
         /\ kv[r].alloc > KvTotal(r) + InFlight(r) =>
              /\ r \in doomed /\ InFlight(r) <= 1
              /\ st[r].place = "parked" => InFlight(r) = 0
    /\ st[r].place \in Resident /\ r \notin doomed =>
         kv[r].fill = TokenTotal(r) + 1 + staged[r].len

\* The vision part of a row is its frames; a segment's vision is its frames.
FramesOf(r) ==
    /\ staged[r].enc = staged[r].frames * FrameSlots
    /\ staged[r].enc <= staged[r].len
    /\ staged[r].len <= kv[r].fill
    /\ st[r].place \in Resident \cup {"extend"} =>
         kv[r].enc = (frames[r].raw + frames[r].pooled) * FrameSlots
    /\ st[r].place \in {"new", "waiting", "prefill"} =>
         frames[r].raw = 0 /\ frames[r].pooled = 0

\* Steps in flight and segments are counted when something is let through.
ContextOf(r) ==
    /\ kv[r].alloc <= Width
    /\ st[r].place \in Resident => kv[r].fill + InFlight(r) <= ContextLimit
    /\ r \in Staged =>
         /\ kv[r].fill + 1 <= ContextLimit
         /\ KvTotal(r) + staged[r].len + 1 <= Width

Capacity ==
    /\ pc \in {"rate", "preempt", "decode"} =>
         \A r \in At("running") \ doomed : ~CapacityError(r)
    /\ pc = "decode" => CheckDecodeMem

\* The cells of a row that hold slots of their own.  In an extend, upstream's
\* bookkeeping (kv_allocated_len) reaches beyond them.
Used(r) == IF st[r].place = "extend" THEN KvTotal(r) + staged[r].len + 1
           ELSE kv[r].alloc
Owned(r) == Prefix(row[r], Used(r))

RowOf(r) ==
    /\ \A i \in 1 .. Used(r) : row[r][i] \in Slot
    /\ \A i, j \in 1 .. Used(r) : row[r][i] = row[r][j] => i = j

\* Every slot is free or belongs to one cell of one row.
Rows ==
    /\ \A r \in Req : RowOf(r)
    /\ \A r, q \in Req : r # q => Owned(r) \cap Owned(q) = {}
    /\ \A s \in Slot : s \in free <=> \A r \in Req : s \notin Owned(r)

\* Behind its own cells a row that was compacted is empty, and in an extend it
\* holds nothing but the request's own slots.
TailOf(r) ==
    /\ st[r].place = "extend" =>
         \A i \in Used(r) + 1 .. kv[r].alloc : row[r][i] \in Owned(r) \cup {0}
    /\ st[r].place \in Resident \cup {"extend"} /\ kv[r].appended > kv[r].enc =>
         \A i \in kv[r].alloc + 1 .. Width : row[r][i] = 0

\* The slots of steps in flight are the last ones of the row, in launch order.
StepsOf(r) ==
    st[r].place \in Resident =>
        /\ r \in DOMAIN prepared => prepared[r] = row[r][kv[r].alloc]
        /\ r \in DOMAIN pending => pending[r] = row[r][kv[r].alloc - In(r, prepared)]
        /\ r \in DOMAIN resolving =>
             resolving[r] = row[r][kv[r].alloc - In(r, prepared) - In(r, pending)]

IInv ==
    /\ TypeOK
    /\ Control
    /\ Flushed
    /\ Capacity
    /\ \A r \in Req : PlaceOf(r) /\ DueOf(r) /\ LengthsOf(r) /\ FramesOf(r)
    /\ \A r \in Req : ContextOf(r) /\ TailOf(r) /\ StepsOf(r)
    /\ Rows
-----------------------------------------------------------------------------
(* Types and steps.                                                        *)

Lengths == [enc : Nat, dec : Nat, appended : Nat, alloc : Nat, fill : Nat]
Cells == [Cell -> Slot \cup {0}]
Status == [place : Place, phase : Phase, to_finish : BOOLEAN, open : BOOLEAN,
           final : BOOLEAN]

\* No request is in the empty step.
LEMMA EmptyStep == DOMAIN NoStep = {}
  BY DEF NoStep

\* A step gives some of the requests a slot each.
LEMMA StepType ==
    ASSUME NEW f
    PROVE  f \in Step <=> DOMAIN f \subseteq Req /\ f \in [DOMAIN f -> Slot]
  <1>1. ASSUME f \in Step PROVE DOMAIN f \subseteq Req /\ f \in [DOMAIN f -> Slot]
    BY <1>1 DEF Step
  <1>2. ASSUME DOMAIN f \subseteq Req, f \in [DOMAIN f -> Slot] PROVE f \in Step
    BY <1>2 DEF Step
  <1> QED
    BY <1>1, <1>2

\* The empty step is a step.
LEMMA NoStepType == NoStep \in Step
  <1>1. NoStep \in Seq(Slot) /\ Len(NoStep) = 0
    BY EmptySeq, Zenon DEF NoStep
  <1>2. NoStep \in [1 .. Len(NoStep) -> Slot]
    BY <1>1, LenProperties
  <1>3. NoStep \in [DOMAIN NoStep -> Slot]
    BY <1>2
  <1>4. DOMAIN NoStep \subseteq Req
    BY EmptyStep
  <1> QED
    BY <1>3, <1>4, StepType

\* Nothing flies in the empty step.
LEMMA NoStepFlying ==
    ASSUME NEW r
    PROVE  In(r, NoStep) = 0
  BY EmptyStep DEF In

\* In is the indicator of a step's requests.
LEMMA InType ==
    ASSUME NEW r, NEW f
    PROVE  In(r, f) \in {0, 1} /\ (In(r, f) = 1 <=> r \in DOMAIN f)
  BY DEF In

\* InFlight counts.
LEMMA InFlightType ==
    ASSUME NEW r
    PROVE  InFlight(r) \in Nat
  BY InType DEF InFlight

\* The sizes of the pool, the rows, prompts and frames, in one place.
LEMMA Sizes ==
    /\ NumSlots \in Nat /\ NumSlots > 0 /\ Width \in Nat /\ Width > 0
    /\ ContextLimit \in Nat /\ PromptLen \in Nat /\ PromptLen > 0
    /\ FrameSlots \in Nat /\ FrameSlots > 0
    /\ PoolRatio \in Nat /\ PoolRatio >= 2 /\ MaxEvents \in Nat
    /\ ContextLimit <= NumSlots /\ ContextLimit <= Width
    /\ PromptLen + 1 <= ContextLimit
  BY SizesAssumption, PoolAssumption, PromptAssumption

\* What the type invariant says of one request.
LEMMA Typed ==
    ASSUME TypeOK, NEW r \in Req
    PROVE  /\ kv[r] \in Lengths
           /\ kv[r].enc \in Nat /\ kv[r].dec \in Nat /\ kv[r].appended \in Nat
           /\ kv[r].alloc \in Nat /\ kv[r].fill \in Nat
           /\ row[r] \in Cells
           /\ st[r] \in Status /\ st[r].place \in Place /\ st[r].phase \in Phase
           /\ frames[r].raw \in Nat /\ frames[r].pooled \in Nat
           /\ staged[r].frames \in Nat /\ staged[r].enc \in Nat
           /\ staged[r].len \in Nat
           /\ KvTotal(r) \in Nat /\ TokenTotal(r) \in Nat
  BY DEF TypeOK, Lengths, Cells, Status, KvTotal, TokenTotal

\* The steps in flight give slots to requests.
LEMMA StepsTyped ==
    ASSUME TypeOK
    PROVE  /\ DOMAIN prepared \subseteq Req /\ DOMAIN pending \subseteq Req
           /\ DOMAIN resolving \subseteq Req
           /\ \A r \in DOMAIN prepared : prepared[r] \in Slot
           /\ \A r \in DOMAIN pending : pending[r] \in Slot
           /\ \A r \in DOMAIN resolving : resolving[r] \in Slot
  BY StepType DEF TypeOK

-----------------------------------------------------------------------------
(* Steps that leave rows and lengths alone.                                *)

DataKept == UNCHANGED <<free, row, kv, st, frames, staged>>

\* What is known of a request survives a step that leaves its data alone.
LEMMA KeptOf ==
    ASSUME NEW r \in Req, DataKept,
           LengthsOf(r), FramesOf(r), ContextOf(r), TailOf(r),
           InFlight(r)' = InFlight(r),
           r \in doomed => r \in doomed',
           st[r].place = "prefill" /\ pc = "run_prefill" => pc' = pc
    PROVE  LengthsOf(r)' /\ FramesOf(r)' /\ ContextOf(r)' /\ TailOf(r)'
  <1> USE DEF DataKept
  <1>1. LengthsOf(r)'
    BY DEF LengthsOf, TokenTotal, KvTotal
  <1>2. FramesOf(r)' /\ ContextOf(r)' /\ TailOf(r)'
    BY DEF FramesOf, ContextOf, TailOf, Used, Owned, KvTotal, TokenTotal, Staged
  <1> QED
    BY <1>1, <1>2

\* What is known of the rows survives a step that leaves memory alone.
LEMMA RowsKept ==
    ASSUME Rows, UNCHANGED <<free, row, kv, st, staged>>
    PROVE  Rows'
  BY SMTT(30) DEF Rows, RowOf, Owned, Used, KvTotal

\* Rows as far as they are read.
LEMMA RowsSame ==
    ASSUME Rows, free' = free,
           \A r \in Req : Used(r)' = Used(r) /\ row'[r] = row[r]
    PROVE  Rows'
  <1>1. \A r \in Req : Owned(r)' = Owned(r) /\ RowOf(r)'
    BY DEF Rows, RowOf, Owned
  <1> QED
    BY <1>1 DEF Rows

\* Rows, lengths and steps stay; what is left is where the thread is.
LEMMA Still ==
    ASSUME IInv, DataKept, UNCHANGED steps, doomed \subseteq doomed',
           pc' # pc => pc # "run_prefill",
           TypeOK', Control', Flushed', Capacity',
           \A r \in Req : PlaceOf(r)' /\ DueOf(r)'
    PROVE  IInv'
  <1> USE DEF steps
  <1>1. \A r \in Req : InFlight(r)' = InFlight(r) /\ StepsOf(r)'
    BY DEF IInv, InFlight, In, StepsOf, DataKept
  <1>2. \A r \in Req : LengthsOf(r)' /\ FramesOf(r)' /\ ContextOf(r)' /\ TailOf(r)'
    BY <1>1, KeptOf DEF IInv
  <1>3. Rows'
    BY RowsKept DEF IInv, DataKept
  <1> QED
    BY <1>1, <1>2, <1>3 DEF IInv

\* A planning pass begins.
LEMMA BeginPlanKeeps ==
    ASSUME IInv, BeginPlan, UNCHANGED <<async_decode, frame_window>> PROVE IInv'
  <1> USE DEF BeginPlan, AtRecv, memory, inputs, steps, aborts
  <1>1. TypeOK'
    BY DEF IInv, TypeOK, PC
  <1>2. Control' /\ Flushed' /\ Capacity'
    BY DEF IInv, Control, Flushed, Capacity, Quiet, At, Staged
  <1>3. ASSUME NEW r \in Req PROVE PlaceOf(r)' /\ DueOf(r)'
    <2>1. InFlight(r)' = InFlight(r)
      BY DEF InFlight, In
    <2> QED
      BY <2>1 DEF IInv, PlaceOf, DueOf, Staged, Quiet
  <1> QED
    BY <1>1, <1>2, <1>3, Still DEF DataKept


\* An update that is not accepted.
LEMMA RejectUpdateKeeps ==
    ASSUME IInv, NEW r \in Req, RejectUpdate(r), UNCHANGED <<async_decode, frame_window>>
    PROVE  IInv'
  <1> USE DEF RejectUpdate, AtRecv, memory, inputs, steps, aborts
  <1>1. TypeOK'
    BY DEF IInv, TypeOK, PC
  <1>2. Control' /\ Flushed' /\ Capacity'
    BY DEF IInv, Control, Flushed, Capacity, Quiet, At, Staged
  <1>3. ASSUME NEW q \in Req PROVE PlaceOf(q)' /\ DueOf(q)'
    <2>1. InFlight(q)' = InFlight(q)
      BY DEF InFlight, In
    <2> QED
      BY <2>1 DEF IInv, Control, PlaceOf, DueOf, Staged, Quiet
  <1> QED
    BY <1>1, <1>2, <1>3, Still DEF DataKept, Quiet

\* An abort message arrives.
LEMMA AbortMessageKeeps ==
    ASSUME IInv, NEW r \in Req, AbortMessage(r), UNCHANGED <<async_decode, frame_window>>
    PROVE  IInv'
  <1> USE DEF AbortMessage, AtRecv, memory, inputs, steps, aborts
  <1>1. TypeOK'
    BY DEF IInv, TypeOK, PC
  <1>2. Control' /\ Flushed' /\ Capacity'
    BY DEF IInv, Control, Flushed, Capacity, Quiet, At, Staged
  <1>3. ASSUME NEW q \in Req PROVE PlaceOf(q)' /\ DueOf(q)'
    <2>1. InFlight(q)' = InFlight(q)
      BY DEF InFlight, In
    <2> QED
      BY <2>1 DEF IInv, Control, PlaceOf, DueOf, Staged, Quiet
  <1> QED
    BY <1>1, <1>2, <1>3, Still DEF DataKept, Quiet

\* A parked session expires.
LEMMA ExpireParkedKeeps ==
    ASSUME IInv, ExpireParked, UNCHANGED <<async_decode, frame_window>>
    PROVE  IInv'
  <1> USE DEF ExpireParked, memory, inputs, steps, aborts
  <1>1. TypeOK'
    BY DEF IInv, TypeOK, PC, At
  <1>2. Control' /\ Flushed' /\ Capacity'
    BY DEF IInv, Control, Flushed, Capacity, Quiet, At, Staged
  <1>3. ASSUME NEW q \in Req PROVE PlaceOf(q)' /\ DueOf(q)'
    <2>1. InFlight(q)' = InFlight(q)
      BY DEF InFlight, In
    <2> QED
      BY <2>1 DEF IInv, Control, PlaceOf, DueOf, Staged, Quiet
  <1> QED
    BY <1>1, <1>2, <1>3, Still DEF DataKept, Quiet

\* A round of the frame window fails.
LEMMA WindowRoundFailsKeeps ==
    ASSUME IInv, NEW r \in Req, WindowRoundFails(r), UNCHANGED <<async_decode, frame_window>>
    PROVE  IInv'
  <1> USE DEF WindowRoundFails, memory, inputs, steps, aborts
  <1>1. TypeOK'
    BY DEF IInv, TypeOK, PC
  <1>2. Control' /\ Flushed' /\ Capacity'
    BY DEF IInv, Control, Flushed, Capacity, Quiet, At, Staged, HasPendingEvents
  <1>3. ASSUME NEW q \in Req PROVE PlaceOf(q)' /\ DueOf(q)'
    <2>1. InFlight(q)' = InFlight(q)
      BY DEF InFlight, In
    <2> QED
      BY <2>1 DEF IInv, Control, PlaceOf, DueOf, Staged, Quiet
  <1> QED
    BY <1>1, <1>2, <1>3, Still DEF DataKept, Quiet

\* The frame window is done.
LEMMA WindowDoneKeeps ==
    ASSUME IInv, WindowDone, UNCHANGED <<async_decode, frame_window>>
    PROVE  IInv'
  <1> USE DEF WindowDone, memory, inputs, steps, aborts
  <1>1. TypeOK'
    BY DEF IInv, TypeOK, PC
  <1>2. Control' /\ Flushed' /\ Capacity'
    BY DEF IInv, Control, Flushed, Capacity, Quiet, At, Staged, HasPendingEvents
  <1>3. ASSUME NEW q \in Req PROVE PlaceOf(q)' /\ DueOf(q)'
    <2>1. InFlight(q)' = InFlight(q)
      BY DEF InFlight, In
    <2> QED
      BY <2>1 DEF IInv, Control, PlaceOf, DueOf, Staged, Quiet
  <1> QED
    BY <1>1, <1>2, <1>3, Still DEF DataKept, Quiet

\* An input cannot be materialized.
LEMMA MaterializeFailsKeeps ==
    ASSUME IInv, NEW r \in Req, MaterializeFails(r), UNCHANGED <<async_decode, frame_window>>
    PROVE  IInv'
  <1> USE DEF MaterializeFails, memory, inputs, steps, aborts
  <1>1. TypeOK'
    BY DEF IInv, TypeOK, PC, NoEvents
  <1>2. Control' /\ Flushed' /\ Capacity'
    BY DEF IInv, Control, Flushed, Capacity, Quiet, At, Staged, HasPendingEvents
  <1>3. ASSUME NEW q \in Req PROVE PlaceOf(q)' /\ DueOf(q)'
    <2>1. InFlight(q)' = InFlight(q)
      BY DEF InFlight, In
    <2> QED
      BY <2>1 DEF IInv, Control, PlaceOf, DueOf, Staged, Quiet, Extensible, TypeOK
  <1> QED
    BY <1>1, <1>2, <1>3, Still DEF DataKept, Quiet

\* Materialization is done.
LEMMA MaterializeDoneKeeps ==
    ASSUME IInv, MaterializeDone, UNCHANGED <<async_decode, frame_window>>
    PROVE  IInv'
  <1> USE DEF MaterializeDone, memory, inputs, steps, aborts
  <1>1. TypeOK'
    BY DEF IInv, TypeOK, PC
  <1>2. Control' /\ Flushed' /\ Capacity'
    BY DEF IInv, Control, Flushed, Capacity, Quiet, At, Staged
  <1>3. ASSUME NEW q \in Req PROVE PlaceOf(q)' /\ DueOf(q)'
    <2>1. InFlight(q)' = InFlight(q)
      BY DEF InFlight, In
    <2> QED
      BY <2>1 DEF IInv, Control, PlaceOf, DueOf, Staged, Quiet
  <1> QED
    BY <1>1, <1>2, <1>3, Still DEF DataKept, Quiet

\* The budget chooses a victim.
LEMMA BudgetVictimKeeps ==
    ASSUME IInv, NEW r \in Req, BudgetVictim(r), UNCHANGED <<async_decode, frame_window>>
    PROVE  IInv'
  <1> USE DEF BudgetVictim, memory, inputs, steps, aborts
  <1>1. TypeOK'
    BY DEF IInv, TypeOK, PC
  <1>2. Control' /\ Flushed' /\ Capacity'
    BY DEF IInv, Control, Flushed, Capacity, Quiet, At, Staged
  <1>3. ASSUME NEW q \in Req PROVE PlaceOf(q)' /\ DueOf(q)'
    <2>1. InFlight(q)' = InFlight(q)
      BY DEF InFlight, In
    <2> QED
      BY <2>1 DEF IInv, Control, PlaceOf, DueOf, Staged, Quiet
  <1> QED
    BY <1>1, <1>2, <1>3, Still DEF DataKept, Quiet

\* No prefill is due.
LEMMA NoPrefillKeeps ==
    ASSUME IInv, NoPrefill, UNCHANGED <<async_decode, frame_window>>
    PROVE  IInv'
  <1> USE DEF NoPrefill, memory, inputs, steps, aborts
  <1>1. TypeOK'
    BY DEF IInv, TypeOK, PC
  <1>2. Control' /\ Flushed' /\ Capacity'
    BY DEF IInv, Control, Flushed, Capacity, Quiet, At, Staged
  <1>3. ASSUME NEW q \in Req PROVE PlaceOf(q)' /\ DueOf(q)'
    <2>1. InFlight(q)' = InFlight(q)
      BY DEF InFlight, In
    <2> QED
      BY <2>1 DEF IInv, Control, PlaceOf, DueOf, Staged, Quiet
  <1> QED
    BY <1>1, <1>2, <1>3, Still DEF DataKept, Quiet

\* A step is put off by the rate limit.
LEMMA RateLimitedKeeps ==
    ASSUME IInv, RateLimited, UNCHANGED <<async_decode, frame_window>>
    PROVE  IInv'
  <1> USE DEF RateLimited, memory, inputs, steps, aborts
  <1>1. TypeOK'
    BY DEF IInv, TypeOK, PC
  <1>2. Control' /\ Flushed' /\ Capacity'
    BY DEF IInv, Control, Flushed, Capacity, Quiet, At, Staged
  <1>3. ASSUME NEW q \in Req PROVE PlaceOf(q)' /\ DueOf(q)'
    <2>1. InFlight(q)' = InFlight(q)
      BY DEF InFlight, In
    <2> QED
      BY <2>1 DEF IInv, Control, PlaceOf, DueOf, Staged, Quiet
  <1> QED
    BY <1>1, <1>2, <1>3, Still DEF DataKept, Quiet

\* A step is not put off.
LEMMA NotRateLimitedKeeps ==
    ASSUME IInv, NotRateLimited, UNCHANGED <<async_decode, frame_window>>
    PROVE  IInv'
  <1> USE DEF NotRateLimited, memory, inputs, steps, aborts
  <1>1. TypeOK'
    BY DEF IInv, TypeOK, PC
  <1>2. Control' /\ Flushed' /\ Capacity'
    BY DEF IInv, Control, Flushed, Capacity, Quiet, At, Staged, CapacityError, KvTotal
  <1>3. ASSUME NEW q \in Req PROVE PlaceOf(q)' /\ DueOf(q)'
    <2>1. InFlight(q)' = InFlight(q)
      BY DEF InFlight, In
    <2> QED
      BY <2>1 DEF IInv, Control, PlaceOf, DueOf, Staged, Quiet
  <1> QED
    BY <1>1, <1>2, <1>3, Still DEF DataKept, Quiet

\* A request is preempted.
LEMMA PreemptKeeps ==
    ASSUME IInv, NEW r \in Req, Preempt(r), UNCHANGED <<async_decode, frame_window>>
    PROVE  IInv'
  <1> USE DEF Preempt, memory, inputs, steps, aborts
  <1>1. TypeOK'
    BY DEF IInv, TypeOK, PC
  <1>2. Control' /\ Flushed' /\ Capacity'
    BY DEF IInv, Control, Flushed, Capacity, Quiet, At, Staged, CapacityError, KvTotal
  <1>3. ASSUME NEW q \in Req PROVE PlaceOf(q)' /\ DueOf(q)'
    <2>1. InFlight(q)' = InFlight(q)
      BY DEF InFlight, In
    <2> QED
      BY <2>1 DEF IInv, Control, PlaceOf, DueOf, Staged, Quiet
  <1> QED
    BY <1>1, <1>2, <1>3, Still DEF DataKept, Quiet

\* Preemption is done.
LEMMA PreemptDoneKeeps ==
    ASSUME IInv, PreemptDone, UNCHANGED <<async_decode, frame_window>>
    PROVE  IInv'
  <1> USE DEF PreemptDone, memory, inputs, steps, aborts
  <1>1. TypeOK'
    BY DEF IInv, TypeOK, PC
  <1>2. Control' /\ Flushed' /\ Capacity'
    BY DEF IInv, Control, Flushed, Capacity, Quiet, At, Staged, CheckDecodeMem, CapacityError, KvTotal
  <1>3. ASSUME NEW q \in Req PROVE PlaceOf(q)' /\ DueOf(q)'
    <2>1. InFlight(q)' = InFlight(q)
      BY DEF InFlight, In
    <2> QED
      BY <2>1 DEF IInv, Control, PlaceOf, DueOf, Staged, Quiet
  <1> QED
    BY <1>1, <1>2, <1>3, Still DEF DataKept, Quiet

\* A flush or a launch moves a step on; it stays in flight.
MovesOn ==
    /\ resolving = NoStep
    /\ \/ Flush /\ prepared' = prepared
       \/ pending' = prepared /\ resolving' = pending /\ prepared' = NoStep

\* A step handed on, from prepared to pending to resolving, is still in flight.
LEMMA MovedSteps ==
    ASSUME IInv, DataKept, MovesOn, NEW r \in Req
    PROVE  InFlight(r)' = InFlight(r) /\ StepsOf(r)'
  <1> USE NoStepFlying, EmptyStep
  <1>1. /\ In(r, prepared) \in Int /\ In(r, pending) \in Int
        /\ kv[r].alloc \in Int
    BY InType, Typed DEF IInv
  <1>2. CASE Flush /\ prepared' = prepared
    <2>1. /\ In(r, prepared)' = In(r, prepared) /\ In(r, pending)' = 0
          /\ In(r, resolving)' = In(r, pending) /\ In(r, resolving) = 0
      BY <1>2 DEF MovesOn, Flush, In
    <2>2. InFlight(r)' = InFlight(r)
      BY <1>1, <2>1 DEF InFlight
    <2>3. StepsOf(r)'
      BY <1>1, <1>2, <2>1 DEF IInv, StepsOf, DataKept, Flush
    <2> QED
      BY <2>2, <2>3
  <1>3. CASE pending' = prepared /\ resolving' = pending /\ prepared' = NoStep
    <2>1. /\ In(r, prepared)' = 0 /\ In(r, pending)' = In(r, prepared)
          /\ In(r, resolving)' = In(r, pending) /\ In(r, resolving) = 0
      BY <1>3 DEF MovesOn, In
    <2>2. InFlight(r)' = InFlight(r)
      BY <1>1, <2>1 DEF InFlight
    <2>3. StepsOf(r)'
      BY <1>1, <1>3, <2>1 DEF IInv, StepsOf, DataKept
    <2> QED
      BY <2>2, <2>3
  <1> QED
    BY <1>2, <1>3 DEF MovesOn

\* A round of the scheduler that moves no data keeps the invariant.
LEMMA StillMoved ==
    ASSUME IInv, DataKept, MovesOn, doomed \subseteq doomed',
           pc' # pc => pc # "run_prefill",
           TypeOK', Control', Flushed', Capacity',
           \A r \in Req : PlaceOf(r)' /\ DueOf(r)'
    PROVE  IInv'
  <1>1. \A r \in Req : InFlight(r)' = InFlight(r) /\ StepsOf(r)'
    BY MovedSteps
  <1>2. \A r \in Req : LengthsOf(r)' /\ FramesOf(r)' /\ ContextOf(r)' /\ TailOf(r)'
    BY <1>1, KeptOf DEF IInv
  <1>3. Rows'
    BY RowsKept DEF IInv, DataKept
  <1> QED
    BY <1>1, <1>2, <1>3 DEF IInv


\* An aborted request waits for the launched step.
LEMMA AbortFlushKeeps ==
    ASSUME IInv, NEW r \in Req, AbortFlush(r), UNCHANGED <<async_decode, frame_window>>
    PROVE  IInv'
  <1> USE DEF AbortFlush, memory, inputs, aborts
  <1>1. TypeOK'
    BY NoStepType DEF IInv, TypeOK, PC, Flush
  <1>2. Control' /\ Flushed' /\ Capacity'
    BY EmptyStep DEF IInv, Control, Flushed, Capacity, Quiet, At, Staged, Flush, HasPendingEvents, CapacityError, KvTotal
  <1>3. DataKept /\ MovesOn
    BY DEF DataKept, MovesOn, Quiet
  <1>4. ASSUME NEW q \in Req PROVE PlaceOf(q)' /\ DueOf(q)'
    <2>1. InFlight(q)' = InFlight(q)
      BY <1>3, MovedSteps
    <2> QED
      BY <2>1 DEF IInv, Control, PlaceOf, DueOf, Staged, Quiet
  <1> QED
    BY <1>1, <1>2, <1>3, <1>4, StillMoved DEF Quiet


\* The segments are staged, and a step in flight is flushed before they run.
LEMMA StageDoneKeeps ==
    ASSUME IInv, StageDone, UNCHANGED <<async_decode, frame_window>>
    PROVE  IInv'
  <1> USE DEF StageDone, memory, inputs, aborts
  <1>1. TypeOK'
    BY NoStepType DEF IInv, TypeOK, PC, Flush
  <1>2. Control' /\ Flushed' /\ Capacity'
    BY EmptyStep DEF IInv, Control, Flushed, Capacity, Quiet, At, Staged, Flush
  <1>3. DataKept /\ MovesOn
    BY DEF DataKept, MovesOn, Quiet
  <1>4. ASSUME NEW q \in Req PROVE PlaceOf(q)' /\ DueOf(q)'
    <2>1. InFlight(q)' = InFlight(q)
      BY <1>3, MovedSteps
    <2> QED
      BY <2>1 DEF IInv, Control, PlaceOf, DueOf, Staged, Quiet, At
  <1> QED
    BY <1>1, <1>2, <1>3, <1>4, StillMoved DEF Quiet


\* No batch: the loop flushes the step in flight and goes round.
LEMMA IdleKeeps ==
    ASSUME IInv, Idle, UNCHANGED <<async_decode, frame_window>>
    PROVE  IInv'
  <1> USE DEF Idle, memory, inputs, aborts
  <1>1. TypeOK'
    BY NoStepType DEF IInv, TypeOK, PC, Flush
  <1>2. Control' /\ Flushed' /\ Capacity'
    BY EmptyStep DEF IInv, Control, Flushed, Capacity, Quiet, At, Staged, Flush
  <1>3. DataKept /\ MovesOn
    BY DEF DataKept, MovesOn, Quiet
  <1>4. ASSUME NEW q \in Req PROVE PlaceOf(q)' /\ DueOf(q)'
    <2>1. InFlight(q)' = InFlight(q)
      BY <1>3, MovedSteps
    <2> QED
      BY <2>1 DEF IInv, Control, PlaceOf, DueOf, Staged, Quiet
  <1> QED
    BY <1>1, <1>2, <1>3, <1>4, StillMoved DEF Quiet


\* A decode step is launched.
LEMMA LaunchDecodeKeeps ==
    ASSUME IInv, LaunchDecode, UNCHANGED <<async_decode, frame_window>>
    PROVE  IInv'
  <1> USE DEF LaunchDecode, memory, inputs, aborts
  <1>1. TypeOK'
    BY NoStepType DEF IInv, TypeOK, PC, Flush
  <1>2. Control' /\ Flushed' /\ Capacity'
    BY EmptyStep DEF IInv, Control, Flushed, Capacity, Quiet, At, Staged, Flush, PlaceOf
  <1>3. DataKept /\ MovesOn
    BY DEF DataKept, MovesOn, Quiet
  <1>4. ASSUME NEW q \in Req PROVE PlaceOf(q)' /\ DueOf(q)'
    <2>1. InFlight(q)' = InFlight(q)
      BY <1>3, MovedSteps
    <2> QED
      BY <2>1 DEF IInv, Control, PlaceOf, DueOf, Staged, Quiet
  <1> QED
    BY <1>1, <1>2, <1>3, <1>4, StillMoved DEF Quiet

\* A step that either flushes or leaves the steps alone.
LEMMA StillEither ==
    ASSUME IInv, DataKept, MovesOn \/ UNCHANGED steps, doomed \subseteq doomed',
           pc' # pc => pc # "run_prefill",
           TypeOK', Control', Flushed', Capacity',
           \A r \in Req : PlaceOf(r)' /\ DueOf(r)'
    PROVE  IInv'
  BY Still, StillMoved

\* Handing steps on, or leaving them, changes nothing about who is in flight.
LEMMA EitherFlying ==
    ASSUME IInv, DataKept, MovesOn \/ UNCHANGED steps, NEW r \in Req
    PROVE  InFlight(r)' = InFlight(r)
  BY MovedSteps DEF InFlight, In, steps

\* Events wait for the launched step.
LEMMA EventsBarrierKeeps ==
    ASSUME IInv, EventsBarrier, UNCHANGED <<async_decode, frame_window>>
    PROVE  IInv'
  <1> USE DEF EventsBarrier, memory, inputs, aborts
  <1>1. TypeOK'
    BY NoStepType DEF IInv, TypeOK, PC, Flush
  <1>2. Control' /\ Flushed' /\ Capacity'
    BY EmptyStep DEF IInv, Control, Flushed, Capacity, Quiet, At, Staged, Flush,
       HasPendingEvents, PlaceOf
  <1>3. DataKept /\ (MovesOn \/ UNCHANGED steps)
    BY DEF DataKept, MovesOn, Quiet, steps
  <1>4. ASSUME NEW q \in Req PROVE PlaceOf(q)' /\ DueOf(q)'
    <2>1. InFlight(q)' = InFlight(q)
      BY <1>3, EitherFlying
    <2> QED
      BY <2>1 DEF IInv, Control, PlaceOf, DueOf, Staged, Quiet
  <1> QED
    BY <1>1, <1>2, <1>3, <1>4, StillEither DEF Quiet

\* The frame window takes its candidates.
LEMMA EvaluateFrameWindowKeeps ==
    ASSUME IInv, WindowDue, EvaluateFrameWindow, UNCHANGED <<async_decode, frame_window>>
    PROVE  IInv'
  <1> USE DEF EvaluateFrameWindow, memory, inputs, aborts
  <1>1. TypeOK'
    BY NoStepType DEF IInv, TypeOK, PC, Flush, FrameWindowCandidates, At
  <1>2. Control' /\ Flushed' /\ Capacity'
    BY EmptyStep DEF IInv, Control, Flushed, Capacity, Quiet, At, Staged, Flush,
       HasPendingEvents, PlaceOf
  <1>3. DataKept /\ (MovesOn \/ UNCHANGED steps)
    BY DEF DataKept, MovesOn, Quiet, steps
  <1>4. ASSUME NEW q \in Req PROVE PlaceOf(q)' /\ DueOf(q)'
    <2>1. InFlight(q)' = InFlight(q)
      BY <1>3, EitherFlying
    <2>2. PlaceOf(q)'
      BY <2>1 DEF IInv, Control, PlaceOf, Staged, Quiet
    <2>3. frames[q].due => frames[q].raw + frames[q].pooled > 0
      BY Typed DEF IInv, DueOf
    <2>4. q \in cand' <=>
            /\ frame_window
            /\ st[q].place \in Resident /\ st[q].phase \in {"decoding", "waiting"}
            /\ frames[q].raw + frames[q].pooled > 0
      BY DEF FrameWindowCandidates, At, Resident
    <2>5. st[q].phase \in Phase /\ (frames[q].due => frame_window)
      BY Typed DEF IInv, WindowDue
    <2>6. DueOf(q)'
      BY <2>1, <2>3, <2>4, <2>5
         DEF IInv, PlaceOf, DueOf, Quiet, Phase, Resident
    <2> QED
      BY <2>2, <2>6
  <1> QED
    BY <1>1, <1>2, <1>3, <1>4, StillEither DEF Quiet

\* The capacity guard of decode.
LEMMA GuardDecodeCapacityKeeps ==
    ASSUME IInv, GuardDecodeCapacity, UNCHANGED <<async_decode, frame_window>>
    PROVE  IInv'
  <1> USE DEF GuardDecodeCapacity, memory, inputs
  <1>1. TypeOK'
    BY NoStepType DEF IInv, TypeOK, PC, Flush, At
  <1>2. Control' /\ Flushed' /\ Capacity'
    BY EmptyStep DEF IInv, Control, Flushed, Capacity, Quiet, At, Staged, Flush,
       PlaceOf, CapacityError, KvTotal
  <1>3. DataKept /\ (MovesOn \/ UNCHANGED steps)
    BY DEF DataKept, MovesOn, Quiet, steps
  <1>4. ASSUME NEW q \in Req PROVE PlaceOf(q)' /\ DueOf(q)'
    <2>1. InFlight(q)' = InFlight(q)
      BY <1>3, EitherFlying
    <2> QED
      BY <2>1 DEF IInv, Control, PlaceOf, DueOf, Staged, Quiet
  <1> QED
    BY <1>1, <1>2, <1>3, <1>4, StillEither DEF Quiet

\* A failed resolve forgets a step: its slot stays in the row of a request that
\* is now to be aborted.
LEMMA ResolveFailsKeeps ==
    ASSUME IInv, ResolveFails, UNCHANGED <<async_decode, frame_window>>
    PROVE  IInv'
  <1> USE DEF ResolveFails, memory, inputs
  <1>1. TypeOK'
    BY NoStepType DEF IInv, TypeOK, Live
  <1>2. Control' /\ Flushed' /\ Capacity'
    BY EmptyStep DEF IInv, Control, Flushed, Capacity, Quiet, At, Staged,
       PlaceOf, CapacityError, KvTotal, HasPendingEvents
  <1>3. ASSUME NEW q \in Req
        PROVE  /\ PlaceOf(q)' /\ DueOf(q)' /\ LengthsOf(q)' /\ FramesOf(q)'
               /\ ContextOf(q)' /\ TailOf(q)' /\ StepsOf(q)'
    <2> USE NoStepFlying, EmptyStep
    <2>1. /\ In(q, prepared)' = In(q, prepared) /\ In(q, prepared) = 0
          /\ In(q, pending)' = In(q, pending) /\ In(q, resolving)' = 0
          /\ In(q, pending) \in {0, 1}
          /\ In(q, resolving) = IF q \in DOMAIN resolving THEN 1 ELSE 0
      BY DEF IInv, Control, In, Quiet
    <2>2. /\ InFlight(q) = In(q, pending) + In(q, resolving)
          /\ InFlight(q)' = In(q, pending)
          /\ In(q, resolving) \in {0, 1}
      BY <2>1 DEF InFlight
    <2>3. /\ In(q, resolving) = 1 /\ st[q].place \in Resident => q \in doomed'
          /\ q \in doomed => q \in doomed'
      BY <2>1 DEF Live, Resident
    <2>4. PlaceOf(q)'
      BY <2>1, <2>2, <2>3 DEF IInv, Control, PlaceOf, Flushed, Staged, Quiet
    <2>5. DueOf(q)'
      <3>1. frames[q].due /\ q \in cand => q \notin doomed'
        BY <2>1, <2>2 DEF IInv, DueOf
      <3> QED
        BY <2>1, <2>2, <2>3, <3>1 DEF IInv, DueOf
    <2>6. LengthsOf(q)'
      BY <2>1, <2>2, <2>3, Typed DEF IInv, LengthsOf, KvTotal, TokenTotal
    <2>7. FramesOf(q)' /\ ContextOf(q)' /\ TailOf(q)'
      <3>1. FramesOf(q)' /\ TailOf(q)'
        BY DEF IInv, FramesOf, TailOf, Used, Owned, KvTotal
      <3>2. ContextOf(q)'
        BY <2>1, <2>2, Typed, Sizes DEF IInv, ContextOf, Staged, KvTotal
      <3> QED
        BY <3>1, <3>2
    <2>8. StepsOf(q)'
      BY <2>1 DEF IInv, StepsOf
    <2> QED
      BY <2>4, <2>5, <2>6, <2>7, <2>8
  <1>4. Rows'
    BY RowsKept DEF IInv
  <1> QED
    BY <1>1, <1>2, <1>3, <1>4 DEF IInv

-----------------------------------------------------------------------------
(* Requests that a step leaves alone.                                      *)

DataOf(q) ==
    /\ st'[q].place = st[q].place /\ kv'[q] = kv[q] /\ row'[q] = row[q]
    /\ frames'[q] = frames[q] /\ staged'[q] = staged[q]

StepsKeptOf(q) ==
    /\ In(q, prepared)' = In(q, prepared) /\ In(q, pending)' = In(q, pending)
    /\ In(q, resolving)' = In(q, resolving)
    /\ q \in DOMAIN prepared => prepared'[q] = prepared[q]
    /\ q \in DOMAIN pending => pending'[q] = pending[q]
    /\ q \in DOMAIN resolving => resolving'[q] = resolving[q]

\* The conjuncts of the invariant about one request's memory.
MemoryOf(q) == LengthsOf(q) /\ FramesOf(q) /\ ContextOf(q) /\ TailOf(q)

\* What is known of a request survives a step that is about another one.
LEMMA SameOf ==
    ASSUME NEW q \in Req, DataOf(q), MemoryOf(q),
           st[q].place # "gone" => InFlight(q)' = InFlight(q),
           q \in doomed => q \in doomed',
           st[q].place = "prefill" => pc' = pc \/ pc # "run_prefill"
    PROVE  MemoryOf(q)'
  <1> USE DEF DataOf, MemoryOf
  <1>1. LengthsOf(q)'
    BY DEF LengthsOf, TokenTotal, KvTotal, Resident
  <1>2. FramesOf(q)' /\ ContextOf(q)' /\ TailOf(q)'
    BY DEF FramesOf, ContextOf, TailOf, Used, Owned, KvTotal, TokenTotal, Staged,
       Resident
  <1> QED
    BY <1>1, <1>2

\* ... and so does what is known of its steps.
LEMMA SameSteps ==
    ASSUME NEW q \in Req, DataOf(q), StepsKeptOf(q), StepsOf(q)
    PROVE  InFlight(q)' = InFlight(q) /\ StepsOf(q)'
  <1>1. /\ q \in DOMAIN prepared' <=> q \in DOMAIN prepared
        /\ q \in DOMAIN pending' <=> q \in DOMAIN pending
        /\ q \in DOMAIN resolving' <=> q \in DOMAIN resolving
    BY InType DEF StepsKeptOf, In
  <1>2. InFlight(q)' = InFlight(q)
    BY DEF InFlight, StepsKeptOf
  <1>3. StepsOf(q)'
    BY <1>1 DEF StepsOf, DataOf, StepsKeptOf
  <1> QED
    BY <1>2, <1>3

\* A step of the system that leaves the steps in flight alone.
LEMMA StepsUnchanged ==
    ASSUME UNCHANGED steps, NEW q
    PROVE  StepsKeptOf(q) /\ InFlight(q)' = InFlight(q)
  BY DEF steps, StepsKeptOf, In, InFlight

\* The parts of the invariant make it up.
LEMMA Together ==
    ASSUME TypeOK', Control', Flushed', Capacity', Rows',
           \A q \in Req : PlaceOf(q)' /\ DueOf(q)' /\ MemoryOf(q)' /\ StepsOf(q)'
    PROVE  IInv'
  BY DEF IInv, MemoryOf

\* A request arrives.
LEMMA SubmitKeeps ==
    ASSUME IInv, NEW r \in Req, Submit(r), UNCHANGED <<async_decode, frame_window>>
    PROVE  IInv'
  <1> USE DEF Submit, AtRecv, memory, inputs, aborts
  <1>2. \A q \in Req : st'[q] = IF q = r THEN [st[r] EXCEPT !.place = "waiting", !.open = TRUE]
                                ELSE st[q]
    BY DEF IInv, TypeOK
  <1>3. st'[r].place = "waiting" /\ st'[r].phase = st[r].phase
    <2>1. st[r] \in Status
      BY Typed DEF IInv
    <2>2. st'[r] = [st[r] EXCEPT !.place = "waiting", !.open = TRUE]
      BY <1>2
    <2>3. /\ [st[r] EXCEPT !.place = "waiting", !.open = TRUE].place = "waiting"
          /\ [st[r] EXCEPT !.place = "waiting", !.open = TRUE].phase = st[r].phase
      BY <2>1 DEF Status
    <2> QED
      BY <2>2, <2>3
  <1>1. TypeOK'
    <2>1. st[r] \in Status /\ \A q \in Req : st[q] \in Status
      BY Typed DEF IInv
    <2>2. [st[r] EXCEPT !.place = "waiting", !.open = TRUE] \in Status
      BY <2>1 DEF Status, Place
    <2>3. st' \in [Req -> Status]
      BY <1>2, <2>1, <2>2 DEF IInv, TypeOK
    <2> QED
      BY <2>3 DEF IInv, TypeOK, steps, Status
  <1>4. Control' /\ Flushed' /\ Capacity'
    <2> USE DEF steps, Quiet
    <2>1. Control'
      BY DEF IInv, Control
    <2>2. Flushed' /\ Capacity'
      BY DEF IInv, Flushed, Capacity, Staged
    <2> QED
      BY <2>1, <2>2
  <1>5. ASSUME NEW q \in Req
        PROVE  PlaceOf(q)' /\ DueOf(q)' /\ MemoryOf(q)' /\ StepsOf(q)'
    <2>1. StepsKeptOf(q) /\ InFlight(q)' = InFlight(q)
      BY StepsUnchanged
    <2>2. CASE q # r
      <3>0. st'[q] = st[q]
        BY <1>2, <2>2
      <3>1. DataOf(q)
        BY <3>0 DEF DataOf
      <3>2. MemoryOf(q)' /\ StepsOf(q)'
        BY <2>1, <3>1, SameOf, SameSteps DEF IInv, MemoryOf
      <3>3. PlaceOf(q)' /\ DueOf(q)'
        BY <2>1, <3>0, <3>1 DEF IInv, PlaceOf, DueOf, Staged, DataOf
      <3> QED
        BY <3>2, <3>3
    <2>3. CASE q = r
      <3>1. r \notin Staged /\ st[r].phase # "aborted" /\ InFlight(r) = 0
        BY DEF IInv, PlaceOf, Resident
      <3>2. kv[r] = NoLengths /\ frames[r].raw = 0 /\ frames[r].pooled = 0
        BY DEF IInv, LengthsOf, FramesOf
      <3>3. PlaceOf(q)' /\ DueOf(q)'
        BY <1>3, <2>1, <2>3, <3>1 DEF IInv, PlaceOf, DueOf, Staged, Resident, Control
      <3>4. LengthsOf(q)' /\ FramesOf(q)'
        BY <1>3, <2>3, <3>2 DEF IInv, LengthsOf, FramesOf, Resident
      <3>5. ContextOf(q)' /\ TailOf(q)' /\ StepsOf(q)'
        BY <1>3, <2>3, <3>1 DEF IInv, ContextOf, TailOf, StepsOf, Resident, Staged
      <3> QED
        BY <3>3, <3>4, <3>5 DEF MemoryOf
    <2> QED
      BY <2>2, <2>3
  <1>6. Rows'
    <2>1. \A q \in Req : Used(q)' = Used(q)
      BY <1>2, <1>3 DEF Used, KvTotal
    <2> QED
      BY <2>1, RowsSame DEF IInv
  <1> QED
    BY <1>1, <1>4, <1>5, <1>6, Together

\* An update arrives.
LEMMA UpdateKeeps ==
    ASSUME IInv, NEW r \in Req, NEW kind \in {"frame", "prompt"}, NEW last \in BOOLEAN,
           Update(r, kind, last), UNCHANGED <<async_decode, frame_window>>
    PROVE  IInv'
  <1> USE DEF Update, AtRecv, memory, aborts
  <1>1. \A q \in Req \ {r} : st'[q] = st[q]
    BY DEF IInv, TypeOK
  <1>2. /\ st'[r] = [st[r] EXCEPT !.final = last]
        /\ st[r] \in Status
    BY Typed DEF IInv, TypeOK
  <1>3. /\ [st[r] EXCEPT !.final = last].place = st[r].place
        /\ [st[r] EXCEPT !.final = last].phase = st[r].phase
        /\ [st[r] EXCEPT !.final = last] \in Status
    BY <1>2 DEF Status
  <1>4. st[r].phase # "aborted" /\ st[r].place # "gone"
    BY DEF IInv, PlaceOf, Live
  <1>5. TypeOK'
    <2>1. st' \in [Req -> Status]
      BY <1>1, <1>2, <1>3, Typed DEF IInv, TypeOK
    <2>2. sent' \in [Req -> 0 .. MaxEvents]
      BY Sizes DEF IInv, TypeOK
    <2>3. events' \in [Req -> [frame : Nat, prompt : Nat]]
      <3>1. CASE kind = "frame"
        <4>1. events' = [events EXCEPT ![r].frame = @ + 1]
          BY <3>1, Zenon
        <4>2. events \in [Req -> [frame : Nat, prompt : Nat]]
          BY DEF IInv, TypeOK
        <4> HIDE DEF Update
        <4> QED
          BY <4>1, <4>2
      <3>2. CASE kind = "prompt"
        <4>1. events' = [events EXCEPT ![r].prompt = @ + 1]
          BY <3>2, Zenon
        <4>2. events \in [Req -> [frame : Nat, prompt : Nat]]
          BY DEF IInv, TypeOK
        <4> HIDE DEF Update
        <4> QED
          BY <4>1, <4>2
      <3> QED
        BY <3>1, <3>2
    <2> QED
      BY <2>1, <2>2, <2>3 DEF IInv, TypeOK, steps, Status
  <1>6. Control' /\ Flushed' /\ Capacity'
    <2> USE DEF steps, Quiet
    <2>1. Control'
      BY DEF IInv, Control
    <2>2. Flushed' /\ Capacity'
      BY DEF IInv, Flushed, Capacity, Staged
    <2> QED
      BY <2>1, <2>2
  <1>7. ASSUME NEW q \in Req
        PROVE  PlaceOf(q)' /\ DueOf(q)' /\ MemoryOf(q)' /\ StepsOf(q)' /\ Used(q)' = Used(q)
    <2>1. StepsKeptOf(q) /\ InFlight(q)' = InFlight(q)
      BY StepsUnchanged
    <2>2. DataOf(q) /\ st'[q].phase = st[q].phase
      BY <1>1, <1>2, <1>3 DEF DataOf
    <2>3. MemoryOf(q)' /\ StepsOf(q)'
      BY <2>1, <2>2, SameOf, SameSteps DEF IInv, MemoryOf
    <2>4. DueOf(q)'
      BY <2>1, <2>2 DEF IInv, DueOf, DataOf
    <2>5. PlaceOf(q)'
      BY <1>1, <1>2, <1>3, <1>4, <2>1, <2>2 DEF IInv, PlaceOf, Staged, DataOf
    <2>6. Used(q)' = Used(q)
      BY <2>2 DEF Used, KvTotal, DataOf
    <2> QED
      BY <2>3, <2>4, <2>5, <2>6
  <1>8. Rows'
    BY <1>7, RowsSame DEF IInv
  <1> QED
    BY <1>5, <1>6, <1>7, <1>8, Together

-----------------------------------------------------------------------------
(* Rows that give slots back.                                              *)

\* A request owns the slots in the used part of its row.
LEMMA OwnedDef ==
    ASSUME NEW r, NEW s
    PROVE  s \in Owned(r) <=> \E i \in 1 .. Used(r) : s = row[r][i]
  BY DEF Owned, Prefix

\* Slots move from rows to the free list only.
LEMMA RowsShrink ==
    ASSUME Rows,
           \A q \in Req : RowOf(q)' /\ Owned(q)' \subseteq Owned(q),
           \A s \in Slot :
             s \in free' <=> \/ s \in free
                             \/ \E q \in Req : s \in Owned(q) /\ s \notin Owned(q)'
    PROVE  Rows'
  <1>1. \A r, q \in Req : r # q => Owned(r)' \cap Owned(q)' = {}
    BY DEF Rows
  <1>2. ASSUME NEW s \in Slot
        PROVE  s \in free' <=> \A r \in Req : s \notin Owned(r)'
    BY DEF Rows
  <1> QED
    BY <1>1, <1>2 DEF Rows

\* The fields of a request that was released.
LEMMA GoneFields ==
    /\ Gone \in Status /\ Gone.place = "gone" /\ Gone.phase = "aborted"
    /\ ~Gone.open
    /\ NoLengths \in Lengths /\ NoLengths.enc = 0 /\ NoLengths.dec = 0
    /\ NoLengths.appended = 0 /\ NoLengths.alloc = 0 /\ NoLengths.fill = 0
    /\ StaleRow \in Cells
  <1>1. Gone \in Status /\ Gone.place = "gone" /\ Gone.phase = "aborted" /\ ~Gone.open
    BY DEF Gone, Status, Place, Phase
  <1>2. StaleRow \in Cells
    BY Sizes DEF StaleRow, Cells, Slot
  <1> QED
    BY <1>1, <1>2 DEF NoLengths, Lengths

\* The fields of a request that has nothing staged.
LEMMA SegmentFields ==
    ASSUME TypeOK, NEW r \in Req
    PROVE  /\ r \notin Staged => staged[r].frames = 0 /\ staged[r].enc = 0 /\ staged[r].len = 0
           /\ NoSegment.frames = 0 /\ NoSegment.enc = 0 /\ NoSegment.len = 0
           /\ NoSegment \in [frames : Nat, enc : Nat, len : Nat]
  BY DEF Staged, NoSegment

\* A request that is gone holds nothing.
LEMMA GoneOf ==
    ASSUME IInv, NEW r \in Req, st'[r] = Gone, kv'[r] = NoLengths,
           staged'[r].len = 0, staged'[r].enc = 0, staged'[r].frames = 0,
           r \notin Staged',
           frames'[r].due => frames'[r].raw > 0,
           r \notin cand' \/ ~frames'[r].due
    PROVE  /\ PlaceOf(r)' /\ DueOf(r)' /\ MemoryOf(r)' /\ StepsOf(r)'
           /\ Used(r)' = 0 /\ RowOf(r)' /\ Owned(r)' = {}
  <1> USE GoneFields
  <1>1. PlaceOf(r)' /\ DueOf(r)'
    BY DEF PlaceOf, DueOf, Resident
  <1>2. LengthsOf(r)' /\ StepsOf(r)'
    BY DEF LengthsOf, StepsOf, Resident
  <1>3. FramesOf(r)' /\ ContextOf(r)'
    BY Sizes DEF FramesOf, ContextOf, Resident
  <1>4. Used(r)' = 0
    BY DEF Used
  <1>5. RowOf(r)' /\ Owned(r)' = {}
    BY <1>4 DEF RowOf, Owned, Prefix
  <1>6. TailOf(r)'
    BY DEF TailOf, Resident
  <1> QED
    BY <1>1, <1>2, <1>3, <1>4, <1>5, <1>6 DEF MemoryOf

\* A row that is not written keeps what it owns.
LEMMA SameRow ==
    ASSUME Rows, NEW q \in Req, Used(q)' = Used(q), row'[q] = row[q]
    PROVE  RowOf(q)' /\ Owned(q)' = Owned(q)
  BY DEF Rows, RowOf, Owned

\* The used part of a row depends on its request's data alone.
LEMMA DataUsed ==
    ASSUME NEW q \in Req, DataOf(q)
    PROVE  Used(q)' = Used(q)
  BY DEF DataOf, Used, KvTotal

\* abort() of a request outside an extend and outside every step.
LEMMA ReleaseKeeps ==
    ASSUME IInv, NEW r \in Req, Release(r), r \notin Staged,
           pc \notin {"decode", "run_decode"},
           r \notin cand \/ ~frames[r].due,
           UNCHANGED <<async_decode, frame_window, pc, frames, events, sent, staged, cand>>,
           UNCHANGED steps,
           doomed \ {r} \subseteq doomed', doomed' \subseteq doomed,
           controls' \subseteq controls
    PROVE  IInv'
  <1> USE DEF Release
  <1>1. ASSUME NEW q \in Req, q # r
        PROVE  st'[q] = st[q] /\ DataOf(q)
    BY <1>1 DEF IInv, TypeOK, DataOf
  <1>2. st'[r] = Gone /\ kv'[r] = NoLengths /\ row'[r] = StaleRow
    BY DEF IInv, TypeOK
  <1>3. st[r].place # "extend"
    BY DEF IInv, PlaceOf
  <1>4. Held(r) = Owned(r) /\ Held(r) \subseteq Slot
    BY <1>3 DEF Held, Owned, Used, IInv, Rows, RowOf, Prefix
  <1>5. TypeOK'
    <2>1. st' \in [Req -> Status]
      BY <1>1, <1>2, Typed, GoneFields DEF IInv, TypeOK
    <2>2. kv' \in [Req -> Lengths] /\ row' \in [Req -> Cells]
      BY <1>1, <1>2, Typed, GoneFields DEF IInv, TypeOK, DataOf
    <2>3. free' \subseteq Slot
      BY <1>4 DEF IInv, TypeOK
    <2>4. {doomed', controls'} \subseteq SUBSET Req
      BY DEF IInv, TypeOK
    <2> QED
      BY <2>1, <2>2, <2>3, <2>4 DEF IInv, TypeOK, steps, Status, Lengths, Cells
  <1>6. Control' /\ Flushed' /\ Capacity'
    <2> USE DEF steps
    <2>1. Control'
      BY DEF IInv, Control
    <2>2. HasPendingEvents' => HasPendingEvents
      BY <1>1, <1>2, GoneFields DEF HasPendingEvents, At
    <2>3. Flushed'
      BY <2>2 DEF IInv, Flushed, Staged
    <2>4. \A q \in At("running")' : q \in At("running") /\ q # r
      BY <1>1, <1>2, GoneFields DEF At
    <2>5. ASSUME NEW q \in Req, q # r PROVE CapacityError(q)' <=> CapacityError(q)
      BY <1>1, <2>5 DEF CapacityError, KvTotal, DataOf
    <2>6. Capacity'
      BY <2>4, <2>5 DEF IInv, Capacity, At
    <2> QED
      BY <2>1, <2>3, <2>6
  <1>7. ASSUME NEW q \in Req, q # r
        PROVE  /\ PlaceOf(q)' /\ DueOf(q)' /\ MemoryOf(q)' /\ StepsOf(q)'
               /\ RowOf(q)' /\ Owned(q)' = Owned(q)
    <2>1. StepsKeptOf(q) /\ InFlight(q)' = InFlight(q)
      BY StepsUnchanged
    <2>2. st'[q] = st[q] /\ DataOf(q) /\ Used(q)' = Used(q)
      BY <1>1, <1>7, DataUsed
    <2>3. MemoryOf(q)' /\ StepsOf(q)'
      BY <1>7, <2>1, <2>2, SameOf, SameSteps DEF IInv, MemoryOf
    <2>4. PlaceOf(q)' /\ DueOf(q)'
      BY <1>7, <2>1, <2>2 DEF IInv, PlaceOf, DueOf, Staged, DataOf
    <2>5. RowOf(q)' /\ Owned(q)' = Owned(q)
      BY <2>2, SameRow DEF IInv, DataOf
    <2> QED
      BY <2>3, <2>4, <2>5
  <1>8. /\ PlaceOf(r)' /\ DueOf(r)' /\ MemoryOf(r)' /\ StepsOf(r)'
        /\ RowOf(r)' /\ Owned(r)' = {}
    <2>1. r \notin Staged' /\ staged'[r].len = 0 /\ staged'[r].enc = 0 /\ staged'[r].frames = 0
      BY SegmentFields DEF IInv, Staged
    <2>2. frames'[r].due => frames'[r].raw > 0
      BY DEF IInv, DueOf
    <2> QED
      BY <1>2, <2>1, <2>2, GoneOf
  <1>9. Rows'
    <2>1. \A q \in Req : RowOf(q)' /\ Owned(q)' \subseteq Owned(q)
      BY <1>7, <1>8
    <2>2. ASSUME NEW s \in Slot
          PROVE  s \in free' <=> \/ s \in free
                                 \/ \E q \in Req : s \in Owned(q) /\ s \notin Owned(q)'
      BY <1>4, <1>7, <1>8
    <2> QED
      BY <2>1, <2>2, RowsShrink DEF IInv
  <1>10. \A q \in Req : PlaceOf(q)' /\ DueOf(q)' /\ MemoryOf(q)' /\ StepsOf(q)'
    BY <1>7, <1>8
  <1> QED
    BY <1>5, <1>6, <1>9, <1>10, Together

\* A request is aborted and its memory freed.
LEMMA AbortKeeps ==
    ASSUME IInv, NEW r \in Req, Abort(r), UNCHANGED <<async_decode, frame_window>>
    PROVE  IInv'
  <1>1. r \notin Staged /\ pc \notin {"decode", "run_decode"}
        /\ (r \notin cand \/ ~frames[r].due)
    BY DEF IInv, Control, PlaceOf, DueOf, Abort, Quiet
  <1>2. Release(r) /\ UNCHANGED steps /\ doomed' = doomed \ {r} /\ controls' = controls
        /\ UNCHANGED <<async_decode, frame_window, pc, frames, events, sent, staged, cand>>
    BY DEF Abort, inputs
  <1> QED
    BY <1>1, <1>2, ReleaseKeeps

\* An abort from the control plane.
LEMMA ControlAbortKeeps ==
    ASSUME IInv, NEW r \in Req, ControlAbort(r), UNCHANGED <<async_decode, frame_window>>
    PROVE  IInv'
  <1>1. /\ r \notin Staged /\ pc = "recv" /\ cand = {} /\ prepared = NoStep
        /\ resolving = NoStep /\ doomed = {} /\ controls' = controls \ {r}
    BY DEF IInv, Control, PlaceOf, ControlAbort
  <1>2. /\ UNCHANGED steps /\ UNCHANGED doomed
        /\ UNCHANGED <<async_decode, frame_window, pc, frames, events, sent, staged, cand>>
    BY DEF ControlAbort, inputs
  <1>3. CASE st[r].place # "running"
    <2>1. Release(r)
      BY <1>3 DEF ControlAbort
    <2> QED
      BY <1>1, <1>2, <2>1, ReleaseKeeps
  <1>4. CASE st[r].place = "running"
    <2> DEFINE mark == [st[r] EXCEPT !.phase = "aborted", !.to_finish = TRUE, !.open = FALSE]
    <2>1. /\ UNCHANGED <<free, row, kv>>
          /\ st' = [st EXCEPT ![r] = mark]
      <3>1. st' = [st EXCEPT ![r].phase = "aborted", ![r].to_finish = TRUE, ![r].open = FALSE]
            /\ UNCHANGED memory
        BY <1>4 DEF ControlAbort
      <3> QED
        BY <3>1, Zenon DEF memory
    <2>2. st[r] \in Status
      BY Typed DEF IInv
    <2>3. /\ mark \in Status /\ mark.place = st[r].place /\ mark.phase = "aborted"
          /\ mark.to_finish /\ ~mark.open
      BY <2>2 DEF Status, Phase
    <2>4. /\ st'[r] = mark
          /\ \A q \in Req \ {r} : st'[q] = st[q]
      BY <2>1 DEF IInv, TypeOK
    <2> HIDE DEF mark
    <2>5. TypeOK'
      <3>1. st' \in [Req -> Status]
        BY <2>1, <2>3, Typed DEF IInv, TypeOK, Status
      <3>2. {doomed', controls', cand'} \subseteq SUBSET Req
        BY <1>1, <1>2 DEF IInv, TypeOK
      <3> QED
        BY <1>2, <2>1, <3>1, <3>2 DEF IInv, TypeOK, steps, Status
    <2>6. Control' /\ Flushed' /\ Capacity'
      <3>1. Control'
        BY <1>1, <1>2 DEF IInv, Control, steps
      <3>2. Flushed' /\ Capacity'
        BY <1>1, <1>2 DEF IInv, Flushed, Capacity, Staged, steps
      <3> QED
        BY <3>1, <3>2
    <2>7. ASSUME NEW q \in Req
          PROVE  /\ PlaceOf(q)' /\ DueOf(q)' /\ MemoryOf(q)' /\ StepsOf(q)'
                 /\ Used(q)' = Used(q)
      <3>1. StepsKeptOf(q) /\ InFlight(q)' = InFlight(q)
        BY <1>2, StepsUnchanged
      <3>2. DataOf(q)
        BY <1>2, <2>1, <2>3, <2>4 DEF DataOf
      <3>3. MemoryOf(q)' /\ StepsOf(q)' /\ Used(q)' = Used(q)
        BY <1>1, <1>2, <3>1, <3>2, SameOf, SameSteps, DataUsed DEF IInv, MemoryOf
      <3>4. CASE q = r
        <4>1. PlaceOf(q)'
          BY <1>1, <1>2, <1>4, <2>3, <2>4, <3>4 DEF IInv, PlaceOf, Staged, Resident
        <4>2. DueOf(q)'
          BY <1>1, <1>2, <1>4, <2>3, <2>4, <3>4 DEF IInv, DueOf, Resident
        <4> QED
          BY <3>3, <4>1, <4>2
      <3>5. CASE q # r
        <4>1. st'[q] = st[q]
          BY <2>4, <3>5
        <4>2. PlaceOf(q)' /\ DueOf(q)'
          BY <1>1, <1>2, <3>1, <3>2, <4>1 DEF IInv, PlaceOf, DueOf, Staged, DataOf
        <4> QED
          BY <3>3, <4>2
      <3> QED
        BY <3>4, <3>5
    <2>8. Rows'
      BY <2>1, <2>7, RowsSame DEF IInv
    <2> QED
      BY <2>5, <2>6, <2>7, <2>8, Together
  <1> QED
    BY <1>3, <1>4
-----------------------------------------------------------------------------
(* The result of a step.                                                   *)

\* A request of the batch survives: it runs or parks, with one token more.
Survives(q, len, cells) ==
    /\ st'[q] \in Status /\ st'[q].place \in Resident
    /\ st'[q].phase \in {"waiting", "decoding"}
    /\ st'[q].open => st[q].open
    /\ st[q].phase # "aborted"
    /\ kv'[q] = [len[q] EXCEPT !.fill = @ + 1]
    /\ kv'[q] \in Lengths
    /\ kv'[q].enc = len[q].enc /\ kv'[q].dec = len[q].dec
    /\ kv'[q].appended = len[q].appended /\ kv'[q].alloc = len[q].alloc
    /\ kv'[q].fill = len[q].fill + 1
    /\ row'[q] = cells[q]

Leaves(q) == st'[q] = Gone /\ kv'[q] = NoLengths /\ row'[q] = StaleRow

\* What process_batch_result does to each request.
LEMMA Processed ==
    ASSUME TypeOK, NEW batch \in SUBSET Req, NEW len \in [Req -> Lengths],
           NEW cells \in [Req -> Cells], NEW freed \in SUBSET Slot, NEW out,
           ProcessResult(batch, len, cells, freed, out),
           \A q \in batch : st[q].phase = "aborted" => st[q].to_finish
    PROVE  /\ \A q \in Req \ batch :
                st'[q] = st[q] /\ kv'[q] = len[q] /\ row'[q] = cells[q]
           /\ \A q \in batch : Leaves(q) \/ Survives(q, len, cells)
           /\ free' = free \cup freed \cup
                UNION {Prefix(cells[q], len[q].alloc) : q \in {p \in batch : Leaves(p)}}
           /\ st' \in [Req -> Status] /\ kv' \in [Req -> Lengths]
           /\ row' \in [Req -> Cells]
  <1> DEFINE finished == {r \in batch : out[r] = "finish" \/ st[r].to_finish}
             parked == {r \in batch \ finished :
                          /\ out[r] = "silence" /\ st[r].open /\ ~st[r].final
                          /\ events[r] = NoEvents}
             stp(r) == [st[r] EXCEPT !.place = "parked", !.phase = "waiting"]
             str(r) == [st[r] EXCEPT !.place = "running",
                                     !.phase = IF @ = "aborted" THEN @ ELSE "decoding"]
  <1>1. /\ free' = free \cup freed
                    \cup UNION {Prefix(cells[r], len[r].alloc) : r \in finished}
        /\ row' = [r \in Req |-> IF r \in finished THEN StaleRow ELSE cells[r]]
        /\ kv' = [r \in Req |->
                   IF r \in finished THEN NoLengths
                   ELSE IF r \in batch THEN [len[r] EXCEPT !.fill = @ + 1]
                   ELSE len[r]]
        /\ st' = [r \in Req |->
                   IF r \in finished THEN Gone
                   ELSE IF r \in parked THEN stp(r)
                   ELSE IF r \in batch THEN str(r) ELSE st[r]]
    BY Zenon DEF ProcessResult
  <1>2. finished \subseteq batch /\ parked \subseteq batch \ finished
    OBVIOUS
  <1>3. \A q \in batch \ finished : st[q].phase # "aborted"
    BY Zenon
  <1> HIDE DEF finished, parked, stp, str
  <1>4. ASSUME NEW q \in Req \ batch
        PROVE  st'[q] = st[q] /\ kv'[q] = len[q] /\ row'[q] = cells[q]
    BY <1>1, <1>2
  <1>5. ASSUME NEW q \in finished PROVE Leaves(q)
    BY <1>1, <1>2, <1>5 DEF Leaves
  <1>6. ASSUME NEW q \in batch, q \notin finished PROVE Survives(q, len, cells)
    <2>1. st[q] \in Status /\ len[q] \in Lengths /\ st[q].phase # "aborted"
      BY <1>3, <1>6, Typed
    <2>2. /\ stp(q) \in Status /\ stp(q).place = "parked" /\ stp(q).phase = "waiting"
          /\ stp(q).open = st[q].open
      BY <2>1 DEF stp, Status, Place, Phase
    <2>3. /\ str(q) \in Status /\ str(q).place = "running" /\ str(q).phase = "decoding"
          /\ str(q).open = st[q].open
      BY <2>1 DEF str, Status, Place, Phase
    <2>4. st'[q] = stp(q) \/ st'[q] = str(q)
      BY <1>1, <1>6
    <2>5. /\ st'[q] \in Status /\ st'[q].place \in Resident
          /\ st'[q].phase \in {"waiting", "decoding"}
          /\ st'[q].open => st[q].open
      BY <2>2, <2>3, <2>4 DEF Resident
    <2>6. kv'[q] = [len[q] EXCEPT !.fill = @ + 1] /\ row'[q] = cells[q]
      BY <1>1, <1>6
    <2>7. /\ kv'[q] \in Lengths
          /\ kv'[q].enc = len[q].enc /\ kv'[q].dec = len[q].dec
          /\ kv'[q].appended = len[q].appended /\ kv'[q].alloc = len[q].alloc
          /\ kv'[q].fill = len[q].fill + 1
      BY <2>1, <2>6 DEF Lengths
    <2> QED
      BY <2>1, <2>5, <2>6, <2>7 DEF Survives
  <1>7. ASSUME NEW q \in batch, Leaves(q) PROVE q \in finished
    BY <1>6, <1>7, GoneFields DEF Leaves, Survives, Resident
  <1>8. finished = {p \in batch : Leaves(p)}
    BY <1>2, <1>5, <1>7
  <1>9. \A q \in Req : st'[q] \in Status /\ kv'[q] \in Lengths /\ row'[q] \in Cells
    <2> TAKE q \in Req
    <2>1. CASE q \notin batch
      <3>1. st[q] \in Status /\ len[q] \in Lengths /\ cells[q] \in Cells
        BY Typed
      <3> QED
        BY <1>4, <2>1, <3>1
    <2>2. CASE q \in finished
      <3>1. Gone \in Status /\ NoLengths \in Lengths /\ StaleRow \in Cells
        BY GoneFields
      <3> QED
        BY <1>5, <2>2, <3>1 DEF Leaves
    <2>3. CASE q \in batch /\ q \notin finished
      <3>1. Survives(q, len, cells) /\ cells[q] \in Cells
        BY <1>6, <2>3
      <3> QED
        BY <3>1 DEF Survives
    <2> QED
      BY <1>2, <2>1, <2>2, <2>3
  <1> QED
    BY <1>1, <1>4, <1>5, <1>6, <1>8, <1>9

\* Slots leave rows only for the free list.
LEMMA ProcessedRows ==
    ASSUME IInv, NEW batch \in SUBSET Req, NEW len \in [Req -> Lengths],
           NEW cells \in [Req -> Cells], NEW freed \in SUBSET Slot,
           \A q \in Req \ batch :
                st'[q] = st[q] /\ kv'[q] = len[q] /\ row'[q] = cells[q]
                /\ st[q].place # "extend",
           \A q \in batch : Leaves(q) \/ Survives(q, len, cells),
           free' = free \cup freed \cup
                UNION {Prefix(cells[q], len[q].alloc) : q \in {p \in batch : Leaves(p)}},
           \A q \in Req :
             /\ \A i \in 1 .. len[q].alloc : cells[q][i] \in Slot
             /\ \A i, j \in 1 .. len[q].alloc : cells[q][i] = cells[q][j] => i = j
             /\ Prefix(cells[q], len[q].alloc) \subseteq Owned(q),
           \A s \in Slot : s \in freed <=>
             \E q \in Req : s \in Owned(q) /\ s \notin Prefix(cells[q], len[q].alloc)
    PROVE  Rows'
  <1> DEFINE kept(q) == Prefix(cells[q], len[q].alloc)
  <1>1. ASSUME NEW q \in Req, ~(q \in batch /\ Leaves(q))
        PROVE  RowOf(q)' /\ Owned(q)' = kept(q)
    <2>1. /\ st'[q].place # "extend" /\ kv'[q].alloc = len[q].alloc /\ row'[q] = cells[q]
      <3>1. CASE q \in batch
        <4>1. Survives(q, len, cells)
          BY <1>1, <3>1
        <4> QED
          BY <4>1 DEF Survives, Resident
      <3>2. CASE q \notin batch
        BY <3>2
      <3> QED
        BY <3>1, <3>2
    <2>2. Used(q)' = len[q].alloc
      BY <2>1 DEF Used
    <2> QED
      BY <2>1, <2>2 DEF RowOf, Owned
  <1>2. ASSUME NEW q \in batch, Leaves(q)
        PROVE  RowOf(q)' /\ Owned(q)' = {}
    <2>1. Used(q)' = 0
      BY <1>2, GoneFields DEF Leaves, Used
    <2> QED
      BY <2>1 DEF RowOf, Owned, Prefix
  <1>3. \A q \in Req : RowOf(q)' /\ Owned(q)' \subseteq Owned(q)
    BY <1>1, <1>2
  <1>4. ASSUME NEW s \in Slot
        PROVE  s \in free' <=> \/ s \in free
                               \/ \E q \in Req : s \in Owned(q) /\ s \notin Owned(q)'
    <2>1. s \in free' <=> \/ s \in free \/ s \in freed
                          \/ \E q \in batch : Leaves(q) /\ s \in kept(q)
      OBVIOUS
    <2> HIDE DEF kept
    <2>2. s \in freed <=> \E q \in Req : s \in Owned(q) /\ s \notin kept(q)
      BY DEF kept
    <2>3. \A q \in Req : kept(q) \subseteq Owned(q)
      BY DEF kept
    <2> QED
      BY <1>1, <1>2, <2>1, <2>2, <2>3
  <1> QED
    BY <1>3, <1>4, RowsShrink DEF IInv

\* A decode step makes one decoder token more.
LEMMA AdvanceType ==
    ASSUME TypeOK, NEW S \in SUBSET Req
    PROVE  Advance(S) \in [Req -> Lengths]
  <1>1. ASSUME NEW r \in Req
        PROVE  [kv[r] EXCEPT !.dec = @ + 1] \in Lengths /\ kv[r] \in Lengths
    <2>1. kv[r] \in Lengths
      BY Typed
    <2> QED
      BY <2>1 DEF Lengths
  <1> QED
    BY <1>1 DEF Advance

\* The effect of Advance on one request.
LEMMA Advanced ==
    ASSUME TypeOK, NEW S \in SUBSET Req, NEW q \in Req
    PROVE  /\ Advance(S) \in [Req -> Lengths]
           /\ Advance(S)[q].enc = kv[q].enc /\ Advance(S)[q].appended = kv[q].appended
           /\ Advance(S)[q].alloc = kv[q].alloc /\ Advance(S)[q].fill = kv[q].fill
           /\ q \in S /\ st[q].phase # "aborted" => Advance(S)[q].dec = kv[q].dec + 1
           /\ q \notin S => Advance(S)[q] = kv[q]
  <1>1. ASSUME NEW r \in Req
        PROVE  /\ [kv[r] EXCEPT !.dec = @ + 1] \in Lengths
               /\ [kv[r] EXCEPT !.dec = @ + 1].enc = kv[r].enc
               /\ [kv[r] EXCEPT !.dec = @ + 1].appended = kv[r].appended
               /\ [kv[r] EXCEPT !.dec = @ + 1].alloc = kv[r].alloc
               /\ [kv[r] EXCEPT !.dec = @ + 1].fill = kv[r].fill
               /\ [kv[r] EXCEPT !.dec = @ + 1].dec = kv[r].dec + 1
               /\ kv[r] \in Lengths
    <2>1. kv[r] \in Lengths
      BY Typed
    <2> QED
      BY <2>1 DEF Lengths
  <1>2. Advance(S) \in [Req -> Lengths]
    BY <1>1 DEF Advance
  <1> QED
    BY <1>1, <1>2 DEF Advance

\* The launched step is resolved.
LEMMA ResolveKeeps ==
    ASSUME IInv, Resolve, UNCHANGED <<async_decode, frame_window>>
    PROVE  IInv'
  <1> DEFINE batch == DOMAIN resolving \cap At("running")
             overrun == DOMAIN resolving \cap At("parked")
             next == Advance(batch)
             len == [r \in Req |-> IF r \in overrun /\ kv[r].alloc > KvTotal(r)
                              THEN [kv[r] EXCEPT !.alloc = KvTotal(r)] ELSE next[r]]
             cells == [r \in Req |-> IF r \in overrun
                                THEN Clear(row[r], KvTotal(r), KvTotal(r) + 1)
                                ELSE row[r]]
             freed == {resolving[r] : r \in overrun}
  <1>1. PICK out : ProcessResult(batch, len, cells, freed, out)
    BY Zenon DEF Resolve
  <1>2. /\ resolving # NoStep /\ resolving' = NoStep
        /\ UNCHANGED <<pc, frames, events, sent, staged, prepared, pending, doomed,
                       controls, cand>>
    BY DEF Resolve, inputs, aborts
  <1>3. /\ prepared = NoStep /\ Staged = {} /\ pc \notin {"decode", "run_decode"}
        /\ Staged' = {}
    BY <1>2 DEF IInv, Control, Flushed, Quiet, Staged
  <1>4. batch \in SUBSET Req /\ overrun \in SUBSET Req /\ batch \cap overrun = {}
    BY StepsTyped DEF IInv, At
  \* The lengths and the steps of a request.
  <1>5. ASSUME NEW q \in Req
        PROVE  /\ In(q, prepared) = 0 /\ In(q, prepared)' = 0
               /\ In(q, pending)' = In(q, pending) /\ In(q, pending) \in {0, 1}
               /\ In(q, resolving)' = 0
               /\ In(q, resolving) = IF q \in DOMAIN resolving THEN 1 ELSE 0
               /\ InFlight(q) = In(q, pending) + In(q, resolving)
               /\ InFlight(q)' = In(q, pending)
    <2> USE NoStepFlying, EmptyStep
    <2>1. /\ In(q, prepared) = 0 /\ In(q, prepared)' = 0
          /\ In(q, pending)' = In(q, pending) /\ In(q, pending) \in {0, 1}
          /\ In(q, resolving)' = 0
          /\ In(q, resolving) = IF q \in DOMAIN resolving THEN 1 ELSE 0
      BY <1>2, <1>3 DEF In
    <2> QED
      BY <2>1 DEF InFlight
  <1>6. ASSUME NEW q \in overrun
        PROVE  /\ q \in Req /\ st[q].place = "parked" /\ InFlight(q) = 1
               /\ In(q, pending) = 0 /\ q \in DOMAIN resolving
               /\ kv[q].alloc = KvTotal(q) + 1
               /\ resolving[q] = row[q][kv[q].alloc]
    <2>1. q \in Req /\ st[q].place = "parked" /\ q \in DOMAIN resolving
      BY <1>4, <1>6 DEF At
    <2>2. In(q, resolving) = 1 /\ In(q, pending) = 0 /\ InFlight(q) = 1
      BY <1>5, <2>1 DEF IInv, LengthsOf, Resident
    <2>3. kv[q].alloc = KvTotal(q) + 1
      BY <2>1, <2>2, Typed DEF IInv, LengthsOf, Resident
    <2>4. resolving[q] = row[q][kv[q].alloc]
      BY <1>5, <2>1, <2>2, Typed DEF IInv, StepsOf, Resident
    <2> QED
      BY <2>1, <2>2, <2>3, <2>4
  <1>7. ASSUME NEW q \in Req
        PROVE  /\ len[q] \in Lengths /\ len[q].enc = kv[q].enc
               /\ len[q].appended = kv[q].appended /\ len[q].fill = kv[q].fill
               /\ q \in overrun => len[q].alloc = KvTotal(q) /\ len[q].dec = kv[q].dec
               /\ q \notin overrun => len[q].alloc = kv[q].alloc
               /\ q \in batch /\ st[q].phase # "aborted" => len[q].dec = kv[q].dec + 1
               /\ q \notin overrun \cup batch => len[q] = kv[q]
    <2>1. kv[q] \in Lengths /\ KvTotal(q) \in Nat
      BY Typed DEF IInv
    <2>2. /\ [kv[q] EXCEPT !.alloc = KvTotal(q)] \in Lengths
          /\ [kv[q] EXCEPT !.alloc = KvTotal(q)].enc = kv[q].enc
          /\ [kv[q] EXCEPT !.alloc = KvTotal(q)].dec = kv[q].dec
          /\ [kv[q] EXCEPT !.alloc = KvTotal(q)].appended = kv[q].appended
          /\ [kv[q] EXCEPT !.alloc = KvTotal(q)].fill = kv[q].fill
          /\ [kv[q] EXCEPT !.alloc = KvTotal(q)].alloc = KvTotal(q)
      BY <2>1 DEF Lengths
    <2>3. /\ next \in [Req -> Lengths]
          /\ next[q].enc = kv[q].enc /\ next[q].appended = kv[q].appended
          /\ next[q].alloc = kv[q].alloc /\ next[q].fill = kv[q].fill
          /\ q \in batch /\ st[q].phase # "aborted" => next[q].dec = kv[q].dec + 1
          /\ q \notin batch => next[q] = kv[q]
      BY <1>4, Advanced DEF IInv
    <2> HIDE DEF next
    <2>4. CASE q \in overrun
      <3>1. kv[q].alloc > KvTotal(q) /\ q \notin batch
        BY <1>4, <1>6, <2>1, <2>4
      <3>2. len[q] = [kv[q] EXCEPT !.alloc = KvTotal(q)]
        BY <2>4, <3>1
      <3> HIDE DEF len, batch, overrun
      <3> QED
        BY <2>2, <2>4, <3>1, <3>2
    <2>5. CASE q \notin overrun
      <3>1. len[q] = next[q]
        BY <2>5
      <3> HIDE DEF len, batch, overrun
      <3> QED
        BY <2>3, <2>5, <3>1
    <2> QED
      BY <2>4, <2>5
  <1>8. ASSUME NEW q \in Req
        PROVE  /\ cells[q] \in Cells
               /\ q \notin overrun => cells[q] = row[q]
               /\ q \in overrun => \A i \in Cell :
                    cells[q][i] = IF i = kv[q].alloc THEN 0 ELSE row[q][i]
    <2>1. row[q] \in Cells /\ KvTotal(q) \in Nat
      BY Typed DEF IInv
    <2>2. CASE q \in overrun
      <3>1. cells[q] = Clear(row[q], KvTotal(q), KvTotal(q) + 1)
        BY <2>2
      <3>2. kv[q].alloc = KvTotal(q) + 1
        BY <1>6, <2>2
      <3> HIDE DEF cells, overrun
      <3>3. \A i \in Cell : cells[q][i] = IF i = kv[q].alloc THEN 0 ELSE row[q][i]
        BY <2>1, <3>1, <3>2, Sizes DEF Clear, Cell
      <3>4. cells[q] \in Cells
        BY <2>1, <3>1, <3>2, Sizes DEF Clear, Cells, Cell
      <3> QED
        BY <2>2, <3>3, <3>4
    <2>3. CASE q \notin overrun
      BY <2>1, <2>3
    <2> QED
      BY <2>2, <2>3
  <1>9. freed \in SUBSET Slot
    BY StepsTyped DEF IInv
  <1>10. len \in [Req -> Lengths] /\ cells \in [Req -> Cells]
    BY <1>7, <1>8
  <1>11. \A q \in batch : st[q].phase = "aborted" => st[q].to_finish
    BY Zenon DEF IInv, PlaceOf, At
  <1> HIDE DEF len, cells, next
  <1>12. /\ \A q \in Req \ batch :
                st'[q] = st[q] /\ kv'[q] = len[q] /\ row'[q] = cells[q]
         /\ \A q \in batch : Leaves(q) \/ Survives(q, len, cells)
         /\ free' = free \cup freed \cup
                UNION {Prefix(cells[q], len[q].alloc) : q \in {p \in batch : Leaves(p)}}
         /\ st' \in [Req -> Status] /\ kv' \in [Req -> Lengths]
         /\ row' \in [Req -> Cells]
    BY <1>1, <1>4, <1>9, <1>10, <1>11, Processed DEF IInv
  <1>13. ASSUME NEW q \in Req
         PROVE  /\ st[q].place # "extend" /\ Used(q) = kv[q].alloc
                /\ \A i \in 1 .. len[q].alloc : cells[q][i] = row[q][i]
                /\ len[q].alloc \in Nat /\ len[q].alloc <= Used(q)
                /\ Used(q) \in Nat /\ kv[q].alloc <= Width
    <2>1. st[q].place # "extend" /\ kv[q].alloc \in Nat /\ kv[q].alloc <= Width
      BY <1>3, Typed DEF IInv, PlaceOf, ContextOf
    <2>2. Used(q) = kv[q].alloc
      BY <2>1 DEF Used
    <2>3. CASE q \in overrun
      <3>1. len[q].alloc = kv[q].alloc - 1 /\ len[q].alloc \in Nat
        BY <1>6, <1>7, <2>3, Typed DEF IInv
      <3>2. \A i \in 1 .. len[q].alloc : i \in Cell /\ i # kv[q].alloc
        BY <2>1, <3>1, Sizes DEF Cell
      <3>3. \A i \in 1 .. len[q].alloc : cells[q][i] = row[q][i]
        BY <1>8, <2>3, <3>2
      <3> QED
        BY <2>1, <2>2, <3>1, <3>3
    <2>4. CASE q \notin overrun
      BY <1>7, <1>8, <2>1, <2>2, <2>4
    <2> QED
      BY <2>3, <2>4
  <1>14. Rows'
    <2>1. ASSUME NEW q \in Req
          PROVE  /\ \A i \in 1 .. len[q].alloc : cells[q][i] \in Slot
                 /\ \A i, j \in 1 .. len[q].alloc : cells[q][i] = cells[q][j] => i = j
                 /\ Prefix(cells[q], len[q].alloc) \subseteq Owned(q)
      <3>1. \A i \in 1 .. len[q].alloc : i \in 1 .. Used(q)
        BY <1>13
      <3>2. RowOf(q)
        BY DEF IInv, Rows
      <3> QED
        BY <1>13, <3>1, <3>2 DEF RowOf, Owned, Prefix
    <2>2. ASSUME NEW q \in Req, NEW s
          PROVE  s \in Owned(q) /\ s \notin Prefix(cells[q], len[q].alloc)
                   <=> q \in overrun /\ s = resolving[q]
      <3>1. RowOf(q)
        BY DEF IInv, Rows
      <3>2. CASE q \notin overrun
        <4>1. Prefix(cells[q], len[q].alloc) = Owned(q)
          BY <1>7, <1>8, <1>13, <3>2 DEF Owned
        <4> QED
          BY <3>2, <4>1
      <3>3. CASE q \in overrun
        <4>1. /\ len[q].alloc = Used(q) - 1 /\ Used(q) >= 1
              /\ resolving[q] = row[q][Used(q)]
          BY <1>6, <1>7, <1>13, <3>3, Typed DEF IInv
        <4>2. Prefix(cells[q], len[q].alloc) = {row[q][i] : i \in 1 .. Used(q) - 1}
          BY <1>13, <4>1 DEF Prefix
        <4>3. s \in Owned(q) <=> \E i \in 1 .. Used(q) : s = row[q][i]
          BY OwnedDef
        <4>4. row[q][Used(q)] \notin {row[q][i] : i \in 1 .. Used(q) - 1}
          BY <1>13, <3>1, <4>1 DEF RowOf
        <4>5. \A i \in 1 .. Used(q) : i \in 1 .. Used(q) - 1 \/ i = Used(q)
          BY <1>13
        <4> QED
          BY <1>13, <3>3, <4>1, <4>2, <4>3, <4>4, <4>5
      <3> QED
        BY <3>2, <3>3
    <2>3. \A s \in Slot : s \in freed <=>
             \E q \in Req : s \in Owned(q) /\ s \notin Prefix(cells[q], len[q].alloc)
      BY <1>4, <2>2
    <2> HIDE DEF freed, batch, overrun
    <2>4. \A q \in Req \ batch :
                st'[q] = st[q] /\ kv'[q] = len[q] /\ row'[q] = cells[q]
                /\ st[q].place # "extend"
      BY <1>12, <1>13
    <2> QED
      BY <1>4, <1>9, <1>10, <1>12, <2>1, <2>3, <2>4, ProcessedRows
  <1>15. TypeOK'
    <2>1. free' \subseteq Slot
      <3>1. \A q \in batch : Prefix(cells[q], len[q].alloc) \subseteq Slot
        BY <1>4, <1>13 DEF IInv, Rows, RowOf, Prefix
      <3> HIDE DEF freed, batch
      <3> QED
        BY <1>9, <1>12, <3>1 DEF IInv, TypeOK
    <2> QED
      BY <1>2, <1>12, <2>1, NoStepType DEF IInv, TypeOK, Status, Lengths, Cells
  <1>16. ASSUME NEW q \in Req
         PROVE  PlaceOf(q)' /\ DueOf(q)' /\ MemoryOf(q)' /\ StepsOf(q)'
    <2>0. staged'[q] = staged[q] /\ staged[q].len = 0 /\ staged[q].enc = 0
          /\ staged[q].frames = 0 /\ q \notin Staged'
      BY <1>2, <1>3, SegmentFields DEF IInv
    <2>1. CASE q \in batch
      <3>1. /\ st[q].place = "running" /\ In(q, resolving) = 1 /\ q \in DOMAIN resolving
        BY <1>5, <2>1 DEF At
      <3>2. ~(frames[q].due /\ q \in cand) /\ (st[q].phase # "aborted" => ~frames[q].due)
        BY <1>5, <3>1 DEF IInv, DueOf, Resident
      <3>3. CASE Leaves(q)
        <4>1. frames'[q].due => frames'[q].raw > 0
          BY <1>2 DEF IInv, DueOf
        <4>2. q \notin cand' \/ ~frames'[q].due
          BY <1>2, <3>2
        <4> QED
          BY <2>0, <3>3, <4>1, <4>2, GoneOf DEF Leaves
      <3>4. CASE ~Leaves(q)
        <4>1. Survives(q, len, cells)
          BY <1>12, <2>1, <3>4
        <4>2. /\ st[q].phase # "aborted" /\ st'[q].phase \in {"waiting", "decoding"}
              /\ st'[q].place \in Resident /\ ~frames'[q].due /\ row'[q] = row[q]
              /\ kv'[q].enc = kv[q].enc /\ kv'[q].dec = kv[q].dec + 1
              /\ kv'[q].appended = kv[q].appended /\ kv'[q].alloc = kv[q].alloc
              /\ kv'[q].fill = kv[q].fill + 1
          BY <1>2, <1>4, <1>7, <1>8, <2>1, <3>2, <4>1 DEF Survives
        <4> HIDE DEF batch, overrun
        <4>3. PlaceOf(q)' /\ DueOf(q)'
          BY <2>0, <4>2 DEF PlaceOf, DueOf, Resident
        <4>4. /\ kv[q].enc \in Nat /\ kv[q].dec \in Nat /\ kv[q].appended \in Nat
              /\ kv[q].alloc \in Nat /\ kv[q].fill \in Nat
          BY Typed DEF IInv
        <4>5. /\ KvTotal(q)' = KvTotal(q) + 1 /\ TokenTotal(q)' = TokenTotal(q) + 1
              /\ KvTotal(q) \in Nat /\ TokenTotal(q) \in Nat
          BY <4>2, <4>4 DEF KvTotal, TokenTotal
        <4>6. InFlight(q)' = InFlight(q) - 1 /\ InFlight(q) \in 1 .. 2
          BY <1>5, <3>1
        <4>7. LengthsOf(q)'
          <5>1. LengthsOf(q)
            BY DEF IInv
          <5>2. st'[q].place \in Resident /\ st[q].place \in Resident
            BY <3>1, <4>2 DEF Resident
          <5> QED
            BY <1>2, <2>0, <4>2, <4>4, <4>5, <4>6, <5>1, <5>2 DEF LengthsOf, Resident
        <4>8. FramesOf(q)'
          BY <1>2, <2>0, <3>1, <4>2, <4>4 DEF IInv, FramesOf, Resident
        <4>9. ContextOf(q)'
          BY <1>2, <2>0, <3>1, <4>2, <4>4, <4>6, Sizes DEF IInv, ContextOf, Resident
        <4>10. TailOf(q)'
          BY <3>1, <4>2 DEF IInv, TailOf, Resident
        <4>11. StepsOf(q)'
          BY <1>2, <1>3, <1>5, <3>1, <4>2, EmptyStep DEF IInv, StepsOf, Resident
        <4> QED
          BY <4>3, <4>7, <4>8, <4>9, <4>10, <4>11 DEF MemoryOf
      <3> QED
        BY <3>3, <3>4
    <2>2. CASE q \in overrun
      <3>1. /\ st[q].place = "parked" /\ InFlight(q) = 1 /\ InFlight(q)' = 0
            /\ In(q, pending) = 0 /\ kv[q].alloc = KvTotal(q) + 1
        BY <1>5, <1>6, <2>2
      <3>2. q \notin batch
        BY <1>4, <2>2
      <3>3. st'[q] = st[q] /\ kv'[q] = len[q] /\ row'[q] = cells[q]
        BY <1>12, <3>2
      <3>4. /\ kv'[q].enc = kv[q].enc /\ kv'[q].dec = kv[q].dec
            /\ kv'[q].appended = kv[q].appended /\ kv'[q].alloc = KvTotal(q)
            /\ kv'[q].fill = kv[q].fill
        BY <1>7, <2>2, <3>3
      <3> HIDE DEF batch, overrun
      <3>5. st[q].phase # "aborted" /\ ~frames[q].due
        BY <3>1 DEF IInv, PlaceOf, DueOf, Resident
      <3>6. PlaceOf(q)' /\ DueOf(q)'
        BY <1>2, <2>0, <3>1, <3>3, <3>5 DEF IInv, PlaceOf, DueOf, Resident
      <3>7. KvTotal(q)' = KvTotal(q) /\ TokenTotal(q)' = TokenTotal(q)
        BY <3>4 DEF KvTotal, TokenTotal
      <3>8. KvTotal(q) \in Nat /\ kv[q].fill \in Nat /\ kv[q].alloc \in Nat
        BY Typed DEF IInv
      <3>9. LengthsOf(q)'
        BY <1>2, <2>0, <3>1, <3>3, <3>4, <3>7, <3>8 DEF IInv, LengthsOf, Resident
      <3>10. FramesOf(q)' /\ StepsOf(q)'
        <4>1. FramesOf(q)'
          BY <1>2, <3>3, <3>4 DEF IInv, FramesOf
        <4>2. StepsOf(q)'
          BY <1>5, <3>1, EmptyStep, InType DEF StepsOf
        <4> QED
          BY <4>1, <4>2
      <3>11. ContextOf(q)'
        BY <2>0, <3>1, <3>3, <3>4, <3>8, Sizes DEF IInv, ContextOf, Resident
      <3>12. TailOf(q)'
        <4>1. ASSUME kv'[q].appended > kv'[q].enc, NEW i \in KvTotal(q) + 1 .. Width
              PROVE  cells[q][i] = 0
          <5>1. i \in Cell /\ (i = kv[q].alloc \/ i \in kv[q].alloc + 1 .. Width)
            BY <3>1, <3>8, <4>1, Sizes DEF Cell
          <5>2. \A k \in kv[q].alloc + 1 .. Width : row[q][k] = 0
            BY <3>1, <3>4, <4>1 DEF IInv, TailOf, Resident
          <5> QED
            BY <1>8, <2>2, <5>1, <5>2
        <4> QED
          BY <3>1, <3>3, <3>4, <4>1 DEF TailOf, Resident
      <3> QED
        BY <3>6, <3>9, <3>10, <3>11, <3>12 DEF MemoryOf
    <2>3. CASE q \notin batch \cup overrun
      <3>1. st'[q] = st[q] /\ kv'[q] = kv[q] /\ row'[q] = row[q]
        BY <1>7, <1>8, <1>12, <2>3
      <3>2. DataOf(q)
        BY <1>2, <3>1 DEF DataOf
      <3>3. st[q].place = "gone" \/ q \notin DOMAIN resolving
        <4>1. q \in DOMAIN resolving => InFlight(q) # 0
          BY <1>5
        <4> QED
          BY <2>3, <4>1 DEF IInv, PlaceOf, Resident, At
      <3> HIDE DEF batch, overrun
      <3>4. st[q].place # "gone" => InFlight(q)' = InFlight(q) /\ StepsKeptOf(q)
        BY <1>2, <1>3, <1>5, <3>3, EmptyStep DEF StepsKeptOf
      <3>5. MemoryOf(q)'
        BY <1>2, <3>2, <3>4, SameOf DEF IInv, MemoryOf
      <3>6. StepsOf(q)'
        <4>1. CASE st[q].place = "gone"
          BY <3>1, <4>1 DEF StepsOf, Resident
        <4>2. CASE st[q].place # "gone"
          BY <3>2, <3>4, <4>2, SameSteps DEF IInv
        <4> QED
          BY <4>1, <4>2
      <3>7. PlaceOf(q)'
        BY <1>2, <1>3, <3>1, <3>4 DEF IInv, PlaceOf
      <3>8. DueOf(q)'
        BY <1>2, <3>1, <3>4 DEF IInv, DueOf, Resident
      <3> QED
        BY <3>5, <3>6, <3>7, <3>8
    <2> QED
      BY <2>1, <2>2, <2>3
  <1>17. Control' /\ Flushed' /\ Capacity'
    <2>1. Control'
      BY <1>2, <1>3 DEF IInv, Control
    <2>2. HasPendingEvents' => HasPendingEvents
      <3> SUFFICES ASSUME NEW q \in Req, st'[q].place \in Resident, st'[q].open,
                          events[q] # NoEvents
                   PROVE  st[q].place \in Resident /\ st[q].open
        BY <1>2 DEF HasPendingEvents, At, Resident
      <3>1. CASE q \in batch
        <4>1. Survives(q, len, cells)
          BY <1>12, <3>1, GoneFields DEF Leaves
        <4> QED
          BY <3>1, <4>1 DEF Survives, At, Resident
      <3>2. CASE q \notin batch
        BY <1>12, <3>2
      <3> QED
        BY <3>1, <3>2
    <2>3. Flushed'
      BY <1>2, <1>3, <2>2 DEF IInv, Flushed
    <2>4. ASSUME NEW q \in Req, st'[q].place = "running", q \notin doomed
          PROVE  st[q].place = "running" /\ (CapacityError(q)' => CapacityError(q))
      <3>1. CASE q \in batch
        <4>1. Survives(q, len, cells) /\ st[q].place = "running" /\ In(q, resolving) = 1
          BY <1>5, <1>12, <2>4, <3>1, GoneFields DEF Leaves, At
        <4>2. /\ kv'[q].enc = kv[q].enc /\ kv'[q].dec = kv[q].dec + 1
              /\ kv'[q].appended = kv[q].appended /\ kv'[q].alloc = kv[q].alloc
          BY <1>4, <1>7, <3>1, <4>1 DEF Survives
        <4>3. kv[q].alloc >= KvTotal(q) + 1
          BY <1>5, <4>1, Typed DEF IInv, LengthsOf, Resident
        <4>4. kv[q].enc \in Nat /\ kv[q].dec \in Nat /\ kv[q].alloc \in Nat
          BY Typed DEF IInv
        <4> HIDE DEF batch, overrun
        <4> QED
          BY <4>1, <4>2, <4>3, <4>4 DEF CapacityError, KvTotal
      <3>2. CASE q \notin batch
        <4>1. q \notin overrun
          BY <1>12, <2>4, <3>2 DEF At
        <4>2. st'[q] = st[q] /\ kv'[q] = kv[q]
          BY <1>7, <1>12, <3>2, <4>1
        <4> QED
          BY <2>4, <4>2 DEF CapacityError, KvTotal
      <3> QED
        BY <3>1, <3>2
    <2>5. Capacity'
      <3>1. \A q \in (At("running") \ doomed)' :
              /\ q \in At("running") \ doomed
              /\ CapacityError(q)' => CapacityError(q)
        BY <1>2, <2>4 DEF At
      <3> QED
        BY <1>2, <1>3, <3>1 DEF IInv, Capacity
    <2> QED
      BY <2>1, <2>3, <2>5
  <1> QED
    BY <1>14, <1>15, <1>16, <1>17, Together

\* A result that gives back no more than what finished requests hold.
LEMMA ResultRows ==
    ASSUME IInv, NEW batch \in SUBSET Req, NEW len \in [Req -> Lengths],
           NEW cells \in [Req -> Cells],
           \A q \in Req \ batch :
                st'[q] = st[q] /\ kv'[q] = len[q] /\ row'[q] = cells[q]
                /\ st[q].place # "extend",
           \A q \in batch : Leaves(q) \/ Survives(q, len, cells),
           free' = free \cup {} \cup
                UNION {Prefix(cells[q], len[q].alloc) : q \in {p \in batch : Leaves(p)}},
           \A q \in Req :
             /\ len[q].alloc = Used(q)
             /\ \A i \in 1 .. Used(q) : cells[q][i] = row[q][i]
    PROVE  Rows' /\ free' \subseteq Slot
  <1>1. ASSUME NEW q \in Req
        PROVE  /\ \A i \in 1 .. len[q].alloc : cells[q][i] \in Slot
               /\ \A i, j \in 1 .. len[q].alloc : cells[q][i] = cells[q][j] => i = j
               /\ Prefix(cells[q], len[q].alloc) = Owned(q)
               /\ Owned(q) \subseteq Slot
    <2>1. RowOf(q)
      BY DEF IInv, Rows
    <2> QED
      BY <2>1 DEF RowOf, Owned, Prefix
  <1>2. Rows'
    <2>1. \A s \in Slot : s \in {} <=>
             \E q \in Req : s \in Owned(q) /\ s \notin Prefix(cells[q], len[q].alloc)
      BY <1>1
    <2>2. {} \in SUBSET Slot
      OBVIOUS
    <2> QED
      BY <1>1, <2>1, <2>2, ProcessedRows, ZenonT(60)
  <1>3. free' \subseteq Slot
    BY <1>1 DEF IInv, TypeOK
  <1> QED
    BY <1>2, <1>3

\* A decode batch runs.
LEMMA RunDecodeKeeps ==
    ASSUME IInv, RunDecode, UNCHANGED <<async_decode, frame_window>>
    PROVE  IInv'
  <1> DEFINE batch == DOMAIN prepared
             len == Advance(batch)
  <1>1. PICK out : ProcessResult(batch, len, row, {}, out)
    BY Zenon DEF RunDecode
  <1>2. /\ pc = "run_decode" /\ Quiet /\ ~async_decode /\ prepared' = NoStep
        /\ pc' = "recv"
        /\ UNCHANGED <<frames, events, sent, staged, pending, resolving, doomed,
                       controls, cand>>
    BY DEF RunDecode, inputs, aborts
  <1>3. /\ batch = At("running") /\ batch \in SUBSET Req
        /\ pending = NoStep /\ resolving = NoStep /\ doomed = {} /\ controls = {}
        /\ cand = {} /\ Staged = {} /\ Staged' = {}
    BY <1>2 DEF IInv, Control, Quiet, PlaceOf, Staged, At
  <1>4. ASSUME NEW q \in Req
        PROVE  /\ InFlight(q) = In(q, prepared) /\ InFlight(q)' = 0
               /\ In(q, prepared) = IF st[q].place = "running" THEN 1 ELSE 0
               /\ In(q, prepared)' = 0 /\ In(q, pending)' = 0 /\ In(q, resolving)' = 0
               /\ In(q, pending) = 0 /\ In(q, resolving) = 0
    <2>1. In(q, prepared) = IF st[q].place = "running" THEN 1 ELSE 0
      BY <1>3 DEF In, At
    <2>2. /\ In(q, pending) = 0 /\ In(q, resolving) = 0
          /\ In(q, prepared)' = 0 /\ In(q, pending)' = 0 /\ In(q, resolving)' = 0
      BY <1>2, <1>3, EmptyStep DEF In
    <2> QED
      BY <2>1, <2>2 DEF InFlight
  <1>5. ASSUME NEW q \in Req
        PROVE  /\ len[q].enc = kv[q].enc
               /\ len[q].appended = kv[q].appended /\ len[q].fill = kv[q].fill
               /\ len[q].alloc = kv[q].alloc
               /\ q \in batch /\ st[q].phase # "aborted" => len[q].dec = kv[q].dec + 1
               /\ q \notin batch => len[q] = kv[q]
               /\ len \in [Req -> Lengths] /\ row \in [Req -> Cells]
    <2>1. row \in [Req -> Cells]
      BY DEF IInv, TypeOK, Cells
    <2> QED
      BY <1>3, <2>1, Advanced DEF IInv
  <1>6. \A q \in batch : st[q].phase = "aborted" => st[q].to_finish
    <2>1. \A q \in batch : q \in Req /\ st[q].place = "running"
      BY <1>3 DEF At
    <2> QED
      BY <2>1, Zenon DEF IInv, PlaceOf
  <1>7. len \in [Req -> Lengths] /\ row \in [Req -> Cells]
    BY <1>3, AdvanceType DEF IInv, TypeOK, Cells
  <1> HIDE DEF len, batch
  <1>8. /\ \A q \in Req \ batch :
                st'[q] = st[q] /\ kv'[q] = len[q] /\ row'[q] = row[q]
        /\ \A q \in batch : Leaves(q) \/ Survives(q, len, row)
        /\ free' = free \cup {} \cup
                UNION {Prefix(row[q], len[q].alloc) : q \in {p \in batch : Leaves(p)}}
        /\ st' \in [Req -> Status] /\ kv' \in [Req -> Lengths]
        /\ row' \in [Req -> Cells]
    <2>1. {} \in SUBSET Slot
      OBVIOUS
    <2> QED
      BY <1>1, <1>3, <1>6, <1>7, <2>1, Processed DEF IInv
  <1>9. \A q \in Req : st[q].place # "extend" /\ Used(q) = kv[q].alloc
    BY <1>3 DEF IInv, PlaceOf, Used
  <1>10. Rows' /\ free' \subseteq Slot
    <2>1. \A q \in Req : /\ len[q].alloc = Used(q)
                        /\ \A i \in 1 .. Used(q) : row[q][i] = row[q][i]
      BY <1>5, <1>9
    <2>2. \A q \in Req \ batch :
                st'[q] = st[q] /\ kv'[q] = len[q] /\ row'[q] = row[q]
                /\ st[q].place # "extend"
      BY <1>8, <1>9
    <2> QED
      BY <1>3, <1>7, <1>8, <2>1, <2>2, ResultRows
  <1>11. TypeOK'
    BY <1>2, <1>8, <1>10, NoStepType DEF IInv, TypeOK, Status, Lengths, Cells, PC
  <1>12. Control' /\ Flushed' /\ Capacity'
    <2>1. Control'
      BY <1>2, <1>3 DEF Control
    <2>2. Flushed' /\ Capacity'
      BY <1>2, <1>3 DEF Flushed, Capacity
    <2> QED
      BY <2>1, <2>2
  <1>13. ASSUME NEW q \in Req
         PROVE  PlaceOf(q)' /\ DueOf(q)' /\ MemoryOf(q)' /\ StepsOf(q)'
    <2>0. staged'[q] = staged[q] /\ staged[q].len = 0 /\ staged[q].enc = 0
          /\ staged[q].frames = 0 /\ q \notin Staged'
      BY <1>2, <1>3, SegmentFields DEF IInv
    <2>1. CASE q \in batch /\ Leaves(q)
      <3>1. frames'[q].due => frames'[q].raw > 0
        BY <1>2 DEF IInv, DueOf
      <3> QED
        BY <1>2, <1>3, <2>0, <2>1, <3>1, GoneOf DEF Leaves
    <2>2. CASE q \in batch /\ Survives(q, len, row)
      <3>1. st[q].place = "running" /\ InFlight(q) = 1 /\ InFlight(q)' = 0
        BY <1>3, <1>4, <2>2 DEF At
      <3>2. /\ st[q].phase # "aborted" /\ st'[q].phase \in {"waiting", "decoding"}
            /\ st'[q].place \in Resident /\ row'[q] = row[q]
            /\ kv'[q].enc = kv[q].enc /\ kv'[q].dec = kv[q].dec + 1
            /\ kv'[q].appended = kv[q].appended /\ kv'[q].alloc = kv[q].alloc
            /\ kv'[q].fill = kv[q].fill + 1
        BY <1>5, <2>2 DEF Survives
      <3>3. ~frames[q].due
        BY <1>2, <3>1, <3>2 DEF IInv, DueOf, Resident
      <3>4. PlaceOf(q)' /\ DueOf(q)'
        BY <1>2, <1>4, <2>0, <3>2, <3>3 DEF PlaceOf, DueOf, Resident
      <3>5. /\ kv[q].enc \in Nat /\ kv[q].dec \in Nat /\ kv[q].appended \in Nat
            /\ kv[q].alloc \in Nat /\ kv[q].fill \in Nat
        BY Typed DEF IInv
      <3>6. /\ KvTotal(q)' = KvTotal(q) + 1 /\ TokenTotal(q)' = TokenTotal(q) + 1
            /\ KvTotal(q) \in Nat /\ TokenTotal(q) \in Nat
        BY <3>2, <3>5 DEF KvTotal, TokenTotal
      <3>7. LengthsOf(q)'
        <4>1. st'[q].place \in Resident /\ st[q].place \in Resident
          BY <3>1, <3>2 DEF Resident
        <4> QED
          BY <1>2, <1>3, <2>0, <3>1, <3>2, <3>5, <3>6, <4>1 DEF IInv, LengthsOf, Resident
      <3>8. FramesOf(q)'
        BY <1>2, <2>0, <3>1, <3>2, <3>5 DEF IInv, FramesOf, Resident
      <3>9. ContextOf(q)'
        BY <1>2, <2>0, <3>1, <3>2, <3>5, Sizes DEF IInv, ContextOf, Resident
      <3>10. TailOf(q)'
        BY <3>1, <3>2 DEF IInv, TailOf, Resident
      <3>11. StepsOf(q)'
        BY <1>4, InType DEF StepsOf
      <3> QED
        BY <3>4, <3>7, <3>8, <3>9, <3>10, <3>11 DEF MemoryOf
    <2>3. CASE q \notin batch
      <3>1. st'[q] = st[q] /\ kv'[q] = kv[q] /\ row'[q] = row[q]
        BY <1>5, <1>8, <2>3
      <3>2. DataOf(q)
        BY <1>2, <3>1 DEF DataOf
      <3>3. InFlight(q)' = InFlight(q) /\ InFlight(q)' = 0
        BY <1>3, <1>4, <2>3 DEF At
      <3>4. MemoryOf(q)'
        BY <1>2, <1>3, <3>2, <3>3, SameOf DEF IInv, MemoryOf
      <3>5. StepsOf(q)'
        BY <1>4, InType DEF StepsOf
      <3>6. PlaceOf(q)'
        BY <1>2, <1>3, <3>1, <3>3 DEF IInv, PlaceOf
      <3>7. DueOf(q)'
        BY <1>2, <1>3, <3>1, <3>3 DEF IInv, DueOf, Resident
      <3> QED
        BY <3>4, <3>5, <3>6, <3>7
    <2> QED
      BY <1>8, <2>1, <2>2, <2>3
  <1> QED
    BY <1>10, <1>11, <1>12, <1>13, Together

\* A prefill runs.
LEMMA RunPrefillKeeps ==
    ASSUME IInv, RunPrefill, UNCHANGED <<async_decode, frame_window>>
    PROVE  IInv'
  <1> DEFINE batch == At("prefill")
             len == [r \in Req |-> IF r \in batch THEN [kv[r] EXCEPT !.dec = PromptLen]
                                   ELSE kv[r]]
  <1>1. PICK out : ProcessResult(batch, len, row, {}, out)
    BY Zenon DEF RunPrefill
  <1>2. /\ pc = "run_prefill" /\ Quiet /\ pc' = "recv" /\ UNCHANGED steps
        /\ UNCHANGED <<frames, events, sent, staged, doomed, controls, cand>>
    BY DEF RunPrefill, inputs, aborts
  <1>3. /\ batch \in SUBSET Req /\ prepared = NoStep
        /\ doomed = {} /\ controls = {} /\ resolving = NoStep
        /\ cand = {} /\ Staged = {} /\ Staged' = {}
    BY <1>2 DEF IInv, Control, Quiet, PlaceOf, Staged, At
  <1>4. ASSUME NEW q \in Req
        PROVE  /\ len[q] \in Lengths /\ len[q].enc = kv[q].enc
               /\ len[q].appended = kv[q].appended /\ len[q].fill = kv[q].fill
               /\ len[q].alloc = kv[q].alloc
               /\ q \in batch => len[q].dec = PromptLen
               /\ q \notin batch => len[q] = kv[q]
    <2>1. kv[q] \in Lengths /\ PromptLen \in Nat
      BY Typed, Sizes DEF IInv
    <2>2. /\ [kv[q] EXCEPT !.dec = PromptLen] \in Lengths
          /\ [kv[q] EXCEPT !.dec = PromptLen].enc = kv[q].enc
          /\ [kv[q] EXCEPT !.dec = PromptLen].appended = kv[q].appended
          /\ [kv[q] EXCEPT !.dec = PromptLen].alloc = kv[q].alloc
          /\ [kv[q] EXCEPT !.dec = PromptLen].fill = kv[q].fill
          /\ [kv[q] EXCEPT !.dec = PromptLen].dec = PromptLen
      BY <2>1 DEF Lengths
    <2>3. len[q] = IF q \in batch THEN [kv[q] EXCEPT !.dec = PromptLen] ELSE kv[q]
      OBVIOUS
    <2> HIDE DEF len, batch
    <2> QED
      BY <2>1, <2>2, <2>3
  <1>5. \A q \in batch : st[q].phase = "aborted" => st[q].to_finish
    <2>1. \A q \in batch : q \in Req /\ st[q].place = "prefill"
      BY DEF At
    <2> QED
      BY <2>1 DEF IInv, PlaceOf
  <1>6. len \in [Req -> Lengths] /\ row \in [Req -> Cells]
    BY <1>4 DEF IInv, TypeOK, Cells
  <1> HIDE DEF len
  <1>7. /\ \A q \in Req \ batch :
                st'[q] = st[q] /\ kv'[q] = len[q] /\ row'[q] = row[q]
        /\ \A q \in batch : Leaves(q) \/ Survives(q, len, row)
        /\ free' = free \cup {} \cup
                UNION {Prefix(row[q], len[q].alloc) : q \in {p \in batch : Leaves(p)}}
        /\ st' \in [Req -> Status] /\ kv' \in [Req -> Lengths]
        /\ row' \in [Req -> Cells]
    <2>1. {} \in SUBSET Slot
      OBVIOUS
    <2> HIDE DEF batch
    <2> QED
      BY <1>1, <1>3, <1>5, <1>6, <2>1, Processed DEF IInv
  <1>8. \A q \in Req : st[q].place # "extend" /\ Used(q) = kv[q].alloc
    BY <1>3 DEF IInv, PlaceOf, Used
  <1> HIDE DEF batch
  <1>9. Rows' /\ free' \subseteq Slot
    <2>1. \A q \in Req : /\ len[q].alloc = Used(q)
                        /\ \A i \in 1 .. Used(q) : row[q][i] = row[q][i]
      BY <1>4, <1>8
    <2>2. \A q \in Req \ batch :
                st'[q] = st[q] /\ kv'[q] = len[q] /\ row'[q] = row[q]
                /\ st[q].place # "extend"
      BY <1>7, <1>8
    <2> QED
      BY <1>3, <1>6, <1>7, <2>1, <2>2, ResultRows
  <1>10. TypeOK'
    BY <1>2, <1>7, <1>9, NoStepType DEF IInv, TypeOK, Status, Lengths, Cells, PC, steps
  <1>11. Control' /\ Flushed' /\ Capacity'
    <2>1. Control'
      BY <1>2, <1>3 DEF IInv, Control, steps
    <2>2. Flushed' /\ Capacity'
      BY <1>2, <1>3 DEF Flushed, Capacity
    <2> QED
      BY <2>1, <2>2
  <1>12. ASSUME NEW q \in Req
         PROVE  PlaceOf(q)' /\ DueOf(q)' /\ MemoryOf(q)' /\ StepsOf(q)'
    <2>0. staged'[q] = staged[q] /\ staged[q].len = 0 /\ staged[q].enc = 0
          /\ staged[q].frames = 0 /\ q \notin Staged'
      BY <1>2, <1>3, SegmentFields DEF IInv
    <2>1. StepsKeptOf(q) /\ InFlight(q)' = InFlight(q)
      BY <1>2, StepsUnchanged
    <2>2. CASE q \in batch /\ Leaves(q)
      <3>1. frames'[q].due => frames'[q].raw > 0
        BY <1>2 DEF IInv, DueOf
      <3> QED
        BY <1>2, <1>3, <2>0, <2>2, <3>1, GoneOf DEF Leaves
    <2>3. CASE q \in batch /\ Survives(q, len, row)
      <3>1. st[q].place = "prefill"
        BY <2>3 DEF batch, At
      <3>2. InFlight(q) = 0 /\ InFlight(q)' = 0
        BY <2>1, <3>1 DEF IInv, PlaceOf, Resident
      <3>3. /\ kv[q].enc = 0 /\ kv[q].appended = 0 /\ kv[q].fill = PromptLen
            /\ kv[q].alloc = PromptLen
            /\ frames[q].raw = 0 /\ frames[q].pooled = 0
        BY <1>3, <3>1 DEF IInv, LengthsOf, FramesOf
      <3>4. /\ st'[q].phase \in {"waiting", "decoding"}
            /\ st'[q].place \in Resident
            /\ kv'[q].enc = 0 /\ kv'[q].dec = PromptLen
            /\ kv'[q].appended = 0 /\ kv'[q].alloc = PromptLen
            /\ kv'[q].fill = PromptLen + 1
        BY <1>4, <2>3, <3>3 DEF Survives
      <3>5. ~frames[q].due
        BY <3>3 DEF IInv, DueOf
      <3>6. PlaceOf(q)' /\ DueOf(q)'
        BY <1>2, <2>0, <3>2, <3>4, <3>5 DEF PlaceOf, DueOf, Resident
      <3>7. KvTotal(q)' = PromptLen /\ TokenTotal(q)' = PromptLen
        BY <3>4, Sizes DEF KvTotal, TokenTotal
      <3>8. LengthsOf(q)'
        BY <1>2, <2>0, <3>2, <3>4, <3>7, Sizes DEF LengthsOf, Resident
      <3>9. FramesOf(q)'
        BY <1>2, <2>0, <3>3, <3>4, Sizes DEF FramesOf, Resident
      <3>10. ContextOf(q)'
        BY <2>0, <3>2, <3>4, Sizes DEF ContextOf, Resident
      <3>11. TailOf(q)'
        BY <3>4 DEF TailOf, Resident
      <3>12. StepsOf(q)'
        <4>1. In(q, prepared)' = 0 /\ In(q, pending)' = 0 /\ In(q, resolving)' = 0
          BY <2>1, <3>2, InType DEF InFlight, StepsKeptOf
        <4> QED
          BY <4>1, InType DEF StepsOf
      <3> QED
        BY <3>6, <3>8, <3>9, <3>10, <3>11, <3>12 DEF MemoryOf
    <2>4. CASE q \notin batch
      <3>1. st'[q] = st[q] /\ kv'[q] = kv[q] /\ row'[q] = row[q] /\ st[q].place # "prefill"
        BY <1>4, <1>7, <2>4 DEF batch, At
      <3>2. DataOf(q)
        BY <1>2, <3>1 DEF DataOf
      <3>3. MemoryOf(q)' /\ StepsOf(q)'
        BY <1>2, <1>3, <2>1, <3>1, <3>2, SameOf, SameSteps DEF IInv, MemoryOf
      <3>4. PlaceOf(q)'
        BY <1>2, <1>3, <2>1, <3>1 DEF IInv, PlaceOf
      <3>5. DueOf(q)'
        BY <1>2, <1>3, <2>1, <3>1 DEF IInv, DueOf, Resident
      <3> QED
        BY <3>3, <3>4, <3>5
    <2> QED
      BY <1>7, <2>2, <2>3, <2>4
  <1> QED
    BY <1>9, <1>10, <1>11, <1>12, Together
Records == [raw : Nat, pooled : Nat, due : BOOLEAN]

\* A committed append adds its frames to the raw ones.
LEMMA CommittedFrames ==
    ASSUME NEW x \in Records, NEW n \in Nat,
           NEW b \in BOOLEAN, NEW f, f = [x EXCEPT !.raw = @ + n, !.due = b]
    PROVE  f \in Records /\ f.raw = x.raw + n /\ f.pooled = x.pooled
  <1>1. f.raw = x.raw + n /\ f.pooled = x.pooled /\ x.raw \in Nat /\ x.pooled \in Nat
    BY DEF Records
  <1>2. f = [raw |-> x.raw + n, pooled |-> x.pooled, due |-> b]
    BY DEF Records
  <1>3. x.raw + n \in Nat
    BY <1>1
  <1>4. f \in Records
    BY <1>1, <1>2, <1>3 DEF Records
  <1> QED
    BY <1>1, <1>4

\* An extend runs.
LEMMA RunExtendKeeps ==
    ASSUME IInv, RunExtend, UNCHANGED <<async_decode, frame_window>>
    PROVE  IInv'
  <1> DEFINE batch == At("extend")
             len == CommitLengths
             cells == [r \in Req |->
                        IF r \in batch
                        THEN Clear(row[r], len[r].enc + len[r].dec,
                                           len[r].appended + len[r].dec)
                        ELSE row[r]]
  <1>1. PICK out : ProcessResult(batch, len, cells, {}, out)
    BY Zenon DEF RunExtend
  <1>2. /\ pc = "run_extend" /\ Quiet /\ pc' = "recv" /\ UNCHANGED steps
        /\ UNCHANGED <<events, sent, doomed, controls, cand>>
        /\ frames' = [r \in Req |->
                        IF r \in batch /\ staged[r].frames > 0
                        THEN [frames[r] EXCEPT !.raw = @ + staged[r].frames,
                                               !.due = frame_window]
                        ELSE frames[r]]
        /\ staged' = [r \in Req |-> NoSegment]
    BY DEF RunExtend, inputs, aborts
  <1>3. /\ batch \in SUBSET Req /\ prepared = NoStep
        /\ doomed = {} /\ controls = {} /\ resolving = NoStep
        /\ cand = {} /\ Staged' = {} /\ batch = Staged
    BY <1>2 DEF IInv, Control, Quiet, PlaceOf, Staged, At
  <1>4. ASSUME NEW q \in Req, q \in batch
        PROVE  /\ len[q] \in Lengths /\ len[q].enc = kv[q].enc + staged[q].enc
               /\ len[q].dec = kv[q].dec + staged[q].len - staged[q].enc + 1
               /\ len[q].dec \in Nat
               /\ len[q].alloc = Used(q) /\ len[q].alloc = len[q].enc + len[q].dec
               /\ len[q].appended = kv[q].appended + staged[q].enc
               /\ len[q].fill = kv[q].fill
               /\ st[q].place = "extend"
               /\ kv[q].alloc = len[q].appended + len[q].dec
               /\ kv[q].fill = kv[q].alloc /\ kv[q].alloc \in Nat /\ kv[q].fill \in Nat
    <2>1. kv[q] \in Lengths /\ st[q].place = "extend"
      BY <1>4, Typed DEF IInv, At
    <2>2. /\ kv[q].enc \in Nat /\ kv[q].dec \in Nat /\ kv[q].appended \in Nat
          /\ staged[q].len \in Nat /\ staged[q].enc \in Nat
          /\ staged[q].enc <= staged[q].len /\ kv[q].alloc \in Nat /\ kv[q].fill \in Nat
      BY Typed DEF IInv, FramesOf
    <2> DEFINE enc == kv[q].enc + staged[q].enc
               dec == kv[q].dec + staged[q].len - staged[q].enc + 1
               app == kv[q].appended + staged[q].enc
               l == [kv[q] EXCEPT !.enc = enc, !.dec = dec, !.alloc = enc + dec,
                                  !.appended = app]
    <2>3. len[q] = l
      BY <2>1 DEF CommitLengths
    <2>4. enc \in Nat /\ dec \in Nat /\ app \in Nat /\ enc + dec = KvTotal(q) + staged[q].len + 1
      BY <2>2 DEF KvTotal
    <2>5. Used(q) = enc + dec
      BY <2>1, <2>4 DEF Used
    <2>6. kv[q].alloc = app + dec /\ kv[q].fill = kv[q].alloc
      BY <2>1, <2>2 DEF IInv, LengthsOf, TokenTotal
    <2> HIDE DEF enc, dec, app, len, batch
    <2>7. /\ l \in Lengths /\ l.enc = enc /\ l.dec = dec /\ l.alloc = enc + dec
          /\ l.appended = app /\ l.fill = kv[q].fill
      <3>1. enc + dec \in Nat
        BY <2>4
      <3> DEFINE tot == enc + dec
      <3>2. tot \in Nat /\ l = [kv[q] EXCEPT !.enc = enc, !.dec = dec, !.alloc = tot,
                                             !.appended = app]
        BY <3>1
      <3> HIDE DEF l, tot
      <3>3. l = [enc |-> enc, dec |-> dec, appended |-> app, alloc |-> tot,
                 fill |-> kv[q].fill]
        BY <2>1, <3>2 DEF Lengths
      <3>4. /\ l \in Lengths /\ l.enc = enc /\ l.dec = dec /\ l.alloc = tot
            /\ l.appended = app /\ l.fill = kv[q].fill
        BY <2>2, <2>4, <3>2, <3>3 DEF Lengths
      <3> QED
        BY <3>4 DEF tot
    <2> HIDE DEF l
    <2> QED
      BY <2>1, <2>2, <2>3, <2>4, <2>5, <2>6, <2>7 DEF enc, dec, app
  <1>5. ASSUME NEW q \in Req, q \notin batch
        PROVE  /\ len[q] = kv[q] /\ len[q] \in Lengths /\ st[q].place # "extend"
               /\ Used(q) = kv[q].alloc
    <2>1. st[q].place # "extend" /\ kv[q] \in Lengths
      BY <1>5, Typed DEF IInv, At
    <2> QED
      BY <2>1 DEF CommitLengths, Used
  <1>6. len \in [Req -> Lengths]
    <2>1. \A q \in Req : len[q] \in Lengths
      BY <1>4, <1>5
    <2>2. len = [q \in Req |-> len[q]]
      BY DEF CommitLengths
    <2> HIDE DEF len
    <2> QED
      BY <2>1, <2>2
  <1> HIDE DEF len
  <1>7. ASSUME NEW q \in Req
        PROVE  /\ cells[q] \in Cells
               /\ q \notin batch => cells[q] = row[q]
               /\ q \in batch => \A i \in Cell : cells[q][i] =
                    IF i > Used(q) /\ i <= kv[q].alloc THEN 0 ELSE row[q][i]
    <2>1. row[q] \in Cells
      BY Typed DEF IInv
    <2>2. CASE q \in batch
      <3>1. cells[q] = Clear(row[q], Used(q), kv[q].alloc)
        BY <1>4, <2>2
      <3> HIDE DEF cells, batch
      <3> QED
        BY <2>1, <2>2, <3>1 DEF Clear, Cells
    <2>3. CASE q \notin batch
      BY <2>1, <2>3
    <2> QED
      BY <2>2, <2>3
  <1>8. cells \in [Req -> Cells]
    BY <1>7
  <1>9. \A q \in batch : st[q].phase = "aborted" => st[q].to_finish
    <2>1. \A q \in batch : q \in Req /\ st[q].place = "extend"
      BY DEF At
    <2> QED
      BY <2>1 DEF IInv, PlaceOf
  <1> HIDE DEF cells
  <1>10. /\ \A q \in Req \ batch :
                st'[q] = st[q] /\ kv'[q] = len[q] /\ row'[q] = cells[q]
         /\ \A q \in batch : Leaves(q) \/ Survives(q, len, cells)
         /\ free' = free \cup {} \cup
                UNION {Prefix(cells[q], len[q].alloc) : q \in {p \in batch : Leaves(p)}}
         /\ st' \in [Req -> Status] /\ kv' \in [Req -> Lengths]
         /\ row' \in [Req -> Cells]
    <2>1. {} \in SUBSET Slot
      OBVIOUS
    <2> HIDE DEF batch
    <2> QED
      BY <1>1, <1>3, <1>6, <1>8, <1>9, <2>1, Processed, ZenonT(60) DEF IInv
  <1> HIDE DEF batch
  <1>11. Rows' /\ free' \subseteq Slot
    <2>1. ASSUME NEW q \in Req
          PROVE  /\ len[q].alloc = Used(q)
                 /\ \A i \in 1 .. Used(q) : cells[q][i] = row[q][i]
      <3>1. Used(q) \in Nat /\ Used(q) <= Width
        <4>1. CASE q \in batch
          <5>1. Used(q) = KvTotal(q) + staged[q].len + 1 /\ q \in Staged
            BY <1>3, <1>4, <4>1 DEF Used
          <5> QED
            BY <5>1, Typed DEF IInv, ContextOf
        <4>2. CASE q \notin batch
          BY <1>5, <4>2, Typed DEF IInv, ContextOf
        <4> QED
          BY <4>1, <4>2
      <3>2. \A i \in 1 .. Used(q) : i \in Cell /\ ~(i > Used(q))
        BY <3>1, Sizes DEF Cell
      <3> QED
        BY <1>4, <1>5, <1>7, <3>2
    <2>2. \A q \in Req \ batch :
                st'[q] = st[q] /\ kv'[q] = len[q] /\ row'[q] = cells[q]
                /\ st[q].place # "extend"
      BY <1>5, <1>10
    <2> QED
      BY <1>3, <1>6, <1>8, <1>10, <2>1, <2>2, ResultRows
  <1>12. ASSUME NEW q \in Req
         PROVE  /\ frames'[q] \in [raw : Nat, pooled : Nat, due : BOOLEAN]
                /\ frames'[q].pooled = frames[q].pooled
                /\ q \notin batch => frames'[q] = frames[q]
                /\ q \in batch => /\ frames'[q].raw = frames[q].raw + staged[q].frames
                                  /\ frames'[q].due => frames'[q].raw > 0
    <2>1. /\ frames[q] \in [raw : Nat, pooled : Nat, due : BOOLEAN]
          /\ staged[q].frames \in Nat /\ frame_window \in BOOLEAN
      BY Typed DEF IInv, TypeOK
    <2> DEFINE f == [frames[q] EXCEPT !.raw = @ + staged[q].frames, !.due = frame_window]
    <2>2. /\ f \in [raw : Nat, pooled : Nat, due : BOOLEAN]
          /\ f.raw = frames[q].raw + staged[q].frames /\ f.pooled = frames[q].pooled
      BY <2>1, CommittedFrames DEF Records
    <2>3. frames'[q] = IF q \in batch /\ staged[q].frames > 0 THEN f ELSE frames[q]
      BY <1>2
    <2> HIDE DEF f
    <2>4. CASE q \in batch /\ staged[q].frames > 0
      BY <2>1, <2>2, <2>3, <2>4
    <2>5. CASE ~(q \in batch /\ staged[q].frames > 0)
      <3>1. frames'[q] = frames[q] /\ (frames[q].due => frames[q].raw > 0)
        BY <2>3, <2>5 DEF IInv, DueOf
      <3> QED
        BY <2>1, <2>5, <3>1
    <2> QED
      BY <2>4, <2>5
  <1>13. TypeOK'
    <2>1. frames' \in [Req -> [raw : Nat, pooled : Nat, due : BOOLEAN]]
      BY <1>2, <1>12
    <2>2. staged' \in [Req -> [frames : Nat, enc : Nat, len : Nat]]
      BY <1>2 DEF NoSegment
    <2> QED
      BY <1>2, <1>10, <1>11, <2>1, <2>2 DEF IInv, TypeOK, Status, Lengths, Cells, PC, steps
  <1>14. Control' /\ Flushed' /\ Capacity'
    <2>1. Control'
      BY <1>2, <1>3 DEF IInv, Control, steps
    <2>2. Flushed' /\ Capacity'
      BY <1>2, <1>3 DEF Flushed, Capacity
    <2> QED
      BY <2>1, <2>2
  <1>15. ASSUME NEW q \in Req
         PROVE  PlaceOf(q)' /\ DueOf(q)' /\ MemoryOf(q)' /\ StepsOf(q)'
    <2>0. staged'[q].len = 0 /\ staged'[q].enc = 0
          /\ staged'[q].frames = 0 /\ q \notin Staged'
      BY <1>2, <1>3, SegmentFields DEF IInv
    <2>1. StepsKeptOf(q) /\ InFlight(q)' = InFlight(q)
      BY <1>2, StepsUnchanged
    <2>2. CASE q \in batch /\ Leaves(q)
      <3>1. frames'[q].due => frames'[q].raw > 0
        BY <1>12, <2>2
      <3> QED
        BY <1>2, <1>3, <2>0, <2>2, <3>1, GoneOf DEF Leaves
    <2>3. CASE q \in batch /\ Survives(q, len, cells)
      <3>1. st[q].place = "extend" /\ q \in Staged
        BY <1>3, <1>4, <2>3
      <3>2. InFlight(q) = 0 /\ InFlight(q)' = 0
        BY <2>1, <3>1 DEF IInv, PlaceOf, Resident
      <3>3. /\ st'[q].phase \in {"waiting", "decoding"}
            /\ st'[q].place \in Resident
            /\ kv'[q].enc = kv[q].enc + staged[q].enc
            /\ kv'[q].dec = len[q].dec /\ kv'[q].appended = kv[q].appended + staged[q].enc
            /\ kv'[q].alloc = Used(q) /\ kv'[q].alloc = kv'[q].enc + kv'[q].dec
            /\ kv'[q].fill = kv[q].fill + 1 /\ row'[q] = cells[q]
            /\ kv'[q].appended + kv'[q].dec = kv[q].alloc /\ kv[q].fill = kv[q].alloc
        BY <1>4, <2>3 DEF Survives
      <3>4. PlaceOf(q)' /\ DueOf(q)'
        BY <1>2, <1>3, <1>12, <2>0, <2>3, <3>2, <3>3 DEF PlaceOf, DueOf, Resident
      <3>5. /\ KvTotal(q)' = kv'[q].alloc /\ TokenTotal(q)' = kv[q].fill
            /\ kv[q].fill \in Nat /\ kv'[q].alloc \in Nat
        BY <1>4, <1>10, <2>3, <3>3, Typed DEF IInv, KvTotal, TokenTotal, Lengths
      <3>6. kv[q].enc \in Nat /\ kv[q].appended \in Nat /\ staged[q].enc \in Nat
            /\ kv[q].appended >= kv[q].enc
        BY Typed DEF IInv, LengthsOf
      <3>7. LengthsOf(q)'
        <4>1. kv'[q].appended >= kv'[q].enc
          BY <3>3, <3>6
        <4>2. kv'[q].alloc = KvTotal(q)' + InFlight(q)'
          BY <3>2, <3>5
        <4>3. kv'[q].fill = TokenTotal(q)' + 1 + staged'[q].len
          BY <2>0, <3>3, <3>5
        <4> QED
          BY <3>2, <3>3, <3>5, <4>1, <4>2, <4>3 DEF LengthsOf, Resident
      <3>8. FramesOf(q)'
        <4>1. kv[q].enc = (frames[q].raw + frames[q].pooled) * FrameSlots
              /\ staged[q].enc = staged[q].frames * FrameSlots
          BY <3>1 DEF IInv, FramesOf, Resident
        <4>2. frames[q].raw \in Nat /\ frames[q].pooled \in Nat /\ staged[q].frames \in Nat
              /\ FrameSlots \in Nat
          BY Typed, Sizes DEF IInv
        <4>3. kv'[q].enc = (frames'[q].raw + frames'[q].pooled) * FrameSlots
          BY <1>12, <2>3, <3>3, <4>1, <4>2
        <4> QED
          BY <2>0, <3>3, <3>5, <4>3, Sizes DEF FramesOf, Resident
      <3>9. ContextOf(q)'
        <4>1. kv[q].fill + 1 <= ContextLimit /\ KvTotal(q) + staged[q].len + 1 <= Width
          BY <3>1 DEF IInv, ContextOf
        <4>2. Used(q) = KvTotal(q) + staged[q].len + 1
          BY <3>1 DEF Used
        <4> QED
          <5>1. kv'[q].alloc <= Width
            BY <3>3, <4>1, <4>2
          <5>2. kv'[q].fill + InFlight(q)' <= ContextLimit
            BY <3>2, <3>3, <3>5, <4>1, Sizes
          <5> QED
            BY <2>0, <5>1, <5>2 DEF ContextOf
      <3>10. TailOf(q)'
        <4>1. ASSUME kv'[q].appended > kv'[q].enc, NEW i \in Used(q) + 1 .. Width
              PROVE  cells[q][i] = 0
          <5>1. /\ i \in Cell /\ i > Used(q)
                /\ i <= kv[q].alloc \/ i \in kv[q].alloc + 1 .. Width
            BY <1>4, <2>3, <3>3, <3>5, <4>1, Sizes DEF Cell
          <5>2. kv[q].appended > kv[q].enc
            BY <3>3, <3>6, <4>1
          <5>3. \A k \in kv[q].alloc + 1 .. Width : row[q][k] = 0
            BY <3>1, <5>2 DEF IInv, TailOf, Resident
          <5> QED
            BY <1>7, <2>3, <5>1, <5>3
        <4> QED
          BY <3>3, <4>1 DEF TailOf, Resident
      <3>11. StepsOf(q)'
        <4>1. In(q, prepared)' = 0 /\ In(q, pending)' = 0 /\ In(q, resolving)' = 0
          BY <2>1, <3>2, InType DEF InFlight, StepsKeptOf
        <4> QED
          BY <4>1, InType DEF StepsOf
      <3> QED
        BY <3>4, <3>7, <3>8, <3>9, <3>10, <3>11 DEF MemoryOf
    <2>4. CASE q \notin batch
      <3>1. /\ st'[q] = st[q] /\ kv'[q] = kv[q] /\ row'[q] = row[q]
            /\ frames'[q] = frames[q] /\ st[q].place # "extend"
        BY <1>5, <1>7, <1>10, <1>12, <2>4
      <3>2. staged'[q] = staged[q] /\ q \notin Staged
        BY <1>2, <1>3, <2>4 DEF Staged
      <3>3. DataOf(q)
        BY <3>1, <3>2 DEF DataOf
      <3>4. MemoryOf(q)' /\ StepsOf(q)'
        BY <1>2, <1>3, <2>1, <3>1, <3>3, SameOf, SameSteps DEF IInv, MemoryOf
      <3>5. PlaceOf(q)'
        BY <1>2, <1>3, <2>1, <3>1 DEF IInv, PlaceOf
      <3>6. DueOf(q)'
        BY <1>2, <1>3, <2>1, <3>1 DEF IInv, DueOf, Resident
      <3> QED
        BY <3>4, <3>5, <3>6
    <2> QED
      BY <1>10, <2>2, <2>3, <2>4
  <1> QED
    BY <1>11, <1>13, <1>14, <1>15, Together
-----------------------------------------------------------------------------
(* Segments and failed forwards.                                           *)

\* An input is materialized.
LEMMA MaterializeKeeps ==
    ASSUME IInv, NEW r \in Req, Materialize(r), UNCHANGED <<async_decode, frame_window>>
    PROVE  IInv'
  <1> DEFINE seg == Segment(events[r])
  <1>1. /\ pc = "extend" /\ Quiet /\ Extensible(r) /\ Coalesces(r) /\ SegmentFits(r, seg)
        /\ events' = [events EXCEPT ![r] = NoEvents]
        /\ staged' = [staged EXCEPT ![r] = seg]
        /\ kv' = [kv EXCEPT ![r].fill = @ + seg.len]
        /\ UNCHANGED steps
        /\ UNCHANGED <<pc, free, row, st, frames, sent, doomed, controls, cand>>
    BY DEF Materialize, aborts
  <1>2. /\ st[r].place \in Resident /\ st[r].phase \in {"decoding", "waiting"}
        /\ HasPendingEvents /\ events[r] # NoEvents /\ r \notin Staged
    BY <1>1 DEF Extensible, HasPendingEvents, At, Resident, IInv, PlaceOf
  <1>3. /\ pending = NoStep /\ resolving = NoStep /\ prepared = NoStep
        /\ doomed = {} /\ controls = {} /\ cand = {}
    BY <1>1, <1>2 DEF IInv, Flushed, Control, Quiet
  <1>4. \A q \in Req : InFlight(q) = 0 /\ InFlight(q)' = 0 /\ StepsKeptOf(q)
    <2> TAKE q \in Req
    <2>1. In(q, prepared) = 0 /\ In(q, pending) = 0 /\ In(q, resolving) = 0
      BY <1>3, NoStepFlying
    <2> QED
      BY <1>1, <2>1, StepsUnchanged DEF InFlight
  <1>5. /\ seg.frames \in Nat /\ seg.enc = seg.frames * FrameSlots /\ seg.enc \in Nat
        /\ seg.len \in Nat /\ seg.enc <= seg.len
        /\ seg \in [frames : Nat, enc : Nat, len : Nat]
    <2>1. events[r].frame \in Nat /\ events[r].prompt \in Nat /\ FrameSlots \in Nat
      BY Sizes DEF IInv, TypeOK
    <2>2. events[r].frame * FrameSlots \in Nat
      BY <2>1
    <2> QED
      BY <2>1, <2>2 DEF Segment
  <1> HIDE DEF seg
  <1>6. /\ kv[r] \in Lengths /\ kv[r].fill = TokenTotal(r) + 1 /\ TokenTotal(r) \in Nat
        /\ KvTotal(r) \in Nat
    BY <1>1, Typed DEF IInv, Coalesces
  <1>7. /\ kv'[r] \in Lengths /\ kv'[r].enc = kv[r].enc /\ kv'[r].dec = kv[r].dec
        /\ kv'[r].appended = kv[r].appended /\ kv'[r].alloc = kv[r].alloc
        /\ kv'[r].fill = kv[r].fill + seg.len
        /\ staged'[r] = seg
    <2>1. kv'[r] = [kv[r] EXCEPT !.fill = @ + seg.len] /\ staged'[r] = seg
      BY <1>1 DEF IInv, TypeOK
    <2> QED
      BY <1>5, <1>6, <2>1 DEF Lengths
  <1>8. \A q \in Req \ {r} :
          kv'[q] = kv[q] /\ staged'[q] = staged[q] /\ events'[q] = events[q]
    BY <1>1 DEF IInv, TypeOK
  <1>9. TypeOK'
    <2>1. kv' \in [Req -> Lengths]
      BY <1>1, <1>7, <1>8, Typed DEF IInv, TypeOK
    <2>2. staged' \in [Req -> [frames : Nat, enc : Nat, len : Nat]]
      BY <1>1, <1>5 DEF IInv, TypeOK
    <2>3. events' \in [Req -> [frame : Nat, prompt : Nat]]
      BY <1>1 DEF IInv, TypeOK, NoEvents
    <2> QED
      BY <1>1, <2>1, <2>2, <2>3 DEF IInv, TypeOK, Lengths, steps
  <1>10. Control' /\ Flushed' /\ Capacity'
    <2>1. Control'
      BY <1>1, <1>3 DEF IInv, Control, Quiet, steps
    <2>2. Flushed' /\ Capacity'
      BY <1>1, <1>3 DEF Flushed, Capacity, steps
    <2> QED
      BY <2>1, <2>2
  <1>11. ASSUME NEW q \in Req, q # r
         PROVE  PlaceOf(q)' /\ DueOf(q)' /\ MemoryOf(q)' /\ StepsOf(q)' /\ Used(q)' = Used(q)
    <2>1. DataOf(q) /\ events'[q] = events[q]
      BY <1>1, <1>8, <1>11 DEF DataOf
    <2>2. MemoryOf(q)' /\ StepsOf(q)' /\ Used(q)' = Used(q)
      BY <1>1, <1>4, <2>1, SameOf, SameSteps, DataUsed DEF IInv, MemoryOf
    <2>3. PlaceOf(q)' /\ DueOf(q)'
      BY <1>1, <1>4, <2>1 DEF IInv, PlaceOf, DueOf, Staged, DataOf
    <2> QED
      BY <2>2, <2>3
  <1>12. PlaceOf(r)' /\ DueOf(r)' /\ MemoryOf(r)' /\ StepsOf(r)' /\ Used(r)' = Used(r)
    <2>1. events'[r] = NoEvents
      BY <1>1 DEF IInv, TypeOK
    <2>2. PlaceOf(r)'
      BY <1>1, <1>2, <1>3, <1>4, <2>1 DEF IInv, PlaceOf, Resident
    <2>3. DueOf(r)'
      BY <1>1, <1>4 DEF IInv, DueOf
    <2>4. KvTotal(r)' = KvTotal(r) /\ TokenTotal(r)' = TokenTotal(r)
      BY <1>7 DEF KvTotal, TokenTotal
    <2>5. kv'[r].fill = TokenTotal(r)' + 1 + staged'[r].len
      BY <1>5, <1>6, <1>7, <2>4
    <2>6. LengthsOf(r)'
      <3>1. kv'[r].fill >= TokenTotal(r)' + 1 + staged'[r].len
        BY <1>7, <2>5 DEF Lengths
      <3> QED
        BY <1>1, <1>2, <1>3, <1>4, <1>7, <2>4, <2>5, <3>1 DEF IInv, LengthsOf, Resident
    <2>7. FramesOf(r)'
      BY <1>1, <1>2, <1>5, <1>6, <1>7 DEF IInv, FramesOf, Resident
    <2>8. ContextOf(r)'
      <3>1. /\ TokenTotal(r) + seg.len + 2 <= ContextLimit
            /\ KvTotal(r) + seg.len + 1 <= Width
        BY <1>1 DEF SegmentFits
      <3>2. kv'[r].fill + InFlight(r)' <= ContextLimit /\ kv'[r].fill + 1 <= ContextLimit
        BY <1>4, <1>5, <1>6, <1>7, <3>1, Sizes
      <3> QED
        BY <1>7, <2>4, <3>1, <3>2 DEF IInv, ContextOf
    <2>9. Used(r)' = Used(r)
      BY <1>1, <1>2, <1>7 DEF Used, Resident
    <2>10. TailOf(r)'
      BY <1>1, <1>2, <1>7 DEF IInv, TailOf, Resident
    <2>11. StepsOf(r)'
      BY <1>1, <1>7 DEF IInv, StepsOf, steps, In
    <2> QED
      BY <2>2, <2>3, <2>6, <2>7, <2>8, <2>9, <2>10, <2>11 DEF MemoryOf
  <1>13. Rows'
    BY <1>1, <1>11, <1>12, RowsSame DEF IInv
  <1> QED
    BY <1>9, <1>10, <1>11, <1>12, <1>13, Together

\* The budget is settled.
LEMMA BudgetDoneKeeps ==
    ASSUME IInv, BudgetDone, UNCHANGED <<async_decode, frame_window>>
    PROVE  IInv'
  <1>1. /\ pc = "budget" /\ kv' = UndoLengths(doomed) /\ staged' = UndoSegments(doomed)
        /\ pc' = IF Staged \ doomed = {} THEN "prefill" ELSE "stage"
        /\ UNCHANGED steps
        /\ UNCHANGED <<free, row, st, frames, events, sent, doomed, controls, cand>>
    BY DEF BudgetDone, inputs, aborts
  <1>2. Staged' = Staged \ doomed
    BY <1>1 DEF UndoSegments, Staged
  <1>3. ASSUME NEW q \in Req, ~(q \in doomed /\ q \in Staged)
        PROVE  kv'[q] = kv[q] /\ staged'[q] = staged[q]
    <2>1. staged'[q] = staged[q]
      BY <1>1, <1>3 DEF UndoSegments, Staged
    <2>2. kv'[q] = kv[q]
      <3>1. CASE q \in doomed
        <4>1. staged[q].len = 0 /\ kv[q] \in Lengths
          BY <1>3, <3>1, SegmentFields, Typed DEF IInv
        <4>2. kv'[q] = [kv[q] EXCEPT !.fill = @ - staged[q].len]
          BY <1>1, <3>1 DEF UndoLengths
        <4> QED
          BY <4>1, <4>2 DEF Lengths
      <3>2. CASE q \notin doomed
        BY <1>1, <3>2 DEF UndoLengths
      <3> QED
        BY <3>1, <3>2
    <2> QED
      BY <2>1, <2>2
  <1>4. ASSUME NEW q \in Req, q \in doomed, q \in Staged
        PROVE  /\ kv'[q] \in Lengths /\ kv'[q].enc = kv[q].enc /\ kv'[q].dec = kv[q].dec
               /\ kv'[q].appended = kv[q].appended /\ kv'[q].alloc = kv[q].alloc
               /\ kv'[q].fill \in Nat /\ kv'[q].fill <= kv[q].fill
               /\ kv'[q].fill = kv[q].fill - staged[q].len
               /\ staged'[q] = NoSegment
    <2>1. kv'[q] = [kv[q] EXCEPT !.fill = @ - staged[q].len] /\ staged'[q] = NoSegment
      BY <1>1, <1>4 DEF UndoLengths, UndoSegments
    <2>2. /\ kv[q] \in Lengths /\ kv[q].fill \in Nat /\ staged[q].len \in Nat
          /\ kv[q].fill - staged[q].len \in Nat
      BY Typed DEF IInv, FramesOf
    <2> QED
      BY <2>1, <2>2 DEF Lengths
  <1>5. TypeOK'
    <2>1. kv' \in [Req -> Lengths]
      <3>1. \A q \in Req : kv'[q] \in Lengths
        BY <1>3, <1>4, Typed DEF IInv
      <3> QED
        BY <1>1, <3>1 DEF UndoLengths
    <2>2. staged' \in [Req -> [frames : Nat, enc : Nat, len : Nat]]
      BY <1>1 DEF IInv, TypeOK, UndoSegments, NoSegment
    <2> QED
      BY <1>1, <2>1, <2>2 DEF IInv, TypeOK, Lengths, steps, PC
  <1>6. Control' /\ Flushed' /\ Capacity'
    <2>1. Control'
      BY <1>1 DEF IInv, Control, steps
    <2>2. Flushed' /\ Capacity'
      BY <1>1, <1>2 DEF IInv, Flushed, Capacity, steps
    <2> QED
      BY <2>1, <2>2
  <1>7. ASSUME NEW q \in Req
        PROVE  PlaceOf(q)' /\ DueOf(q)' /\ MemoryOf(q)' /\ StepsOf(q)' /\ Used(q)' = Used(q)
    <2>1. StepsKeptOf(q) /\ InFlight(q)' = InFlight(q)
      BY <1>1, StepsUnchanged
    <2>2. PlaceOf(q)'
      BY <1>1, <1>2, <2>1 DEF IInv, PlaceOf
    <2>3. DueOf(q)'
      BY <1>1, <2>1 DEF IInv, DueOf
    <2>4. CASE ~(q \in doomed /\ q \in Staged)
      <3>1. DataOf(q)
        BY <1>1, <1>3, <2>4 DEF DataOf
      <3>2. MemoryOf(q)' /\ StepsOf(q)' /\ Used(q)' = Used(q)
        BY <1>1, <2>1, <3>1, SameOf, SameSteps, DataUsed DEF IInv, MemoryOf
      <3> QED
        BY <2>2, <2>3, <3>2
    <2>5. CASE q \in doomed /\ q \in Staged
      <3>1. /\ st[q].place \in Resident /\ q \notin Staged' /\ staged'[q].len = 0
            /\ staged'[q].enc = 0 /\ staged'[q].frames = 0
        BY <1>1, <1>2, <1>4, <2>5, SegmentFields DEF IInv, PlaceOf, Resident
      <3>2. KvTotal(q)' = KvTotal(q) /\ TokenTotal(q)' = TokenTotal(q)
        BY <1>4, <2>5 DEF KvTotal, TokenTotal
      <3>3. LengthsOf(q)'
        <4>1. kv[q].fill >= TokenTotal(q) + 1 + staged[q].len
          BY <3>1 DEF IInv, LengthsOf
        <4>2. kv[q].fill \in Nat /\ TokenTotal(q) \in Nat /\ staged[q].len \in Nat
          BY Typed DEF IInv
        <4>3. kv'[q].fill >= TokenTotal(q)' + 1 + staged'[q].len
          BY <1>4, <2>5, <3>1, <3>2, <4>1, <4>2
        <4> QED
          BY <1>1, <1>4, <2>1, <2>5, <3>1, <3>2, <4>3 DEF IInv, LengthsOf, Resident
      <3>4. FramesOf(q)'
        BY <1>1, <1>4, <2>5, <3>1, Sizes DEF IInv, FramesOf, Resident
      <3>5. ContextOf(q)'
        BY <1>1, <1>4, <2>1, <2>5, <3>1, Sizes, Typed, InFlightType DEF IInv, ContextOf
      <3>6. Used(q)' = Used(q)
        BY <1>1, <1>4, <2>5, <3>1 DEF Used, Resident
      <3>7. TailOf(q)'
        BY <1>1, <1>4, <2>5, <3>1 DEF IInv, TailOf, Resident
      <3>8. StepsOf(q)'
        BY <1>1, <1>4, <2>5 DEF IInv, StepsOf, steps, In
      <3> QED
        BY <2>2, <2>3, <3>3, <3>4, <3>5, <3>6, <3>7, <3>8 DEF MemoryOf
    <2> QED
      BY <2>4, <2>5
  <1>8. Rows'
    BY <1>1, <1>7, RowsSame DEF IInv
  <1> QED
    BY <1>5, <1>6, <1>7, <1>8, Together
\* A prefill fails.
LEMMA RunPrefillFailsKeeps ==
    ASSUME IInv, RunPrefillFails, UNCHANGED <<async_decode, frame_window>>
    PROVE  IInv'
  <1> DEFINE batch == At("prefill")
  <1>1. /\ pc = "run_prefill" /\ Quiet /\ pc' = "recv" /\ UNCHANGED steps
        /\ free' = free \cup UNION {Held(r) : r \in batch}
        /\ row' = [r \in Req |-> IF r \in batch THEN Clear(row[r], 0, kv[r].alloc)
                                 ELSE row[r]]
        /\ kv' = Settle(kv, batch) /\ doomed' = batch
        /\ UNCHANGED <<st, frames, events, sent, staged, controls, cand>>
    BY DEF RunPrefillFails, inputs
  <1>2. /\ batch \in SUBSET Req /\ prepared = NoStep
        /\ doomed = {} /\ controls = {} /\ resolving = NoStep
        /\ cand = {} /\ Staged = {} /\ Staged' = {}
    BY <1>1 DEF IInv, Control, Quiet, PlaceOf, Staged, At
  <1>3. ASSUME NEW q \in Req, q \in batch
        PROVE  /\ st[q].place = "prefill" /\ kv[q].enc = 0 /\ kv[q].dec = 0
               /\ kv[q].appended = 0 /\ kv[q].alloc = PromptLen /\ kv[q].fill = PromptLen
               /\ kv'[q] \in Lengths /\ kv'[q].enc = 0 /\ kv'[q].dec = 0
               /\ kv'[q].appended = 0 /\ kv'[q].alloc = 0 /\ kv'[q].fill = PromptLen
               /\ row'[q] \in Cells
    <2>1. st[q].place = "prefill"
      BY <1>3 DEF At
    <2>2. /\ kv[q].enc = 0 /\ kv[q].dec = 0 /\ kv[q].appended = 0
          /\ kv[q].alloc = PromptLen /\ kv[q].fill = PromptLen /\ kv[q] \in Lengths
          /\ row[q] \in Cells
      BY <1>2, <2>1, Typed DEF IInv, LengthsOf
    <2>3. kv'[q] = [kv[q] EXCEPT !.alloc = 0]
      <3>1. kv'[q] = [kv[q] EXCEPT !.alloc = KvTotal(q)] /\ KvTotal(q) = 0
        BY <1>1, <1>3, <2>2 DEF Settle, KvTotal
      <3> QED
        BY <3>1
    <2>4. /\ kv'[q] \in Lengths /\ kv'[q].enc = 0 /\ kv'[q].dec = 0
          /\ kv'[q].appended = 0 /\ kv'[q].alloc = 0 /\ kv'[q].fill = PromptLen
      BY <2>2, <2>3 DEF Lengths
    <2>5. row'[q] \in Cells
      <3>1. row'[q] = Clear(row[q], 0, PromptLen)
        BY <1>1, <1>3, <2>2
      <3> QED
        BY <2>2, <3>1 DEF Clear, Cells
    <2> QED
      BY <2>1, <2>2, <2>4, <2>5
  <1>4. ASSUME NEW q \in Req, q \notin batch
        PROVE  kv'[q] = kv[q] /\ row'[q] = row[q] /\ st[q].place # "prefill" /\ DataOf(q)
    <2>1. kv'[q] = kv[q] /\ row'[q] = row[q] /\ st[q].place # "prefill"
      BY <1>1, <1>4 DEF Settle, At
    <2> QED
      BY <1>1, <2>1 DEF DataOf
  <1>5. \A q \in Req : Held(q) \subseteq Slot /\ (q \in batch => Held(q) = Owned(q))
    BY <1>2, <1>3 DEF IInv, Rows, RowOf, Held, Owned, Used, Prefix, PlaceOf
  <1>6. TypeOK'
    <2>1. \A q \in Req : kv'[q] \in Lengths /\ row'[q] \in Cells
      BY <1>3, <1>4, Typed DEF IInv
    <2>2. kv' \in [Req -> Lengths] /\ row' \in [Req -> Cells]
      <3>1. kv' = [q \in Req |-> kv'[q]] /\ row' = [q \in Req |-> row'[q]]
        BY <1>1 DEF Settle
      <3> HIDE DEF batch
      <3> QED
        BY <2>1, <3>1
    <2>3. free' \subseteq Slot
      BY <1>1, <1>2, <1>5 DEF IInv, TypeOK
    <2> QED
      BY <1>1, <1>2, <2>2, <2>3 DEF IInv, TypeOK, Lengths, Cells, steps, PC
  <1> HIDE DEF batch
  <1>7. Control' /\ Flushed' /\ Capacity'
    <2>1. Control'
      BY <1>1, <1>2 DEF IInv, Control, steps
    <2>2. Flushed' /\ Capacity'
      BY <1>1, <1>2 DEF Flushed, Capacity
    <2> QED
      BY <2>1, <2>2
  <1>8. ASSUME NEW q \in Req
        PROVE  /\ PlaceOf(q)' /\ DueOf(q)' /\ MemoryOf(q)' /\ StepsOf(q)'
               /\ RowOf(q)' /\ Owned(q)' = IF q \in batch THEN {} ELSE Owned(q)
    <2>1. StepsKeptOf(q) /\ InFlight(q)' = InFlight(q)
      BY <1>1, StepsUnchanged
    <2>2. PlaceOf(q)'
      BY <1>1, <1>2, <2>1 DEF IInv, PlaceOf
    <2>3. DueOf(q)'
      BY <1>1, <1>2, <2>1 DEF IInv, DueOf
    <2>4. CASE q \notin batch
      <3>1. MemoryOf(q)' /\ StepsOf(q)' /\ Used(q)' = Used(q)
        BY <1>1, <1>2, <1>4, <2>1, <2>4, SameOf, SameSteps, DataUsed DEF IInv, MemoryOf
      <3>2. RowOf(q)' /\ Owned(q)' = Owned(q)
        BY <1>4, <2>4, <3>1, SameRow DEF IInv
      <3> QED
        BY <2>2, <2>3, <2>4, <3>1, <3>2
    <2>5. CASE q \in batch
      <3>1. st'[q].place = "prefill" /\ st[q].place = "prefill" /\ q \in doomed'
        BY <1>1, <1>3, <2>5
      <3>2. LengthsOf(q)'
        BY <1>3, <2>5, <3>1 DEF LengthsOf, Resident
      <3>3. staged'[q].len = 0 /\ staged'[q].enc = 0 /\ staged'[q].frames = 0 /\ q \notin Staged'
        BY <1>1, <1>2, SegmentFields DEF IInv
      <3>4. FramesOf(q)'
        BY <1>1, <1>3, <2>5, <3>1, <3>3, Sizes DEF IInv, FramesOf, Resident
      <3>5. ContextOf(q)' /\ TailOf(q)' /\ StepsOf(q)'
        BY <1>3, <2>5, <3>1, <3>3, Sizes DEF ContextOf, TailOf, StepsOf, Resident
      <3>6. Used(q)' = 0
        BY <1>3, <2>5, <3>1 DEF Used
      <3>7. RowOf(q)' /\ Owned(q)' = {}
        BY <3>6 DEF RowOf, Owned, Prefix
      <3> QED
        BY <2>2, <2>3, <2>5, <3>2, <3>4, <3>5, <3>7 DEF MemoryOf
    <2> QED
      BY <2>4, <2>5
  <1>9. Rows'
    <2>1. \A q \in Req : RowOf(q)' /\ Owned(q)' \subseteq Owned(q)
      BY <1>8
    <2>2. ASSUME NEW s \in Slot
          PROVE  s \in free' <=> \/ s \in free
                                 \/ \E q \in Req : s \in Owned(q) /\ s \notin Owned(q)'
      <3>1. s \in free' <=> s \in free \/ \E q \in batch : s \in Owned(q)
        BY <1>1, <1>2, <1>5
      <3> QED
        BY <1>2, <1>8, <3>1
    <2> QED
      BY <2>1, <2>2, RowsShrink DEF IInv
  <1> QED
    BY <1>6, <1>7, <1>8, <1>9, Together

\* A decode step fails.
LEMMA DecodeFailsKeeps ==
    ASSUME IInv, DecodeFails, UNCHANGED <<async_decode, frame_window>>
    PROVE  IInv'
  <1> DEFINE batch == DOMAIN prepared
  <1>1. /\ pc = "run_decode" /\ Quiet /\ pc' = "recv"
        /\ free' = free \cup {prepared[r] : r \in batch}
        /\ kv' = [r \in Req |-> IF r \in batch THEN [kv[r] EXCEPT !.alloc = @ - 1]
                                ELSE kv[r]]
        /\ row' = [r \in Req |-> IF r \in batch
                                 THEN [row[r] EXCEPT ![kv[r].alloc] = 0] ELSE row[r]]
        /\ prepared' = NoStep /\ doomed' = batch
        /\ UNCHANGED <<st, frames, events, sent, staged, pending, resolving, controls, cand>>
    BY DEF DecodeFails, inputs
  <1>2. /\ batch = At("running") /\ batch \in SUBSET Req
        /\ resolving = NoStep /\ doomed = {} /\ controls = {}
        /\ cand = {} /\ Staged = {} /\ Staged' = {}
    BY <1>1 DEF IInv, Control, Quiet, PlaceOf, Staged, At
  <1>3. ASSUME NEW q \in Req
        PROVE  /\ In(q, prepared) = IF st[q].place = "running" THEN 1 ELSE 0
               /\ In(q, prepared)' = 0 /\ In(q, resolving) = 0 /\ In(q, resolving)' = 0
               /\ In(q, pending)' = In(q, pending) /\ In(q, pending) \in {0, 1}
               /\ InFlight(q) = In(q, prepared) + In(q, pending)
               /\ InFlight(q)' = In(q, pending)
    <2>1. /\ In(q, prepared) = IF st[q].place = "running" THEN 1 ELSE 0
      BY <1>2 DEF In, At
    <2>2. /\ In(q, prepared)' = 0 /\ In(q, resolving) = 0 /\ In(q, resolving)' = 0
          /\ In(q, pending)' = In(q, pending) /\ In(q, pending) \in {0, 1}
      BY <1>1, <1>2, EmptyStep DEF In
    <2> QED
      BY <2>1, <2>2 DEF InFlight
  <1>4. ASSUME NEW q \in Req, q \in batch
        PROVE  /\ st[q].place = "running" /\ kv[q].alloc \in Nat /\ kv[q].alloc >= 1
               /\ kv[q].alloc = KvTotal(q) + InFlight(q) /\ kv[q].alloc <= Width
               /\ KvTotal(q) \in Nat
               /\ prepared[q] = row[q][kv[q].alloc]
               /\ kv'[q] \in Lengths /\ kv'[q].enc = kv[q].enc /\ kv'[q].dec = kv[q].dec
               /\ kv'[q].appended = kv[q].appended /\ kv'[q].alloc = kv[q].alloc - 1
               /\ kv'[q].fill = kv[q].fill
               /\ row'[q] \in Cells
               /\ \A i \in Cell : row'[q][i] = IF i = kv[q].alloc THEN 0 ELSE row[q][i]
    <2>1. st[q].place = "running"
      BY <1>2, <1>4 DEF At
    <2>2. /\ kv[q].alloc \in Nat /\ KvTotal(q) \in Nat /\ kv[q] \in Lengths /\ row[q] \in Cells
      BY Typed DEF IInv
    <2>3. kv[q].alloc = KvTotal(q) + InFlight(q)
      BY <1>2, <1>3, <2>1, <2>2 DEF IInv, LengthsOf, Resident
    <2>4. kv[q].alloc >= 1 /\ kv[q].alloc <= Width /\ kv[q].alloc - 1 \in Nat
      <3>1. InFlight(q) \in 1 .. 2
        BY <1>3, <2>1
      <3> QED
        BY <2>2, <2>3, <3>1, Sizes DEF IInv, ContextOf
    <2>5. prepared[q] = row[q][kv[q].alloc]
      BY <1>4, <2>1 DEF IInv, StepsOf, Resident
    <2>6. kv'[q] = [kv[q] EXCEPT !.alloc = @ - 1] /\ row'[q] = [row[q] EXCEPT ![kv[q].alloc] = 0]
      BY <1>1, <1>4
    <2>7. /\ kv'[q] \in Lengths /\ kv'[q].enc = kv[q].enc /\ kv'[q].dec = kv[q].dec
          /\ kv'[q].appended = kv[q].appended /\ kv'[q].alloc = kv[q].alloc - 1
          /\ kv'[q].fill = kv[q].fill
      BY <2>2, <2>4, <2>6 DEF Lengths
    <2>8. /\ row'[q] \in Cells
          /\ \A i \in Cell : row'[q][i] = IF i = kv[q].alloc THEN 0 ELSE row[q][i]
      BY <2>2, <2>6 DEF Cells
    <2> QED
      BY <2>1, <2>2, <2>3, <2>4, <2>5, <2>7, <2>8
  <1>5. ASSUME NEW q \in Req, q \notin batch
        PROVE  kv'[q] = kv[q] /\ row'[q] = row[q] /\ st[q].place # "running" /\ DataOf(q)
    <2>1. kv'[q] = kv[q] /\ row'[q] = row[q] /\ st[q].place # "running"
      BY <1>1, <1>2, <1>5 DEF At
    <2> QED
      BY <1>1, <2>1 DEF DataOf
  <1>6. TypeOK'
    <2>1. \A q \in Req : kv'[q] \in Lengths /\ row'[q] \in Cells
      BY <1>4, <1>5, Typed DEF IInv
    <2>2. kv' \in [Req -> Lengths] /\ row' \in [Req -> Cells]
      <3>1. kv' = [q \in Req |-> kv'[q]] /\ row' = [q \in Req |-> row'[q]]
        BY <1>1
      <3> HIDE DEF batch
      <3> QED
        BY <2>1, <3>1
    <2>3. free' \subseteq Slot
      BY <1>1, StepsTyped DEF IInv, TypeOK
    <2> QED
      BY <1>1, <1>2, <2>2, <2>3, NoStepType DEF IInv, TypeOK, Lengths, Cells, PC
  <1> HIDE DEF batch
  <1>7. Control' /\ Flushed' /\ Capacity'
    <2>1. Control'
      BY <1>1, <1>2 DEF IInv, Control
    <2>2. Flushed' /\ Capacity'
      BY <1>1, <1>2 DEF Flushed, Capacity
    <2> QED
      BY <2>1, <2>2
  <1>8. ASSUME NEW q \in Req
        PROVE  /\ PlaceOf(q)' /\ DueOf(q)' /\ MemoryOf(q)' /\ StepsOf(q)'
               /\ RowOf(q)'
               /\ \A s : s \in Owned(q)' <=> s \in Owned(q) /\ ~(q \in batch /\ s = prepared[q])
    <2>1. CASE q \notin batch
      <3>1. StepsKeptOf(q) /\ InFlight(q)' = InFlight(q)
        <4>1. In(q, prepared) = 0 /\ q \notin DOMAIN prepared
          BY <1>3, <1>5, <2>1 DEF batch
        <4> QED
          BY <1>1, <1>3, <4>1 DEF StepsKeptOf
      <3>2. MemoryOf(q)' /\ StepsOf(q)' /\ Used(q)' = Used(q)
        BY <1>1, <1>2, <1>5, <2>1, <3>1, SameOf, SameSteps, DataUsed DEF IInv, MemoryOf
      <3>3. RowOf(q)' /\ Owned(q)' = Owned(q)
        BY <1>5, <2>1, <3>2, SameRow DEF IInv
      <3>4. PlaceOf(q)'
        BY <1>1, <1>2, <3>1 DEF IInv, PlaceOf
      <3>5. DueOf(q)'
        BY <1>1, <1>2, <3>1 DEF IInv, DueOf
      <3> QED
        BY <2>1, <3>2, <3>3, <3>4, <3>5
    <2>2. CASE q \in batch
      <3>1. st'[q] = st[q] /\ st[q].place = "running" /\ q \in doomed' /\ In(q, prepared) = 1
        BY <1>1, <1>3, <1>4, <2>2
      <3>2. KvTotal(q)' = KvTotal(q) /\ TokenTotal(q)' = TokenTotal(q)
        BY <1>4, <2>2 DEF KvTotal, TokenTotal
      <3>3. kv'[q].alloc = KvTotal(q)' + InFlight(q)' /\ kv'[q].alloc \in Nat
        BY <1>3, <1>4, <2>2, <3>1, <3>2
      <3>4. LengthsOf(q)'
        <4>1. kv'[q].appended >= kv'[q].enc
          BY <1>4, <2>2 DEF IInv, LengthsOf
        <4>2. InFlight(q)' \in 0 .. 1 /\ KvTotal(q)' \in Nat
          BY <1>3, <1>4, <2>2, <3>2
        <4>3. kv'[q].fill >= TokenTotal(q)' + 1 + staged'[q].len
          BY <1>1, <1>4, <2>2, <3>1, <3>2 DEF IInv, LengthsOf, Resident
        <4> QED
          BY <3>1, <3>3, <4>1, <4>2, <4>3 DEF LengthsOf, Resident
      <3>5. staged'[q].len = 0 /\ staged'[q].enc = 0 /\ staged'[q].frames = 0 /\ q \notin Staged'
        BY <1>1, <1>2, SegmentFields DEF IInv
      <3>6. FramesOf(q)'
        BY <1>1, <1>4, <2>2, <3>1 DEF IInv, FramesOf, Resident
      <3>7. ContextOf(q)'
        <4>1. kv[q].fill + InFlight(q) <= ContextLimit /\ kv[q].fill \in Nat
          BY <3>1, Typed DEF IInv, ContextOf, Resident
        <4>2. kv'[q].fill + InFlight(q)' <= ContextLimit
          BY <1>3, <1>4, <2>2, <3>1, <4>1, Sizes
        <4>3. kv'[q].alloc <= Width
          BY <1>4, <2>2, Sizes
        <4> QED
          BY <3>5, <4>2, <4>3 DEF ContextOf
      <3>8. TailOf(q)'
        <4>1. ASSUME kv'[q].appended > kv'[q].enc, NEW i \in kv'[q].alloc + 1 .. Width
              PROVE  row'[q][i] = 0
          <5>1. i \in Cell /\ (i = kv[q].alloc \/ i \in kv[q].alloc + 1 .. Width)
            BY <1>4, <2>2, <4>1, Sizes DEF Cell
          <5>2. \A k \in kv[q].alloc + 1 .. Width : row[q][k] = 0
            BY <1>4, <2>2, <3>1, <4>1 DEF IInv, TailOf, Resident
          <5> QED
            BY <1>4, <2>2, <5>1, <5>2
        <4> QED
          BY <3>1, <4>1 DEF TailOf, Resident
      <3>9. StepsOf(q)'
        <4>1. ASSUME q \in DOMAIN pending' PROVE pending'[q] = row'[q][kv'[q].alloc]
          <5>1. pending[q] = row[q][kv[q].alloc - 1] /\ In(q, pending) = 1
            BY <1>1, <3>1, <4>1, InType DEF IInv, StepsOf, Resident
          <5>2. kv[q].alloc - 1 \in Cell
            BY <1>3, <1>4, <2>2, <3>1, <5>1, Sizes DEF Cell
          <5>3. row'[q][kv[q].alloc - 1] = row[q][kv[q].alloc - 1]
            BY <1>4, <2>2, <5>2
          <5> QED
            BY <1>1, <1>4, <2>2, <5>1, <5>3
        <4>2. kv'[q].alloc - In(q, prepared)' = kv'[q].alloc
          BY <1>3, <3>3
        <4>3. q \notin DOMAIN prepared' /\ q \notin DOMAIN resolving'
          BY <1>1, <1>2, EmptyStep
        <4> QED
          BY <4>1, <4>2, <4>3 DEF StepsOf
      <3>10. PlaceOf(q)'
        BY <1>1, <1>2, <3>1 DEF IInv, PlaceOf, Resident
      <3>11. DueOf(q)'
        BY <1>1, <1>2, <3>1 DEF IInv, DueOf, Resident
      <3>12. Used(q) = kv[q].alloc /\ Used(q)' = kv[q].alloc - 1
        BY <1>4, <2>2, <3>1 DEF Used
      <3>13. \A i \in 1 .. Used(q)' : i \in 1 .. Used(q) /\ row'[q][i] = row[q][i]
        BY <1>4, <2>2, <3>12, Sizes DEF Cell
      <3>14. RowOf(q)
        BY DEF IInv, Rows
      <3>15. RowOf(q)'
        BY <3>13, <3>14 DEF RowOf
      <3>16. ASSUME NEW s PROVE s \in Owned(q)' <=> s \in Owned(q) /\ s # prepared[q]
        <4>1. s \in Owned(q)' <=> \E i \in 1 .. Used(q) - 1 : s = row[q][i]
          BY <3>12, <3>13 DEF Owned, Prefix
        <4>2. s \in Owned(q) <=> \E i \in 1 .. Used(q) : s = row[q][i]
          BY OwnedDef
        <4>3. prepared[q] = row[q][Used(q)] /\ Used(q) \in Nat /\ Used(q) >= 1
          BY <1>4, <2>2, <3>12
        <4>4. \A i \in 1 .. Used(q) - 1 : row[q][i] # row[q][Used(q)]
          BY <3>14, <4>3 DEF RowOf
        <4>5. \A i \in 1 .. Used(q) : i \in 1 .. Used(q) - 1 \/ i = Used(q)
          BY <4>3
        <4>6. \A i \in 1 .. Used(q) - 1 : i \in 1 .. Used(q)
          BY <4>3
        <4> QED
          BY <4>1, <4>2, <4>3, <4>4, <4>5, <4>6
      <3> QED
        BY <2>2, <3>4, <3>6, <3>7, <3>8, <3>9, <3>10, <3>11, <3>15, <3>16 DEF MemoryOf
    <2> QED
      BY <2>1, <2>2
  <1>9. Rows'
    <2>1. \A q \in Req : RowOf(q)' /\ Owned(q)' \subseteq Owned(q)
      BY <1>8
    <2>2. ASSUME NEW s \in Slot
          PROVE  s \in free' <=> \/ s \in free
                                 \/ \E q \in Req : s \in Owned(q) /\ s \notin Owned(q)'
      <3>1. s \in free' <=> s \in free \/ \E q \in batch : s = prepared[q]
        BY <1>1
      <3>2. \A q \in batch : prepared[q] \in Owned(q)
        <4> TAKE q \in batch
        <4>1. /\ q \in Req /\ prepared[q] = row[q][kv[q].alloc] /\ kv[q].alloc \in Nat
              /\ kv[q].alloc >= 1 /\ Used(q) = kv[q].alloc
          BY <1>2, <1>4 DEF Used
        <4> QED
          BY <4>1, OwnedDef
      <3> QED
        BY <1>2, <1>8, <3>1, <3>2
    <2> QED
      BY <2>1, <2>2, RowsShrink DEF IInv
  <1> QED
    BY <1>6, <1>7, <1>8, <1>9, Together
-----------------------------------------------------------------------------
(* Layouts.                                                                *)

Value == Slot \cup {0}

\* A function on 1 .. n is a sequence of length n.
LEMMA FunSeq ==
    ASSUME NEW S, NEW n \in Nat, NEW f \in [1 .. n -> S]
    PROVE  f \in Seq(S) /\ Len(f) = n
  OBVIOUS

\* u is the layout s, of length a, followed by t, of length b.
Joins(u, s, a, t, b) ==
    /\ u \in [1 .. a + b -> Value]
    /\ \A i \in 1 .. a : u[i] = s[i]
    /\ \A i \in a + 1 .. a + b : u[i] = t[i - a]

\* What concatenation does, cell by cell.
LEMMA ConcatJoins ==
    ASSUME NEW a \in Nat, NEW b \in Nat, NEW s \in [1 .. a -> Value],
           NEW t \in [1 .. b -> Value]
    PROVE  Joins(s \o t, s, a, t, b)
  <1>1. s \in Seq(Value) /\ Len(s) = a /\ t \in Seq(Value) /\ Len(t) = b
    BY FunSeq
  <1>2. /\ s \o t \in Seq(Value) /\ Len(s \o t) = a + b
        /\ \A i \in 1 .. a + b : (s \o t)[i] = IF i <= a THEN s[i] ELSE t[i - a]
    BY <1>1, ConcatProperties
  <1>3. s \o t \in [1 .. a + b -> Value]
    BY <1>2, LenProperties
  <1> QED
    BY <1>2, <1>3 DEF Joins

\* A row that starts with the layout u, of length n, and is empty behind it.
Compacted(c, u, n) ==
    /\ c \in Cells
    /\ \A i \in 1 .. n : c[i] = u[i]
    /\ \A i \in n + 1 .. Width : c[i] = 0

\* Writing a layout to a row and clearing the rest leaves just the layout.
LEMMA CompactedRow ==
    ASSUME NEW cells \in Cells, NEW n \in Nat, n <= Width, NEW u \in [1 .. n -> Value]
    PROVE  Compacted(Clear(Write(cells, 0, u), n, Width), u, n)
  <1> DEFINE c == Clear(Write(cells, 0, u), n, Width)
  <1>1. u \in Seq(Value) /\ Len(u) = n
    BY FunSeq
  <1>2. \A i \in Cell : i \in Nat /\ i - 0 = i /\ (i \in 1 .. n <=> ~(i > n)) /\ i <= Width
    BY Sizes DEF Cell
  <1>3. c = [i \in Cell |-> IF i > n THEN 0 ELSE u[i]]
    BY <1>1, <1>2 DEF Write, Clear
  <1>4. \A i \in Cell : (IF i > n THEN 0 ELSE u[i]) \in Value
    BY <1>2 DEF Value
  <1>5. c \in Cells
    BY <1>3, <1>4 DEF Cells, Value
  <1>6. \A i \in 1 .. n : i \in Cell /\ ~(i > n)
    BY Sizes DEF Cell
  <1>7. \A i \in n + 1 .. Width : i \in Cell /\ i > n
    BY Sizes DEF Cell
  <1> HIDE DEF c
  <1>8. Compacted(c, u, n)
    BY <1>3, <1>5, <1>6, <1>7 DEF Compacted
  <1> QED
    BY <1>8 DEF c

\* The encoder's and the decoder's part of a row, cell by cell.
LEMMA RowParts ==
    ASSUME TypeOK, NEW r \in Req, KvTotal(r) <= Width
    PROVE  /\ EncoderSlots(r) \in [1 .. kv[r].enc -> Value]
           /\ \A i \in 1 .. kv[r].enc : EncoderSlots(r)[i] = row[r][i]
           /\ DecoderSlots(r) \in [1 .. kv[r].dec -> Value]
           /\ \A i \in 1 .. kv[r].dec : DecoderSlots(r)[i] = row[r][kv[r].enc + i]
  <1>1. /\ kv[r].enc \in Nat /\ kv[r].dec \in Nat /\ row[r] \in Cells
        /\ kv[r].enc + kv[r].dec <= Width
    BY Typed DEF KvTotal
  <1>2. \A i \in 1 .. kv[r].enc : row[r][i] \in Value
    BY <1>1, Sizes DEF Cells, Cell, Value
  <1>3. \A i \in 1 .. kv[r].dec : row[r][kv[r].enc + i] \in Value
    BY <1>1, Sizes DEF Cells, Cell, Value
  <1>4. EncoderSlots(r) \in [1 .. kv[r].enc -> Value]
    BY <1>2 DEF EncoderSlots
  <1>5. DecoderSlots(r) \in [1 .. kv[r].dec -> Value]
    BY <1>3 DEF DecoderSlots
  <1>6. \A i \in 1 .. kv[r].enc : EncoderSlots(r)[i] = row[r][i]
    BY DEF EncoderSlots
  <1>7. \A i \in 1 .. kv[r].dec : DecoderSlots(r)[i] = row[r][kv[r].enc + i]
    BY DEF DecoderSlots
  <1> QED
    BY <1>4, <1>5, <1>6, <1>7, Zenon

-----------------------------------------------------------------------------
(* Rolling an extend back.                                                 *)

Restored(r) == Clear(Write(row[r], 0, CommittedLayout(r)), KvTotal(r), Width)

\* Undoing an append restores the row's cells as they were before it.
LEMMA RestoredRow ==
    ASSUME TypeOK, NEW r \in Req, staged[r].enc <= staged[r].len,
           KvTotal(r) + staged[r].len + 1 <= Width
    PROVE  /\ Restored(r) \in Cells
           /\ \A i \in 1 .. KvTotal(r) : Restored(r)[i] =
                IF i <= kv[r].enc THEN row[r][i] ELSE row[r][i + staged[r].enc]
           /\ \A i \in KvTotal(r) + 1 .. Width : Restored(r)[i] = 0
  <1> DEFINE e == kv[r].enc
             d == kv[r].dec
             n == staged[r].enc
             t == [i \in 1 .. d |-> row[r][e + n + i]]
             u == CommittedLayout(r)
  <1>1. /\ e \in Nat /\ d \in Nat /\ n \in Nat /\ e + d + n + 1 <= Width
        /\ KvTotal(r) = e + d /\ row[r] \in Cells /\ KvTotal(r) <= Width
        /\ KvTotal(r) \in Nat
    BY Typed, Sizes DEF KvTotal
  <1>2. t \in [1 .. d -> Value]
    <2>1. \A i \in 1 .. d : row[r][e + n + i] \in Value
      <3> HIDE DEF d, e, n, t
      <3>1. \A i \in 1 .. d : e + n + i \in Cell
        BY <1>1, Sizes DEF Cell
      <3> QED
        BY <1>1, <3>1 DEF Cells, Value
    <2> QED
      BY <2>1
  <1>3. \A i \in 1 .. d : t[i] = row[r][e + n + i]
    OBVIOUS
  <1>4. u = EncoderSlots(r) \o t
    BY DEF CommittedLayout
  <1>5. /\ EncoderSlots(r) \in [1 .. e -> Value]
        /\ \A i \in 1 .. e : EncoderSlots(r)[i] = row[r][i]
    BY <1>1, RowParts
  <1> HIDE DEF t, e, d, n, u
  <1>6. Joins(u, EncoderSlots(r), e, t, d)
    BY <1>1, <1>2, <1>4, <1>5, ConcatJoins
  <1>7. u \in [1 .. KvTotal(r) -> Value]
    BY <1>1, <1>6 DEF Joins
  <1>8. Compacted(Restored(r), u, KvTotal(r))
    BY <1>1, <1>7, CompactedRow DEF Restored, u
  <1>9. ASSUME NEW i \in 1 .. KvTotal(r)
        PROVE  u[i] = IF i <= e THEN row[r][i] ELSE row[r][i + n]
    <2>1. CASE i <= e
      <3>1. i \in 1 .. e
        BY <1>1, <2>1
      <3> QED
        BY <1>5, <1>6, <2>1, <3>1 DEF Joins
    <2>2. CASE ~(i <= e)
      <3>1. i \in e + 1 .. e + d /\ i - e \in 1 .. d /\ e + n + (i - e) = i + n
        BY <1>1, <2>2
      <3>2. u[i] = t[i - e]
        BY <1>6, <3>1 DEF Joins
      <3>3. t[i - e] = row[r][i + n]
        BY <1>3, <3>1
      <3> QED
        BY <2>2, <3>2, <3>3
    <2> QED
      BY <2>1, <2>2
  <1> QED
    BY <1>8, <1>9 DEF Compacted, e, n

\* A half-made append is rolled back.
LEMMA RollbackKeeps ==
    ASSUME IInv, RollbackExtend, UNCHANGED <<async_decode, frame_window>>, Quiet,
           pc \in {"stage", "run_extend"}, pc' \in {"prefill", "recv"},
           kv' \in [Req -> Lengths],
           \A q \in Req \ Staged : kv'[q] = kv[q],
           \A q \in Staged :
             /\ kv'[q].enc = kv[q].enc /\ kv'[q].dec = kv[q].dec
             /\ kv'[q].appended = kv[q].appended /\ kv'[q].alloc = KvTotal(q)
             /\ kv'[q].fill <= kv[q].fill /\ kv'[q].fill >= TokenTotal(q) + 1
    PROVE  IInv'
  <1> DEFINE batch == At("extend")
             new(r) == Prefix(row[r], KvTotal(r) + staged[r].len + 1)
                         \ Prefix(Restored(r), KvTotal(r))
  <1>1. /\ row' = [r \in Req |-> IF r \in batch THEN Restored(r) ELSE row[r]]
        /\ free' = free \cup UNION {new(r) : r \in batch}
        /\ st' = [r \in Req |-> IF r \in batch
                                THEN [st[r] EXCEPT !.place = "running", !.phase = "waiting"]
                                ELSE st[r]]
        /\ staged' = [r \in Req |-> NoSegment]
        /\ doomed' = Staged
        /\ UNCHANGED steps
        /\ UNCHANGED <<frames, events, sent, controls, cand>>
    BY Zenon DEF RollbackExtend, Restored, inputs
  <1>2. /\ batch \subseteq Staged /\ Staged \subseteq Req /\ prepared = NoStep
        /\ doomed = {} /\ controls = {} /\ resolving = NoStep /\ cand = {} /\ Staged' = {}
        /\ Staged # {} => pending = NoStep
    BY <1>1 DEF IInv, Control, Flushed, Quiet, PlaceOf, Staged, At
  <1>3. \A q \in Req : StepsKeptOf(q) /\ InFlight(q)' = InFlight(q)
    BY <1>1, StepsUnchanged
  <1>4. \A q \in Staged : InFlight(q) = 0 /\ In(q, prepared) = 0 /\ In(q, pending) = 0
                          /\ In(q, resolving) = 0
    <2> TAKE q \in Staged
    <2>1. In(q, prepared) = 0 /\ In(q, pending) = 0 /\ In(q, resolving) = 0
      BY <1>2, NoStepFlying
    <2> QED
      BY <2>1 DEF InFlight
  <1>5. \A q \in Req : staged'[q] = NoSegment /\ staged'[q].len = 0 /\ staged'[q].enc = 0
                       /\ staged'[q].frames = 0
    BY <1>1, SegmentFields DEF IInv
  <1>6. ASSUME NEW q \in Req, q \in batch
        PROVE  /\ st[q].place = "extend" /\ st'[q] \in Status /\ st'[q].place = "running"
               /\ st'[q].phase = "waiting" /\ st[q].phase # "aborted"
               /\ row'[q] = Restored(q) /\ row'[q] \in Cells
               /\ \A i \in 1 .. KvTotal(q) : row'[q][i] =
                    IF i <= kv[q].enc THEN row[q][i] ELSE row[q][i + staged[q].enc]
               /\ \A i \in KvTotal(q) + 1 .. Width : row'[q][i] = 0
               /\ Used(q) = KvTotal(q) + staged[q].len + 1 /\ Used(q) <= Width
               /\ staged[q].enc <= staged[q].len /\ q \in Staged
    <2>1. st[q].place = "extend" /\ q \in Staged
      BY <1>2, <1>6 DEF At
    <2>2. /\ staged[q].enc <= staged[q].len /\ KvTotal(q) + staged[q].len + 1 <= Width
          /\ st[q].phase # "aborted"
      BY <2>1 DEF IInv, FramesOf, ContextOf, PlaceOf
    <2>3. row'[q] = Restored(q)
      BY <1>1, <1>6
    <2>4. /\ Restored(q) \in Cells
          /\ \A i \in 1 .. KvTotal(q) : Restored(q)[i] =
               IF i <= kv[q].enc THEN row[q][i] ELSE row[q][i + staged[q].enc]
          /\ \A i \in KvTotal(q) + 1 .. Width : Restored(q)[i] = 0
      BY <2>2, RestoredRow DEF IInv
    <2>5. st[q] \in Status
      BY Typed DEF IInv
    <2>6. st'[q] = [st[q] EXCEPT !.place = "running", !.phase = "waiting"]
      BY <1>1, <1>6
    <2>7. st'[q] \in Status /\ st'[q].place = "running" /\ st'[q].phase = "waiting"
      BY <2>5, <2>6 DEF Status, Place, Phase
    <2>8. Used(q) = KvTotal(q) + staged[q].len + 1
      BY <2>1 DEF Used
    <2> QED
      BY <2>1, <2>2, <2>3, <2>4, <2>7, <2>8
  <1>7. ASSUME NEW q \in Req, q \notin batch
        PROVE  st'[q] = st[q] /\ row'[q] = row[q] /\ st[q].place # "extend"
    BY <1>1, <1>7 DEF At
  <1>8. ASSUME NEW q \in Staged, q \notin batch
        PROVE  kv'[q].alloc = kv[q].alloc /\ st[q].place \in Resident
    <2>1. q \in Req /\ st[q].place \in Resident
      BY <1>2, <1>7, <1>8 DEF IInv, PlaceOf
    <2>2. kv[q].alloc = KvTotal(q)
      <3>1. LengthsOf(q) /\ q \notin doomed /\ InFlight(q) = 0
        BY <1>2, <1>4, <1>8, <2>1 DEF IInv
      <3>2. kv[q].alloc \in Nat /\ KvTotal(q) \in Nat
        BY <2>1, Typed DEF IInv
      <3> QED
        BY <2>1, <3>1, <3>2 DEF LengthsOf
    <2> QED
      BY <1>8, <2>1, <2>2
  \* The row of a request of the batch holds a part of what it held.
  <1>9. ASSUME NEW q \in Req
        PROVE  /\ RowOf(q)' /\ Owned(q)' \subseteq Owned(q)
               /\ \A s : s \in Owned(q) /\ s \notin Owned(q)' <=> q \in batch /\ s \in new(q)
    <2>1. CASE q \in batch
      <3>1. Used(q)' = KvTotal(q)
        BY <1>2, <1>6, <2>1 DEF Used
      <3>2. Owned(q)' = Prefix(Restored(q), KvTotal(q))
        BY <1>6, <2>1, <3>1 DEF Owned
      <3>3. new(q) = Owned(q) \ Owned(q)'
        BY <1>6, <2>1, <3>2 DEF Owned
      <3>4. /\ kv[q].enc \in Nat /\ staged[q].enc \in Nat /\ staged[q].len \in Nat
            /\ KvTotal(q) \in Nat /\ kv[q].enc <= KvTotal(q)
        BY Typed DEF IInv, KvTotal
      <3> DEFINE at(i) == IF i <= kv[q].enc THEN i ELSE i + staged[q].enc
      <3>5. \A i \in 1 .. KvTotal(q) : at(i) \in 1 .. Used(q) /\ row'[q][i] = row[q][at(i)]
        BY <1>6, <2>1, <3>4
      <3>6. \A i, j \in 1 .. KvTotal(q) : at(i) = at(j) => i = j
        BY <3>4
      <3> HIDE DEF at
      <3>7. RowOf(q)
        BY DEF IInv, Rows
      <3>8. RowOf(q)'
        BY <3>1, <3>5, <3>6, <3>7 DEF RowOf
      <3>9. Owned(q)' \subseteq Owned(q)
        BY <3>1, <3>5 DEF Owned, Prefix
      <3> QED
        BY <2>1, <3>3, <3>8, <3>9
    <2>2. CASE q \notin batch
      <3>1. Used(q)' = Used(q)
        BY <1>7, <1>8, <2>2 DEF Used
      <3>2. RowOf(q)' /\ Owned(q)' = Owned(q)
        BY <1>7, <2>2, <3>1, SameRow DEF IInv
      <3> QED
        BY <2>2, <3>2
    <2> QED
      BY <2>1, <2>2
  <1> HIDE DEF new
  <1>10. Rows'
    <2>1. \A q \in Req : RowOf(q)' /\ Owned(q)' \subseteq Owned(q)
      BY <1>9
    <2>2. ASSUME NEW s \in Slot
          PROVE  s \in free' <=> \/ s \in free
                                 \/ \E q \in Req : s \in Owned(q) /\ s \notin Owned(q)'
      <3>1. s \in free' <=> s \in free \/ \E q \in batch : s \in new(q)
        BY <1>1
      <3> QED
        BY <1>2, <1>9, <3>1
    <2> QED
      BY <2>1, <2>2, RowsShrink DEF IInv
  <1>11. TypeOK'
    <2>1. \A q \in Req : st'[q] \in Status /\ row'[q] \in Cells
      BY <1>6, <1>7, Typed DEF IInv
    <2>2. st' \in [Req -> Status] /\ row' \in [Req -> Cells]
      <3>1. st' = [q \in Req |-> st'[q]] /\ row' = [q \in Req |-> row'[q]]
        BY <1>1
      <3> HIDE DEF batch
      <3> QED
        BY <2>1, <3>1
    <2>3. free' \subseteq Slot
      <3>1. ASSUME NEW q \in batch PROVE new(q) \subseteq Slot
        <4>1. q \in Req
          BY <1>2
        <4>2. Owned(q) \subseteq Slot
          BY <4>1 DEF IInv, Rows, RowOf, Owned, Prefix
        <4> QED
          BY <1>9, <3>1, <4>1, <4>2
      <3>2. free \subseteq Slot
        BY DEF IInv, TypeOK
      <3>3. UNION {new(r) : r \in batch} \subseteq Slot
        BY <3>1
      <3> QED
        BY <1>1, <3>2, <3>3
    <2>4. staged' \in [Req -> [frames : Nat, enc : Nat, len : Nat]]
      BY <1>1 DEF NoSegment
    <2> QED
      BY <1>1, <1>2, <2>2, <2>3, <2>4, ZenonT(60) DEF IInv, TypeOK, Status, Lengths, Cells, steps, PC
  <1> HIDE DEF batch
  <1>12. Control' /\ Flushed' /\ Capacity'
    <2>1. Control'
      BY <1>1, <1>2 DEF IInv, Control, steps
    <2>2. Flushed' /\ Capacity'
      BY <1>1, <1>2 DEF Flushed, Capacity
    <2> QED
      BY <2>1, <2>2
  <1>13. ASSUME NEW q \in Req
         PROVE  PlaceOf(q)' /\ DueOf(q)' /\ MemoryOf(q)' /\ StepsOf(q)'
    <2>0. StepsKeptOf(q) /\ InFlight(q)' = InFlight(q)
      BY <1>3
    <2>1. CASE q \notin Staged
      <3>1. /\ q \notin batch /\ st'[q] = st[q] /\ row'[q] = row[q] /\ kv'[q] = kv[q]
            /\ staged'[q] = staged[q]
        BY <1>2, <1>5, <1>7, <2>1 DEF Staged
      <3>2. DataOf(q)
        BY <1>1, <3>1 DEF DataOf
      <3>3. MemoryOf(q)' /\ StepsOf(q)'
        BY <1>2, <2>0, <3>2, SameOf, SameSteps DEF IInv, MemoryOf
      <3>4. PlaceOf(q)'
        BY <1>1, <1>2, <2>0, <2>1, <3>1 DEF IInv, PlaceOf
      <3>5. DueOf(q)'
        BY <1>1, <1>2, <2>0, <3>1 DEF IInv, DueOf
      <3> QED
        BY <3>3, <3>4, <3>5
    <2>2. CASE q \in Staged
      <3>1. /\ st'[q].place \in Resident /\ st'[q].phase # "aborted"
            /\ st'[q].phase # "extending" /\ st[q].phase # "aborted"
            /\ st[q].place \in Resident \cup {"extend"}
        <4>1. CASE q \in batch
          BY <1>6, <4>1 DEF Resident
        <4>2. CASE q \notin batch
          BY <1>7, <1>8, <2>2, <4>2 DEF IInv, PlaceOf
        <4> QED
          BY <4>1, <4>2
      <3>2. ~frames[q].due
        BY <3>1 DEF IInv, DueOf
      <3>3. InFlight(q)' = 0 /\ InFlight(q) = 0 /\ q \in doomed' /\ q \notin Staged'
        BY <1>1, <1>2, <1>4, <2>0, <2>2
      <3>4. PlaceOf(q)' /\ DueOf(q)'
        BY <1>1, <1>2, <3>1, <3>2, <3>3 DEF PlaceOf, DueOf, Resident
      <3>5. KvTotal(q)' = KvTotal(q) /\ TokenTotal(q)' = TokenTotal(q) /\ KvTotal(q) \in Nat
        BY <2>2, Typed DEF IInv, KvTotal, TokenTotal
      <3>6. LengthsOf(q)'
        <4>1. kv'[q].appended >= kv'[q].enc
          BY <2>2 DEF IInv, LengthsOf
        <4>2. kv'[q].alloc = KvTotal(q)' + InFlight(q)'
          BY <2>2, <3>3, <3>5
        <4>3. kv'[q].fill >= TokenTotal(q)' + 1 + staged'[q].len
          <5>1. staged'[q].len = 0 /\ TokenTotal(q) \in Nat
            BY <1>5, Typed DEF IInv
          <5> QED
            BY <2>2, <3>5, <5>1
        <4> QED
          BY <2>2, <3>1, <3>3, <3>5, <4>1, <4>2, <4>3 DEF LengthsOf, Resident
      <3>7. FramesOf(q)'
        <4>1. kv[q].enc = (frames[q].raw + frames[q].pooled) * FrameSlots
          BY <3>1 DEF IInv, FramesOf
        <4>2. kv'[q].fill \in Nat
          BY DEF Lengths
        <4>3. kv'[q].enc = (frames'[q].raw + frames'[q].pooled) * FrameSlots
          BY <1>1, <2>2, <4>1
        <4>4. staged'[q].enc = staged'[q].frames * FrameSlots
          BY <1>5, Sizes
        <4> QED
          BY <1>5, <3>1, <4>2, <4>3, <4>4 DEF FramesOf, Resident
      <3>8. ContextOf(q)'
        <4>1. kv[q].fill + 1 <= ContextLimit /\ KvTotal(q) + staged[q].len + 1 <= Width
          BY <2>2 DEF IInv, ContextOf
        <4>2. kv'[q].fill \in Nat /\ kv[q].fill \in Nat /\ staged[q].len \in Nat
          BY Typed DEF IInv, Lengths
        <4>3. kv'[q].fill + InFlight(q)' <= ContextLimit
          BY <2>2, <3>3, <4>1, <4>2, Sizes
        <4>4. kv'[q].alloc <= Width
          BY <2>2, <3>5, <4>1, <4>2, Sizes
        <4> QED
          BY <3>3, <4>3, <4>4 DEF ContextOf
      <3>9. TailOf(q)'
        <4>1. CASE q \in batch
          BY <1>6, <2>2, <3>1, <4>1 DEF TailOf, Resident
        <4>2. CASE q \notin batch
          <5>1. kv'[q].alloc = kv[q].alloc /\ row'[q] = row[q] /\ st'[q] = st[q]
                /\ st[q].place \in Resident
            BY <1>7, <1>8, <2>2, <4>2
          <5> QED
            BY <2>2, <5>1 DEF IInv, TailOf, Resident
        <4> QED
          BY <4>1, <4>2
      <3>10. StepsOf(q)'
        <4>1. In(q, prepared)' = 0 /\ In(q, pending)' = 0 /\ In(q, resolving)' = 0
          BY <1>4, <2>0, <2>2 DEF StepsKeptOf
        <4> QED
          BY <4>1, InType DEF StepsOf
      <3> QED
        BY <3>4, <3>6, <3>7, <3>8, <3>9, <3>10 DEF MemoryOf
    <2> QED
      BY <2>1, <2>2
  <1> QED
    BY <1>10, <1>11, <1>12, <1>13, Together
\* The fill of a request counts what it has staged.
LEMMA StagedFill ==
    ASSUME IInv, NEW q \in Staged
    PROVE  kv[q].fill >= TokenTotal(q) + 1 + staged[q].len
  <1>1. q \in Req /\ st[q].place \in Resident \cup {"extend"}
    BY DEF IInv, PlaceOf, Staged
  <1>2. LengthsOf(q) /\ kv[q].fill \in Nat
    BY <1>1, Typed DEF IInv
  <1> QED
    BY <1>1, <1>2 DEF LengthsOf

\* An extend fails.
LEMMA RunExtendFailsKeeps ==
    ASSUME IInv, RunExtendFails, UNCHANGED <<async_decode, frame_window>>
    PROVE  IInv'
  <1>1. /\ pc = "run_extend" /\ Quiet /\ RollbackExtend /\ pc' = "recv"
        /\ kv' = Settle(kv, Staged)
    BY DEF RunExtendFails
  <1>2. \A q \in Req \ Staged : kv'[q] = kv[q]
    BY <1>1 DEF Settle
  <1>3. ASSUME NEW q \in Staged
        PROVE  /\ kv'[q] \in Lengths
               /\ kv'[q].enc = kv[q].enc /\ kv'[q].dec = kv[q].dec
               /\ kv'[q].appended = kv[q].appended /\ kv'[q].alloc = KvTotal(q)
               /\ kv'[q].fill <= kv[q].fill /\ kv'[q].fill >= TokenTotal(q) + 1
    <2>1. q \in Req
      BY DEF Staged
    <2>2. kv'[q] = [kv[q] EXCEPT !.alloc = KvTotal(q)]
      BY <1>1, <2>1 DEF Settle
    <2>3. /\ kv[q] \in Lengths /\ KvTotal(q) \in Nat /\ TokenTotal(q) \in Nat
          /\ staged[q].len \in Nat /\ kv[q].fill \in Nat
      BY <2>1, Typed DEF IInv
    <2>4. kv[q].fill >= TokenTotal(q) + 1 + staged[q].len
      BY <2>1, <2>3, StagedFill
    <2>5. kv[q].fill >= TokenTotal(q) + 1
      BY <2>3, <2>4
    <2> QED
      BY <2>2, <2>3, <2>5 DEF Lengths
  <1>4. kv' \in [Req -> Lengths]
    <2>1. \A q \in Req : kv'[q] \in Lengths
      BY <1>2, <1>3, Typed DEF IInv
    <2>2. kv' = [q \in Req |-> kv'[q]]
      BY <1>1 DEF Settle
    <2> QED
      BY <2>1, <2>2
  <1> QED
    BY <1>1, <1>2, <1>3, <1>4, RollbackKeeps

\* prepare_for_extend raises.
LEMMA StageFailsKeeps ==
    ASSUME IInv, StageFails, UNCHANGED <<async_decode, frame_window>>
    PROVE  IInv'
  <1>1. /\ pc = "stage" /\ Quiet /\ RollbackExtend /\ pc' = "prefill"
        /\ kv' = Settle(UndoLengths(Staged), Staged)
    BY DEF StageFails
  <1>2. \A q \in Req \ Staged : kv'[q] = kv[q]
    BY <1>1 DEF Settle, UndoLengths
  <1>3. ASSUME NEW q \in Staged
        PROVE  /\ kv'[q] \in Lengths
               /\ kv'[q].enc = kv[q].enc /\ kv'[q].dec = kv[q].dec
               /\ kv'[q].appended = kv[q].appended /\ kv'[q].alloc = KvTotal(q)
               /\ kv'[q].fill <= kv[q].fill /\ kv'[q].fill >= TokenTotal(q) + 1
    <2>1. q \in Req
      BY DEF Staged
    <2> DEFINE l == [kv[q] EXCEPT !.fill = @ - staged[q].len]
    <2>2. kv'[q] = [l EXCEPT !.alloc = KvTotal(q)]
      BY <1>1, <2>1 DEF Settle, UndoLengths
    <2>3. /\ kv[q] \in Lengths /\ KvTotal(q) \in Nat /\ kv[q].fill \in Nat
          /\ staged[q].len \in Nat /\ kv[q].fill - staged[q].len \in Nat
      BY <2>1, Typed DEF IInv, FramesOf
    <2>4. /\ l \in Lengths /\ l.enc = kv[q].enc /\ l.dec = kv[q].dec
          /\ l.appended = kv[q].appended /\ l.fill <= kv[q].fill
          /\ l.fill >= TokenTotal(q) + 1
      <3>1. kv[q].fill >= TokenTotal(q) + 1 + staged[q].len /\ TokenTotal(q) \in Nat
        BY <2>1, Typed, StagedFill DEF IInv
      <3>2. kv[q].fill - staged[q].len >= TokenTotal(q) + 1
        BY <2>3, <3>1
      <3> QED
        BY <2>3, <3>2 DEF Lengths
    <2> HIDE DEF l
    <2> QED
      BY <2>2, <2>3, <2>4 DEF Lengths
  <1>4. kv' \in [Req -> Lengths]
    <2>1. \A q \in Req : kv'[q] \in Lengths
      BY <1>2, <1>3, Typed DEF IInv
    <2>2. kv' = [q \in Req |-> kv'[q]]
      BY <1>1 DEF Settle
    <2> QED
      BY <2>1, <2>2
  <1> QED
    BY <1>1, <1>2, <1>3, <1>4, RollbackKeeps

-----------------------------------------------------------------------------
(* Rows that take slots.                                                   *)

\* One row gives slots back and takes free ones.
LEMMA RowsOne ==
    ASSUME Rows, NEW r \in Req,
           \A q \in Req \ {r} : RowOf(q)' /\ Owned(q)' = Owned(q),
           RowOf(r)', Owned(r)' \subseteq Owned(r) \cup free,
           \A s \in Slot : s \in free' <=> (s \in free \/ s \in Owned(r)) /\ s \notin Owned(r)'
    PROVE  Rows'
  <1>0. free \cap Owned(r) = {} /\ \A q \in Req : Owned(q) \subseteq Slot
    BY DEF Rows, RowOf, Owned, Prefix
  <1>1. \A p, q \in Req : p # q => Owned(p)' \cap Owned(q)' = {}
    <2>1. \A q \in Req \ {r} : Owned(q) \cap Owned(r)' = {}
      BY <1>0 DEF Rows
    <2> QED
      BY <2>1 DEF Rows
  <1>2. ASSUME NEW s \in Slot
        PROVE  s \in free' <=> \A q \in Req : s \notin Owned(q)'
    BY DEF Rows
  <1> QED
    BY <1>1, <1>2 DEF Rows

\* A prefill is chosen.
LEMMA PrefillKeeps ==
    ASSUME IInv, NEW r \in Req, Prefill(r), UNCHANGED <<async_decode, frame_window>>
    PROVE  IInv'
  <1> DEFINE slots == Alloc(PromptLen)
  <1>1. /\ pc = "prefill" /\ Quiet /\ st[r].place = "waiting"
        /\ PromptLen <= Cardinality(free)
        /\ free' = free \ {slots[k] : k \in DOMAIN slots}
        /\ row' = [row EXCEPT ![r] = Write(row[r], 0, slots)]
        /\ kv' = [kv EXCEPT ![r].alloc = PromptLen, ![r].fill = PromptLen]
        /\ st' = [st EXCEPT ![r].place = "prefill"]
        /\ pc' = "run_prefill" /\ Flush
        /\ UNCHANGED <<frames, events, sent, staged, prepared, doomed, controls, cand>>
    BY DEF Prefill, inputs, aborts
  <1>2. /\ prepared = NoStep /\ doomed = {} /\ controls = {} /\ resolving = NoStep
        /\ cand = {} /\ Staged = {} /\ Staged' = {}
    BY <1>1 DEF IInv, Control, Quiet, PlaceOf, Staged, At
  <1>3. /\ slots \in [1 .. PromptLen -> free] /\ DOMAIN slots = 1 .. PromptLen
        /\ \A i, j \in 1 .. PromptLen : slots[i] = slots[j] => i = j
        /\ free \subseteq Slot
    BY <1>1, Sizes, AllocFree DEF IInv, TypeOK
  <1>4. /\ PromptLen \in Nat /\ PromptLen <= Width /\ slots \in [1 .. PromptLen -> Value]
        /\ row[r] \in Cells /\ kv[r] = NoLengths /\ frames[r].raw = 0 /\ frames[r].pooled = 0
        /\ st[r] \in Status /\ InFlight(r) = 0
    BY <1>1, <1>3, Sizes, Typed DEF IInv, Value, LengthsOf, FramesOf, PlaceOf, Resident
  <1> HIDE DEF slots
  <1>5. ASSUME NEW q \in Req, q # r
        PROVE  st'[q] = st[q] /\ DataOf(q)
    BY <1>1, <1>5 DEF IInv, TypeOK, DataOf
  <1>6. /\ st'[r] \in Status /\ st'[r].place = "prefill" /\ st'[r].phase = st[r].phase
    <2>1. st'[r] = [st[r] EXCEPT !.place = "prefill"]
      BY <1>1 DEF IInv, TypeOK
    <2> QED
      BY <1>4, <2>1 DEF Status, Place
  <1>7. /\ kv'[r] \in Lengths /\ kv'[r].enc = 0 /\ kv'[r].dec = 0 /\ kv'[r].appended = 0
        /\ kv'[r].alloc = PromptLen /\ kv'[r].fill = PromptLen
    <2>1. kv'[r] = [kv[r] EXCEPT !.alloc = PromptLen, !.fill = PromptLen]
      BY <1>1 DEF IInv, TypeOK
    <2>2. /\ kv[r] \in Lengths /\ kv[r].enc = 0 /\ kv[r].dec = 0
          /\ kv[r].appended = 0
      BY <1>4 DEF Lengths, NoLengths
    <2>3. PromptLen \in Nat
      BY <1>4
    <2> QED
      BY <2>1, <2>2, <2>3 DEF Lengths
  <1>8. row'[r] \in Cells /\ \A i \in 1 .. PromptLen : row'[r][i] = slots[i]
    <2>1. row'[r] = Write(row[r], 0, slots)
      BY <1>1 DEF IInv, TypeOK
    <2>2. slots \in Seq(Value) /\ Len(slots) = PromptLen
      BY <1>4, FunSeq, Zenon
    <2> DEFINE len == Len(slots)
    <2>3. Write(row[r], 0, slots) = [i \in Cell |-> IF i - 0 \in 1 .. len THEN slots[i - 0]
                                                    ELSE row[r][i]]
      BY DEF Write
    <2>4. len = PromptLen
      BY <2>2
    <2> HIDE DEF len
    <2>5. \A i \in Cell : i - 0 = i
      BY Sizes DEF Cell
    <2>6. row'[r] = [i \in Cell |-> IF i \in 1 .. PromptLen THEN slots[i] ELSE row[r][i]]
      BY <2>1, <2>3, <2>4, <2>5
    <2>7. \A i \in 1 .. PromptLen : i \in Cell
      BY <1>4, Sizes DEF Cell
    <2>8. \A i \in 1 .. PromptLen : row'[r][i] = slots[i]
      BY <2>6, <2>7
    <2>9. row'[r] \in Cells
      BY <1>4, <2>6 DEF Cells, Value
    <2> QED
      BY <2>8, <2>9
  <1>9. TypeOK'
    <2>1. st' \in [Req -> Status]
      BY <1>1, <1>5, <1>6, Typed DEF IInv, TypeOK
    <2>2. kv' \in [Req -> Lengths]
      BY <1>1, <1>5, <1>7, Typed DEF IInv, TypeOK, DataOf
    <2>3. row' \in [Req -> Cells]
      BY <1>1, <1>5, <1>8, Typed DEF IInv, TypeOK, DataOf
    <2>4. free' \subseteq Slot
      BY <1>1, <1>3
    <2>5. pending' \in Step /\ resolving' \in Step /\ prepared' \in Step
      BY <1>1, NoStepType DEF Flush, IInv, TypeOK
    <2> QED
      BY <1>1, <2>1, <2>2, <2>3, <2>4, <2>5 DEF IInv, TypeOK, Status, Lengths, Cells, PC
  <1>10. Control' /\ Flushed' /\ Capacity'
    <2>1. Control'
      BY <1>1, <1>2 DEF IInv, Control, Flush
    <2>2. Flushed' /\ Capacity'
      BY <1>1, <1>2 DEF Flushed, Capacity
    <2> QED
      BY <2>1, <2>2
  <1>11. ASSUME NEW q \in Req
         PROVE  /\ InFlight(q)' = InFlight(q)
                /\ In(q, prepared) = 0 /\ In(q, prepared)' = 0
                /\ In(q, pending)' = 0 /\ In(q, resolving) = 0
                /\ In(q, resolving)' = In(q, pending) /\ In(q, pending) \in {0, 1}
    <2>1. /\ In(q, prepared) = 0 /\ In(q, prepared)' = 0
          /\ In(q, pending)' = 0 /\ In(q, resolving) = 0
          /\ In(q, resolving)' = In(q, pending) /\ In(q, pending) \in {0, 1}
      BY <1>1, <1>2, EmptyStep DEF In, Flush
    <2> QED
      BY <2>1 DEF InFlight
  <1>12. ASSUME NEW q \in Req, q # r
         PROVE  /\ PlaceOf(q)' /\ DueOf(q)' /\ MemoryOf(q)' /\ StepsOf(q)'
                /\ RowOf(q)' /\ Owned(q)' = Owned(q)
    <2>1. st'[q] = st[q] /\ DataOf(q) /\ Used(q)' = Used(q) /\ InFlight(q)' = InFlight(q)
      BY <1>5, <1>11, <1>12, DataUsed
    <2>2. MemoryOf(q)'
      BY <1>1, <1>2, <2>1, SameOf DEF IInv, MemoryOf
    <2>3. StepsOf(q)'
      <3>1. kv[q].alloc \in Nat
        BY Typed DEF IInv
      <3>2. StepsOf(q)
        BY DEF IInv
      <3>3. /\ row'[q] = row[q] /\ kv'[q] = kv[q] /\ st'[q] = st[q]
            /\ pending' = NoStep /\ resolving' = pending /\ prepared' = NoStep
            /\ prepared = NoStep
        BY <1>1, <1>2, <2>1 DEF DataOf, Flush
      <3>4. q \notin DOMAIN prepared' /\ q \notin DOMAIN pending'
        BY <3>3, EmptyStep
      <3>5. /\ In(q, prepared) = 0 /\ In(q, prepared)' = 0 /\ In(q, pending)' = 0
        BY <1>11
      <3>6. kv[q].alloc - 0 = kv[q].alloc /\ kv[q].alloc - 0 - 0 = kv[q].alloc
        BY <3>1
      <3>7. st[q].place \in Resident /\ q \in DOMAIN pending =>
              pending[q] = row[q][kv[q].alloc]
        BY <3>2, <3>5, <3>6 DEF StepsOf
      <3> QED
        BY <3>3, <3>4, <3>5, <3>6, <3>7 DEF StepsOf
    <2>4. PlaceOf(q)'
      BY <1>1, <1>2, <2>1 DEF IInv, PlaceOf, DataOf
    <2>5. DueOf(q)'
      BY <1>1, <1>2, <2>1 DEF IInv, DueOf, DataOf
    <2>6. RowOf(q)' /\ Owned(q)' = Owned(q)
      BY <2>1, SameRow DEF IInv, DataOf
    <2> QED
      BY <2>2, <2>3, <2>4, <2>5, <2>6
  <1>13. /\ PlaceOf(r)' /\ DueOf(r)' /\ MemoryOf(r)' /\ StepsOf(r)'
         /\ RowOf(r)' /\ Owned(r) = {} /\ Owned(r)' = {slots[k] : k \in 1 .. PromptLen}
    <2>1. staged'[r].len = 0 /\ staged'[r].enc = 0 /\ staged'[r].frames = 0 /\ r \notin Staged'
      BY <1>1, <1>2, SegmentFields DEF IInv
    <2>2. PlaceOf(r)'
      <3>1. st[r].phase # "aborted"
        BY <1>1 DEF IInv, PlaceOf
      <3> QED
        BY <1>4, <1>6, <1>11, <2>1, <3>1 DEF PlaceOf, Resident
    <2>3. DueOf(r)'
      BY <1>1, <1>2, <1>6 DEF IInv, DueOf, Resident
    <2>4. LengthsOf(r)'
      BY <1>1, <1>6, <1>7 DEF LengthsOf, Resident
    <2>5. FramesOf(r)'
      BY <1>1, <1>4, <1>6, <1>7, <2>1, Sizes DEF FramesOf, Resident
    <2>6. ContextOf(r)' /\ TailOf(r)' /\ StepsOf(r)'
      BY <1>4, <1>6, <1>7, <2>1 DEF ContextOf, TailOf, StepsOf, Resident
    <2>7. Used(r)' = PromptLen /\ Used(r) = 0
      BY <1>1, <1>4, <1>6, <1>7, GoneFields DEF Used
    <2>8. RowOf(r)'
      BY <1>3, <1>8, <2>7 DEF RowOf
    <2>9. Owned(r) = {} /\ Owned(r)' = {slots[k] : k \in 1 .. PromptLen}
      BY <1>8, <2>7 DEF Owned, Prefix
    <2> QED
      BY <2>2, <2>3, <2>4, <2>5, <2>6, <2>8, <2>9 DEF MemoryOf
  <1>14. Rows'
    <2>1. Owned(r)' \subseteq Owned(r) \cup free
      BY <1>3, <1>13
    <2>2. \A s \in Slot : s \in free' <=> (s \in free \/ s \in Owned(r)) /\ s \notin Owned(r)'
      BY <1>1, <1>3, <1>13
    <2>3. \A q \in Req \ {r} : RowOf(q)' /\ Owned(q)' = Owned(q)
      BY <1>12
    <2> QED
      BY <1>13, <2>1, <2>2, <2>3, RowsOne DEF IInv
  <1> QED
    BY <1>9, <1>10, <1>12, <1>13, <1>14, Together

\* prepare_for_decode gives every request of the batch a slot of its own.
LEMMA BatchSlotsFree ==
    ASSUME free \subseteq Slot, NEW batch, IsFiniteSet(batch),
           Cardinality(batch) <= Cardinality(free)
    PROVE  /\ BatchSlots(batch) \in [batch -> free]
           /\ \A r, q \in batch : BatchSlots(batch)[r] = BatchSlots(batch)[q] => r = q
  <1> DEFINE n == Cardinality(batch)
             slots == Alloc(n)
             S == {slots[k] : k \in DOMAIN slots}
             Distinct(f) == \A r, q \in batch : f[r] = f[q] => r = q
  <1>1. n \in Nat /\ ExistsBijection(1 .. n, batch)
    BY FS_CardinalityType
  <1>2. PICK g : g \in Bijection(batch, 1 .. n)
    <2>1. ExistsBijection(batch, 1 .. n)
      BY <1>1, Fun_ExistsBijSymmetric
    <2> QED
      BY <2>1, Fun_ExistsBij
  <1>3. /\ slots \in [1 .. n -> free] /\ \A i, j \in 1 .. n : slots[i] = slots[j] => i = j
    BY <1>1, AllocFree
  <1>4. g \in [batch -> 1 .. n] /\ \A r, q \in batch : g[r] = g[q] => r = q
    BY <1>2 DEF Bijection, Injection, IsInjective
  <1> HIDE DEF slots, n
  <1>5. S \subseteq free
    BY <1>3
  <1> DEFINE h == [r \in batch |-> slots[g[r]]]
  <1>6. h \in [batch -> S]
    BY <1>3, <1>4
  <1>7. Distinct(h)
    BY <1>3, <1>4
  <1>8. \E f \in [batch -> S] : Distinct(f)
    BY <1>6, <1>7
  <1> DEFINE c == CHOOSE f \in [batch -> S] : Distinct(f)
  <1>9. c \in [batch -> S] /\ Distinct(c)
    BY <1>8
  <1>10. BatchSlots(batch) = c
    BY DEF BatchSlots, slots, n
  <1> HIDE DEF c, S
  <1> QED
    BY <1>5, <1>9, <1>10

\* Some rows take one free slot each.
LEMMA RowsGrow ==
    ASSUME Rows, NEW batch \in SUBSET Req, NEW slot \in [batch -> free],
           \A p, q \in batch : slot[p] = slot[q] => p = q,
           free \subseteq Slot,
           free' = free \ {slot[q] : q \in batch},
           \A q \in Req : RowOf(q)',
           \A q \in Req \ batch : Owned(q)' = Owned(q),
           \A q \in batch : Owned(q)' = Owned(q) \cup {slot[q]}
    PROVE  Rows'
  <1>0. \A q \in Req : free \cap Owned(q) = {}
    BY DEF Rows
  <1>1. ASSUME NEW p \in Req, NEW q \in Req, p # q PROVE Owned(p)' \cap Owned(q)' = {}
    <2>1. Owned(p) \cap Owned(q) = {}
      BY <1>1 DEF Rows
    <2> QED
      BY <1>0, <1>1, <2>1
  <1>2. ASSUME NEW s \in Slot
        PROVE  s \in free' <=> \A q \in Req : s \notin Owned(q)'
    <2>1. s \in free <=> \A q \in Req : s \notin Owned(q)
      BY DEF Rows
    <2> QED
      BY <2>1
  <1> QED
    BY <1>1, <1>2 DEF Rows

\* The rows of a decode batch grow.
LEMMA PrepareDecodeKeeps ==
    ASSUME IInv, PrepareDecode, UNCHANGED <<async_decode, frame_window>>
    PROVE  IInv'
  <1> DEFINE batch == At("running")
             slot == BatchSlots(batch)
  <1>1. /\ pc = "decode" /\ Quiet /\ pc' = "run_decode"
        /\ free' = free \ {slot[r] : r \in batch}
        /\ kv' = [r \in Req |-> IF r \in batch THEN [kv[r] EXCEPT !.alloc = @ + 1]
                                ELSE kv[r]]
        /\ row' = [r \in Req |-> IF r \in batch
                                 THEN [row[r] EXCEPT ![kv[r].alloc + 1] = slot[r]]
                                 ELSE row[r]]
        /\ prepared' = slot
        /\ UNCHANGED <<st, frames, events, sent, staged, pending, resolving, doomed,
                       controls, cand>>
    BY DEF PrepareDecode, inputs, aborts
  <1>2. /\ batch \in SUBSET Req /\ prepared = NoStep
        /\ resolving = NoStep /\ doomed = {} /\ controls = {}
        /\ cand = {} /\ Staged = {} /\ Staged' = {}
    BY <1>1 DEF IInv, Control, Quiet, PlaceOf, Staged, At
  <1>3. /\ slot \in [batch -> free] /\ DOMAIN slot = batch /\ free \subseteq Slot
        /\ \A p, q \in batch : slot[p] = slot[q] => p = q
    <2>1. IsFiniteSet(batch)
      BY <1>2, SizesAssumption, FS_Subset
    <2>2. Cardinality(batch) <= Cardinality(free) /\ free \subseteq Slot
      BY <1>1 DEF IInv, Capacity, CheckDecodeMem, TypeOK
    <2> HIDE DEF batch
    <2> QED
      BY <2>1, <2>2, BatchSlotsFree
  <1>4. ASSUME NEW q \in Req
        PROVE  /\ In(q, prepared)' = IF st[q].place = "running" THEN 1 ELSE 0
               /\ In(q, prepared) = 0 /\ In(q, resolving) = 0 /\ In(q, resolving)' = 0
               /\ In(q, pending)' = In(q, pending) /\ In(q, pending) \in {0, 1}
               /\ InFlight(q)' = In(q, prepared)' + In(q, pending)
               /\ InFlight(q) = In(q, pending)
    <2>1. In(q, prepared)' = IF st[q].place = "running" THEN 1 ELSE 0
      BY <1>1, <1>2, <1>3 DEF In, At
    <2>2. /\ In(q, prepared) = 0 /\ In(q, resolving) = 0 /\ In(q, resolving)' = 0
          /\ In(q, pending)' = In(q, pending) /\ In(q, pending) \in {0, 1}
      BY <1>1, <1>2, EmptyStep DEF In
    <2> QED
      BY <2>1, <2>2 DEF InFlight
  <1> HIDE DEF slot
  <1>5. ASSUME NEW q \in Req, q \in batch
        PROVE  /\ st[q].place = "running" /\ kv[q].alloc \in Nat /\ KvTotal(q) \in Nat
               /\ kv[q].alloc = KvTotal(q) + InFlight(q) /\ kv[q].alloc + 1 <= Width
               /\ kv[q].fill = TokenTotal(q) + 1 + staged[q].len
               /\ kv[q].fill + InFlight(q) + 1 <= ContextLimit
               /\ kv'[q] \in Lengths /\ kv'[q].enc = kv[q].enc /\ kv'[q].dec = kv[q].dec
               /\ kv'[q].appended = kv[q].appended /\ kv'[q].alloc = kv[q].alloc + 1
               /\ kv'[q].fill = kv[q].fill
               /\ row'[q] \in Cells /\ slot[q] \in Slot
               /\ \A i \in Cell : row'[q][i] = IF i = kv[q].alloc + 1 THEN slot[q]
                                               ELSE row[q][i]
    <2>1. st[q].place = "running"
      BY <1>5 DEF At
    <2>2. /\ kv[q].alloc \in Nat /\ KvTotal(q) \in Nat /\ kv[q] \in Lengths /\ row[q] \in Cells
          /\ kv[q].enc \in Nat /\ kv[q].dec \in Nat /\ kv[q].appended \in Nat
          /\ kv[q].fill \in Nat /\ InFlight(q) \in Nat
      BY <1>4, Typed DEF IInv
    <2>3. /\ kv[q].alloc = KvTotal(q) + InFlight(q)
          /\ kv[q].fill = TokenTotal(q) + 1 + staged[q].len
      BY <1>2, <2>1, <2>2 DEF IInv, LengthsOf, Resident
    <2>4. staged[q].len = 0
      BY <1>2, SegmentFields DEF IInv
    <2>5. ~CapacityError(q)
      BY <1>1, <1>2, <1>5 DEF IInv, Capacity
    <2>6. kv[q].alloc + 1 <= Width /\ kv[q].fill + InFlight(q) + 1 <= ContextLimit
      BY <2>2, <2>3, <2>4, <2>5, Sizes DEF CapacityError, KvTotal, TokenTotal
    <2>7. /\ kv'[q] = [kv[q] EXCEPT !.alloc = @ + 1]
          /\ row'[q] = [row[q] EXCEPT ![kv[q].alloc + 1] = slot[q]]
      BY <1>1, <1>5
    <2>8. /\ kv'[q] \in Lengths /\ kv'[q].enc = kv[q].enc /\ kv'[q].dec = kv[q].dec
          /\ kv'[q].appended = kv[q].appended /\ kv'[q].alloc = kv[q].alloc + 1
          /\ kv'[q].fill = kv[q].fill
      BY <2>2, <2>7 DEF Lengths
    <2>9. slot[q] \in Slot
      BY <1>3, <1>5
    <2>10. /\ row'[q] \in Cells
           /\ \A i \in Cell : row'[q][i] = IF i = kv[q].alloc + 1 THEN slot[q]
                                           ELSE row[q][i]
      BY <2>2, <2>7, <2>9 DEF Cells
    <2> QED
      BY <2>1, <2>2, <2>3, <2>6, <2>8, <2>9, <2>10
  <1>6. ASSUME NEW q \in Req, q \notin batch
        PROVE  kv'[q] = kv[q] /\ row'[q] = row[q] /\ st[q].place # "running" /\ DataOf(q)
    <2>1. kv'[q] = kv[q] /\ row'[q] = row[q] /\ st[q].place # "running"
      BY <1>1, <1>6 DEF At
    <2> QED
      BY <1>1, <2>1 DEF DataOf
  <1>7. TypeOK'
    <2>1. \A q \in Req : kv'[q] \in Lengths /\ row'[q] \in Cells
      BY <1>5, <1>6, Typed DEF IInv
    <2>2. kv' \in [Req -> Lengths] /\ row' \in [Req -> Cells]
      <3>1. kv' = [q \in Req |-> kv'[q]] /\ row' = [q \in Req |-> row'[q]]
        BY <1>1
      <3> HIDE DEF batch
      <3> QED
        BY <2>1, <3>1
    <2>3. free' \subseteq Slot
      BY <1>1, <1>3
    <2>4. prepared' \in Step
      <3>1. slot \in [DOMAIN slot -> Slot] /\ DOMAIN slot \subseteq Req
        BY <1>2, <1>3
      <3> QED
        BY <1>1, <3>1, StepType
    <2> QED
      BY <1>1, <1>2, <2>2, <2>3, <2>4 DEF IInv, TypeOK, Lengths, Cells, PC
  <1>8. Control' /\ Flushed' /\ Capacity'
    <2>1. Control'
      BY <1>1, <1>2, <1>3 DEF IInv, Control, Quiet, At
    <2>2. Flushed' /\ Capacity'
      BY <1>1, <1>2 DEF Flushed, Capacity
    <2> QED
      BY <2>1, <2>2
  <1>9. \A q \in Req : DueOf(q)'
    <2> TAKE q \in Req
    <2>1. ~(frames[q].due /\ st[q].place \in Resident \cup {"extend"}
              /\ st[q].phase # "aborted")
      BY <1>1 DEF IInv, DueOf
    <2>2. frames[q].due => frames[q].raw > 0
      BY DEF IInv, DueOf
    <2> QED
      BY <1>1, <1>2, <2>1, <2>2 DEF DueOf
  <1> HIDE DEF batch
  <1>10. ASSUME NEW q \in Req, q \notin batch
         PROVE  /\ PlaceOf(q)' /\ MemoryOf(q)' /\ StepsOf(q)'
                /\ RowOf(q)' /\ Owned(q)' = Owned(q)
    <2>1. StepsKeptOf(q) /\ InFlight(q)' = InFlight(q)
      <3>1. In(q, prepared)' = 0 /\ q \notin DOMAIN prepared
        BY <1>2, <1>4, <1>6, <1>10, EmptyStep
      <3> QED
        BY <1>1, <1>4, <3>1 DEF StepsKeptOf
    <2>2. MemoryOf(q)' /\ StepsOf(q)' /\ Used(q)' = Used(q)
      BY <1>1, <1>2, <1>6, <1>10, <2>1, SameOf, SameSteps, DataUsed DEF IInv, MemoryOf
    <2>3. RowOf(q)' /\ Owned(q)' = Owned(q)
      BY <1>6, <1>10, <2>2, SameRow DEF IInv
    <2>4. PlaceOf(q)'
      BY <1>1, <1>2, <2>1 DEF IInv, PlaceOf
    <2> QED
      BY <2>2, <2>3, <2>4
  <1>11. ASSUME NEW q \in Req, q \in batch
         PROVE  /\ PlaceOf(q)' /\ MemoryOf(q)' /\ StepsOf(q)'
                /\ RowOf(q)' /\ Owned(q)' = Owned(q) \cup {slot[q]}
    <2>1. st'[q] = st[q] /\ st[q].place = "running" /\ In(q, prepared)' = 1
      BY <1>1, <1>4, <1>5, <1>11
    <2>2. KvTotal(q)' = KvTotal(q) /\ TokenTotal(q)' = TokenTotal(q)
      BY <1>5, <1>11 DEF KvTotal, TokenTotal
    <2>3. /\ kv'[q].alloc = KvTotal(q)' + InFlight(q)' /\ kv'[q].alloc \in Nat
          /\ InFlight(q)' = InFlight(q) + 1 /\ InFlight(q) \in Nat
      BY <1>4, <1>5, <1>11, <2>1, <2>2
    <2>4. PlaceOf(q)'
      BY <1>1, <1>2, <2>1 DEF IInv, PlaceOf, Resident
    <2>5. LengthsOf(q)'
      <3>1. kv'[q].appended >= kv'[q].enc
        BY <1>5, <1>11 DEF IInv, LengthsOf
      <3>2. kv'[q].fill = TokenTotal(q)' + 1 + staged'[q].len
        BY <1>1, <1>5, <1>11, <2>2
      <3>3. kv'[q].fill >= TokenTotal(q)' + 1 + staged'[q].len
        BY <1>5, <1>11, <3>2 DEF Lengths
      <3> QED
        BY <1>5, <1>11, <2>1, <2>2, <2>3, <3>1, <3>2, <3>3 DEF LengthsOf, Resident
    <2>6. FramesOf(q)'
      <3>1. FramesOf(q)
        BY DEF IInv
      <3>2. /\ staged'[q] = staged[q] /\ frames'[q] = frames[q]
            /\ kv'[q].enc = kv[q].enc /\ kv'[q].fill = kv[q].fill
        BY <1>1, <1>5, <1>11
      <3> QED
        BY <2>1, <3>1, <3>2 DEF FramesOf
    <2>7. ContextOf(q)'
      <3>1. kv'[q].fill + InFlight(q)' <= ContextLimit
        <4>1. kv[q].fill \in Nat
          BY Typed DEF IInv
        <4> QED
          BY <1>5, <1>11, <2>3, <4>1, Sizes
      <3> QED
        BY <1>2, <1>5, <1>11, <3>1 DEF ContextOf
    <2>8. TailOf(q)'
      <3>1. \A i \in kv'[q].alloc + 1 .. Width : /\ i \in kv[q].alloc + 1 .. Width
                                                 /\ i \in Cell /\ i # kv[q].alloc + 1
        BY <1>5, <1>11, Sizes DEF Cell
      <3>2. kv[q].appended > kv[q].enc => \A i \in kv[q].alloc + 1 .. Width : row[q][i] = 0
        BY <2>1 DEF IInv, TailOf, Resident
      <3>3. kv'[q].appended > kv'[q].enc =>
              \A i \in kv'[q].alloc + 1 .. Width : row'[q][i] = 0
        BY <1>5, <1>11, <3>1, <3>2
      <3> QED
        BY <2>1, <3>3 DEF TailOf
    <2>9. /\ Used(q)' = kv[q].alloc + 1 /\ Used(q) = kv[q].alloc
          /\ kv[q].alloc \in Nat /\ kv[q].alloc + 1 <= Width
      BY <1>5, <1>11, <2>1 DEF Used
    <2>10. /\ \A i \in 1 .. Used(q) : i \in Cell /\ row'[q][i] = row[q][i]
           /\ row'[q][Used(q) + 1] = slot[q] /\ Used(q) + 1 \in Cell
      BY <1>5, <1>11, <2>9, Sizes DEF Cell
    <2>11. StepsOf(q)'
      <3>1. q \in DOMAIN pending => /\ pending[q] = row[q][kv[q].alloc]
                                    /\ kv[q].alloc >= 1
        <4>1. kv[q].alloc - 0 = kv[q].alloc
          BY <2>9
        <4>2. q \in DOMAIN pending => In(q, pending) = 1
          BY DEF In
        <4>3. q \in DOMAIN pending => kv[q].alloc >= 1
          BY <1>4, <1>5, <1>11, <4>2
        <4> QED
          BY <1>4, <2>1, <4>1, <4>3 DEF IInv, StepsOf, Resident
      <3>2. q \in DOMAIN pending' => pending'[q] = row'[q][kv'[q].alloc - In(q, prepared)']
        <4> HAVE q \in DOMAIN pending'
        <4>1. pending[q] = row[q][kv[q].alloc] /\ kv[q].alloc \in 1 .. Used(q)
          BY <1>1, <2>9, <3>1
        <4>2. kv'[q].alloc - In(q, prepared)' = kv[q].alloc
          BY <1>5, <1>11, <2>1
        <4> QED
          BY <1>1, <2>10, <4>1, <4>2
      <3>3. prepared'[q] = row'[q][kv'[q].alloc]
        BY <1>1, <1>5, <1>11, <2>9, <2>10, ZenonT(60)
      <3>4. q \notin DOMAIN resolving'
        BY <1>1, <1>2, EmptyStep
      <3> QED
        BY <3>2, <3>3, <3>4 DEF StepsOf
    <2>12. RowOf(q)'
      <3>1. slot[q] \in free /\ slot[q] \in Slot /\ slot[q] \notin Owned(q)
        BY <1>3, <1>11 DEF IInv, Rows
      <3>2. \A i \in 1 .. Used(q) : row[q][i] # slot[q]
        BY <3>1, OwnedDef
      <3>3. \A i \in 1 .. Used(q) : row[q][i] \in Slot
        BY DEF IInv, Rows, RowOf
      <3>4. \A i, j \in 1 .. Used(q) : row[q][i] = row[q][j] => i = j
        BY DEF IInv, Rows, RowOf
      <3>5. \A i \in 1 .. Used(q) + 1 : i \in 1 .. Used(q) \/ i = Used(q) + 1
        BY <2>9
      <3>6. Used(q)' = Used(q) + 1
        BY <2>9
      <3> QED
        BY <2>10, <3>1, <3>2, <3>3, <3>4, <3>5, <3>6 DEF RowOf
    <2>13. Owned(q)' = Owned(q) \cup {slot[q]}
      <3>1. 1 .. Used(q)' = (1 .. Used(q)) \cup {Used(q) + 1}
        BY <2>9
      <3> QED
        BY <2>10, <3>1 DEF Owned, Prefix
    <2> QED
      BY <2>4, <2>5, <2>6, <2>7, <2>8, <2>11, <2>12, <2>13 DEF MemoryOf
  <1>12. Rows'
    <2>1. \A q \in Req : RowOf(q)'
      BY <1>10, <1>11
    <2>2. \A q \in Req \ batch : Owned(q)' = Owned(q)
      BY <1>10
    <2>3. \A q \in batch : Owned(q)' = Owned(q) \cup {slot[q]}
      BY <1>2, <1>11
    <2> QED
      BY <1>1, <1>2, <1>3, <2>1, <2>2, <2>3, RowsGrow DEF IInv
  <1> QED
    BY <1>7, <1>8, <1>9, <1>10, <1>11, <1>12, Together

-----------------------------------------------------------------------------
(* Staging an extend.                                                      *)

\* u is the part a .. b of the layout f.
Slice(u, f, a, b) ==
    /\ u \in [1 .. b - a + 1 -> Value]
    /\ \A i \in 1 .. b - a + 1 : u[i] = f[i + a - 1]

\* What SubSeq does, cell by cell.
LEMMA SubSeqSlice ==
    ASSUME NEW n \in Nat, NEW f \in [1 .. n -> Value], NEW a \in Nat, NEW b \in Nat,
           1 <= a, a <= b + 1, b <= n
    PROVE  Slice(SubSeq(f, a, b), f, a, b)
  <1>1. f \in Seq(Value) /\ Len(f) = n
    BY FunSeq
  <1>2. \A i \in a .. b : f[i] \in Value
    OBVIOUS
  <1>3. SubSeq(f, a, b) = [i \in 1 .. b - a + 1 |-> f[i + a - 1]]
    <2>1. a \in 1 .. Len(f) + 1 /\ b \in a - 1 .. Len(f)
      BY <1>1
    <2> QED
      BY <1>1, <2>1
  <1>4. \A i \in 1 .. b - a + 1 : i + a - 1 \in a .. b
    OBVIOUS
  <1> QED
    BY <1>2, <1>3, <1>4 DEF Slice

\* Where position i of the spliced layout comes from, in the row of k = enc + dec
\* cells followed by the new slots: vision moves in front of the text, and the
\* pending token's slot behind it.
From(i, enc, k, e) ==
    IF i <= enc THEN i
    ELSE IF i <= enc + e THEN k - enc + i + 1
    ELSE IF i <= k + e THEN i - e
    ELSE IF i = k + e + 1 THEN k + 1
    ELSE i

Spliced(u, cells, new, enc, k, e, n) ==
    /\ u \in [1 .. k + n -> Value]
    /\ \A i \in 1 .. k + n :
         u[i] = IF From(i, enc, k, e) <= k THEN cells[From(i, enc, k, e)]
                ELSE new[From(i, enc, k, e) - k]

Layout(r, new, e, n) ==
    EncoderSlots(r) \o SubSeq(new, 2, e + 1)
        \o DecoderSlots(r) \o <<new[1]>> \o SubSeq(new, e + 2, n)

\* The layout of an append, cell by cell: encoder, new encoder, decoder, new decoder.
LEMMA LayoutSpliced ==
    ASSUME TypeOK, NEW r \in Req, NEW n \in Nat, NEW e \in Nat, e + 1 <= n,
           NEW new \in [1 .. n -> Value], KvTotal(r) <= Width
    PROVE  Spliced(Layout(r, new, e, n), row[r], new, kv[r].enc, KvTotal(r), e, n)
  <1> DEFINE m == kv[r].enc
             d == kv[r].dec
             A == SubSeq(new, 2, e + 1)
             B == SubSeq(new, e + 2, n)
             P == <<new[1]>>
             u1 == EncoderSlots(r) \o A
             u2 == u1 \o DecoderSlots(r)
             u3 == u2 \o P
             u4 == u3 \o B
             k == KvTotal(r)
  <1>1. m \in Nat /\ d \in Nat /\ k = m + d /\ k \in Nat
    BY Typed DEF KvTotal
  <1>2. Slice(A, new, 2, e + 1) /\ Slice(B, new, e + 2, n)
    BY SubSeqSlice
  <1>3. /\ EncoderSlots(r) \in [1 .. m -> Value]
        /\ \A i \in 1 .. m : EncoderSlots(r)[i] = row[r][i]
        /\ DecoderSlots(r) \in [1 .. d -> Value]
        /\ \A i \in 1 .. d : DecoderSlots(r)[i] = row[r][m + i]
    BY RowParts
  <1>4. P \in [1 .. 1 -> Value] /\ P[1] = new[1]
    OBVIOUS
  <1>5. Layout(r, new, e, n) = u4
    BY DEF Layout
  <1> HIDE DEF m, d, A, B, P, k
  <1>6. /\ A \in [1 .. e -> Value] /\ \A i \in 1 .. e : A[i] = new[i + 1]
        /\ B \in [1 .. n - e - 1 -> Value]
        /\ \A i \in 1 .. n - e - 1 : B[i] = new[i + e + 1]
    <2>1. (e + 1) - 2 + 1 = e /\ n - (e + 2) + 1 = n - e - 1
      OBVIOUS
    <2>2. A \in [1 .. e -> Value] /\ B \in [1 .. n - e - 1 -> Value]
      BY <1>2, <2>1 DEF Slice
    <2>3. \A i \in 1 .. e : A[i] = new[i + 2 - 1] /\ i + 2 - 1 = i + 1
      BY <1>2, <2>1 DEF Slice
    <2>4. \A i \in 1 .. n - e - 1 : B[i] = new[i + (e + 2) - 1] /\ i + (e + 2) - 1 = i + e + 1
      BY <1>2, <2>1 DEF Slice
    <2> QED
      BY <2>2, <2>3, <2>4
  <1>7. Joins(u1, EncoderSlots(r), m, A, e)
    BY <1>1, <1>3, <1>6, ConcatJoins
  <1>8. u1 \in [1 .. m + e -> Value] /\ m + e \in Nat
    BY <1>1, <1>7 DEF Joins
  <1> HIDE DEF u1
  <1>9. Joins(u2, u1, m + e, DecoderSlots(r), d)
    BY <1>1, <1>3, <1>8, ConcatJoins
  <1>10. u2 \in [1 .. m + e + d -> Value] /\ m + e + d \in Nat
    BY <1>1, <1>9 DEF Joins
  <1> HIDE DEF u2
  <1>11. Joins(u3, u2, m + e + d, P, 1)
    BY <1>1, <1>4, <1>10, ConcatJoins
  <1>12. u3 \in [1 .. m + e + d + 1 -> Value] /\ m + e + d + 1 \in Nat
    BY <1>1, <1>11 DEF Joins
  <1> HIDE DEF u3
  <1>13. Joins(u4, u3, m + e + d + 1, B, n - e - 1)
    BY <1>1, <1>6, <1>12, ConcatJoins
  <1>14. u4 \in [1 .. k + n -> Value]
    <2>1. m + e + d + 1 + (n - e - 1) = k + n
      BY <1>1
    <2> QED
      BY <1>13, <2>1 DEF Joins
  <1> HIDE DEF u4
  <1>15. ASSUME NEW i \in 1 .. k + n
         PROVE  u4[i] = IF From(i, m, k, e) <= k THEN row[r][From(i, m, k, e)]
                        ELSE new[From(i, m, k, e) - k]
    <2>1. CASE i <= m
      <3>1. /\ i \in 1 .. m /\ i \in 1 .. m + e /\ i \in 1 .. m + e + d
            /\ i \in 1 .. m + e + d + 1
        BY <1>1, <2>1
      <3>2. u4[i] = row[r][i]
        BY <1>3, <1>7, <1>9, <1>11, <1>13, <3>1 DEF Joins
      <3>3. From(i, m, k, e) = i /\ i <= k
        BY <1>1, <2>1 DEF From
      <3> QED
        BY <3>2, <3>3
    <2>2. CASE m < i /\ i <= m + e
      <3>1. /\ i \in m + 1 .. m + e /\ i \in 1 .. m + e /\ i \in 1 .. m + e + d
            /\ i \in 1 .. m + e + d + 1 /\ i - m \in 1 .. e
        BY <1>1, <2>2
      <3>2. u4[i] = A[i - m]
        BY <1>7, <1>9, <1>11, <1>13, <3>1 DEF Joins
      <3>3. From(i, m, k, e) - k = (i - m) + 1 /\ ~(From(i, m, k, e) <= k)
        BY <1>1, <2>2 DEF From
      <3>4. A[i - m] = new[(i - m) + 1]
        BY <1>6, <3>1
      <3> QED
        BY <3>2, <3>3, <3>4
    <2>3. CASE m + e < i /\ i <= m + e + d
      <3>1. /\ i \in m + e + 1 .. m + e + d /\ i \in 1 .. m + e + d
            /\ i \in 1 .. m + e + d + 1 /\ i - (m + e) \in 1 .. d
            /\ m + (i - (m + e)) = i - e
        BY <1>1, <2>3
      <3>2. u4[i] = DecoderSlots(r)[i - (m + e)]
        BY <1>9, <1>11, <1>13, <3>1 DEF Joins
      <3>3. From(i, m, k, e) = i - e /\ i - e <= k
        BY <1>1, <2>3 DEF From
      <3> QED
        BY <1>3, <3>1, <3>2, <3>3
    <2>4. CASE i = m + e + d + 1
      <3>1. /\ i \in m + e + d + 1 .. m + e + d + 1 /\ i \in 1 .. m + e + d + 1
            /\ i - (m + e + d) = 1
        BY <1>1, <2>4
      <3>2. u4[i] = u3[i]
        BY <1>13, <3>1 DEF Joins
      <3>3. u3[i] = P[i - (m + e + d)]
        BY <1>11, <3>1 DEF Joins
      <3>4. From(i, m, k, e) - k = 1 /\ ~(From(i, m, k, e) <= k)
        BY <1>1, <2>4 DEF From
      <3> QED
        BY <1>4, <3>1, <3>2, <3>3, <3>4
    <2>5. CASE m + e + d + 1 < i
      <3>1. /\ i \in m + e + d + 1 + 1 .. m + e + d + 1 + (n - e - 1)
            /\ i - (m + e + d + 1) \in 1 .. n - e - 1
            /\ i - (m + e + d + 1) + e + 1 = i - k
        BY <1>1, <2>5
      <3>2. u4[i] = B[i - (m + e + d + 1)]
        BY <1>13, <3>1 DEF Joins
      <3>3. From(i, m, k, e) = i /\ ~(i <= k)
        BY <1>1, <2>5 DEF From
      <3> QED
        BY <1>6, <3>1, <3>2, <3>3
    <2>6. \/ i <= m \/ (m < i /\ i <= m + e) \/ (m + e < i /\ i <= m + e + d)
          \/ i = m + e + d + 1 \/ m + e + d + 1 < i
      BY <1>1
    <2> QED
      BY <2>1, <2>2, <2>3, <2>4, <2>5, <2>6
  <1>16. Spliced(u4, row[r], new, m, k, e, n)
    BY <1>14, <1>15 DEF Spliced
  <1> QED
    BY <1>5, <1>16 DEF m, k

Permutes(enc, k, e, n) ==
    /\ \A i \in 1 .. k + n : From(i, enc, k, e) \in 1 .. k + n
    /\ \A i, j \in 1 .. k + n : From(i, enc, k, e) = From(j, enc, k, e) => i = j
    /\ \A j \in 1 .. k + n : \E i \in 1 .. k + n : From(i, enc, k, e) = j

\* The splice of an append loses no cell and doubles none.
LEMMA FromPermutes ==
    ASSUME NEW enc \in Nat, NEW k \in Nat, NEW e \in Nat, NEW n \in Nat, enc <= k, e + 1 <= n
    PROVE  Permutes(enc, k, e, n)
  <1>1. \A i \in 1 .. k + n : From(i, enc, k, e) \in 1 .. k + n
    BY DEF From
  <1>2. \A i, j \in 1 .. k + n : From(i, enc, k, e) = From(j, enc, k, e) => i = j
    BY DEF From
  <1>3. ASSUME NEW j \in 1 .. k + n PROVE \E i \in 1 .. k + n : From(i, enc, k, e) = j
    <2> DEFINE i == IF j <= enc THEN j ELSE IF j <= k THEN j + e
                    ELSE IF j = k + 1 THEN k + e + 1
                    ELSE IF j <= k + e + 1 THEN j - (k - enc) - 1 ELSE j
    <2>1. i \in 1 .. k + n /\ From(i, enc, k, e) = j
      BY DEF From
    <2> QED
      BY <2>1
  <1> QED
    BY <1>1, <1>2, <1>3 DEF Permutes

\* A spliced layout holds the slots of the row and the new ones, each once.
SplicedOnce(u, cells, new, k, n) ==
    /\ \A i \in 1 .. k + n : u[i] \in Slot
    /\ \A i, j \in 1 .. k + n : u[i] = u[j] => i = j
    /\ \A s : (\E i \in 1 .. k + n : s = u[i]) <=>
                \/ \E i \in 1 .. k : s = cells[i]
                \/ \E i \in 1 .. n : s = new[i]

\* The spliced layout holds the old slots and the new ones, each once.
LEMMA SplicedSlots ==
    ASSUME NEW u, NEW cells, NEW n \in Nat, NEW k \in Nat, NEW enc \in Nat, NEW e \in Nat,
           enc <= k, e + 1 <= n, NEW new \in [1 .. n -> Slot],
           Spliced(u, cells, new, enc, k, e, n),
           \A i \in 1 .. k : cells[i] \in Slot,
           \A i, j \in 1 .. k : cells[i] = cells[j] => i = j,
           \A i, j \in 1 .. n : new[i] = new[j] => i = j,
           \A i \in 1 .. k, j \in 1 .. n : cells[i] # new[j]
    PROVE  SplicedOnce(u, cells, new, k, n)
  <1> DEFINE I == 1 .. k + n
             f == [i \in I |-> From(i, enc, k, e)]
             c == [j \in I |-> IF j <= k THEN cells[j] ELSE new[j - k]]
  <1>1. /\ \A i \in I : f[i] \in I
        /\ \A i, j \in I : f[i] = f[j] => i = j
        /\ \A j \in I : \E i \in I : f[i] = j
    <2>1. Permutes(enc, k, e, n)
      BY FromPermutes
    <2> QED
      BY <2>1 DEF Permutes
  <1>2. \A i \in I : u[i] = c[f[i]]
    BY <1>1 DEF Spliced
  <1> HIDE DEF f
  <1>3. \A j \in I : (j <= k /\ j \in 1 .. k) \/ (~(j <= k) /\ j - k \in 1 .. n)
    OBVIOUS
  <1>4. \A j \in I : c[j] \in Slot
    BY <1>3
  <1>5. ASSUME NEW i \in I, NEW j \in I, c[i] = c[j] PROVE i = j
    <2>1. CASE i <= k /\ j <= k
      BY <1>3, <1>5, <2>1
    <2>2. CASE ~(i <= k) /\ ~(j <= k)
      <3>1. i - k = j - k
        BY <1>3, <1>5, <2>2
      <3> QED
        BY <3>1
    <2>3. CASE (i <= k /\ ~(j <= k)) \/ (~(i <= k) /\ j <= k)
      BY <1>3, <1>5, <2>3
    <2> QED
      BY <2>1, <2>2, <2>3
  <1>6. ASSUME NEW i \in 1 .. k PROVE \E j \in I : cells[i] = c[j]
    <2>1. i \in I /\ i <= k
      OBVIOUS
    <2> QED
      BY <2>1
  <1>7. ASSUME NEW i \in 1 .. n PROVE \E j \in I : new[i] = c[j]
    <2>1. k + i \in I /\ ~(k + i <= k) /\ (k + i) - k = i
      OBVIOUS
    <2>2. new[i] = c[k + i]
      BY <2>1
    <2> QED
      BY <2>1, <2>2
  <1>8. ASSUME NEW j \in I
        PROVE  (\E i \in 1 .. k : c[j] = cells[i]) \/ \E i \in 1 .. n : c[j] = new[i]
    BY <1>3
  <1> HIDE DEF c, I
  <1>9. \A i \in I : u[i] \in Slot
    BY <1>1, <1>2, <1>4
  <1>10. \A i, j \in I : u[i] = u[j] => i = j
    BY <1>1, <1>2, <1>5
  <1>11. ASSUME NEW s
         PROVE  (\E i \in I : s = u[i]) <=>
                    \/ \E i \in 1 .. k : s = cells[i]
                    \/ \E i \in 1 .. n : s = new[i]
    <2>1. (\E i \in I : s = u[i]) <=> \E j \in I : s = c[j]
      BY <1>1, <1>2
    <2> QED
      BY <1>6, <1>7, <1>8, <2>1
  <1> QED
    BY <1>9, <1>10, <1>11 DEF I, SplicedOnce

\* A row after upstream wrote new behind position t and the transaction wrote the
\* layout u, of length m.
Installed(c, cells, t, new, n, u, m) ==
    /\ c \in Cells
    /\ \A i \in 1 .. m : c[i] = u[i]
    /\ \A i \in m + 1 .. Width : c[i] = IF i \in t + 1 .. t + n THEN new[i - t] ELSE cells[i]

\* Writing the new slots at the end and then the layout leaves the layout.
LEMMA InstalledRow ==
    ASSUME NEW cells \in Cells, NEW t \in Nat, NEW n \in Nat, NEW m \in Nat, m <= Width,
           NEW new \in [1 .. n -> Value], NEW u \in [1 .. m -> Value]
    PROVE  Installed(Write(Write(cells, t, new), 0, u), cells, t, new, n, u, m)
  <1> DEFINE c == Write(Write(cells, t, new), 0, u)
  <1>1. new \in Seq(Value) /\ Len(new) = n /\ u \in Seq(Value) /\ Len(u) = m
    BY FunSeq
  <1>2. \A i \in Cell : i \in Nat /\ i - 0 = i /\ (i - t \in 1 .. n <=> i \in t + 1 .. t + n)
    BY Sizes DEF Cell
  <1>3. c = [i \in Cell |-> IF i \in 1 .. m THEN u[i]
                            ELSE IF i \in t + 1 .. t + n THEN new[i - t] ELSE cells[i]]
    BY <1>1, <1>2 DEF Write
  <1>4. \A i \in Cell : (IF i \in 1 .. m THEN u[i]
                         ELSE IF i \in t + 1 .. t + n THEN new[i - t] ELSE cells[i]) \in Value
    BY <1>2 DEF Value, Cells
  <1>5. c \in Cells
    BY <1>3, <1>4 DEF Cells, Value
  <1>6. \A i \in 1 .. m : i \in Cell
    BY Sizes DEF Cell
  <1>7. \A i \in m + 1 .. Width : i \in Cell /\ i \notin 1 .. m
    BY Sizes DEF Cell
  <1> HIDE DEF c
  <1>8. Installed(c, cells, t, new, n, u, m)
    BY <1>3, <1>5, <1>6, <1>7 DEF Installed
  <1> QED
    BY <1>8 DEF c

\* An append is staged on a row.
LEMMA StageAppendKeeps ==
    ASSUME IInv, NEW r \in Req, StageAppend(r), UNCHANGED <<async_decode, frame_window>>
    PROVE  IInv'
  <1> DEFINE n == staged[r].len + 1
             new == Alloc(n)
             e == staged[r].enc
             k == KvTotal(r)
             t == TokenTotal(r)
             u == Layout(r, new, e, n)
  <1>1. /\ pc = "stage" /\ Quiet /\ r \in Staged /\ st[r].place # "extend"
        /\ n <= Cardinality(free)
        /\ free' = free \ {new[i] : i \in 1 .. n}
        /\ row' = [row EXCEPT ![r] = Write(Write(row[r], t, new), 0, u)]
        /\ kv' = [kv EXCEPT ![r].alloc = t + n]
        /\ st' = [st EXCEPT ![r].place = "extend", ![r].phase = "extending"]
        /\ pc' = pc
        /\ UNCHANGED <<frames, events, sent, staged, prepared, pending, resolving, doomed,
                       controls, cand>>
    BY DEF StageAppend, Layout, inputs, steps, aborts, At
  <1>2. /\ prepared = NoStep /\ doomed = {} /\ controls = {} /\ resolving = NoStep
        /\ pending = NoStep /\ cand = {} /\ Staged' = Staged
    BY <1>1 DEF IInv, Control, Flushed, Quiet, Staged
  <1>3. ASSUME NEW q \in Req
        PROVE  InFlight(q) = 0 /\ StepsKeptOf(q) /\ InFlight(q)' = InFlight(q)
    <2>1. In(q, prepared) = 0 /\ In(q, pending) = 0 /\ In(q, resolving) = 0
      BY <1>2, NoStepFlying
    <2>2. UNCHANGED steps
      BY <1>1 DEF steps
    <2> QED
      BY <2>1, <2>2, StepsUnchanged DEF InFlight
  <1>4. /\ st[r].place \in Resident /\ st[r].phase # "aborted" /\ events[r] = NoEvents
        /\ ~frames[r].due
    BY <1>1 DEF IInv, PlaceOf, DueOf
  <1>5. /\ n \in Nat /\ e \in Nat /\ k \in Nat /\ t \in Nat /\ kv[r] \in Lengths
        /\ kv[r].enc \in Nat /\ kv[r].enc <= k /\ kv[r].dec \in Nat /\ kv[r].appended \in Nat
        /\ k = kv[r].enc + kv[r].dec /\ t = kv[r].appended + kv[r].dec
        /\ kv[r].fill \in Nat /\ row[r] \in Cells /\ st[r] \in Status
        /\ staged[r].len \in Nat
    BY Typed DEF IInv, KvTotal, TokenTotal
  <1>6. /\ kv[r].alloc = k /\ kv[r].fill = t + n /\ kv[r].appended >= kv[r].enc
        /\ e + 1 <= n /\ k + n <= Width /\ t + n <= Width /\ k <= t
        /\ kv[r].fill + 1 <= ContextLimit
    <2>1. LengthsOf(r) /\ InFlight(r) = 0 /\ r \notin doomed
      BY <1>2, <1>3 DEF IInv
    <2>2. kv[r].alloc = k /\ kv[r].fill = t + n /\ kv[r].appended >= kv[r].enc
      <3>1. kv[r].alloc \in Nat
        BY Typed DEF IInv
      <3>2. /\ kv[r].appended >= kv[r].enc
            /\ kv[r].alloc >= KvTotal(r) + InFlight(r)
            /\ ~(kv[r].alloc > KvTotal(r) + InFlight(r))
            /\ kv[r].fill = TokenTotal(r) + 1 + staged[r].len
        BY <1>4, <2>1 DEF LengthsOf
      <3> QED
        BY <1>5, <2>1, <3>1, <3>2
    <2>3. e + 1 <= n
      <3>1. staged[r].enc <= staged[r].len
        BY DEF IInv, FramesOf
      <3> QED
        BY <1>5, <3>1
    <2>4. k + n <= Width /\ kv[r].fill + 1 <= ContextLimit
      <3>1. KvTotal(r) + staged[r].len + 1 <= Width /\ kv[r].fill + 1 <= ContextLimit
        BY <1>1 DEF IInv, ContextOf
      <3> QED
        BY <1>5, <3>1
    <2> QED
      BY <1>5, <2>2, <2>3, <2>4, Sizes
  <1>7. /\ new \in [1 .. n -> free]
        /\ \A i, j \in 1 .. n : new[i] = new[j] => i = j
        /\ free \subseteq Slot
    BY <1>1, <1>5, AllocFree DEF IInv, TypeOK
  <1>8. new \in [1 .. n -> Slot] /\ new \in [1 .. n -> Value]
    BY <1>7 DEF Value
  <1> HIDE DEF new
  <1>9. Spliced(u, row[r], new, kv[r].enc, k, e, n)
    <2>1. k <= Width /\ e + 1 <= n
      BY <1>5, <1>6, Sizes
    <2> HIDE DEF n, e
    <2> QED
      BY <1>5, <1>8, <2>1, LayoutSpliced DEF IInv
  <1> HIDE DEF u, n, e, k, t
  <1>10. k + n \in Nat /\ u \in [1 .. k + n -> Value]
    BY <1>5, <1>9 DEF Spliced
  <1>11. Installed(row'[r], row[r], t, new, n, u, k + n)
    <2>1. row'[r] = Write(Write(row[r], t, new), 0, u)
      BY <1>1 DEF IInv, TypeOK
    <2> QED
      BY <1>5, <1>6, <1>8, <1>10, <2>1, InstalledRow, ZenonT(60)
  <1>12. row'[r] \in Cells /\ \A i \in 1 .. k + n : row'[r][i] = u[i]
    BY <1>11 DEF Installed
  <1>13. /\ kv'[r] \in Lengths /\ kv'[r].enc = kv[r].enc /\ kv'[r].dec = kv[r].dec
         /\ kv'[r].appended = kv[r].appended /\ kv'[r].alloc = t + n
         /\ kv'[r].fill = kv[r].fill
    <2>1. kv'[r] = [kv[r] EXCEPT !.alloc = t + n]
      BY <1>1 DEF IInv, TypeOK
    <2>2. kv[r] \in Lengths /\ t + n \in Nat
      BY <1>5
    <2> QED
      BY <2>1, <2>2 DEF Lengths
  <1>14. st'[r] \in Status /\ st'[r].place = "extend" /\ st'[r].phase = "extending"
    <2>1. st'[r] = [st[r] EXCEPT !.place = "extend", !.phase = "extending"]
      BY <1>1 DEF IInv, TypeOK
    <2>2. st[r] \in Status
      BY <1>5
    <2> QED
      BY <2>1, <2>2 DEF Status, Place, Phase
  <1>15. ASSUME NEW q \in Req, q # r PROVE st'[q] = st[q] /\ DataOf(q)
    BY <1>1, <1>15 DEF IInv, TypeOK, DataOf
  <1>16. TypeOK'
    <2>1. st' \in [Req -> Status]
      BY <1>1, <1>14, <1>15, Typed DEF IInv, TypeOK
    <2>2. kv' \in [Req -> Lengths]
      BY <1>1, <1>13, <1>15, Typed DEF IInv, TypeOK, DataOf
    <2>3. row' \in [Req -> Cells]
      BY <1>1, <1>12, <1>15, Typed DEF IInv, TypeOK, DataOf
    <2>4. free' \subseteq Slot
      BY <1>1, <1>7
    <2> QED
      BY <1>1, <2>1, <2>2, <2>3, <2>4 DEF IInv, TypeOK, Status, Lengths, Cells, PC
  <1>17. Control' /\ Flushed' /\ Capacity'
    <2>1. Control'
      BY <1>1, <1>2 DEF IInv, Control
    <2>2. Flushed' /\ Capacity'
      BY <1>1, <1>2 DEF Flushed, Capacity
    <2> QED
      BY <2>1, <2>2
  <1>18. ASSUME NEW q \in Req, q # r
         PROVE  /\ PlaceOf(q)' /\ DueOf(q)' /\ MemoryOf(q)' /\ StepsOf(q)'
                /\ RowOf(q)' /\ Owned(q)' = Owned(q)
    <2>1. /\ st'[q] = st[q] /\ DataOf(q) /\ Used(q)' = Used(q) /\ StepsKeptOf(q)
          /\ InFlight(q)' = InFlight(q)
      BY <1>3, <1>15, <1>18, DataUsed
    <2>2. MemoryOf(q)' /\ StepsOf(q)'
      BY <1>1, <1>2, <2>1, SameOf, SameSteps DEF IInv, MemoryOf
    <2>3. PlaceOf(q)'
      BY <1>1, <1>2, <2>1 DEF IInv, PlaceOf, DataOf
    <2>4. DueOf(q)'
      BY <1>1, <1>2, <2>1 DEF IInv, DueOf, DataOf
    <2>5. RowOf(q)' /\ Owned(q)' = Owned(q)
      BY <2>1, SameRow DEF IInv, DataOf
    <2> QED
      BY <2>2, <2>3, <2>4, <2>5
  <1>19. /\ KvTotal(r)' = k /\ TokenTotal(r)' = t /\ staged'[r] = staged[r]
         /\ n = staged[r].len + 1 /\ k = KvTotal(r)
    BY <1>1, <1>13 DEF KvTotal, TokenTotal, k, t, n
  <1>20. Used(r)' = k + n /\ Used(r) = k
    BY <1>4, <1>5, <1>6, <1>14, <1>19, Typed DEF Used, Resident, IInv
  <1>21. /\ RowOf(r)'
         /\ \A s : s \in Owned(r)' <=> s \in Owned(r) \/ \E i \in 1 .. n : s = new[i]
    <2>1. /\ \A i \in 1 .. k : row[r][i] \in Slot
          /\ \A i, j \in 1 .. k : row[r][i] = row[r][j] => i = j
      BY <1>20 DEF IInv, Rows, RowOf
    <2>2. \A i \in 1 .. k, j \in 1 .. n : row[r][i] # new[j]
      <3>1. \A s \in free : s \notin Owned(r)
        BY <1>7 DEF IInv, Rows
      <3>2. \A i \in 1 .. k : row[r][i] \in Owned(r)
        BY <1>20, OwnedDef
      <3> QED
        BY <1>7, <3>1, <3>2
    <2>3. /\ \A i \in 1 .. k + n : u[i] \in Slot
          /\ \A i, j \in 1 .. k + n : u[i] = u[j] => i = j
          /\ \A s : (\E i \in 1 .. k + n : s = u[i]) <=>
                      \/ \E i \in 1 .. k : s = row[r][i]
                      \/ \E i \in 1 .. n : s = new[i]
      <3>1. SplicedOnce(u, row[r], new, k, n)
        BY <1>5, <1>6, <1>7, <1>8, <1>9, <2>1, <2>2, SplicedSlots
      <3> QED
        BY <3>1 DEF SplicedOnce
    <2>4. RowOf(r)'
      BY <1>12, <1>20, <2>3 DEF RowOf
    <2>5. \A s : s \in Owned(r)' <=> \E i \in 1 .. k + n : s = u[i]
      BY <1>12, <1>20 DEF Owned, Prefix
    <2>6. \A s : s \in Owned(r) <=> \E i \in 1 .. k : s = row[r][i]
      BY <1>20 DEF Owned, Prefix
    <2> QED
      BY <2>3, <2>4, <2>5, <2>6
  <1>22. PlaceOf(r)' /\ DueOf(r)' /\ MemoryOf(r)' /\ StepsOf(r)'
    <2>1. PlaceOf(r)'
      BY <1>1, <1>2, <1>3, <1>4, <1>14 DEF PlaceOf, Resident
    <2>2. DueOf(r)'
      BY <1>1, <1>4 DEF DueOf
    <2>3. LengthsOf(r)'
      <3>1. kv'[r].alloc = t + staged'[r].len + 1 /\ kv'[r].fill = t + 1 + staged'[r].len
        <4>1. staged[r].len \in Nat
          BY Typed DEF IInv
        <4> QED
          BY <1>5, <1>6, <1>13, <1>19, <4>1
      <3> QED
        BY <1>6, <1>13, <1>14, <1>19, <3>1 DEF LengthsOf, Resident
    <2>4. FramesOf(r)'
      <3>1. FramesOf(r)
        BY DEF IInv
      <3>2. /\ staged'[r] = staged[r] /\ frames'[r] = frames[r]
            /\ kv'[r].enc = kv[r].enc /\ kv'[r].fill = kv[r].fill
        BY <1>1, <1>13
      <3> QED
        BY <1>4, <1>14, <3>1, <3>2 DEF FramesOf
    <2>5. ContextOf(r)'
      <3>1. KvTotal(r)' + staged'[r].len + 1 <= Width
        <4>1. staged[r].len \in Nat
          BY Typed DEF IInv
        <4> QED
          BY <1>5, <1>6, <1>19, <4>1
      <3> QED
        BY <1>6, <1>13, <1>14, <3>1 DEF ContextOf, Resident
    <2>6. kv[r].appended > kv[r].enc => \A i \in k + 1 .. Width : row[r][i] = 0
      BY <1>4, <1>6 DEF IInv, TailOf
    <2>7. \A i \in k + n + 1 .. Width : row'[r][i] = IF i \in t + 1 .. t + n THEN new[i - t]
                                                     ELSE row[r][i]
      BY <1>11 DEF Installed
    <2>8. ASSUME NEW i \in Used(r)' + 1 .. kv'[r].alloc
          PROVE  row'[r][i] \in Owned(r)' \cup {0}
      <3>1. i \in k + n + 1 .. Width /\ i <= t + n /\ i \in Nat
        BY <1>5, <1>6, <1>13, <1>20, Sizes
      <3>2. CASE i \in t + 1 .. t + n
        <4>1. row'[r][i] = new[i - t] /\ i - t \in 1 .. n
          BY <1>5, <2>7, <3>1, <3>2
        <4> QED
          BY <1>21, <4>1
      <3>3. CASE i \notin t + 1 .. t + n
        <4>1. i <= t /\ i \in k + 1 .. Width /\ kv[r].appended > kv[r].enc
          BY <1>5, <3>1, <3>3
        <4> QED
          BY <2>6, <2>7, <3>1, <3>3, <4>1
      <3> QED
        BY <3>2, <3>3
    <2>9. kv'[r].appended > kv'[r].enc => \A i \in kv'[r].alloc + 1 .. Width : row'[r][i] = 0
      <3>1. \A i \in kv'[r].alloc + 1 .. Width :
              i \in k + n + 1 .. Width /\ i \notin t + 1 .. t + n /\ i \in k + 1 .. Width
        BY <1>5, <1>6, <1>13, Sizes
      <3> QED
        BY <1>13, <2>6, <2>7, <3>1
    <2>10. TailOf(r)'
      BY <2>8, <2>9 DEF TailOf
    <2>11. StepsOf(r)'
      BY <1>14 DEF StepsOf, Resident
    <2> QED
      BY <2>1, <2>2, <2>3, <2>4, <2>5, <2>10, <2>11 DEF MemoryOf
  <1>23. Rows'
    <2>1. Owned(r)' \subseteq Owned(r) \cup free
      BY <1>7, <1>21
    <2>2. ASSUME NEW s \in Slot
          PROVE  s \in free' <=> (s \in free \/ s \in Owned(r)) /\ s \notin Owned(r)'
      <3>1. s \in free => s \notin Owned(r)
        BY DEF IInv, Rows
      <3>2. s \in free' <=> s \in free /\ ~ \E i \in 1 .. n : s = new[i]
        BY <1>1
      <3> QED
        BY <1>21, <3>1, <3>2
    <2>3. \A q \in Req \ {r} : RowOf(q)' /\ Owned(q)' = Owned(q)
      BY <1>18
    <2> QED
      BY <1>21, <2>1, <2>2, <2>3, RowsOne DEF IInv
  <1> QED
    BY <1>16, <1>17, <1>18, <1>22, <1>23, Together

-----------------------------------------------------------------------------
(* Applying the frame window.                                              *)

\* Where position i of the compacted layout comes from, in the row of k cells
\* followed by the n pooled slots: the cells up to a and the cells b + 1 .. c are
\* the frames that leave.
Keeps(i, a, b, c, k, n) ==
    IF i <= b - a THEN a + i ELSE IF i <= b - a + n THEN k + (i - (b - a)) ELSE c + (i - (b - a + n))

Windowed(u, cells, pooled, a, b, c, k, n) ==
    /\ u \in [1 .. (b - a) + n + (k - c) -> Value]
    /\ \A i \in 1 .. (b - a) + n + (k - c) :
         u[i] = IF Keeps(i, a, b, c, k, n) <= k THEN cells[Keeps(i, a, b, c, k, n)]
                ELSE pooled[Keeps(i, a, b, c, k, n) - k]

\* The layout of a window round, cell by cell.
LEMMA WindowLayout ==
    ASSUME TypeOK, NEW r \in Req, KvTotal(r) <= Width,
           NEW a \in Nat, NEW b \in Nat, NEW c \in Nat, NEW n \in Nat,
           a <= b, b <= c, c <= kv[r].enc, NEW pooled \in [1 .. n -> Value]
    PROVE  Windowed(SubSeq(EncoderSlots(r), a + 1, b) \o pooled
                      \o SubSeq(EncoderSlots(r), c + 1, kv[r].enc) \o DecoderSlots(r),
                    row[r], pooled, a, b, c, KvTotal(r), n)
  <1> DEFINE m == kv[r].enc
             d == kv[r].dec
             X == SubSeq(EncoderSlots(r), a + 1, b)
             Y == SubSeq(EncoderSlots(r), c + 1, m)
             u1 == X \o pooled
             u2 == u1 \o Y
             u3 == u2 \o DecoderSlots(r)
             k == KvTotal(r)
  <1>1. m \in Nat /\ d \in Nat /\ k = m + d /\ k \in Nat /\ c <= m
    BY Typed DEF KvTotal
  <1>2. /\ EncoderSlots(r) \in [1 .. m -> Value]
        /\ \A i \in 1 .. m : EncoderSlots(r)[i] = row[r][i]
        /\ DecoderSlots(r) \in [1 .. d -> Value]
        /\ \A i \in 1 .. d : DecoderSlots(r)[i] = row[r][m + i]
    BY RowParts
  <1> HIDE DEF m, d, k
  <1>3. Slice(X, EncoderSlots(r), a + 1, b) /\ Slice(Y, EncoderSlots(r), c + 1, m)
    <2>1. a + 1 \in Nat /\ c + 1 \in Nat /\ 1 <= a + 1 /\ 1 <= c + 1 /\ a + 1 <= b + 1
          /\ c + 1 <= m + 1 /\ b <= m /\ m <= m
      BY <1>1
    <2> QED
      BY <1>1, <1>2, <2>1, SubSeqSlice
  <1> HIDE DEF X, Y
  <1>4. /\ X \in [1 .. b - a -> Value] /\ \A i \in 1 .. b - a : X[i] = row[r][a + i]
        /\ Y \in [1 .. m - c -> Value] /\ \A i \in 1 .. m - c : Y[i] = row[r][c + i]
    <2>1. b - (a + 1) + 1 = b - a /\ m - (c + 1) + 1 = m - c
      BY <1>1
    <2>2. X \in [1 .. b - a -> Value] /\ Y \in [1 .. m - c -> Value]
      BY <1>3, <2>1 DEF Slice
    <2>3. \A i \in 1 .. b - a : X[i] = EncoderSlots(r)[i + (a + 1) - 1]
      BY <1>3, <2>1 DEF Slice
    <2>4. \A i \in 1 .. b - a : i + (a + 1) - 1 = a + i /\ a + i \in 1 .. m
      BY <1>1
    <2>5. \A i \in 1 .. m - c : Y[i] = EncoderSlots(r)[i + (c + 1) - 1]
      BY <1>3, <2>1 DEF Slice
    <2>6. \A i \in 1 .. m - c : i + (c + 1) - 1 = c + i /\ c + i \in 1 .. m
      BY <1>1
    <2>7. ASSUME NEW i \in 1 .. b - a PROVE X[i] = row[r][a + i]
      <3>1. X[i] = EncoderSlots(r)[a + i] /\ a + i \in 1 .. m
        BY <2>3, <2>4
      <3> QED
        BY <1>2, <3>1
    <2>8. ASSUME NEW i \in 1 .. m - c PROVE Y[i] = row[r][c + i]
      <3>1. Y[i] = EncoderSlots(r)[c + i] /\ c + i \in 1 .. m
        BY <2>5, <2>6
      <3> QED
        BY <1>2, <3>1
    <2> QED
      BY <2>2, <2>7, <2>8
  <1> DEFINE p == b - a
             q == m - c
  <1>5. p \in Nat /\ q \in Nat /\ p = b - a /\ q = m - c
    BY <1>1
  <1> HIDE DEF p, q
  <1>6. Joins(u1, X, p, pooled, n)
    BY <1>4, <1>5, ConcatJoins
  <1>7. u1 \in [1 .. p + n -> Value] /\ p + n \in Nat
    BY <1>5, <1>6 DEF Joins
  <1> HIDE DEF u1
  <1>8. Joins(u2, u1, p + n, Y, q)
    BY <1>4, <1>5, <1>7, ConcatJoins
  <1>9. u2 \in [1 .. p + n + q -> Value] /\ p + n + q \in Nat
    BY <1>5, <1>8 DEF Joins
  <1> HIDE DEF u2
  <1>10. Joins(u3, u2, p + n + q, DecoderSlots(r), d)
    BY <1>1, <1>2, <1>9, ConcatJoins
  <1>11. p + n + q + d = (b - a) + n + (k - c)
    BY <1>1, <1>5, SMTT(30)
  <1> HIDE DEF u3
  <1>12. ASSUME NEW i \in 1 .. p + n + q + d
         PROVE  u3[i] = IF Keeps(i, a, b, c, k, n) <= k THEN row[r][Keeps(i, a, b, c, k, n)]
                        ELSE pooled[Keeps(i, a, b, c, k, n) - k]
    <2>1. CASE i <= p
      <3>1. i \in 1 .. p /\ i \in 1 .. p + n /\ i \in 1 .. p + n + q
        BY <1>5, <2>1
      <3>2. u3[i] = X[i]
        BY <1>6, <1>8, <1>10, <3>1 DEF Joins
      <3>3. X[i] = row[r][a + i]
        BY <1>4, <1>5, <3>1
      <3>4. Keeps(i, a, b, c, k, n) = a + i /\ a + i <= k
        BY <1>1, <1>5, <2>1 DEF Keeps
      <3> QED
        BY <3>2, <3>3, <3>4
    <2>2. CASE p < i /\ i <= p + n
      <3>1. i \in p + 1 .. p + n /\ i \in 1 .. p + n /\ i \in 1 .. p + n + q
        BY <1>5, <2>2
      <3>2. u3[i] = pooled[i - p]
        BY <1>6, <1>8, <1>10, <3>1 DEF Joins
      <3>3. Keeps(i, a, b, c, k, n) - k = i - p /\ ~(Keeps(i, a, b, c, k, n) <= k)
        BY <1>1, <1>5, <2>2 DEF Keeps
      <3> QED
        BY <3>2, <3>3
    <2>3. CASE p + n < i /\ i <= p + n + q
      <3>1. /\ i \in p + n + 1 .. p + n + q /\ i \in 1 .. p + n + q
            /\ i - (p + n) \in 1 .. m - c
        BY <1>5, <2>3
      <3>2. u3[i] = Y[i - (p + n)]
        BY <1>8, <1>10, <3>1 DEF Joins
      <3>3. Y[i - (p + n)] = row[r][c + (i - (p + n))]
        BY <1>4, <3>1
      <3>4. /\ Keeps(i, a, b, c, k, n) = c + (i - (p + n))
            /\ c + (i - (p + n)) <= k
        <4>1. ~(i <= b - a) /\ ~(i <= b - a + n) /\ b - a + n = p + n
          BY <1>5, <2>3
        <4>2. Keeps(i, a, b, c, k, n) = c + (i - (p + n))
          BY <4>1, Zenon DEF Keeps
        <4>3. i \in Nat /\ n \in Nat /\ c \in Nat
          OBVIOUS
        <4>4. c + (i - (p + n)) <= m /\ m <= k
          BY <1>1, <1>5, <2>3, <4>3
        <4>5. c + (i - (p + n)) <= k
          BY <1>1, <1>5, <4>3, <4>4
        <4> QED
          BY <4>2, <4>5
      <3> QED
        BY <3>2, <3>3, <3>4
    <2>4. CASE p + n + q < i
      <3>1. i \in p + n + q + 1 .. p + n + q + d /\ i - (p + n + q) \in 1 .. d
        <4> DEFINE w == p + n + q
        <4>1. w \in Nat /\ d \in Nat /\ i \in 1 .. w + d /\ w < i
          BY <1>1, <1>9, <1>12, <2>4
        <4> HIDE DEF w
        <4>2. i \in w + 1 .. w + d /\ i - w \in 1 .. d
          BY <4>1
        <4> QED
          BY <4>2 DEF w
      <3>2. u3[i] = DecoderSlots(r)[i - (p + n + q)]
        BY <1>10, <3>1 DEF Joins
      <3>3. DecoderSlots(r)[i - (p + n + q)] = row[r][m + (i - (p + n + q))]
        BY <1>2, <3>1
      <3>4. /\ Keeps(i, a, b, c, k, n) = m + (i - (p + n + q))
            /\ m + (i - (p + n + q)) <= k
        BY <1>1, <1>5, <2>4, <3>1 DEF Keeps
      <3> QED
        BY <3>2, <3>3, <3>4
    <2>5. \/ i <= p \/ (p < i /\ i <= p + n) \/ (p + n < i /\ i <= p + n + q) \/ p + n + q < i
      BY <1>5
    <2> QED
      BY <2>1, <2>2, <2>3, <2>4, <2>5
  <1>13. u3 \in [1 .. p + n + q + d -> Value]
    BY <1>10 DEF Joins
  <1>14. Windowed(u3, row[r], pooled, a, b, c, k, n)
    BY <1>11, <1>12, <1>13 DEF Windowed
  <1> QED
    BY <1>14 DEF u3, u2, u1, X, Y, m, k

Selects(a, b, c, k, n) ==
    LET m == (b - a) + n + (k - c)
    IN  /\ \A i \in 1 .. m : Keeps(i, a, b, c, k, n) \in 1 .. k + n
        /\ \A i \in 1 .. m : LET j == Keeps(i, a, b, c, k, n)
                             IN  ~(j <= a) /\ ~(b < j /\ j <= c)
        /\ \A i, j \in 1 .. m : Keeps(i, a, b, c, k, n) = Keeps(j, a, b, c, k, n) => i = j
        /\ \A j \in 1 .. k + n : ~(j <= a) /\ ~(b < j /\ j <= c) =>
             \E i \in 1 .. m : Keeps(i, a, b, c, k, n) = j

\* A window round keeps every cell it neither evicts nor pools, each once.
LEMMA KeepsSelects ==
    ASSUME NEW a \in Nat, NEW b \in Nat, NEW c \in Nat, NEW k \in Nat, NEW n \in Nat,
           a <= b, b <= c, c <= k
    PROVE  Selects(a, b, c, k, n)
  <1> DEFINE m == (b - a) + n + (k - c)
  <1>1. \A i \in 1 .. m : Keeps(i, a, b, c, k, n) \in 1 .. k + n
    BY DEF Keeps
  <1>2. \A i \in 1 .. m : /\ ~(Keeps(i, a, b, c, k, n) <= a)
                          /\ ~(b < Keeps(i, a, b, c, k, n) /\ Keeps(i, a, b, c, k, n) <= c)
    BY DEF Keeps
  <1>3. \A i, j \in 1 .. m : Keeps(i, a, b, c, k, n) = Keeps(j, a, b, c, k, n) => i = j
    BY DEF Keeps
  <1>4. ASSUME NEW j \in 1 .. k + n, ~(j <= a), ~(b < j /\ j <= c)
        PROVE  \E i \in 1 .. m : Keeps(i, a, b, c, k, n) = j
    <2> DEFINE i == IF j <= b THEN j - a ELSE IF j <= k THEN j - c + (b - a + n)
                    ELSE j - k + (b - a)
    <2>1. i \in 1 .. m /\ Keeps(i, a, b, c, k, n) = j
      BY <1>4 DEF Keeps
    <2> QED
      BY <2>1
  <1> QED
    BY <1>1, <1>2, <1>3, <1>4 DEF Selects

\* The compacted layout holds the pooled slots and the slots of the row that
\* stay, each once.
WindowedOnce(u, cells, pooled, a, b, c, k, n) ==
    LET m == (b - a) + n + (k - c)
    IN  /\ \A i \in 1 .. m : u[i] \in Slot
        /\ \A i, j \in 1 .. m : u[i] = u[j] => i = j
        /\ \A s : (\E i \in 1 .. m : s = u[i]) <=>
                    \/ \E j \in 1 .. k : ~(j <= a) /\ ~(b < j /\ j <= c) /\ s = cells[j]
                    \/ \E j \in 1 .. n : s = pooled[j]

\* The rewritten row holds the kept slots and the pooled ones, each once.
LEMMA WindowedSlots ==
    ASSUME NEW u, NEW cells, NEW a \in Nat, NEW b \in Nat, NEW c \in Nat, NEW k \in Nat,
           NEW n \in Nat, a <= b, b <= c, c <= k, NEW pooled \in [1 .. n -> Slot],
           Windowed(u, cells, pooled, a, b, c, k, n),
           \A i \in 1 .. k : cells[i] \in Slot,
           \A i, j \in 1 .. k : cells[i] = cells[j] => i = j,
           \A i, j \in 1 .. n : pooled[i] = pooled[j] => i = j,
           \A i \in 1 .. k, j \in 1 .. n : cells[i] # pooled[j]
    PROVE  WindowedOnce(u, cells, pooled, a, b, c, k, n)
  <1> DEFINE I == 1 .. (b - a) + n + (k - c)
             J == 1 .. k + n
             f == [i \in I |-> Keeps(i, a, b, c, k, n)]
             g == [j \in J |-> IF j <= k THEN cells[j] ELSE pooled[j - k]]
             stays(j) == ~(j <= a) /\ ~(b < j /\ j <= c)
  <1>1. /\ \A i \in I : f[i] \in J /\ stays(f[i])
        /\ \A i, j \in I : f[i] = f[j] => i = j
        /\ \A j \in J : stays(j) => \E i \in I : f[i] = j
    <2>1. Selects(a, b, c, k, n)
      BY KeepsSelects
    <2> QED
      BY <2>1 DEF Selects
  <1>2. \A i \in I : u[i] = g[f[i]]
    BY <1>1 DEF Windowed
  <1> HIDE DEF f
  <1>3. \A j \in J : (j <= k /\ j \in 1 .. k) \/ (~(j <= k) /\ j - k \in 1 .. n)
    OBVIOUS
  <1>4. \A j \in J : g[j] \in Slot
    BY <1>3
  <1>5. ASSUME NEW i \in J, NEW j \in J, g[i] = g[j] PROVE i = j
    <2>1. CASE i <= k /\ j <= k
      BY <1>3, <1>5, <2>1
    <2>2. CASE ~(i <= k) /\ ~(j <= k)
      <3>1. i - k = j - k
        BY <1>3, <1>5, <2>2
      <3> QED
        BY <3>1
    <2>3. CASE (i <= k /\ ~(j <= k)) \/ (~(i <= k) /\ j <= k)
      BY <1>3, <1>5, <2>3
    <2> QED
      BY <2>1, <2>2, <2>3
  <1>6. ASSUME NEW i \in 1 .. k PROVE i \in J /\ cells[i] = g[i]
    <2>1. i \in J /\ i <= k
      OBVIOUS
    <2> QED
      BY <2>1
  <1>7. ASSUME NEW i \in 1 .. n PROVE \E j \in J : stays(j) /\ pooled[i] = g[j]
    <2>1. k + i \in J /\ ~(k + i <= k) /\ (k + i) - k = i /\ stays(k + i)
      OBVIOUS
    <2>2. pooled[i] = g[k + i]
      BY <2>1
    <2> QED
      BY <2>1, <2>2
  <1>8. ASSUME NEW j \in J
        PROVE  (j \in 1 .. k /\ g[j] = cells[j]) \/ \E i \in 1 .. n : g[j] = pooled[i]
    BY <1>3
  <1> HIDE DEF g, I, J, stays
  <1>9. \A i \in I : u[i] \in Slot
    BY <1>1, <1>2, <1>4
  <1>10. \A i, j \in I : u[i] = u[j] => i = j
    BY <1>1, <1>2, <1>5
  <1>11. ASSUME NEW s
         PROVE  (\E i \in I : s = u[i]) <=>
                    \/ \E j \in 1 .. k : stays(j) /\ s = cells[j]
                    \/ \E j \in 1 .. n : s = pooled[j]
    <2>1. (\E i \in I : s = u[i]) <=> \E j \in J : stays(j) /\ s = g[j]
      BY <1>1, <1>2
    <2> QED
      BY <1>6, <1>7, <1>8, <2>1
  <1> QED
    BY <1>9, <1>10, <1>11 DEF I, stays, WindowedOnce

\* The lengths of a plan's parts, in slots: raw and pooled frames of w slots, e
\* evicted, d dropped and p folded into f.
LEMMA PlanLengths ==
    ASSUME NEW raw \in Nat, NEW pooled \in Nat, NEW w \in Nat, w > 0, NEW e \in Nat,
           NEW d \in Nat, NEW p \in Nat, NEW f \in Nat, e <= pooled, d + p <= raw, f <= p
    PROVE  /\ e * w \in Nat /\ pooled * w \in Nat /\ f * w \in Nat
           /\ pooled * w + (d + p) * w \in Nat /\ (raw + pooled) * w \in Nat
           /\ e * w <= pooled * w
           /\ pooled * w <= pooled * w + (d + p) * w
           /\ pooled * w + (d + p) * w <= (raw + pooled) * w
           /\ f * w <= (d + p) * w
           /\ (pooled * w - e * w) + f * w + ((raw + pooled) * w - (pooled * w + (d + p) * w))
                = ((raw - d - p) + (pooled - e + f)) * w
  <1>1. e * w \in Nat /\ pooled * w \in Nat /\ f * w \in Nat /\ (d + p) * w \in Nat
        /\ raw * w \in Nat
    OBVIOUS
  <1>2. (raw + pooled) * w = raw * w + pooled * w
    OBVIOUS
  <1>3. ASSUME NEW x \in Nat, NEW y \in Nat, x <= y PROVE x * w <= y * w
    BY <1>3
  <1>4. e * w <= pooled * w /\ (d + p) * w <= raw * w
    BY <1>3
  <1>5. f * w <= (d + p) * w
    <2>1. f <= d + p /\ d + p \in Nat
      OBVIOUS
    <2> QED
      BY <1>3, <2>1
  <1>6. ((raw - d - p) + (pooled - e + f)) * w
          = raw * w - (d + p) * w + pooled * w - e * w + f * w
    OBVIOUS
  <1> QED
    BY <1>1, <1>2, <1>4, <1>5, <1>6

\* What a window round leaves alone.
WindowStep(r) ==
    /\ pc = "apply" /\ Quiet /\ r \in cand /\ cand' = cand \ {r} /\ pc' = pc
    /\ UNCHANGED <<st, events, sent, staged, prepared, pending, resolving, doomed,
                   controls, async_decode, frame_window>>

\* A window round leaves the control of every request alone.
LEMMA WindowControl ==
    ASSUME IInv, NEW r \in Req, WindowStep(r)
    PROVE  /\ Control' /\ Flushed' /\ Capacity' /\ doomed = {} /\ Staged = {} /\ Staged' = {}
           /\ \A q \in Req : StepsKeptOf(q) /\ InFlight(q)' = InFlight(q) /\ PlaceOf(q)'
           /\ \A q \in Req \ {r} : frames'[q] = frames[q] => DueOf(q)'
  <1> USE DEF WindowStep
  <1>1. doomed = {} /\ Staged = {} /\ Staged' = {} /\ resolving = NoStep
    BY DEF IInv, PlaceOf, Quiet, Staged
  <1>2. Control'
    BY DEF IInv, Control
  <1>3. Flushed' /\ Capacity'
    <2>1. HasPendingEvents' <=> HasPendingEvents
      BY DEF HasPendingEvents, At
    <2> QED
      BY <1>1, <2>1 DEF IInv, Flushed, Capacity
  <1>4. ASSUME NEW q \in Req
        PROVE  StepsKeptOf(q) /\ InFlight(q)' = InFlight(q) /\ PlaceOf(q)'
    <2>1. StepsKeptOf(q) /\ InFlight(q)' = InFlight(q)
      BY StepsUnchanged DEF steps
    <2>2. PlaceOf(q)'
      BY <1>1, <2>1 DEF IInv, PlaceOf
    <2> QED
      BY <2>1, <2>2
  <1>5. ASSUME NEW q \in Req \ {r}, frames'[q] = frames[q] PROVE DueOf(q)'
    <2>1. q \in cand' <=> q \in cand
      OBVIOUS
    <2>2. InFlight(q)' = InFlight(q)
      BY <1>4
    <2> QED
      BY <1>5, <2>1, <2>2 DEF IInv, DueOf
  <1> QED
    BY <1>1, <1>2, <1>3, <1>4, <1>5

FrameRecord == [raw : Nat, pooled : Nat, due : BOOLEAN]

\* The frames of the candidate are marked as planned for.
LEMMA WindowSkips ==
    ASSUME IInv, NEW r \in Req, WindowStep(r), UNCHANGED memory,
           frames' = [frames EXCEPT ![r].due = FALSE]
    PROVE  IInv'
  <1>1. /\ free' = free /\ row' = row /\ kv' = kv /\ st' = st /\ staged' = staged
        /\ pc' = pc /\ doomed' = doomed
    BY DEF memory, WindowStep
  <1>2. /\ Control' /\ Flushed' /\ Capacity' /\ doomed = {} /\ Staged = {} /\ Staged' = {}
        /\ \A q \in Req : StepsKeptOf(q) /\ InFlight(q)' = InFlight(q) /\ PlaceOf(q)'
        /\ \A q \in Req \ {r} : frames'[q] = frames[q] => DueOf(q)'
    BY WindowControl
  <1>3. /\ frames' \in [Req -> FrameRecord]
        /\ frames'[r].raw = frames[r].raw /\ frames'[r].pooled = frames[r].pooled
        /\ ~frames'[r].due
    <2>1. frames[r] \in FrameRecord /\ frames \in [Req -> FrameRecord]
      BY DEF IInv, TypeOK, FrameRecord
    <2>2. frames'[r] = [frames[r] EXCEPT !.due = FALSE]
      BY <2>1
    <2>3. /\ [frames[r] EXCEPT !.due = FALSE] \in FrameRecord
          /\ [frames[r] EXCEPT !.due = FALSE].raw = frames[r].raw
          /\ [frames[r] EXCEPT !.due = FALSE].pooled = frames[r].pooled
          /\ ~[frames[r] EXCEPT !.due = FALSE].due
      BY <2>1 DEF FrameRecord
    <2>4. frames' \in [Req -> FrameRecord]
      BY <2>1, <2>3
    <2> QED
      BY <2>2, <2>3, <2>4
  <1>4. TypeOK'
    BY <1>1, <1>3 DEF IInv, TypeOK, FrameRecord, WindowStep
  <1>5. ASSUME NEW q \in Req, q # r PROVE DataOf(q) /\ frames'[q] = frames[q]
    BY <1>1, <1>5 DEF DataOf, IInv, TypeOK
  <1>6. ASSUME NEW q \in Req PROVE Used(q)' = Used(q) /\ row'[q] = row[q]
    BY <1>1 DEF Used, KvTotal
  <1>7. ASSUME NEW q \in Req, q # r PROVE DueOf(q)' /\ MemoryOf(q)' /\ StepsOf(q)'
    <2>1. DueOf(q)'
      BY <1>2, <1>5, <1>7
    <2>2. DataOf(q) /\ InFlight(q)' = InFlight(q) /\ StepsKeptOf(q)
      BY <1>2, <1>5, <1>7
    <2> QED
      BY <1>1, <2>1, <2>2, SameOf, SameSteps DEF IInv, MemoryOf
  <1>8. DueOf(r)' /\ MemoryOf(r)' /\ StepsOf(r)'
    <2>1. InFlight(r)' = InFlight(r)
      BY <1>2
    <2>2. DueOf(r)'
      BY <1>3 DEF DueOf
    <2>3. LengthsOf(r)' /\ ContextOf(r)'
      BY <1>1, <1>2, <2>1 DEF IInv, LengthsOf, ContextOf, KvTotal, TokenTotal
    <2>4. TailOf(r)'
      BY <1>1 DEF IInv, TailOf, Used, Owned, KvTotal
    <2>5. FramesOf(r)'
      BY <1>1, <1>3 DEF IInv, FramesOf
    <2>6. StepsOf(r)'
      BY <1>1 DEF IInv, StepsOf, WindowStep
    <2> QED
      BY <2>2, <2>3, <2>4, <2>5, <2>6 DEF MemoryOf
  <1>9. Rows'
    BY <1>1, <1>6, RowsSame DEF IInv
  <1> QED
    BY <1>2, <1>4, <1>7, <1>8, <1>9, Together

\* apply_frame_window_plan, the row being that of a candidate with no step in
\* flight.
LEMMA WindowApplies ==
    ASSUME IInv, NEW r \in Req, WindowStep(r), frames[r].due,
           NEW plan \in Plan(r), ApplyFrameWindow(r, plan)
    PROVE  IInv'
  <1> DEFINE fold == IF plan.fold * FrameSlots <= Cardinality(free) THEN plan.fold ELSE 0
             n == fold * FrameSlots
             pooled == Alloc(n)
             old == EncoderSlots(r)
             a == plan.evict * FrameSlots
             b == frames[r].pooled * FrameSlots
             c == b + (plan.drop + PoolRatio * plan.fold) * FrameSlots
             new == SubSeq(old, a + 1, b) \o pooled \o SubSeq(old, c + 1, Len(old))
             left == {old[i] : i \in 1 .. a \cup (b + 1) .. c}
             u == new \o DecoderSlots(r)
             k == KvTotal(r)
             m == (b - a) + n + (kv[r].enc - c)
  <1>1. /\ row' = [row EXCEPT ![r] = Clear(Write(row[r], 0, u), Len(new) + kv[r].dec, Width)]
        /\ free' = (free \ {pooled[i] : i \in DOMAIN pooled}) \cup left
        /\ kv' = [kv EXCEPT ![r].enc = Len(new), ![r].alloc = Len(new) + kv[r].dec]
        /\ frames' = [frames EXCEPT ![r].pooled = @ - plan.evict + fold,
                                    ![r].raw = @ - plan.drop - PoolRatio * plan.fold,
                                    ![r].due = FALSE]
    BY DEF ApplyFrameWindow
  <1>2. /\ Control' /\ Flushed' /\ Capacity' /\ doomed = {} /\ Staged = {} /\ Staged' = {}
        /\ \A q \in Req : StepsKeptOf(q) /\ InFlight(q)' = InFlight(q) /\ PlaceOf(q)'
        /\ \A q \in Req \ {r} : frames'[q] = frames[q] => DueOf(q)'
    BY WindowControl
  <1>3. /\ pc' = pc /\ st' = st /\ staged' = staged /\ doomed' = doomed /\ cand' = cand \ {r}
        /\ UNCHANGED <<events, sent, prepared, pending, resolving, controls, async_decode, frame_window>>
    BY DEF WindowStep
  <1>4. st[r].place \in Resident /\ st[r].phase # "aborted" /\ InFlight(r) = 0
    BY DEF IInv, DueOf, WindowStep
  <1>5. /\ kv[r] \in Lengths /\ kv[r].enc \in Nat /\ kv[r].dec \in Nat
        /\ kv[r].appended \in Nat /\ kv[r].alloc \in Nat /\ kv[r].fill \in Nat
        /\ k = kv[r].enc + kv[r].dec /\ k \in Nat /\ row[r] \in Cells
        /\ frames[r].raw \in Nat /\ frames[r].pooled \in Nat /\ kv[r].enc <= k
    BY Typed DEF IInv, KvTotal
  <1>6. /\ kv[r].alloc = k /\ kv[r].appended >= kv[r].enc /\ k <= Width
        /\ kv[r].enc = (frames[r].raw + frames[r].pooled) * FrameSlots
    <2>1. LengthsOf(r) /\ r \notin doomed
      BY <1>2 DEF IInv
    <2>2. /\ kv[r].appended >= kv[r].enc
          /\ kv[r].alloc >= KvTotal(r) + InFlight(r)
          /\ ~(kv[r].alloc > KvTotal(r) + InFlight(r))
      BY <1>4, <2>1 DEF LengthsOf
    <2>3. kv[r].alloc <= Width /\ kv[r].enc = (frames[r].raw + frames[r].pooled) * FrameSlots
      BY <1>4 DEF IInv, ContextOf, FramesOf
    <2> QED
      BY <1>4, <1>5, <2>2, <2>3
  <1>7. /\ plan.evict \in Nat /\ plan.drop \in Nat /\ plan.fold \in Nat
        /\ plan.evict <= frames[r].pooled
        /\ PoolRatio * plan.fold \in Nat /\ plan.fold <= PoolRatio * plan.fold
        /\ plan.drop + PoolRatio * plan.fold < frames[r].raw
    <2>1. /\ plan.evict \in 0 .. frames[r].pooled /\ plan.drop \in 0 .. frames[r].raw
          /\ plan.fold \in 0 .. frames[r].raw \div PoolRatio
          /\ plan.drop + PoolRatio * plan.fold < frames[r].raw
      BY DEF Plan, Plans
    <2>2. plan.evict \in Nat /\ plan.drop \in Nat /\ plan.fold \in Nat
          /\ plan.evict <= frames[r].pooled
      BY <1>5, <2>1
    <2>3. PoolRatio * plan.fold \in Nat /\ plan.fold <= PoolRatio * plan.fold
      <3> DEFINE x == plan.fold
      <3>1. x \in Nat
        BY <2>2
      <3> HIDE DEF x
      <3>2. PoolRatio * x \in Nat /\ x <= PoolRatio * x
        BY <3>1, Sizes
      <3> QED
        BY <3>2 DEF x
    <2> QED
      BY <2>1, <2>2, <2>3
  <1>8. fold \in Nat /\ fold <= PoolRatio * plan.fold /\ n <= Cardinality(free) /\ n \in Nat
    <2>1. Cardinality(free) \in Nat
      BY FreeFinite DEF IInv, TypeOK
    <2>2. CASE plan.fold * FrameSlots <= Cardinality(free)
      BY <1>7, <2>1, <2>2, Sizes
    <2>3. CASE ~(plan.fold * FrameSlots <= Cardinality(free))
      <3>1. fold = 0
        BY <2>3
      <3> HIDE DEF fold
      <3> QED
        BY <1>7, <2>1, <3>1, Sizes
    <2> QED
      BY <2>2, <2>3
  <1> HIDE DEF fold
  <1>9. /\ a \in Nat /\ b \in Nat /\ c \in Nat /\ n \in Nat /\ m \in Nat
        /\ a <= b /\ b <= c /\ c <= kv[r].enc /\ n <= c - b /\ m <= kv[r].enc
        /\ m = ((frames[r].raw - plan.drop - PoolRatio * plan.fold)
                 + (frames[r].pooled - plan.evict + fold)) * FrameSlots
    <2> DEFINE d == plan.drop
               e == plan.evict
               p == PoolRatio * plan.fold
               x == frames[r].raw
               y == frames[r].pooled
    <2>1. /\ x \in Nat /\ y \in Nat /\ e \in Nat /\ d \in Nat /\ p \in Nat /\ e <= y
          /\ d + p <= x /\ fold <= p /\ fold \in Nat
      BY <1>5, <1>7, <1>8
    <2>2. kv[r].enc = (x + y) * FrameSlots
      BY <1>6
    <2> HIDE DEF d, e, p, x, y
    <2>3. /\ e * FrameSlots \in Nat /\ y * FrameSlots \in Nat /\ fold * FrameSlots \in Nat
          /\ y * FrameSlots + (d + p) * FrameSlots \in Nat /\ (x + y) * FrameSlots \in Nat
          /\ e * FrameSlots <= y * FrameSlots
          /\ y * FrameSlots <= y * FrameSlots + (d + p) * FrameSlots
          /\ y * FrameSlots + (d + p) * FrameSlots <= (x + y) * FrameSlots
          /\ fold * FrameSlots <= (d + p) * FrameSlots
          /\ (y * FrameSlots - e * FrameSlots) + fold * FrameSlots
                 + ((x + y) * FrameSlots - (y * FrameSlots + (d + p) * FrameSlots))
               = ((x - d - p) + (y - e + fold)) * FrameSlots
      BY <2>1, PlanLengths, Sizes
    <2>4. /\ a = e * FrameSlots /\ b = y * FrameSlots /\ n = fold * FrameSlots
          /\ c = y * FrameSlots + (d + p) * FrameSlots
      BY DEF d, e, p, x, y
    <2>5. (d + p) * FrameSlots \in Nat
      BY <2>1, Sizes
    <2>6. /\ a \in Nat /\ b \in Nat /\ c \in Nat /\ n \in Nat /\ a <= b /\ b <= c
          /\ c <= kv[r].enc
      BY <2>2, <2>3, <2>4
    <2>7. n <= c - b
      BY <2>3, <2>4, <2>5
    <2>8. m = ((x - d - p) + (y - e + fold)) * FrameSlots
      BY <2>2, <2>3, <2>4
    <2> HIDE DEF a, b, c, n
    <2>9. m \in Nat /\ m <= kv[r].enc
      BY <1>5, <2>6, <2>7
    <2> QED
      BY <2>6, <2>7, <2>8, <2>9 DEF d, e, p, x, y
  <1>10. /\ pooled \in [1 .. n -> free] /\ DOMAIN pooled = 1 .. n
         /\ \A i, j \in 1 .. n : pooled[i] = pooled[j] => i = j
         /\ free \subseteq Slot
    <2> HIDE DEF n
    <2> QED
      BY <1>8, AllocFree DEF IInv, TypeOK
  <1>11. pooled \in [1 .. n -> Slot] /\ pooled \in [1 .. n -> Value]
    BY <1>10 DEF Value
  <1>12. /\ old \in [1 .. kv[r].enc -> Value] /\ Len(old) = kv[r].enc
         /\ \A i \in 1 .. kv[r].enc : old[i] = row[r][i]
         /\ DecoderSlots(r) \in [1 .. kv[r].dec -> Value]
    <2>1. /\ old \in [1 .. kv[r].enc -> Value]
          /\ \A i \in 1 .. kv[r].enc : old[i] = row[r][i]
          /\ DecoderSlots(r) \in [1 .. kv[r].dec -> Value]
      BY <1>6, RowParts DEF IInv
    <2> QED
      BY <1>5, <2>1, FunSeq
  <1> HIDE DEF pooled, n, a, b, c, k
  <1>13. Windowed(u, row[r], pooled, a, b, c, k, n)
    <2>1. u = SubSeq(old, a + 1, b) \o pooled \o SubSeq(old, c + 1, kv[r].enc)
                \o DecoderSlots(r)
      BY <1>12
    <2>2. KvTotal(r) <= Width /\ k = KvTotal(r)
      BY <1>6 DEF k
    <2> HIDE DEF u
    <2> QED
      BY <1>9, <1>11, <2>1, <2>2, WindowLayout DEF IInv
  <1> DEFINE total == m + kv[r].dec
  <1>14. total = (b - a) + n + (k - c) /\ total \in Nat /\ total <= k /\ total <= Width
    BY <1>5, <1>6, <1>9, Sizes
  <1>15. u \in [1 .. total -> Value]
    BY <1>13, <1>14 DEF Windowed
  <1>16. Len(new) = m
    <2> DEFINE X == SubSeq(old, a + 1, b)
               Y == SubSeq(old, c + 1, kv[r].enc)
    <2>1. Slice(X, old, a + 1, b) /\ Slice(Y, old, c + 1, kv[r].enc)
      <3>1. /\ a + 1 \in Nat /\ c + 1 \in Nat /\ 1 <= a + 1 /\ 1 <= c + 1 /\ a + 1 <= b + 1
            /\ c + 1 <= kv[r].enc + 1 /\ b <= kv[r].enc /\ kv[r].enc <= kv[r].enc
        BY <1>5, <1>9
      <3> HIDE DEF old, m
      <3> QED
        BY <1>5, <1>9, <1>12, <3>1, SubSeqSlice
    <2>2. new = X \o pooled \o Y
      BY <1>12
    <2> HIDE DEF X, Y, new
    <2>3. b - (a + 1) + 1 = b - a /\ kv[r].enc - (c + 1) + 1 = kv[r].enc - c
          /\ b - a \in Nat /\ kv[r].enc - c \in Nat
      BY <1>5, <1>9
    <2>4. X \in [1 .. b - a -> Value] /\ Y \in [1 .. kv[r].enc - c -> Value]
      BY <2>1, <2>3 DEF Slice
    <2>5. Joins(X \o pooled, X, b - a, pooled, n)
      BY <1>9, <1>11, <2>3, <2>4, ConcatJoins
    <2>6. X \o pooled \in [1 .. b - a + n -> Value] /\ b - a + n \in Nat
      BY <1>9, <2>3, <2>5, SMTT(30) DEF Joins
    <2>7. Joins(new, X \o pooled, b - a + n, Y, kv[r].enc - c)
      BY <2>2, <2>3, <2>4, <2>6, ConcatJoins
    <2>8. new \in [1 .. b - a + n + (kv[r].enc - c) -> Value]
          /\ b - a + n + (kv[r].enc - c) \in Nat
      BY <2>3, <2>6, <2>7 DEF Joins
    <2>9. Len(new) = b - a + n + (kv[r].enc - c)
      BY <2>8, FunSeq
    <2> QED
      BY <2>9
  <1> HIDE DEF new, u, m, old
  <1>17. Compacted(row'[r], u, total)
    <2>1. row'[r] = Clear(Write(row[r], 0, u), total, Width)
      BY <1>1, <1>16 DEF IInv, TypeOK
    <2> HIDE DEF total
    <2> QED
      BY <1>5, <1>14, <1>15, <2>1, CompactedRow
  <1>18. /\ row'[r] \in Cells /\ \A i \in 1 .. total : row'[r][i] = u[i]
         /\ \A i \in total + 1 .. Width : row'[r][i] = 0
    BY <1>17 DEF Compacted
  <1>19. /\ kv'[r] \in Lengths /\ kv'[r].enc = m /\ kv'[r].dec = kv[r].dec
         /\ kv'[r].appended = kv[r].appended /\ kv'[r].alloc = total
         /\ kv'[r].fill = kv[r].fill
    <2>1. kv'[r] = [kv[r] EXCEPT !.enc = m, !.alloc = total]
      BY <1>1, <1>16 DEF IInv, TypeOK
    <2>2. kv[r] \in Lengths /\ m \in Nat /\ total \in Nat
      BY <1>5, <1>9, <1>14
    <2> HIDE DEF total
    <2> QED
      BY <2>1, <2>2 DEF Lengths
  <1> DEFINE raw == frames[r].raw - plan.drop - PoolRatio * plan.fold
             pool == frames[r].pooled - plan.evict + fold
  <1>20. raw \in Nat /\ pool \in Nat
    BY <1>5, <1>7, <1>8
  <1>21. m = (raw + pool) * FrameSlots
    BY <1>9
  <1>22. /\ frames' \in [Req -> FrameRecord] /\ ~frames'[r].due
         /\ frames'[r].raw = raw /\ frames'[r].pooled = pool
    <2>1. frames[r] \in FrameRecord /\ frames \in [Req -> FrameRecord]
      BY DEF IInv, TypeOK, FrameRecord
    <2> DEFINE rec == [frames[r] EXCEPT !.pooled = pool, !.raw = raw, !.due = FALSE]
    <2>2. frames' = [frames EXCEPT ![r] = rec]
      BY <1>1, <2>1
    <2> HIDE DEF raw, pool
    <2>3. rec \in FrameRecord /\ rec.raw = raw /\ rec.pooled = pool /\ ~rec.due
      BY <1>20, <2>1 DEF FrameRecord
    <2> HIDE DEF rec
    <2> QED
      BY <2>1, <2>2, <2>3
  <1> HIDE DEF raw, pool
  <1>23. ASSUME NEW q \in Req, q # r PROVE DataOf(q) /\ frames'[q] = frames[q]
    BY <1>1, <1>3, <1>23 DEF DataOf, IInv, TypeOK
  <1>24. Used(r) = k /\ Used(r)' = total
    BY <1>3, <1>4, <1>6, <1>19 DEF Used, Resident
  <1> HIDE DEF total
  <1>25. TypeOK'
    <2>1. kv' \in [Req -> Lengths]
      BY <1>1, <1>19, <1>23, Typed DEF IInv, TypeOK, DataOf
    <2>2. row' \in [Req -> Cells]
      BY <1>1, <1>18, <1>23, Typed DEF IInv, TypeOK, DataOf
    <2>3. left \subseteq Slot
      <3>1. \A i \in 1 .. k : row[r][i] \in Slot
        BY <1>24 DEF IInv, Rows, RowOf
      <3>2. \A i \in 1 .. a \cup (b + 1) .. c : i \in 1 .. kv[r].enc /\ i \in 1 .. k
        BY <1>5, <1>9
      <3> QED
        BY <1>12, <3>1, <3>2
    <2>4. free' \subseteq Slot
      BY <1>1, <1>10, <2>3
    <2> QED
      BY <1>3, <1>22, <2>1, <2>2, <2>4 DEF IInv, TypeOK, FrameRecord, Lengths, Cells
  <1>26. ASSUME NEW q \in Req, q # r
         PROVE  /\ DueOf(q)' /\ MemoryOf(q)' /\ StepsOf(q)'
                /\ RowOf(q)' /\ Owned(q)' = Owned(q)
    <2>1. DueOf(q)'
      BY <1>2, <1>23, <1>26
    <2>2. /\ DataOf(q) /\ InFlight(q)' = InFlight(q) /\ StepsKeptOf(q) /\ Used(q)' = Used(q)
          /\ row'[q] = row[q]
      BY <1>2, <1>23, <1>26, DataUsed DEF DataOf
    <2>3. MemoryOf(q)' /\ StepsOf(q)'
      BY <1>3, <2>2, SameOf, SameSteps DEF IInv, MemoryOf
    <2>4. RowOf(q)' /\ Owned(q)' = Owned(q)
      BY <2>2, SameRow DEF IInv
    <2> QED
      BY <2>1, <2>3, <2>4
  <1>27. DueOf(r)' /\ MemoryOf(r)' /\ StepsOf(r)'
    <2>1. DueOf(r)'
      BY <1>22 DEF DueOf
    <2>2. /\ InFlight(r)' = 0 /\ KvTotal(r)' = total /\ TokenTotal(r)' = TokenTotal(r)
      BY <1>2, <1>4, <1>19 DEF KvTotal, TokenTotal, total
    <2>3. LengthsOf(r)'
      <3>1. kv'[r].appended >= kv'[r].enc
        BY <1>5, <1>6, <1>9, <1>19
      <3>2. kv'[r].alloc = KvTotal(r)' + InFlight(r)' /\ total \in Nat
        BY <1>14, <1>19, <2>2
      <3>3. kv'[r].fill = TokenTotal(r)' + 1 + staged'[r].len
        <4>1. kv[r].fill = TokenTotal(r) + 1 + staged[r].len
          BY <1>2, <1>4 DEF IInv, LengthsOf
        <4> QED
          BY <1>3, <1>19, <2>2, <4>1
      <3>4. kv'[r].fill >= TokenTotal(r)' + 1 + staged'[r].len
        BY <1>19, <3>3 DEF Lengths
      <3> QED
        BY <1>3, <1>4, <1>14, <1>19, <2>2, <3>1, <3>2, <3>3, <3>4 DEF LengthsOf, Resident
    <2>4. FramesOf(r)'
      <3>1. FramesOf(r)
        BY DEF IInv
      <3>2. kv'[r].enc = (frames'[r].raw + frames'[r].pooled) * FrameSlots
        BY <1>19, <1>21, <1>22
      <3>3. staged'[r] = staged[r] /\ kv'[r].fill = kv[r].fill
        BY <1>3, <1>19
      <3> QED
        BY <1>3, <1>4, <3>1, <3>2, <3>3 DEF FramesOf, Resident
    <2>5. ContextOf(r)'
      <3>1. kv[r].fill + InFlight(r) <= ContextLimit
        BY <1>4 DEF IInv, ContextOf
      <3> QED
        BY <1>2, <1>4, <1>14, <1>19, <2>2, <3>1 DEF ContextOf
    <2>6. TailOf(r)'
      BY <1>3, <1>4, <1>18, <1>19 DEF TailOf, Resident
    <2>7. StepsOf(r)'
      <3>1. In(r, prepared)' = 0 /\ In(r, pending)' = 0 /\ In(r, resolving)' = 0
        <4>1. /\ In(r, prepared)' \in {0, 1} /\ In(r, pending)' \in {0, 1}
              /\ In(r, resolving)' \in {0, 1}
          BY DEF In
        <4> QED
          BY <2>2, <4>1 DEF InFlight
      <3> QED
        BY <3>1 DEF StepsOf, In
    <2> QED
      BY <2>1, <2>3, <2>4, <2>5, <2>6, <2>7 DEF MemoryOf
  <1>28. /\ RowOf(r)'
         /\ \A s : s \in Owned(r)' <=>
              \/ \E j \in 1 .. k : ~(j <= a) /\ ~(b < j /\ j <= c) /\ s = row[r][j]
              \/ \E j \in 1 .. n : s = pooled[j]
    <2>1. /\ \A i \in 1 .. k : row[r][i] \in Slot
          /\ \A i, j \in 1 .. k : row[r][i] = row[r][j] => i = j
      BY <1>24 DEF IInv, Rows, RowOf
    <2>2. \A i \in 1 .. k, j \in 1 .. n : row[r][i] # pooled[j]
      <3>1. \A s \in free : s \notin Owned(r)
        BY <1>10 DEF IInv, Rows
      <3>2. \A i \in 1 .. k : row[r][i] \in Owned(r)
        BY <1>24, OwnedDef
      <3> QED
        BY <1>10, <3>1, <3>2
    <2>3. c <= k
      BY <1>5, <1>9
    <2>4. WindowedOnce(u, row[r], pooled, a, b, c, k, n)
      BY <1>5, <1>9, <1>10, <1>11, <1>13, <2>1, <2>2, <2>3, WindowedSlots
    <2>5. /\ \A i \in 1 .. total : u[i] \in Slot
          /\ \A i, j \in 1 .. total : u[i] = u[j] => i = j
          /\ \A s : (\E i \in 1 .. total : s = u[i]) <=>
                      \/ \E j \in 1 .. k : ~(j <= a) /\ ~(b < j /\ j <= c) /\ s = row[r][j]
                      \/ \E j \in 1 .. n : s = pooled[j]
      BY <1>14, <2>4 DEF WindowedOnce
    <2>6. RowOf(r)'
      BY <1>18, <1>24, <2>5 DEF RowOf
    <2>7. \A s : s \in Owned(r)' <=> \E i \in 1 .. total : s = u[i]
      BY <1>18, <1>24 DEF Owned, Prefix
    <2> QED
      BY <2>5, <2>6, <2>7
  <1>29. Rows'
    <2>1. \A s : s \in Owned(r) <=> \E j \in 1 .. k : s = row[r][j]
      BY <1>24, OwnedDef
    <2>2. \A s : (\E j \in 1 .. n : s = pooled[j]) => s \in free
      BY <1>10
    <2>3. Owned(r)' \subseteq Owned(r) \cup free
      BY <1>28, <2>1, <2>2
    <2>4. ASSUME NEW s \in Slot
          PROVE  s \in free' <=> (s \in free \/ s \in Owned(r)) /\ s \notin Owned(r)'
      <3>1. s \in free => s \notin Owned(r)
        BY DEF IInv, Rows
      <3>2. s \in left <=> \E j \in 1 .. k : (j <= a \/ (b < j /\ j <= c)) /\ s = row[r][j]
        <4>1. s \in left <=> \E j \in 1 .. a \cup (b + 1) .. c : s = old[j]
          OBVIOUS
        <4>2. \A j : j \in 1 .. a \cup (b + 1) .. c <=>
                       j \in 1 .. k /\ (j <= a \/ (b < j /\ j <= c))
          BY <1>5, <1>9
        <4>3. \A j \in 1 .. a \cup (b + 1) .. c : old[j] = row[r][j]
          <5>1. \A j \in 1 .. a \cup (b + 1) .. c : j \in 1 .. kv[r].enc
            BY <1>5, <1>9
          <5> QED
            BY <1>12, <5>1
        <4> QED
          BY <4>1, <4>2, <4>3
      <3>3. s \in free' <=> (s \in free /\ ~ \E j \in 1 .. n : s = pooled[j]) \/ s \in left
        BY <1>1, <1>10
      <3>4. \A i, j \in 1 .. k : row[r][i] = row[r][j] => i = j
        BY <1>24 DEF IInv, Rows, RowOf
      <3>5. CASE s \in free
        BY <1>28, <2>1, <3>1, <3>2, <3>3, <3>5
      <3>6. CASE s \notin free
        BY <1>28, <2>1, <2>2, <3>2, <3>3, <3>4, <3>6
      <3> QED
        BY <3>5, <3>6
    <2>5. \A q \in Req \ {r} : RowOf(q)' /\ Owned(q)' = Owned(q)
      BY <1>26
    <2> QED
      BY <1>28, <2>3, <2>4, <2>5, RowsOne DEF IInv
  <1> QED
    BY <1>2, <1>25, <1>26, <1>27, <1>29, Together

\* The window compacts a row.
LEMMA WindowRoundKeeps ==
    ASSUME IInv, NEW r \in Req, WindowRound(r), UNCHANGED <<async_decode, frame_window>>
    PROVE  IInv'
  <1>1. WindowStep(r)
    BY DEF WindowRound, WindowStep, inputs, steps, aborts
  <1>2. CASE frames' = [frames EXCEPT ![r].due = FALSE] /\ UNCHANGED memory
    BY <1>1, <1>2, WindowSkips
  <1>3. CASE frames[r].due /\ \E plan \in Plan(r) : ApplyFrameWindow(r, plan)
    BY <1>1, <1>3, WindowApplies
  <1> QED
    BY <1>2, <1>3 DEF WindowRound

-----------------------------------------------------------------------------
(* The invariant holds.                                                    *)

\* The scheduler starts in the invariant.
LEMMA InitInv == Init => IInv
  <1> SUFFICES ASSUME Init PROVE IInv
    OBVIOUS
  <1>1. \A r \in Req : /\ kv[r] = NoLengths /\ staged[r] = NoSegment
                       /\ st[r].place = "new" /\ st[r].phase = "waiting"
                       /\ frames[r].raw = 0 /\ frames[r].pooled = 0 /\ ~frames[r].due
    BY DEF Init
  <1>2. TypeOK
    <2>1. st \in [Req -> Status]
      BY DEF Init, Status, Place, Phase
    <2>2. kv \in [Req -> Lengths] /\ row \in [Req -> Cells]
      BY GoneFields DEF Init
    <2>3. /\ frames \in [Req -> FrameRecord] /\ free \subseteq Slot
          /\ events \in [Req -> [frame : Nat, prompt : Nat]]
          /\ sent \in [Req -> 0 .. MaxEvents]
          /\ staged \in [Req -> [frames : Nat, enc : Nat, len : Nat]]
      BY Sizes DEF Init, FrameRecord, NoEvents, NoSegment
    <2>4. {prepared, pending, resolving} \subseteq Step
      BY NoStepType DEF Init
    <2>5. /\ pc \in PC /\ async_decode \in BOOLEAN /\ frame_window \in BOOLEAN
          /\ {doomed, controls, cand} \subseteq SUBSET Req
      BY DEF Init, PC
    <2> QED
      BY <2>1, <2>2, <2>3, <2>4, <2>5 DEF TypeOK, Status, Lengths, Cells, FrameRecord
  <1>3. Staged = {}
    BY <1>1 DEF Staged
  <1>4. Control /\ Flushed /\ Capacity
    BY <1>3 DEF Init, Control, Flushed, Capacity
  <1>5. ASSUME NEW r \in Req
        PROVE  /\ PlaceOf(r) /\ DueOf(r) /\ LengthsOf(r) /\ FramesOf(r) /\ ContextOf(r)
               /\ TailOf(r) /\ StepsOf(r)
    <2>1. InFlight(r) = 0
      BY NoStepFlying DEF Init, InFlight
    <2>2. staged[r].frames = 0 /\ staged[r].enc = 0 /\ staged[r].len = 0
      BY <1>2, <1>3, SegmentFields
    <2>3. PlaceOf(r) /\ DueOf(r)
      BY <1>1, <1>3, <2>1 DEF PlaceOf, DueOf, Resident
    <2>4. LengthsOf(r) /\ ContextOf(r)
      BY <1>1, <1>3, Sizes, GoneFields DEF LengthsOf, ContextOf, Resident
    <2>5. FramesOf(r)
      BY <1>1, <2>2, Sizes, GoneFields DEF FramesOf, Resident
    <2>6. TailOf(r) /\ StepsOf(r)
      BY <1>1 DEF TailOf, StepsOf, Resident
    <2> QED
      BY <2>3, <2>4, <2>5, <2>6
  <1>6. Rows
    <2>1. \A r \in Req : Used(r) = 0
      BY <1>1, GoneFields DEF Used
    <2>2. \A r \in Req : RowOf(r) /\ Owned(r) = {}
      BY <2>1 DEF RowOf, Owned, Prefix
    <2>3. free = Slot
      BY DEF Init
    <2> QED
      BY <2>2, <2>3 DEF Rows
  <1> QED
    BY <1>2, <1>4, <1>5, <1>6 DEF IInv

\* A step that changes nothing.
LEMMA StutterInv == IInv /\ UNCHANGED vars => IInv'
  <1> SUFFICES ASSUME IInv, UNCHANGED vars PROVE IInv'
    OBVIOUS
  <1> USE DEF vars, state, memory, inputs, steps, aborts
  <1>1. TypeOK'
    BY DEF IInv, TypeOK
  <1>2. Control' /\ Flushed' /\ Capacity'
    BY DEF IInv, Control, Flushed, Capacity, Quiet, At, Staged, HasPendingEvents,
       CapacityError, CheckDecodeMem, KvTotal
  <1>3. \A r \in Req : PlaceOf(r)' /\ DueOf(r)'
    <2> TAKE r \in Req
    <2>1. InFlight(r)' = InFlight(r)
      BY DEF InFlight, In
    <2> QED
      BY <2>1 DEF IInv, PlaceOf, DueOf, Staged
  <1> QED
    BY <1>1, <1>2, <1>3, Still DEF DataKept

\* An extend makes its frames due only when there is a window, and a window round
\* leaves nothing due that was not.
LEMMA WindowDueKept == IInv /\ WindowDue /\ [Next]_vars => WindowDue'
  <1> SUFFICES ASSUME IInv, WindowDue, [Next]_vars, NEW q \in Req, frames'[q].due
               PROVE  frame_window'
    BY DEF WindowDue
  <1>1. frame_window' = frame_window
    BY DEF Next, vars
  <1>2. frames \in [Req -> FrameRecord]
    BY DEF IInv, TypeOK, FrameRecord
  <1>3. frames' = frames => frame_window'
    BY <1>1 DEF WindowDue
  <1>4. CASE UNCHANGED vars
    BY <1>3, <1>4 DEF vars, state
  <1>5. CASE Message \/ Subroutine \/ Decoding
    <2>1. Message => frames' = frames
      BY Zenon DEF Message, Submit, Update, RejectUpdate, AbortMessage
    <2>2. Subroutine => frames' = frames
      BY Zenon DEF Subroutine, Resolve, ResolveFails, AbortFlush, Abort, ControlAbort
    <2>3. Decoding => frames' = frames
      BY Zenon DEF Decoding, Prefill, NoPrefill, RunPrefill, RunPrefillFails,
         GuardDecodeCapacity, RateLimited, NotRateLimited, Preempt, PreemptDone,
         PrepareDecode, LaunchDecode, RunDecode, DecodeFails, Idle
    <2> QED
      BY <1>3, <1>5, <2>1, <2>2, <2>3
  <1>6. ASSUME NEW r \in Req, WindowRound(r) PROVE frame_window'
    <2>1. CASE frames' = [frames EXCEPT ![r].due = FALSE]
      <3>1. frames'[q] = IF q = r THEN [frames[q] EXCEPT !.due = FALSE] ELSE frames[q]
        BY <1>2, <2>1
      <3>2. frames[q] \in FrameRecord
        BY <1>2
      <3> QED
        BY <1>1, <3>1, <3>2 DEF WindowDue, FrameRecord
    <2>2. CASE frames[r].due
      BY <1>1, <2>2 DEF WindowDue
    <2> QED
      BY <1>6, <2>1, <2>2, Zenon DEF WindowRound
  <1>7. CASE Planning
    <2>1. \/ \E r \in Req : WindowRound(r)
          \/ frames' = frames
      BY <1>7, Zenon DEF Planning, BeginPlan, ExpireParked, EventsBarrier,
         EvaluateFrameWindow, WindowRoundFails, WindowDone
    <2> QED
      BY <1>3, <1>6, <2>1
  <1>8. CASE RunExtend
    <2>1. \/ frames'[q] = frames[q]
          \/ frames'[q] = [frames[q] EXCEPT !.raw = @ + staged[q].frames,
                                            !.due = frame_window]
      <3>1. frames' = [r \in Req |->
                         IF r \in At("extend") /\ staged[r].frames > 0
                         THEN [frames[r] EXCEPT !.raw = @ + staged[r].frames,
                                                !.due = frame_window]
                         ELSE frames[r]]
        BY <1>8, Zenon DEF RunExtend
      <3>2. frames'[q] = IF q \in At("extend") /\ staged[q].frames > 0
                         THEN [frames[q] EXCEPT !.raw = @ + staged[q].frames,
                                                !.due = frame_window]
                         ELSE frames[q]
        BY <3>1, Zenon
      <3> QED
        BY <3>2, Zenon
    <2>2. CASE frames'[q] = frames[q]
      BY <1>1, <2>2 DEF WindowDue
    <2>3. CASE frames'[q] = [frames[q] EXCEPT !.raw = @ + staged[q].frames,
                                              !.due = frame_window]
      <3>1. frames[q] \in FrameRecord
        BY <1>2
      <3>2. frames'[q].due = frame_window
        BY <2>3, <3>1 DEF FrameRecord
      <3> QED
        BY <1>1, <3>2
    <2> QED
      BY <2>1, <2>2, <2>3
  <1>9. CASE Extending
    <2>1. RunExtend \/ frames' = frames
      BY <1>9, Zenon DEF Extending, Materialize, MaterializeFails, MaterializeDone,
         BudgetVictim, BudgetDone, StageAppend, StageDone, StageFails, RunExtendFails,
         RollbackExtend
    <2> QED
      BY <1>3, <1>8, <2>1
  <1> QED
    BY <1>4, <1>5, <1>7, <1>9 DEF Next, Scheduler

\* Every step keeps the invariant.
LEMMA NextInv == IInv /\ WindowDue /\ [Next]_vars => IInv'
  <1> SUFFICES ASSUME IInv, WindowDue, [Next]_vars PROVE IInv'
    OBVIOUS
  <1>1. CASE UNCHANGED vars
    BY <1>1, StutterInv
  <1>2. ASSUME Message, UNCHANGED <<async_decode, frame_window>> PROVE IInv'
    BY <1>2, SubmitKeeps, UpdateKeeps, RejectUpdateKeeps, AbortMessageKeeps DEF Message
  <1>3. ASSUME Subroutine, UNCHANGED <<async_decode, frame_window>> PROVE IInv'
    BY <1>3, ResolveKeeps, ResolveFailsKeeps, AbortFlushKeeps, AbortKeeps, ControlAbortKeeps
       DEF Subroutine
  <1>4. ASSUME Planning, UNCHANGED <<async_decode, frame_window>> PROVE IInv'
    BY <1>4, BeginPlanKeeps, ExpireParkedKeeps, EventsBarrierKeeps,
       EvaluateFrameWindowKeeps, WindowRoundKeeps, WindowRoundFailsKeeps, WindowDoneKeeps
       DEF Planning
  <1>5. ASSUME Extending, UNCHANGED <<async_decode, frame_window>> PROVE IInv'
    BY <1>5, MaterializeKeeps, MaterializeFailsKeeps, MaterializeDoneKeeps,
       BudgetVictimKeeps, BudgetDoneKeeps, StageAppendKeeps, StageDoneKeeps,
       StageFailsKeeps, RunExtendKeeps, RunExtendFailsKeeps DEF Extending
  <1>6. ASSUME Decoding, UNCHANGED <<async_decode, frame_window>> PROVE IInv'
    BY <1>6, PrefillKeeps, NoPrefillKeeps, RunPrefillKeeps, RunPrefillFailsKeeps,
       GuardDecodeCapacityKeeps, RateLimitedKeeps, NotRateLimitedKeeps, PreemptKeeps,
       PreemptDoneKeeps, PrepareDecodeKeeps, LaunchDecodeKeeps, RunDecodeKeeps,
       DecodeFailsKeeps, IdleKeeps DEF Decoding
  <1> QED
    BY <1>1, <1>2, <1>3, <1>4, <1>5, <1>6 DEF Next, Scheduler

\* Every step of the scheduler thread, of the model runner's overlapped steps and
\* of the clients' appends and aborts preserves the inductive invariant.
THEOREM Invariance == Spec => []IInv
  <1>1. Init => WindowDue
    BY DEF Init, WindowDue
  <1>2. IInv /\ WindowDue /\ [Next]_vars => WindowDue'
    BY WindowDueKept
  <1> QED
    BY <1>1, <1>2, InitInv, NextInv, PTL DEF Spec

\* Every variable keeps its type: no length of a request becomes negative, no
\* cell of a row and no step in flight holds a number that is not a slot.
THEOREM TypeCorrect == Spec => []TypeOK
  <1>1. IInv => TypeOK
    BY DEF IInv
  <1> QED
    BY <1>1, Invariance, PTL

-----------------------------------------------------------------------------
(* Slots and rows.                                                         *)

\* What release_kv_cache reads is what the row owns, and in an extend the empty
\* cell too.
LEMMA HeldOwned ==
    ASSUME IInv, NEW r \in Req
    PROVE  /\ Owned(r) \subseteq Held(r) /\ Held(r) \subseteq Owned(r) \cup {0}
           /\ st[r].place # "extend" => Held(r) = Owned(r)
  <1>1. CASE st[r].place # "extend"
    <2>1. Held(r) = Owned(r)
      BY <1>1 DEF Held, Owned, Used
    <2> QED
      BY <2>1
  <1>2. CASE st[r].place = "extend"
    <2>1. /\ kv[r].alloc \in Nat /\ KvTotal(r) \in Nat /\ TokenTotal(r) \in Nat
          /\ staged[r].len \in Nat
      BY Typed DEF IInv
    <2>2. Used(r) \in Nat /\ Used(r) <= kv[r].alloc
      <3>1. kv[r].alloc = TokenTotal(r) + staged[r].len + 1 /\ kv[r].appended >= kv[r].enc
        BY <1>2 DEF IInv, LengthsOf
      <3>2. TokenTotal(r) >= KvTotal(r)
        BY <3>1, Typed DEF IInv, TokenTotal, KvTotal
      <3> QED
        BY <1>2, <2>1, <3>1, <3>2 DEF Used
    <2>3. \A i \in 1 .. kv[r].alloc : i \in 1 .. Used(r) \/ i \in Used(r) + 1 .. kv[r].alloc
      BY <2>1, <2>2
    <2>4. \A i \in 1 .. Used(r) : i \in 1 .. kv[r].alloc
      BY <2>1, <2>2
    <2>5. \A i \in Used(r) + 1 .. kv[r].alloc : row[r][i] \in Owned(r) \cup {0}
      BY <1>2 DEF IInv, TailOf
    <2>6. Owned(r) \subseteq Held(r)
      BY <2>4 DEF Owned, Held, Prefix
    <2>7. Held(r) \subseteq Owned(r) \cup {0}
      <3> SUFFICES ASSUME NEW i \in 1 .. kv[r].alloc PROVE row[r][i] \in Owned(r) \cup {0}
        BY DEF Held, Prefix
      <3>1. CASE i \in 1 .. Used(r)
        BY <3>1, OwnedDef
      <3> QED
        BY <2>3, <2>5, <3>1
    <2> QED
      BY <1>2, <2>6, <2>7
  <1> QED
    BY <1>1, <1>2

\* A row without repetition owns as many slots as it has cells in use.
LEMMA OwnedCardinality ==
    ASSUME IInv, NEW r \in Req
    PROVE  /\ Used(r) \in Nat /\ IsFiniteSet(Owned(r)) /\ Cardinality(Owned(r)) = Used(r)
           /\ Owned(r) \subseteq Slot
  <1> DEFINE n == Used(r)
             f == [i \in 1 .. n |-> row[r][i]]
  <1>1. n \in Nat
    BY Typed DEF IInv, Used
  <1>2. /\ \A i \in 1 .. n : row[r][i] \in Slot
        /\ \A i, j \in 1 .. n : row[r][i] = row[r][j] => i = j
    BY DEF IInv, Rows, RowOf
  <1> HIDE DEF n
  <1>3. Owned(r) = {row[r][i] : i \in 1 .. n}
    BY DEF Owned, Prefix, n
  <1>4. f \in Bijection(1 .. n, Owned(r))
    <2>1. f \in [1 .. n -> Owned(r)]
      BY <1>3
    <2>2. \A i, j \in 1 .. n : f[i] = f[j] => i = j
      BY <1>2
    <2>3. \A s \in Owned(r) : \E i \in 1 .. n : f[i] = s
      BY <1>3
    <2> QED
      BY <2>1, <2>2, <2>3 DEF Bijection, Injection, Surjection, IsInjective
  <1>5. IsFiniteSet(1 .. n) /\ Cardinality(1 .. n) = n
    BY <1>1, FS_Interval
  <1>6. IsFiniteSet(Owned(r)) /\ Cardinality(Owned(r)) = n
    BY <1>4, <1>5, FS_Bijection, Fun_ExistsBij
  <1>7. Owned(r) \subseteq Slot
    BY <1>2, <1>3
  <1> QED
    BY <1>1, <1>6, <1>7 DEF n

\* The invariant implies that every slot is free or in exactly one row.
LEMMA SlotsAccounted ==
    ASSUME IInv
    PROVE  SlotAccounting
  <1>1. free \subseteq Slot /\ 0 \notin Slot
    BY DEF IInv, TypeOK, Slot
  <1>2. SlotsPartitioned
    <2>1. \A r \in Req : free \cap Held(r) = {}
      BY <1>1, HeldOwned DEF IInv, Rows
    <2>2. \A r, q \in Req : r # q => Held(r) \cap Held(q) \subseteq {0}
      BY HeldOwned DEF IInv, Rows
    <2>3. Slot \subseteq free \cup UNION {Held(r) : r \in Req}
      BY HeldOwned DEF IInv, Rows
    <2> QED
      BY <2>1, <2>2, <2>3 DEF SlotsPartitioned
  <1>3. ASSUME NEW r \in Req, st[r].place # "extend"
        PROVE  0 \notin Held(r) /\ Cardinality(Held(r)) = kv[r].alloc
    <2>1. Held(r) = Owned(r) /\ Used(r) = kv[r].alloc
      BY <1>3, HeldOwned DEF Used
    <2> QED
      BY <1>1, <2>1, OwnedCardinality
  <1> QED
    BY <1>2, <1>3 DEF SlotAccounting, RowReleasable

\* The invariant implies that rows, lengths and steps in flight agree.
LEMMA RowsConsistent ==
    ASSUME IInv
    PROVE  RowConsistent
  <1>1. ASSUME NEW r \in (At("running") \cup At("parked")) \ doomed
        PROVE  /\ kv[r].fill = TokenTotal(r) + 1 + staged[r].len
               /\ kv[r].alloc = KvTotal(r) + InFlight(r)
    <2>1. r \in Req /\ st[r].place \in Resident /\ r \notin doomed
      BY DEF At, Resident
    <2>2. LengthsOf(r) /\ kv[r].alloc \in Nat /\ KvTotal(r) \in Nat /\ InFlight(r) \in Nat
      BY <2>1, Typed, InFlightType DEF IInv
    <2> QED
      BY <2>1, <2>2 DEF LengthsOf
  <1>2. ASSUME NEW r \in At("running") \cup At("parked"),
               NEW i \in kv[r].alloc + 1 .. TokenTotal(r)
        PROVE  row[r][i] = 0
    <2>1. r \in Req /\ st[r].place \in Resident
      BY DEF At, Resident
    <2>2. /\ kv[r].alloc \in Nat /\ KvTotal(r) \in Nat /\ InFlight(r) \in Nat
          /\ TokenTotal(r) \in Nat /\ staged[r].len \in Nat /\ kv[r].fill \in Nat
          /\ kv[r].enc \in Nat /\ kv[r].dec \in Nat /\ kv[r].appended \in Nat
      BY <2>1, Typed, InFlightType DEF IInv
    <2>3. /\ kv[r].alloc >= KvTotal(r) + InFlight(r)
          /\ kv[r].fill >= TokenTotal(r) + 1 + staged[r].len
          /\ kv[r].fill + InFlight(r) <= ContextLimit
      BY <2>1 DEF IInv, LengthsOf, ContextOf
    <2>4. i \in kv[r].alloc + 1 .. Width
      BY <2>2, <2>3, Sizes
    <2>5. kv[r].appended > kv[r].enc
      BY <2>2, <2>3 DEF TokenTotal, KvTotal
    <2> QED
      BY <2>1, <2>4, <2>5 DEF IInv, TailOf
  <1> QED
    BY <1>1, <1>2 DEF RowConsistent, LengthsAgree, DeadZoneEmpty

\* However extends, window rewrites, lookahead steps, parks, failures and aborts
\* follow one another: every slot is free or in exactly one row, releasing a
\* request gives each of its slots back once and never slot 0, and a row, its
\* lengths and the steps in flight agree.
THEOREM RowsAreSound == Spec => []RowsSound
  <1>1. IInv => RowsSound
    BY SlotsAccounted, RowsConsistent DEF RowsSound
  <1> QED
    BY <1>1, Invariance, PTL

\* The invariant implies that only settled rows are rewritten.
LEMMA Settled ==
    ASSUME IInv
    PROVE  RowsSettled
  <1>1. ASSUME pc = "apply", Quiet, NEW r \in cand, frames[r].due
        PROVE  st[r].place \in {"running", "parked"} /\ kv[r].alloc = KvTotal(r)
    <2>1. r \in Req /\ doomed = {}
      BY <1>1 DEF IInv, TypeOK, Quiet
    <2>2. st[r].place \in Resident /\ st[r].phase # "aborted" /\ InFlight(r) = 0
      BY <1>1, <2>1 DEF IInv, DueOf
    <2>3. LengthsOf(r) /\ kv[r].alloc \in Nat /\ KvTotal(r) \in Nat
      BY <2>1, Typed DEF IInv
    <2>4. kv[r].alloc = KvTotal(r)
      BY <2>1, <2>2, <2>3 DEF LengthsOf
    <2> QED
      BY <2>2, <2>4 DEF Resident
  <1>2. NoStepUnderExtend
    BY DEF IInv, Flushed, NoStepUnderExtend
  <1> QED
    BY <1>1, <1>2 DEF RowsSettled, WindowSeesSettledRow

\* Neither the frame window nor an extend rewrites a row that a launched step may
\* still read, although the window's candidates are taken before that step is
\* resolved and the resolve may end, park or abort some of them.
THEOREM RowsAreSettled == Spec => []RowsSettled
  <1>1. IInv => RowsSettled
    BY Settled
  <1> QED
    BY <1>1, Invariance, PTL
-----------------------------------------------------------------------------
(* What is let through to an allocation fits.                              *)

\* What a request still takes from the pool in this extend, and what it would
\* give back.
Wanted == [r \in Req |-> staged[r].len + 1]
Totals == [r \in Req |-> KvTotal(r)]

\* While the batch is staged, the pool and what the aborted victims will give
\* back to it cover the segments that have no slots yet.
Budgeted ==
    pc = "stage" =>
        SumFunctionOnSet(Wanted, Staged \ At("extend"))
            <= Cardinality(free) + SumFunctionOnSet(Totals, doomed)

\* Sums over requests are natural numbers.
LEMMA BudgetTyped ==
    ASSUME IInv
    PROVE  /\ \A S \in SUBSET Req :
                /\ IsFiniteSet(S)
                /\ SumFunctionOnSet(Wanted, S) \in Nat
                /\ SumFunctionOnSet(Totals, S) \in Nat
           /\ Cardinality(free) \in Nat /\ IsFiniteSet(free)
           /\ \A r \in Req : Wanted[r] \in Nat /\ Totals[r] \in Nat
  <1>1. \A r \in Req : Wanted[r] \in Nat /\ Totals[r] \in Nat
    BY Typed DEF IInv, Wanted, Totals
  <1>2. Cardinality(free) \in Nat /\ IsFiniteSet(free)
    BY FreeFinite DEF IInv, TypeOK
  <1>3. ASSUME NEW S \in SUBSET Req
        PROVE  /\ IsFiniteSet(S)
               /\ SumFunctionOnSet(Wanted, S) \in Nat
               /\ SumFunctionOnSet(Totals, S) \in Nat
    <2>1. IsFiniteSet(S)
      BY SizesAssumption, FS_Subset
    <2>2. (\A x \in S : Wanted[x] \in Nat) /\ \A x \in S : Totals[x] \in Nat
      BY <1>1
    <2> QED
      BY <2>1, <2>2, SumIsUnits
  <1> QED
    BY <1>1, <1>2, <1>3

\* While a batch is staged nothing but the budget's end, the allocations and the
\* aborts of the victims touches the budget.
LEMMA StageSteps ==
    ASSUME IInv, Next, pc' = "stage", Staged # {}
    PROVE  \/ BudgetDone
           \/ \E r \in Req : pc = "stage" /\ StageAppend(r)
           \/ \E r \in Req : pc = "stage" /\ Abort(r)
  <1>1. ~Message
    BY DEF Message, Submit, Update, RejectUpdate, AbortMessage, AtRecv
  <1>2. ~Planning
    BY DEF Planning, BeginPlan, ExpireParked, EventsBarrier, EvaluateFrameWindow,
           WindowRound, WindowRoundFails, WindowDone
  <1>3. ~Decoding
    BY DEF Decoding, Prefill, NoPrefill, RunPrefill, RunPrefillFails,
           GuardDecodeCapacity, RateLimited, NotRateLimited, Preempt, PreemptDone,
           PrepareDecode, LaunchDecode, RunDecode, DecodeFails, Idle
  <1>4. ASSUME Subroutine PROVE \E r \in Req : pc = "stage" /\ Abort(r)
    <2>1. pending = NoStep /\ resolving = NoStep
      BY SMTT(30) DEF IInv, Flushed
    <2>2. pc = "stage"
      BY <1>4 DEF Subroutine, Resolve, ResolveFails, AbortFlush, Abort, ControlAbort
    <2>3. controls = {}
      BY <2>2 DEF IInv, Control
    <2> QED
      BY <1>4, <2>1, <2>2, <2>3, EmptyStep
         DEF Subroutine, Resolve, ResolveFails, AbortFlush, ControlAbort
  <1>5. ASSUME Extending
        PROVE  BudgetDone \/ \E r \in Req : pc = "stage" /\ StageAppend(r)
    BY <1>5 DEF Extending, Materialize, MaterializeFails, MaterializeDone,
         BudgetVictim, StageAppend, StageDone, StageFails, RunExtend, RunExtendFails
  <1> QED
    BY <1>1, <1>2, <1>3, <1>4, <1>5 DEF Next, Scheduler

\* ~BudgetShort is the budget, and the victims' segments are taken back.
LEMMA BudgetDoneFits ==
    ASSUME IInv, IInv', BudgetDone, pc' = "stage"
    PROVE  Budgeted'
  <1> DEFINE T == Staged \ doomed
             f == [r \in Req |-> staged[r].len + 2]
  <1>1. /\ pc = "budget" /\ ~BudgetShort /\ T # {} /\ kv' = UndoLengths(doomed)
        /\ staged' = UndoSegments(doomed) /\ free' = free /\ st' = st /\ doomed' = doomed
    BY DEF BudgetDone, aborts
  <1>2. T \in SUBSET Req /\ doomed \in SUBSET Req /\ doomed' \in SUBSET Req
    BY DEF Staged, IInv, TypeOK
  <1>3. /\ IsFiniteSet(T) /\ SumFunctionOnSet(Wanted, T) \in Nat
        /\ Cardinality(free) \in Nat /\ SumFunctionOnSet(Totals, doomed) \in Nat
    BY <1>2, BudgetTyped
  <1>4. SumFunctionOnSet(f, T) <= Cardinality(free) + SumFunctionOnSet(Totals, doomed)
    <2>1. /\ VirtualAvailable = Cardinality(free) + SumFunctionOnSet(Totals, doomed)
          /\ Needed(T) = SumFunctionOnSet(f, T)
      BY DEF VirtualAvailable, Totals, Needed
    <2>2. \A x \in T : f[x] \in Nat
      BY <1>2, Typed DEF IInv
    <2>3. SumFunctionOnSet(f, T) \in Nat
      BY <1>3, <2>2, SumIsUnits
    <2>4. ~(VirtualAvailable < Needed(T))
      BY <1>1 DEF BudgetShort
    <2> QED
      BY <1>3, <2>1, <2>3, <2>4
  <1>5. (Staged \ At("extend"))' = T
    <2>1. At("extend")' = {}
      <3>1. At("extend") = {}
        BY <1>1 DEF IInv, PlaceOf, At
      <3> QED
        BY <1>1, <3>1 DEF At
    <2>2. Staged' = T
      BY <1>1 DEF Staged, UndoSegments
    <2> QED
      BY <2>1, <2>2
  <1>6. \A x \in T : Wanted'[x] = Wanted[x] /\ Wanted[x] \in Nat /\ f[x] \in Nat /\ Wanted[x] <= f[x]
    <2> TAKE x \in T
    <2>1. x \in Req /\ x \notin doomed /\ staged[x].len \in Nat
      BY <1>2, Typed DEF IInv
    <2>2. staged'[x] = staged[x]
      BY <1>1, <2>1 DEF UndoSegments
    <2> QED
      BY <2>1, <2>2 DEF Wanted
  <1>7. \A x \in Req : Totals'[x] = Totals[x]
    <2> TAKE x \in Req
    <2>1. kv[x] \in Lengths
      BY DEF IInv, TypeOK, Lengths
    <2>2. kv'[x].enc = kv[x].enc /\ kv'[x].dec = kv[x].dec
      BY <1>1, <2>1 DEF UndoLengths, Lengths
    <2> QED
      BY <2>2 DEF Totals, KvTotal
  <1> HIDE DEF T, f
  <1>8. SumFunctionOnSet(Wanted', T) <= SumFunctionOnSet(f, T)
    BY <1>3, <1>6, SumMonotone
  <1>9. SumFunctionOnSet(Totals', doomed) = SumFunctionOnSet(Totals, doomed)
    BY <1>2, <1>7, BudgetTyped, SumSame
  <1>10. SumFunctionOnSet(f, T) \in Nat /\ SumFunctionOnSet(Wanted', T) \in Nat
    BY <1>3, <1>6, SumIsUnits
  <1> QED
    BY <1>1, <1>3, <1>4, <1>5, <1>8, <1>9, <1>10 DEF Budgeted

\* An allocation takes from the pool what its request wants.
LEMMA StageAppendFits ==
    ASSUME IInv, IInv', NEW r \in Req, pc = "stage", StageAppend(r), Budgeted
    PROVE  Budgeted'
  <1> DEFINE n == staged[r].len + 1
             new == Alloc(n)
             taken == {new[i] : i \in 1 .. n}
             S == Staged \ At("extend")
  <1>1. /\ r \in S /\ n <= Cardinality(free) /\ free' = free \ taken
        /\ st' = [st EXCEPT ![r].place = "extend", ![r].phase = "extending"]
        /\ staged' = staged /\ doomed = {} /\ doomed' = {}
    BY DEF StageAppend, Quiet, aborts
  <1>2. /\ S \in SUBSET Req /\ IsFiniteSet(S) /\ Cardinality(free) \in Nat /\ IsFiniteSet(free)
        /\ SumFunctionOnSet(Wanted, S) \in Nat /\ \A x \in S : Wanted[x] \in Nat
        /\ SumFunctionOnSet(Wanted, S \ {r}) \in Nat
        /\ SumFunctionOnSet(Totals, {}) = 0 /\ SumFunctionOnSet(Totals', {}) = 0
    BY BudgetTyped, SumEmpty DEF Staged
  <1>3. Cardinality(taken) = n /\ taken \subseteq free /\ n \in Nat
    <2>1. n \in Nat /\ free \subseteq Slot
      BY Typed DEF IInv, TypeOK
    <2>2. new \in [1 .. n -> free] /\ \A i, j \in 1 .. n : new[i] = new[j] => i = j
      BY <1>1, <2>1, AllocFree
    <2> HIDE DEF new, n
    <2>3. new \in Bijection(1 .. n, taken)
      BY <2>2 DEF Bijection, Injection, IsInjective, Surjection
    <2>4. IsFiniteSet(1 .. n) /\ Cardinality(1 .. n) = n
      BY <2>1, FS_Interval
    <2>5. Cardinality(taken) = Cardinality(1 .. n)
      BY <2>3, <2>4, FS_Bijection DEF ExistsBijection
    <2> QED
      BY <2>1, <2>2, <2>4, <2>5
  <1>4. Cardinality(free \ taken) = Cardinality(free) - n
    <2>1. free \cap taken = taken
      BY <1>3
    <2>2. Cardinality(free \ taken) = Cardinality(free) - Cardinality(free \cap taken)
      BY <1>2, FS_Difference
    <2> QED
      BY <1>3, <2>1, <2>2
  <1>5. SumFunctionOnSet(Wanted, S) = n + SumFunctionOnSet(Wanted, S \ {r})
    <2>1. Wanted[r] = n
      BY DEF Wanted
    <2> QED
      BY <1>1, <1>2, <2>1, SumRemove
  <1>6. (Staged \ At("extend"))' = S \ {r} /\ Wanted' = Wanted
    <2>1. At("extend")' = At("extend") \cup {r}
      <3>1. st \in [Req -> Status]
        BY DEF IInv, TypeOK, Status
      <3>2. st'[r].place = "extend" /\ \A q \in Req : q # r => st'[q] = st[q]
        <4>1. st[r] \in Status
          BY <3>1
        <4> QED
          BY <1>1, <3>1, <4>1 DEF Status
      <3> QED
        BY <3>2 DEF At
    <2> QED
      BY <1>1, <2>1 DEF Staged, Wanted
  <1>7. SumFunctionOnSet(Wanted, S) <= Cardinality(free)
    BY <1>1, <1>2 DEF Budgeted
  <1> HIDE DEF S, n, taken
  <1>8. SumFunctionOnSet(Wanted, S \ {r}) <= Cardinality(free \ taken)
    BY <1>2, <1>3, <1>4, <1>5, <1>7
  <1>9. SumFunctionOnSet(Wanted', (Staged \ At("extend"))') <= Cardinality(free')
    BY <1>1, <1>6, <1>8
  <1>10. Cardinality(free') \in Nat /\ SumFunctionOnSet(Totals', doomed') = 0
    BY <1>1, <1>2, <1>3, <1>4
  <1> QED
    BY <1>9, <1>10 DEF Budgeted

\* A victim gives back at least its committed slots.
LEMMA AbortFits ==
    ASSUME IInv, IInv', NEW r \in Req, pc = "stage", Abort(r), Budgeted
    PROVE  Budgeted'
  <1> DEFINE S == Staged \ At("extend")
  <1>1. /\ r \in doomed /\ free' = free \cup Held(r) /\ kv' = [kv EXCEPT ![r] = NoLengths]
        /\ st' = [st EXCEPT ![r] = Gone] /\ staged' = staged /\ doomed' = doomed \ {r}
        /\ pc' = pc
    BY DEF Abort, Release
  <1>2. /\ S \in SUBSET Req /\ IsFiniteSet(S) /\ Cardinality(free) \in Nat /\ IsFiniteSet(free)
        /\ doomed \in SUBSET Req /\ IsFiniteSet(doomed) /\ IsFiniteSet(doomed \ {r})
        /\ \A x \in doomed : Totals[x] \in Nat
        /\ SumFunctionOnSet(Totals, doomed \ {r}) \in Nat
        /\ SumFunctionOnSet(Totals, doomed) \in Nat /\ Totals[r] \in Nat
        /\ SumFunctionOnSet(Wanted, S) \in Nat
    <2>1. S \in SUBSET Req /\ doomed \in SUBSET Req
      BY DEF Staged, IInv, TypeOK
    <2> QED
      BY <2>1, BudgetTyped
  <1>3. r \notin Staged /\ st[r].place # "extend"
    BY <1>1 DEF IInv, PlaceOf
  <1>4. Held(r) = Owned(r) /\ IsFiniteSet(Held(r)) /\ Cardinality(Held(r)) = kv[r].alloc
    BY <1>3, HeldOwned, OwnedCardinality DEF Used
  <1>5. kv[r].alloc \in Nat /\ Totals[r] <= kv[r].alloc
    <2>1. kv[r].alloc \in Nat /\ KvTotal(r) \in Nat /\ LengthsOf(r)
      BY Typed DEF IInv
    <2>2. CASE st[r].place \in Resident
      BY <2>1, <2>2, InFlightType DEF LengthsOf, Totals
    <2>3. CASE st[r].place \notin Resident
      <3>1. kv[r].enc = 0 /\ kv[r].dec = 0
        BY <1>3, <2>1, <2>3 DEF LengthsOf, NoLengths, Resident, IInv, TypeOK, Place
      <3> QED
        BY <2>1, <3>1 DEF KvTotal, Totals
    <2> QED
      BY <2>2, <2>3
  <1>6. Cardinality(free \cup Held(r)) = Cardinality(free) + kv[r].alloc
    <2>1. free \cap Held(r) = {}
      <3>1. free \subseteq Slot /\ \A s \in Slot : s \in free <=> \A q \in Req : s \notin Owned(q)
        BY DEF IInv, TypeOK, Rows
      <3> QED
        BY <1>4, <3>1
    <2>2. Cardinality(free \cup Held(r)) =
            Cardinality(free) + Cardinality(Held(r)) - Cardinality(free \cap Held(r))
      BY <1>2, <1>4, FS_Union
    <2>3. Cardinality(free \cap Held(r)) = 0
      BY <2>1, FS_EmptySet
    <2> QED
      BY <1>2, <1>4, <1>5, <2>2, <2>3
  <1>7. SumFunctionOnSet(Totals, doomed) = Totals[r] + SumFunctionOnSet(Totals, doomed \ {r})
    BY <1>1, <1>2, SumRemove
  <1>8. SumFunctionOnSet(Totals', doomed \ {r}) = SumFunctionOnSet(Totals, doomed \ {r})
    <2>1. \A x \in doomed \ {r} : Totals[x] \in Nat /\ Totals[x] = Totals'[x]
      <3>1. \A x \in doomed \ {r} : kv'[x] = kv[x]
        BY <1>1, <1>2 DEF IInv, TypeOK
      <3> QED
        BY <1>2, <3>1 DEF Totals, KvTotal
    <2> QED
      BY <1>2, <2>1, SumSame
  <1>9. (Staged \ At("extend"))' = S /\ Wanted' = Wanted
    <2>1. st'[r].place # "extend" /\ \A q \in Req : q # r => st'[q] = st[q]
      BY <1>1, GoneFields DEF IInv, TypeOK
    <2>2. At("extend")' = At("extend")
      BY <1>3, <2>1 DEF At
    <2> QED
      BY <1>1, <2>2 DEF Staged, Wanted
  <1>10. SumFunctionOnSet(Wanted, S) <= Cardinality(free) + SumFunctionOnSet(Totals, doomed)
    BY DEF Budgeted
  <1> HIDE DEF S
  <1>11. SumFunctionOnSet(Wanted, S)
           <= Cardinality(free \cup Held(r)) + SumFunctionOnSet(Totals, doomed \ {r})
    BY <1>2, <1>5, <1>6, <1>7, <1>10
  <1>12. SumFunctionOnSet(Wanted', (Staged \ At("extend"))')
           <= Cardinality(free') + SumFunctionOnSet(Totals', doomed')
    BY <1>1, <1>8, <1>9, <1>11
  <1> QED
    BY <1>12 DEF Budgeted

\* Nobody wants slots when nothing is staged.
LEMMA NothingStaged ==
    ASSUME Next, pc' = "stage", Staged = {}
    PROVE  Staged' = {}
  <1>1. ~Message
    BY DEF Message, Submit, Update, RejectUpdate, AbortMessage, AtRecv
  <1>2. ~Planning
    BY DEF Planning, BeginPlan, ExpireParked, EventsBarrier, EvaluateFrameWindow,
           WindowRound, WindowRoundFails, WindowDone
  <1>3. ~Decoding
    BY DEF Decoding, Prefill, NoPrefill, RunPrefill, RunPrefillFails,
           GuardDecodeCapacity, RateLimited, NotRateLimited, Preempt, PreemptDone,
           PrepareDecode, LaunchDecode, RunDecode, DecodeFails, Idle
  <1>4. ~Extending
    BY SMTT(30) DEF Extending, Materialize, MaterializeFails, MaterializeDone, BudgetDone,
         BudgetVictim, StageAppend, StageDone, StageFails, RunExtend, RunExtendFails
  <1>5. ASSUME Subroutine PROVE staged' = staged
    BY <1>5 DEF Subroutine, Resolve, ResolveFails, AbortFlush, Abort, ControlAbort
  <1> QED
    BY <1>1, <1>2, <1>3, <1>4, <1>5 DEF Next, Scheduler, Staged

\* Every step keeps the budget.
LEMMA BudgetKept ==
    IInv /\ IInv' /\ Budgeted /\ [Next]_vars => Budgeted'
  <1> SUFFICES ASSUME IInv, IInv', Budgeted, [Next]_vars PROVE Budgeted'
    OBVIOUS
  <1>1. CASE UNCHANGED vars
    BY <1>1 DEF vars, state, memory, aborts, Budgeted, Wanted, Totals, KvTotal, Staged, At
  <1>2. CASE pc' # "stage"
    BY <1>2 DEF Budgeted
  <1>3. CASE Next /\ pc' = "stage" /\ Staged # {}
    BY <1>3, StageSteps, BudgetDoneFits, StageAppendFits, AbortFits
  <1>4. CASE Next /\ pc' = "stage" /\ Staged = {}
    <2>1. Staged' = {}
      BY <1>4, NothingStaged
    <2>2. (Staged \ At("extend"))' = {}
      BY <2>1
    <2>3. SumFunctionOnSet(Wanted', (Staged \ At("extend"))') = 0
      BY <2>2, SumEmpty
    <2>4. Cardinality(free') \in Nat /\ SumFunctionOnSet(Totals', doomed') \in Nat
      <3>1. free' \subseteq Slot /\ IsFiniteSet(doomed')
        BY SizesAssumption, FS_Subset DEF IInv, TypeOK
      <3>2. Cardinality(free') \in Nat
        <4>1. IsFiniteSet(Slot)
          BY SizesAssumption, FS_Interval DEF Slot
        <4> QED
          BY <3>1, <4>1, FS_Subset, FS_CardinalityType
      <3>3. \A x \in doomed' : Totals'[x] \in Nat
        <4> TAKE x \in doomed'
        <4>1. x \in Req /\ kv'[x] \in Lengths
          BY DEF IInv, TypeOK, Lengths
        <4> QED
          BY <4>1 DEF Totals, KvTotal, Lengths
      <3> QED
        BY <3>1, <3>2, <3>3, SumIsUnits
    <2> QED
      BY <2>3, <2>4 DEF Budgeted
  <1> QED
    BY <1>1, <1>2, <1>3, <1>4

\* A context that is not exhausted leaves a lone session room for its next token,
\* as the pool holds at least one context.
LEMMA LoneSessionFits ==
    ASSUME IInv, Quiet, pc = "preempt", At("running") # {}, ~CheckDecodeMem
    PROVE  Cardinality(At("running") \cup At("parked")) > 1
  <1> DEFINE A == At("running")
             B == At("running") \cup At("parked")
  <1>1. A \in SUBSET B /\ B \in SUBSET Req /\ IsFiniteSet(B) /\ IsFiniteSet(A)
    BY SizesAssumption, FS_Subset DEF At
  <1>2. Cardinality(A) \in Nat /\ Cardinality(B) \in Nat /\ Cardinality(A) <= Cardinality(B)
        /\ Cardinality(A) # 0
    BY <1>1, FS_Subset, FS_CardinalityType, FS_EmptySet
  <1>3. SUFFICES ASSUME Cardinality(B) <= 1 PROVE Cardinality(free) >= 1
    <2>1. Cardinality(free) \in Nat
      BY BudgetTyped
    <2> QED
      BY <1>2, <2>1 DEF CheckDecodeMem
  <1>4. PICK r \in A : TRUE
    OBVIOUS
  <1>5. B = {r}
    BY <1>1, <1>2, <1>3, <1>4, FS_Singleton
  <1>6. ASSUME NEW q \in Req, q # r PROVE Owned(q) = {}
    <2>1. st[q].place \in Place \ {"running", "parked"}
      BY <1>5, <1>6 DEF At, IInv, TypeOK
    <2>2. st[q].place # "extend"
      BY DEF IInv, PlaceOf
    <2>3. st[q].place # "prefill"
      BY DEF IInv, LengthsOf, Quiet
    <2>4. kv[q] = NoLengths
      BY <2>1, <2>2, <2>3 DEF Place, IInv, LengthsOf
    <2>5. Used(q) = 0
      BY <2>2, <2>4 DEF Used, NoLengths
    <2> QED
      BY <2>5 DEF Owned, Prefix
  <1>7. Cardinality(Owned(r)) < NumSlots /\ Owned(r) \subseteq Slot /\ IsFiniteSet(Owned(r))
    <2>1. ~CapacityError(r) /\ st[r].place = "running" /\ r \in Req
      BY <1>4 DEF IInv, Capacity, Quiet, At
    <2>2. /\ kv[r].alloc \in Nat /\ kv[r].enc \in Nat /\ kv[r].appended \in Nat
          /\ KvTotal(r) \in Nat /\ kv[r].appended >= kv[r].enc
      BY <2>1, Typed DEF IInv, LengthsOf
    <2>3. kv[r].alloc + 2 <= ContextLimit
      BY <2>1, <2>2, Sizes DEF CapacityError
    <2>4. Cardinality(Owned(r)) = kv[r].alloc /\ Owned(r) \subseteq Slot /\ IsFiniteSet(Owned(r))
      BY <2>1, OwnedCardinality DEF Used
    <2> QED
      BY <2>2, <2>3, <2>4, Sizes, PoolAssumption
  <1>8. IsFiniteSet(Slot) /\ Cardinality(Slot) = NumSlots
    BY Sizes, FS_Interval DEF Slot
  <1>9. \E s \in Slot : s \notin Owned(r)
    <2>1. Slot # Owned(r)
      BY <1>7, <1>8, Sizes
    <2> QED
      BY <1>7, <2>1
  <1>10. free # {}
    <2>1. PICK s \in Slot : s \notin Owned(r)
      BY <1>9
    <2>2. \A q \in Req : s \notin Owned(q)
      BY <1>6, <2>1
    <2> QED
      BY <2>2 DEF IInv, Rows
  <1>11. Cardinality(free) \in Nat /\ IsFiniteSet(free)
    BY BudgetTyped
  <1> QED
    BY <1>10, <1>11, FS_EmptySet

\* The invariant and the budget imply that allocations fit.
LEMMA Fits ==
    ASSUME IInv, Budgeted
    PROVE  AllocationsFit
  <1>1. ExtendFits
    <2> SUFFICES ASSUME pc = "stage", Quiet
                 PROVE  SumFunctionOnSet(Wanted, Staged \ At("extend")) <= Cardinality(free)
      BY DEF ExtendFits, Wanted
    <2>1. SumFunctionOnSet(Totals, doomed) = 0
      BY SumEmpty DEF Quiet
    <2>2. Cardinality(free) \in Nat
      BY BudgetTyped
    <2> QED
      BY <2>1, <2>2 DEF Budgeted
  <1>2. DecodeFits
    <2>1. ASSUME Quiet, pc = "decode", NEW r \in At("running") PROVE ~CapacityError(r)
      BY <2>1 DEF IInv, Capacity, Quiet
    <2> QED
      BY <2>1, LoneSessionFits DEF DecodeFits
  <1>3. WithinContext
    <2>1. ASSUME NEW r \in Live PROVE kv[r].fill <= ContextLimit /\ kv[r].alloc <= Width
      <3>1. r \in Req /\ st[r].place \in Place \ {"new", "gone"}
        BY DEF Live, IInv, TypeOK
      <3>2. /\ LengthsOf(r) /\ ContextOf(r) /\ PlaceOf(r) /\ kv[r].fill \in Nat
            /\ InFlight(r) \in Nat
        BY <3>1, Typed, InFlightType DEF IInv
      <3>3. CASE st[r].place \in {"waiting", "prefill"}
        BY <3>2, <3>3, Sizes, PromptAssumption DEF LengthsOf, ContextOf, NoLengths
      <3>4. CASE st[r].place \in Resident
        BY <3>2, <3>4, Sizes DEF ContextOf
      <3>5. CASE st[r].place = "extend"
        BY <3>2, <3>5, Sizes DEF ContextOf, PlaceOf
      <3> QED
        BY <3>1, <3>3, <3>4, <3>5 DEF Place, Resident
    <2> QED
      BY <2>1 DEF WithinContext
  <1> QED
    BY <1>1, <1>2, <1>3 DEF AllocationsFit

\* Whatever the scheduler lets through to an allocation fits: the extend batch
\* that _enforce_extend_memory_budget leaves fits the pool once its victims are
\* aborted, a decode step never meets a request at its limit nor an empty pool
\* with nobody to preempt, and no request passes its context or its row.
THEOREM AllocationsAlwaysFit == Spec => []AllocationsFit
  <1>1. Init => Budgeted
    BY DEF Init, Budgeted
  <1>2. IInv /\ Budgeted => AllocationsFit
    BY Fits
  <1> QED
    BY <1>1, <1>2, BudgetKept, Invariance, PTL DEF Spec
=============================================================================
