-------------------------- MODULE SharedAdmission --------------------------
(***************************************************************************)
(* The router's shared admission: one soft bound on the requests in flight *)
(* across the data-plane processes.                                        *)
(*                                                                         *)
(* Every data plane (DP) owns one slot of a memory-mapped file and is its  *)
(* only writer; one more slot, the retired one, belongs to the supervisor. *)
(* A slot is a seqlock: a write makes seq odd, stores the fields, makes    *)
(* seq even; a reader accepts fields between two equal even values.  A DP  *)
(* admits a request when the sum of all slots, read one after another, is  *)
(* below the bound.  A DP may die at any store.  The supervisor then folds *)
(* its counters into the retired slot, clears the slot and starts the next *)
(* generation, while the control plane (CP) sums all slots for /health.    *)
(*                                                                         *)
(* Stores are visible in program order (the code is for x86-64), so the    *)
(* last field and the even seq are one step: until seq is even no reader   *)
(* accepts either.  A DP reads its own slot in one step, as nobody else    *)
(* writes it while it lives (NotFenced).  The generation stands for the    *)
(* process id too, and peak_sum and the heartbeat, which decide nothing,   *)
(* are left out.                                                           *)
(***************************************************************************)
EXTENDS Integers, FiniteSets, FiniteSetsExt, Functions

CONSTANTS
    NumDP,              \* data-plane processes
    MaxInflight,        \* max_inflight
    MaxRapidRestarts,   \* max_rapid_restarts
    MaxGeneration,      \* generations of a data plane (bound)
    MaxSeq,             \* sum of seq up to which DPs start operations (bound)
    CP                  \* the reader of the aggregate

ASSUME SizesAssumption ==
    /\ {NumDP, MaxInflight, MaxRapidRestarts, MaxGeneration} \subseteq Nat \ {0}
    /\ MaxSeq \in Nat
    /\ CP \notin Int

DP == 0 .. NumDP - 1
Retired == NumDP
Slots == DP \cup {Retired}
Reader == DP \cup {CP}

VARIABLES
    slot,       \* the file: seq and fields of every slot
    up,         \* data planes that run
    generation, \* DataPlaneSlot.generation
    rapid,      \* DataPlaneSlot.rapid_deaths
    pc,         \* place of each data plane
    mine,       \* _inflight and _rejected_total of each data plane
    unstable,   \* _sibling_unstable
    total,      \* the sum try_acquire has read so far
    read,       \* SlotCodec.read of each reader
    sup,        \* the supervisor: place, slot, its fold
    health,     \* _aggregate_to_dict of the CP
    shed,       \* rejections ever counted (history)
    skipped     \* rejections of slots that were unreadable at reclaim (history)

planes == <<pc, mine, unstable, total>>
children == <<up, generation, rapid>>
history == <<shed, skipped>>
vars == <<slot, planes, children, read, sup, health, history>>

Zero == [inflight |-> 0, rejected |-> 0]
Fields(count, g) == [inflight |-> count.inflight, rejected |-> count.rejected,
                     generation |-> g]
Cleared == Fields(Zero, 0)
\* What a reader may see while the fields are stored.
Torn == Fields(Zero, -1)

NotReading == [at |-> 0, step |-> "none", before |-> 0, view |-> Cleared]
Reading(i) == [at |-> i, step |-> "seq", before |-> 0, view |-> Cleared]
Idle == [place |-> "idle", version |-> 0, rejected |-> 0, last |-> 0]
Polling == [place |-> "poll", i |-> 0, sum |-> 0, folds |-> FALSE]

Count == [inflight : Nat, rejected : Nat]
Body == [inflight : Nat, rejected : Nat, generation : Nat \cup {-1}]

TypeOK ==
    /\ slot \in [Slots -> [seq : Nat, body : Body]]
    /\ up \subseteq DP
    /\ generation \in [DP -> 1 .. MaxGeneration]
    /\ rapid \in [DP -> 0 .. MaxRapidRestarts]
    /\ pc \in [DP -> {"idle", "sum", "mark", "tear", "fields", "off"}]
    /\ mine \in [DP -> Count]
    /\ unstable \in [DP -> BOOLEAN]
    /\ total \in [DP -> Nat]
    /\ read \in [Reader -> [at : Slots, step : {"none", "seq", "load", "again"},
                            before : Nat, view : Body]]
    /\ sup \in [place : {"poll", "fold_mark", "fold_tear", "fold_fields",
                         "mark", "tear", "fields", "fold_end", "spawn", "stopped"},
                i : DP, sum : Nat, folds : BOOLEAN]
    /\ health \in [place : {"idle", "version", "slots", "retired"},
                   version : Nat, rejected : Nat, last : Nat]
    /\ {shed, skipped} \subseteq Nat

\* Every data plane was started and has claimed its slot.
Init ==
    /\ slot = [i \in Slots |-> IF i = Retired THEN [seq |-> 0, body |-> Cleared]
                               ELSE [seq |-> 2, body |-> Fields(Zero, 1)]]
    /\ up = DP
    /\ generation = [p \in DP |-> 1]
    /\ rapid = [p \in DP |-> 0]
    /\ pc = [p \in DP |-> "idle"]
    /\ mine = [p \in DP |-> Zero]
    /\ unstable = [p \in DP |-> FALSE]
    /\ total = [p \in DP |-> 0]
    /\ read = [x \in Reader |-> NotReading]
    /\ sup = Polling
    /\ health = Idle
    /\ shed = 0 /\ skipped = 0

-----------------------------------------------------------------------------
(* SlotCodec: the stores of a writer and the loads of a reader.            *)

Odd(i) == slot[i].seq % 2 = 1

\* Mutant of Mark: seq + 1, which turns a slot left odd by a dead writer even.
MarkPlusOne(i) == slot' = [slot EXCEPT ![i].seq = @ + 1]

\* writing_marker = seq | 1.
Mark(i) == slot' = [slot EXCEPT ![i].seq = IF Odd(i) THEN @ ELSE @ + 1]

\* The stores of the fields, half done.
Tear(i) == slot' = [slot EXCEPT ![i].body = Torn]

\* write_fields done, and end_write: marker + 1.
WriteFields(i, body) == slot' = [slot EXCEPT ![i].body = body]
EndWrite(i) == slot' = [slot EXCEPT ![i].seq = @ + 1]

\* Both, at the end of write.
Store(i, body) == slot' = [slot EXCEPT ![i] = [seq |-> @.seq + 1, body |-> body]]

\* A reader has loaded the fields between two equal even values of seq.
Stable(x) == read[x].step = "again" /\ slot[read[x].at].seq = read[x].before

\* An attempt that fails: the writer is at work, or was.
Fails(x) ==
    \/ read[x].step = "seq" /\ Odd(read[x].at)
    \/ read[x].step = "again" /\ slot[read[x].at].seq # read[x].before

\* seq_before (a data plane reads its own slot in one step, in Sums).
ReadSeq(x) ==
    /\ read[x].step = "seq" /\ read[x].at # x /\ ~Odd(read[x].at)
    /\ read' = [read EXCEPT ![x].step = "load", ![x].before = slot[read[x].at].seq]
    /\ UNCHANGED <<slot, planes, children, sup, health, history>>

\* The fields.
ReadFields(x) ==
    /\ read[x].step = "load"
    /\ read' = [read EXCEPT ![x].step = "again", ![x].view = slot[read[x].at].body]
    /\ UNCHANGED <<slot, planes, children, sup, health, history>>

\* seq changed meanwhile and the spin budget is not used up.
ReadRetry(x) ==
    /\ read[x].step = "again" /\ Fails(x)
    /\ read' = [read EXCEPT ![x] = Reading(@.at)]
    /\ UNCHANGED <<slot, planes, children, sup, health, history>>

-----------------------------------------------------------------------------
(* SharedAdmission: one data plane.                                        *)

\* _still_owner.
Owner(p) == ~Odd(p) /\ slot[p].body.generation = generation[p]

\* A live DP between two operations; the bound on operations counts a
\* restart (reclaim and claim) as one.
Ready(p) ==
    /\ p \in up /\ pc[p] = "idle" /\ Owner(p)
    /\ MapThenSumSet(LAMBDA i : slot[i].seq - 2 * (generation[i] - 1), DP) < MaxSeq

Rejected(p) ==
    /\ mine' = [mine EXCEPT ![p].rejected = @ + 1]
    /\ shed' = shed + 1

\* try_acquire up to the sum.
TryAcquire(p) ==
    /\ Ready(p)
    /\ pc' = [pc EXCEPT ![p] = "sum"]
    /\ total' = [total EXCEPT ![p] = 0]
    /\ read' = [read EXCEPT ![p] = Reading(0)]
    /\ UNCHANGED <<slot, children, mine, unstable, sup, health, history>>

\* A sibling was unreadable within the reprobe interval.
ShedFromCache(p) ==
    /\ Ready(p) /\ unstable[p]
    /\ Rejected(p)
    /\ pc' = [pc EXCEPT ![p] = "mark"]
    /\ UNCHANGED <<slot, children, unstable, total, read, sup, health, skipped>>

\* Mutant of Full: the bound itself is admitted.
FullBeyond(sum) == sum > MaxInflight

\* total >= self._max_inflight.
Full(sum) == sum >= MaxInflight

\* One slot of _total_inflight is read, and the sum with it.
Sums(p) == pc[p] = "sum" /\ (read[p].at = p \/ Stable(p))
SumWith(p) ==
    total[p] + IF read[p].at = p THEN slot[p].body.inflight ELSE read[p].view.inflight

\* _total_inflight goes on to the next slot.
SumNext(p) ==
    /\ Sums(p) /\ read[p].at < NumDP - 1
    /\ total' = [total EXCEPT ![p] = SumWith(p)]
    /\ read' = [read EXCEPT ![p] = Reading(@.at + 1)]
    /\ UNCHANGED <<slot, children, pc, mine, unstable, sup, health, history>>

\* The last slot is read: the decision, up to the write of the own slot.
Decide(p) ==
    /\ Sums(p) /\ read[p].at = NumDP - 1
    /\ unstable' = [unstable EXCEPT ![p] = FALSE]
    /\ IF Full(SumWith(p)) THEN Rejected(p)
       ELSE mine' = [mine EXCEPT ![p].inflight = @ + 1] /\ UNCHANGED shed
    /\ pc' = [pc EXCEPT ![p] = "mark"]
    /\ total' = [total EXCEPT ![p] = 0]
    /\ read' = [read EXCEPT ![p] = NotReading]
    /\ UNCHANGED <<slot, children, sup, health, skipped>>

\* A slot does not stabilize within the spin budget.
SumFails(p) ==
    /\ pc[p] = "sum" /\ Fails(p)
    /\ unstable' = [unstable EXCEPT ![p] = TRUE]
    /\ Rejected(p)
    /\ pc' = [pc EXCEPT ![p] = "mark"]
    /\ total' = [total EXCEPT ![p] = 0]
    /\ read' = [read EXCEPT ![p] = NotReading]
    /\ UNCHANGED <<slot, children, sup, health, skipped>>

\* Mutant of Release: a stray release is not ignored.
ReleaseStray(p) ==
    /\ Ready(p)
    /\ mine' = [mine EXCEPT ![p].inflight = @ - 1]
    /\ pc' = [pc EXCEPT ![p] = "mark"]
    /\ UNCHANGED <<slot, children, unstable, total, read, sup, health, history>>

\* release(); with no request in flight it is ignored.
Release(p) ==
    /\ Ready(p) /\ mine[p].inflight > 0
    /\ mine' = [mine EXCEPT ![p].inflight = @ - 1]
    /\ pc' = [pc EXCEPT ![p] = "mark"]
    /\ UNCHANGED <<slot, children, unstable, total, read, sup, health, history>>

\* touch().
Touch(p) ==
    /\ Ready(p)
    /\ pc' = [pc EXCEPT ![p] = "mark"]
    /\ UNCHANGED <<slot, children, mine, unstable, total, read, sup, health, history>>

\* _write_own, store by store.
WriteOwn(p) ==
    /\ \/ pc[p] = "mark" /\ Mark(p) /\ pc' = [pc EXCEPT ![p] = "tear"]
       \/ pc[p] = "tear" /\ Tear(p) /\ pc' = [pc EXCEPT ![p] = "fields"]
       \/ /\ pc[p] = "fields"
          /\ Store(p, Fields(mine[p], generation[p]))
          /\ pc' = [pc EXCEPT ![p] = "idle"]
    /\ UNCHANGED <<children, mine, unstable, total, read, sup, health, history>>

\* The process dies, with the requests it relays.
Crash(p) ==
    /\ p \in up /\ generation[p] < MaxGeneration
    /\ up' = up \ {p}
    /\ pc' = [pc EXCEPT ![p] = "off"]
    /\ unstable' = [unstable EXCEPT ![p] = FALSE]
    /\ total' = [total EXCEPT ![p] = 0]
    /\ read' = [read EXCEPT ![p] = NotReading]
    /\ UNCHANGED <<slot, generation, rapid, mine, sup, health, history>>

-----------------------------------------------------------------------------
(* Supervisor: poll_once with _fold_and_reclaim_slot.                      *)

Elsewhere == UNCHANGED <<planes, children, read, health, shed>>

Goes(place) == sup' = [sup EXCEPT !.place = place]

\* process.poll() is not None; wait() has returned.
Dead(p) == p \notin up

\* Mutant of Folded: the counters of earlier deaths are overwritten.
FoldedAnew(p) == slot[p].body.rejected

\* accumulated.rejected_total + view.rejected_total.
Folded(p) == slot[Retired].body.rejected + slot[p].body.rejected

\* The dead slot and the retired one are read; a dead slot that
\* is not readable is not folded.
Reap(p) ==
    /\ sup.place = "poll" /\ Dead(p)
    /\ sup' = [place |-> IF Odd(p) THEN "mark" ELSE "fold_mark", i |-> p,
               sum |-> IF Odd(p) THEN 0 ELSE Folded(p), folds |-> ~Odd(p)]
    /\ skipped' = IF Odd(p) THEN skipped + mine[p].rejected ELSE skipped
    /\ Elsewhere /\ UNCHANGED slot

\* begin_write and write_fields on the retired slot, which stays odd.
FoldRetired ==
    /\ \/ sup.place = "fold_mark" /\ Mark(Retired) /\ Goes("fold_tear")
       \/ sup.place = "fold_tear" /\ Tear(Retired) /\ Goes("fold_fields")
       \/ /\ sup.place = "fold_fields"
          /\ WriteFields(Retired, [Cleared EXCEPT !.rejected = sup.sum])
          /\ Goes("mark")
    /\ Elsewhere /\ UNCHANGED skipped

\* SlotCodec.reclaim of the dead slot.
Reclaim ==
    /\ \/ sup.place = "mark" /\ Mark(sup.i) /\ Goes("tear")
       \/ sup.place = "tear" /\ Tear(sup.i) /\ Goes("fields")
       \/ /\ sup.place = "fields" /\ Store(sup.i, Cleared)
          /\ Goes(IF sup.folds THEN "fold_end" ELSE "spawn")
    /\ Elsewhere /\ UNCHANGED skipped

\* end_write on the retired slot.
FoldEnd ==
    /\ sup.place = "fold_end"
    /\ EndWrite(Retired) /\ Goes("spawn")
    /\ Elsewhere /\ UNCHANGED skipped

\* A process that lived longer than rapid_window_secs starts the count again.
Deaths(p, lived) == IF lived THEN 0 ELSE rapid[p] + 1

\* The next generation.
Respawn(lived) ==
    LET p == sup.i
    IN /\ sup.place = "spawn" /\ Deaths(p, lived) < MaxRapidRestarts
       /\ rapid' = [rapid EXCEPT ![p] = Deaths(p, lived)]
       /\ sup' = Polling
       /\ up' = up \cup {p}
       /\ generation' = [generation EXCEPT ![p] = @ + 1]
       /\ pc' = [pc EXCEPT ![p] = "mark"]
       /\ mine' = [mine EXCEPT ![p] = Zero]
       /\ UNCHANGED <<slot, unstable, total, read, health, history>>

\* SupervisorFailure: shutdown() ends every process.
FailClosed(lived) ==
    /\ sup.place = "spawn" /\ Deaths(sup.i, lived) >= MaxRapidRestarts
    /\ rapid' = [rapid EXCEPT ![sup.i] = Deaths(sup.i, lived)]
    /\ sup' = [Polling EXCEPT !.place = "stopped"]
    /\ up' = {}
    /\ pc' = [p \in DP |-> "off"]
    /\ unstable' = [p \in DP |-> FALSE]
    /\ total' = [p \in DP |-> 0]
    /\ read' = [x \in Reader |-> NotReading]
    /\ health' = [Idle EXCEPT !.last = health.last]
    /\ UNCHANGED <<slot, generation, mine, history>>

Supervisor ==
    \/ \E p \in DP : Reap(p)
    \/ FoldRetired
    \/ Reclaim
    \/ FoldEnd
    \/ \E lived \in BOOLEAN : Respawn(lived) \/ FailClosed(lived)

-----------------------------------------------------------------------------
(* AdmissionAggregateView.to_dict: the CP sums rejected_total.             *)

\* The CP goes on to its next read.
CPReads(next) ==
    /\ read' = [read EXCEPT ![CP] = next]
    /\ UNCHANGED <<slot, planes, children, sup, history>>

HealthStart ==
    /\ health.place = "idle" /\ sup.place # "stopped"
    /\ health' = [health EXCEPT !.place = "version"]
    /\ CPReads(Reading(Retired))

\* version_before.
HealthVersion ==
    /\ health.place = "version" /\ Stable(CP)
    /\ health' = [health EXCEPT !.place = "slots", !.version = read[CP].before]
    /\ CPReads(Reading(0))

\* The slots, and after the last one the retired slot again.
HealthSlot ==
    LET i == read[CP].at
        last == i = NumDP - 1
    IN /\ health.place = "slots" /\ Stable(CP)
       /\ health' = [health EXCEPT !.place = IF last THEN "retired" ELSE "slots",
                                   !.rejected = @ + read[CP].view.rejected]
       /\ CPReads(Reading(IF last THEN Retired ELSE i + 1))

\* Mutant of SameVersion: a fold in between goes unnoticed.
SameVersionAssumed == health.place = "retired" /\ Stable(CP)

\* retired.seq == version_before.
SameVersion ==
    /\ health.place = "retired" /\ Stable(CP)
    /\ read[CP].before = health.version

\* What this round would report.
Aggregate == health.rejected + read[CP].view.rejected

HealthReport ==
    /\ SameVersion
    /\ health' = [Idle EXCEPT !.last = Aggregate]
    /\ CPReads(NotReading)

\* Another round, of four.
HealthAgain ==
    /\ health.place = "retired" /\ Stable(CP) /\ ~SameVersion
    /\ health' = [Idle EXCEPT !.place = "version", !.last = health.last]
    /\ CPReads(Reading(Retired))

\* SeqlockUnstableError, from a slot or after four rounds.
HealthFails ==
    /\ \/ health.place # "idle" /\ Fails(CP)
       \/ health.place = "retired" /\ Stable(CP) /\ ~SameVersion
    /\ health' = [Idle EXCEPT !.last = health.last]
    /\ CPReads(NotReading)

Health ==
    \/ HealthStart \/ HealthVersion \/ HealthSlot
    \/ HealthReport \/ HealthAgain \/ HealthFails

-----------------------------------------------------------------------------

\* Nothing runs any more.
Terminated == sup.place = "stopped" /\ UNCHANGED vars

Next ==
    \/ \E p \in DP :
        \/ TryAcquire(p) \/ ShedFromCache(p) \/ SumNext(p) \/ Decide(p)
        \/ SumFails(p) \/ Release(p) \/ Touch(p) \/ WriteOwn(p) \/ Crash(p)
    \/ \E x \in Reader : ReadSeq(x) \/ ReadFields(x) \/ ReadRetry(x)
    \/ Supervisor
    \/ Health
    \/ Terminated

Spec == Init /\ [][Next]_vars

-----------------------------------------------------------------------------
(* Properties.                                                             *)

\* The bound is soft: check-then-increment of N processes, over sums that are
\* not read at one instant, overshoots it by at most N - 1 requests
\* (admission_shm.py, "Documented semantics").
Overshoot ==
    SumFunctionOnSet([p \in DP |-> mine[p].inflight], up) <= MaxInflight + NumDP - 1

\* SlotCodec.read returns no view of a half written slot, whether its writer
\* lives, died in the write, or was the supervisor clearing after such a death.
StableReadWhole == \A x \in Reader : Stable(x) => read[x].view # Torn

\* A live data plane that is not writing finds its own slot readable and its
\* own: _fenced and the unstable-own-slot returns are never taken, as reclaim
\* follows the reap and precedes the next generation.
NotFenced == \A p \in up : pc[p] \in {"idle", "sum"} => Owner(p)

\* The slots of data planes that die at any store stay readable to the living:
\* no torn view is accepted and no live owner is shut out.
SeqlockSound == StableReadWhole /\ NotFenced

\* /health never invents rejections: a fold moves counters between two slots
\* while the CP sums them, and none is counted twice.
NeverInvents == SameVersion => Aggregate <= shed

\* rejected_total of /health moves backwards at most by what was lost in slots
\* left unreadable by their writer's death (skipped at reclaim).
NeverBackwards == [][health'.last + skipped >= health.last]_vars
=============================================================================
