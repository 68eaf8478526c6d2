----------------------- MODULE SharedAdmissionProofs -----------------------
(***************************************************************************)
(* The seqlocks of the admission file, the soft bound that is kept with    *)
(* them and the aggregate /health reports, for any number of data planes,  *)
(* any bound, any number of deaths, and a death at any store.              *)
(***************************************************************************)
EXTENDS SharedAdmission, SumTheorems, TLAPS

-----------------------------------------------------------------------------
(* The inductive invariant.                                                *)

\* The supervisor handles the slot of a dead process only, and stops when one
\* has died too often.
Lifecycle ==
    /\ \A p \in DP : p \in up <=> pc[p] # "off"
    /\ sup.place \notin {"poll", "stopped"} => sup.i \notin up
    /\ sup.place # "stopped" =>
           \A p \in DP : /\ rapid[p] < MaxRapidRestarts
                         /\ p \notin up => generation[p] < MaxGeneration
    /\ health.place = "slots" => read[CP].at \in DP

TypeInv == TypeOK /\ Lifecycle

\* The supervisor has made the retired slot odd and not yet even again.
Folding ==
    \/ sup.place \in {"fold_tear", "fold_fields", "fold_end"}
    \/ sup.folds /\ sup.place \in {"mark", "tear", "fields"}

\* A slot is odd from the first store of a write to the last, and left so by a
\* writer that dies; it is torn only then.
Marked ==
    /\ \A p \in up : pc[p] \in {"tear", "fields"} => Odd(p)
    /\ sup.place \in {"tear", "fields"} => Odd(sup.i)
    /\ Folding => Odd(Retired)
    /\ \A i \in Slots : slot[i].body = Torn => Odd(i)
    /\ slot[Retired].body = Torn => sup.place = "fold_fields"

\* A reader has seen an even number that is not ahead of the slot, and as long
\* as the slot has not moved on, what it has loaded is whole.
Reads ==
    \A x \in Reader : read[x].step \in {"load", "again"} =>
        /\ read[x].before % 2 = 0 /\ read[x].before <= slot[read[x].at].seq
        /\ Stable(x) => read[x].view # Torn

IInv == TypeInv /\ Marked /\ Reads /\ NotFenced

-----------------------------------------------------------------------------
(* Types.                                                                  *)

\* Where the slots and the readers are.
LEMMA Places ==
    /\ DP \subseteq Int /\ DP \subseteq Slots /\ Retired \in Slots /\ Retired \notin DP
    /\ CP \notin DP /\ DP \subseteq Reader /\ CP \in Reader /\ 0 \in DP
    /\ \A i \in DP : i < NumDP - 1 => i + 1 \in DP
    /\ \A i \in Slots : i < NumDP - 1 => i + 1 \in DP
    /\ \A i \in DP : i # NumDP - 1 => i + 1 \in DP
  BY SizesAssumption DEF DP, Slots, Retired, Reader

\* Complete fields are never taken for torn ones.
LEMMA Bodies ==
    /\ Torn \in Body /\ Cleared \in Body /\ Cleared # Torn
    /\ Zero \in Count
    /\ \A c \in Count, g \in Nat : /\ Fields(c, g) \in Body
                                   /\ Fields(c, g).generation = g
                                   /\ Fields(c, g) # Torn
  BY DEF Torn, Cleared, Zero, Fields, Body, Count

ReadState == [at : Slots, step : {"none", "seq", "load", "again"}, before : Nat, view : Body]

HealthState == [place : {"idle", "version", "slots", "retired"},
                version : Nat, rejected : Nat, last : Nat]

\* The start and the end of a read are well typed.
LEMMA ReadTypes ==
    /\ NotReading \in ReadState
    /\ \A i \in Slots : Reading(i) \in ReadState /\ Reading(i).at = i
  BY Bodies, Places DEF NotReading, Reading, ReadState

\* The stores keep the type of the file.
LEMMA StoreTypes ==
    ASSUME TypeOK, NEW i \in Slots, NEW b \in Body,
           Mark(i) \/ Tear(i) \/ WriteFields(i, b) \/ EndWrite(i) \/ Store(i, b)
    PROVE  slot' \in [Slots -> [seq : Nat, body : Body]]
  <1> USE DEF TypeOK
  <1>1. CASE Mark(i) \/ EndWrite(i)
    <2>1. PICK n \in {slot[i].seq, slot[i].seq + 1} : slot' = [slot EXCEPT ![i].seq = n]
      BY <1>1, Zenon DEF Mark, EndWrite
    <2> QED
      BY <2>1
  <1>2. CASE Tear(i)
    <2>1. Torn \in Body
      BY Bodies
    <2> QED
      BY <1>2, <2>1 DEF Tear
  <1>3. CASE WriteFields(i, b)
    BY <1>3 DEF WriteFields
  <1>4. CASE Store(i, b)
    BY <1>4 DEF Store
  <1> QED
    BY <1>1, <1>2, <1>3, <1>4

\* The requests of a data plane.
LEMMA AdmitType ==
    ASSUME TypeInv, NEW p \in DP,
           \/ TryAcquire(p) \/ ShedFromCache(p) \/ SumNext(p) \/ Decide(p)
           \/ SumFails(p) \/ Release(p) \/ Touch(p)
    PROVE  TypeInv'
  <1> USE DEF TypeInv, TypeOK, Lifecycle, children
  <1>1. UNCHANGED <<slot, children, sup, health, skipped>>
    BY DEF TryAcquire, ShedFromCache, SumNext, Decide, SumFails, Release, Touch, history
  <1>2. /\ pc' \in [DP -> {"idle", "sum", "mark", "tear", "fields", "off"}]
        /\ \A q \in DP : pc'[q] = "off" <=> pc[q] = "off"
    BY ZenonT(60)
       DEF TryAcquire, ShedFromCache, SumNext, Decide, SumFails, Release, Touch, Ready, Sums
  <1>3. mine' \in [DP -> Count] /\ shed' \in Nat
    <2>1. /\ shed' \in {shed, shed + 1}
          /\ \/ mine' \in {mine, [mine EXCEPT ![p].rejected = @ + 1],
                           [mine EXCEPT ![p].inflight = @ + 1]}
             \/ /\ mine' = [mine EXCEPT ![p].inflight = @ - 1]
                /\ mine[p].inflight > 0
      BY DEF TryAcquire, ShedFromCache, SumNext, Decide, SumFails, Release, Touch,
             Rejected, history
    <2> QED
      BY <2>1 DEF Count
  <1>4. unstable' \in [DP -> BOOLEAN]
    <2>1. unstable' \in {unstable, [unstable EXCEPT ![p] = TRUE],
                         [unstable EXCEPT ![p] = FALSE]}
      BY DEF TryAcquire, ShedFromCache, SumNext, Decide, SumFails, Release, Touch
    <2> QED
      BY <2>1
  <1>5. total' \in [DP -> Nat]
    BY Places DEF TryAcquire, ShedFromCache, SumNext, Decide, SumFails, Release, Touch,
       SumWith, Body
  <1>6. read' \in [Reader -> ReadState] /\ read'[CP] = read[CP]
    <2>1. PICK r \in ReadState : read' \in {read, [read EXCEPT ![p] = r]}
      BY ReadTypes, Places DEF TryAcquire, ShedFromCache, SumNext, Decide, SumFails,
         Release, Touch, ReadState
    <2> QED
      BY <2>1, Places DEF ReadState
  <1> QED
    BY <1>1, <1>2, <1>3, <1>4, <1>5, <1>6 DEF ReadState

\* The write of a data plane's own slot, and its death.
LEMMA OwnType == ASSUME TypeInv, NEW p \in DP, WriteOwn(p) \/ Crash(p) PROVE TypeInv'
  <1> USE DEF TypeInv, TypeOK, Lifecycle, children
  <1>1. CASE WriteOwn(p)
    <2>1. Fields(mine[p], generation[p]) \in Body /\ p \in Slots
      <3>1. mine[p] \in Count /\ generation[p] \in Nat
        OBVIOUS
      <3> QED
        BY <3>1, Bodies, Places
    <2>2. slot' \in [Slots -> [seq : Nat, body : Body]]
      BY <1>1, <2>1, StoreTypes DEF WriteOwn
    <2>3. /\ pc' \in [DP -> {"idle", "sum", "mark", "tear", "fields", "off"}]
          /\ \A q \in DP : pc'[q] = "off" <=> pc[q] = "off"
      BY <1>1 DEF WriteOwn
    <2>4. UNCHANGED <<children, mine, unstable, total, read, sup, health, history>>
      BY <1>1 DEF WriteOwn
    <2> QED
      BY <2>2, <2>3, <2>4 DEF history
  <1>2. CASE Crash(p)
    <2>1. /\ up' = up \ {p} /\ pc' = [pc EXCEPT ![p] = "off"]
          /\ unstable' = [unstable EXCEPT ![p] = FALSE]
          /\ total' = [total EXCEPT ![p] = 0]
          /\ read' = [read EXCEPT ![p] = NotReading]
          /\ UNCHANGED <<slot, generation, rapid, mine, sup, health, shed, skipped>>
          /\ generation[p] < MaxGeneration
      BY <1>2 DEF Crash, history
    <2>2. read' \in [Reader -> ReadState] /\ read'[CP] = read[CP]
      BY <2>1, Places, ReadTypes DEF ReadState
    <2>3. unstable' \in [DP -> BOOLEAN]
      BY <2>1
    <2> QED
      BY <2>1, <2>2, <2>3 DEF ReadState
  <1> QED
    BY <1>1, <1>2

\* The loads of a reader.
LEMMA ReaderType ==
    ASSUME TypeInv, NEW x \in Reader, ReadSeq(x) \/ ReadFields(x) \/ ReadRetry(x)
    PROVE  TypeInv'
  <1>1. UNCHANGED <<slot, planes, children, sup, health, history>>
    BY DEF ReadSeq, ReadFields, ReadRetry
  <1>2. /\ read' \in [Reader -> ReadState]
        /\ \A y \in Reader : read'[y].at = read[y].at
    <2> DEFINE n == slot[read[x].at].seq
               b == slot[read[x].at].body
    <2>1. n \in Nat /\ b \in Body /\ read \in [Reader -> ReadState]
      BY DEF TypeInv, TypeOK, ReadState
    <2>2. CASE ReadSeq(x) \/ ReadFields(x)
      <3>1. \/ read' = [read EXCEPT ![x].step = "load", ![x].before = n]
            \/ read' = [read EXCEPT ![x].step = "again", ![x].view = b]
        BY <2>2 DEF ReadSeq, ReadFields
      <3> HIDE DEF n, b
      <3>2. CASE read' = [read EXCEPT ![x].step = "load", ![x].before = n]
        BY <2>1, <3>2 DEF ReadState
      <3>3. CASE read' = [read EXCEPT ![x].step = "again", ![x].view = b]
        BY <2>1, <3>3 DEF ReadState
      <3> QED
        BY <3>1, <3>2, <3>3
    <2>3. CASE ReadRetry(x)
      <3>1. read[x].at \in Slots
        BY DEF TypeInv, TypeOK
      <3>2. Reading(read[x].at) \in ReadState /\ Reading(read[x].at).at = read[x].at
        BY <3>1, ReadTypes
      <3> QED
        BY <2>1, <2>3, <3>2 DEF ReadRetry
    <2> QED
      BY <2>2, <2>3
  <1> QED
    BY <1>1, <1>2, Places
    DEF ReadState, TypeInv, TypeOK, Lifecycle, planes, children, history

\* The rounds of the control plane.
LEMMA HealthType == ASSUME TypeInv, Health PROVE TypeInv'
  <1>1. UNCHANGED <<slot, planes, children, sup, history>>
    BY DEF Health, HealthStart, HealthVersion, HealthSlot, HealthReport, HealthAgain,
           HealthFails, CPReads
  <1>2. /\ read \in [Reader -> ReadState] /\ read[CP].before \in Nat
        /\ read[CP].view.rejected \in Nat
        /\ health.place = "slots" => read[CP].at \in DP
    BY Places DEF TypeInv, TypeOK, Lifecycle, ReadState, Body
  <1>3. PICK j \in Slots : /\ \/ read' = [read EXCEPT ![CP] = Reading(j)]
                              \/ read' = [read EXCEPT ![CP] = NotReading]
                           /\ health'.place = "slots" => read'[CP].at \in DP
    <2>1. CASE HealthSlot
      <3> DEFINE next == IF read[CP].at = NumDP - 1 THEN Retired ELSE read[CP].at + 1
      <3>1. /\ read' = [read EXCEPT ![CP] = Reading(next)]
            /\ read[CP].at \in DP
            /\ read[CP].at = NumDP - 1 => health'.place = "retired"
        BY <1>2, <2>1 DEF HealthSlot, CPReads, TypeInv, TypeOK
      <3>2. next \in Slots /\ (read[CP].at # NumDP - 1 => next \in DP)
        BY <3>1, Places
      <3>3. read'[CP].at = next
        BY <1>2, <3>1, Places DEF Reading
      <3> QED
        BY <3>1, <3>2, <3>3
    <2>2. CASE HealthVersion
      <3>1. read' = [read EXCEPT ![CP] = Reading(0)]
        BY <2>2 DEF HealthVersion, CPReads
      <3>2. read'[CP].at = 0
        BY <1>2, <3>1, Places DEF Reading
      <3> QED
        BY <3>1, <3>2, Places
    <2>3. CASE HealthStart \/ HealthReport \/ HealthAgain \/ HealthFails
      <3>1. health'.place # "slots"
        BY <2>3 DEF HealthStart, HealthReport, HealthAgain, HealthFails, Idle, TypeInv,
                    TypeOK
      <3>2. \/ read' = [read EXCEPT ![CP] = Reading(Retired)]
            \/ read' = [read EXCEPT ![CP] = NotReading]
        BY <2>3 DEF HealthStart, HealthReport, HealthAgain, HealthFails, CPReads
      <3> QED
        BY <3>1, <3>2, Places
    <2> QED
      BY <2>1, <2>2, <2>3 DEF Health
  <1>4. read' \in [Reader -> ReadState]
    BY <1>2, <1>3, ReadTypes
  <1>5. health' \in HealthState
    <2>1. CASE HealthStart \/ HealthVersion
      BY <1>2, <2>1 DEF HealthStart, HealthVersion, HealthState, TypeInv, TypeOK
    <2>2. CASE HealthSlot
      <3>1. PICK pl \in {"retired", "slots"} :
                health' = [health EXCEPT !.place = pl, !.rejected = @ + read[CP].view.rejected]
        BY <2>2, Zenon DEF HealthSlot
      <3>2. /\ health \in HealthState
            /\ health.rejected + read[CP].view.rejected \in Nat
        BY <1>2 DEF TypeInv, TypeOK, HealthState
      <3> QED
        BY <3>1, <3>2 DEF HealthState
    <2>3. CASE HealthReport
      BY <1>2, <2>3 DEF HealthReport, Aggregate, Idle, HealthState,
                           TypeInv, TypeOK
    <2>4. CASE HealthAgain \/ HealthFails
      <3>1. \/ health' = [Idle EXCEPT !.place = "version", !.last = health.last]
            \/ health' = [Idle EXCEPT !.last = health.last]
        BY <2>4, Zenon DEF HealthAgain, HealthFails
      <3>2. health.last \in Nat
        BY DEF TypeInv, TypeOK
      <3>3. CASE health' = [Idle EXCEPT !.place = "version", !.last = health.last]
        BY <3>2, <3>3 DEF Idle, HealthState
      <3>4. CASE health' = [Idle EXCEPT !.last = health.last]
        BY <3>2, <3>4 DEF Idle, HealthState
      <3> QED
        BY <3>1, <3>3, <3>4
    <2> QED
      BY <2>1, <2>2, <2>3, <2>4 DEF Health
  <1> QED
    BY <1>1, <1>3, <1>4, <1>5
    DEF ReadState, HealthState, TypeInv, TypeOK, Lifecycle, planes, children, history

\* The supervisor.
LEMMA SupervisorType == ASSUME TypeInv, Supervisor PROVE TypeInv'
  <1>1. ASSUME NEW p \in DP, Reap(p) PROVE TypeInv'
    <2>1. /\ slot' = slot /\ Elsewhere /\ p \notin up /\ sup.place = "poll"
          /\ skipped' \in {skipped, skipped + mine[p].rejected}
      BY <1>1 DEF Reap, Dead
    <2>2. PICK b \in BOOLEAN :
              sup' = [place |-> IF b THEN "mark" ELSE "fold_mark", i |-> p,
                      sum |-> IF b THEN 0 ELSE Folded(p), folds |-> ~b]
      BY <1>1, Zenon DEF Reap, Odd
    <2>3. Folded(p) \in Nat /\ mine[p].rejected \in Nat
      BY Places DEF TypeInv, TypeOK, Folded, Body, Count
    <2>4. /\ sup' \in [place : {"poll", "fold_mark", "fold_tear", "fold_fields", "mark",
                                "tear", "fields", "fold_end", "spawn", "stopped"},
                       i : DP, sum : Nat, folds : BOOLEAN]
          /\ sup'.i = p /\ sup'.place # "stopped"
      BY <2>2, <2>3
    <2> QED
      BY <2>1, <2>3, <2>4 DEF TypeInv, TypeOK, Lifecycle, Elsewhere, planes, children
  <1>2. CASE FoldRetired \/ Reclaim \/ FoldEnd
    <2>1. /\ Elsewhere /\ skipped' = skipped
          /\ sup.place \notin {"poll", "stopped"}
      BY <1>2 DEF FoldRetired, Reclaim, FoldEnd
    <2>2. PICK pl \in {"fold_tear", "fold_fields", "mark", "tear", "fields", "fold_end",
                       "spawn"} : sup' = [sup EXCEPT !.place = pl]
      BY <1>2 DEF FoldRetired, Reclaim, FoldEnd, Goes
    <2>3. sup.i \in Slots /\ [Cleared EXCEPT !.rejected = sup.sum] \in Body
      BY Bodies, Places DEF TypeInv, TypeOK, Body
    <2>4. slot' \in [Slots -> [seq : Nat, body : Body]]
      BY <1>2, <2>3, StoreTypes, Bodies, Places
      DEF FoldRetired, Reclaim, FoldEnd, TypeInv
    <2> QED
      BY <2>1, <2>2, <2>4 DEF TypeInv, TypeOK, Lifecycle, Elsewhere, planes, children
  <1>3. ASSUME NEW lived \in BOOLEAN
        PROVE  Deaths(sup.i, lived) \in Nat /\ Deaths(sup.i, lived) <= rapid[sup.i] + 1
    BY SizesAssumption DEF Deaths, TypeInv, TypeOK
  <1>4. ASSUME NEW lived \in BOOLEAN, Respawn(lived) PROVE TypeInv'
    <2> DEFINE p == sup.i
    <2>1. /\ sup.place = "spawn" /\ p \in DP /\ p \notin up
          /\ rapid' = [rapid EXCEPT ![p] = Deaths(p, lived)]
          /\ Deaths(p, lived) < MaxRapidRestarts
          /\ sup' = Polling /\ up' = up \cup {p}
          /\ generation' = [generation EXCEPT ![p] = @ + 1]
          /\ pc' = [pc EXCEPT ![p] = "mark"]
          /\ mine' = [mine EXCEPT ![p] = Zero]
          /\ UNCHANGED <<slot, unstable, total, read, health, shed, skipped>>
      BY <1>4 DEF Respawn, TypeInv, TypeOK, Lifecycle, history
    <2>2. rapid' \in [DP -> 0 .. MaxRapidRestarts]
      BY <1>3, <2>1, SizesAssumption DEF TypeInv, TypeOK
    <2>3. generation' \in [DP -> 1 .. MaxGeneration]
      BY <2>1, SizesAssumption DEF TypeInv, TypeOK, Lifecycle
    <2>4. Polling \in [place : {"poll"}, i : DP, sum : Nat, folds : BOOLEAN]
      BY Places DEF Polling
    <2>5. Zero \in Count
      BY Bodies
    <2>6. \A q \in DP : /\ rapid'[q] < MaxRapidRestarts
                        /\ q \notin up' => generation'[q] < MaxGeneration
      BY <2>1 DEF TypeInv, TypeOK, Lifecycle
    <2> HIDE DEF p
    <2> QED
      BY <2>1, <2>2, <2>3, <2>4, <2>5, <2>6 DEF TypeInv, TypeOK, Lifecycle
  <1>5. ASSUME NEW lived \in BOOLEAN, FailClosed(lived) PROVE TypeInv'
    <2>1. /\ sup.place = "spawn"
          /\ rapid' = [rapid EXCEPT ![sup.i] = Deaths(sup.i, lived)]
          /\ sup' = [Polling EXCEPT !.place = "stopped"] /\ up' = {}
          /\ pc' = [q \in DP |-> "off"]
          /\ unstable' = [q \in DP |-> FALSE]
          /\ total' = [q \in DP |-> 0]
          /\ read' = [x \in Reader |-> NotReading]
          /\ health' = [Idle EXCEPT !.last = health.last]
          /\ UNCHANGED <<slot, generation, mine, shed, skipped>>
      BY <1>5 DEF FailClosed, history
    <2>2. rapid' \in [DP -> 0 .. MaxRapidRestarts]
      BY <1>3, <2>1, SizesAssumption DEF TypeInv, TypeOK, Lifecycle
    <2>3. sup' \in [place : {"stopped"}, i : DP, sum : Nat, folds : BOOLEAN]
      BY <2>1, Places DEF Polling
    <2>4. read' \in [Reader -> ReadState]
      BY <2>1, ReadTypes
    <2>5. health' \in [place : {"idle"}, version : Nat, rejected : Nat, last : Nat]
      BY <2>1 DEF Idle, TypeInv, TypeOK
    <2> QED
      BY <2>1, <2>2, <2>3, <2>4, <2>5 DEF TypeInv, TypeOK, Lifecycle, ReadState
  <1> QED
    BY <1>1, <1>2, <1>4, <1>5 DEF Supervisor

\* The file and the processes start well typed.
LEMMA InitType == Init => TypeInv
  <1> SUFFICES ASSUME Init PROVE TypeInv
    OBVIOUS
  <1>1. slot \in [Slots -> [seq : Nat, body : Body]]
    <2>1. Cleared \in Body /\ Fields(Zero, 1) \in Body
      BY Bodies
    <2> QED
      BY <2>1 DEF Init
  <1>2. read \in [Reader -> ReadState] /\ read[CP] = NotReading
    BY ReadTypes, Places DEF Init
  <1>3. sup \in [place : {"poll"}, i : DP, sum : Nat, folds : BOOLEAN]
    BY Places DEF Init, Polling
  <1>4. health \in [place : {"idle"}, version : Nat, rejected : Nat, last : Nat]
    BY DEF Init, Idle
  <1>5. mine \in [DP -> Count]
    BY Bodies DEF Init
  <1>6. unstable \in [DP -> BOOLEAN]
    BY DEF Init
  <1> QED
    BY <1>1, <1>2, <1>3, <1>4, <1>5, <1>6, SizesAssumption
    DEF Init, TypeInv, TypeOK, Lifecycle, ReadState

\* Every step keeps the types and the life cycle of the processes.
LEMMA TypeStep == TypeInv /\ [Next]_vars => TypeInv'
  <1> SUFFICES ASSUME TypeInv, [Next]_vars PROVE TypeInv'
    OBVIOUS
  <1>1. CASE UNCHANGED vars
    BY <1>1 DEF vars, TypeInv, TypeOK, Lifecycle, planes, children, history
  <1> QED
    BY <1>1, AdmitType, OwnType, ReaderType, SupervisorType, HealthType DEF Next, Terminated

\* The slots, the processes and their reads keep their types: in particular no
\* counter becomes negative, no generation passes its bound and the supervisor
\* stops at max_rapid_restarts.
THEOREM TypeCorrect == Spec => []TypeOK
  <1>1. TypeInv => TypeOK
    BY DEF TypeInv
  <1> QED
    BY <1>1, InitType, TypeStep, PTL DEF Spec

-----------------------------------------------------------------------------
(* The seqlock.                                                            *)

\* The five stores: what a store does to its slot and to the others.
LEMMA StoreEffect ==
    ASSUME TypeOK, NEW i \in Slots, NEW b \in Body
    PROVE  /\ Mark(i) => /\ slot'[i].body = slot[i].body
                         /\ slot'[i].seq = IF Odd(i) THEN slot[i].seq ELSE slot[i].seq + 1
           /\ Tear(i) => slot'[i] = [seq |-> slot[i].seq, body |-> Torn]
           /\ WriteFields(i, b) => slot'[i] = [seq |-> slot[i].seq, body |-> b]
           /\ EndWrite(i) => slot'[i] = [seq |-> slot[i].seq + 1, body |-> slot[i].body]
           /\ Store(i, b) => slot'[i] = [seq |-> slot[i].seq + 1, body |-> b]
           /\ Mark(i) \/ Tear(i) \/ WriteFields(i, b) \/ EndWrite(i) \/ Store(i, b)
              => \A j \in Slots \ {i} : slot'[j] = slot[j]
  <1> USE DEF TypeOK
  <1>1. ASSUME Mark(i)
        PROVE  /\ slot'[i].body = slot[i].body
               /\ slot'[i].seq = IF Odd(i) THEN slot[i].seq ELSE slot[i].seq + 1
               /\ \A j \in Slots \ {i} : slot'[j] = slot[j]
    BY <1>1 DEF Mark
  <1>2. ASSUME Tear(i)
        PROVE  /\ slot'[i] = [seq |-> slot[i].seq, body |-> Torn]
               /\ \A j \in Slots \ {i} : slot'[j] = slot[j]
    BY <1>2 DEF Tear
  <1>3. ASSUME WriteFields(i, b)
        PROVE  /\ slot'[i] = [seq |-> slot[i].seq, body |-> b]
               /\ \A j \in Slots \ {i} : slot'[j] = slot[j]
    BY <1>3 DEF WriteFields
  <1>4. ASSUME EndWrite(i)
        PROVE  /\ slot'[i] = [seq |-> slot[i].seq + 1, body |-> slot[i].body]
               /\ \A j \in Slots \ {i} : slot'[j] = slot[j]
    BY <1>4 DEF EndWrite
  <1>5. ASSUME Store(i, b)
        PROVE  /\ slot'[i] = [seq |-> slot[i].seq + 1, body |-> b]
               /\ \A j \in Slots \ {i} : slot'[j] = slot[j]
    BY <1>5 DEF Store
  <1> QED
    BY <1>1, <1>2, <1>3, <1>4, <1>5

\* Adding one changes the parity.
LEMMA Parity ==
    \A n \in Nat : /\ n % 2 \in {0, 1}
                   /\ n % 2 = 1 => (n + 1) % 2 = 0
                   /\ n % 2 = 0 => (n + 1) % 2 = 1
  OBVIOUS

\* A write moves a slot forward only, makes it odd or completes it, and leaves
\* the other slots and all readers alone.
Written(i) ==
    /\ UNCHANGED <<up, generation, read>>
    /\ \A j \in Slots \ {i} : slot'[j] = slot[j]
    /\ slot'[i].seq \in {slot[i].seq, slot[i].seq + 1}

\* The steps that store, each on a slot of its own.
LEMMA WriteSteps ==
    ASSUME TypeInv,
           NEW i \in Slots,
           \/ i \in DP /\ WriteOwn(i)
           \/ i = Retired /\ (FoldRetired \/ FoldEnd)
           \/ i = sup.i /\ Reclaim
    PROVE  Written(i)
  <1>1. UNCHANGED <<up, generation, read>>
    BY DEF WriteOwn, FoldRetired, FoldEnd, Reclaim, Elsewhere, children
  <1>2. PICK b \in Body :
            Mark(i) \/ Tear(i) \/ WriteFields(i, b) \/ EndWrite(i) \/ Store(i, b)
    <2>1. Cleared \in Body
      BY Bodies
    <2>2. [Cleared EXCEPT !.rejected = sup.sum] \in Body
      BY <2>1 DEF Body, TypeInv, TypeOK
    <2>3. i \in DP => Fields(mine[i], generation[i]) \in Body
      <3>1. i \in DP => mine[i] \in Count /\ generation[i] \in Nat
        BY DEF TypeInv, TypeOK
      <3> QED
        BY <3>1, Bodies
    <2> QED
      BY <2>1, <2>2, <2>3 DEF WriteOwn, FoldRetired, FoldEnd, Reclaim
  <1>3. slot[i].seq \in Nat
    BY DEF TypeInv, TypeOK
  <1>4. TypeOK
    BY DEF TypeInv
  <1>5. \A j \in Slots \ {i} : slot'[j] = slot[j]
    BY <1>2, <1>4, StoreEffect
  <1>6. slot'[i].seq \in {slot[i].seq, slot[i].seq + 1}
    <2>1. CASE Mark(i)
      BY <2>1, <1>2, <1>4, StoreEffect
    <2>2. CASE Tear(i) \/ WriteFields(i, b)
      <3>1. slot'[i] = [seq |-> slot[i].seq, body |-> Torn]
            \/ slot'[i] = [seq |-> slot[i].seq, body |-> b]
        BY <2>2, <1>4, StoreEffect
      <3> QED
        BY <3>1
    <2>3. CASE EndWrite(i) \/ Store(i, b)
      <3>1. slot'[i] = [seq |-> slot[i].seq + 1, body |-> slot[i].body]
            \/ slot'[i] = [seq |-> slot[i].seq + 1, body |-> b]
        BY <2>3, <1>4, StoreEffect
      <3> QED
        BY <3>1
    <2> QED
      BY <1>2, <2>1, <2>2, <2>3
  <1> QED
    BY <1>1, <1>5, <1>6 DEF Written

\* Every other step leaves the file alone and begins no write.
Quiet ==
    /\ slot' = slot
    /\ \A p \in up' : pc'[p] \in {"tear", "fields"} => p \in up /\ pc'[p] = pc[p]
    /\ \A p \in up' : pc'[p] \in {"idle", "sum"} =>
           p \in up /\ pc[p] \in {"idle", "sum"} /\ generation'[p] = generation[p]
    /\ \/ sup' = sup
       \/ sup.place \in {"poll", "spawn"} /\ sup'.place \in {"fold_mark", "poll", "stopped"}
       \/ sup.place = "poll" /\ sup'.place = "mark" /\ ~sup'.folds

\* A step is a store of one writer or quiet.
LEMMA StoreSteps ==
    ASSUME TypeInv, [Next]_vars
    PROVE  \/ Quiet
           \/ \E p \in DP : WriteOwn(p)
           \/ FoldRetired \/ FoldEnd \/ Reclaim
  <1> USE DEF Quiet, TypeInv, TypeOK, planes, children
  <1>1. ASSUME NEW p \in DP,
               \/ TryAcquire(p) \/ ShedFromCache(p) \/ SumNext(p) \/ Decide(p)
               \/ SumFails(p) \/ Release(p) \/ Touch(p) \/ Crash(p)
        PROVE  Quiet
    <2>1. CASE TryAcquire(p) \/ ShedFromCache(p) \/ Release(p) \/ Touch(p)
      BY <2>1 DEF TryAcquire, ShedFromCache, Release, Touch, Ready
    <2>2. CASE SumNext(p) \/ Decide(p) \/ SumFails(p)
      BY <2>2 DEF SumNext, Decide, SumFails
    <2>3. CASE Crash(p)
      BY <2>3 DEF Crash
    <2> QED
      BY <1>1, <2>1, <2>2, <2>3
  <1>2. ASSUME NEW x \in Reader, ReadSeq(x) \/ ReadFields(x) \/ ReadRetry(x) PROVE Quiet
    BY <1>2 DEF ReadSeq, ReadFields, ReadRetry
  <1>3. ASSUME NEW p \in DP, Reap(p) PROVE Quiet
    <2>1. PICK b \in BOOLEAN :
              sup' = [place |-> IF b THEN "mark" ELSE "fold_mark", i |-> p,
                      sum |-> IF b THEN 0 ELSE Folded(p), folds |-> ~b]
      BY <1>3, Zenon DEF Reap, Odd
    <2>2. \/ sup'.place = "fold_mark"
          \/ sup'.place = "mark" /\ ~sup'.folds
      BY <2>1
    <2> QED
      BY <1>3, <2>2 DEF Reap, Elsewhere
  <1>4. ASSUME NEW lived \in BOOLEAN, Respawn(lived) \/ FailClosed(lived) PROVE Quiet
    BY <1>4 DEF Respawn, FailClosed, Polling
  <1>5. CASE Health
    BY <1>5 DEF Health, HealthStart, HealthVersion, HealthSlot, HealthReport, HealthAgain,
                HealthFails, CPReads
  <1>6. CASE Terminated \/ UNCHANGED vars
    BY <1>6 DEF Terminated, vars
  <1> QED
    BY <1>1, <1>2, <1>3, <1>4, <1>5, <1>6 DEF Next, Supervisor

\* What a step does to the readers.
LEMMA ReadSteps ==
    ASSUME TypeInv, [Next]_vars
    PROVE  \/ read' = read
           \/ \E x \in Reader : ReadSeq(x) \/ ReadFields(x)
           \/ \E x \in Reader, i \in Slots : \/ read' = [read EXCEPT ![x] = Reading(i)]
                                            \/ read' = [read EXCEPT ![x] = NotReading]
           \/ read' = [x \in Reader |-> NotReading]
  <1>1. ASSUME NEW p \in DP,
               \/ TryAcquire(p) \/ ShedFromCache(p) \/ SumNext(p) \/ Decide(p)
               \/ SumFails(p) \/ Release(p) \/ Touch(p) \/ WriteOwn(p) \/ Crash(p)
        PROVE  \/ read' = read
               \/ \E i \in Slots : \/ read' = [read EXCEPT ![p] = Reading(i)]
                                   \/ read' = [read EXCEPT ![p] = NotReading]
    <2>1. read[p].at \in Slots
      BY Places DEF TypeInv, TypeOK
    <2>2. read[p].at < NumDP - 1 => read[p].at + 1 \in Slots
      BY <2>1, Places
    <2> QED
      BY <1>1, <2>2, Places DEF TryAcquire, ShedFromCache, SumNext, Decide, SumFails,
         Release, Touch, WriteOwn, Crash
  <1>2. ASSUME NEW x \in Reader, ReadRetry(x)
        PROVE  \E i \in Slots : read' = [read EXCEPT ![x] = Reading(i)]
    <2>1. read[x].at \in Slots /\ read' = [read EXCEPT ![x] = Reading(read[x].at)]
      BY <1>2 DEF ReadRetry, TypeInv, TypeOK
    <2> QED
      BY <2>1
  <1>3. CASE Supervisor
    BY <1>3 DEF Supervisor, Reap, FoldRetired, Reclaim, FoldEnd, Elsewhere, Respawn,
                FailClosed
  <1>4. CASE Health
    <2>1. health.place = "slots" /\ read[CP].at # NumDP - 1 => read[CP].at + 1 \in Slots
      BY Places DEF TypeInv, Lifecycle
    <2> QED
      BY <1>4, <2>1, Places DEF Health, HealthStart, HealthVersion, HealthSlot, HealthReport,
         HealthAgain, HealthFails, CPReads
  <1>5. CASE Terminated \/ UNCHANGED vars
    BY <1>5 DEF Terminated, vars
  <1> QED
    BY <1>1, <1>2, <1>3, <1>4, <1>5, Places DEF Next

\* A write invalidates the reads of its slot, or does not touch what they see.
LEMMA WrittenReads ==
    ASSUME TypeInv, Reads, NEW i \in Slots, Written(i)
    PROVE  Reads'
  BY DEF TypeInv, TypeOK, Reads, Written, Stable

\* What a reader loads between two equal even numbers is whole.
LEMMA ReadsStep == ASSUME TypeInv, Marked, Reads, [Next]_vars PROVE Reads'
  <1>1. CASE \/ \E p \in DP : WriteOwn(p)
             \/ FoldRetired \/ FoldEnd \/ Reclaim
    <2>1. PICK i \in Slots : Written(i)
      BY <1>1, WriteSteps, Places DEF TypeInv, TypeOK
    <2> QED
      BY <2>1, WrittenReads
  <1>2. CASE Quiet
    <2> USE DEF TypeInv, TypeOK, Reads, Stable, Quiet
    <2>1. ASSUME NEW x \in Reader, ReadSeq(x) PROVE Reads'
      <3>1. slot[read[x].at].seq % 2 = 0
        <4>1. slot[read[x].at].seq \in Nat
          OBVIOUS
        <4> QED
          BY <2>1, <4>1, Parity DEF ReadSeq, Odd
      <3> QED
        BY <1>2, <2>1, <3>1 DEF ReadSeq
    <2>2. ASSUME NEW x \in Reader, ReadFields(x) PROVE Reads'
      <3>1. read[x].before = slot[read[x].at].seq => slot[read[x].at].body # Torn
        BY <2>2 DEF ReadFields, Marked, Odd
      <3> QED
        BY <1>2, <2>2, <3>1 DEF ReadFields
    <2>3. ASSUME NEW x \in Reader, read'[x].step \in {"none", "seq"},
                 \A y \in Reader \ {x} : read'[y] = read[y]
          PROVE  Reads'
      <3>1. slot' = slot /\ read'[x].step \notin {"load", "again"}
        BY <1>2, <2>3
      <3>2. \A y \in Reader \ {x} : read'[y] = read[y]
        BY <2>3
      <3>3. ASSUME NEW y \in Reader \ {x}, read[y].step \in {"load", "again"}
            PROVE  /\ read'[y].before % 2 = 0 /\ read'[y].before <= slot'[read'[y].at].seq
                   /\ Stable(y)' => read'[y].view # Torn
        BY <3>1, <3>2, <3>3, Zenon
      <3> QED
        BY <3>1, <3>2, <3>3, Zenon
    <2>4. CASE \E x \in Reader, i \in Slots : \/ read' = [read EXCEPT ![x] = Reading(i)]
                                              \/ read' = [read EXCEPT ![x] = NotReading]
      <3>1. PICK x \in Reader, i \in Slots : \/ read' = [read EXCEPT ![x] = Reading(i)]
                                            \/ read' = [read EXCEPT ![x] = NotReading]
        BY <2>4, Zenon
      <3>2. Reading(i).step \in {"none", "seq"} /\ NotReading.step \in {"none", "seq"}
        BY DEF Reading, NotReading
      <3>3. DOMAIN read = Reader
        OBVIOUS
      <3>4. read'[x].step \in {"none", "seq"} /\ \A y \in Reader \ {x} : read'[y] = read[y]
        <4> HIDE DEF TypeInv, TypeOK, Reads, Stable, Quiet
        <4> QED
          BY <3>1, <3>2, <3>3, Zenon
      <3> QED
        BY <2>3, <3>4, Zenon
    <2>5. CASE read' = read
      BY <1>2, <2>5
    <2>6. CASE read' = [x \in Reader |-> NotReading]
      BY <2>6 DEF NotReading
    <2> QED
      BY <2>1, <2>2, <2>4, <2>5, <2>6, ReadSteps
  <1> QED
    BY <1>1, <1>2, StoreSteps

\* The first store of a write makes the slot odd, whoever left it how.
LEMMA MarkOdd ==
    ASSUME TypeOK, NEW i \in Slots, Mark(i)
    PROVE  slot'[i].seq % 2 = 1 /\ slot'[i].body = slot[i].body
  <1>1. slot[i].seq \in Nat /\ Cleared \in Body
    BY Bodies DEF TypeOK
  <1>2. /\ slot'[i].seq = IF Odd(i) THEN slot[i].seq ELSE slot[i].seq + 1
        /\ slot'[i].body = slot[i].body
    BY <1>1, StoreEffect
  <1> QED
    BY <1>1, <1>2, Parity DEF Odd

\* A slot that is not written keeps what Marked and NotFenced say of it.
LEMMA MarkedStep == ASSUME IInv, [Next]_vars PROVE Marked'
  <1> USE DEF IInv, TypeInv
  <1>0. \A i \in Slots : slot[i].seq \in Nat
    BY DEF TypeOK
  <1>1. ASSUME NEW p \in DP, WriteOwn(p) PROVE Marked'
    <2>1. /\ p \in Slots /\ p # Retired /\ p \in up /\ UNCHANGED <<up, sup>>
          /\ sup.i = p => sup.place \in {"poll", "stopped"}
          /\ pc' \in [DP -> {"idle", "sum", "mark", "tear", "fields", "off"}]
      BY <1>1, Places DEF WriteOwn, children, TypeOK, Lifecycle
    <2>2. \A j \in Slots \ {p} : slot'[j] = slot[j]
      BY <1>1, <2>1, WriteSteps DEF Written
    <2>3. \A q \in DP \ {p} : pc'[q] = pc[q]
      BY <1>1 DEF WriteOwn, TypeOK
    <2>4. /\ pc'[p] \in {"tear", "fields"} => slot'[p].seq % 2 = 1
          /\ slot'[p].body = Torn => slot'[p].seq % 2 = 1
      <3>1. CASE pc[p] = "mark"
        <4>1. Mark(p)
          BY <1>1, <3>1 DEF WriteOwn
        <4> QED
          BY <2>1, <4>1, MarkOdd
      <3>2. CASE pc[p] = "tear"
        <4>1. slot'[p] = [seq |-> slot[p].seq, body |-> Torn]
          BY <1>1, <2>1, <3>2, Bodies, StoreEffect DEF WriteOwn
        <4> QED
          BY <2>1, <3>2, <4>1 DEF Marked, Odd
      <3>3. CASE pc[p] = "fields"
        <4>1. mine[p] \in Count /\ generation[p] \in Nat
          BY DEF TypeOK
        <4>2. Fields(mine[p], generation[p]) \in Body /\ Fields(mine[p], generation[p]) # Torn
          BY <4>1, Bodies
        <4>3. /\ slot'[p] = [seq |-> slot[p].seq + 1, body |-> Fields(mine[p], generation[p])]
              /\ pc' = [pc EXCEPT ![p] = "idle"]
          BY <1>1, <2>1, <3>3, <4>2, StoreEffect DEF WriteOwn
        <4> DEFINE fresh == Fields(mine[p], generation[p])
        <4> HIDE DEF fresh
        <4>4. slot'[p].body # Torn
          <5>1. slot'[p] = [seq |-> slot[p].seq + 1, body |-> fresh] /\ fresh # Torn
            BY <4>2, <4>3, Zenon DEF fresh
          <5> QED
            BY <5>1
        <4>5. pc'[p] = "idle"
          BY <4>3 DEF TypeOK
        <4> QED
          BY <4>4, <4>5
      <3> QED
        BY <1>1, <3>1, <3>2, <3>3 DEF WriteOwn
    <2>5. /\ sup' = sup /\ (Folding' <=> Folding)
          /\ \A i \in Slots \ {p} : slot'[i] = slot[i]
      BY <2>1, <2>2 DEF Folding
    <2>6. \A q \in up' : pc'[q] \in {"tear", "fields"} => Odd(q)'
      BY <2>1, <2>3, <2>4, <2>5, Places DEF Marked, Odd, TypeOK
    <2>7. sup'.place \in {"tear", "fields"} => Odd(sup.i)'
      <3> SUFFICES ASSUME sup.place \in {"tear", "fields"} PROVE slot'[sup'.i].seq % 2 = 1
        BY <2>5 DEF Odd
      <3>1. sup.i \in Slots \ {p}
        BY <2>1, Places DEF TypeOK
      <3>2. slot'[sup'.i] = slot[sup.i]
        BY <2>5, <3>1
      <3> QED
        BY <3>2 DEF Marked, Odd
    <2>8. \A i \in Slots : slot'[i].body = Torn => Odd(i)'
      BY <2>4, <2>5 DEF Marked, Odd
    <2>9. /\ Folding' => Odd(Retired)'
          /\ slot'[Retired].body = Torn => sup'.place = "fold_fields"
      BY <2>1, <2>5, Places DEF Marked, Odd
    <2> QED
      BY <2>5, <2>6, <2>7, <2>8, <2>9 DEF Marked
  <1>2. CASE FoldRetired \/ FoldEnd
    <2>1. UNCHANGED <<up, pc>> /\ \A p \in up : p \in Slots /\ p # Retired
      BY <1>2, Places DEF FoldRetired, FoldEnd, Elsewhere, planes, children, TypeOK
    <2>2. \A j \in Slots \ {Retired} : slot'[j] = slot[j]
      BY <1>2, WriteSteps, Places DEF Written
    <2>3. /\ Folding' => slot'[Retired].seq % 2 = 1
          /\ slot'[Retired].body = Torn => /\ slot'[Retired].seq % 2 = 1
                                           /\ sup'.place = "fold_fields"
          /\ sup'.i = sup.i /\ sup'.place \notin {"tear", "fields"}
      <3>1. CASE sup.place = "fold_mark"
        <4>1. Mark(Retired) /\ sup' = [sup EXCEPT !.place = "fold_tear"]
          BY <1>2, <3>1 DEF FoldRetired, FoldEnd, Goes
        <4>2. slot'[Retired].seq % 2 = 1 /\ slot'[Retired].body = slot[Retired].body
          BY <4>1, MarkOdd, Places
        <4> QED
          BY <3>1, <4>1, <4>2 DEF Marked, TypeOK
      <3>2. CASE sup.place = "fold_tear"
        <4>1. Tear(Retired) /\ sup' = [sup EXCEPT !.place = "fold_fields"]
          BY <1>2, <3>2 DEF FoldRetired, FoldEnd, Goes
        <4>2. slot'[Retired] = [seq |-> slot[Retired].seq, body |-> Torn]
          BY <4>1, Bodies, StoreEffect, Places
        <4> QED
          BY <3>2, <4>1, <4>2 DEF Marked, Folding, Odd, TypeOK
      <3>3. CASE sup.place = "fold_fields"
        <4> DEFINE b == [Cleared EXCEPT !.rejected = sup.sum]
        <4>1. b \in Body /\ b # Torn
          BY DEF TypeOK, Cleared, Torn, Fields, Zero, Body
        <4>2. WriteFields(Retired, b) /\ sup' = [sup EXCEPT !.place = "mark"]
          BY <1>2, <3>3 DEF FoldRetired, FoldEnd, Goes
        <4> HIDE DEF b
        <4>3. slot'[Retired] = [seq |-> slot[Retired].seq, body |-> b]
          BY <4>1, <4>2, StoreEffect, Places
        <4> QED
          BY <3>3, <4>1, <4>2, <4>3 DEF Marked, Folding, Odd, TypeOK
      <3>4. CASE sup.place = "fold_end"
        <4>1. EndWrite(Retired) /\ sup' = [sup EXCEPT !.place = "spawn"]
          BY <1>2, <3>4 DEF FoldRetired, FoldEnd, Goes
        <4>2. slot'[Retired] = [seq |-> slot[Retired].seq + 1, body |-> slot[Retired].body]
          BY <4>1, Bodies, StoreEffect, Places
        <4> QED
          BY <3>4, <4>1, <4>2 DEF Marked, Folding, TypeOK
      <3> QED
        BY <1>2, <3>1, <3>2, <3>3, <3>4 DEF FoldRetired, FoldEnd
    <2> QED
      BY <2>1, <2>2, <2>3, Places DEF Marked, Odd
  <1>3. CASE Reclaim
    <2> DEFINE q == sup.i
    <2>1. /\ UNCHANGED <<up, pc>> /\ q \in DP /\ q \notin up
          /\ q \in Slots /\ q # Retired
          /\ \A p \in up : p \in Slots /\ p # q
      BY <1>3, Places DEF Reclaim, Elsewhere, planes, children, TypeOK, Lifecycle
    <2>2. \A j \in Slots \ {q} : slot'[j] = slot[j]
      BY <1>3, <2>1, WriteSteps DEF Written
    <2>3. PICK pl \in {"tear", "fields", "fold_end", "spawn"} :
              /\ sup' = [sup EXCEPT !.place = pl]
              /\ pl = "fold_end" => sup.folds
      BY <1>3 DEF Reclaim, Goes
    <2>4. sup.place \in {"mark", "tear", "fields"}
      BY <1>3 DEF Reclaim
    <2>5. Folding' => Folding
      BY <2>3, <2>4 DEF Folding, TypeOK
    <2>6. /\ sup'.place \in {"tear", "fields"} => slot'[q].seq % 2 = 1
          /\ slot'[q].body = Torn => slot'[q].seq % 2 = 1
      <3>1. CASE sup.place = "mark"
        <4>1. Mark(q)
          BY <1>3, <3>1 DEF Reclaim
        <4> QED
          BY <2>1, <4>1, MarkOdd
      <3>2. CASE sup.place = "tear"
        <4>1. slot'[q] = [seq |-> slot[q].seq, body |-> Torn]
          BY <1>3, <2>1, <3>2, Bodies, StoreEffect DEF Reclaim
        <4> QED
          BY <2>1, <3>2, <4>1 DEF Marked, Odd
      <3>3. CASE sup.place = "fields"
        <4>1. Cleared \in Body /\ Cleared # Torn
          BY Bodies
        <4>2. slot'[q] = [seq |-> slot[q].seq + 1, body |-> Cleared]
          BY <1>3, <2>1, <3>3, <4>1, StoreEffect DEF Reclaim
        <4>3. sup' = [sup EXCEPT !.place = IF sup.folds THEN "fold_end" ELSE "spawn"]
          BY <1>3, <3>3 DEF Reclaim, Goes
        <4> QED
          BY <4>1, <4>2, <4>3 DEF TypeOK
      <3> QED
        BY <2>4, <3>1, <3>2, <3>3
    <2>7. sup'.i = q /\ slot'[Retired] = slot[Retired] /\ slot[Retired].body # Torn
      BY <2>1, <2>2, <2>3, <2>4, Places DEF Marked, TypeOK
    <2> QED
      BY <2>1, <2>2, <2>5, <2>6, <2>7, Places DEF Marked, Odd
  <1>4. CASE Quiet
    <2>1. Folding' => Folding
      BY <1>4 DEF Quiet, Folding
    <2> QED
      BY <1>4, <2>1 DEF Quiet, Marked, Odd
  <1> QED
    BY <1>1, <1>2, <1>3, <1>4, StoreSteps

\* Nobody but its owner writes the slot of a live data plane.
LEMMA OwnerStep == ASSUME IInv, [Next]_vars PROVE NotFenced'
  <1> USE DEF IInv, TypeInv
  <1>1. ASSUME NEW p \in DP, WriteOwn(p) PROVE NotFenced'
    <2>1. /\ UNCHANGED <<up, generation>> /\ p \in up /\ p \in Slots
          /\ \A q \in up : q \in Slots
      BY <1>1, Places DEF WriteOwn, children, TypeOK, Lifecycle
    <2>2. \A q \in up \ {p} : slot'[q] = slot[q] /\ pc'[q] = pc[q]
      BY <1>1, <2>1, WriteSteps DEF Written, WriteOwn, TypeOK
    <2>3. CASE pc[p] \in {"mark", "tear"}
      <3>1. pc'[p] \in {"tear", "fields"}
        BY <1>1, <2>3 DEF WriteOwn, TypeOK
      <3> QED
        BY <2>1, <2>2, <3>1 DEF NotFenced, Owner, Odd
    <2>4. CASE pc[p] = "fields"
      <3>1. mine[p] \in Count /\ generation[p] \in Nat
        BY DEF TypeOK
      <3>2. /\ Fields(mine[p], generation[p]) \in Body
            /\ Fields(mine[p], generation[p]).generation = generation[p]
        BY <3>1, Bodies
      <3>3. slot'[p] = [seq |-> slot[p].seq + 1, body |-> Fields(mine[p], generation[p])]
        BY <1>1, <2>1, <2>4, <3>2, StoreEffect DEF WriteOwn
      <3>4. slot'[p].seq % 2 = 0
        <4>1. slot[p].seq \in Nat /\ slot[p].seq % 2 = 1
          BY <2>1, <2>4 DEF TypeOK, Marked, Odd
        <4> QED
          BY <3>3, <4>1, Parity
      <3> QED
        BY <2>1, <2>2, <3>2, <3>3, <3>4 DEF NotFenced, Owner, Odd
    <2> QED
      BY <1>1, <2>3, <2>4 DEF WriteOwn
  <1>2. CASE FoldRetired \/ FoldEnd \/ Reclaim
    <2>1. /\ UNCHANGED <<up, generation, pc>>
          /\ \A q \in up : q \in Slots /\ q # Retired
          /\ Reclaim => \A q \in up : q # sup.i
          /\ sup.i \in Slots
      BY <1>2, Places DEF FoldRetired, FoldEnd, Reclaim, Elsewhere, planes, children, TypeOK,
         Lifecycle
    <2>2. \A q \in up : slot'[q] = slot[q]
      BY <1>2, <2>1, WriteSteps, Places DEF Written
    <2> QED
      BY <2>1, <2>2 DEF NotFenced, Owner, Odd
  <1>3. CASE Quiet
    BY <1>3 DEF Quiet, NotFenced, Owner, Odd
  <1> QED
    BY <1>1, <1>2, <1>3, StoreSteps

\* Every slot starts even and whole.
LEMMA InitSound == Init => IInv
  <1> SUFFICES ASSUME Init PROVE IInv
    OBVIOUS
  <1>1. /\ TypeInv
        /\ \A i \in Slots : slot[i].seq % 2 = 0 /\ slot[i].body # Torn
        /\ \A p \in DP : slot[p].body.generation = 1
    <2>1. /\ Fields(Zero, 1).generation = 1 /\ Fields(Zero, 1) # Torn /\ Cleared # Torn
      BY Bodies
    <2> QED
      BY <2>1, InitType, Places DEF Init
  <1>2. Marked
    BY <1>1, Places DEF Init, Marked, Folding, Odd, Polling
  <1>3. Reads
    BY DEF Init, Reads, NotReading
  <1>4. NotFenced
    BY <1>1, Places DEF Init, NotFenced, Owner, Odd
  <1> QED
    BY <1>1, <1>2, <1>3, <1>4 DEF IInv

\* Wherever a data plane dies, in the middle of a write or not, no reader
\* accepts a torn slot, and no live data plane finds its own slot unreadable or
\* another's: nobody is fenced by mistake.
THEOREM SeqlocksSound == Spec => []SeqlockSound
  <1>1. IInv /\ [Next]_vars => IInv'
    BY TypeStep, MarkedStep, ReadsStep, OwnerStep DEF IInv
  <1>2. IInv => SeqlockSound
    BY DEF IInv, Reads, SeqlockSound, StableReadWhole, Stable
  <1> QED
    BY <1>1, <1>2, InitSound, PTL DEF Spec

-----------------------------------------------------------------------------
(* The soft bound.                                                         *)

\* The requests in flight that the slot of a data plane stands for: what it
\* shows to readers, and from the first store of the fields on, when no reader
\* accepts it until they are complete, what a live owner is about to write.
Shown ==
    [p \in DP |-> IF slot[p].body # Torn THEN slot[p].body.inflight
                  ELSE IF p \in up THEN mine[p].inflight ELSE 0]

\* The slots a sum has still to read.
Ahead(i) == {j \in DP : i <= j}

\* What the sum of a data plane comes to if no slot changes any more.
Estimate(p) == total[p] + SumFunctionOnSet(Shown, Ahead(read[p].at))

\* The sums under way that would find less than v.
Below(v) == {p \in DP : pc[p] = "sum" /\ Estimate(p) < v}

\* The data planes that have admitted a request no slot shows yet.
Unwritten == {p \in up : pc[p] \in {"mark", "tear"} /\ Shown[p] < mine[p].inflight}

Room(v) ==
    SumFunctionOnSet(Shown, DP) + Cardinality(Unwritten) + Cardinality(Below(v))
        <= v + NumDP - 1

\* Every sum under way may still admit one request, as long as it would find
\* less than the bound; when requests end it finds less, so that the same is
\* needed of every higher bound.
Gap == \A v \in Nat : v >= MaxInflight => Room(v)

\* There are finitely many data planes, NumDP of them.
LEMMA Planes ==
    IsFiniteSet(DP) /\ Cardinality(DP) = NumDP /\ NumDP \in Nat /\ MaxInflight \in Nat
  <1>1. NumDP \in Nat \ {0} /\ MaxInflight \in Nat
    BY SizesAssumption
  <1>2. 0 \in Int /\ NumDP - 1 \in Int /\ (IF 0 > NumDP - 1 THEN 0 ELSE NumDP - 1 - 0 + 1) = NumDP
    BY <1>1
  <1> QED
    BY <1>1, <1>2, FS_Interval, Zenon DEF DP

\* The sums and the sets of the invariant are finite.
GapTypes ==
    /\ Shown \in [DP -> Nat]
    /\ SumFunctionOnSet(Shown, DP) \in Nat
    /\ IsFiniteSet(Unwritten) /\ Cardinality(Unwritten) \in Nat
    /\ \A v \in Int : IsFiniteSet(Below(v)) /\ Cardinality(Below(v)) \in Nat
    /\ \A p \in DP : IsFiniteSet(Ahead(read[p].at)) /\ Estimate(p) \in Nat

\* ... in every well-typed state,
LEMMA GapType == TypeInv => GapTypes
  <1> SUFFICES ASSUME TypeInv PROVE GapTypes
    OBVIOUS
  <1>1. Shown \in [DP -> Nat]
    <2>1. ASSUME NEW p \in DP
          PROVE  slot[p].body.inflight \in Nat /\ mine[p].inflight \in Nat
      BY Places DEF TypeInv, TypeOK, Body, Count
    <2> QED
      BY <2>1 DEF Shown
  <1>2. ASSUME NEW S \in SUBSET DP PROVE IsFiniteSet(S) /\ Cardinality(S) \in Nat
    BY Planes, FS_Subset, FS_CardinalityType
  <1>3. ASSUME NEW S \in SUBSET DP PROVE SumFunctionOnSet(Shown, S) \in Nat
    <2>1. IsFiniteSet(S) /\ \A p \in S : Shown[p] \in Nat
      BY <1>1, <1>2
    <2> QED
      BY <2>1, SumIsUnits
  <1>4. Unwritten \subseteq DP
    BY DEF Unwritten, TypeInv, TypeOK
  <1>5. \A v : Below(v) \subseteq DP
    BY DEF Below
  <1>6. \A p \in DP : Ahead(read[p].at) \subseteq DP /\ total[p] \in Nat
    BY DEF Ahead, TypeInv, TypeOK
  <1>7. \A p \in DP : Estimate(p) \in Nat
    BY <1>3, <1>6 DEF Estimate
  <1> QED
    BY <1>1, <1>2, <1>3, <1>4, <1>5, <1>6, <1>7 DEF GapTypes

\* ... and so after every step.
LEMMA GapTypeNext == TypeInv' => GapTypes'
  BY GapType, PTL

\* A slot shows no more than before, and no request is admitted.
Lowers(j) ==
    /\ \A i \in DP \ {j} : Shown'[i] = Shown[i]
    /\ Shown'[j] <= Shown[j]
    /\ Unwritten' \subseteq Unwritten
    /\ \A p \in DP : pc'[p] = "sum" =>
           pc[p] = "sum" /\ total'[p] = total[p] /\ read'[p].at = read[p].at

\* A sum under way may then find less, by as much as the slots show less:
\* the invariant for the higher bound gives it for this one.
LEMMA LowersGap ==
    ASSUME TypeInv, TypeInv', Gap, NEW j \in DP, Lowers(j)
    PROVE  Gap'
  <1> DEFINE f == Shown
             g == Shown'
             d == Shown[j] - Shown'[j]
  <1>1. f \in [DP -> Nat] /\ g \in [DP -> Nat]
    BY GapType, GapTypeNext DEF GapTypes
  <1>2. f[j] \in Nat /\ g[j] \in Nat /\ d \in Nat /\ d = f[j] - g[j]
    BY <1>1 DEF Lowers
  <1>3. \A i \in DP \ {j} : g[i] = f[i]
    BY DEF Lowers
  <1> HIDE DEF f, g, d
  <1> SUFFICES ASSUME NEW v \in Nat, v >= MaxInflight PROVE Room(v)'
    BY Planes DEF Gap
  <1>4. v + d \in Nat /\ v + d >= MaxInflight
    BY <1>2, Planes
  <1>5. Room(v + d)
    BY <1>4 DEF Gap
  <1>6. SumFunctionOnSet(g, DP) + d = SumFunctionOnSet(f, DP)
    <2>1. /\ SumFunctionOnSet(f, DP) \in Nat /\ SumFunctionOnSet(g, DP) \in Nat
          /\ SumFunctionOnSet(g, DP) + f[j] = SumFunctionOnSet(f, DP) + g[j]
      BY <1>1, <1>3, Planes, SumChange
    <2> QED
      BY <1>2, <2>1
  <1>7. Below(v)' \subseteq Below(v + d)
    <2> SUFFICES ASSUME NEW p \in DP, pc'[p] = "sum", Estimate(p)' < v
                 PROVE  pc[p] = "sum" /\ Estimate(p) < v + d
      BY DEF Below
    <2> DEFINE A == Ahead(read[p].at)
    <2>1. pc[p] = "sum" /\ total'[p] = total[p] /\ read'[p].at = read[p].at
      BY DEF Lowers
    <2>2. IsFiniteSet(A) /\ A \subseteq DP
      BY GapType DEF GapTypes, Ahead
    <2>3. Estimate(p) = total[p] + SumFunctionOnSet(f, A)
      BY DEF Estimate, f
    <2>4. Estimate(p)' = total[p] + SumFunctionOnSet(g, A)
      BY <2>1 DEF Estimate, g, Ahead
    <2> HIDE DEF A
    <2>5. /\ SumFunctionOnSet(f, A) \in Nat /\ SumFunctionOnSet(g, A) \in Nat
          /\ j \in A => SumFunctionOnSet(g, A) + f[j] = SumFunctionOnSet(f, A) + g[j]
          /\ j \notin A => SumFunctionOnSet(g, A) = SumFunctionOnSet(f, A)
      BY <1>1, <1>3, <2>2, SumChange
    <2>6. total[p] \in Nat
      BY DEF TypeInv, TypeOK
    <2>7. SumFunctionOnSet(f, A) <= SumFunctionOnSet(g, A) + d
      BY <1>2, <2>5
    <2> QED
      BY <1>2, <2>1, <2>3, <2>4, <2>5, <2>6, <2>7
  <1>8. /\ Cardinality(Below(v)') <= Cardinality(Below(v + d))
        /\ Cardinality(Unwritten') <= Cardinality(Unwritten)
    BY <1>4, <1>7, GapType, FS_Subset DEF Lowers, GapTypes
  <1>9. /\ Cardinality(Below(v)') \in Nat /\ Cardinality(Below(v + d)) \in Nat
        /\ Cardinality(Unwritten') \in Nat /\ Cardinality(Unwritten) \in Nat
        /\ SumFunctionOnSet(g, DP) \in Nat /\ SumFunctionOnSet(f, DP) \in Nat
    BY <1>4, GapType, GapTypeNext DEF f, g, GapTypes
  <1>10. SumFunctionOnSet(f, DP) + Cardinality(Unwritten) + Cardinality(Below(v + d))
           <= v + d + NumDP - 1
    BY <1>5 DEF Room, f
  <1>11. SumFunctionOnSet(g, DP) + Cardinality(Unwritten') + Cardinality(Below(v)')
           <= v + NumDP - 1
    BY <1>2, <1>6, <1>8, <1>9, <1>10, Planes
  <1> QED
    BY <1>11 DEF Room, g

\* What a sum comes to depends on what the slots ahead of it show only.
LEMMA SameEstimate ==
    ASSUME NEW p \in DP, Shown' = Shown, total'[p] = total[p], read'[p].at = read[p].at
    PROVE  Estimate(p)' = Estimate(p)
  BY DEF Estimate, Ahead

\* Sums go on, to the same end.
Continues ==
    /\ Shown' = Shown
    /\ Unwritten' \subseteq Unwritten
    /\ \A p \in DP : pc'[p] = "sum" => pc[p] = "sum" /\ Estimate(p)' = Estimate(p)

\* Nothing the invariant counts changes.
LEMMA ContinuesGap ==
    ASSUME TypeInv, TypeInv', Gap, Continues
    PROVE  Gap'
  <1> SUFFICES ASSUME NEW v \in Nat, v >= MaxInflight PROVE Room(v)'
    BY Planes DEF Gap
  <1>1. Room(v)
    BY DEF Gap
  <1>2. Below(v)' \subseteq Below(v)
    BY DEF Below, Continues
  <1>3. /\ Cardinality(Below(v)') <= Cardinality(Below(v))
        /\ Cardinality(Unwritten') <= Cardinality(Unwritten)
    BY <1>2, GapType, FS_Subset DEF Continues, GapTypes
  <1>4. /\ Cardinality(Below(v)') \in Nat /\ Cardinality(Below(v)) \in Nat
        /\ Cardinality(Unwritten') \in Nat /\ Cardinality(Unwritten) \in Nat
        /\ SumFunctionOnSet(Shown, DP) \in Nat
    BY GapType, GapTypeNext DEF GapTypes
  <1>5. SumFunctionOnSet(Shown, DP)' = SumFunctionOnSet(Shown, DP)
    BY DEF Continues
  <1> QED
    BY <1>1, <1>3, <1>4, <1>5, Planes DEF Room

\* A slot comes to show an admitted request.
Raises(j) ==
    /\ j \in Unwritten
    /\ \A i \in DP \ {j} : Shown'[i] = Shown[i]
    /\ Shown'[j] = Shown[j] + 1
    /\ Unwritten' \subseteq Unwritten \ {j}
    /\ \A p \in DP : pc'[p] = "sum" =>
           pc[p] = "sum" /\ total'[p] = total[p] /\ read'[p].at = read[p].at

\* What the slots show grows by the request that was unwritten, and no sum
\* finds less.
LEMMA RaisesGap ==
    ASSUME TypeInv, TypeInv', Gap, NEW j \in DP, Raises(j)
    PROVE  Gap'
  <1> DEFINE f == Shown
             g == Shown'
  <1>1. f \in [DP -> Nat] /\ g \in [DP -> Nat]
    BY GapType, GapTypeNext DEF GapTypes
  <1>2. f[j] \in Nat /\ g[j] \in Nat /\ g[j] = f[j] + 1
    BY <1>1 DEF Raises
  <1>3. \A i \in DP \ {j} : g[i] = f[i]
    BY DEF Raises
  <1> HIDE DEF f, g
  <1> SUFFICES ASSUME NEW v \in Nat, v >= MaxInflight PROVE Room(v)'
    BY Planes DEF Gap
  <1>4. SumFunctionOnSet(g, DP) = SumFunctionOnSet(f, DP) + 1
    <2>1. /\ SumFunctionOnSet(f, DP) \in Nat /\ SumFunctionOnSet(g, DP) \in Nat
          /\ SumFunctionOnSet(g, DP) + f[j] = SumFunctionOnSet(f, DP) + g[j]
      BY <1>1, <1>2, <1>3, Planes, SumChange
    <2> QED
      BY <1>2, <2>1
  <1>5. Below(v)' \subseteq Below(v)
    <2> SUFFICES ASSUME NEW p \in DP, pc'[p] = "sum", Estimate(p)' < v
                 PROVE  pc[p] = "sum" /\ Estimate(p) < v
      BY DEF Below
    <2> DEFINE A == Ahead(read[p].at)
    <2>1. pc[p] = "sum" /\ total'[p] = total[p] /\ read'[p].at = read[p].at
      BY DEF Raises
    <2>2. IsFiniteSet(A) /\ A \subseteq DP
      BY GapType DEF GapTypes, Ahead
    <2>3. Estimate(p) = total[p] + SumFunctionOnSet(f, A)
      BY DEF Estimate, f
    <2>4. Estimate(p)' = total[p] + SumFunctionOnSet(g, A)
      BY <2>1 DEF Estimate, g, Ahead
    <2> HIDE DEF A
    <2>5. /\ SumFunctionOnSet(f, A) \in Nat /\ SumFunctionOnSet(g, A) \in Nat
          /\ j \in A => SumFunctionOnSet(g, A) + f[j] = SumFunctionOnSet(f, A) + g[j]
          /\ j \notin A => SumFunctionOnSet(g, A) = SumFunctionOnSet(f, A)
      BY <1>1, <1>2, <1>3, <2>2, SumChange
    <2>6. total[p] \in Nat
      BY DEF TypeInv, TypeOK
    <2>7. SumFunctionOnSet(f, A) <= SumFunctionOnSet(g, A)
      BY <1>2, <2>5
    <2> QED
      BY <2>1, <2>3, <2>4, <2>5, <2>6, <2>7
  <1>6. Cardinality(Unwritten') <= Cardinality(Unwritten) - 1
    <2>1. /\ IsFiniteSet(Unwritten \ {j})
          /\ Cardinality(Unwritten \ {j}) = Cardinality(Unwritten) - 1
      <3>1. IsFiniteSet(Unwritten) /\ j \in Unwritten
        BY GapType DEF Raises, GapTypes
      <3> QED
        BY <3>1, FS_RemoveElement
    <2> QED
      BY <2>1, FS_Subset DEF Raises
  <1>7. Cardinality(Below(v)') <= Cardinality(Below(v))
    BY <1>5, GapType, FS_Subset DEF GapTypes
  <1>8. /\ Cardinality(Below(v)') \in Nat /\ Cardinality(Below(v)) \in Nat
        /\ Cardinality(Unwritten') \in Nat /\ Cardinality(Unwritten) \in Nat
        /\ SumFunctionOnSet(g, DP) \in Nat /\ SumFunctionOnSet(f, DP) \in Nat
    BY GapType, GapTypeNext DEF f, g, GapTypes
  <1>9. SumFunctionOnSet(f, DP) + Cardinality(Unwritten) + Cardinality(Below(v))
          <= v + NumDP - 1
    BY DEF Gap, Room, f
  <1>10. SumFunctionOnSet(g, DP) + Cardinality(Unwritten') + Cardinality(Below(v)')
           <= v + NumDP - 1
    BY <1>4, <1>6, <1>7, <1>8, <1>9, Planes
  <1> QED
    BY <1>10 DEF Room, g

\* A sum that found less than the bound admits.
Admits(j) ==
    /\ Shown' = Shown
    /\ pc[j] = "sum" /\ Estimate(j) < MaxInflight
    /\ Unwritten' \subseteq Unwritten \cup {j}
    /\ \A p \in DP : pc'[p] = "sum" =>
           /\ p # j /\ pc[p] = "sum"
           /\ total'[p] = total[p] /\ read'[p].at = read[p].at

\* The sum is no longer one below the bound, the data plane one with an
\* unwritten request.
LEMMA AdmitsGap ==
    ASSUME TypeInv, TypeInv', Gap, NEW j \in DP, Admits(j)
    PROVE  Gap'
  <1> SUFFICES ASSUME NEW v \in Nat, v >= MaxInflight PROVE Room(v)'
    BY Planes DEF Gap
  <1>1. Room(v)
    BY DEF Gap
  <1>2. \A p \in DP : Estimate(p) \in Nat
    BY GapType DEF GapTypes
  <1>3. j \in Below(v)
    BY <1>2, Planes DEF Admits, Below
  <1>4. Below(v)' \subseteq Below(v) \ {j}
    <2> SUFFICES ASSUME NEW p \in DP, pc'[p] = "sum", Estimate(p)' < v
                 PROVE  p # j /\ pc[p] = "sum" /\ Estimate(p) < v
      BY DEF Below
    <2> QED
      BY SameEstimate DEF Admits
  <1>5. Cardinality(Below(v)') <= Cardinality(Below(v)) - 1
    <2>1. /\ IsFiniteSet(Below(v) \ {j})
          /\ Cardinality(Below(v) \ {j}) = Cardinality(Below(v)) - 1
      <3>1. IsFiniteSet(Below(v))
        BY GapType DEF GapTypes
      <3> QED
        BY <1>3, <3>1, FS_RemoveElement
    <2> QED
      BY <1>4, <2>1, FS_Subset
  <1>6. Cardinality(Unwritten') <= Cardinality(Unwritten) + 1
    <2>1. IsFiniteSet(Unwritten) /\ Cardinality(Unwritten) \in Nat
      BY GapType DEF GapTypes
    <2>2. /\ IsFiniteSet(Unwritten \cup {j})
          /\ Cardinality(Unwritten \cup {j}) \in {Cardinality(Unwritten), Cardinality(Unwritten) + 1}
      BY <2>1, FS_AddElement
    <2>3. Cardinality(Unwritten') <= Cardinality(Unwritten \cup {j})
      BY <2>2, FS_Subset DEF Admits
    <2>4. Cardinality(Unwritten') \in Nat
      BY GapTypeNext DEF GapTypes
    <2> QED
      BY <2>1, <2>2, <2>3, <2>4
  <1>7. /\ Cardinality(Below(v)') \in Nat /\ Cardinality(Below(v)) \in Nat
        /\ Cardinality(Unwritten') \in Nat /\ Cardinality(Unwritten) \in Nat
        /\ SumFunctionOnSet(Shown, DP) \in Nat
    BY GapType, GapTypeNext DEF GapTypes
  <1>8. SumFunctionOnSet(Shown, DP)' = SumFunctionOnSet(Shown, DP)
    BY DEF Admits
  <1> QED
    BY <1>1, <1>5, <1>6, <1>7, <1>8, Planes DEF Room

\* A sum begins.
Starts(j) ==
    /\ Shown' = Shown
    /\ Estimate(j)' = SumFunctionOnSet(Shown, DP)
    /\ Unwritten' \subseteq Unwritten
    /\ \A p \in DP \ {j} : pc'[p] = "sum" =>
           pc[p] = "sum" /\ total'[p] = total[p] /\ read'[p].at = read[p].at

\* A sum that would find less than v leaves room for every data plane to
\* admit one request; one that would not does not count.
LEMMA StartsGap ==
    ASSUME TypeInv, TypeInv', Gap, NEW j \in DP, Starts(j)
    PROVE  Gap'
  <1> SUFFICES ASSUME NEW v \in Nat, v >= MaxInflight PROVE Room(v)'
    BY Planes DEF Gap
  <1> DEFINE s == SumFunctionOnSet(Shown, DP)
  <1>1. SumFunctionOnSet(Shown, DP)' = s
    BY DEF Starts
  <1>2. /\ Cardinality(Below(v)') \in Nat /\ Cardinality(Below(v)) \in Nat
        /\ Cardinality(Unwritten') \in Nat /\ Cardinality(Unwritten) \in Nat
        /\ IsFiniteSet(Unwritten') /\ IsFiniteSet(Below(v)') /\ s \in Nat
    BY GapType, GapTypeNext DEF GapTypes
  <1>3. CASE j \in Below(v)'
    <2>1. s < v
      BY <1>3 DEF Below, Starts
    <2>2. Cardinality(Unwritten') + Cardinality(Below(v)') <= NumDP
      <3>1. Unwritten' \cap Below(v)' = {} /\ Unwritten' \cup Below(v)' \subseteq DP
        BY DEF Unwritten, Below, TypeInv, TypeOK
      <3>2. Cardinality(Unwritten' \cap Below(v)') = 0
        BY <3>1, FS_EmptySet
      <3>3. Cardinality(Unwritten' \cup Below(v)')
              = Cardinality(Unwritten') + Cardinality(Below(v)')
                  - Cardinality(Unwritten' \cap Below(v)')
        BY <1>2, FS_Union
      <3>4. Cardinality(Unwritten' \cup Below(v)') <= Cardinality(DP)
        BY <3>1, Planes, FS_Subset
      <3> QED
        BY <1>2, <3>2, <3>3, <3>4, Planes
    <2> HIDE DEF s
    <2> QED
      BY <1>1, <1>2, <2>1, <2>2, Planes DEF Room
  <1>4. CASE j \notin Below(v)'
    <2>1. Below(v)' \subseteq Below(v)
      <3> SUFFICES ASSUME NEW p \in DP \ {j}, pc'[p] = "sum", Estimate(p)' < v
                   PROVE  pc[p] = "sum" /\ Estimate(p) < v
        BY <1>4 DEF Below
      <3> QED
        BY SameEstimate DEF Starts
    <2>2. /\ Cardinality(Below(v)') <= Cardinality(Below(v))
          /\ Cardinality(Unwritten') <= Cardinality(Unwritten)
      BY <2>1, GapType, FS_Subset DEF Starts, GapTypes
    <2>3. s + Cardinality(Unwritten) + Cardinality(Below(v)) <= v + NumDP - 1
      BY DEF Gap, Room
    <2> HIDE DEF s
    <2> QED
      BY <1>1, <1>2, <2>2, <2>3, Planes DEF Room
  <1> QED
    BY <1>3, <1>4

\* A slot shows what its owner counts, but for one admitted request that is
\* not written yet; a sum reads the slots of data planes.
AccountedAt(p) ==
    /\ pc[p] \in {"idle", "sum"} => mine[p].inflight = slot[p].body.inflight
    /\ pc[p] = "fields" => slot[p].body = Torn
    /\ pc[p] \in {"mark", "tear"} => mine[p].inflight <= Shown[p] + 1
    /\ pc[p] = "sum" => read[p].at \in DP

Accounted == \A p \in DP : AccountedAt(p)

\* What a reader has loaded is what the slot holds, until the slot moves on.
Exact == \A x \in Reader : Stable(x) => read[x].view = slot[read[x].at].body

BInv == IInv /\ Accounted /\ Exact /\ Gap

\* The slot of a data plane that is not writing shows its count.
LEMMA OwnShown ==
    ASSUME IInv, NEW p \in DP, pc[p] \in {"idle", "sum"}
    PROVE  slot[p].body # Torn /\ Shown[p] = slot[p].body.inflight
  <1>1. p \in up /\ p \in Slots
    BY Places DEF IInv, TypeInv, Lifecycle
  <1>2. ~Odd(p)
    BY <1>1 DEF IInv, NotFenced, Owner
  <1> QED
    BY <1>1, <1>2 DEF IInv, Marked, Shown

\* The requests in flight are those the slots show and the unwritten ones.
LEMMA BoundHolds == BInv => Overshoot
  <1> SUFFICES ASSUME BInv PROVE Overshoot
    OBVIOUS
  <1> DEFINE f == [p \in DP |-> mine[p].inflight]
  <1>1. TypeInv /\ up \subseteq DP /\ Unwritten \subseteq DP
    BY DEF BInv, IInv, TypeInv, TypeOK, Unwritten
  <1>2. \A p \in DP : Shown[p] \in Nat
    BY <1>1, GapType DEF GapTypes
  <1>3. ASSUME NEW p \in up
        PROVE  f[p] \in Nat /\ f[p] <= Shown[p] + 1 /\ (p \notin Unwritten => f[p] <= Shown[p])
    <2>1. p \in DP /\ f[p] = mine[p].inflight /\ f[p] \in Nat /\ Shown[p] \in Nat
      BY <1>1, <1>2 DEF TypeInv, TypeOK, Count
    <2>2. pc[p] \in {"idle", "sum", "mark", "tear", "fields"}
      BY <1>1, <2>1 DEF TypeInv, TypeOK, Lifecycle
    <2> HIDE DEF f
    <2>3. CASE pc[p] \in {"idle", "sum"}
      <3>1. f[p] = Shown[p]
        BY <2>1, <2>3, OwnShown DEF BInv, Accounted, AccountedAt
      <3> QED
        BY <2>1, <3>1
    <2>4. CASE pc[p] \in {"mark", "tear"}
      BY <2>1, <2>4 DEF BInv, Accounted, AccountedAt, Unwritten
    <2>5. CASE pc[p] = "fields"
      <3>1. f[p] = Shown[p]
        BY <2>1, <2>5 DEF BInv, Accounted, AccountedAt, Shown
      <3> QED
        BY <2>1, <3>1
    <2> QED
      BY <2>2, <2>3, <2>4, <2>5
  <1> HIDE DEF f
  <1>4. SumFunctionOnSet(f, up) <= SumFunctionOnSet(Shown, DP) + Cardinality(Unwritten)
    BY <1>1, <1>2, <1>3, Planes, SumExcess
  <1>5. SumFunctionOnSet(f, up) \in Nat
    <2>1. IsFiniteSet(up)
      BY <1>1, Planes, FS_Subset
    <2> QED
      BY <1>3, <2>1, SumIsUnits
  <1>6. Room(MaxInflight)
    BY Planes DEF BInv, Gap
  <1>7. /\ SumFunctionOnSet(Shown, DP) \in Nat /\ Cardinality(Unwritten) \in Nat
        /\ Cardinality(Below(MaxInflight)) \in Nat
    BY <1>1, GapType, Planes DEF GapTypes
  <1>8. SumFunctionOnSet(f, up) <= MaxInflight + NumDP - 1
    BY <1>4, <1>5, <1>6, <1>7, Planes DEF Room
  <1> QED
    BY <1>8 DEF Overshoot, f

\* A write changes the fields of a slot only while it is odd, or makes it even.
LEMMA ExactStep == ASSUME IInv, Exact, [Next]_vars PROVE Exact'
  <1> USE DEF IInv, TypeInv
  <1>1. ASSUME NEW i \in Slots, Written(i),
               slot'[i].body = slot[i].body \/ slot'[i].seq = slot[i].seq + 1 \/ Odd(i)
        PROVE  Exact'
    <2> SUFFICES ASSUME NEW x \in Reader, Stable(x)'
                 PROVE  read'[x].view = slot'[read'[x].at].body
      BY DEF Exact
    <2>1. read' = read /\ read[x].step = "again" /\ slot'[read[x].at].seq = read[x].before
      BY <1>1 DEF Written, Stable
    <2>2. CASE read[x].at # i
      <3>1. slot'[read[x].at] = slot[read[x].at]
        BY <1>1, <2>2 DEF Written, TypeOK
      <3> QED
        BY <2>1, <3>1 DEF Exact, Stable
    <2>3. CASE read[x].at = i
      <3>1. /\ read[x].before % 2 = 0 /\ read[x].before <= slot[i].seq
            /\ read[x].before \in Nat /\ slot[i].seq \in Nat
        BY <2>1, <2>3 DEF Reads, TypeOK
      <3>2. slot'[i].seq = slot[i].seq
        BY <1>1, <2>1, <2>3, <3>1 DEF Written
      <3>3. ~Odd(i)
        BY <2>1, <2>3, <3>1, <3>2 DEF Odd
      <3>4. slot'[i].body = slot[i].body
        BY <1>1, <3>1, <3>2, <3>3
      <3>5. Stable(x)
        BY <2>1, <2>3, <3>2 DEF Stable
      <3> QED
        BY <2>1, <2>3, <3>4, <3>5 DEF Exact
    <2> QED
      BY <2>2, <2>3
  <1>2. ASSUME NEW p \in DP, WriteOwn(p) PROVE Exact'
    <2>1. p \in Slots /\ p \in up /\ Written(p)
      BY <1>2, WriteSteps, Places DEF WriteOwn, TypeOK, Lifecycle
    <2>2. Fields(mine[p], generation[p]) \in Body
      <3>1. mine[p] \in Count /\ generation[p] \in Nat
        BY DEF TypeOK
      <3> QED
        BY <3>1, Bodies
    <2>3. pc[p] = "tear" => Odd(p)
      BY <2>1 DEF Marked
    <2>4. slot'[p].body = slot[p].body \/ slot'[p].seq = slot[p].seq + 1 \/ Odd(p)
      <3>1. CASE pc[p] = "mark" /\ Mark(p)
        BY <2>1, <2>2, <3>1, StoreEffect
      <3>2. CASE pc[p] = "tear"
        BY <2>3, <3>2
      <3>3. CASE Store(p, Fields(mine[p], generation[p]))
        <4>1. slot'[p] = [seq |-> slot[p].seq + 1, body |-> Fields(mine[p], generation[p])]
          BY <2>1, <2>2, <3>3, StoreEffect
        <4> QED
          BY <4>1
      <3> QED
        BY <1>2, <3>1, <3>2, <3>3 DEF WriteOwn
    <2> QED
      BY <1>1, <2>1, <2>4
  <1>3. CASE FoldRetired \/ FoldEnd
    <2>1. Retired \in Slots /\ Written(Retired)
      BY <1>3, WriteSteps, Places
    <2>2. sup.place \in {"fold_tear", "fold_fields"} => Odd(Retired)
      BY DEF Marked, Folding
    <2>3. \/ slot'[Retired].body = slot[Retired].body
          \/ slot'[Retired].seq = slot[Retired].seq + 1
          \/ Odd(Retired)
      <3>1. CASE sup.place = "fold_mark" /\ Mark(Retired)
        BY <2>1, <3>1, StoreEffect, Bodies
      <3>2. CASE sup.place \in {"fold_tear", "fold_fields"}
        BY <2>2, <3>2
      <3>3. CASE EndWrite(Retired)
        <4>1. slot'[Retired] = [seq |-> slot[Retired].seq + 1, body |-> slot[Retired].body]
          BY <2>1, <3>3, StoreEffect, Bodies
        <4> QED
          BY <4>1
      <3> QED
        BY <1>3, <3>1, <3>2, <3>3 DEF FoldRetired, FoldEnd
    <2> QED
      BY <1>1, <2>1, <2>3
  <1>4. CASE Reclaim
    <2> DEFINE i == sup.i
    <2>1. i \in Slots /\ Written(i)
      BY <1>4, WriteSteps, Places DEF TypeOK
    <2>2. sup.place = "tear" => Odd(i)
      BY DEF Marked
    <2>3. \/ slot'[i].body = slot[i].body
          \/ slot'[i].seq = slot[i].seq + 1
          \/ Odd(i)
      <3>1. CASE sup.place = "mark" /\ Mark(i)
        BY <2>1, <3>1, StoreEffect, Bodies
      <3>2. CASE sup.place = "tear"
        BY <2>2, <3>2
      <3>3. CASE Store(i, Cleared)
        <4>1. slot'[i] = [seq |-> slot[i].seq + 1, body |-> Cleared]
          BY <2>1, <3>3, StoreEffect, Bodies
        <4> QED
          BY <4>1
      <3> QED
        BY <1>4, <3>1, <3>2, <3>3 DEF Reclaim
    <2> HIDE DEF i
    <2> QED
      BY <1>1, <2>1, <2>3
  <1>5. CASE Quiet
    <2>1. slot' = slot
      BY <1>5 DEF Quiet
    <2>2. ASSUME NEW x \in Reader, ReadSeq(x) PROVE Exact'
      <3>1. /\ \A y \in Reader \ {x} : read'[y] = read[y]
            /\ read'[x].step = "load"
        BY <2>2 DEF ReadSeq, TypeOK
      <3> QED
        BY <2>1, <3>1 DEF Exact, Stable
    <2>3. ASSUME NEW x \in Reader, ReadFields(x) PROVE Exact'
      <3>1. /\ \A y \in Reader \ {x} : read'[y] = read[y]
            /\ read'[x].at = read[x].at /\ read'[x].view = slot[read[x].at].body
        BY <2>3 DEF ReadFields, TypeOK
      <3> QED
        BY <2>1, <3>1 DEF Exact, Stable
    <2>4. ASSUME NEW x \in Reader, read'[x].step \in {"none", "seq"},
                 \A y \in Reader \ {x} : read'[y] = read[y]
          PROVE  Exact'
      BY <2>1, <2>4 DEF Exact, Stable
    <2>5. CASE \E x \in Reader, i \in Slots : \/ read' = [read EXCEPT ![x] = Reading(i)]
                                              \/ read' = [read EXCEPT ![x] = NotReading]
      <3>1. PICK x \in Reader, i \in Slots : \/ read' = [read EXCEPT ![x] = Reading(i)]
                                            \/ read' = [read EXCEPT ![x] = NotReading]
        BY <2>5, Zenon
      <3>2. Reading(i).step \in {"none", "seq"} /\ NotReading.step \in {"none", "seq"}
        BY DEF Reading, NotReading
      <3>3. DOMAIN read = Reader
        BY DEF TypeOK
      <3>4. read'[x].step \in {"none", "seq"} /\ \A y \in Reader \ {x} : read'[y] = read[y]
        <4> HIDE DEF IInv, TypeInv
        <4> QED
          BY <3>1, <3>2, <3>3, Zenon
      <3> QED
        BY <2>4, <3>4, Zenon
    <2>6. CASE read' = read
      BY <2>1, <2>6 DEF Exact, Stable
    <2>7. CASE read' = [x \in Reader |-> NotReading]
      BY <2>7 DEF Exact, Stable, NotReading
    <2> QED
      BY <2>2, <2>3, <2>5, <2>6, <2>7, ReadSteps
  <1> QED
    BY <1>2, <1>3, <1>4, <1>5, StoreSteps

\* A data plane a step does not touch.
Kept(q) ==
    /\ pc'[q] = pc[q] /\ mine'[q].inflight = mine[q].inflight
    /\ slot'[q].body = slot[q].body /\ (q \in up' <=> q \in up)
    /\ total'[q] = total[q] /\ read'[q].at = read[q].at

\* It stays accounted for as it was.
LEMMA KeptHolds ==
    ASSUME NEW q \in DP, Kept(q)
    PROVE  /\ Shown'[q] = Shown[q]
           /\ q \in Unwritten' <=> q \in Unwritten
           /\ AccountedAt(q) => AccountedAt(q)'
  <1>1. Shown'[q] = Shown[q]
    BY DEF Kept, Shown
  <1>2. q \in Unwritten' <=> q \in Unwritten
    BY <1>1 DEF Kept, Unwritten
  <1>3. AccountedAt(q) => AccountedAt(q)'
    BY <1>1 DEF Kept, AccountedAt
  <1> QED
    BY <1>1, <1>2, <1>3

\* A step of one data plane, or on its slot.
LEMMA OneLowers ==
    ASSUME TypeInv, TypeInv', Accounted, NEW j \in DP,
           \A q \in DP \ {j} : Kept(q),
           AccountedAt(j)', Shown'[j] <= Shown[j], j \in Unwritten' => j \in Unwritten,
           pc'[j] = "sum" => pc[j] = "sum" /\ total'[j] = total[j] /\ read'[j].at = read[j].at
    PROVE  Accounted' /\ Lowers(j)
  <1>1. \A q \in DP \ {j} : /\ Shown'[q] = Shown[q]
                            /\ q \in Unwritten' <=> q \in Unwritten
                            /\ AccountedAt(q)'
    BY KeptHolds DEF Accounted
  <1>2. Unwritten' \subseteq DP
    BY DEF Unwritten, TypeInv, TypeOK
  <1>3. Accounted'
    BY <1>1 DEF Accounted
  <1> QED
    BY <1>1, <1>2, <1>3 DEF Lowers, Kept

\* A step that touches none.
LEMMA NoneLowers ==
    ASSUME TypeInv, TypeInv', Accounted, Gap, \A q \in DP : Kept(q)
    PROVE  Accounted' /\ Gap'
  <1>1. 0 \in DP
    BY Places
  <1>2. Shown[0] \in Nat
    BY <1>1, GapType DEF GapTypes
  <1>3. /\ Shown'[0] <= Shown[0] /\ AccountedAt(0)' /\ (0 \in Unwritten' => 0 \in Unwritten)
        /\ pc'[0] = "sum" => pc[0] = "sum" /\ total'[0] = total[0] /\ read'[0].at = read[0].at
    BY <1>1, <1>2, KeptHolds DEF Accounted, Kept
  <1>4. Accounted' /\ Lowers(0)
    BY <1>1, <1>3, OneLowers
  <1> QED
    BY <1>1, <1>4, LowersGap

\* A data plane goes from counting to writing, with no request more.
Leaves(p) ==
    /\ pc[p] \in {"idle", "sum"} /\ pc' = [pc EXCEPT ![p] = "mark"]
    /\ UNCHANGED <<slot, up>>
    /\ mine'[p].inflight <= mine[p].inflight
    /\ \A q \in DP \ {p} : mine'[q] = mine[q] /\ total'[q] = total[q] /\ read'[q] = read[q]

\* Its slot shows what it counted, so that nothing is unwritten.
LEMMA LeavesKeeps ==
    ASSUME BInv, TypeInv', NEW p \in DP, Leaves(p)
    PROVE  Accounted' /\ Gap'
  <1>1. IInv /\ TypeInv /\ Accounted /\ Gap
    BY DEF BInv, IInv
  <1>2. slot[p].body # Torn /\ Shown[p] = slot[p].body.inflight
    BY <1>1, OwnShown DEF Leaves
  <1>3. mine[p].inflight = Shown[p] /\ pc'[p] = "mark"
    BY <1>1, <1>2 DEF Accounted, AccountedAt, Leaves, TypeInv, TypeOK
  <1>4. Shown'[p] = Shown[p]
    BY <1>2 DEF Shown, Leaves
  <1>5. Shown[p] \in Nat /\ mine'[p].inflight \in Nat
    BY <1>1, GapType DEF GapTypes, TypeInv, TypeOK, Count
  <1>6. mine'[p].inflight <= Shown'[p]
    BY <1>3, <1>4 DEF Leaves
  <1>7. /\ AccountedAt(p)' /\ Shown'[p] <= Shown[p] /\ p \notin Unwritten'
        /\ pc'[p] # "sum"
    BY <1>3, <1>4, <1>5, <1>6 DEF AccountedAt, Unwritten
  <1>8. \A q \in DP \ {p} : Kept(q)
    BY <1>1 DEF Leaves, Kept, TypeInv, TypeOK
  <1>9. Accounted' /\ Lowers(p)
    BY <1>1, <1>7, <1>8, OneLowers
  <1> QED
    BY <1>1, <1>9, LowersGap

\* release, touch and the rejections.
LEMMA RejectKeeps ==
    ASSUME BInv, TypeInv', NEW p \in DP,
           \/ ShedFromCache(p) \/ SumFails(p) \/ Release(p) \/ Touch(p)
           \/ Decide(p) /\ Full(SumWith(p))
    PROVE  Accounted' /\ Gap'
  <1>1. TypeOK
    BY DEF BInv, IInv, TypeInv
  <1>2. /\ pc[p] \in {"idle", "sum"} /\ pc' = [pc EXCEPT ![p] = "mark"]
        /\ UNCHANGED <<slot, up>>
    BY DEF ShedFromCache, SumFails, Release, Touch, Decide, Ready, Sums, children
  <1>3. mine' \in {mine, [mine EXCEPT ![p].inflight = @ - 1], [mine EXCEPT ![p].rejected = @ + 1]}
    BY DEF ShedFromCache, SumFails, Release, Touch, Decide, Rejected
  <1>4. mine[p] \in Count /\ mine \in [DP -> Count]
    BY <1>1 DEF TypeOK
  <1>5. mine'[p].inflight <= mine[p].inflight /\ \A q \in DP \ {p} : mine'[q] = mine[q]
    BY <1>3, <1>4 DEF Count
  <1>6. \A q \in DP \ {p} : total'[q] = total[q] /\ read'[q] = read[q]
    BY <1>1, Places DEF ShedFromCache, SumFails, Release, Touch, Decide, TypeOK
  <1>7. Leaves(p)
    BY <1>2, <1>5, <1>6 DEF Leaves
  <1> QED
    BY <1>7, LeavesKeeps

\* try_acquire begins to sum.
LEMMA AcquireKeeps ==
    ASSUME BInv, TypeInv', NEW p \in DP, TryAcquire(p)
    PROVE  Accounted' /\ Gap'
  <1>1. IInv /\ TypeInv /\ TypeOK /\ Accounted /\ Gap
    BY DEF BInv, IInv, TypeInv
  <1>2. /\ pc[p] = "idle" /\ pc' = [pc EXCEPT ![p] = "sum"] /\ UNCHANGED <<slot, up, mine>>
        /\ total' = [total EXCEPT ![p] = 0] /\ read' = [read EXCEPT ![p] = Reading(0)]
    BY DEF TryAcquire, Ready, children
  <1>3. pc'[p] = "sum" /\ total'[p] = 0 /\ read'[p].at = 0
    BY <1>1, <1>2, Places DEF TypeOK, Reading
  <1>4. \A q \in DP \ {p} : Kept(q)
    BY <1>1, <1>2, Places DEF Kept, TypeOK
  <1>5. Shown' = Shown
    BY <1>2 DEF Shown
  <1>6. AccountedAt(p)'
    BY <1>1, <1>2, <1>3, Places DEF Accounted, AccountedAt
  <1>7. Accounted'
    BY <1>1, <1>4, <1>6, KeptHolds DEF Accounted
  <1>8. Unwritten' \subseteq Unwritten
    <2>1. p \notin Unwritten' /\ Unwritten' \subseteq DP
      BY <1>3 DEF Unwritten, TypeInv, TypeOK
    <2> QED
      BY <1>4, <2>1, KeptHolds
  <1>9. Estimate(p)' = SumFunctionOnSet(Shown, DP)
    <2>1. Ahead(0) = DP
      BY SizesAssumption DEF Ahead, DP
    <2>2. Estimate(p)' = 0 + SumFunctionOnSet(Shown, DP)
      BY <1>3, <1>5, <2>1 DEF Estimate, Ahead
    <2>3. SumFunctionOnSet(Shown, DP) \in Nat
      BY <1>1, GapType DEF GapTypes
    <2> QED
      BY <2>2, <2>3
  <1>10. Starts(p)
    BY <1>4, <1>5, <1>8, <1>9 DEF Starts, Kept
  <1> QED
    BY <1>1, <1>7, <1>10, StartsGap

\* The slot a sum has read adds what it shows.
LEMMA SumWithShown ==
    ASSUME BInv, NEW p \in DP, Sums(p)
    PROVE  /\ read[p].at \in DP /\ SumWith(p) = total[p] + Shown[read[p].at]
           /\ Estimate(p) = SumWith(p) + SumFunctionOnSet(Shown, Ahead(read[p].at + 1))
  <1> DEFINE i == read[p].at
  <1>1. IInv /\ TypeInv /\ TypeOK /\ pc[p] = "sum"
    BY DEF BInv, IInv, TypeInv, Sums
  <1>2. i \in DP
    BY <1>1 DEF BInv, Accounted, AccountedAt
  <1>3. SumWith(p) = total[p] + Shown[i]
    <2>1. CASE i = p
      BY <1>1, <2>1, OwnShown DEF SumWith
    <2>2. CASE i # p
      <3>1. Stable(p) /\ p \in Reader
        BY <2>2, Places DEF Sums
      <3>2. read[p].view = slot[i].body
        BY <3>1 DEF BInv, Exact
      <3>3. read[p].view # Torn
        BY <3>1 DEF BInv, IInv, Reads, Stable
      <3> QED
        BY <1>2, <2>2, <3>2, <3>3 DEF SumWith, Shown
    <2> QED
      BY <2>1, <2>2
  <1>4. Ahead(i) \ {i} = Ahead(i + 1) /\ i \in Ahead(i)
    BY <1>2 DEF Ahead, DP
  <1>5. IsFiniteSet(Ahead(i)) /\ \A q \in Ahead(i) : Shown[q] \in Nat
    BY <1>1, GapType DEF GapTypes, Ahead
  <1>6. SumFunctionOnSet(Shown, Ahead(i)) = Shown[i] + SumFunctionOnSet(Shown, Ahead(i + 1))
    BY <1>4, <1>5, SumRemove
  <1>7. SumFunctionOnSet(Shown, Ahead(i + 1)) \in Nat
    <2>1. IsFiniteSet(Ahead(i + 1)) /\ \A q \in Ahead(i + 1) : Shown[q] \in Nat
      BY <1>4, <1>5, FS_Subset
    <2> QED
      BY <2>1, SumIsUnits
  <1>8. total[p] \in Nat /\ Shown[i] \in Nat
    BY <1>1, <1>4, <1>5 DEF TypeOK
  <1>9. Estimate(p) = total[p] + SumFunctionOnSet(Shown, Ahead(i))
    BY DEF Estimate
  <1> HIDE DEF i
  <1>10. Estimate(p) = SumWith(p) + SumFunctionOnSet(Shown, Ahead(i + 1))
    BY <1>3, <1>6, <1>7, <1>8, <1>9
  <1> QED
    BY <1>2, <1>3, <1>10 DEF i

\* The sum goes on.
LEMMA SumKeeps ==
    ASSUME BInv, TypeInv', NEW p \in DP, SumNext(p)
    PROVE  Accounted' /\ Gap'
  <1>1. IInv /\ TypeInv /\ TypeOK /\ Accounted /\ Gap
    BY DEF BInv, IInv, TypeInv
  <1>2. /\ Sums(p) /\ read[p].at < NumDP - 1 /\ UNCHANGED <<slot, up, mine, pc>>
        /\ total' = [total EXCEPT ![p] = SumWith(p)]
        /\ read' = [read EXCEPT ![p] = Reading(read[p].at + 1)]
    BY DEF SumNext, children
  <1>3. total'[p] = SumWith(p) /\ read'[p].at = read[p].at + 1
    BY <1>1, <1>2, Places DEF TypeOK, Reading
  <1>4. \A q \in DP \ {p} : Kept(q)
    BY <1>1, <1>2, Places DEF Kept, TypeOK
  <1>5. Shown' = Shown
    BY <1>2 DEF Shown
  <1>6. read[p].at \in DP /\ read'[p].at \in DP
    BY <1>2, <1>3, SumWithShown, Places
  <1>7. AccountedAt(p)'
    BY <1>1, <1>2, <1>5, <1>6 DEF Accounted, AccountedAt
  <1>8. Accounted'
    BY <1>1, <1>4, <1>7, KeptHolds DEF Accounted
  <1>9. Unwritten' = Unwritten
    BY <1>2, <1>5 DEF Unwritten
  <1>10. Estimate(p)' = Estimate(p)
    <2>1. Estimate(p)' = SumWith(p) + SumFunctionOnSet(Shown, Ahead(read[p].at + 1))
      BY <1>3, <1>5 DEF Estimate, Ahead
    <2> QED
      BY <1>2, <2>1, SumWithShown
  <1>11. \A q \in DP \ {p} : Estimate(q)' = Estimate(q)
    BY <1>4, <1>5, SameEstimate DEF Kept
  <1>12. Continues
    BY <1>2, <1>5, <1>9, <1>10, <1>11 DEF Continues
  <1> QED
    BY <1>1, <1>8, <1>12, ContinuesGap

\* The sum is below the bound: one more request.
LEMMA AdmitKeeps ==
    ASSUME BInv, TypeInv', NEW p \in DP, Decide(p), ~Full(SumWith(p))
    PROVE  Accounted' /\ Gap'
  <1>1. IInv /\ TypeInv /\ TypeOK /\ Accounted /\ Gap
    BY DEF BInv, IInv, TypeInv
  <1>2. /\ Sums(p) /\ pc[p] = "sum" /\ read[p].at = NumDP - 1 /\ UNCHANGED <<slot, up>>
        /\ mine' = [mine EXCEPT ![p].inflight = @ + 1]
        /\ pc' = [pc EXCEPT ![p] = "mark"]
        /\ total' = [total EXCEPT ![p] = 0] /\ read' = [read EXCEPT ![p] = NotReading]
    BY DEF Decide, Sums, children
  <1>3. pc'[p] = "mark"
    BY <1>1, <1>2 DEF TypeOK
  <1>4. mine[p].inflight \in Nat /\ mine'[p].inflight = mine[p].inflight + 1
    BY <1>1, <1>2 DEF TypeOK, Count
  <1>5. \A q \in DP \ {p} : Kept(q)
    BY <1>1, <1>2, Places DEF Kept, TypeOK
  <1>6. slot[p].body # Torn /\ Shown[p] = slot[p].body.inflight
    BY <1>1, <1>2, OwnShown
  <1>7. mine[p].inflight = Shown[p]
    BY <1>1, <1>2, <1>6 DEF Accounted, AccountedAt
  <1>8. Shown' = Shown
    <2>1. \A q \in DP : Shown'[q] = Shown[q]
      <3>1. Shown'[p] = Shown[p]
        BY <1>2, <1>6 DEF Shown
      <3> QED
        BY <1>5, <3>1, KeptHolds
    <2>2. Shown \in [DP -> Nat] /\ Shown' \in [DP -> Nat]
      BY <1>1, GapType, GapTypeNext DEF GapTypes
    <2> QED
      BY <2>1, <2>2
  <1>9. AccountedAt(p)'
    BY <1>3, <1>4, <1>7, <1>8 DEF AccountedAt
  <1>10. Accounted'
    BY <1>1, <1>5, <1>9, KeptHolds DEF Accounted
  <1>11. Unwritten' \subseteq Unwritten \cup {p}
    <2>1. Unwritten' \subseteq DP
      BY DEF Unwritten, TypeInv, TypeOK
    <2> QED
      BY <1>5, <2>1, KeptHolds
  <1>12. Estimate(p) < MaxInflight
    <2>1. Ahead(read[p].at + 1) = {}
      BY <1>2, SizesAssumption DEF Ahead, DP
    <2>2. SumFunctionOnSet(Shown, Ahead(read[p].at + 1)) = 0
      BY <2>1, SumEmpty
    <2>3. SumWith(p) \in Nat /\ Estimate(p) = SumWith(p) + 0
      <3>1. total[p] \in Nat /\ read[p].at \in DP /\ SumWith(p) = total[p] + Shown[read[p].at]
        BY <1>1, <1>2, SumWithShown DEF TypeOK
      <3>2. Shown[read[p].at] \in Nat
        BY <1>1, <3>1, GapType DEF GapTypes
      <3> QED
        BY <1>2, <2>2, <3>1, <3>2, SumWithShown
    <2> QED
      BY <2>3, Planes DEF Full
  <1>13. Admits(p)
    BY <1>2, <1>3, <1>5, <1>8, <1>11, <1>12 DEF Admits, Kept
  <1> QED
    BY <1>1, <1>10, <1>13, AdmitsGap

\* A data plane writes its slot.
LEMMA WriteKeeps ==
    ASSUME BInv, TypeInv', NEW p \in DP, WriteOwn(p)
    PROVE  Accounted' /\ Gap'
  <1>1. IInv /\ TypeInv /\ TypeOK /\ Accounted /\ Gap
    BY DEF BInv, IInv, TypeInv
  <1>2. /\ pc[p] \in {"mark", "tear", "fields"} /\ p \in up /\ p \in Slots
        /\ UNCHANGED <<up, mine, total, read>> /\ Written(p)
    BY <1>1, WriteSteps, Places DEF WriteOwn, TypeInv, Lifecycle, children
  <1>3. \A q \in DP \ {p} : pc'[q] = pc[q] /\ slot'[q] = slot[q]
    BY <1>1, <1>2, Places DEF WriteOwn, Written, TypeOK
  <1>4. \A q \in DP \ {p} : Kept(q)
    BY <1>2, <1>3 DEF Kept
  <1>5. mine[p] \in Count /\ generation[p] \in Nat /\ mine[p].inflight \in Nat /\ Shown[p] \in Nat
    BY <1>1, GapType DEF TypeOK, Count, GapTypes
  <1>6. Fields(mine[p], generation[p]) \in Body /\ Fields(mine[p], generation[p]) # Torn
    BY <1>5, Bodies
  <1>7. CASE pc[p] = "mark"
    <2>1. Mark(p) /\ pc'[p] = "tear"
      BY <1>1, <1>7 DEF WriteOwn, TypeOK
    <2>2. slot'[p].body = slot[p].body
      BY <1>1, <1>2, <1>6, <2>1, StoreEffect
    <2>3. Shown'[p] = Shown[p]
      BY <1>2, <2>2 DEF Shown
    <2>4. AccountedAt(p)' /\ (p \in Unwritten' => p \in Unwritten)
      BY <1>1, <1>2, <1>7, <2>1, <2>3 DEF Accounted, AccountedAt, Unwritten
    <2>5. Accounted' /\ Lowers(p)
      BY <1>1, <1>4, <1>5, <2>1, <2>3, <2>4, OneLowers
    <2> QED
      BY <1>1, <2>5, LowersGap
  <1>8. CASE pc[p] = "tear"
    <2>1. Tear(p) /\ pc'[p] = "fields"
      BY <1>1, <1>8 DEF WriteOwn, TypeOK
    <2>2. slot'[p] = [seq |-> slot[p].seq, body |-> Torn]
      BY <1>1, <1>2, <1>6, <2>1, StoreEffect
    <2>3. slot'[p].body = Torn
      BY <2>2
    <2>4. Shown'[p] = mine[p].inflight
      BY <1>2, <2>3 DEF Shown
    <2>5. AccountedAt(p)' /\ p \notin Unwritten'
      BY <2>1, <2>3 DEF AccountedAt, Unwritten
    <2>6. CASE mine[p].inflight <= Shown[p]
      <3>1. Accounted' /\ Lowers(p)
        BY <1>1, <1>4, <2>1, <2>4, <2>5, <2>6, OneLowers
      <3> QED
        BY <1>1, <3>1, LowersGap
    <2>7. CASE Shown[p] < mine[p].inflight
      <3>1. mine[p].inflight <= Shown[p] + 1
        BY <1>1, <1>8 DEF Accounted, AccountedAt
      <3>2. Shown'[p] = Shown[p] + 1
        BY <1>5, <2>4, <2>7, <3>1
      <3>3. p \in Unwritten
        BY <1>2, <1>8, <2>7 DEF Unwritten
      <3>4. Unwritten' \subseteq DP
        BY DEF Unwritten, TypeInv, TypeOK
      <3>5. Unwritten' \subseteq Unwritten \ {p} /\ Accounted'
        BY <1>1, <1>4, <2>5, <3>4, KeptHolds DEF Accounted
      <3>6. Raises(p)
        BY <1>4, <2>1, <3>2, <3>3, <3>5, KeptHolds DEF Raises, Kept
      <3> QED
        BY <1>1, <3>5, <3>6, RaisesGap
    <2> QED
      BY <1>5, <2>6, <2>7
  <1>9. CASE pc[p] = "fields"
    <2> DEFINE b == Fields(mine[p], generation[p])
    <2>1. Store(p, b) /\ pc'[p] = "idle"
      BY <1>1, <1>9 DEF WriteOwn, TypeOK
    <2>2. slot'[p] = [seq |-> slot[p].seq + 1, body |-> b]
      BY <1>1, <1>2, <1>6, <2>1, StoreEffect
    <2>3. slot'[p].body = b /\ b.inflight = mine[p].inflight
      BY <2>2 DEF Fields
    <2> HIDE DEF b
    <2>4. b # Torn
      BY <1>6 DEF b
    <2>5. Shown'[p] = mine[p].inflight /\ Shown[p] = mine[p].inflight
      BY <1>1, <1>2, <1>9, <2>3, <2>4 DEF Shown, Accounted, AccountedAt
    <2>6. AccountedAt(p)' /\ p \notin Unwritten' /\ Shown'[p] <= Shown[p]
      BY <1>2, <1>5, <2>1, <2>3, <2>5 DEF AccountedAt, Unwritten
    <2>7. Accounted' /\ Lowers(p)
      BY <1>1, <1>4, <2>1, <2>6, OneLowers
    <2> QED
      BY <1>1, <2>7, LowersGap
  <1> QED
    BY <1>2, <1>7, <1>8, <1>9

\* A data plane dies: its requests with it, and from the moment its slot is
\* torn it shows none.
LEMMA CrashKeeps ==
    ASSUME BInv, TypeInv', NEW p \in DP, Crash(p)
    PROVE  Accounted' /\ Gap'
  <1>1. TypeInv /\ TypeOK /\ Accounted /\ Gap /\ Shown[p] \in Nat
    BY GapType DEF BInv, IInv, TypeInv, GapTypes
  <1>2. /\ pc' = [pc EXCEPT ![p] = "off"] /\ up' = up \ {p} /\ UNCHANGED <<slot, mine>>
        /\ total' = [total EXCEPT ![p] = 0] /\ read' = [read EXCEPT ![p] = NotReading]
    BY DEF Crash
  <1>3. pc'[p] = "off" /\ p \notin up'
    BY <1>1, <1>2 DEF TypeOK
  <1>4. \A q \in DP \ {p} : Kept(q)
    BY <1>1, <1>2, Places DEF Kept, TypeOK
  <1>5. Shown'[p] <= Shown[p]
    <2>1. CASE slot[p].body = Torn
      <3>1. Shown'[p] = 0
        BY <1>2, <1>3, <2>1 DEF Shown
      <3> QED
        BY <1>1, <3>1
    <2>2. CASE slot[p].body # Torn
      <3>1. Shown'[p] = Shown[p]
        BY <1>2, <2>2 DEF Shown
      <3> QED
        BY <1>1, <3>1
    <2> QED
      BY <2>1, <2>2
  <1>6. AccountedAt(p)' /\ p \notin Unwritten'
    BY <1>3 DEF AccountedAt, Unwritten
  <1>7. Accounted' /\ Lowers(p)
    BY <1>1, <1>3, <1>4, <1>5, <1>6, OneLowers
  <1> QED
    BY <1>1, <1>7, LowersGap

\* The supervisor clears the slot of a dead data plane.
LEMMA ReclaimKeeps ==
    ASSUME BInv, TypeInv', Reclaim
    PROVE  Accounted' /\ Gap'
  <1>1. TypeInv /\ TypeOK /\ Accounted /\ Gap
    BY DEF BInv, IInv, TypeInv
  <1>0. PICK p \in DP : p = sup.i
    BY <1>1 DEF TypeOK
  <1>2. /\ p \in DP /\ p \in Slots /\ p \notin up /\ pc[p] = "off"
        /\ UNCHANGED <<up, pc, mine, total, read>>
    BY <1>0, <1>1, Places DEF TypeInv, TypeOK, Lifecycle, Reclaim, Elsewhere, planes, children
  <1>3. Written(p)
    BY <1>0, <1>1, <1>2, WriteSteps
  <1>4. Mark(p) \/ Tear(p) \/ Store(p, Cleared)
    BY <1>0 DEF Reclaim
  <1>5. \A q \in DP \ {p} : Kept(q)
    BY <1>2, <1>3, Places DEF Kept, Written
  <1>6. Shown[p] \in Nat
    BY <1>1, <1>2, GapType DEF GapTypes
  <1>7. Shown'[p] <= Shown[p]
    <2>1. CASE Mark(p)
      <3>1. slot'[p].body = slot[p].body
        BY <1>1, <1>2, <2>1, StoreEffect, Bodies
      <3>2. Shown'[p] = Shown[p]
        BY <1>2, <3>1 DEF Shown
      <3> QED
        BY <1>6, <3>2
    <2>2. CASE Tear(p)
      <3>1. slot'[p] = [seq |-> slot[p].seq, body |-> Torn]
        BY <1>1, <1>2, <2>2, StoreEffect, Bodies
      <3>2. slot'[p].body = Torn
        BY <3>1
      <3>3. Shown'[p] = 0
        BY <1>2, <3>2 DEF Shown
      <3> QED
        BY <1>6, <3>3
    <2>3. CASE Store(p, Cleared)
      <3>1. slot'[p] = [seq |-> slot[p].seq + 1, body |-> Cleared]
        BY <1>1, <1>2, <2>3, StoreEffect, Bodies
      <3>2. slot'[p].body = Cleared
        BY <3>1
      <3>3. Cleared.inflight = 0 /\ Cleared # Torn
        BY Bodies DEF Cleared, Fields, Zero
      <3>4. Shown'[p] = 0
        BY <1>2, <3>2, <3>3 DEF Shown
      <3> QED
        BY <1>6, <3>4
    <2> QED
      BY <1>4, <2>1, <2>2, <2>3
  <1>8. AccountedAt(p)' /\ p \notin Unwritten' /\ pc'[p] # "sum"
    BY <1>2 DEF AccountedAt, Unwritten
  <1>9. Accounted' /\ Lowers(p)
    BY <1>1, <1>2, <1>5, <1>7, <1>8, OneLowers
  <1> QED
    BY <1>1, <1>2, <1>9, LowersGap

\* The next generation starts with no request.
LEMMA RespawnKeeps ==
    ASSUME BInv, TypeInv', NEW lived \in BOOLEAN, Respawn(lived)
    PROVE  Accounted' /\ Gap'
  <1>1. TypeInv /\ TypeOK /\ Accounted /\ Gap
    BY DEF BInv, IInv, TypeInv
  <1>0. PICK p \in DP : p = sup.i
    BY <1>1 DEF TypeOK
  <1>2. /\ p \in DP /\ p \notin up
        /\ up' = up \cup {p} /\ pc' = [pc EXCEPT ![p] = "mark"]
        /\ mine' = [mine EXCEPT ![p] = Zero] /\ UNCHANGED <<slot, total, read>>
    BY <1>0, <1>1 DEF TypeInv, TypeOK, Lifecycle, Respawn
  <1>3. pc'[p] = "mark" /\ mine'[p].inflight = 0
    BY <1>1, <1>2 DEF TypeOK, Zero
  <1>4. \A q \in DP \ {p} : Kept(q)
    BY <1>1, <1>2 DEF Kept, TypeOK
  <1>5. Shown'[p] = Shown[p] /\ Shown[p] \in Nat
    <2>1. Shown[p] \in Nat
      BY <1>1, <1>2, GapType DEF GapTypes
    <2>2. Shown'[p] = Shown[p]
      BY <1>2, <1>3 DEF Shown
    <2> QED
      BY <2>1, <2>2
  <1>6. AccountedAt(p)' /\ p \notin Unwritten' /\ Shown'[p] <= Shown[p]
    BY <1>3, <1>5 DEF AccountedAt, Unwritten
  <1>7. Accounted' /\ Lowers(p)
    BY <1>1, <1>2, <1>3, <1>4, <1>6, OneLowers
  <1> QED
    BY <1>1, <1>2, <1>7, LowersGap

\* The supervisor ends every data plane.
LEMMA FailClosedKeeps ==
    ASSUME BInv, TypeInv', NEW lived \in BOOLEAN, FailClosed(lived)
    PROVE  Accounted' /\ Gap'
  <1>1. TypeInv /\ Gap
    BY DEF BInv, IInv
  <1>2. up' = {} /\ pc' = [p \in DP |-> "off"] /\ UNCHANGED <<slot, mine>>
    BY DEF FailClosed
  <1>3. Accounted'
    BY <1>2 DEF Accounted, AccountedAt
  <1>4. Shown \in [DP -> Nat] /\ Shown' \in [DP -> Nat]
    BY <1>1, GapType, GapTypeNext DEF GapTypes
  <1>5. ASSUME NEW q \in DP PROVE Shown'[q] <= Shown[q]
    <2>1. Shown'[q] \in {Shown[q], 0}
      BY <1>2 DEF Shown
    <2>2. Shown[q] \in Nat
      BY <1>4
    <2> QED
      BY <2>1, <2>2
  <1>6. SumFunctionOnSet(Shown', DP) <= SumFunctionOnSet(Shown, DP)
    <2> DEFINE f == Shown'
               g == Shown
    <2>1. \A q \in DP : f[q] \in Nat /\ g[q] \in Nat /\ f[q] <= g[q]
      BY <1>4, <1>5
    <2> HIDE DEF f, g
    <2>2. SumFunctionOnSet(f, DP) <= SumFunctionOnSet(g, DP)
      BY <2>1, Planes, SumMonotone
    <2> QED
      BY <2>2 DEF f, g
  <1>7. Cardinality(Unwritten') = 0
    <2>1. Unwritten' = {}
      BY <1>2 DEF Unwritten
    <2> QED
      BY <2>1, FS_EmptySet
  <1> SUFFICES ASSUME NEW v \in Nat, v >= MaxInflight PROVE Room(v)'
    BY <1>3, Planes DEF Gap
  <1>8. Cardinality(Below(v)') = 0
    <2>1. Below(v)' = {}
      BY <1>2 DEF Below
    <2> QED
      BY <2>1, FS_EmptySet
  <1>9. Room(v)
    BY <1>1 DEF Gap
  <1>10. /\ SumFunctionOnSet(Shown, DP) \in Nat /\ Cardinality(Unwritten) \in Nat
         /\ Cardinality(Below(v)) \in Nat /\ SumFunctionOnSet(Shown', DP) \in Nat
    BY <1>1, GapType, GapTypeNext DEF GapTypes
  <1>11. SumFunctionOnSet(Shown', DP) + Cardinality(Unwritten') + Cardinality(Below(v)')
           <= v + NumDP - 1
    BY <1>6, <1>7, <1>8, <1>9, <1>10, Planes DEF Room
  <1> QED
    BY <1>11 DEF Room

\* Every other step leaves the data planes and their slots alone.
LEMMA OthersKeep ==
    ASSUME BInv, TypeInv',
           \/ \E x \in Reader : ReadSeq(x) \/ ReadFields(x) \/ ReadRetry(x)
           \/ \E p \in DP : Reap(p)
           \/ FoldRetired \/ FoldEnd \/ Health \/ Terminated \/ UNCHANGED vars
    PROVE  Accounted' /\ Gap'
  <1>1. TypeInv /\ TypeOK /\ Accounted /\ Gap
    BY DEF BInv, IInv, TypeInv
  <1>2. UNCHANGED <<up, pc, mine, total>>
    BY DEF ReadSeq, ReadFields, ReadRetry, Reap, FoldRetired, FoldEnd, Elsewhere, Health,
           HealthStart, HealthVersion, HealthSlot, HealthReport, HealthAgain, HealthFails,
           CPReads, Terminated, vars, planes, children
  <1>3. \A q \in DP : slot'[q] = slot[q]
    <2>1. CASE FoldRetired \/ FoldEnd
      <3>1. Written(Retired)
        BY <1>1, <2>1, WriteSteps, Places
      <3> QED
        BY <3>1, Places DEF Written
    <2>2. CASE ~(FoldRetired \/ FoldEnd)
      <3>1. slot' = slot
        BY <2>2 DEF ReadSeq, ReadFields, ReadRetry, Reap, Health, HealthStart, HealthVersion,
           HealthSlot, HealthReport, HealthAgain, HealthFails, CPReads, Terminated, vars
      <3> QED
        BY <3>1
    <2> QED
      BY <2>1, <2>2
  <1>4. \A q \in DP : read'[q].at = read[q].at
    <2>1. ASSUME NEW x \in Reader, ReadSeq(x) \/ ReadFields(x) \/ ReadRetry(x)
          PROVE  \A q \in DP : read'[q].at = read[q].at
      <3>1. /\ \A y \in Reader \ {x} : read'[y] = read[y]
            /\ read'[x].at = read[x].at
        <4>1. CASE ReadSeq(x) \/ ReadFields(x)
          BY <1>1, <4>1 DEF ReadSeq, ReadFields, TypeOK
        <4>2. CASE ReadRetry(x)
          BY <1>1, <4>2 DEF ReadRetry, TypeOK, Reading
        <4> QED
          BY <2>1, <4>1, <4>2
      <3> QED
        BY <3>1, Places
    <2>2. CASE Health
      <3>1. PICK next : read' = [read EXCEPT ![CP] = next]
        BY <2>2, Zenon DEF Health, HealthStart, HealthVersion, HealthSlot, HealthReport,
           HealthAgain, HealthFails, CPReads
      <3> QED
        BY <1>1, <3>1, Places DEF TypeOK
    <2>3. CASE \/ \E p \in DP : Reap(p)
               \/ FoldRetired \/ FoldEnd \/ Terminated \/ UNCHANGED vars
      BY <2>3 DEF Reap, FoldRetired, FoldEnd, Elsewhere, Terminated, vars
    <2> QED
      BY <2>1, <2>2, <2>3
  <1>5. \A q \in DP : Kept(q)
    BY <1>2, <1>3, <1>4 DEF Kept
  <1> QED
    BY <1>1, <1>5, NoneLowers

\* The invariant of the soft bound is inductive.
LEMMA BoundStep == BInv /\ [Next]_vars => BInv'
  <1> SUFFICES ASSUME BInv, [Next]_vars PROVE BInv'
    OBVIOUS
  <1>1. IInv'
    BY TypeStep, MarkedStep, ReadsStep, OwnerStep DEF BInv, IInv
  <1>2. TypeInv'
    BY <1>1 DEF IInv
  <1>3. Exact'
    BY ExactStep DEF BInv
  <1>4. Accounted' /\ Gap'
    <2>1. ASSUME NEW p \in DP,
                 \/ TryAcquire(p) \/ ShedFromCache(p) \/ SumNext(p) \/ Decide(p)
                 \/ SumFails(p) \/ Release(p) \/ Touch(p) \/ WriteOwn(p) \/ Crash(p)
          PROVE  Accounted' /\ Gap'
      BY <1>2, <2>1, AcquireKeeps, RejectKeeps, SumKeeps, AdmitKeeps, WriteKeeps, CrashKeeps
    <2>2. CASE Supervisor
      <3>1. ASSUME NEW lived \in BOOLEAN, Respawn(lived) \/ FailClosed(lived)
            PROVE  Accounted' /\ Gap'
        BY <1>2, <3>1, RespawnKeeps, FailClosedKeeps
      <3> QED
        BY <1>2, <2>2, <3>1, ReclaimKeeps, OthersKeep DEF Supervisor
    <2>3. CASE \/ \E x \in Reader : ReadSeq(x) \/ ReadFields(x) \/ ReadRetry(x)
               \/ Health \/ Terminated \/ UNCHANGED vars
      BY <1>2, <2>3, OthersKeep
    <2> QED
      BY <2>1, <2>2, <2>3 DEF Next
  <1> QED
    BY <1>1, <1>3, <1>4 DEF BInv

\* The documented bound: however the sums of the data planes interleave with
\* each other, with releases, deaths and restarts, the requests in flight exceed
\* max_inflight by at most one less than the number of data planes.
THEOREM OvershootBounded == Spec => []Overshoot
  <1>1. Init => BInv
    <2> SUFFICES ASSUME Init PROVE BInv
      OBVIOUS
    <2>1. IInv
      BY InitSound
    <2>2. /\ \A p \in DP : /\ slot[p].body # Torn /\ slot[p].body.inflight = 0
                           /\ mine[p].inflight = 0 /\ pc[p] = "idle"
          /\ \A x \in Reader : read[x].step = "none"
      <3>1. Fields(Zero, 1) # Torn /\ Fields(Zero, 1).inflight = 0 /\ Zero.inflight = 0
        BY Bodies DEF Fields, Zero
      <3> QED
        BY <3>1, Places DEF Init, NotReading
    <2>3. Accounted /\ Exact
      BY <2>2 DEF Accounted, AccountedAt, Exact, Stable
    <2>4. Gap
      <3> SUFFICES ASSUME NEW v \in Nat, v >= MaxInflight PROVE Room(v)
        BY DEF Gap
      <3>1. Unwritten = {} /\ Below(v) = {}
        BY <2>1, <2>2 DEF Unwritten, Below, IInv, TypeInv, TypeOK
      <3>2. Cardinality(Unwritten) = 0 /\ Cardinality(Below(v)) = 0
        BY <3>1, FS_EmptySet
      <3>3. Shown = [p \in DP |-> 0]
        BY <2>2 DEF Shown
      <3>4. SumFunctionOnSet(Shown, DP) = 0
        <4>1. \A p \in DP : Shown[p] \in Nat /\ 1 .. Shown[p] = {}
          BY <3>3
        <4>2. Units(Shown, DP) = {}
          BY <4>1 DEF Units
        <4> QED
          BY <4>1, <4>2, Planes, SumIsUnits, FS_EmptySet
      <3> QED
        BY <3>2, <3>4, SizesAssumption DEF Room
    <2> QED
      BY <2>1, <2>3, <2>4 DEF BInv
  <1> QED
    BY <1>1, BoundStep, BoundHolds, PTL DEF Spec

-----------------------------------------------------------------------------
(* The aggregate of rejections.                                            *)

\* The supervisor has moved the rejections of this data plane to the retired
\* slot, or has given them up.
Handled(p) == sup.i = p /\ sup.place \notin {"poll", "stopped", "fold_mark", "fold_tear"}

\* The rejections of earlier generations: what the retired slot holds, or is
\* about to.
Retained == IF slot[Retired].body = Torn THEN sup.sum ELSE slot[Retired].body.rejected

\* The rejections a data plane has counted,
Counted == [p \in DP |-> IF Handled(p) THEN 0 ELSE mine[p].rejected]

\* ... and those its slot stands for.
Listed ==
    [p \in DP |-> IF Handled(p) THEN 0
                  ELSE IF slot[p].body = Torn THEN mine[p].rejected
                  ELSE slot[p].body.rejected]

Behind(i) == {j \in DP : j < i}

\* A slot never shows more rejections than its data plane has counted.
Covered == \A p \in DP : slot[p].body # Torn => slot[p].body.rejected <= mine[p].rejected

\* What the supervisor is about to write, and what it has cleared.
Fold ==
    /\ sup.place \in {"fold_end", "spawn"} => slot[sup.i].body = Cleared
    /\ sup.place \in {"fold_mark", "fold_tear", "fold_fields"} => sup.folds = TRUE
    /\ sup.place \in {"fold_mark", "fold_tear"} =>
           /\ slot[sup.i].body # Torn
           /\ sup.sum = slot[Retired].body.rejected + slot[sup.i].body.rejected
    /\ sup.place = "fold_fields" => slot[Retired].body = Torn
    /\ sup.place = "mark" /\ ~sup.folds => Odd(sup.i)

\* A round of the control plane: the slot it reads, and its version.
Round ==
    /\ health.place \in {"version", "retired"} => read[CP].at = Retired
    /\ health.place \in {"idle", "version"} => health.rejected = 0
    /\ health.place \in {"slots", "retired"} =>
           health.version % 2 = 0 /\ health.version <= slot[Retired].seq
    /\ sup.place = "stopped" => health.place = "idle"

\* Between rounds: no rejection is there twice, and what was reported is still
\* there or was skipped.
Tally ==
    sup.place # "stopped" =>
        /\ Retained + SumFunctionOnSet(Counted, DP) <= shed
        /\ health.last <= Retained + SumFunctionOnSet(Listed, DP) + skipped

\* Within a round, as long as the version is the same: what was read so far
\* with what is still to be read.
Scan ==
    health.place \in {"slots", "retired"} /\ slot[Retired].seq = health.version =>
        /\ health.rejected + Retained + SumFunctionOnSet(Counted, Ahead(read[CP].at)) <= shed
        /\ health.last <= health.rejected + Retained
                            + SumFunctionOnSet(Listed, Ahead(read[CP].at)) + skipped
        /\ health.rejected <= SumFunctionOnSet(Listed, Behind(read[CP].at)) + skipped

RInv == IInv /\ Exact /\ Covered /\ Fold /\ Round /\ Tally /\ Scan

\* The counters are natural numbers.
CountTypes ==
    /\ Counted \in [DP -> Nat] /\ Listed \in [DP -> Nat] /\ Retained \in Nat
    /\ shed \in Nat /\ skipped \in Nat /\ health.last \in Nat /\ health.rejected \in Nat

\* ... in every well-typed state,
LEMMA CountType == TypeInv => CountTypes
  <1> SUFFICES ASSUME TypeInv PROVE CountTypes
    OBVIOUS
  <1>1. ASSUME NEW p \in DP
        PROVE  slot[p].body.rejected \in Nat /\ mine[p].rejected \in Nat
    BY Places DEF TypeInv, TypeOK, Body, Count
  <1>2. slot[Retired].body.rejected \in Nat /\ sup.sum \in Nat
    BY Places DEF TypeInv, TypeOK, Body
  <1>3. shed \in Nat /\ skipped \in Nat /\ health.last \in Nat /\ health.rejected \in Nat
    BY DEF TypeInv, TypeOK
  <1> QED
    BY <1>1, <1>2, <1>3 DEF CountTypes, Counted, Listed, Retained

\* ... and so after every step.
LEMMA CountTypeNext == TypeInv' => CountTypes'
  BY CountType, PTL

\* Sums over data planes.
LEMMA PlaneSum ==
    ASSUME NEW S \in SUBSET DP, NEW f \in [DP -> Nat]
    PROVE  IsFiniteSet(S) /\ SumFunctionOnSet(f, S) \in Nat
  <1>1. IsFiniteSet(S) /\ \A q \in S : f[q] \in Nat
    BY Planes, FS_Subset
  <1> QED
    BY <1>1, SumIsUnits

\* A sum grows by no more than one of its terms does.
LEMMA PlaneSumChange ==
    ASSUME NEW S \in SUBSET DP, NEW f \in [DP -> Nat], NEW g \in [DP -> Nat], NEW p \in DP,
           \A q \in DP \ {p} : g[q] = f[q],
           NEW a \in Nat, NEW b \in Nat, a <= b, g[p] + a <= f[p] + b
    PROVE  SumFunctionOnSet(g, S) + a <= SumFunctionOnSet(f, S) + b
  <1>1. IsFiniteSet(S) /\ f[p] \in Nat /\ g[p] \in Nat
    BY PlaneSum
  <1>2. /\ SumFunctionOnSet(f, S) \in Nat /\ SumFunctionOnSet(g, S) \in Nat
        /\ p \in S => SumFunctionOnSet(g, S) + f[p] = SumFunctionOnSet(f, S) + g[p]
        /\ p \notin S => SumFunctionOnSet(g, S) = SumFunctionOnSet(f, S)
    BY <1>1, SumChange
  <1> QED
    BY <1>1, <1>2

\* What steps of the data planes do to the counters: rejections are counted
\* when they happen, and a slot stands for no fewer than before unless they
\* are skipped.
Moves(p) ==
    /\ health' = health /\ read'[CP].at = read[CP].at
    /\ slot'[Retired] = slot[Retired] /\ Retained' = Retained
    /\ sup.place = "stopped" => sup'.place = "stopped"
    /\ \A q \in DP \ {p} : Counted'[q] = Counted[q] /\ Listed'[q] = Listed[q]
    /\ shed <= shed' /\ Counted'[p] + shed <= Counted[p] + shed'
    /\ skipped <= skipped' /\ Listed[p] + skipped <= Listed'[p] + skipped'

\* Neither bound of the tally is crossed.
LEMMA MovesTally ==
    ASSUME TypeInv, TypeInv', Tally, Scan, NEW p \in DP, Moves(p)
    PROVE  Tally' /\ Scan'
  <1> DEFINE c == Counted
             cc == Counted'
             l == Listed
             ll == Listed'
  <1>1. /\ c \in [DP -> Nat] /\ l \in [DP -> Nat] /\ cc \in [DP -> Nat] /\ ll \in [DP -> Nat]
        /\ shed \in Nat /\ skipped \in Nat /\ shed' \in Nat /\ skipped' \in Nat
        /\ Retained \in Nat /\ health.last \in Nat /\ health.rejected \in Nat
    BY CountType, CountTypeNext DEF CountTypes
  <1>2. /\ \A q \in DP \ {p} : cc[q] = c[q] /\ l[q] = ll[q]
        /\ shed <= shed' /\ cc[p] + shed <= c[p] + shed'
        /\ skipped <= skipped' /\ l[p] + skipped <= ll[p] + skipped'
    BY DEF Moves
  <1> HIDE DEF c, cc, l, ll
  <1>3. ASSUME NEW S \in SUBSET DP
        PROVE  /\ SumFunctionOnSet(cc, S) + shed <= SumFunctionOnSet(c, S) + shed'
               /\ SumFunctionOnSet(l, S) + skipped <= SumFunctionOnSet(ll, S) + skipped'
               /\ SumFunctionOnSet(cc, S) \in Nat /\ SumFunctionOnSet(c, S) \in Nat
               /\ SumFunctionOnSet(ll, S) \in Nat /\ SumFunctionOnSet(l, S) \in Nat
    <2>1. SumFunctionOnSet(cc, S) + shed <= SumFunctionOnSet(c, S) + shed'
      BY <1>1, <1>2, PlaneSumChange
    <2>2. SumFunctionOnSet(l, S) + skipped <= SumFunctionOnSet(ll, S) + skipped'
      BY <1>1, <1>2, PlaneSumChange
    <2> QED
      BY <1>1, <2>1, <2>2, PlaneSum
  <1>4. /\ health' = health /\ read'[CP].at = read[CP].at /\ slot'[Retired] = slot[Retired]
        /\ Retained' = Retained /\ (sup.place = "stopped" => sup'.place = "stopped")
    BY DEF Moves
  <1>5. Tally'
    <2> SUFFICES ASSUME sup'.place # "stopped"
                 PROVE  /\ Retained + SumFunctionOnSet(cc, DP) <= shed'
                        /\ health.last <= Retained + SumFunctionOnSet(ll, DP) + skipped'
      BY <1>4 DEF Tally, cc, ll
    <2>1. /\ Retained + SumFunctionOnSet(c, DP) <= shed
          /\ health.last <= Retained + SumFunctionOnSet(l, DP) + skipped
      BY <1>4 DEF Tally, c, l
    <2>2. /\ SumFunctionOnSet(cc, DP) + shed <= SumFunctionOnSet(c, DP) + shed'
          /\ SumFunctionOnSet(l, DP) + skipped <= SumFunctionOnSet(ll, DP) + skipped'
          /\ SumFunctionOnSet(cc, DP) \in Nat /\ SumFunctionOnSet(c, DP) \in Nat
          /\ SumFunctionOnSet(ll, DP) \in Nat /\ SumFunctionOnSet(l, DP) \in Nat
      BY <1>3
    <2> QED
      BY <1>1, <2>1, <2>2
  <1>6. Scan'
    <2> DEFINE A == Ahead(read[CP].at)
               B == Behind(read[CP].at)
    <2>1. A \in SUBSET DP /\ B \in SUBSET DP
      BY DEF Ahead, Behind
    <2> SUFFICES ASSUME health.place \in {"slots", "retired"}, slot[Retired].seq = health.version
                 PROVE  /\ health.rejected + Retained + SumFunctionOnSet(cc, A) <= shed'
                        /\ health.last <= health.rejected + Retained
                                            + SumFunctionOnSet(ll, A) + skipped'
                        /\ health.rejected <= SumFunctionOnSet(ll, B) + skipped'
      <3>1. Ahead(read[CP].at)' = A /\ Behind(read[CP].at)' = B
        BY <1>4 DEF Ahead, Behind
      <3> QED
        BY <1>4, <3>1 DEF Scan, cc, ll
    <2>2. /\ health.rejected + Retained + SumFunctionOnSet(c, A) <= shed
          /\ health.last <= health.rejected + Retained + SumFunctionOnSet(l, A) + skipped
          /\ health.rejected <= SumFunctionOnSet(l, B) + skipped
      BY DEF Scan, c, l
    <2> HIDE DEF A, B
    <2>3. /\ SumFunctionOnSet(cc, A) + shed <= SumFunctionOnSet(c, A) + shed'
          /\ SumFunctionOnSet(l, A) + skipped <= SumFunctionOnSet(ll, A) + skipped'
          /\ SumFunctionOnSet(cc, A) \in Nat /\ SumFunctionOnSet(c, A) \in Nat
          /\ SumFunctionOnSet(ll, A) \in Nat /\ SumFunctionOnSet(l, A) \in Nat
      BY <1>3, <2>1
    <2>4. /\ SumFunctionOnSet(l, B) + skipped <= SumFunctionOnSet(ll, B) + skipped'
          /\ SumFunctionOnSet(ll, B) \in Nat /\ SumFunctionOnSet(l, B) \in Nat
      BY <1>3, <2>1
    <2> QED
      BY <1>1, <2>2, <2>3, <2>4
  <1> QED
    BY <1>5, <1>6

\* The terms of the tally.
Terms ==
    \A q \in DP :
        /\ Counted[q] = IF Handled(q) THEN 0 ELSE mine[q].rejected
        /\ Listed[q] = IF Handled(q) THEN 0
                       ELSE IF slot[q].body = Torn THEN mine[q].rejected
                       ELSE slot[q].body.rejected
        /\ mine[q].rejected \in Nat /\ slot[q].body.rejected \in Nat
        /\ q \in Slots /\ q # Retired /\ (Handled(q) \in BOOLEAN)

\* ... in every well-typed state,
LEMMA TermsNow == TypeInv => Terms
  BY Places DEF Terms, Handled, Counted, Listed, TypeInv, TypeOK, Body, Count

\* ... and so after every step.
LEMMA TermsNext == TypeInv' => Terms'
  BY TermsNow, PTL

\* A step that leaves the supervisor, its slots and the rounds of the control
\* plane where they are, and counts at most one rejection.
Counts(p) ==
    /\ UNCHANGED <<slot, sup, health, skipped>> /\ read'[CP].at = read[CP].at
    /\ \A q \in DP \ {p} : mine'[q] = mine[q]
    /\ \/ mine'[p].rejected = mine[p].rejected /\ shed' = shed
       \/ /\ mine'[p].rejected = mine[p].rejected + 1 /\ shed' = shed + 1
          /\ pc[p] \in {"idle", "sum"}

\* ... keeps everything.
LEMMA CountsMoves ==
    ASSUME RInv, NEW p \in DP, TypeInv', Counts(p)
    PROVE  Covered' /\ Fold' /\ Round' /\ Moves(p)
  <1>1. /\ UNCHANGED <<slot, sup, health, skipped>> /\ read'[CP].at = read[CP].at
        /\ TypeInv /\ Covered /\ Fold /\ Round /\ Terms /\ Terms' /\ IInv
    BY TermsNow, TermsNext DEF RInv, IInv, Counts
  <1>2. shed \in Nat /\ skipped \in Nat
    BY <1>1 DEF TypeInv, TypeOK
  <1>3. /\ \A q \in DP \ {p} : mine'[q] = mine[q]
        /\ mine[p].rejected \in Nat
        /\ \/ mine'[p].rejected = mine[p].rejected /\ shed' = shed
           \/ /\ mine'[p].rejected = mine[p].rejected + 1 /\ shed' = shed + 1
              /\ ~Handled(p) /\ slot[p].body # Torn
    <2>1. pc[p] \in {"idle", "sum"} => ~Handled(p) /\ slot[p].body # Torn
      <3> SUFFICES ASSUME pc[p] \in {"idle", "sum"} PROVE ~Handled(p) /\ slot[p].body # Torn
        OBVIOUS
      <3>1. p \in up
        BY <1>1 DEF TypeInv, Lifecycle
      <3> QED
        BY <1>1, <3>1, OwnShown DEF TypeInv, Lifecycle, Handled
    <2> QED
      BY <1>1, <2>1 DEF Counts, Terms
  <1>4. mine[p].rejected <= mine'[p].rejected
    BY <1>3
  <1>5. Covered'
    <2> SUFFICES ASSUME NEW q \in DP, slot[q].body # Torn
                 PROVE  slot[q].body.rejected <= mine'[q].rejected
      BY <1>1 DEF Covered
    <2>1. /\ slot[q].body.rejected <= mine[q].rejected /\ slot[q].body.rejected \in Nat
          /\ mine[q].rejected \in Nat /\ mine'[q].rejected \in Nat
      BY <1>1 DEF Covered, Terms
    <2> QED
      BY <2>1, <1>3, <1>4
  <1>6. Fold' /\ Round'
    BY <1>1 DEF Fold, Round, Odd
  <1>7. Retained' = Retained /\ \A q \in DP : Handled(q)' = Handled(q)
    BY <1>1 DEF Retained, Handled
  <1>8. \A q \in DP \ {p} : Counted'[q] = Counted[q] /\ Listed'[q] = Listed[q]
    BY <1>1, <1>3, <1>7 DEF Terms
  <1>9. /\ shed <= shed' /\ Counted'[p] + shed <= Counted[p] + shed'
        /\ skipped <= skipped' /\ Listed[p] + skipped <= Listed'[p] + skipped'
    <2>1. CASE Handled(p)
      <3>1. Counted'[p] = 0 /\ Counted[p] = 0 /\ Listed'[p] = 0 /\ Listed[p] = 0
        BY <1>1, <1>7, <2>1 DEF Terms
      <3> QED
        BY <1>1, <1>2, <1>3, <3>1
    <2>2. CASE ~Handled(p)
      <3>1. Counted'[p] = mine'[p].rejected /\ Counted[p] = mine[p].rejected
        BY <1>1, <1>7, <2>2 DEF Terms
      <3>2. CASE slot[p].body = Torn
        <4>1. Listed'[p] = mine'[p].rejected /\ Listed[p] = mine[p].rejected
          BY <1>1, <1>7, <2>2, <3>2 DEF Terms
        <4> QED
          BY <1>1, <1>2, <1>3, <3>1, <3>2, <4>1
      <3>3. CASE slot[p].body # Torn
        <4>1. Listed'[p] = Listed[p] /\ Listed[p] \in Nat
          BY <1>1, <1>7, <2>2, <3>3 DEF Terms
        <4> QED
          BY <1>1, <1>2, <1>3, <3>1, <4>1
      <3> QED
        BY <3>2, <3>3
    <2> QED
      BY <2>1, <2>2
  <1> QED
    BY <1>1, <1>5, <1>6, <1>7, <1>8, <1>9 DEF Moves

\* The steps of a data plane other than stores, and the loads of a reader.
LEMMA AsideTally ==
    ASSUME RInv, TypeInv',
           \/ \E p \in DP : \/ TryAcquire(p) \/ ShedFromCache(p) \/ SumNext(p) \/ Decide(p)
                            \/ SumFails(p) \/ Release(p) \/ Touch(p) \/ Crash(p)
           \/ \E x \in Reader : ReadSeq(x) \/ ReadFields(x) \/ ReadRetry(x)
           \/ Terminated \/ UNCHANGED vars
    PROVE  Covered' /\ Fold' /\ Round' /\ Tally' /\ Scan'
  <1>1. TypeOK /\ TypeInv /\ IInv /\ Tally /\ Scan
    BY DEF RInv, IInv, TypeInv
  <1>2. ASSUME NEW p \in DP,
               \/ TryAcquire(p) \/ ShedFromCache(p) \/ SumNext(p) \/ Decide(p)
               \/ SumFails(p) \/ Release(p) \/ Touch(p) \/ Crash(p)
        PROVE  Counts(p)
    <2>1. UNCHANGED <<slot, sup, health, skipped>>
      BY <1>2 DEF TryAcquire, ShedFromCache, SumNext, Decide, SumFails, Release, Touch, Crash,
         history
    <2>2. read'[CP].at = read[CP].at
      <3>1. PICK r : read' \in {read, [read EXCEPT ![p] = r]}
        BY <1>2, Zenon DEF TryAcquire, ShedFromCache, SumNext, Decide, SumFails, Release, Touch,
           Crash
      <3> QED
        BY <1>1, <3>1, Places DEF TypeOK
    <2>3. CASE ShedFromCache(p) \/ SumFails(p) \/ (Decide(p) /\ Rejected(p))
      <3>1. /\ mine' = [mine EXCEPT ![p].rejected = @ + 1] /\ shed' = shed + 1
            /\ pc[p] \in {"idle", "sum"}
        BY <2>3 DEF ShedFromCache, SumFails, Decide, Rejected, Ready, Sums
      <3>2. /\ \A q \in DP \ {p} : mine'[q] = mine[q]
            /\ mine'[p].rejected = mine[p].rejected + 1
        BY <1>1, <3>1 DEF TypeOK, Count
      <3> QED
        BY <2>1, <2>2, <3>1, <3>2 DEF Counts
    <2>4. CASE \/ TryAcquire(p) \/ SumNext(p) \/ (Decide(p) /\ ~Rejected(p))
               \/ Release(p) \/ Touch(p) \/ Crash(p)
      <3>1. /\ mine' \in {mine, [mine EXCEPT ![p].inflight = @ + 1],
                          [mine EXCEPT ![p].inflight = @ - 1]}
            /\ shed' = shed
        BY <2>4 DEF TryAcquire, SumNext, Decide, Release, Touch, Crash, history
      <3>2. \A q \in DP \ {p} : mine'[q] = mine[q]
        BY <1>1, <3>1 DEF TypeOK
      <3>3. mine'[p].rejected = mine[p].rejected
        BY <1>1, <3>1 DEF TypeOK, Count
      <3> QED
        BY <2>1, <2>2, <3>1, <3>2, <3>3 DEF Counts
    <2> QED
      BY <1>2, <2>3, <2>4
  <1>3. ASSUME \/ \E x \in Reader : ReadSeq(x) \/ ReadFields(x) \/ ReadRetry(x)
               \/ Terminated \/ UNCHANGED vars
        PROVE  Counts(0)
    <2>1. UNCHANGED <<slot, sup, health, skipped, mine, shed>>
      BY <1>3 DEF ReadSeq, ReadFields, ReadRetry, Terminated, vars, planes, history
    <2>2. read'[CP].at = read[CP].at
      <3>1. ASSUME NEW x \in Reader, ReadSeq(x) \/ ReadFields(x) \/ ReadRetry(x)
            PROVE  /\ \A y \in Reader \ {x} : read'[y] = read[y]
                   /\ read'[x].at = read[x].at
        <4>1. CASE ReadSeq(x) \/ ReadFields(x)
          BY <1>1, <4>1 DEF ReadSeq, ReadFields, TypeOK
        <4>2. CASE ReadRetry(x)
          BY <1>1, <4>2 DEF ReadRetry, TypeOK, Reading
        <4> QED
          BY <3>1, <4>1, <4>2
      <3>2. CASE Terminated \/ UNCHANGED vars
        BY <3>2 DEF Terminated, vars
      <3> QED
        BY <1>3, <3>1, <3>2, Places
    <2> QED
      BY <2>1, <2>2 DEF Counts
  <1>4. PICK p \in DP : Counts(p)
    BY <1>2, <1>3, Places
  <1> QED
    BY <1>1, <1>4, CountsMoves, MovesTally

\* A data plane stores in its slot what it has counted.
LEMMA WriteTally ==
    ASSUME RInv, TypeInv', NEW p \in DP, WriteOwn(p)
    PROVE  Covered' /\ Fold' /\ Round' /\ Tally' /\ Scan'
  <1>1. /\ TypeOK /\ TypeInv /\ IInv /\ Tally /\ Scan /\ Covered /\ Fold /\ Round
        /\ Terms /\ Terms' /\ shed \in Nat /\ skipped \in Nat
    BY TermsNow, TermsNext DEF RInv, IInv, TypeInv, TypeOK
  <1>2. UNCHANGED <<mine, read, sup, health, shed, skipped>>
    BY DEF WriteOwn, history
  <1>3. p \in up /\ ~Handled(p) /\ ~Handled(p)'
    BY <1>1, <1>2 DEF WriteOwn, TypeInv, TypeOK, Lifecycle, Handled
  <1>4. \A j \in Slots \ {p} : slot'[j] = slot[j]
    BY <1>1, WriteSteps, Places DEF Written
  <1>5. p \in Slots /\ p # Retired /\ Retired \in Slots
    BY Places
  <1>6. \/ slot'[p].body = slot[p].body
        \/ slot'[p].body = Torn
        \/ slot'[p].body # Torn /\ slot'[p].body.rejected = mine[p].rejected
    <2>1. CASE pc[p] = "mark"
      <3>1. Mark(p)
        BY <2>1 DEF WriteOwn
      <3> QED
        BY <1>1, <1>5, <3>1, MarkOdd
    <2>2. CASE pc[p] = "tear"
      <3>1. slot'[p] = [seq |-> slot[p].seq, body |-> Torn]
        BY <1>1, <1>5, <2>2, Bodies, StoreEffect DEF WriteOwn
      <3> QED
        BY <3>1
    <2>3. CASE pc[p] = "fields"
      <3> DEFINE fresh == Fields(mine[p], generation[p])
      <3>1. mine[p] \in Count /\ generation[p] \in Nat
        BY <1>1 DEF TypeOK
      <3>2. fresh \in Body /\ fresh # Torn
        BY <3>1, Bodies
      <3>3. fresh.rejected = mine[p].rejected
        BY DEF Fields
      <3>4. Store(p, fresh)
        BY <2>3 DEF WriteOwn
      <3> HIDE DEF fresh
      <3>5. slot'[p] = [seq |-> slot[p].seq + 1, body |-> fresh]
        BY <1>1, <1>5, <3>2, <3>4, StoreEffect
      <3>6. slot'[p].body = fresh
        BY <3>5
      <3> QED
        BY <3>2, <3>3, <3>6
    <2> QED
      BY <2>1, <2>2, <2>3 DEF WriteOwn
  <1>7. Covered'
    <2> SUFFICES ASSUME NEW q \in DP, slot'[q].body # Torn
                 PROVE  slot'[q].body.rejected <= mine[q].rejected
      BY <1>2 DEF Covered
    <2>1. /\ slot[q].body # Torn => slot[q].body.rejected <= mine[q].rejected
          /\ mine[q].rejected \in Nat /\ q \in Slots
      BY <1>1 DEF Covered, Terms
    <2> QED
      BY <1>4, <1>6, <2>1
  <1>8. sup.i = p => sup.place \in {"poll", "stopped"}
    BY <1>1, <1>3 DEF TypeInv, Lifecycle
  <1>9. Fold' /\ Round'
    <2>1. slot'[Retired] = slot[Retired]
      BY <1>4, <1>5
    <2>2. sup.place \notin {"poll", "stopped"} => slot'[sup.i] = slot[sup.i]
      BY <1>1, <1>4, <1>8, Places DEF TypeOK
    <2> QED
      BY <1>1, <1>2, <2>1, <2>2 DEF Fold, Round, Odd
  <1>10. slot'[Retired] = slot[Retired] /\ Retained' = Retained
    BY <1>2, <1>4, <1>5 DEF Retained
  <1>11. \A q \in DP \ {p} : Counted'[q] = Counted[q] /\ Listed'[q] = Listed[q]
    <2> SUFFICES ASSUME NEW q \in DP \ {p}
                 PROVE  Counted'[q] = Counted[q] /\ Listed'[q] = Listed[q]
      OBVIOUS
    <2>1. slot'[q] = slot[q] /\ mine'[q] = mine[q] /\ Handled(q)' = Handled(q)
      BY <1>1, <1>2, <1>4 DEF Handled, Terms
    <2> QED
      BY <1>1, <2>1 DEF Terms
  <1>12. /\ Counted'[p] = Counted[p] /\ Counted[p] \in Nat
         /\ Listed[p] <= Listed'[p] /\ Listed[p] \in Nat /\ Listed'[p] \in Nat
    <2>1. /\ Counted'[p] = mine[p].rejected /\ Counted[p] = mine[p].rejected
          /\ mine[p].rejected \in Nat
      BY <1>1, <1>2, <1>3 DEF Terms
    <2>2. /\ Listed[p] = IF slot[p].body = Torn THEN mine[p].rejected ELSE slot[p].body.rejected
          /\ Listed'[p] = IF slot'[p].body = Torn THEN mine[p].rejected
                          ELSE slot'[p].body.rejected
          /\ slot[p].body.rejected \in Nat /\ slot'[p].body.rejected \in Nat
          /\ slot[p].body # Torn => slot[p].body.rejected <= mine[p].rejected
      BY <1>1, <1>2, <1>3 DEF Terms, Covered
    <2>3. CASE slot'[p].body = slot[p].body
      BY <2>1, <2>2, <2>3
    <2>4. CASE slot'[p].body = Torn
      BY <2>1, <2>2, <2>4
    <2>5. CASE slot'[p].body # Torn /\ slot'[p].body.rejected = mine[p].rejected
      BY <2>1, <2>2, <2>5
    <2> QED
      BY <2>3, <2>4, <2>5, <1>6
  <1>13. Moves(p)
    BY <1>1, <1>2, <1>10, <1>11, <1>12 DEF Moves
  <1> QED
    BY <1>1, <1>7, <1>9, <1>13, MovesTally

\* The supervisor finds a dead process: its slot is readable and will be
\* folded, or its rejections are given up.
LEMMA ReapTally ==
    ASSUME RInv, TypeInv', NEW p \in DP, Reap(p)
    PROVE  Covered' /\ Fold' /\ Round' /\ Tally' /\ Scan'
  <1>1. /\ TypeOK /\ TypeInv /\ IInv /\ Tally /\ Scan /\ Covered /\ Fold /\ Round /\ Marked
        /\ Terms /\ Terms' /\ shed \in Nat /\ skipped \in Nat
    BY TermsNow, TermsNext DEF RInv, IInv, TypeInv, TypeOK
  <1>2. UNCHANGED <<slot, mine, read, health, shed>> /\ sup.place = "poll"
    BY DEF Reap, Elsewhere, planes
  <1>3. /\ p \in Slots /\ Retired \in Slots /\ slot[Retired].body # Torn
        /\ \A q \in DP : ~Handled(q)
    BY <1>1, <1>2, Places DEF Marked, Handled
  <1>4. Covered' /\ Round'
    <2>1. sup'.place # "stopped"
      <3>1. PICK n : sup' = [place |-> IF Odd(p) THEN "mark" ELSE "fold_mark", i |-> p,
                             sum |-> n, folds |-> ~Odd(p)]
        BY Zenon DEF Reap
      <3> QED
        BY <3>1
    <2> QED
      BY <1>1, <1>2, <2>1 DEF Covered, Round
  <1>5. Retained' = Retained
    BY <1>2, <1>3 DEF Retained
  <1>6. CASE Odd(p)
    <2>1. /\ sup' = [place |-> "mark", i |-> p, sum |-> 0, folds |-> FALSE]
          /\ skipped' = skipped + mine[p].rejected
      <3>1. Odd(p) <=> TRUE
        BY <1>6
      <3> QED
        BY <3>1, Zenon DEF Reap
    <2>2. sup'.place = "mark" /\ sup'.i = p
      BY <2>1
    <2>3. Fold'
      <3>1. Odd(p)'
        BY <1>2, <1>6 DEF Odd
      <3> QED
        BY <2>2, <3>1 DEF Fold
    <2>4. Handled(p)' /\ \A q \in DP \ {p} : ~Handled(q)'
      BY <2>2 DEF Handled
    <2>5. \A q \in DP \ {p} : Counted'[q] = Counted[q] /\ Listed'[q] = Listed[q]
      BY <1>1, <1>2, <1>3, <2>4 DEF Terms
    <2>6. /\ Counted'[p] = 0 /\ Counted[p] \in Nat /\ Listed'[p] = 0
          /\ Listed[p] \in Nat /\ Listed[p] <= mine[p].rejected /\ mine[p].rejected \in Nat
      BY <1>1, <1>2, <1>3, <2>4 DEF Terms, Covered
    <2>7. Moves(p)
      BY <1>1, <1>2, <1>5, <2>1, <2>5, <2>6 DEF Moves
    <2> QED
      BY <1>1, <1>4, <2>3, <2>7, MovesTally
  <1>7. CASE ~Odd(p)
    <2>1. /\ sup' = [place |-> "fold_mark", i |-> p, sum |-> Folded(p), folds |-> TRUE]
          /\ skipped' = skipped
      BY <1>7, Zenon DEF Reap
    <2>2. /\ sup'.place = "fold_mark" /\ sup'.i = p /\ sup'.sum = Folded(p)
          /\ sup'.folds = TRUE
      BY <2>1
    <2>3. Fold'
      <3>1. slot[p].body # Torn
        BY <1>1, <1>3, <1>7 DEF Marked
      <3> QED
        BY <1>2, <2>2, <3>1 DEF Fold, Folded
    <2>4. \A q \in DP : ~Handled(q)'
      BY <2>2 DEF Handled
    <2>5. \A q \in DP : Counted'[q] = Counted[q] /\ Listed'[q] = Listed[q]
      BY <1>1, <1>2, <1>3, <2>4 DEF Terms
    <2>6. Counted[p] \in Nat /\ Listed[p] \in Nat
      BY <1>1, <1>3 DEF Terms
    <2>7. Moves(p)
      BY <1>1, <1>2, <1>5, <2>1, <2>5, <2>6 DEF Moves
    <2> QED
      BY <1>1, <1>4, <2>3, <2>7, MovesTally
  <1> QED
    BY <1>6, <1>7

\* The supervisor clears the slot, whose rejections are accounted for.
LEMMA ReclaimTally ==
    ASSUME RInv, TypeInv', Reclaim
    PROVE  Covered' /\ Fold' /\ Round' /\ Tally' /\ Scan'
  <1>1. /\ TypeOK /\ TypeInv /\ IInv /\ Tally /\ Scan /\ Covered /\ Fold /\ Round /\ Marked
        /\ Terms /\ Terms' /\ shed \in Nat /\ skipped \in Nat
    BY TermsNow, TermsNext DEF RInv, IInv, TypeInv, TypeOK
  <1>2. PICK p \in DP : p = sup.i
    BY <1>1 DEF TypeOK
  <1>3. /\ UNCHANGED <<mine, read, health, shed, skipped>>
        /\ sup.place \in {"mark", "tear", "fields"}
    BY DEF Reclaim, Elsewhere, planes
  <1>4. p \in Slots /\ p # Retired /\ Retired \in Slots /\ slot[Retired].body # Torn
    BY <1>1, <1>3, Places DEF Marked
  <1>5. \A j \in Slots \ {p} : slot'[j] = slot[j]
    BY <1>1, <1>2, <1>4, WriteSteps DEF Written
  <1>6. PICK pl \in {"tear", "fields", "fold_end", "spawn"} : sup' = [sup EXCEPT !.place = pl]
    BY DEF Reclaim, Goes
  <1>7. sup'.place = pl /\ sup'.i = p
    BY <1>1, <1>2, <1>6 DEF TypeOK
  <1>8. /\ slot'[p].body \in {slot[p].body, Torn, Cleared}
        /\ pl \in {"fold_end", "spawn"} => slot'[p].body = Cleared
    <2>1. CASE sup.place = "mark"
      <3>1. Mark(p) /\ Goes("tear")
        BY <1>2, <2>1 DEF Reclaim
      <3>2. pl = "tear"
        BY <1>1, <1>7, <3>1 DEF Goes, TypeOK
      <3> QED
        BY <1>1, <1>4, <3>1, <3>2, MarkOdd
    <2>2. CASE sup.place = "tear"
      <3>1. Tear(p) /\ Goes("fields")
        BY <1>2, <2>2 DEF Reclaim
      <3>2. pl = "fields"
        BY <1>1, <1>7, <3>1 DEF Goes, TypeOK
      <3>3. slot'[p] = [seq |-> slot[p].seq, body |-> Torn]
        BY <1>1, <1>4, <3>1, Bodies, StoreEffect
      <3> QED
        BY <3>2, <3>3
    <2>3. CASE sup.place = "fields"
      <3>1. Store(p, Cleared)
        BY <1>2, <2>3 DEF Reclaim
      <3>2. slot'[p] = [seq |-> slot[p].seq + 1, body |-> Cleared]
        BY <1>1, <1>4, <3>1, Bodies, StoreEffect
      <3> QED
        BY <3>2
    <2> QED
      BY <1>3, <2>1, <2>2, <2>3
  <1>9. Cleared.rejected = 0
    BY DEF Cleared, Fields, Zero
  <1>10. Covered'
    <2> SUFFICES ASSUME NEW q \in DP, slot'[q].body # Torn
                 PROVE  slot'[q].body.rejected <= mine[q].rejected
      BY <1>3 DEF Covered
    <2>1. /\ slot[q].body # Torn => slot[q].body.rejected <= mine[q].rejected
          /\ mine[q].rejected \in Nat /\ q \in Slots
      BY <1>1 DEF Covered, Terms
    <2>2. CASE q = p
      BY <1>8, <1>9, <2>1, <2>2
    <2>3. CASE q # p
      BY <1>5, <2>1, <2>3
    <2> QED
      BY <2>2, <2>3
  <1>11. Fold' /\ Round'
    <2>1. slot'[Retired] = slot[Retired]
      BY <1>4, <1>5
    <2>2. Fold'
      BY <1>7, <1>8 DEF Fold
    <2>3. Round'
      BY <1>1, <1>3, <1>7, <2>1 DEF Round
    <2> QED
      BY <2>2, <2>3
  <1>12. slot'[Retired] = slot[Retired] /\ Retained' = Retained
    BY <1>4, <1>5 DEF Retained
  <1>13. /\ Handled(p) /\ Handled(p)'
         /\ \A q \in DP \ {p} : ~Handled(q) /\ ~Handled(q)'
    BY <1>2, <1>3, <1>7 DEF Handled
  <1>14. \A q \in DP \ {p} : Counted'[q] = Counted[q] /\ Listed'[q] = Listed[q]
    <2> SUFFICES ASSUME NEW q \in DP \ {p}
                 PROVE  Counted'[q] = Counted[q] /\ Listed'[q] = Listed[q]
      OBVIOUS
    <2>1. slot'[q] = slot[q] /\ mine'[q] = mine[q]
      BY <1>1, <1>3, <1>5 DEF Terms
    <2> QED
      BY <1>1, <1>13, <2>1 DEF Terms
  <1>15. Counted'[p] = 0 /\ Counted[p] = 0 /\ Listed'[p] = 0 /\ Listed[p] = 0
    BY <1>1, <1>13 DEF Terms
  <1>16. Moves(p)
    BY <1>1, <1>3, <1>12, <1>14, <1>15 DEF Moves
  <1> QED
    BY <1>1, <1>10, <1>11, <1>16, MovesTally

\* The next generation starts with nothing counted and nothing listed.
LEMMA RespawnTally ==
    ASSUME RInv, TypeInv', NEW lived \in BOOLEAN, Respawn(lived)
    PROVE  Covered' /\ Fold' /\ Round' /\ Tally' /\ Scan'
  <1>1. /\ TypeOK /\ TypeInv /\ IInv /\ Tally /\ Scan /\ Covered /\ Fold /\ Round /\ Marked
        /\ Terms /\ Terms' /\ shed \in Nat /\ skipped \in Nat
    BY TermsNow, TermsNext DEF RInv, IInv, TypeInv, TypeOK
  <1>2. PICK p \in DP : p = sup.i
    BY <1>1 DEF TypeOK
  <1>3. /\ UNCHANGED <<slot, read, health, shed, skipped>> /\ sup.place = "spawn"
        /\ sup' = Polling /\ mine' = [mine EXCEPT ![p] = Zero]
    BY <1>2 DEF Respawn, history
  <1>4. slot[Retired].body # Torn /\ slot[p].body = Cleared
    BY <1>1, <1>2, <1>3 DEF Marked, Fold
  <1>5. Cleared.rejected = 0 /\ Zero.rejected = 0 /\ Cleared # Torn /\ sup'.place = "poll"
    BY <1>3, Bodies DEF Cleared, Fields, Zero, Polling
  <1>6. mine'[p].rejected = 0 /\ \A q \in DP \ {p} : mine'[q] = mine[q]
    BY <1>1, <1>3, <1>5 DEF TypeOK
  <1>7. Covered'
    BY <1>1, <1>3, <1>4, <1>5, <1>6 DEF Covered
  <1>8. Fold' /\ Round'
    BY <1>1, <1>3, <1>5 DEF Fold, Round
  <1>9. Retained' = Retained
    BY <1>3, <1>4 DEF Retained
  <1>10. /\ Handled(p) /\ \A q \in DP : ~Handled(q)'
         /\ \A q \in DP \ {p} : ~Handled(q)
    BY <1>2, <1>3, <1>5 DEF Handled
  <1>11. \A q \in DP \ {p} : Counted'[q] = Counted[q] /\ Listed'[q] = Listed[q]
    BY <1>1, <1>3, <1>6, <1>10 DEF Terms
  <1>12. Counted'[p] = 0 /\ Counted[p] = 0 /\ Listed'[p] = 0 /\ Listed[p] = 0
    BY <1>1, <1>3, <1>4, <1>5, <1>6, <1>10 DEF Terms
  <1>13. Moves(p)
    BY <1>1, <1>3, <1>5, <1>9, <1>11, <1>12 DEF Moves
  <1> QED
    BY <1>1, <1>7, <1>8, <1>13, MovesTally

\* After too many deaths nothing is reported any more.
LEMMA FailClosedTally ==
    ASSUME RInv, NEW lived \in BOOLEAN, FailClosed(lived)
    PROVE  Covered' /\ Fold' /\ Round' /\ Tally' /\ Scan'
  <1>1. /\ UNCHANGED <<slot, mine>> /\ sup' = [Polling EXCEPT !.place = "stopped"]
        /\ health' = [Idle EXCEPT !.last = health.last]
    BY DEF FailClosed
  <1>2. sup'.place = "stopped" /\ health'.place = "idle" /\ health'.rejected = 0
    BY <1>1 DEF Polling, Idle
  <1>3. Covered'
    BY <1>1 DEF RInv, Covered
  <1> QED
    BY <1>2, <1>3 DEF Fold, Round, Tally, Scan

\* The supervisor moves the rejections of the dead slot to the retired one, in
\* the store that tears it, and no round that began before ends well.
LEMMA FoldTally ==
    ASSUME RInv, TypeInv', FoldRetired \/ FoldEnd
    PROVE  Covered' /\ Fold' /\ Round' /\ Tally' /\ Scan'
  <1>1. /\ TypeOK /\ TypeInv /\ IInv /\ Tally /\ Scan /\ Covered /\ Fold /\ Round /\ Marked
        /\ Terms /\ Terms' /\ shed \in Nat /\ skipped \in Nat
    BY TermsNow, TermsNext DEF RInv, IInv, TypeInv, TypeOK
  <1>2. PICK p \in DP : p = sup.i
    BY <1>1 DEF TypeOK
  <1>3. /\ UNCHANGED <<mine, read, health, shed, skipped>>
        /\ sup.place \in {"fold_mark", "fold_tear", "fold_fields", "fold_end"}
    BY DEF FoldRetired, FoldEnd, Elsewhere, planes
  <1>4. p \in Slots /\ p # Retired /\ Retired \in Slots /\ DP \subseteq Slots
    BY Places
  <1>5. /\ \A j \in Slots \ {Retired} : slot'[j] = slot[j]
        /\ slot'[Retired].seq \in {slot[Retired].seq, slot[Retired].seq + 1}
    BY <1>1, <1>4, WriteSteps DEF Written
  <1>6. \A q \in DP : slot'[q] = slot[q]
    BY <1>4, <1>5, Places
  <1>7. Covered'
    BY <1>1, <1>3, <1>6 DEF Covered
  <1>8. PICK pl \in {"fold_tear", "fold_fields", "mark", "spawn"} :
            sup' = [sup EXCEPT !.place = pl]
    BY DEF FoldRetired, FoldEnd, Goes
  <1>9. sup'.place = pl /\ sup'.i = p /\ sup'.sum = sup.sum /\ sup'.folds = sup.folds
    BY <1>1, <1>2, <1>8 DEF TypeOK
  <1>10. slot[Retired].seq \in Nat /\ health.version \in Nat
    BY <1>1, <1>4 DEF TypeOK
  <1>11. Round'
    BY <1>1, <1>3, <1>5, <1>9, <1>10 DEF Round
  <1>12. CASE sup.place = "fold_mark"
    <2>1. Mark(Retired) /\ Goes("fold_tear") /\ pl = "fold_tear"
      BY <1>1, <1>9, <1>12 DEF FoldRetired, FoldEnd, Goes, TypeOK
    <2>2. slot'[Retired].seq % 2 = 1 /\ slot'[Retired].body = slot[Retired].body
      BY <1>1, <1>4, <2>1, MarkOdd
    <2>3. slot[Retired].body # Torn
      BY <1>1, <1>12 DEF Marked
    <2>4. Fold'
      BY <1>1, <1>2, <1>6, <1>9, <1>12, <2>1, <2>2 DEF Fold
    <2>5. Scan'
      BY <1>1, <1>3, <2>2 DEF Round, Scan
    <2>6. Retained' = Retained /\ Counted' = Counted /\ Listed' = Listed
      BY <1>2, <1>3, <1>6, <1>9, <1>12, <2>1, <2>2, <2>3 DEF Retained, Counted, Listed, Handled
    <2> QED
      BY <1>1, <1>3, <1>7, <1>11, <1>12, <2>4, <2>5, <2>6 DEF Tally
  <1>13. CASE sup.place = "fold_tear"
    <2>1. Tear(Retired) /\ Goes("fold_fields") /\ pl = "fold_fields"
      BY <1>1, <1>9, <1>13 DEF FoldRetired, FoldEnd, Goes, TypeOK
    <2>2. slot'[Retired] = [seq |-> slot[Retired].seq, body |-> Torn]
      BY <1>1, <1>4, <2>1, Bodies, StoreEffect
    <2>3. slot'[Retired].seq % 2 = 1 /\ slot'[Retired].body = Torn
      BY <1>1, <1>13, <2>2 DEF Marked, Folding, Odd
    <2>4. Fold'
      BY <1>1, <1>9, <1>13, <2>1, <2>3 DEF Fold
    <2>5. Scan'
      BY <1>1, <1>3, <2>3 DEF Round, Scan
    <2>6. Tally'
      <3> DEFINE c == Counted
                 cc == Counted'
                 l == Listed
                 ll == Listed'
      <3>1. /\ c \in [DP -> Nat] /\ cc \in [DP -> Nat] /\ l \in [DP -> Nat] /\ ll \in [DP -> Nat]
            /\ Retained \in Nat /\ health.last \in Nat
        BY <1>1, CountType, CountTypeNext DEF CountTypes
      <3>2. /\ ~Handled(p) /\ Handled(p)' /\ slot[p].body # Torn
            /\ \A q \in DP \ {p} : ~Handled(q) /\ ~Handled(q)'
        BY <1>1, <1>2, <1>9, <1>13, <2>1 DEF Handled, Fold
      <3>3. \A q \in DP \ {p} : cc[q] = c[q] /\ ll[q] = l[q]
        BY <1>1, <1>3, <1>6, <3>2 DEF Terms
      <3>4. /\ cc[p] = 0 /\ ll[p] = 0 /\ l[p] = slot[p].body.rejected
            /\ l[p] <= c[p] /\ l[p] \in Nat /\ c[p] \in Nat
        BY <1>1, <1>3, <3>2 DEF Terms, Covered
      <3>5. Retained' = Retained + l[p]
        <4>1. slot[Retired].body # Torn
          BY <1>1, <1>13 DEF Marked
        <4> QED
          BY <1>1, <1>2, <1>9, <1>13, <2>3, <3>4, <4>1 DEF Retained, Fold
      <3>6. /\ Retained + SumFunctionOnSet(c, DP) <= shed
            /\ health.last <= Retained + SumFunctionOnSet(l, DP) + skipped
        BY <1>1, <1>13 DEF Tally
      <3> SUFFICES /\ Retained' + SumFunctionOnSet(cc, DP) <= shed
                   /\ health.last <= Retained' + SumFunctionOnSet(ll, DP) + skipped
        BY <1>3 DEF Tally
      <3> HIDE DEF c, cc, l, ll
      <3>7. /\ IsFiniteSet(DP)
            /\ \A q \in DP : /\ c[q] \in Nat /\ cc[q] \in Nat
                              /\ l[q] \in Nat /\ ll[q] \in Nat
        BY <3>1, Planes
      <3>8. /\ SumFunctionOnSet(c, DP) \in Nat /\ SumFunctionOnSet(cc, DP) \in Nat
            /\ SumFunctionOnSet(l, DP) \in Nat /\ SumFunctionOnSet(ll, DP) \in Nat
        BY <3>1, PlaneSum
      <3>9. SumFunctionOnSet(cc, DP) + c[p] = SumFunctionOnSet(c, DP) + cc[p]
        BY <3>3, <3>7, SumChange
      <3>10. SumFunctionOnSet(ll, DP) + l[p] = SumFunctionOnSet(l, DP) + ll[p]
        BY <3>3, <3>7, SumChange
      <3> QED
        BY <1>1, <3>1, <3>4, <3>5, <3>6, <3>8, <3>9, <3>10
    <2> QED
      BY <1>7, <1>11, <2>4, <2>5, <2>6
  <1>14. CASE sup.place = "fold_fields"
    <2> DEFINE b == [Cleared EXCEPT !.rejected = sup.sum]
    <2>1. WriteFields(Retired, b) /\ Goes("mark") /\ pl = "mark"
      BY <1>1, <1>9, <1>14 DEF FoldRetired, FoldEnd, Goes, TypeOK
    <2>2. b \in Body /\ b # Torn /\ b.rejected = sup.sum
      BY <1>1 DEF TypeOK, Cleared, Torn, Fields, Zero, Body
    <2> HIDE DEF b
    <2>3. slot'[Retired] = [seq |-> slot[Retired].seq, body |-> b]
      BY <1>1, <1>4, <2>1, <2>2, StoreEffect
    <2>4. slot'[Retired].seq % 2 = 1 /\ slot'[Retired].body = b
      BY <1>1, <1>14, <2>3 DEF Marked, Folding, Odd
    <2>5. Fold'
      BY <1>1, <1>9, <1>14, <2>1 DEF Fold
    <2>6. Scan'
      BY <1>1, <1>3, <2>4 DEF Round, Scan
    <2>7. Retained' = Retained
      BY <1>1, <1>14, <2>2, <2>4 DEF Retained, Fold
    <2>8. Counted' = Counted /\ Listed' = Listed
      BY <1>2, <1>3, <1>6, <1>9, <1>14, <2>1 DEF Counted, Listed, Handled
    <2> QED
      BY <1>1, <1>3, <1>7, <1>11, <1>14, <2>5, <2>6, <2>7, <2>8 DEF Tally
  <1>15. CASE sup.place = "fold_end"
    <2>1. EndWrite(Retired) /\ Goes("spawn") /\ pl = "spawn"
      BY <1>1, <1>9, <1>15 DEF FoldRetired, FoldEnd, Goes, TypeOK
    <2>2. slot'[Retired] = [seq |-> slot[Retired].seq + 1, body |-> slot[Retired].body]
      BY <1>1, <1>4, <2>1, Bodies, StoreEffect
    <2>3. slot'[Retired].seq = slot[Retired].seq + 1 /\ slot'[Retired].body = slot[Retired].body
      BY <2>2
    <2>4. Fold'
      BY <1>1, <1>2, <1>6, <1>9, <1>15, <2>1 DEF Fold
    <2>5. Scan'
      BY <1>1, <1>3, <1>10, <2>3 DEF Round, Scan
    <2>6. Retained' = Retained /\ Counted' = Counted /\ Listed' = Listed
      BY <1>2, <1>3, <1>6, <1>9, <1>15, <2>1, <2>3 DEF Retained, Counted, Listed, Handled
    <2> QED
      BY <1>1, <1>3, <1>7, <1>11, <1>15, <2>4, <2>5, <2>6 DEF Tally
  <1> QED
    BY <1>3, <1>12, <1>13, <1>14, <1>15

\* What is ahead of the first slot, of the retired slot, and of the next one.
LEMMA Scanned ==
    /\ Ahead(0) = DP /\ Behind(0) = {} /\ Ahead(Retired) = {} /\ Behind(Retired) = DP
    /\ \A i \in DP : /\ i \in Ahead(i) /\ Ahead(i) \ {i} = Ahead(i + 1)
                     /\ i \in Behind(i + 1) /\ Behind(i + 1) \ {i} = Behind(i)
                     /\ i = NumDP - 1 <=> i + 1 = Retired
                     /\ i # NumDP - 1 => i + 1 \in DP
    /\ \A i : Ahead(i) \in SUBSET DP /\ Behind(i) \in SUBSET DP
  BY SizesAssumption DEF Ahead, Behind, DP, Retired

\* What the control plane reads in a slot as long as no fold is under way.
LEMMA ViewListed ==
    ASSUME RInv, health.place = "slots", Stable(CP), slot[Retired].seq = health.version,
           NEW i \in DP, i = read[CP].at
    PROVE  /\ read[CP].view.rejected = Listed[i]
           /\ Listed[i] <= Counted[i]
  <1>1. /\ TypeOK /\ TypeInv /\ Covered /\ Fold /\ Round /\ Marked /\ Reads /\ Exact /\ Terms
        /\ CP \in Reader /\ i \in Slots /\ Retired \in Slots
    BY TermsNow, Places DEF RInv, IInv, TypeInv
  <1>2. read[CP].view = slot[i].body /\ slot[i].body # Torn /\ ~Odd(i)
    <2>1. /\ read[CP].view = slot[i].body /\ read[CP].view # Torn
          /\ read[CP].before % 2 = 0 /\ slot[i].seq = read[CP].before
      BY <1>1 DEF Exact, Reads, Stable
    <2> QED
      BY <2>1 DEF Odd
  <1>3. CASE ~Handled(i)
    BY <1>1, <1>2, <1>3 DEF Terms, Covered
  <1>4. CASE Handled(i)
    <2>1. ~Odd(Retired)
      BY <1>1 DEF Round, Odd
    <2>2. ~Folding
      BY <1>1, <2>1 DEF Marked
    <2>3. sup.i = i /\ sup.place = "spawn"
      <3>1. /\ sup.i = i
            /\ sup.place \in {"fold_fields", "mark", "tear", "fields", "fold_end", "spawn"}
        BY <1>1, <1>4 DEF Handled, TypeOK
      <3>2. sup.place \notin {"fold_fields", "fold_end", "tear", "fields"}
        BY <1>1, <1>2, <2>2, <3>1 DEF Folding, Marked
      <3>3. sup.place # "mark"
        BY <1>1, <1>2, <2>2, <3>1 DEF Folding, Fold
      <3> QED
        BY <3>1, <3>2, <3>3
    <2>4. slot[i].body = Cleared /\ Cleared.rejected = 0
      BY <1>1, <2>3 DEF Fold, Cleared, Fields, Zero
    <2> QED
      BY <1>1, <1>2, <1>4, <2>4 DEF Terms
  <1> QED
    BY <1>3, <1>4

\* What a round that may report has summed.
LEMMA Summed ==
    ASSUME RInv, SameVersion
    PROVE  /\ read[CP].view.rejected = Retained /\ sup.place # "stopped"
           /\ health.rejected + Retained <= shed
           /\ health.last <= health.rejected + Retained + skipped
           /\ health.rejected <= SumFunctionOnSet(Listed, DP) + skipped
  <1>1. /\ TypeInv /\ Round /\ Reads /\ Exact /\ Scan /\ CP \in Reader /\ CountTypes
    BY CountType, Places DEF RInv, IInv
  <1>2. /\ read[CP].at = Retired /\ slot[Retired].seq = health.version
        /\ read[CP].view = slot[Retired].body /\ read[CP].view # Torn
    BY <1>1 DEF SameVersion, Round, Exact, Reads, Stable
  <1>3. /\ health.rejected + Retained + SumFunctionOnSet(Counted, {}) <= shed
        /\ health.last <= health.rejected + Retained + SumFunctionOnSet(Listed, {}) + skipped
        /\ health.rejected <= SumFunctionOnSet(Listed, DP) + skipped
    BY <1>1, <1>2, Scanned DEF SameVersion, Scan
  <1>4. SumFunctionOnSet(Counted, {}) = 0 /\ SumFunctionOnSet(Listed, {}) = 0
    BY SumEmpty
  <1>5. read[CP].view.rejected = Retained /\ sup.place # "stopped"
    BY <1>1, <1>2 DEF Retained, Round, SameVersion
  <1> QED
    BY <1>1, <1>3, <1>4, <1>5 DEF CountTypes

\* The next slot of a round.
LEMMA SlotTally ==
    ASSUME RInv, HealthSlot
    PROVE  Round' /\ Tally' /\ Scan'
  <1>1. /\ TypeOK /\ TypeInv /\ Round /\ Tally /\ Scan /\ CountTypes /\ CP \in Reader
    BY CountType, Places DEF RInv, IInv, TypeInv
  <1>2. PICK i \in DP : i = read[CP].at
    BY <1>1 DEF HealthSlot, TypeInv, Lifecycle
  <1>3. /\ health.place = "slots" /\ Stable(CP)
        /\ UNCHANGED <<slot, mine, sup, shed, skipped>>
        /\ health' = [health EXCEPT !.place = IF i = NumDP - 1 THEN "retired" ELSE "slots",
                                    !.rejected = @ + read[CP].view.rejected]
        /\ read' = [read EXCEPT ![CP] = Reading(IF i = NumDP - 1 THEN Retired ELSE i + 1)]
    BY <1>2 DEF HealthSlot, CPReads, planes, history
  <1>4. read'[CP].at = i + 1
    <2>1. read' = [read EXCEPT ![CP] = Reading(i + 1)]
      BY <1>3, Scanned
    <2> QED
      BY <1>1, <2>1 DEF TypeOK, Reading
  <1>5. /\ health'.place = IF i = NumDP - 1 THEN "retired" ELSE "slots"
        /\ health'.rejected = health.rejected + read[CP].view.rejected
        /\ health'.version = health.version /\ health'.last = health.last
    BY <1>1, <1>3 DEF TypeOK
  <1>6. Round'
    <2>1. health'.place \in {"slots", "retired"} /\ (health'.place = "retired" => i + 1 = Retired)
      BY <1>5, Scanned
    <2> QED
      BY <1>1, <1>3, <1>4, <1>5, <2>1 DEF Round
  <1>7. Retained' = Retained /\ Counted' = Counted /\ Listed' = Listed
    BY <1>3 DEF Retained, Counted, Listed, Handled
  <1>8. Tally'
    BY <1>1, <1>3, <1>5, <1>7 DEF Tally
  <1>9. Scan'
    <2> DEFINE c == Counted
               l == Listed
               A == Ahead(i)
               AA == Ahead(i + 1)
               B == Behind(i)
               BB == Behind(i + 1)
    <2> SUFFICES ASSUME slot[Retired].seq = health.version
                 PROVE  /\ health'.rejected + Retained + SumFunctionOnSet(c, AA) <= shed
                        /\ health.last <= health'.rejected + Retained
                                            + SumFunctionOnSet(l, AA) + skipped
                        /\ health'.rejected <= SumFunctionOnSet(l, BB) + skipped
      <3>1. Ahead(read[CP].at)' = AA /\ Behind(read[CP].at)' = BB
        BY <1>4 DEF Ahead, Behind
      <3> QED
        BY <1>3, <1>5, <1>7, <3>1 DEF Scan
    <2>1. /\ health.rejected + Retained + SumFunctionOnSet(c, A) <= shed
          /\ health.last <= health.rejected + Retained + SumFunctionOnSet(l, A) + skipped
          /\ health.rejected <= SumFunctionOnSet(l, B) + skipped
      BY <1>1, <1>2, <1>3 DEF Scan
    <2>2. read[CP].view.rejected = l[i] /\ l[i] <= c[i]
      BY <1>2, <1>3, ViewListed
    <2>3. /\ c \in [DP -> Nat] /\ l \in [DP -> Nat] /\ Retained \in Nat /\ shed \in Nat
          /\ skipped \in Nat /\ health.last \in Nat /\ health.rejected \in Nat
      BY <1>1 DEF CountTypes
    <2>4. /\ A \in SUBSET DP /\ AA \in SUBSET DP /\ B \in SUBSET DP /\ BB \in SUBSET DP
          /\ i \in A /\ A \ {i} = AA /\ i \in BB /\ BB \ {i} = B
      BY Scanned
    <2> HIDE DEF c, l, A, AA, B, BB
    <2>5. /\ SumFunctionOnSet(c, A) \in Nat /\ SumFunctionOnSet(c, AA) \in Nat
          /\ SumFunctionOnSet(l, A) \in Nat /\ SumFunctionOnSet(l, AA) \in Nat
          /\ SumFunctionOnSet(l, B) \in Nat /\ SumFunctionOnSet(l, BB) \in Nat
          /\ IsFiniteSet(A) /\ IsFiniteSet(BB)
      BY <2>3, <2>4, PlaneSum
    <2>6. \A q \in DP : c[q] \in Nat /\ l[q] \in Nat
      BY <2>3
    <2>7. SumFunctionOnSet(c, A) = c[i] + SumFunctionOnSet(c, A \ {i})
      <3>1. \A q \in A : c[q] \in Nat
        BY <2>4, <2>6
      <3> QED
        BY <3>1, <2>4, <2>5, SumRemove
    <2>8. SumFunctionOnSet(l, A) = l[i] + SumFunctionOnSet(l, A \ {i})
      <3>1. \A q \in A : l[q] \in Nat
        BY <2>4, <2>6
      <3> QED
        BY <3>1, <2>4, <2>5, SumRemove
    <2>9. SumFunctionOnSet(l, BB) = l[i] + SumFunctionOnSet(l, BB \ {i})
      <3>1. \A q \in BB : l[q] \in Nat
        BY <2>4, <2>6
      <3> QED
        BY <3>1, <2>4, <2>5, SumRemove
    <2>10. c[i] \in Nat /\ l[i] \in Nat /\ health'.rejected = health.rejected + l[i]
      BY <1>5, <2>2, <2>6
    <2>11. health'.rejected + Retained + SumFunctionOnSet(c, AA) <= shed
      <3>1. SumFunctionOnSet(c, A) = c[i] + SumFunctionOnSet(c, AA)
        BY <2>4, <2>7
      <3> QED
        BY <2>1, <2>2, <2>3, <2>5, <2>10, <3>1
    <2>12. health.last <= health'.rejected + Retained + SumFunctionOnSet(l, AA) + skipped
      <3>1. SumFunctionOnSet(l, A) = l[i] + SumFunctionOnSet(l, AA)
        BY <2>4, <2>8
      <3> QED
        BY <2>1, <2>3, <2>5, <2>10, <3>1
    <2>13. health'.rejected <= SumFunctionOnSet(l, BB) + skipped
      <3>1. SumFunctionOnSet(l, BB) = l[i] + SumFunctionOnSet(l, B)
        BY <2>4, <2>9
      <3> QED
        BY <2>1, <2>3, <2>5, <2>10, <3>1
    <2> QED
      BY <2>11, <2>12, <2>13
  <1> QED
    BY <1>6, <1>8, <1>9

\* The rounds of the control plane.
LEMMA HealthTally ==
    ASSUME RInv, Health
    PROVE  Covered' /\ Fold' /\ Round' /\ Tally' /\ Scan'
  <1>1. /\ TypeOK /\ TypeInv /\ Round /\ Tally /\ Scan /\ CountTypes /\ CP \in Reader
        /\ Covered /\ Fold /\ Reads
    BY CountType, Places DEF RInv, IInv, TypeInv
  <1>2. UNCHANGED <<slot, mine, sup, shed, skipped>>
    BY DEF Health, HealthStart, HealthVersion, HealthSlot, HealthReport, HealthAgain,
           HealthFails, CPReads, planes, history
  <1>3. Covered' /\ Fold'
    BY <1>1, <1>2 DEF Covered, Fold, Odd
  <1>4. Retained' = Retained /\ Counted' = Counted /\ Listed' = Listed
    BY <1>2 DEF Retained, Counted, Listed, Handled
  <1>5. CASE HealthStart
    <2>1. /\ health' = [health EXCEPT !.place = "version"] /\ health.place = "idle"
          /\ sup.place # "stopped" /\ read' = [read EXCEPT ![CP] = Reading(Retired)]
      BY <1>5 DEF HealthStart, CPReads
    <2>2. /\ health'.place = "version" /\ health'.rejected = health.rejected
          /\ health'.last = health.last
      BY <1>1, <2>1 DEF TypeOK
    <2>3. read'[CP].at = Retired
      BY <1>1, <2>1 DEF TypeOK, Reading
    <2>4. Round' /\ Scan'
      BY <1>1, <1>2, <2>1, <2>2, <2>3 DEF Round, Scan
    <2>5. Tally'
      BY <1>1, <1>2, <1>4, <2>2 DEF Tally
    <2> QED
      BY <1>3, <2>4, <2>5
  <1>6. CASE HealthAgain \/ HealthFails
    <2>1. \/ /\ health' = [Idle EXCEPT !.place = "version", !.last = health.last]
             /\ read' = [read EXCEPT ![CP] = Reading(Retired)] /\ health.place # "idle"
          \/ health' = [Idle EXCEPT !.last = health.last] /\ health.place # "idle"
      BY <1>6 DEF HealthAgain, HealthFails, CPReads
    <2>2. /\ health'.place \in {"idle", "version"} /\ health'.rejected = 0
          /\ health'.last = health.last
      BY <2>1 DEF Idle
    <2>3. health'.place = "version" => read'[CP].at = Retired
      <3>1. health'.place = "version" => read' = [read EXCEPT ![CP] = Reading(Retired)]
        BY <2>1 DEF Idle
      <3> QED
        BY <1>1, <3>1 DEF TypeOK, Reading
    <2>4. sup.place # "stopped"
      BY <1>1, <2>1 DEF Round
    <2>5. Round' /\ Scan'
      BY <1>2, <2>2, <2>3, <2>4 DEF Round, Scan
    <2>6. Tally'
      BY <1>1, <1>2, <1>4, <2>2 DEF Tally
    <2> QED
      BY <1>3, <2>5, <2>6
  <1>7. CASE HealthVersion
    <2>1. /\ health.place = "version" /\ Stable(CP)
          /\ health' = [health EXCEPT !.place = "slots", !.version = read[CP].before]
          /\ read' = [read EXCEPT ![CP] = Reading(0)]
      BY <1>7 DEF HealthVersion, CPReads
    <2>2. /\ health'.place = "slots" /\ health'.version = read[CP].before
          /\ health'.rejected = 0 /\ health'.last = health.last
      BY <1>1, <2>1 DEF TypeOK, Round
    <2>3. read'[CP].at = 0
      BY <1>1, <2>1 DEF TypeOK, Reading
    <2>4. /\ sup.place # "stopped" /\ read[CP].before % 2 = 0
          /\ slot[Retired].seq = read[CP].before /\ read[CP].before \in Nat
      BY <1>1, <2>1 DEF Round, Stable, Reads, TypeOK
    <2>5. Round'
      BY <1>2, <2>2, <2>4 DEF Round
    <2>6. Tally'
      BY <1>1, <1>2, <1>4, <2>2 DEF Tally
    <2>7. Scan'
      <3>1. Ahead(read[CP].at)' = DP /\ Behind(read[CP].at)' = {}
        <4>1. Ahead(read[CP].at)' = Ahead(0) /\ Behind(read[CP].at)' = Behind(0)
          BY <2>3 DEF Ahead, Behind
        <4> QED
          BY <4>1, Scanned
      <3>2. /\ 0 + Retained + SumFunctionOnSet(Counted, DP) <= shed
            /\ health.last <= 0 + Retained + SumFunctionOnSet(Listed, DP) + skipped
            /\ 0 <= SumFunctionOnSet(Listed, {}) + skipped
        BY <1>1, <2>4, SumEmpty DEF Tally, CountTypes
      <3> QED
        BY <1>2, <1>4, <2>2, <3>1, <3>2 DEF Scan
    <2> QED
      BY <1>3, <2>5, <2>6, <2>7
  <1>8. CASE HealthReport
    <2>1. /\ SameVersion /\ health' = [Idle EXCEPT !.last = Aggregate]
      BY <1>8 DEF HealthReport
    <2>2. health'.place = "idle" /\ health'.rejected = 0 /\ health'.last = Aggregate
      BY <2>1 DEF Idle
    <2>3. Round' /\ Scan'
      BY <2>2 DEF Round, Scan
    <2>4. /\ read[CP].view.rejected = Retained /\ sup.place # "stopped"
          /\ health.rejected <= SumFunctionOnSet(Listed, DP) + skipped
      BY <2>1, Summed
    <2>5. /\ Retained + SumFunctionOnSet(Counted, DP) <= shed
          /\ Aggregate <= Retained + SumFunctionOnSet(Listed, DP) + skipped
      <3>1. SumFunctionOnSet(Listed, DP) \in Nat /\ Retained \in Nat /\ skipped \in Nat
            /\ health.rejected \in Nat
        BY <1>1, PlaneSum DEF CountTypes
      <3> QED
        BY <1>1, <2>4, <3>1 DEF Tally, Aggregate
    <2>6. Tally'
      BY <1>2, <1>4, <2>2, <2>5 DEF Tally
    <2> QED
      BY <1>3, <2>3, <2>6
  <1> QED
    BY <1>3, <1>5, <1>6, <1>7, <1>8, SlotTally DEF Health

\* The invariant of the aggregate is inductive.
LEMMA RejectionStep == RInv /\ [Next]_vars => RInv'
  <1> SUFFICES ASSUME RInv, [Next]_vars PROVE RInv'
    OBVIOUS
  <1>1. IInv'
    BY TypeStep, MarkedStep, ReadsStep, OwnerStep DEF RInv, IInv
  <1>2. TypeInv'
    BY <1>1 DEF IInv
  <1>3. Exact'
    BY ExactStep DEF RInv
  <1>4. Covered' /\ Fold' /\ Round' /\ Tally' /\ Scan'
    <2>1. ASSUME NEW p \in DP,
                 \/ TryAcquire(p) \/ ShedFromCache(p) \/ SumNext(p) \/ Decide(p)
                 \/ SumFails(p) \/ Release(p) \/ Touch(p) \/ WriteOwn(p) \/ Crash(p)
          PROVE  Covered' /\ Fold' /\ Round' /\ Tally' /\ Scan'
      BY <1>2, <2>1, AsideTally, WriteTally
    <2>2. CASE Supervisor
      BY <1>2, <2>2, ReapTally, FoldTally, ReclaimTally, RespawnTally, FailClosedTally
      DEF Supervisor
    <2>3. CASE \/ \E x \in Reader : ReadSeq(x) \/ ReadFields(x) \/ ReadRetry(x)
               \/ Terminated \/ UNCHANGED vars
      BY <1>2, <2>3, AsideTally
    <2>4. CASE Health
      BY <2>4, HealthTally
    <2> QED
      BY <2>1, <2>2, <2>3, <2>4 DEF Next
  <1> QED
    BY <1>1, <1>3, <1>4 DEF RInv

\* ... and holds at the start.
LEMMA InitRejections == Init => RInv
  <1> SUFFICES ASSUME Init PROVE RInv
    OBVIOUS
  <1>1. IInv /\ TypeInv /\ TypeOK /\ CountTypes
    BY InitSound, CountType DEF IInv, TypeInv
  <1>2. /\ \A p \in DP : /\ slot[p].body # Torn /\ slot[p].body.rejected = 0
                         /\ mine[p].rejected = 0
        /\ slot[Retired].body # Torn /\ slot[Retired].body.rejected = 0
        /\ \A x \in Reader : read[x].step = "none"
    <2>1. /\ Fields(Zero, 1) # Torn /\ Fields(Zero, 1).rejected = 0 /\ Zero.rejected = 0
          /\ Cleared # Torn /\ Cleared.rejected = 0
      BY Bodies DEF Fields, Zero, Cleared
    <2>2. \A p \in DP : /\ slot[p].body = Fields(Zero, 1) /\ mine[p] = Zero
      BY Places DEF Init
    <2>3. slot[Retired].body = Cleared /\ \A x \in Reader : read[x].step = "none"
      BY Places DEF Init, NotReading
    <2> QED
      BY <2>1, <2>2, <2>3
  <1>3. sup.place = "poll" /\ health.place = "idle" /\ health.rejected = 0 /\ health.last = 0
        /\ shed = 0 /\ skipped = 0
    BY DEF Init, Polling, Idle
  <1>4. Exact /\ Covered /\ Fold /\ Round /\ Scan
    BY <1>2, <1>3 DEF Exact, Stable, Covered, Fold, Round, Scan
  <1>5. Tally
    <2>1. \A p \in DP : Counted[p] = 0 /\ Listed[p] = 0
      BY <1>2 DEF Counted, Listed
    <2>2. SumFunctionOnSet(Counted, DP) = 0
      <3>1. \A p \in DP : Counted[p] \in Nat /\ 1 .. Counted[p] = {}
        BY <2>1
      <3>2. Units(Counted, DP) = {}
        BY <3>1 DEF Units
      <3> QED
        BY <3>1, <3>2, Planes, SumIsUnits, FS_EmptySet
    <2>3. SumFunctionOnSet(Listed, DP) \in Nat
      BY <1>1, PlaneSum DEF CountTypes
    <2> QED
      BY <1>2, <1>3, <2>2, <2>3 DEF Tally, Retained
  <1> QED
    BY <1>1, <1>4, <1>5 DEF RInv

\* Whatever a fold moves while the control plane sums the slots, and whoever
\* dies meanwhile, a round that reports has counted no rejection twice.
THEOREM NothingInvented == Spec => []NeverInvents
  <1>1. RInv => NeverInvents
    <2> SUFFICES ASSUME RInv, SameVersion PROVE Aggregate <= shed
      BY DEF NeverInvents
    <2> QED
      BY Summed DEF Aggregate
  <1> QED
    BY <1>1, InitRejections, RejectionStep, PTL DEF Spec

\* ... and a report is below the one before it by no more than what was skipped
\* at reclaims.
THEOREM NothingLost == Spec => NeverBackwards
  <1>1. RInv /\ [Next]_vars => [health'.last + skipped >= health.last]_vars
    <2> SUFFICES ASSUME RInv, [Next]_vars PROVE health'.last + skipped >= health.last
      OBVIOUS
    <2>1. health.last \in Nat /\ skipped \in Nat /\ health.rejected \in Nat /\ Retained \in Nat
      BY CountType DEF RInv, IInv, CountTypes
    <2>2. CASE HealthReport
      <3>1. SameVersion /\ health'.last = Aggregate
        BY <2>2 DEF HealthReport, Idle
      <3> QED
        BY <2>1, <3>1, Summed DEF Aggregate
    <2>3. CASE ~HealthReport
      <3>1. health'.last = health.last
        <4>1. CASE Health
          <5>1. health \in HealthState
            BY DEF RInv, IInv, TypeInv, TypeOK, HealthState
          <5>2. CASE HealthStart \/ HealthVersion \/ HealthSlot
            BY <5>1, <5>2 DEF HealthStart, HealthVersion, HealthSlot, HealthState
          <5>3. CASE HealthAgain \/ HealthFails
            BY <5>3 DEF HealthAgain, HealthFails, Idle
          <5> QED
            BY <2>3, <4>1, <5>2, <5>3 DEF Health
        <4>2. ASSUME NEW lived \in BOOLEAN, FailClosed(lived) PROVE health'.last = health.last
          BY <4>2 DEF FailClosed, Idle
        <4>3. CASE Supervisor
          BY <4>2, <4>3 DEF Supervisor, Reap, FoldRetired, Reclaim, FoldEnd, Elsewhere, Respawn
        <4>4. ASSUME NEW p \in DP,
                     \/ TryAcquire(p) \/ ShedFromCache(p) \/ SumNext(p) \/ Decide(p)
                     \/ SumFails(p) \/ Release(p) \/ Touch(p) \/ WriteOwn(p) \/ Crash(p)
              PROVE  health'.last = health.last
          BY <4>4 DEF TryAcquire, ShedFromCache, SumNext, Decide, SumFails, Release, Touch,
             WriteOwn, Crash
        <4>5. CASE \/ \E x \in Reader : ReadSeq(x) \/ ReadFields(x) \/ ReadRetry(x)
                   \/ Terminated \/ UNCHANGED vars
          BY <4>5 DEF ReadSeq, ReadFields, ReadRetry, Terminated, vars
        <4> QED
          BY <4>1, <4>3, <4>4, <4>5 DEF Next
      <3> QED
        BY <2>1, <3>1
    <2> QED
      BY <2>2, <2>3
  <1> QED
    BY <1>1, InitRejections, RejectionStep, PTL DEF Spec, NeverBackwards
=============================================================================
