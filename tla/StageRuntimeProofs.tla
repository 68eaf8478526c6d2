------------------------- MODULE StageRuntimeProofs -------------------------
(***************************************************************************)
(* Order, silence and release in a stage, for every set of requests and    *)
(* sources, every script and every wiring.                                 *)
(***************************************************************************)
EXTENDS StageRuntime, SequenceTheorems, TLAPS

-----------------------------------------------------------------------------
(* The inductive invariant.                                                *)

\* The tasks of a lane are the last messages to arrive, in order; only the
\* first can be sending a failure; data is thrown away and failures are sent of
\* aborted requests only.
InLine(l) ==
    \A k \in DOMAIN lane[l] :
        /\ lane[l][k].id + Len(lane[l]) = arrived[l] + k
        /\ lane[l][k].st \in {"draining", "drained", "failing"} => l[1] \in aborted
        /\ lane[l][k].st = "failing" => k = 1

Waiting == \A l \in Lane : InLine(l)

\* Before any task has raised, every message of a living request that is not
\* waiting has been taken, and they were taken one by one.
Gapless ==
    \A l \in Lane : phase = "running" /\ l[1] \notin aborted
                    => Len(taken[l]) + Len(lane[l]) = arrived[l]

OneByOne ==
    \A l \in Lane : \A k \in DOMAIN taken[l] : phase = "running" => taken[l][k] = k

\* What is taken came before what is waiting, whatever has raised.
Behind ==
    \A l \in Lane : \A k \in DOMAIN taken[l] :
        taken[l][k] + Len(lane[l]) <= arrived[l]

Rising ==
    \A l \in Lane : \A k \in DOMAIN taken[l] :
        \A j \in 1 .. k - 1 : taken[l][j] < taken[l][k]

\* A first stage has no lanes, and an aborted request was submitted before.
Entered ==
    /\ config.entry => \A l \in Lane : lane[l] = <<>>
    /\ config.entry => \A r \in aborted : sched[r] # "none"
    /\ \A k \in DOMAIN outbox : sched[outbox[k].req] # "none"

\* Someone will clear the request once its failure is sent.
WillClear(r) ==
    \/ crash = r
    \/ drain # None /\ drain.req = r /\ drain.type = "error"
    \/ \E s \in Source : \E i \in DOMAIN lane[<<r, s>>] :
           lane[<<r, s>>][i].st = "failing"

Released ==
    \A r \in aborted :
        Running /\ ~WillClear(r) => r \notin active \cup open /\ pending[r] = {}

IInv ==
    /\ TypeOK /\ Waiting /\ Gapless /\ OneByOne /\ Behind /\ Rising
    /\ Entered /\ Released

-----------------------------------------------------------------------------
(* Lanes.                                                                  *)

\* The tasks of a lane and the chunks taken from it are well typed.
LEMMA LaneType ==
    ASSUME TypeOK, NEW l \in Lane
    PROVE  /\ lane[l] \in Seq(Task) /\ Len(lane[l]) \in Nat
           /\ DOMAIN lane[l] = 1 .. Len(lane[l])
           /\ \A i \in DOMAIN lane[l] : lane[l][i].id \in Nat /\ lane[l][i].st \in State
  <1>1. lane[l] \in Seq(Task)
    BY DEF TypeOK
  <1>2. Len(lane[l]) \in Nat /\ DOMAIN lane[l] = 1 .. Len(lane[l])
    BY <1>1, LenProperties
  <1>3. \A i \in DOMAIN lane[l] : lane[l][i] \in Task
    BY <1>1, <1>2, ElementOfSeq
  <1> QED
    BY <1>1, <1>2, <1>3 DEF Task

\* A task goes on: the others stay as they are.
LEMMA BecomesEffect ==
    ASSUME TypeOK, NEW l \in Lane, NEW i \in DOMAIN lane[l], NEW st \in State,
           Becomes(l, i, st)
    PROVE  /\ lane' \in [Lane -> Seq(Task)]
           /\ \A m \in Lane \ {l} : lane'[m] = lane[m]
           /\ Len(lane'[l]) = Len(lane[l]) /\ DOMAIN lane'[l] = DOMAIN lane[l]
           /\ lane'[l][i].id = lane[l][i].id /\ lane'[l][i].st = st
           /\ \A k \in DOMAIN lane[l] \ {i} : lane'[l][k] = lane[l][k]
  <1> DEFINE t == [lane[l][i] EXCEPT !.st = st]
             s == [lane[l] EXCEPT ![i] = t]
  <1>1. lane \in [Lane -> Seq(Task)] /\ lane' = [lane EXCEPT ![l] = s]
    BY DEF TypeOK, Becomes
  <1>2. lane[l] \in Seq(Task) /\ i \in 1 .. Len(lane[l])
        /\ DOMAIN lane[l] = 1 .. Len(lane[l])
    BY LaneType
  <1>3. lane[l][i] \in Task
    BY <1>2, ElementOfSeq
  <1>4. t \in Task /\ t.id = lane[l][i].id /\ t.st = st
    BY <1>3 DEF Task
  <1> HIDE DEF t
  <1>5. /\ s \in Seq(Task) /\ Len(s) = Len(lane[l])
        /\ \A j \in 1 .. Len(lane[l]) : s[j] = IF j = i THEN t ELSE lane[l][j]
    BY <1>2, <1>4, ExceptSeq
  <1>6. DOMAIN s = 1 .. Len(s)
    BY <1>5, LenProperties
  <1> HIDE DEF s
  <1>7. lane'[l] = s /\ lane' \in [Lane -> Seq(Task)]
        /\ \A m \in Lane \ {l} : lane'[m] = lane[m]
    BY <1>1, <1>5
  <1> QED
    BY <1>2, <1>4, <1>5, <1>6, <1>7

\* The first task passes: the others move up.
LEMMA PassesEffect ==
    ASSUME TypeOK, NEW l \in Lane, 1 \in DOMAIN lane[l], Passes(l, 1)
    PROVE  /\ lane' \in [Lane -> Seq(Task)]
           /\ \A m \in Lane \ {l} : lane'[m] = lane[m]
           /\ Len(lane'[l]) = Len(lane[l]) - 1
           /\ DOMAIN lane'[l] = 1 .. Len(lane[l]) - 1
           /\ \A k \in DOMAIN lane'[l] : k + 1 \in DOMAIN lane[l]
                                         /\ lane'[l][k] = lane[l][k + 1]
  <1> DEFINE s == lane[l]
             t == Tail(s)
  <1>1. /\ s \in Seq(Task) /\ Len(s) \in Nat /\ Len(s) >= 1
        /\ DOMAIN s = 1 .. Len(s)
    BY LaneType
  <1>2. s # <<>>
    BY <1>1
  <1>3. /\ t \in Seq(Task) /\ Len(t) = Len(s) - 1
        /\ \A i \in 1 .. Len(s) - 1 : t[i] = s[i + 1]
    <2> HIDE DEF s
    <2> QED
      BY <1>1, <1>2, HeadTailProperties
  <1>4. DOMAIN t = 1 .. Len(s) - 1
    BY <1>3, LenProperties
  <1>5. RemoveAt(s, 1) = t
    <2>1. SubSeq(s, 1, 1 - 1) = <<>>
      BY SubSeqEmpty
    <2>2. SubSeq(s, 1 + 1, Len(s)) = t
      BY <1>1, <1>2, TailIsSubSeq
    <2>3. <<>> \o t = t
      BY <1>3, ConcatEmptySeq
    <2> QED
      BY <2>1, <2>2, <2>3 DEF RemoveAt
  <1>6. lane' = [lane EXCEPT ![l] = t] /\ lane \in [Lane -> Seq(Task)]
    BY <1>5 DEF Passes, TypeOK
  <1> HIDE DEF t
  <1>7. lane'[l] = t /\ lane' \in [Lane -> Seq(Task)]
        /\ \A m \in Lane \ {l} : lane'[m] = lane[m]
    BY <1>3, <1>6
  <1> QED
    BY <1>1, <1>3, <1>4, <1>7

\* A task goes on without anything being taken.
GoesOn(l, i) ==
    \E st \in State :
        /\ Becomes(l, i, st)
        /\ taken' = taken
        /\ st \in {"draining", "drained", "failing"} => l[1] \in aborted'
        /\ st = "failing" => i = 1

\* The first task passes and what it carries is taken, if the request lives and
\* the task has not raised.
GoesBy(l, i) ==
    /\ i = 1 /\ Passes(l, 1)
    /\ \/ taken' = taken /\ (l[1] \in aborted \/ phase' # "running")
       \/ taken' = [taken EXCEPT ![l] = Append(@, lane[l][1].id)]
          /\ l[1] \notin aborted

\* A task does one or the other, with its lane alone.
LEMMA TaskEffect ==
    ASSUME Waiting, NEW l \in Lane, NEW i \in DOMAIN lane[l], Step(l, i)
    PROVE  /\ UNCHANGED <<config, arrived, sending, crash, doomed>>
           /\ (phase' = phase) \/ (Running /\ phase' = "broken")
           /\ aborted \subseteq aborted' /\ aborted' \subseteq aborted \cup {l[1]}
           /\ GoesOn(l, i) \/ GoesBy(l, i)
  <1>1. CASE Start(l, i)
    BY <1>1 DEF Start, GoesOn, State, ending
  <1>2. CASE ReadEnds(l, i)
    BY <1>2 DEF ReadEnds, GoesOn, State, Waiting, InLine, requests, ending
  <1>3. CASE Discarded(l, i)
    BY <1>3 DEF Discarded, GoesBy, Turn, Waiting, InLine, requests
  <1>4. ASSUME FailureStarts(l, i), i = 1 PROVE GoesOn(l, i)
    BY <1>4 DEF FailureStarts, GoesOn, State
  <1>5. CASE Deliver(l, i)
    <2>1. CASE l[1] \in aborted
      BY <1>5, <2>1 DEF Deliver, GoesBy, Turn, requests, ending
    <2>2. CASE l[1] \notin aborted
      BY <1>4, <1>5, <2>2 DEF Deliver, DeliverPayload, DeliverStream, FailureStarts,
                                   GoesBy, Turn, ending
    <2> QED
      BY <2>1, <2>2
  <1>6. CASE DeliverError(l, i)
    BY <1>4, <1>6 DEF DeliverError, GoesBy, Turn, FailureStarts, requests, ending
  <1>7. CASE FailureSent(l, i)
    BY <1>7 DEF FailureSent, GoesBy, Waiting, InLine, ending
  <1>8. CASE Unwind(l, i)
    BY <1>8 DEF Unwind, GoesBy, Turn, requests, ending
  <1> QED
    BY <1>1, <1>2, <1>3, <1>5, <1>6, <1>7, <1>8 DEF Step

\* A message arrives: a task at the end of its lane.
LEMMA ArriveEffect ==
    ASSUME TypeOK, NEW l \in Lane, Arrive(l)
    PROVE  /\ UNCHANGED <<config, taken, acks, requests, sending, ending>>
           /\ arrived' = [arrived EXCEPT ![l] = @ + 1]
           /\ lane' \in [Lane -> Seq(Task)]
           /\ \A m \in Lane \ {l} : lane'[m] = lane[m]
           /\ Len(lane'[l]) = Len(lane[l]) + 1
           /\ DOMAIN lane'[l] = 1 .. Len(lane[l]) + 1
           /\ \A k \in DOMAIN lane[l] : lane'[l][k] = lane[l][k]
           /\ lane'[l][Len(lane[l]) + 1].id = arrived'[l]
           /\ lane'[l][Len(lane[l]) + 1].st \in {"new", "read"}
  <1>1. PICK st \in {"new", "read"} :
            lane' = [lane EXCEPT ![l] = Append(@, [id |-> arrived'[l], st |-> st])]
    BY DEF Arrive
  <1> DEFINE t == [id |-> arrived'[l], st |-> st]
  <1>2. arrived' = [arrived EXCEPT ![l] = @ + 1] /\ arrived'[l] \in Nat
    BY DEF Arrive, TypeOK
  <1>3. t \in Task /\ t.id = arrived'[l] /\ t.st = st
    BY <1>2 DEF Task, State
  <1> HIDE DEF t
  <1>4. /\ Append(lane[l], t) \in Seq(Task) /\ Len(Append(lane[l], t)) = Len(lane[l]) + 1
        /\ \A k \in 1 .. Len(lane[l]) : Append(lane[l], t)[k] = lane[l][k]
        /\ Append(lane[l], t)[Len(lane[l]) + 1] = t
    BY <1>3, LaneType, AppendProperties
  <1>5. DOMAIN Append(lane[l], t) = 1 .. Len(lane[l]) + 1
    BY <1>4, LenProperties
  <1>6. lane' \in [Lane -> Seq(Task)] /\ lane'[l] = Append(lane[l], t)
        /\ \A m \in Lane \ {l} : lane'[m] = lane[m]
    BY <1>1, <1>4 DEF TypeOK, t
  <1> QED
    BY <1>2, <1>3, <1>4, <1>5, <1>6, LaneType DEF Arrive

\* stop() cancels every task where it is.
LEMMA StopEffect ==
    ASSUME TypeOK, Stop
    PROVE  /\ lane' \in [Lane -> Seq(Task)]
           /\ \A l \in Lane :
                  /\ Len(lane'[l]) = Len(lane[l]) /\ DOMAIN lane'[l] = DOMAIN lane[l]
                  /\ \A i \in DOMAIN lane[l] : /\ lane'[l][i].id = lane[l][i].id
                                               /\ lane'[l][i].st \in {"dead", "unwinding"}
  <1> DEFINE s(l) == [i \in DOMAIN lane[l] |-> [lane[l][i] EXCEPT !.st = Cancelled(l, i)]]
  <1>1. \A l \in Lane : lane'[l] = s(l)
    BY DEF Stop
  <1>2. \A l, i : Cancelled(l, i) \in {"dead", "unwinding"}
    BY DEF Cancelled
  <1>3. ASSUME NEW l \in Lane
        PROVE  /\ s(l) \in Seq(Task)
               /\ Len(s(l)) = Len(lane[l]) /\ DOMAIN s(l) = DOMAIN lane[l]
               /\ \A i \in DOMAIN lane[l] : /\ s(l)[i].id = lane[l][i].id
                                            /\ s(l)[i].st \in {"dead", "unwinding"}
    <2>1. /\ lane[l] \in Seq(Task) /\ Len(lane[l]) \in Nat
          /\ DOMAIN lane[l] = 1 .. Len(lane[l])
      BY LaneType
    <2>2. \A i \in DOMAIN lane[l] : lane[l][i] \in Task
      BY <2>1, ElementOfSeq
    <2>3. \A i \in DOMAIN lane[l] :
              /\ s(l)[i] \in Task /\ s(l)[i].id = lane[l][i].id
              /\ s(l)[i].st \in {"dead", "unwinding"}
      BY <1>2, <2>2 DEF Task, State
    <2>4. s(l) \in [1 .. Len(lane[l]) -> Task]
      BY <2>1, <2>3
    <2>5. s(l) \in Seq(Task) /\ Len(s(l)) = Len(lane[l])
      BY <2>1, <2>4
    <2> QED
      BY <2>3, <2>5
  <1>4. lane' \in [Lane -> Seq(Task)]
    BY <1>3 DEF Stop
  <1> HIDE DEF s
  <1> QED
    BY <1>1, <1>3, <1>4

-----------------------------------------------------------------------------
(* Types.                                                                  *)

\* What the stage keeps of its requests.
RequestsOK ==
    /\ aborted \subseteq Request /\ active \subseteq Request
    /\ open \subseteq active
    /\ pending \in [Request -> SUBSET Source]
    /\ sched \in [Request -> {"none", "given", "finished"}]

\* The steps of a task keep it.
LEMMA TaskRequests ==
    ASSUME TypeOK, NEW l \in Lane, NEW i \in DOMAIN lane[l], Step(l, i)
    PROVE  RequestsOK'
  <1> USE DEF TypeOK, RequestsOK
  <1>0. l[1] \in Request /\ l[2] \in Source
    BY DEF Lane
  <1>1. CASE Start(l, i)
    BY <1>0, <1>1 DEF Start
  <1>2. CASE ReadEnds(l, i) \/ Discarded(l, i) \/ Unwind(l, i)
    BY <1>2 DEF ReadEnds, Discarded, Unwind, requests
  <1>3. CASE Deliver(l, i)
    <2>1. CASE l[1] \in aborted
      BY <1>3, <2>1 DEF Deliver, requests
    <2>2. CASE DeliverPayload(l, i)
      BY <1>0, <2>2 DEF DeliverPayload
    <2>3. CASE DeliverStream(l, i)
      BY <1>0, <2>3 DEF DeliverStream, FailureStarts
    <2> QED
      BY <1>3, <2>1, <2>2, <2>3 DEF Deliver
  <1>4. CASE DeliverError(l, i)
    BY <1>0, <1>4 DEF DeliverError, FailureStarts, requests
  <1>5. CASE FailureSent(l, i)
    BY <1>5 DEF FailureSent, Clear
  <1> QED
    BY <1>1, <1>2, <1>3, <1>4, <1>5 DEF Step

\* So do the scheduler, the drain and the end of a stage.
LEMMA TypeStep == ASSUME TypeOK, Waiting, [Next]_vars PROVE TypeOK'
  <1> DEFINE Entry == [req : Request, type : Type]
  <1>1. ASSUME NEW l \in Lane, NEW i \in DOMAIN lane[l], Step(l, i) PROVE TypeOK'
    <2>1. RequestsOK'
      BY <1>1, TaskRequests
    <2>2. /\ UNCHANGED <<config, arrived, sending, crash, doomed>>
          /\ phase' \in {phase, "broken"}
          /\ GoesOn(l, i) \/ GoesBy(l, i)
      BY <1>1, TaskEffect
    <2>3. acks' \in [Lane -> Nat]
      <3>1. acks' \in {acks, [acks EXCEPT ![l] = @ + 1]}
        BY <1>1 DEF Step, Start, ReadEnds, Discarded, Deliver, DeliverError, FailureSent,
                    Unwind
      <3>2. acks \in [Lane -> Nat]
        BY DEF TypeOK
      <3> QED
        BY <3>1, <3>2
    <2>4. lane' \in [Lane -> Seq(Task)]
      BY <2>2, BecomesEffect, PassesEffect DEF GoesOn, GoesBy
    <2>5. taken' \in [Lane -> Seq(Nat)]
      <3>1. lane[l][i].id \in Nat /\ taken[l] \in Seq(Nat)
        BY LaneType DEF TypeOK
      <3>2. Append(taken[l], lane[l][i].id) \in Seq(Nat)
        BY <3>1, AppendProperties
      <3>3. \/ taken' = taken
            \/ taken' = [taken EXCEPT ![l] = Append(taken[l], lane[l][i].id)]
        BY <2>2 DEF GoesOn, GoesBy
      <3>4. taken \in [Lane -> Seq(Nat)]
        BY DEF TypeOK
      <3> QED
        BY <3>2, <3>3, <3>4
    <2> QED
      BY <2>1, <2>2, <2>3, <2>4, <2>5 DEF TypeOK, RequestsOK, sending
  <1>2. ASSUME NEW l \in Lane, Arrive(l) PROVE TypeOK'
    <2>1. /\ UNCHANGED <<config, taken, acks, aborted, active, open, pending, sched>>
          /\ UNCHANGED <<outbox, drain, crash, doomed, phase>>
      BY <1>2 DEF Arrive, requests, sending, ending
    <2>2. lane' \in [Lane -> Seq(Task)] /\ arrived' = [arrived EXCEPT ![l] = @ + 1]
      BY <1>2, ArriveEffect
    <2>3. arrived' \in [Lane -> Nat]
      BY <2>2 DEF TypeOK
    <2> QED
      BY <2>1, <2>2, <2>3 DEF TypeOK
  <1>3. ASSUME NEW r \in Request, Submit(r) \/ Abort(r) \/ CrashFail(r) PROVE TypeOK'
    BY <1>3 DEF Submit, Abort, CrashFail, Clear, TypeOK, receiving, sending, ending
  <1>4. ASSUME NEW r \in Request, NEW type \in Type, Emit(r, type) PROVE TypeOK'
    <2>1. outbox \in Seq(Entry) /\ [req |-> r, type |-> type] \in Entry
      BY DEF TypeOK
    <2>2. outbox' \in Seq(Entry)
      BY <1>4, <2>1, AppendProperties DEF Emit
    <2> QED
      BY <1>4, <2>2 DEF Emit, TypeOK, receiving, ending
  <1>5. CASE DrainTake
    <2>1. Head(outbox) \in Entry /\ outbox' \in Seq(Entry)
      BY <1>5, HeadTailProperties DEF DrainTake, TypeOK
    <2>2. drain' \in {None} \cup Entry /\ aborted' \subseteq Request
      BY <1>5, <2>1 DEF DrainTake, TypeOK
    <2> QED
      BY <1>5, <2>1, <2>2 DEF DrainTake, TypeOK, receiving, ending
  <1>6. CASE DrainSent
    BY <1>6 DEF DrainSent, Clear, TypeOK, receiving, ending
  <1>7. CASE Crash \/ CrashHandler
    BY <1>7 DEF Crash, CrashHandler, TypeOK, requests, receiving, sending
  <1>8. CASE CrashSent
    BY <1>8 DEF CrashSent, Clear, TypeOK, receiving, sending
  <1>9. CASE Stop
    BY <1>9, StopEffect DEF Stop, TypeOK, requests, sending
  <1>10. CASE Stopped
    BY <1>10 DEF Stopped, TypeOK, requests
  <1>11. CASE UNCHANGED vars
    BY <1>11 DEF vars, TypeOK, requests, receiving, sending, ending
  <1> QED
    BY <1>1, <1>2, <1>3, <1>4, <1>5, <1>6, <1>7, <1>8, <1>9, <1>10, <1>11 DEF Next

-----------------------------------------------------------------------------
(* Order.                                                                  *)

\* What the other steps do to lanes: nothing, unless the stage stops.
LEMMA OtherEffect ==
    ASSUME TypeOK, [Next]_vars,
           \A l \in Lane : ~Arrive(l) /\ \A i \in DOMAIN lane[l] : ~Step(l, i)
    PROVE  /\ UNCHANGED <<config, arrived, taken>>
           /\ aborted \subseteq aborted'
           /\ \/ lane' = lane /\ phase' = phase
              \/ Stop
              \/ Stopped
  <1>1. ASSUME NEW r \in Request, Submit(r) \/ Abort(r) \/ CrashFail(r)
        PROVE  UNCHANGED <<config, receiving, phase>> /\ aborted \subseteq aborted'
    BY <1>1 DEF Submit, Abort, CrashFail, ending
  <1>2. ASSUME NEW r \in Request, NEW type \in Type, Emit(r, type)
        PROVE  UNCHANGED <<config, receiving, phase>> /\ aborted \subseteq aborted'
    BY <1>2 DEF Emit, ending
  <1>3. CASE DrainTake \/ DrainSent \/ Crash \/ CrashHandler \/ CrashSent \/ UNCHANGED vars
    <2>1. UNCHANGED <<config, receiving, phase>>
      BY <1>3 DEF DrainTake, DrainSent, Crash, CrashHandler, CrashSent, vars, ending
    <2>2. aborted \subseteq aborted'
      BY <1>3 DEF DrainTake, DrainSent, Crash, CrashHandler, CrashSent, vars, requests
    <2> QED
      BY <2>1, <2>2 DEF receiving
  <1>4. CASE Stop \/ Stopped
    BY <1>4 DEF Stop, Stopped, requests
  <1> QED
    BY <1>1, <1>2, <1>3, <1>4 DEF Next, receiving

\* The tasks of a lane stay in order.
LEMMA WaitingStep == ASSUME TypeOK, Waiting, [Next]_vars PROVE Waiting'
  <1>1. ASSUME NEW l \in Lane, NEW i \in DOMAIN lane[l], Step(l, i) PROVE Waiting'
    <2>1. /\ arrived' = arrived /\ aborted \subseteq aborted'
          /\ GoesOn(l, i) \/ GoesBy(l, i)
      BY <1>1, TaskEffect
    <2>2. CASE GoesOn(l, i)
      <3>1. PICK st \in State :
                /\ Becomes(l, i, st)
                /\ st \in {"draining", "drained", "failing"} => l[1] \in aborted'
                /\ st = "failing" => i = 1
        BY <2>2 DEF GoesOn
      <3>2. /\ \A m \in Lane \ {l} : lane'[m] = lane[m]
            /\ Len(lane'[l]) = Len(lane[l]) /\ DOMAIN lane'[l] = DOMAIN lane[l]
            /\ lane'[l][i].id = lane[l][i].id /\ lane'[l][i].st = st
            /\ \A k \in DOMAIN lane[l] \ {i} : lane'[l][k] = lane[l][k]
        BY <3>1, BecomesEffect
      <3>3. \A m \in Lane \ {l} : InLine(m)'
        BY <2>1, <3>2 DEF Waiting, InLine
      <3>4. InLine(l)'
        BY <2>1, <3>1, <3>2 DEF Waiting, InLine
      <3> QED
        BY <3>3, <3>4 DEF Waiting
    <2>3. CASE GoesBy(l, i)
      <3>1. /\ \A m \in Lane \ {l} : lane'[m] = lane[m]
            /\ Len(lane'[l]) = Len(lane[l]) - 1
            /\ \A k \in DOMAIN lane'[l] : /\ k \in Nat /\ k >= 1 /\ k + 1 \in DOMAIN lane[l]
                                          /\ lane'[l][k] = lane[l][k + 1]
        BY <2>3, LaneType, PassesEffect DEF GoesBy
      <3>2. Len(lane[l]) \in Nat /\ arrived[l] \in Nat
            /\ \A k \in DOMAIN lane[l] : lane[l][k].id \in Nat
        BY LaneType DEF TypeOK
      <3>3. \A m \in Lane \ {l} : InLine(m)'
        BY <2>1, <3>1 DEF Waiting, InLine
      <3>4. InLine(l)
        BY DEF Waiting
      <3>5. ASSUME NEW k \in DOMAIN lane'[l]
            PROVE  /\ lane'[l][k].id + Len(lane'[l]) = arrived'[l] + k
                   /\ lane'[l][k].st \in {"draining", "drained", "failing"} => l[1] \in aborted'
                   /\ lane'[l][k].st = "failing" => k = 1
        <4> DEFINE j == k + 1
        <4>1. /\ k \in Nat /\ k >= 1 /\ j = k + 1 /\ j \in DOMAIN lane[l]
              /\ lane'[l][k] = lane[l][j] /\ lane[l][j].id \in Nat
          BY <3>1, <3>2
        <4> HIDE DEF j
        <4>2. /\ lane[l][j].id + Len(lane[l]) = arrived[l] + j
              /\ lane[l][j].st \in {"draining", "drained", "failing"} => l[1] \in aborted
              /\ lane[l][j].st = "failing" => j = 1
          BY <3>4, <4>1 DEF InLine
        <4> DEFINE x == lane[l][j].id
                   n == Len(lane[l])
        <4>3. /\ x \in Nat /\ n \in Nat /\ arrived[l] \in Nat /\ x + n = arrived[l] + j
              /\ lane'[l][k].id = x /\ Len(lane'[l]) = n - 1
          BY <3>1, <3>2, <4>1, <4>2
        <4> HIDE DEF x, n
        <4>4. x + (n - 1) = arrived[l] + k
          BY <4>1, <4>3
        <4> QED
          BY <2>1, <4>1, <4>2, <4>3, <4>4, SMTT(30)
      <3> QED
        <4>1. InLine(l)'
          BY <3>5, Zenon DEF InLine
        <4> QED
          BY <3>3, <4>1 DEF Waiting
    <2> QED
      BY <2>1, <2>2, <2>3
  <1>2. ASSUME NEW l \in Lane, Arrive(l) PROVE Waiting'
    <2>1. aborted' = aborted
      BY <1>2 DEF Arrive, requests
    <2>2. /\ \A m \in Lane \ {l} : lane'[m] = lane[m] /\ arrived'[m] = arrived[m]
          /\ arrived'[l] = arrived[l] + 1
          /\ Len(lane'[l]) = Len(lane[l]) + 1
          /\ DOMAIN lane'[l] = 1 .. Len(lane[l]) + 1
          /\ \A k \in DOMAIN lane[l] : lane'[l][k] = lane[l][k]
          /\ lane'[l][Len(lane[l]) + 1].id = arrived[l] + 1
          /\ lane'[l][Len(lane[l]) + 1].st \in {"new", "read"}
      BY <1>2, ArriveEffect DEF TypeOK
    <2>3. Len(lane[l]) \in Nat /\ arrived[l] \in Nat /\ DOMAIN lane[l] = 1 .. Len(lane[l])
          /\ \A k \in DOMAIN lane[l] : lane[l][k].id \in Nat
      BY LaneType DEF TypeOK
    <2>4. \A m \in Lane \ {l} : InLine(m)'
      BY <2>1, <2>2 DEF Waiting, InLine
    <2>5. InLine(l)
      BY DEF Waiting
    <2>6. ASSUME NEW k \in DOMAIN lane'[l]
          PROVE  /\ lane'[l][k].id + Len(lane'[l]) = arrived'[l] + k
                 /\ lane'[l][k].st \in {"draining", "drained", "failing"} => l[1] \in aborted'
                 /\ lane'[l][k].st = "failing" => k = 1
      <3>1. CASE k \in DOMAIN lane[l]
        <4>1. /\ lane[l][k].id + Len(lane[l]) = arrived[l] + k
              /\ lane[l][k].st \in {"draining", "drained", "failing"} => l[1] \in aborted
              /\ lane[l][k].st = "failing" => k = 1
          BY <2>5, <3>1 DEF InLine
        <4>2. lane'[l][k] = lane[l][k] /\ lane[l][k].id \in Nat /\ k \in Nat
          BY <2>2, <2>3, <3>1
        <4> DEFINE x == lane[l][k].id
                   n == Len(lane[l])
        <4>3. /\ x \in Nat /\ n \in Nat /\ arrived[l] \in Nat /\ x + n = arrived[l] + k
              /\ lane'[l][k].id = x /\ Len(lane'[l]) = n + 1
          BY <2>2, <2>3, <4>1, <4>2
        <4> HIDE DEF x, n
        <4>4. x + (n + 1) = (arrived[l] + 1) + k
          BY <4>2, <4>3
        <4> QED
          BY <2>1, <2>2, <4>1, <4>2, <4>3, <4>4
      <3>2. CASE k = Len(lane[l]) + 1
        BY <2>2, <2>3, <3>2
      <3> QED
        BY <2>2, <2>3, <3>1, <3>2
    <2> QED
      <3>1. InLine(l)'
        BY <2>6, Zenon DEF InLine
      <3> QED
        BY <2>4, <3>1 DEF Waiting
  <1>3. CASE \A l \in Lane : ~Arrive(l) /\ \A i \in DOMAIN lane[l] : ~Step(l, i)
    <2>1. CASE Stopped
      BY <2>1 DEF Stopped, Waiting, InLine
    <2>2. CASE Stop
      BY <1>3, <2>2, OtherEffect, StopEffect DEF Waiting, InLine
    <2>3. CASE lane' = lane
      BY <1>3, <2>3, OtherEffect DEF Waiting, InLine
    <2> QED
      BY <1>3, <2>1, <2>2, <2>3, OtherEffect
  <1> QED
    BY <1>1, <1>2, <1>3

\* What is taken of a lane is what has passed, in order.
LEMMA OrderStep ==
    ASSUME TypeOK, Waiting, Gapless, OneByOne, [Next]_vars
    PROVE  Gapless' /\ OneByOne'
  <1>0. /\ \A l \in Lane : /\ taken[l] \in Seq(Nat) /\ Len(taken[l]) \in Nat
                           /\ DOMAIN taken[l] = 1 .. Len(taken[l])
                           /\ arrived[l] \in Nat /\ Len(lane[l]) \in Nat
    BY LaneType, LenProperties DEF TypeOK
  <1>1. ASSUME NEW l \in Lane, NEW i \in DOMAIN lane[l], Step(l, i)
        PROVE  Gapless' /\ OneByOne'
    <2>1. /\ arrived' = arrived /\ aborted \subseteq aborted'
          /\ phase' = "running" => phase = "running"
          /\ GoesOn(l, i) \/ GoesBy(l, i)
      BY <1>1, TaskEffect
    <2>2. CASE GoesOn(l, i)
      <3>1. taken' = taken /\ \A m \in Lane : Len(lane'[m]) = Len(lane[m])
        BY <2>2, BecomesEffect DEF GoesOn
      <3> QED
        BY <2>1, <3>1 DEF Gapless, OneByOne
    <2>3. CASE GoesBy(l, i)
      <3>1. /\ \A m \in Lane \ {l} : lane'[m] = lane[m]
            /\ Len(lane'[l]) = Len(lane[l]) - 1
        BY <2>3, PassesEffect DEF GoesBy
      <3>2. CASE phase' # "running"
        BY <3>2 DEF Gapless, OneByOne
      <3>3. CASE taken' = taken /\ l[1] \in aborted
        BY <2>1, <3>1, <3>3 DEF Gapless, OneByOne
      <3>4. CASE /\ taken' = [taken EXCEPT ![l] = Append(@, lane[l][1].id)]
                 /\ l[1] \notin aborted /\ phase' = "running"
        <4> DEFINE n == lane[l][1].id
        <4>0. Len(taken[l]) \in Nat /\ Len(lane[l]) \in Nat /\ arrived[l] \in Nat
          BY <1>0
        <4>1. taken' = [taken EXCEPT ![l] = Append(@, n)] /\ l[1] \notin aborted
              /\ phase = "running"
          BY <2>1, <3>4
        <4>2. n \in Nat /\ n + Len(lane[l]) = arrived[l] + 1
          BY <2>3, LaneType DEF GoesBy, Waiting, InLine
        <4>3. Len(taken[l]) + Len(lane[l]) = arrived[l]
          BY <4>1 DEF Gapless
        <4> HIDE DEF n
        <4>4. n = Len(taken[l]) + 1
          <5> DEFINE t == Len(taken[l])
                     m == Len(lane[l])
          <5>1. t \in Nat /\ m \in Nat /\ n + m = arrived[l] + 1 /\ t + m = arrived[l]
            BY <4>0, <4>2, <4>3
          <5> HIDE DEF t, m
          <5>2. n = t + 1
            BY <4>0, <4>2, <5>1
          <5> QED
            BY <5>2 DEF t
        <4>5. /\ Append(taken[l], n) \in Seq(Nat)
              /\ Len(Append(taken[l], n)) = Len(taken[l]) + 1
              /\ \A k \in 1 .. Len(taken[l]) : Append(taken[l], n)[k] = taken[l][k]
              /\ Append(taken[l], n)[Len(taken[l]) + 1] = n
          BY <1>0, <4>2, AppendProperties
        <4>6. DOMAIN Append(taken[l], n) = 1 .. Len(taken[l]) + 1
          BY <4>5, LenProperties
        <4>7. /\ taken'[l] = Append(taken[l], n)
              /\ \A m \in Lane \ {l} : taken'[m] = taken[m]
          BY <4>1 DEF TypeOK
        <4>8. \A k \in DOMAIN taken'[l] : taken'[l][k] = k
          <5>1. \A k \in 1 .. Len(taken[l]) : taken[l][k] = k
            BY <1>0, <4>1 DEF OneByOne
          <5> QED
            BY <4>0, <4>4, <4>5, <4>6, <4>7, <5>1
        <4>9. Len(taken'[l]) + Len(lane'[l]) = arrived[l]
          <5>1. Len(taken'[l]) = Len(taken[l]) + 1
            BY <4>5, <4>7
          <5> DEFINE t == Len(taken[l])
                     m == Len(lane[l])
          <5>2. /\ t \in Nat /\ m \in Nat /\ t + m = arrived[l]
                /\ Len(taken'[l]) = t + 1 /\ Len(lane'[l]) = m - 1
            BY <4>0, <3>1, <4>3, <5>1
          <5> HIDE DEF t, m
          <5>3. (t + 1) + (m - 1) = arrived[l]
            BY <4>0, <5>2
          <5> QED
            BY <5>2, <5>3
        <4>10. OneByOne'
          <5>1. phase = "running"
            BY <4>1
          <5>2. \A m \in Lane : \A k \in DOMAIN taken'[m] : taken'[m][k] = k
            BY <4>7, <4>8, <5>1 DEF OneByOne
          <5> QED
            BY <5>2 DEF OneByOne
        <4> QED
          BY <2>1, <3>1, <4>7, <4>9, <4>10 DEF Gapless
      <3> QED
        BY <2>3, <3>2, <3>3, <3>4 DEF GoesBy
    <2> QED
      BY <2>1, <2>2, <2>3
  <1>2. ASSUME NEW l \in Lane, Arrive(l) PROVE Gapless' /\ OneByOne'
    <2>1. UNCHANGED <<taken, aborted, phase>>
      BY <1>2 DEF Arrive, requests, ending
    <2>2. /\ \A m \in Lane \ {l} : lane'[m] = lane[m] /\ arrived'[m] = arrived[m]
          /\ arrived'[l] = arrived[l] + 1
          /\ Len(lane'[l]) = Len(lane[l]) + 1
      BY <1>2, ArriveEffect, SMTT(30) DEF TypeOK
    <2>3. OneByOne'
      BY <2>1 DEF OneByOne
    <2>4. ASSUME NEW m \in Lane, (phase = "running" /\ m[1] \notin aborted)'
          PROVE  (Len(taken[m]) + Len(lane[m]) = arrived[m])'
      <3>1. Len(taken[m]) + Len(lane[m]) = arrived[m]
        BY <2>1, <2>4 DEF Gapless
      <3>2. Len(taken[m]) \in Nat /\ Len(lane[m]) \in Nat /\ arrived[m] \in Nat
        BY <1>0
      <3>3. Len(taken'[m]) = Len(taken[m])
        BY <2>1
      <3>4. CASE m = l
        <4> DEFINE t == Len(taken[l])
                   n == Len(lane[l])
        <4>1. /\ t \in Nat /\ n \in Nat /\ t + n = arrived[l] /\ arrived[l] \in Nat
              /\ Len(taken'[l]) = t /\ Len(lane'[l]) = n + 1
          BY <2>2, <3>1, <3>2, <3>3, <3>4
        <4> HIDE DEF t, n
        <4>2. t + (n + 1) = arrived[l] + 1
          BY <4>1
        <4> QED
          BY <2>2, <3>4, <4>1, <4>2
      <3>5. CASE m # l
        BY <2>2, <3>1, <3>3, <3>5
      <3> QED
        BY <3>4, <3>5
    <2> QED
      BY <2>3, <2>4 DEF Gapless
  <1>3. CASE \A l \in Lane : ~Arrive(l) /\ \A i \in DOMAIN lane[l] : ~Step(l, i)
    <2>1. /\ UNCHANGED <<arrived, taken>> /\ aborted \subseteq aborted'
          /\ \/ lane' = lane /\ phase' = phase
             \/ phase' # "running"
      BY <1>3, OtherEffect DEF Stop, Stopped
    <2> QED
      BY <2>1 DEF Gapless, OneByOne
  <1> QED
    BY <1>1, <1>2, <1>3

\* What is taken of a lane is older than what waits in it, also behind a task
\* that has raised.
LEMMA RisingStep ==
    ASSUME TypeOK, Waiting, Behind, Rising, [Next]_vars
    PROVE  Behind' /\ Rising'
  <1>0. \A l \in Lane : /\ taken[l] \in Seq(Nat) /\ Len(taken[l]) \in Nat
                        /\ DOMAIN taken[l] = 1 .. Len(taken[l])
                        /\ \A k \in DOMAIN taken[l] : taken[l][k] \in Nat
                        /\ arrived[l] \in Nat /\ Len(lane[l]) \in Nat
    BY LaneType, LenProperties, ElementOfSeq DEF TypeOK
  <1>a. ASSUME taken' = taken, NEW m \in Lane,
               Len(lane'[m]) \in Nat, arrived'[m] \in Nat,
               arrived[m] + Len(lane'[m]) <= arrived'[m] + Len(lane[m])
        PROVE  \A k \in DOMAIN taken'[m] : taken'[m][k] + Len(lane'[m]) <= arrived'[m]
    <2> TAKE k \in DOMAIN taken'[m]
    <2> DEFINE x == taken[m][k]
               n == Len(lane[m])
               n1 == Len(lane'[m])
    <2>1. /\ x \in Nat /\ n \in Nat /\ n1 \in Nat /\ arrived[m] \in Nat
          /\ x + n <= arrived[m]
          /\ taken'[m][k] = x
      BY <1>0, <1>a DEF Behind
    <2> HIDE DEF x, n, n1
    <2>2. arrived'[m] \in Nat /\ arrived[m] + n1 <= arrived'[m] + n
      BY <1>a DEF n, n1
    <2>3. x + n1 <= arrived'[m]
      BY <2>1, <2>2
    <2> QED
      BY <2>1, <2>3 DEF n1
  <1>1. ASSUME NEW l \in Lane, NEW i \in DOMAIN lane[l], Step(l, i)
        PROVE  Behind' /\ Rising'
    <2>1. arrived' = arrived /\ (GoesOn(l, i) \/ GoesBy(l, i))
      BY <1>1, TaskEffect
    <2>2. CASE GoesOn(l, i)
      <3>1. taken' = taken /\ \A m \in Lane : Len(lane'[m]) = Len(lane[m])
        BY <2>2, BecomesEffect DEF GoesOn
      <3> QED
        BY <2>1, <3>1 DEF Behind, Rising
    <2>3. CASE GoesBy(l, i)
      <3>1. /\ \A m \in Lane \ {l} : lane'[m] = lane[m]
            /\ Len(lane'[l]) = Len(lane[l]) - 1
            /\ Len(lane[l]) >= 1
        BY <2>3, LaneType, PassesEffect DEF GoesBy
      <3>2. CASE taken' = taken
        <4>1. ASSUME NEW m \in Lane
              PROVE  /\ Len(lane'[m]) \in Nat /\ arrived'[m] \in Nat
                     /\ arrived[m] + Len(lane'[m]) <= arrived'[m] + Len(lane[m])
          <5> DEFINE n == Len(lane[m])
                     n1 == Len(lane'[m])
          <5>1. /\ n \in Nat /\ n1 \in {n, n - 1} /\ (n1 = n \/ n >= 1)
                /\ arrived[m] \in Nat /\ arrived'[m] = arrived[m]
            BY <1>0, <2>1, <3>1
          <5> HIDE DEF n, n1
          <5>2. n1 \in Nat /\ arrived'[m] \in Nat /\ arrived[m] + n1 <= arrived'[m] + n
            BY <5>1
          <5> QED
            BY <5>2 DEF n, n1
        <4>2. Behind'
          BY <1>a, <3>2, <4>1 DEF Behind
        <4> QED
          BY <3>2, <4>2 DEF Rising
      <3>3. CASE taken' = [taken EXCEPT ![l] = Append(@, lane[l][1].id)]
        <4> DEFINE x == lane[l][1].id
                   n == Len(lane[l])
                   t == Len(taken[l])
        <4>0. t \in Nat /\ n \in Nat /\ n >= 1 /\ arrived[l] \in Nat
              /\ DOMAIN taken[l] = 1 .. t
              /\ Len(lane'[l]) = n - 1 /\ arrived'[l] = arrived[l]
          BY <1>0, <2>1, <3>1
        <4>1. taken' = [taken EXCEPT ![l] = Append(@, x)]
          BY <3>3
        <4>2. x \in Nat /\ x + n = arrived[l] + 1
          BY <2>3, LaneType DEF GoesBy, Waiting, InLine
        <4> HIDE DEF x
        <4>3. /\ Append(taken[l], x) \in Seq(Nat) /\ Len(Append(taken[l], x)) = t + 1
              /\ \A k \in 1 .. t : Append(taken[l], x)[k] = taken[l][k]
              /\ Append(taken[l], x)[t + 1] = x
          BY <1>0, <4>2, AppendProperties
        <4>4. DOMAIN Append(taken[l], x) = 1 .. t + 1
          BY <4>3, LenProperties
        <4>5. /\ taken'[l] = Append(taken[l], x)
              /\ \A m \in Lane \ {l} : taken'[m] = taken[m]
          BY <4>1 DEF TypeOK
        <4>6. \A k \in 1 .. t : /\ taken[l][k] \in Nat
                                /\ taken[l][k] + n <= arrived[l]
          BY <1>0, <4>0 DEF Behind
        <4> HIDE DEF n, t
        <4>7. \A k \in 1 .. t : taken[l][k] < x
          <5> TAKE k \in 1 .. t
          <5> DEFINE y == taken[l][k]
          <5>1. y \in Nat /\ y + n <= arrived[l]
            BY <4>6
          <5> HIDE DEF y
          <5>2. y < x
            BY <4>0, <4>2, <5>1
          <5> QED
            BY <5>2 DEF y
        <4>8. \A k \in DOMAIN taken'[l] : taken'[l][k] + Len(lane'[l]) <= arrived'[l]
          <5> TAKE k \in DOMAIN taken'[l]
          <5> DEFINE y == taken'[l][k]
          <5>1. CASE k = t + 1
            <6>1. y = x
              BY <4>3, <4>5, <5>1
            <6> HIDE DEF y
            <6>2. y + (n - 1) <= arrived[l]
              BY <4>0, <4>2, <6>1
            <6> QED
              BY <4>0, <6>2 DEF y
          <5>2. CASE k \in 1 .. t
            <6>1. y = taken[l][k]
              BY <4>3, <4>5, <5>2
            <6>2. y \in Nat /\ y + n <= arrived[l]
              BY <4>6, <5>2, <6>1
            <6> HIDE DEF y
            <6>3. y + (n - 1) <= arrived[l]
              BY <4>0, <6>2
            <6> QED
              BY <4>0, <6>3 DEF y
          <5>3. k \in 1 .. t + 1
            BY <4>4, <4>5
          <5>4. k = t + 1 \/ k \in 1 .. t
            BY <4>0, <5>3
          <5> QED
            BY <5>1, <5>2, <5>4
        <4>9. \A k \in DOMAIN taken'[l] :
                  \A j \in 1 .. k - 1 : taken'[l][j] < taken'[l][k]
          <5> SUFFICES ASSUME NEW k \in DOMAIN taken'[l], NEW j \in 1 .. k - 1
                       PROVE  taken'[l][j] < taken'[l][k]
            OBVIOUS
          <5>1. k \in 1 .. t + 1
            BY <4>4, <4>5
          <5>2. j \in 1 .. t /\ (k = t + 1 \/ k \in 1 .. t)
            BY <4>0, <5>1
          <5>3. taken'[l][j] = taken[l][j]
            BY <4>3, <4>5, <5>2
          <5>4. CASE k = t + 1
            <6>1. taken'[l][k] = x
              BY <4>3, <4>5, <5>4
            <6> QED
              BY <4>7, <5>2, <5>3, <6>1
          <5>5. CASE k \in 1 .. t
            <6>1. taken'[l][k] = taken[l][k]
              BY <4>3, <4>5, <5>5
            <6>2. taken[l][j] < taken[l][k]
              BY <4>0, <5>5 DEF Rising
            <6> QED
              BY <5>3, <6>1, <6>2
          <5> QED
            BY <5>2, <5>4, <5>5
        <4>10. Behind'
          BY <2>1, <3>1, <4>5, <4>8 DEF Behind
        <4>11. Rising'
          BY <4>5, <4>9 DEF Rising
        <4> QED
          BY <4>10, <4>11
      <3> QED
        BY <2>3, <3>2, <3>3 DEF GoesBy
    <2> QED
      BY <2>1, <2>2, <2>3
  <1>2. ASSUME NEW l \in Lane, Arrive(l) PROVE Behind' /\ Rising'
    <2>1. taken' = taken
      BY <1>2 DEF Arrive
    <2>2. /\ \A m \in Lane \ {l} : lane'[m] = lane[m] /\ arrived'[m] = arrived[m]
          /\ arrived'[l] = arrived[l] + 1
          /\ Len(lane'[l]) = Len(lane[l]) + 1
      BY <1>2, ArriveEffect, SMTT(30) DEF TypeOK
    <2>3. ASSUME NEW m \in Lane
          PROVE  /\ Len(lane'[m]) \in Nat /\ arrived'[m] \in Nat
                 /\ arrived[m] + Len(lane'[m]) <= arrived'[m] + Len(lane[m])
      <3> DEFINE n == Len(lane[m])
                 n1 == Len(lane'[m])
      <3>1. /\ n \in Nat /\ arrived[m] \in Nat
            /\ \/ n1 = n /\ arrived'[m] = arrived[m]
               \/ n1 = n + 1 /\ arrived'[m] = arrived[m] + 1
        BY <1>0, <2>2
      <3> HIDE DEF n, n1
      <3>2. n1 \in Nat /\ arrived'[m] \in Nat /\ arrived[m] + n1 <= arrived'[m] + n
        BY <3>1
      <3> QED
        BY <3>2 DEF n, n1
    <2>4. Behind'
      BY <1>a, <2>1, <2>3 DEF Behind
    <2> QED
      BY <2>1, <2>4 DEF Rising
  <1>3. CASE \A l \in Lane : ~Arrive(l) /\ \A i \in DOMAIN lane[l] : ~Step(l, i)
    <2>1. UNCHANGED <<arrived, taken>> /\ (lane' = lane \/ Stop \/ Stopped)
      BY <1>3, OtherEffect
    <2>2. \A m \in Lane : Len(lane'[m]) = Len(lane[m]) \/ lane'[m] = <<>>
      BY <2>1, StopEffect DEF Stopped
    <2>3. ASSUME NEW m \in Lane
          PROVE  /\ Len(lane'[m]) \in Nat /\ arrived'[m] \in Nat
                 /\ arrived[m] + Len(lane'[m]) <= arrived'[m] + Len(lane[m])
      <3> DEFINE n == Len(lane[m])
                 n1 == Len(lane'[m])
      <3>1. n \in Nat /\ n1 \in {0, n} /\ arrived[m] \in Nat /\ arrived'[m] = arrived[m]
        BY <1>0, <2>1, <2>2
      <3> HIDE DEF n, n1
      <3>2. n1 \in Nat /\ arrived'[m] \in Nat /\ arrived[m] + n1 <= arrived'[m] + n
        BY <3>1
      <3> QED
        BY <3>2 DEF n, n1
    <2>4. Behind'
      BY <1>a, <2>1, <2>3 DEF Behind
    <2> QED
      BY <2>1, <2>4 DEF Rising
  <1> QED
    BY <1>1, <1>2, <1>3

-----------------------------------------------------------------------------
(* Silence.                                                                *)

\* A request the scheduler knows stays known to it.
LEMMA KnownStep ==
    ASSUME TypeOK, [Next]_vars, NEW r \in Request, sched[r] # "none"
    PROVE  sched'[r] # "none"
  <1>1. ASSUME NEW l \in Lane, NEW i \in DOMAIN lane[l], Step(l, i)
        PROVE  sched'[r] # "none"
    <2>1. \/ sched' = sched
          \/ \E v \in {"given", "finished", sched[l[1]]} : sched' = [sched EXCEPT ![l[1]] = v]
      BY <1>1 DEF Step, Start, ReadEnds, Discarded, Deliver, DeliverPayload, DeliverStream,
                  DeliverError, FailureSent, Unwind, requests
    <2> QED
      BY <2>1 DEF TypeOK
  <1>2. ASSUME NEW l \in Lane, Arrive(l) PROVE sched'[r] # "none"
    BY <1>2 DEF Arrive, requests
  <1>3. ASSUME NEW q \in Request, Submit(q) \/ Abort(q) \/ CrashFail(q)
        PROVE  sched'[r] # "none"
    BY <1>3 DEF Submit, Abort, CrashFail, TypeOK
  <1>4. ASSUME NEW q \in Request, NEW type \in Type, Emit(q, type) PROVE sched'[r] # "none"
    BY <1>4 DEF Emit, TypeOK
  <1>5. CASE \/ DrainTake \/ DrainSent \/ Crash \/ CrashHandler \/ CrashSent
             \/ Stop \/ Stopped \/ UNCHANGED vars
    <2>1. sched' = sched
      BY <1>5 DEF DrainTake, DrainSent, Crash, CrashHandler, CrashSent, Stop, Stopped, vars,
                  requests
    <2> QED
      BY <2>1
  <1> QED
    BY <1>1, <1>2, <1>3, <1>4, <1>5 DEF Next

\* A first stage hears of a request before it can abort it.
LEMMA EnteredStep == ASSUME TypeOK, Waiting, Entered, [Next]_vars PROVE Entered'
  <1>0. /\ outbox \in Seq([req : Request, type : Type])
        /\ \A k \in DOMAIN outbox : outbox[k] \in [req : Request, type : Type]
        /\ DOMAIN outbox = 1 .. Len(outbox) /\ Len(outbox) \in Nat
    <2> DEFINE Entry == [req : Request, type : Type]
    <2>1. outbox \in Seq(Entry)
      BY DEF TypeOK
    <2> HIDE DEF Entry
    <2>2. DOMAIN outbox = 1 .. Len(outbox) /\ Len(outbox) \in Nat
      BY <2>1, LenProperties
    <2>3. \A k \in DOMAIN outbox : outbox[k] \in Entry
      BY <2>1, <2>2, ElementOfSeq
    <2> QED
      BY <2>1, <2>2, <2>3 DEF Entry
  <1>1. ASSUME outbox' = outbox
        PROVE  \A k \in DOMAIN outbox' : sched'[outbox'[k].req] # "none"
    BY <1>0, <1>1, KnownStep DEF Entered
  <1>2. ASSUME NEW l \in Lane, Arrive(l) \/ \E i \in DOMAIN lane[l] : Step(l, i)
        PROVE  Entered'
    <2>1. config' = config /\ outbox' = outbox
      BY <1>2, TaskEffect DEF Arrive, sending
    <2>2. ~config.entry
      <3>1. CASE Arrive(l)
        BY <3>1 DEF Arrive
      <3>2. CASE \E i \in DOMAIN lane[l] : Step(l, i)
        BY <3>2 DEF Entered
      <3> QED
        BY <1>2, <3>1, <3>2
    <2> QED
      BY <1>1, <2>1, <2>2 DEF Entered
  <1>3. ASSUME NEW r \in Request, Submit(r) \/ Abort(r) \/ CrashFail(r) PROVE Entered'
    <2>1. UNCHANGED <<config, lane, outbox>> /\ aborted' \subseteq aborted \cup {r}
      BY <1>3 DEF Submit, Abort, CrashFail, receiving, sending
    <2>2. sched'[r] # "none"
      BY <1>3 DEF Submit, Abort, CrashFail, TypeOK
    <2>3. \A q \in aborted : q \in Request
      BY DEF TypeOK
    <2> QED
      BY <1>1, <2>1, <2>2, <2>3, KnownStep DEF Entered
  <1>4. ASSUME NEW r \in Request, NEW type \in Type, Emit(r, type) PROVE Entered'
    <2> DEFINE e == [req |-> r, type |-> type]
    <2>1. /\ UNCHANGED <<config, lane, aborted>> /\ outbox' = Append(outbox, e)
          /\ sched[r] = "given"
      BY <1>4 DEF Emit, receiving
    <2>2. e \in [req : Request, type : Type] /\ e.req = r
      OBVIOUS
    <2> HIDE DEF e
    <2>3. /\ outbox' \in Seq([req : Request, type : Type])
          /\ Len(outbox') = Len(outbox) + 1
          /\ \A k \in 1 .. Len(outbox) : outbox'[k] = outbox[k]
          /\ outbox'[Len(outbox) + 1] = e
      BY <1>0, <2>1, <2>2, AppendProperties
    <2>4. DOMAIN outbox' = 1 .. Len(outbox) + 1
      BY <2>3, LenProperties
    <2>5. \A q \in Request : sched[q] # "none" => sched'[q] # "none"
      BY KnownStep
    <2>6. \A k \in DOMAIN outbox' : sched'[outbox'[k].req] # "none"
      BY <1>0, <2>1, <2>2, <2>3, <2>4, <2>5 DEF Entered
    <2>7. \A q \in aborted : q \in Request
      BY DEF TypeOK
    <2> QED
      BY <2>1, <2>5, <2>6, <2>7 DEF Entered
  <1>5. CASE DrainTake
    <2>1. /\ UNCHANGED <<config, lane, sched>> /\ outbox # <<>> /\ outbox' = Tail(outbox)
          /\ aborted' \subseteq aborted \cup {outbox[1].req}
      BY <1>5 DEF DrainTake, receiving
    <2>2. /\ outbox' \in Seq([req : Request, type : Type]) /\ Len(outbox') = Len(outbox) - 1
          /\ \A k \in 1 .. Len(outbox') : outbox'[k] = outbox[k + 1]
      BY <1>0, <2>1, HeadTailProperties
    <2>3. DOMAIN outbox' = 1 .. Len(outbox')
      BY <2>2, LenProperties
    <2>4. \A k \in DOMAIN outbox' : k + 1 \in DOMAIN outbox
      BY <1>0, <2>2, <2>3
    <2>5. 1 \in DOMAIN outbox
      BY <1>0, <2>1
    <2> QED
      BY <2>1, <2>2, <2>3, <2>4, <2>5 DEF Entered
  <1>6. CASE DrainSent \/ Crash \/ CrashHandler \/ CrashSent \/ UNCHANGED vars
    <2>1. UNCHANGED <<config, lane, outbox, aborted, sched>>
      BY <1>6 DEF DrainSent, Crash, CrashHandler, CrashSent, vars, requests, receiving, sending
    <2> QED
      BY <2>1 DEF Entered
  <1>7. CASE Stop
    <2>1. UNCHANGED <<config, outbox, aborted, sched>>
      BY <1>7 DEF Stop, requests, sending
    <2>2. config.entry => \A l \in Lane : lane'[l] = <<>>
      <3>1. \A l \in Lane : lane'[l] \in Seq(Task) /\ Len(lane'[l]) = Len(lane[l])
        BY <1>7, StopEffect
      <3> QED
        BY <3>1 DEF Entered
    <2> QED
      BY <2>1, <2>2 DEF Entered
  <1>8. CASE Stopped
    BY <1>8 DEF Stopped, Entered, requests
  <1> QED
    BY <1>2, <1>3, <1>4, <1>5, <1>6, <1>7, <1>8 DEF Next

-----------------------------------------------------------------------------
(* Release.                                                                *)

\* The stage keeps something of the request.
Held(r) == r \in active \cup open \/ pending[r] # {}

\* A task of another request changes nothing of this one.
LEMMA TaskApart ==
    ASSUME TypeOK, NEW l \in Lane, NEW i \in DOMAIN lane[l], Step(l, i),
           NEW r \in Request, r # l[1], Held(r)'
    PROVE  Held(r)
  <1>0. pending \in [Request -> SUBSET Source]
    BY DEF TypeOK
  <1>1. /\ active' \in {active, active \cup {l[1]}, active \ {l[1]}}
        /\ open' \in {open, open \cup {l[1]}, open \ {l[1]}}
    BY DEF Step, Start, ReadEnds, Discarded, Deliver, DeliverPayload, DeliverStream,
           DeliverError, FailureStarts, FailureSent, Clear, Unwind, requests
  <1>2. \E v : pending' \in {pending, [pending EXCEPT ![l[1]] = v]}
    BY DEF Step, Start, ReadEnds, Discarded, Deliver, DeliverPayload, DeliverStream,
           DeliverError, FailureStarts, FailureSent, Clear, Unwind, requests
  <1>3. pending'[r] = pending[r]
    BY <1>0, <1>2
  <1> QED
    BY <1>1, <1>3 DEF Held

\* What a task does to its own request when it is aborted: nothing, or it
\* begins to send its failure, or it clears it.
LEMMA TaskOwn ==
    ASSUME TypeOK, NEW l \in Lane, NEW i \in DOMAIN lane[l], Step(l, i),
           Running', l[1] \in aborted'
    PROVE  \/ /\ l[1] \in aborted /\ lane[l][i].st # "failing"
              /\ UNCHANGED <<active, open, pending>>
           \/ Becomes(l, i, "failing")
           \/ ~Held(l[1])'
  <1>1. CASE Start(l, i)
    BY <1>1 DEF Start
  <1>2. CASE ReadEnds(l, i)
    <2>1. Running /\ lane[l][i].st # "failing" /\ UNCHANGED requests
      BY <1>2 DEF ReadEnds
    <2> QED
      BY <2>1 DEF requests
  <1>3. CASE Discarded(l, i)
    BY <1>3 DEF Discarded, requests
  <1>4. CASE Deliver(l, i)
    <2>1. lane[l][i].st # "failing"
      BY <1>4 DEF Deliver
    <2>2. CASE l[1] \in aborted
      BY <1>4, <2>1, <2>2 DEF Deliver, requests
    <2>3. CASE l[1] \notin aborted
      BY <1>4, <2>3 DEF Deliver, DeliverPayload, DeliverStream, FailureStarts
    <2> QED
      BY <2>2, <2>3
  <1>5. CASE DeliverError(l, i)
    BY <1>5 DEF DeliverError, FailureStarts, requests
  <1>6. CASE FailureSent(l, i)
    <2>1. l[1] \in Request
      BY DEF Lane
    <2> QED
      BY <1>6, <2>1 DEF FailureSent, Clear, Held, TypeOK
  <1>7. CASE Unwind(l, i)
    BY <1>7 DEF Unwind, Running, ending
  <1> QED
    BY <1>1, <1>2, <1>3, <1>4, <1>5, <1>6, <1>7 DEF Step

\* A failure being sent stays so, unless its task clears the request.
LEMMA TaskKeeps ==
    ASSUME TypeOK, Waiting, NEW l \in Lane, NEW i \in DOMAIN lane[l], Step(l, i),
           NEW r \in Request, WillClear(r), r # l[1] \/ lane[l][i].st # "failing"
    PROVE  WillClear(r)'
  <1>1. UNCHANGED <<crash, drain>> /\ (GoesOn(l, i) \/ GoesBy(l, i))
    BY TaskEffect DEF sending, ending
  <1>2. CASE crash = r \/ (drain # None /\ drain.req = r /\ drain.type = "error")
    BY <1>1, <1>2 DEF WillClear
  <1>3. ASSUME NEW s \in Source, NEW k \in DOMAIN lane[<<r, s>>],
               lane[<<r, s>>][k].st = "failing"
        PROVE  WillClear(r)'
    <2>1. <<r, s>> \in Lane
      BY DEF Lane
    <2>2. k = 1
      BY <1>3, <2>1 DEF Waiting, InLine
    <2>3. <<r, s>> # l \/ i # 1
      BY <1>3, <2>2
    <2>4. 1 \in DOMAIN lane'[<<r, s>>] /\ lane'[<<r, s>>][1].st = "failing"
      <3>1. CASE GoesOn(l, i)
        <4>1. PICK st \in State : Becomes(l, i, st)
          BY <3>1 DEF GoesOn
        <4>2. /\ \A m \in Lane \ {l} : lane'[m] = lane[m]
              /\ DOMAIN lane'[l] = DOMAIN lane[l]
              /\ \A j \in DOMAIN lane[l] \ {i} : lane'[l][j] = lane[l][j]
          BY <4>1, BecomesEffect
        <4> QED
          BY <1>3, <2>1, <2>2, <2>3, <4>2
      <3>2. CASE GoesBy(l, i)
        <4>1. \A m \in Lane \ {l} : lane'[m] = lane[m]
          BY <3>2, PassesEffect DEF GoesBy
        <4>2. i = 1
          BY <3>2 DEF GoesBy
        <4> QED
          BY <1>3, <2>1, <2>2, <2>3, <4>1, <4>2
      <3> QED
        BY <1>1, <3>1, <3>2
    <2> QED
      BY <2>4 DEF WillClear
  <1> QED
    BY <1>2, <1>3 DEF WillClear

\* The steps that leave lanes alone keep a failure that a task is sending.
LEMMA LaneKeeps ==
    ASSUME UNCHANGED <<lane, drain, crash>>, NEW r \in Request, WillClear(r)
    PROVE  WillClear(r)'
  BY DEF WillClear

\* Nothing is left of an aborted request once its failure is sent.
LEMMA ReleasedStep ==
    ASSUME TypeOK, Waiting, Entered, Released, [Next]_vars PROVE Released'
  <1>0. SUFFICES ASSUME NEW r \in Request, r \in aborted', Running', ~WillClear(r)', Held(r)'
                 PROVE  FALSE
    <2>1. TypeOK'
      BY TypeStep
    <2>2. aborted' \subseteq Request
      BY <2>1 DEF TypeOK
    <2> QED
      BY <2>2 DEF Released, Held
  <1>a. r \in aborted /\ Running /\ Held(r) => WillClear(r)
    BY DEF Released, Held
  <1>1. ASSUME NEW l \in Lane, NEW i \in DOMAIN lane[l], Step(l, i) PROVE FALSE
    <2>1. aborted' \subseteq aborted \cup {l[1]} /\ (phase' = phase \/ Running)
      BY <1>1, TaskEffect
    <2>2. Running
      BY <1>0, <2>1 DEF Running
    <2>3. CASE r # l[1]
      <3>1. r \in aborted /\ Held(r)
        BY <1>0, <1>1, <2>1, <2>3, TaskApart
      <3>2. WillClear(r)
        BY <1>a, <2>2, <3>1
      <3> QED
        BY <1>0, <1>1, <2>3, <3>2, TaskKeeps
    <2>4. CASE r = l[1]
      <3>1. CASE /\ r \in aborted /\ lane[l][i].st # "failing"
                 /\ UNCHANGED <<active, open, pending>>
        <4>1. Held(r)
          BY <1>0, <3>1 DEF Held
        <4> QED
          BY <1>0, <1>1, <1>a, <2>2, <3>1, <4>1, TaskKeeps
      <3>2. CASE Becomes(l, i, "failing")
        <4>1. PICK s \in Source : l = <<r, s>>
          BY <2>4 DEF Lane
        <4>2. "failing" \in State
          BY DEF State
        <4>3. i \in DOMAIN lane'[l] /\ lane'[l][i].st = "failing"
          BY <3>2, <4>2, BecomesEffect
        <4> QED
          BY <1>0, <4>1, <4>3 DEF WillClear
      <3> QED
        BY <1>0, <1>1, <2>4, <3>1, <3>2, TaskOwn
    <2> QED
      BY <2>3, <2>4
  <1>2. ASSUME NEW l \in Lane, Arrive(l) PROVE FALSE
    <2>1. UNCHANGED <<aborted, active, open, pending, drain, crash, phase>>
      BY <1>2 DEF Arrive, requests, sending, ending
    <2>2. WillClear(r)
      BY <1>0, <1>a, <2>1 DEF Held, Running
    <2>3. ASSUME NEW s \in Source, NEW k \in DOMAIN lane[<<r, s>>]
          PROVE  k \in DOMAIN lane'[<<r, s>>] /\ lane'[<<r, s>>][k] = lane[<<r, s>>][k]
      <3>1. <<r, s>> \in Lane
        BY DEF Lane
      <3>2. CASE <<r, s>> # l
        <4>1. lane'[<<r, s>>] = lane[<<r, s>>]
          BY <1>2, <3>1, <3>2, ArriveEffect
        <4> QED
          BY <2>3, <4>1
      <3>3. CASE <<r, s>> = l
        <4>1. /\ DOMAIN lane'[l] = 1 .. Len(lane[l]) + 1
              /\ lane'[l][k] = lane[l][k]
          BY <1>2, <2>3, <3>3, ArriveEffect
        <4>2. DOMAIN lane[l] = 1 .. Len(lane[l]) /\ Len(lane[l]) \in Nat
          BY LaneType
        <4>3. k \in 1 .. Len(lane[l])
          BY <2>3, <3>3, <4>2
        <4> DEFINE n == Len(lane[l])
        <4>4. n \in Nat /\ k \in 1 .. n /\ DOMAIN lane'[l] = 1 .. n + 1
          BY <4>1, <4>2, <4>3
        <4> HIDE DEF n
        <4>5. k \in 1 .. n + 1
          BY <4>4
        <4> QED
          BY <3>3, <4>1, <4>4, <4>5
      <3> QED
        BY <3>2, <3>3
    <2> QED
      BY <1>0, <2>1, <2>2, <2>3 DEF WillClear
  <1>3. ASSUME NEW q \in Request, Submit(q) PROVE FALSE
    <2>1. r # q
      BY <1>0, <1>3 DEF Submit, Entered
    <2>2. Held(r) /\ r \in aborted /\ Running /\ UNCHANGED <<lane, drain, crash>>
      BY <1>0, <1>3, <2>1 DEF Submit, Held, receiving, sending, ending
    <2> QED
      BY <1>0, <1>a, <2>2, LaneKeeps
  <1>4. ASSUME NEW q \in Request, Abort(q) PROVE FALSE
    <2>1. r # q
      BY <1>0, <1>4 DEF Abort, Clear, Held, TypeOK
    <2>2. Held(r) /\ r \in aborted /\ Running /\ UNCHANGED <<lane, drain, crash>>
      BY <1>0, <1>4, <2>1 DEF Abort, Clear, Held, TypeOK, receiving, sending, ending
    <2> QED
      BY <1>0, <1>a, <2>2, LaneKeeps
  <1>5. ASSUME NEW q \in Request, CrashFail(q) PROVE FALSE
    <2>1. crash = "failing" /\ crash' = q /\ UNCHANGED <<lane, drain, phase>>
      BY <1>5 DEF CrashFail, receiving, sending
    <2>2. r # q
      BY <1>0, <2>1 DEF WillClear
    <2>3. Held(r) /\ r \in aborted /\ Running
      BY <1>0, <1>5, <2>1, <2>2 DEF CrashFail, Held, Running
    <2>4. WillClear(r) /\ crash # r
      BY <1>a, <2>1, <2>3, ScriptAssumption
    <2> QED
      BY <1>0, <2>1, <2>4 DEF WillClear
  <1>6. ASSUME NEW q \in Request, NEW type \in Type, Emit(q, type) PROVE FALSE
    <2>1. UNCHANGED <<aborted, active, open, pending, lane, drain, crash, phase>>
      BY <1>6 DEF Emit, receiving, ending
    <2> QED
      BY <1>0, <1>a, <2>1, LaneKeeps DEF Held, Running
  <1>7. CASE DrainTake
    <2>1. /\ UNCHANGED <<active, open, pending, lane, crash, phase>> /\ drain = None
          /\ \/ aborted' = aborted
             \/ /\ drain' = outbox[1] /\ drain'.type = "error" /\ outbox # <<>>
                /\ aborted' = aborted \cup {drain'.req}
      BY <1>7 DEF DrainTake, receiving, ending
    <2>2. CASE r \in aborted
      <3>1. WillClear(r)
        BY <1>0, <1>a, <2>1, <2>2 DEF Held, Running
      <3> QED
        BY <1>0, <2>1, <3>1 DEF WillClear
    <2>3. CASE r \notin aborted
      <3>1. drain' = outbox[1] /\ outbox # <<>> /\ drain'.type = "error" /\ drain'.req = r
        BY <1>0, <2>1, <2>3
      <3>2. drain' \in [req : Request, type : Type]
        <4> DEFINE Entry == [req : Request, type : Type]
        <4>1. outbox \in Seq(Entry)
          BY DEF TypeOK
        <4> HIDE DEF Entry
        <4>2. Head(outbox) \in Entry /\ Head(outbox) = outbox[1]
          BY <3>1, <4>1, HeadTailProperties
        <4> QED
          BY <3>1, <4>2 DEF Entry
      <3>3. drain' # None
        BY <3>2, ScriptAssumption DEF Type
      <3> QED
        BY <1>0, <3>1, <3>3 DEF WillClear
    <2> QED
      BY <2>2, <2>3
  <1>8. CASE DrainSent
    <2>1. UNCHANGED <<aborted, lane, crash, phase>> /\ drain # None
      BY <1>8 DEF DrainSent, receiving, ending
    <2>2. drain.req \in Request
      BY <2>1 DEF TypeOK
    <2>3. CASE drain.type = "error" /\ drain.req = r
      BY <1>0, <1>8, <2>2, <2>3 DEF DrainSent, Clear, Held, TypeOK
    <2>4. CASE ~(drain.type = "error" /\ drain.req = r)
      <3>1. Held(r)
        BY <1>0, <1>8, <2>2 DEF DrainSent, Clear, Held, TypeOK
      <3>2. WillClear(r)
        BY <1>0, <1>a, <2>1, <3>1 DEF Running
      <3> QED
        BY <1>0, <2>1, <2>4, <3>2 DEF WillClear
    <2> QED
      BY <2>3, <2>4
  <1>9. CASE Crash \/ CrashHandler
    <2>1. UNCHANGED <<aborted, active, open, pending, lane, drain, phase>>
          /\ crash \in {"none", "raised"}
      BY <1>9 DEF Crash, CrashHandler, requests, receiving, sending
    <2>2. WillClear(r) /\ crash # r
      BY <1>0, <1>a, <2>1, ScriptAssumption DEF Held, Running
    <2> QED
      BY <1>0, <2>1, <2>2 DEF WillClear
  <1>10. CASE CrashSent
    <2>1. UNCHANGED <<aborted, lane, drain, phase>> /\ crash \in Request
      BY <1>10 DEF CrashSent, receiving, sending
    <2>2. r # crash
      BY <1>0, <1>10, <2>1 DEF CrashSent, Clear, Held, TypeOK
    <2>3. Held(r)
      BY <1>0, <1>10, <2>1, <2>2 DEF CrashSent, Clear, Held, TypeOK
    <2>4. WillClear(r)
      BY <1>0, <1>a, <2>1, <2>3 DEF Running
    <2> QED
      BY <1>0, <2>1, <2>2, <2>4 DEF WillClear
  <1>11. CASE Stop \/ Stopped
    BY <1>0, <1>11 DEF Stop, Stopped, Running
  <1>12. CASE UNCHANGED vars
    <2>1. UNCHANGED <<aborted, active, open, pending, lane, drain, crash, phase>>
      BY <1>12 DEF vars, requests, receiving, sending, ending
    <2> QED
      BY <1>0, <1>a, <2>1, LaneKeeps DEF Held, Running
  <1> QED
    BY <1>1, <1>2, <1>3, <1>4, <1>5, <1>6, <1>7, <1>8, <1>9, <1>10, <1>11, <1>12 DEF Next

-----------------------------------------------------------------------------
(* The theorems.                                                           *)

\* The invariant holds when the stage starts.
LEMMA Initially == Init => IInv
  <1> SUFFICES ASSUME Init PROVE IInv
    OBVIOUS
  <1>1. TypeOK
    <2>1. config \in Config
      BY ScriptAssumption DEF Init
    <2>2. /\ arrived \in [Lane -> Nat] /\ acks \in [Lane -> Nat]
          /\ lane \in [Lane -> Seq(Task)] /\ taken \in [Lane -> Seq(Nat)]
      BY DEF Init
    <2>3. outbox \in Seq([req : Request, type : Type])
      BY DEF Init
    <2>4. /\ aborted = {} /\ active = {} /\ open = {} /\ doomed = {}
          /\ pending \in [Request -> SUBSET Source]
          /\ sched \in [Request -> {"none", "given", "finished"}]
      BY DEF Init
    <2>5. drain = None /\ crash = "none" /\ phase = "running"
      BY DEF Init
    <2> QED
      BY <2>1, <2>2, <2>3, <2>4, <2>5 DEF TypeOK
  <1>2. \A l \in Lane : lane[l] = <<>> /\ taken[l] = <<>> /\ arrived[l] = 0
    BY DEF Init
  <1>3. Waiting
    BY <1>2 DEF Waiting, InLine
  <1>4. Gapless /\ OneByOne /\ Behind /\ Rising
    <2>1. \A l \in Lane : Len(lane[l]) = 0 /\ Len(taken[l]) = 0 /\ arrived[l] = 0
      BY <1>2
    <2>2. \A l \in Lane : Len(taken[l]) + Len(lane[l]) = arrived[l]
      <3> TAKE l \in Lane
      <3> DEFINE t == Len(taken[l])
                 n == Len(lane[l])
      <3>1. t = 0 /\ n = 0 /\ arrived[l] = 0
        BY <2>1
      <3> HIDE DEF t, n
      <3>2. t + n = arrived[l]
        BY <3>1
      <3> QED
        BY <3>2 DEF t, n
    <2>3. OneByOne /\ Behind /\ Rising
      BY <1>2 DEF OneByOne, Behind, Rising
    <2> QED
      BY <2>2, <2>3 DEF Gapless
  <1>5. Entered /\ Released
    BY <1>2 DEF Init, Entered, Released
  <1> QED
    BY <1>1, <1>3, <1>4, <1>5 DEF IInv

\* Every step keeps it.
LEMMA Inductive == IInv /\ [Next]_vars => IInv'
  <1> SUFFICES ASSUME IInv, [Next]_vars PROVE IInv'
    OBVIOUS
  <1> QED
    BY TypeStep, WaitingStep, OrderStep, RisingStep, EnteredStep, ReleasedStep DEF IInv

\* It holds in every state the stage reaches.
LEMMA Invariance == Spec => []IInv
  BY Initially, Inductive, PTL DEF Spec

\* What the stage keeps is well formed, whatever its neighbours send and
\* however its tasks, its scheduler and its end interleave.
THEOREM TypeCorrect == Spec => []TypeOK
  <1>1. IInv => TypeOK
    BY DEF IInv
  <1> QED
    BY <1>1, Invariance, PTL

\* _run_receive_task and the futures of _schedule_receive_task: the messages of
\* a source reach the scheduler in the order they were sent, whichever reads end
\* first and whichever of them fail, and without a gap until a task has raised.
THEOREM LanesOrdered == Spec => []LaneOrder
  <1>1. IInv => LaneOrder
    BY DEF IInv, OneByOne, Rising, LaneOrder
  <1> QED
    BY <1>1, Invariance, PTL

\* _send_failure, _on_abort, _route_result and _handle_scheduler_crash: unless a
\* failure is still being sent, nothing is left of an aborted request.
THEOREM NothingStaysHeld == Spec => []NothingHeld
  <1>1. ASSUME NEW r \in Request, WillClear(r) PROVE Failing(r)
    BY <1>1 DEF WillClear, Failing
  <1>2. IInv => NothingHeld
    BY <1>1 DEF IInv, TypeOK, Released, NothingHeld
  <1> QED
    BY <1>2, Invariance, PTL

\* The checks of _aborted before and after the wait for the predecessor: nothing
\* of an aborted request reaches the scheduler.
THEOREM QuietAfter == Spec => QuietAfterAbort
  <1> DEFINE Quiet == \A r \in aborted :
                 /\ \A s \in Source : taken'[<<r, s>>] = taken[<<r, s>>]
                 /\ sched[r] # "given" => sched'[r] # "given"
  <1>1. IInv /\ [Next]_vars => [Quiet]_vars
    <2> SUFFICES ASSUME IInv, [Next]_vars, NEW r \in aborted
                 PROVE  /\ \A s \in Source : taken'[<<r, s>>] = taken[<<r, s>>]
                        /\ sched[r] # "given" => sched'[r] # "given"
      OBVIOUS
    <2>0. TypeOK /\ Waiting /\ Entered /\ r \in Request
          /\ \A s \in Source : <<r, s>> \in Lane
      BY DEF IInv, TypeOK, Lane
    <2>1. ASSUME NEW l \in Lane, NEW i \in DOMAIN lane[l], Step(l, i)
          PROVE  /\ \A s \in Source : taken'[<<r, s>>] = taken[<<r, s>>]
                 /\ sched[r] # "given" => sched'[r] # "given"
      <3>1. GoesOn(l, i) \/ GoesBy(l, i)
        BY <2>0, <2>1, TaskEffect
      <3>2. taken' = taken \/ (taken' = [taken EXCEPT ![l] = Append(@, lane[l][1].id)]
                               /\ l[1] # r)
        BY <3>1 DEF GoesOn, GoesBy
      <3>3. \A s \in Source : taken'[<<r, s>>] = taken[<<r, s>>]
        BY <2>0, <3>2 DEF TypeOK
      <3>4. \/ sched' = sched
            \/ sched' = [sched EXCEPT ![l[1]] = "finished"]
            \/ l[1] \notin aborted /\ \E v : sched' = [sched EXCEPT ![l[1]] = v]
        BY <2>1 DEF Step, Start, ReadEnds, Discarded, Deliver, DeliverPayload, DeliverStream,
                    DeliverError, FailureStarts, FailureSent, Unwind, requests
      <3>5. sched[r] # "given" => sched'[r] # "given"
        BY <2>0, <3>4 DEF TypeOK
      <3> QED
        BY <3>3, <3>5
    <2>2. ASSUME NEW l \in Lane, Arrive(l) PROVE UNCHANGED <<taken, sched>>
      BY <2>2 DEF Arrive, requests
    <2>3. ASSUME NEW q \in Request, Submit(q) \/ Abort(q) \/ CrashFail(q)
          PROVE  taken' = taken /\ (sched[r] # "given" => sched'[r] # "given")
      <3>1. taken' = taken
        BY <2>3 DEF Submit, Abort, CrashFail, receiving
      <3>2. CASE Submit(q)
        BY <2>0, <3>1, <3>2 DEF Submit, Entered, TypeOK
      <3>3. CASE Abort(q) \/ CrashFail(q)
        BY <2>0, <3>1, <3>3 DEF Abort, CrashFail, TypeOK
      <3> QED
        BY <2>3, <3>1, <3>2, <3>3
    <2>4. ASSUME NEW q \in Request, NEW type \in Type, Emit(q, type)
          PROVE  taken' = taken /\ (sched[r] # "given" => sched'[r] # "given")
      BY <2>0, <2>4 DEF Emit, TypeOK, receiving
    <2>5. CASE \/ DrainTake \/ DrainSent \/ Crash \/ CrashHandler \/ CrashSent
               \/ Stop \/ Stopped \/ UNCHANGED vars
      <3>1. sched' = sched
        BY <2>5 DEF DrainTake, DrainSent, Crash, CrashHandler, CrashSent, Stop, Stopped,
                    vars, requests
      <3>2. taken' = taken
        BY <2>5 DEF DrainTake, DrainSent, Crash, CrashHandler, CrashSent, Stop, Stopped,
                    vars, receiving
      <3> QED
        BY <3>1, <3>2
    <2> QED
      BY <2>1, <2>2, <2>3, <2>4, <2>5 DEF Next
  <1> QED
    BY <1>1, Invariance, PTL DEF Spec, QuietAfterAbort
=============================================================================
