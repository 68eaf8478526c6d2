------------------------- MODULE WeightUpdateProofs -------------------------
(***************************************************************************)
(* The weight update implements WeightGate for every set of workers and    *)
(* data planes and any number of faults and updates: whatever dies, no     *)
(* worker whose weights may be mixed is given a request.                   *)
(***************************************************************************)
EXTENDS WeightUpdate, TLAPS

-----------------------------------------------------------------------------
(* The inductive invariant.                                                *)

\* Epochs only grow, and within one the file, its readers and the writer's
\* number are in this order.
Clocks ==
    /\ epoch >= 1
    /\ file = NoFile \/ file.epoch = epoch
    /\ up => file.epoch = epoch
    /\ file.seq <= seq
    /\ \A d \in DP :
           /\ view[d].epoch <= epoch
           /\ view[d].epoch = epoch => file.epoch = epoch /\ view[d].seq <= file.seq

\* What a heartbeat of d, received or not, may claim.  One of a process that
\* died holds of its successor as soon as that has read the file.
Claim(d, b) ==
    /\ b.gen <= gen[d]
    /\ b.epoch <= epoch
    /\ b.epoch = epoch =>
           /\ file.epoch = epoch /\ b.seq <= file.seq
           /\ \/ view[d] = NoFile /\ b.gen # gen[d]
              \/ view[d].epoch = epoch /\ view[d].seq >= b.seq

Claims == \A d \in DP : Claim(d, record[d]) /\ Claim(d, late[d])

\* Between the journal entry and the outcome of an update.
Underway ==
    /\ phase \in {"begun", "barrier", "broadcast"} =>
           /\ targets # {}
           /\ journal.readable => targets \subseteq journal.ids
           /\ synced.readable => targets \subseteq synced.ids
    /\ phase \in {"begun", "barrier"} => uncertain = {}
    /\ phase = "broadcast" => uncertain = targets
    /\ phase \in {"barrier", "broadcast"} =>
           /\ targets \subseteq pool.disabled
           /\ targets \subseteq file.pool.disabled
           /\ \A d \in DP : view[d].epoch = epoch /\ view[d].seq >= goal =>
                                targets \subseteq view[d].pool.disabled

\* A pool that routes nothing to a worker of uncertain weights.
Shuts(p) == uncertain \cap p.ids \subseteq p.disabled

\* Neither the registry, nor the file, nor what a data plane has read.
Shut ==
    /\ up => Shuts(pool)
    /\ Shuts(file.pool)
    /\ \A d \in DP : Shuts(view[d].pool)

-----------------------------------------------------------------------------
(* Types.                                                                  *)

\* What is left of a write whether it succeeds or fails.
LEMMA WriteEffect ==
    ASSUME NEW W, NEW durable, Write(W, durable)
    PROVE  /\ journal' \in {journal, Names(W)}
           /\ synced' \in {synced, Names(W)}
           /\ faults' \in {faults, faults + 1}
  BY Zenon DEF Write, Fault, NoFault

\* A publication takes a new number, whether or not the file is written.
LEMMA PublishEffect ==
    ASSUME NEW p, NEW written, Publish(p, written)
    PROVE  /\ seq' = seq + 1
           /\ file' \in {file, [epoch |-> epoch, seq |-> seq + 1, pool |-> p]}
           /\ faults' \in {faults, faults + 1}
  BY Zenon DEF Publish, Fault, NoFault

\* Names are a journal.
LEMMA NamesType == ASSUME NEW W \in SUBSET Worker PROVE Names(W) \in Journal
  BY Zenon DEF Names, Journal

\* A journal names workers.
LEMMA IdsType == ASSUME NEW j \in Journal PROVE j.ids \in SUBSET Worker
  BY DEF Journal

\* A write leaves a journal, in the cache and on disk.
LEMMA WriteType ==
    ASSUME TypeOK, NEW W \in SUBSET Worker, NEW durable, Write(W, durable)
    PROVE  journal' \in Journal /\ synced' \in Journal /\ faults' \in Nat
  BY WriteEffect, NamesType DEF TypeOK

\* Flags are those of known workers, in the registry and in the file, and so
\* are the targets.
Sane(p) == p \in Pool /\ p.disabled \cup p.dead \subseteq p.ids

TypeInv ==
    /\ TypeOK
    /\ Sane(file.pool)
    /\ phase # "idle" => up
    /\ phase \in {"begun", "barrier", "broadcast"} => targets \subseteq pool.ids

\* A publication leaves a well-formed file.
LEMMA PublishType ==
    ASSUME TypeInv, NEW p, Sane(p), NEW written, Publish(p, written)
    PROVE  /\ seq' \in Nat /\ faults' \in Nat
           /\ file' \in [epoch : Nat, seq : Nat, pool : Pool]
           /\ Sane(file'.pool)
  BY PublishEffect DEF TypeInv, TypeOK, Sane

\* The types are preserved by the steps of an update.
LEMMA UpdateType == ASSUME TypeInv, Update PROVE TypeInv'
  <1> USE DEF TypeInv, TypeOK, Sane
  <1>1. CASE Begin
    <2>1. Live(pool) \in SUBSET Worker /\ Live(pool) \subseteq pool.ids
      BY DEF Live, Pool
    <2>2. PICK durable \in BOOLEAN : Write(Live(pool), durable)
      BY <1>1, Zenon DEF Begin
    <2>3. journal' \in Journal /\ synced' \in Journal /\ faults' \in Nat
      BY <2>1, <2>2, WriteType
    <2>4. /\ targets' \subseteq Worker /\ before' \subseteq targets'
          /\ phase' \in {"idle", "begun"}
          /\ phase' = "begun" => targets' \subseteq pool.ids
      BY <1>1, <2>1 DEF Begin, Free
    <2>5. UNCHANGED <<up, epoch, seq, goal, pool, record, file, planes, uncertain>>
          /\ updates' = updates + 1 /\ up
      BY <1>1 DEF Begin, Free
    <2> QED
      BY <2>3, <2>4, <2>5 DEF planes
  <1>2. CASE Disable
    <2>1. /\ Sane(pool')
          /\ pool'.ids = pool.ids
      BY <1>2 DEF Disable, Pool
    <2>2. PICK written \in BOOLEAN : Publish(pool', written)
      BY <1>2, Zenon DEF Disable
    <2>3. /\ seq' \in Nat /\ faults' \in Nat
          /\ file' \in [epoch : Nat, seq : Nat, pool : Pool] /\ Sane(file'.pool)
      BY <2>1, <2>2, PublishType
    <2>4. phase' \in {"barrier", "idle"} /\ goal' \in Nat
      BY <1>2, <2>3 DEF Disable
    <2>5. UNCHANGED <<up, epoch, targets, before, record, disk, planes, uncertain,
                      updates>>
      BY <1>2 DEF Disable
    <2> QED
      BY <1>2, <2>1, <2>3, <2>4, <2>5 DEF Disable, disk, planes
  <1>3. CASE Broadcast
    BY <1>3 DEF Broadcast, transaction, disk, planes
  <1>4. ASSUME NEW safe \in BOOLEAN, Outcome(safe), phase \in {"barrier", "broadcast"}
        PROVE  /\ Sane(pool')
               /\ journal' \in Journal /\ synced' \in Journal /\ faults' \in Nat
               /\ phase' = "publish"
    <2>1. PICK W \in {{}, targets}, durable \in BOOLEAN : Write(W, durable)
      BY <1>4, Zenon DEF Outcome
    <2>2. pool' \in {[pool EXCEPT !.disabled = (@ \ targets) \cup before],
                     [pool EXCEPT !.disabled = @ \cup targets]}
      BY <1>4, Zenon DEF Outcome
    <2>3. Sane(pool')
      BY <1>4, <2>2 DEF Pool
    <2> QED
      BY <1>4, <2>1, <2>3, WriteType DEF Outcome
  <1>5. CASE Abort \/ Succeed \/ Fail
    <2>1. PICK safe \in BOOLEAN : Outcome(safe)
      BY <1>5, Zenon DEF Abort, Succeed, Fail
    <2>2. /\ phase \in {"barrier", "broadcast"}
          /\ uncertain' \in {uncertain, uncertain \ targets}
          /\ UNCHANGED <<up, epoch, seq, transaction, record, file, planes,
                         updates>>
      BY <1>5 DEF Abort, Succeed, Fail
    <2> QED
      BY <1>4, <2>1, <2>2 DEF transaction, planes
  <1>6. CASE PublishEnd
    BY <1>6, PublishType DEF PublishEnd, transaction, disk, planes
  <1> QED
    BY <1>1, <1>2, <1>3, <1>5, <1>6 DEF Update

\* An operator's changes preserve them.
LEMMA OperatorType == ASSUME TypeInv, Operator PROVE TypeInv'
  <1> USE DEF TypeInv, TypeOK, Sane, Operation, Free, transaction, planes
  <1>1. CASE Resolve
    <2>1. PICK durable \in BOOLEAN : Write({}, durable)
      BY <1>1, Zenon DEF Resolve
    <2>2. journal' \in Journal /\ synced' \in Journal /\ faults' \in Nat
      BY <2>1, WriteType
    <2> QED
      BY <1>1, <2>2 DEF Resolve
  <1>2. ASSUME NEW w \in Worker, PutFlags(w) PROVE TypeInv'
    <2>1. Sane(pool')
      BY <1>2 DEF PutFlags, Pool
    <2> QED
      BY <1>2, <2>1 DEF PutFlags, disk
  <1>3. ASSUME NEW w \in Worker, PutEnabled(w) PROVE TypeInv'
    <2>1. journal.ids \ {w} \in SUBSET Worker
      BY IdsType
    <2>2. PICK durable \in BOOLEAN : Write(journal.ids \ {w}, durable)
      BY <1>3, Zenon DEF PutEnabled
    <2>3. journal' \in Journal /\ synced' \in Journal /\ faults' \in Nat
      BY <2>1, <2>2, WriteType
    <2>4. /\ pool' \in {pool, [pool EXCEPT !.disabled = @ \ {w}]}
          /\ phase' \in {"publish", "idle"}
      BY <1>3 DEF PutEnabled
    <2>5. Sane(pool')
      <3>1. Sane(pool)
        OBVIOUS
      <3>2. CASE pool' = [pool EXCEPT !.disabled = @ \ {w}]
        BY <3>1, <3>2, SMTT(30) DEF Pool
      <3> QED
        BY <2>4, <3>1, <3>2, Zenon
    <2> QED
      BY <1>3, <2>3, <2>4, <2>5, SMTT(30) DEF PutEnabled
  <1>4. ASSUME NEW w \in Worker, Post(w) PROVE TypeInv'
    <2>1. Sane(pool')
      BY <1>4 DEF Post, Pool
    <2> QED
      BY <1>4, <2>1 DEF Post, disk
  <1>5. ASSUME NEW w \in Worker, Delete(w) PROVE TypeInv'
    <2>1. Sane(pool')
      BY <1>5 DEF Delete, Pool
    <2> QED
      BY <1>5, <2>1 DEF Delete, disk
  <1> QED
    BY <1>1, <1>2, <1>3, <1>4, <1>5 DEF Operator

\* So do the data planes and the internal channel.
LEMMA PlaneType ==
    ASSUME TypeInv, NEW d \in DP, Refresh(d) \/ Register(d) \/ Beats(d) \/ Arrive(d)
    PROVE  TypeInv'
  <1> USE DEF TypeInv, TypeOK, Sane, transaction, disk
  <1>1. ASSUME NEW b \in Position, Heartbeat(d, b)
        PROVE  record' \in [DP -> Position]
    BY <1>1 DEF Heartbeat, Merged, Larger, Position
  <1>2. CASE Refresh(d)
    BY <1>2 DEF Refresh
  <1>3. CASE Register(d)
    <2>1. record' \in [DP -> Position]
      BY <1>3 DEF Register, Unknown, Position
    <2> QED
      BY <1>3, <2>1 DEF Register, planes
  <1>4. CASE Beats(d)
    <2>1. Beat(d) \in Position
      BY DEF Beat, Position
    <2> QED
      BY <1>1, <1>4, <2>1 DEF Beats, planes
  <1>5. CASE Arrive(d)
    <2>1. late[d] \in Position /\ Unknown \in Position
      BY DEF Unknown, Position
    <2> QED
      BY <1>1, <1>5, <2>1 DEF Arrive
  <1> QED
    BY <1>2, <1>3, <1>4, <1>5

\* And so do faults and the start of a control plane.
LEMMA FaultType ==
    ASSUME TypeInv, Faults \/ StartCP \/ Keepalive PROVE TypeInv'
  <1> USE DEF TypeInv, TypeOK, Sane, Fault, transaction
  <1>1. Empty \in Pool /\ Unknown \in Position
    BY DEF Empty, Pool, Unknown, Position
  <1>2. NoFile \in [epoch : Nat, seq : Nat, pool : Pool] /\ Sane(NoFile.pool)
    BY <1>1 DEF NoFile, Empty
  <1>3. ASSUME Forget
        PROVE  /\ Sane(pool')
               /\ record' \in [DP -> Position] /\ late' \in [DP -> Position]
               /\ up' \in BOOLEAN /\ phase' = "idle" /\ goal' = 0
               /\ targets' = {} /\ before' = {}
    BY <1>1, <1>3 DEF Forget, Empty
  <1>4. CASE CrashCP
    BY <1>3, <1>4 DEF CrashCP, disk
  <1>5. CASE Reboot
    BY <1>2, <1>3, <1>5 DEF Reboot
  <1>6. CASE Corrupt
    <2>1. Unreadable \in Journal
      BY Zenon DEF Unreadable, Journal
    <2> QED
      BY <1>6, <2>1 DEF Corrupt, planes
  <1>7. ASSUME NEW d \in DP, RestartDP(d) PROVE TypeInv'
    BY <1>2, <1>7 DEF RestartDP, disk
  <1>8. ASSUME NEW d \in DP, Delay(d) PROVE TypeInv'
    <2>1. Beat(d) \in Position
      BY DEF Beat, Position
    <2> QED
      BY <1>8, <2>1 DEF Delay, disk
  <1>9. CASE StartCP
    <2>1. Sane(Restored)
      BY PoolAssumption DEF Restored, Empty, Pool
    <2>2. Sane(pool')
      BY <1>9, <2>1 DEF StartCP, Recovered, Pool
    <2> QED
      BY <1>9, <2>2 DEF StartCP, disk, planes
  <1>10. CASE Keepalive
    BY <1>10, PublishType DEF Keepalive, disk, planes
  <1> QED
    BY <1>4, <1>5, <1>6, <1>7, <1>8, <1>9, <1>10 DEF Faults

\* The router starts well typed.
LEMMA InitType == Init => TypeInv
  <1>1. Names({}) \in Journal
    BY NamesType
  <1>2. Unknown \in Position /\ NoFile \in [epoch : Nat, seq : Nat, pool : Pool]
    BY DEF Unknown, Position, NoFile, Empty, Pool
  <1> QED
    BY <1>1, <1>2, PoolAssumption DEF Init, TypeInv, TypeOK, Sane, Empty, Pool

\* Every step keeps the types.
LEMMA TypeStep == TypeInv /\ [Next]_vars => TypeInv'
  <1> SUFFICES ASSUME TypeInv, [Next]_vars PROVE TypeInv'
    OBVIOUS
  <1>1. CASE UNCHANGED vars
    BY <1>1 DEF vars, TypeInv, TypeOK, Sane, transaction, disk, planes
  <1> QED
    BY <1>1, UpdateType, OperatorType, PlaneType, FaultType DEF Next, DataPlane

\* Registry, journal, snapshot and heartbeats keep their types.
THEOREM TypeCorrect == Spec => []TypeOK
  <1>1. TypeInv => TypeOK
    BY DEF TypeInv
  <1> QED
    BY <1>1, InitType, TypeStep, PTL DEF Spec

-----------------------------------------------------------------------------
(* Epochs, numbers and heartbeats.                                         *)

\* A handler that publishes, and one that does not.
Publishes ==
    /\ up /\ UNCHANGED <<up, epoch, record, planes>>
    /\ seq' = seq + 1
    /\ file' \in {file, [epoch |-> epoch, seq |-> seq + 1, pool |-> pool']}

Internal == UNCHANGED <<up, epoch, seq, file, record, planes>>

\* The handlers that publish.
LEMMA PublishingStep ==
    ASSUME TypeInv, Disable \/ PublishEnd \/ Keepalive PROVE Publishes
  <1>1. PICK written \in BOOLEAN : Publish(pool', written)
    <2>1. pool' = pool \/ Disable
      BY DEF PublishEnd, Keepalive
    <2> QED
      BY <2>1, Zenon DEF Disable, PublishEnd, Keepalive
  <1>2. up /\ UNCHANGED <<up, epoch, record, planes>>
    BY DEF Disable, PublishEnd, Keepalive, TypeInv
  <1> QED
    BY <1>1, <1>2, PublishEffect DEF Publishes

\* What a step does to the file and to what is known of it.
LEMMA StepEffect ==
    ASSUME TypeInv, [Next]_vars
    PROVE  \/ Internal \/ Publishes \/ CrashCP \/ Reboot \/ StartCP
           \/ \E d \in DP : \/ Refresh(d) \/ Register(d) \/ Beats(d) \/ Arrive(d)
                            \/ Delay(d) \/ RestartDP(d)
  <1>1. CASE Disable \/ PublishEnd \/ Keepalive
    BY <1>1, PublishingStep
  <1>2. CASE Begin \/ Broadcast \/ Abort \/ Succeed \/ Fail
    BY <1>2 DEF Begin, Broadcast, Abort, Succeed, Fail, Internal
  <1>3. CASE Operator
    BY <1>3 DEF Operator, Resolve, PutFlags, PutEnabled, Post, Delete, Operation, Internal
  <1>4. CASE Corrupt \/ UNCHANGED vars
    BY <1>4 DEF Corrupt, vars, Internal
  <1> QED
    BY <1>1, <1>2, <1>3, <1>4 DEF Next, Update, DataPlane, Faults

\* Epochs and numbers never pass those of the control plane.
LEMMA ClocksStep == ASSUME TypeInv, Clocks, [Next]_vars PROVE Clocks'
  <1> USE DEF TypeInv, TypeOK, Clocks
  <1>1. CASE Internal
    BY <1>1 DEF Internal, planes
  <1>2. CASE Publishes
    BY <1>2 DEF Publishes, planes, NoFile
  <1>3. CASE CrashCP
    BY <1>3 DEF CrashCP, Forget
  <1>4. CASE Reboot
    BY <1>4 DEF Reboot, Forget, NoFile
  <1>5. CASE StartCP
    BY <1>5 DEF StartCP, planes
  <1>6. ASSUME NEW d \in DP, Refresh(d) PROVE Clocks'
    BY <1>6 DEF Refresh
  <1>7. ASSUME NEW d \in DP, RestartDP(d) PROVE Clocks'
    BY <1>7 DEF RestartDP, NoFile
  <1>8. ASSUME NEW d \in DP, Register(d) \/ Beats(d) \/ Arrive(d) \/ Delay(d)
        PROVE  Clocks'
    BY <1>8 DEF Register, Beats, Arrive, Delay, planes
  <1> QED
    BY <1>1, <1>2, <1>3, <1>4, <1>5, <1>6, <1>7, <1>8, StepEffect

\* A heartbeat never claims more than its data plane has read.
LEMMA ClaimsStep ==
    ASSUME TypeInv, Clocks, Claims, [Next]_vars PROVE Claims'
  <1> USE DEF TypeInv, TypeOK, Clocks, Claims, Claim, Position
  <1>1. CASE Internal
    BY <1>1 DEF Internal, planes
  <1>2. CASE Publishes
    BY <1>2 DEF Publishes, planes
  <1>3. CASE CrashCP
    BY <1>3 DEF CrashCP, Forget, Unknown
  <1>4. CASE Reboot
    BY <1>4 DEF Reboot, Forget, Unknown
  <1>5. CASE StartCP
    BY <1>5 DEF StartCP, planes
  <1>6. ASSUME NEW d \in DP, Refresh(d) PROVE Claims'
    BY <1>6 DEF Refresh
  <1>7. ASSUME NEW d \in DP, RestartDP(d) PROVE Claims'
    BY <1>7 DEF RestartDP
  <1>8. ASSUME NEW d \in DP, Register(d) PROVE Claims'
    BY <1>8 DEF Register, Unknown, planes
  <1>9. ASSUME NEW d \in DP, NEW b \in Position, Claim(d, b), up,
               Heartbeat(d, b), UNCHANGED <<epoch, file, gen, view>>
        PROVE  \A e \in DP : Claim(e, record[e])'
    BY <1>9 DEF Heartbeat, Merged, Larger
  <1>10. ASSUME NEW d \in DP, up PROVE Beat(d) \in Position /\ Claim(d, Beat(d))
    BY <1>10 DEF Beat, NoFile
  <1>11. ASSUME NEW d \in DP, Beats(d) PROVE Claims'
    <2>1. UNCHANGED <<epoch, file, gen, view, late>> /\ up /\ Heartbeat(d, Beat(d))
      BY <1>11 DEF Beats, planes
    <2>2. \A e \in DP : Claim(e, record[e])'
      BY <1>9, <1>10, <2>1
    <2> QED
      BY <2>1, <2>2
  <1>12. ASSUME NEW d \in DP, Arrive(d) PROVE Claims'
    <2>1. /\ UNCHANGED <<epoch, file, gen, view>> /\ up /\ Heartbeat(d, late[d])
          /\ late' = [late EXCEPT ![d] = Unknown]
      BY <1>12 DEF Arrive
    <2>2. late[d] \in Position
      OBVIOUS
    <2>3. \A e \in DP : Claim(e, record[e])'
      BY <1>9, <2>1, <2>2
    <2>4. \A e \in DP : Claim(e, late[e])'
      BY <2>1 DEF Unknown
    <2> QED
      BY <2>3, <2>4
  <1>13. ASSUME NEW d \in DP, Delay(d) PROVE Claims'
    BY <1>10, <1>13 DEF Delay
  <1> QED
    BY <1>1, <1>2, <1>3, <1>4, <1>5, <1>6, <1>7, <1>8, <1>11, <1>12, <1>13, StepEffect

\* The control plane never believes a data plane further than it is.
LEMMA ClaimsTrue == ASSUME TypeInv, Clocks, Claims PROVE AckTruthful
  BY DEF TypeInv, TypeOK, Position, Claims, Claim, AckTruthful

-----------------------------------------------------------------------------
(* The journal and the flags.                                              *)

\* The outcome of an update: what it writes and which flags it sets.
LEMMA OutcomeEffect ==
    ASSUME NEW safe \in BOOLEAN, Outcome(safe)
    PROVE  LET W == IF safe THEN {} ELSE targets IN
           /\ journal' \in {journal, Names(W)} /\ synced' \in {synced, Names(W)}
           /\ pool' = [pool EXCEPT !.disabled =
                           IF safe THEN (@ \ targets) \cup before ELSE @ \cup targets]
           /\ phase' = "publish"
  <1> DEFINE W == IF safe THEN {} ELSE targets
  <1>1. PICK durable \in BOOLEAN : Write(W, durable)
    BY Zenon DEF Outcome
  <1>2. journal' \in {journal, Names(W)} /\ synced' \in {synced, Names(W)}
    BY <1>1, WriteEffect
  <1> QED
    BY <1>2, Zenon DEF Outcome

\* A worker is uncertain only while it is in the journal.
LEMMA JournaledStep ==
    ASSUME TypeInv, Underway, UncertainJournaled, [Next]_vars
    PROVE  UncertainJournaled'
  <1> USE DEF UncertainJournaled, Names
  <1>1. CASE Begin
    <2>1. uncertain = {} /\ uncertain' = {}
      BY <1>1 DEF Begin, HasPending
    <2> QED
      BY <2>1
  <1>2. CASE Disable \/ PublishEnd \/ Keepalive
    BY <1>2 DEF Disable, PublishEnd, Keepalive, disk
  <1>3. CASE Broadcast
    BY <1>3 DEF Broadcast, Underway, disk
  <1>4. CASE Abort \/ Succeed
    <2>1. uncertain' = {}
      BY <1>4 DEF Abort, Succeed, Underway
    <2> QED
      BY <2>1
  <1>5. CASE Fail
    <2>1. journal' \in {journal, Names(targets)} /\ synced' \in {synced, Names(targets)}
      BY <1>5, OutcomeEffect DEF Fail
    <2> QED
      BY <1>5, <2>1 DEF Fail, Underway
  <1>6. CASE Resolve
    BY <1>6 DEF Resolve
  <1>7. ASSUME NEW w \in Worker, PutEnabled(w) PROVE UncertainJournaled'
    <2>1. PICK durable \in BOOLEAN : Write(journal.ids \ {w}, durable)
      BY <1>7, Zenon DEF PutEnabled
    <2>2. /\ journal' \in {journal, Names(journal.ids \ {w})}
          /\ synced' \in {synced, Names(journal.ids \ {w})}
      BY <2>1, WriteEffect
    <2> QED
      BY <1>7, <2>2 DEF PutEnabled
  <1>8. ASSUME NEW w \in Worker, PutFlags(w) \/ Post(w) \/ Delete(w)
        PROVE  UncertainJournaled'
    BY <1>8 DEF PutFlags, Post, Delete, disk
  <1>9. ASSUME NEW d \in DP, \/ Refresh(d) \/ Register(d) \/ Beats(d) \/ Arrive(d)
                             \/ Delay(d) \/ RestartDP(d)
        PROVE  UncertainJournaled'
    BY <1>9 DEF Refresh, Register, Beats, Arrive, Delay, RestartDP, disk
  <1>10. CASE Reboot
    BY <1>10 DEF Reboot
  <1>11. CASE Corrupt
    BY <1>11 DEF Corrupt, Unreadable
  <1>12. CASE CrashCP \/ StartCP \/ UNCHANGED vars
    BY <1>12 DEF CrashCP, StartCP, vars, disk
  <1> QED
    BY <1>1, <1>2, <1>3, <1>4, <1>5, <1>6, <1>7, <1>8, <1>9, <1>10, <1>11, <1>12
    DEF Next, Update, Operator, DataPlane, Faults

-----------------------------------------------------------------------------
(* The update and the gate.                                                *)

\* From the journal entry to the outcome.
LEMMA UnderwayStep ==
    ASSUME TypeInv, Clocks, Claims, Underway, UncertainJournaled, [Next]_vars
    PROVE  Underway'
  <1> USE DEF Underway, TypeInv, TypeOK
  <1>1. CASE Begin
    <2>1. CASE phase' = "idle"
      BY <2>1
    <2>2. CASE phase' # "idle"
      <3>1. /\ Write(Live(pool), TRUE) /\ targets' = Live(pool) /\ phase' = "begun"
            /\ before' = pool.disabled \cap targets'
        BY <1>1, <2>2 DEF Begin, Free
      <3>2. journal' = Names(targets') /\ synced' = Names(targets')
        BY <3>1, Zenon DEF Write
      <3>3. uncertain' = {}
        BY <1>1 DEF Begin, HasPending, UncertainJournaled
      <3> QED
        BY <1>1, <3>1, <3>2, <3>3 DEF Begin, Names
    <2> QED
      BY <2>1, <2>2
  <1>2. CASE Disable
    <2>1. CASE phase' = "idle"
      BY <2>1
    <2>2. CASE phase' # "idle"
      <3>1. Publish(pool', TRUE) /\ phase' = "barrier" /\ goal' = seq'
        BY <1>2, <2>2 DEF Disable
      <3>2. seq' = seq + 1 /\ file' = [epoch |-> epoch, seq |-> seq', pool |-> pool']
        BY <3>1, Zenon DEF Publish
      <3>3. targets' = targets /\ targets \subseteq pool'.disabled
        BY <1>2 DEF Disable, Pool
      <3>4. \A d \in DP : view[d].epoch = epoch => view[d].seq < goal'
        BY <3>1, <3>2 DEF Clocks
      <3>5. phase = "begun" /\ UNCHANGED <<epoch, targets, before, journal, synced,
                                          view, uncertain>>
        BY <1>2 DEF Disable, disk, planes
      <3>6. file'.pool.disabled = pool'.disabled
        BY <3>2
      <3>7. \A d \in DP : ~(view'[d].epoch = epoch' /\ view'[d].seq >= goal')
        BY <3>1, <3>2, <3>4, <3>5
      <3> QED
        BY <3>1, <3>3, <3>5, <3>6, <3>7
    <2> QED
      BY <2>1, <2>2
  <1>3. CASE Broadcast
    BY <1>3 DEF Broadcast, transaction, disk, planes
  <1>4. CASE Abort \/ Succeed \/ Fail \/ PublishEnd
    <2>1. phase' \in {"publish", "idle"}
      BY <1>4 DEF Abort, Succeed, Fail, PublishEnd, Outcome
    <2> QED
      BY <2>1
  <1>5. CASE Keepalive
    <2>1. PICK written \in BOOLEAN : Publish(pool, written)
      BY <1>5 DEF Keepalive
    <2>2. file' \in {file, [epoch |-> epoch, seq |-> seq + 1, pool |-> pool]}
      BY <2>1, PublishEffect
    <2> QED
      BY <1>5, <2>2 DEF Keepalive, transaction, disk, planes
  <1>6. CASE Operator
    <2>1. phase' \in {"publish", "idle"}
      BY <1>6 DEF Operator, Resolve, PutFlags, PutEnabled, Post, Delete, Operation, Free
    <2> QED
      BY <2>1
  <1>7. ASSUME NEW d \in DP, Refresh(d) PROVE Underway'
    BY <1>7 DEF Refresh, transaction, disk
  <1>8. ASSUME NEW d \in DP, RestartDP(d) PROVE Underway'
    BY <1>8 DEF RestartDP, transaction, disk, NoFile, Clocks
  <1>9. ASSUME NEW d \in DP, Register(d) \/ Beats(d) \/ Arrive(d) \/ Delay(d)
        PROVE  Underway'
    BY <1>9 DEF Register, Beats, Arrive, Delay, transaction, disk, planes
  <1>10. CASE CrashCP \/ Reboot \/ StartCP
    <2>1. phase' = "idle"
      BY <1>10 DEF CrashCP, Reboot, Forget, StartCP
    <2> QED
      BY <2>1
  <1>11. CASE Corrupt
    BY <1>11 DEF Corrupt, Unreadable, transaction, planes
  <1>12. CASE UNCHANGED vars
    BY <1>12 DEF vars, transaction, disk, planes
  <1> QED
    BY <1>1, <1>2, <1>3, <1>4, <1>5, <1>6, <1>7, <1>8, <1>9, <1>10, <1>11, <1>12
    DEF Next, Update, DataPlane, Faults

\* When the barrier is passed, no data plane routes to a target.
LEMMA BarrierHolds ==
    ASSUME TypeInv, Clocks, Claims, Underway, phase = "barrier", Acked, NEW d \in DP
    PROVE  targets \cap view[d].pool.ids \subseteq view[d].pool.disabled
  <1>1. \/ view[d] = NoFile
        \/ view[d].epoch = epoch /\ view[d].seq >= record[d].seq
    BY DEF Acked, Claims, Claim
  <1>2. CASE view[d] = NoFile
    BY <1>2 DEF NoFile, Empty
  <1>3. CASE view[d].epoch = epoch /\ view[d].seq >= record[d].seq
    <2>1. view[d].seq >= goal
      BY <1>3 DEF Acked, TypeInv, TypeOK, Position
    <2> QED
      BY <1>3, <2>1 DEF Underway
  <1> QED
    BY <1>1, <1>2, <1>3

\* Uncertain workers stay shut out of the registry, the file and the views.
LEMMA ShutStep ==
    ASSUME TypeInv, Clocks, Claims, Underway, UncertainJournaled, Shut, [Next]_vars
    PROVE  Shut'
  <1> USE DEF Shut, Shuts, TypeInv, TypeOK
  <1>1. CASE Begin \/ Corrupt \/ UNCHANGED vars
    <2>1. UNCHANGED <<up, pool, file, view, uncertain>>
      BY <1>1 DEF Begin, Corrupt, vars, planes
    <2> QED
      BY <2>1
  <1>2. CASE Disable \/ PublishEnd \/ Keepalive
    <2>1. up /\ uncertain' = uncertain
      BY <1>2 DEF Disable, PublishEnd, Keepalive
    <2>2. pool' \in {pool, [pool EXCEPT !.disabled = @ \cup targets]}
      BY <1>2 DEF Disable, PublishEnd, Keepalive
    <2>3. uncertain' \cap pool'.ids \subseteq pool'.disabled
      BY <2>1, <2>2 DEF Pool
    <2>4. Publishes
      BY <1>2, PublishingStep
    <2> QED
      BY <2>1, <2>3, <2>4 DEF Publishes, planes
  <1>3. CASE Broadcast
    BY <1>3, BarrierHolds DEF Broadcast, Underway, planes
  <1>4. CASE Abort \/ Succeed
    <2>1. uncertain' = {}
      BY <1>4 DEF Abort, Succeed, Underway
    <2> QED
      BY <2>1
  <1>5. CASE Fail
    <2>1. pool' = [pool EXCEPT !.disabled = @ \cup targets]
      BY <1>5, OutcomeEffect DEF Fail
    <2> QED
      BY <1>5, <2>1 DEF Fail, planes, Pool
  <1>6. CASE Resolve
    BY <1>6 DEF Resolve
  <1>7. ASSUME NEW w \in Worker, PutFlags(w) \/ PutEnabled(w) \/ Post(w) \/ Delete(w)
        PROVE  Shut'
    <2>1. UNCHANGED <<up, file, view>> /\ uncertain' \subseteq uncertain
      BY <1>7 DEF PutFlags, PutEnabled, Post, Delete, Operation, planes
    <2>2. CASE PutFlags(w)
      BY <2>1, <2>2 DEF PutFlags, Pool
    <2>3. CASE PutEnabled(w)
      <3>1. /\ pool' \in {pool, [pool EXCEPT !.disabled = @ \ {w}]}
            /\ uncertain' = uncertain \ {w}
        BY <2>3 DEF PutEnabled
      <3>2. pool'.ids = pool.ids /\ pool.disabled \ {w} \subseteq pool'.disabled
        BY <3>1 DEF Pool
      <3> QED
        BY <2>1, <3>1, <3>2
    <2>4. CASE Post(w)
      BY <2>1, <2>4 DEF Post, Journaled, UncertainJournaled, Pool
    <2>5. CASE Delete(w)
      BY <2>1, <2>5 DEF Delete
    <2> QED
      BY <1>7, <2>2, <2>3, <2>4, <2>5
  <1>8. ASSUME NEW d \in DP, Refresh(d) PROVE Shut'
    BY <1>8 DEF Refresh
  <1>9. ASSUME NEW d \in DP, RestartDP(d) PROVE Shut'
    BY <1>9 DEF RestartDP, NoFile, Empty
  <1>10. ASSUME NEW d \in DP, Register(d) \/ Beats(d) \/ Arrive(d) \/ Delay(d)
         PROVE  Shut'
    BY <1>10 DEF Register, Beats, Arrive, Delay, planes
  <1>11. CASE CrashCP \/ Reboot
    BY <1>11 DEF CrashCP, Reboot, Forget, NoFile, Empty
  <1>12. CASE StartCP
    <2>1. Restored \in Pool
      BY PoolAssumption DEF Restored, Sane, Empty, Pool
    <2>2. Shuts(pool')
      BY <1>12, <2>1 DEF StartCP, Recovered, Journaled, UncertainJournaled, Pool
    <2> QED
      BY <1>12, <2>2 DEF StartCP, planes
  <1> QED
    BY <1>1, <1>2, <1>3, <1>4, <1>5, <1>6, <1>7, <1>8, <1>9, <1>10, <1>11, <1>12
    DEF Next, Update, Operator, DataPlane, Faults

-----------------------------------------------------------------------------
(* The theorems.                                                           *)

IInv ==
    /\ TypeInv /\ Clocks /\ Claims /\ Underway /\ UncertainJournaled /\ Shut

\* The invariant holds from the first control plane's first publish on.
LEMMA Invariance == Spec => []IInv
  <1>1. Init => TypeInv
    BY InitType
  <1>2. Init => IInv
    <2> SUFFICES ASSUME Init PROVE IInv
      OBVIOUS
    <2>1. Clocks /\ Claims
      BY DEF Init, Clocks, Claims, Claim, NoFile, Unknown
    <2>2. Underway /\ UncertainJournaled /\ Shut
      BY DEF Init, Underway, UncertainJournaled, Shut, Shuts, NoFile
    <2> QED
      BY <1>1, <2>1, <2>2 DEF IInv
  <1>3. IInv /\ [Next]_vars => IInv'
    BY TypeStep, ClocksStep, ClaimsStep, UnderwayStep, JournaledStep, ShutStep
    DEF IInv
  <1> QED
    BY <1>2, <1>3, PTL DEF Spec

\* Whatever is delayed, repeated or restarted, the record the barrier reads
\* never claims more of the current epoch than that data plane has applied.
THEOREM AcksTruthful == Spec => []AckTruthful
  <1>1. IInv => AckTruthful
    BY ClaimsTrue DEF IInv
  <1> QED
    BY <1>1, Invariance, PTL

\* Whatever crashes, reboots and failing writes do, every worker of uncertain
\* weights is in the journal that is read now and in the one a reboot would
\* bring back.
THEOREM JournalSurvives == Spec => []UncertainJournaled
  <1>1. IInv => UncertainJournaled
    BY DEF IInv
  <1> QED
    BY <1>1, Invariance, PTL

\* What the data planes route to is known and not uncertain.
LEMMA RoutedShut == ASSUME IInv PROVE Routed \subseteq Worker \ uncertain
  BY DEF IInv, TypeInv, TypeOK, Pool, Shut, Shuts, Routed, Live

\* No data plane routes to a worker whose weights may be mixed.
THEOREM NoMixed == Spec => []Gate!NoMixedWeights
  <1>1. IInv => Gate!NoMixedWeights
    BY RoutedShut DEF Gate!NoMixedWeights
  <1> QED
    BY <1>1, Invariance, PTL

-----------------------------------------------------------------------------
(* The refinement.                                                         *)

\* Routing only ever turns to workers whose weights are known.
LEMMA RoutedShutNext == ASSUME IInv' PROVE Routed' \subseteq Worker \ uncertain'
  BY DEF IInv, TypeInv, TypeOK, Pool, Shut, Shuts, Routed, Live

\* A step that neither begins nor ends a broadcast nor settles a worker is, to
\* the gate, a change of routes.
LEMMA GateRoute ==
    ASSUME IInv', uncertain' = uncertain,
           \/ phase # "broadcast" /\ phase' # "broadcast"
           \/ UNCHANGED <<phase, targets>>
    PROVE  Gate!Route
  BY RoutedShutNext DEF Gate!Route

\* The broadcast goes to targets that no data plane routes to.
LEMMA GateSend == ASSUME IInv, Broadcast PROVE Gate!Send
  <1>1. phase = "barrier" /\ phase' = "broadcast" /\ targets' = targets
        /\ uncertain' = uncertain \cup targets /\ view' = view
    BY DEF Broadcast, transaction, planes
  <1>2. uncertain = {} /\ targets # {} /\ targets \subseteq Worker
    BY <1>1 DEF IInv, TypeInv, TypeOK, Underway
  <1>3. \A d \in DP : targets \cap (Live(view[d].pool) \ view[d].pool.disabled) = {}
    BY <1>1, BarrierHolds DEF IInv, Broadcast, Live
  <1>4. targets \cap Routed = {} /\ Routed' = Routed
    BY <1>1, <1>3 DEF Routed
  <1>5. targets \in (SUBSET (Worker \ Routed)) \ {{}} /\ uncertain' = targets
    BY <1>1, <1>2, <1>4
  <1> QED
    BY <1>1, <1>2, <1>4, <1>5 DEF Gate!Send

\* The end of a broadcast.
LEMMA GateEnd ==
    ASSUME IInv, phase = "broadcast", phase' # "broadcast"
    PROVE  /\ uncertain' = uncertain \ targets /\ Routed' = Routed => Gate!Succeed
           /\ uncertain' = uncertain /\ Routed' \subseteq Routed => Gate!Fail
  <1>1. targets # {}
    BY DEF IInv, Underway
  <1> QED
    BY <1>1 DEF Gate!Succeed, Gate!Fail

\* Every step of the router is a step of the gate, or none.
LEMMA GateStep == ASSUME IInv, IInv', [Next]_vars PROVE [Gate!Next]_(Gate!vars)
  <1>1. Gate!Send \/ Gate!Succeed \/ Gate!Fail \/ Gate!Verify \/ Gate!Route
        => [Gate!Next]_(Gate!vars)
    BY DEF Gate!Next
  <1>2. view' = view => Routed' = Routed
    BY DEF Routed
  <1>3. CASE Begin \/ Disable \/ PublishEnd \/ Keepalive \/ StartCP
    <2>1. /\ uncertain' = uncertain
          /\ \/ phase # "broadcast" /\ phase' # "broadcast"
             \/ UNCHANGED <<phase, targets>>
      BY <1>3 DEF Begin, Disable, PublishEnd, Keepalive, StartCP, Free, transaction
    <2> QED
      BY <1>1, <2>1, GateRoute
  <1>4. CASE Broadcast
    BY <1>1, <1>4, GateSend
  <1>5. CASE Abort
    <2>1. uncertain' = uncertain /\ phase # "broadcast" /\ phase' # "broadcast"
      BY <1>5 DEF Abort, Outcome
    <2> QED
      BY <1>1, <2>1, GateRoute
  <1>6. CASE Succeed
    <2>1. /\ uncertain' = uncertain \ targets /\ view' = view
          /\ phase = "broadcast" /\ phase' # "broadcast"
      BY <1>6 DEF Succeed, Outcome, planes
    <2> QED
      BY <1>1, <1>2, <2>1, GateEnd
  <1>7. CASE Fail
    <2>1. uncertain' = uncertain /\ view' = view /\ phase' # "broadcast"
      BY <1>7 DEF Fail, Outcome, planes
    <2> QED
      BY <1>1, <1>2, <2>1, GateEnd, GateRoute
  <1>8. CASE Resolve \/ \E w \in Worker : PutEnabled(w)
    <2>1. /\ phase # "broadcast" /\ phase' # "broadcast"
          /\ uncertain' \subseteq uncertain /\ view' = view
      BY <1>8 DEF Resolve, PutEnabled, Operation, Free, planes
    <2> QED
      BY <1>1, <1>2, <2>1 DEF Gate!Verify
  <1>9. CASE \E w \in Worker : PutFlags(w) \/ Post(w) \/ Delete(w)
    <2>1. uncertain' = uncertain /\ phase # "broadcast" /\ phase' # "broadcast"
      BY <1>9 DEF PutFlags, Post, Delete, Operation, Free
    <2> QED
      BY <1>1, <2>1, GateRoute
  <1>10. CASE \E d \in DP : \/ Refresh(d) \/ Register(d) \/ Beats(d) \/ Arrive(d)
                            \/ Delay(d) \/ RestartDP(d)
    <2>1. UNCHANGED <<uncertain, phase, targets>>
      BY <1>10 DEF Refresh, Register, Beats, Arrive, Delay, RestartDP, transaction
    <2> QED
      BY <1>1, <2>1, GateRoute
  <1>11. CASE CrashCP \/ Reboot
    <2>1. uncertain' = uncertain /\ phase' # "broadcast"
      BY <1>11 DEF CrashCP, Reboot, Forget
    <2>2. Routed' \subseteq Routed
      BY <1>2, <1>11 DEF CrashCP, Reboot, Routed, Live, NoFile, Empty
    <2> QED
      BY <1>1, <2>1, <2>2, GateEnd, GateRoute
  <1>12. CASE Corrupt \/ UNCHANGED vars
    <2>1. UNCHANGED <<uncertain, phase, targets>>
      BY <1>12 DEF Corrupt, vars, transaction
    <2> QED
      BY <1>1, <2>1, GateRoute
  <1> QED
    BY <1>3, <1>4, <1>5, <1>6, <1>7, <1>8, <1>9, <1>10, <1>11, <1>12
    DEF Next, Update, Operator, DataPlane, Faults

\* The control plane, its journal and snapshot, and the data planes implement
\* WeightGate: an update is sent only to workers no data plane routes to, and
\* they are routed to again only when all have succeeded or an operator has
\* vouched for them, whatever dies in between.
THEOREM ImplementsGate == Spec => GateSpec
  <1>1. Init => Gate!Init
    BY DEF Init, Gate!Init, Routed, Live, NoFile, Empty
  <1>2. IInv /\ IInv' /\ [Next]_vars => [Gate!Next]_(Gate!vars)
    BY GateStep
  <1> QED
    BY <1>1, <1>2, Invariance, PTL DEF Spec, GateSpec, Gate!Spec
=============================================================================
