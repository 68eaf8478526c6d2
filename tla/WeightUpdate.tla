---------------------------- MODULE WeightUpdate ----------------------------
(***************************************************************************)
(* The router's weight update: a transaction of the control plane (CP)     *)
(* over remote workers, which no data plane (DP) may route to meanwhile.   *)
(*                                                                         *)
(* Under the admin lock the CP writes the targets to a durable journal,    *)
(* disables them, publishes its registry as a snapshot file, waits until   *)
(* every DP has acknowledged the file by heartbeat, sends the update to    *)
(* the targets, restores their flags or keeps them disabled, resolves the  *)
(* journal and publishes again.  Registry operations need the lock too.    *)
(*                                                                         *)
(* The CP may die between any two steps that leave a trace outside it; a   *)
(* new one starts from the snapshot file and the journal.  A reboot of the *)
(* host also loses the snapshot file, every DP and what was not synced.    *)
(* A write may fail, heartbeats may be late, a DP may die.  These faults   *)
(* are counted and bounded together.                                       *)
(*                                                                         *)
(* Code between two awaits is one step, except that the journal and the    *)
(* snapshot are written in steps of their own.  An update waiting for the  *)
(* lock has not arrived yet.  A DP may register or beat at any time, which *)
(* covers lost answers; how old a record or a snapshot is, which only      *)
(* makes the barrier or the DP refuse more, is left out, and so is         *)
(* health: an enabled worker that is not dead counts as routed to.         *)
(***************************************************************************)
EXTENDS Integers, FiniteSets

CONSTANTS
    Worker,         \* worker ids
    Config,         \* the workers of the router's configuration
    DP,             \* the data planes the CP expects
    MaxFaults,      \* faults (bound)
    MaxUpdates,     \* updates (bound)
    MaxSeq          \* seq up to which operations of the CP start (bound)

ASSUME PoolAssumption ==
    /\ Config \subseteq Worker
    /\ {MaxFaults, MaxUpdates, MaxSeq} \subseteq Nat

VARIABLES
    up,         \* the CP runs
    epoch,      \* cp_epoch
    seq,        \* SnapshotWriter._seq
    phase,      \* where the CP's handler is
    targets,    \* the targets of the update
    before,     \* those that were disabled before it: previous_disabled
    goal,       \* target_seq of the barrier
    pool,       \* the registry: ids, disabled, dead
    record,     \* InternalChannelState.data_planes
    file,       \* the snapshot file
    journal,    \* the journal as a reader finds it
    synced,     \* the journal as a reboot may leave it
    gen,        \* generation of each DP
    view,       \* the snapshot each DP has applied
    late,       \* one heartbeat of each DP that is still under way
    uncertain,  \* workers whose weights may be mixed (history)
    faults, updates

transaction == <<targets, before, goal>>
disk == <<journal, synced>>
planes == <<gen, view, late>>
vars == <<up, epoch, seq, phase, transaction, pool, record, file, disk, planes,
          uncertain, faults, updates>>

Pool == [ids : SUBSET Worker, disabled : SUBSET Worker, dead : SUBSET Worker]
Journal == [readable : BOOLEAN, ids : SUBSET Worker]
Position == [gen : Nat, epoch : Nat, seq : Nat]

Empty == [ids |-> {}, disabled |-> {}, dead |-> {}]
Names(W) == [readable |-> TRUE, ids |-> W]
Unreadable == [readable |-> FALSE, ids |-> {}]
NoFile == [epoch |-> 0, seq |-> 0, pool |-> Empty]
Unknown == [gen |-> 0, epoch |-> 0, seq |-> 0]

TypeOK ==
    /\ up \in BOOLEAN
    /\ {epoch, seq, goal, faults, updates} \subseteq Nat
    /\ phase \in {"idle", "begun", "barrier", "broadcast", "publish"}
    /\ targets \subseteq Worker /\ before \subseteq targets
    /\ pool \in Pool /\ pool.disabled \cup pool.dead \subseteq pool.ids
    /\ record \in [DP -> Position] /\ late \in [DP -> Position]
    /\ file \in [epoch : Nat, seq : Nat, pool : Pool]
    /\ journal \in Journal /\ synced \in Journal
    /\ gen \in [DP -> Nat \ {0}]
    /\ view \in [DP -> [epoch : Nat, seq : Nat, pool : Pool]]
    /\ uncertain \subseteq Worker

\* The first CP has published the configured workers, no DP has read them yet.
Init ==
    /\ up = TRUE /\ epoch = 1 /\ seq = 1 /\ phase = "idle"
    /\ targets = {} /\ before = {} /\ goal = 0
    /\ pool = [Empty EXCEPT !.ids = Config]
    /\ record = [d \in DP |-> Unknown]
    /\ file = [epoch |-> 1, seq |-> 1, pool |-> pool]
    /\ journal = Names({}) /\ synced = Names({})
    /\ gen = [d \in DP |-> 1]
    /\ view = [d \in DP |-> NoFile]
    /\ late = [d \in DP |-> Unknown]
    /\ uncertain = {} /\ faults = 0 /\ updates = 0

-----------------------------------------------------------------------------
(* The two files of the control plane.                                     *)

Fault == faults < MaxFaults /\ faults' = faults + 1
NoFault == faults' = faults

\* UpdateJournal._write and clear: replace or unlink the file, then sync its
\* directory.  A failure leaves the old file, or the new one not synced.
Write(W, durable) ==
    \/ /\ durable /\ NoFault
       /\ journal' = Names(W) /\ synced' = Names(W)
    \/ /\ ~durable /\ Fault
       /\ journal' \in {journal, Names(W)} /\ synced' = synced

HasPending == ~journal.readable \/ journal.ids # {}
Journaled(w) == ~journal.readable \/ w \in journal.ids

\* SnapshotWriter.publish: the number is taken before the file is replaced.
Publish(p, written) ==
    /\ seq' = seq + 1
    /\ \/ written /\ NoFault /\ file' = [epoch |-> epoch, seq |-> seq', pool |-> p]
       \/ ~written /\ Fault /\ file' = file

-----------------------------------------------------------------------------
(* The update, _broadcast_admin_request.                                   *)

\* The lock is free and no synchronous handler is half way.
Free == up /\ phase = "idle"
Live(p) == p.ids \ p.dead

\* Mutant of Begin: a journal that was not synced is good enough.
BeginUnsynced ==
    /\ Free /\ seq < MaxSeq /\ updates < MaxUpdates
    /\ ~HasPending
    /\ Live(pool) # {}
    /\ targets' = Live(pool)
    /\ before' = pool.disabled \cap targets'
    /\ updates' = updates + 1
    /\ \E durable \in BOOLEAN : Write(targets', durable)
    /\ phase' = "begun"
    /\ UNCHANGED <<up, epoch, seq, goal, pool, record, file, planes, uncertain>>

\* Take the lock, refuse while the journal names anyone, journal the targets;
\* an update that cannot be journalled is refused.
Begin ==
    /\ Free /\ seq < MaxSeq /\ updates < MaxUpdates
    /\ ~HasPending
    /\ Live(pool) # {}
    /\ updates' = updates + 1
    /\ \/ /\ Write(Live(pool), TRUE)
          /\ targets' = Live(pool)
          /\ before' = pool.disabled \cap targets'
          /\ phase' = "begun"
       \/ /\ Write(Live(pool), FALSE)
          /\ UNCHANGED <<phase, targets, before>>
    /\ UNCHANGED <<up, epoch, seq, goal, pool, record, file, planes, uncertain>>

\* Disable the targets and publish.  A publish that raises leaves the handler
\* with the targets disabled and journalled.
Disable ==
    /\ phase = "begun"
    /\ pool' = [pool EXCEPT !.disabled = @ \cup targets]
    /\ \/ Publish(pool', TRUE) /\ phase' = "barrier" /\ goal' = seq'
       \/ Publish(pool', FALSE) /\ phase' = "idle" /\ goal' = goal
    /\ UNCHANGED <<up, epoch, targets, before, record, disk, planes, uncertain,
                   updates>>

\* Mutant of Acked: a number of an earlier epoch acknowledges.
AckedAnyEpoch == \A d \in DP : record[d].gen # 0 /\ record[d].seq >= goal

\* dp_snapshot_ack_barrier: every expected DP has reported the published
\* snapshot, or a later one of this epoch.
Acked ==
    \A d \in DP : /\ record[d].gen # 0
                  /\ record[d].epoch = epoch
                  /\ record[d].seq >= goal

\* The barrier is passed: the requests to the workers go out.
Broadcast ==
    /\ phase = "barrier" /\ Acked
    /\ phase' = "broadcast"
    /\ uncertain' = uncertain \cup targets
    /\ UNCHANGED <<up, epoch, seq, transaction, pool, record, file, disk, planes,
                   faults, updates>>

\* The finally block: _restore_admin_disabled_state, then clear or keep, whose
\* failure is tolerated; the publish is the next step.
Outcome(safe) ==
    /\ pool' = [pool EXCEPT !.disabled =
                    IF safe THEN (@ \ targets) \cup before ELSE @ \cup targets]
    /\ \E durable \in BOOLEAN : Write(IF safe THEN {} ELSE targets, durable)
    /\ phase' = "publish"

\* The barrier's deadline: nothing was sent.
Abort ==
    /\ phase = "barrier" /\ ~Acked
    /\ Outcome(TRUE)
    /\ UNCHANGED <<up, epoch, seq, transaction, record, file, planes, uncertain,
                   updates>>

\* Every target answered with success.
Succeed ==
    /\ phase = "broadcast"
    /\ Outcome(TRUE)
    /\ uncertain' = uncertain \ targets
    /\ UNCHANGED <<up, epoch, seq, transaction, record, file, planes,
                   updates>>

\* A target failed or timed out, or the handler was cancelled.
Fail ==
    /\ phase \in {"barrier", "broadcast"}
    /\ Outcome(FALSE)
    /\ UNCHANGED <<up, epoch, seq, transaction, record, file, planes, uncertain,
                   updates>>

\* _notify_registry_change at the end of a handler; it may raise.
PublishEnd ==
    /\ phase = "publish"
    /\ \E written \in BOOLEAN : Publish(pool, written)
    /\ phase' = "idle"
    /\ UNCHANGED <<up, epoch, transaction, pool, record, disk, planes, uncertain,
                   updates>>

\* _keepalive and the tick of the health checker.
Keepalive ==
    /\ up /\ phase \in {"idle", "barrier", "broadcast"} /\ seq < MaxSeq
    /\ \E written \in BOOLEAN : Publish(pool, written)
    /\ UNCHANGED <<up, epoch, phase, transaction, pool, record, disk, planes,
                   uncertain, updates>>

-----------------------------------------------------------------------------
(* Registry operations; each ends with a publish.                          *)

Operation == Free /\ seq < MaxSeq /\ UNCHANGED <<up, epoch, seq, transaction,
                                                 record, file, planes, updates>>

\* PUT disabled = true, is_dead = true, is_dead = false.
PutFlags(w) ==
    /\ Operation
    /\ w \in pool.ids
    /\ pool' \in {[pool EXCEPT !.disabled = @ \cup {w}],
                  [pool EXCEPT !.dead = @ \cup {w}],
                  [pool EXCEPT !.dead = @ \ {w}]}
    /\ pool' # pool
    /\ phase' = "publish"
    /\ UNCHANGED <<disk, uncertain, faults>>

\* PUT disabled = false, with which the operator vouches for the weights: the
\* journal entry is discarded first.
PutEnabled(w) ==
    /\ Operation
    /\ w \in pool.ids
    /\ journal.readable
    /\ \/ /\ Write(journal.ids \ {w}, TRUE)
          /\ pool' = [pool EXCEPT !.disabled = @ \ {w}]
          /\ phase' = "publish"
       \/ /\ Write(journal.ids \ {w}, FALSE)
          /\ UNCHANGED <<pool, phase>>
    /\ uncertain' = uncertain \ {w}

\* POST /workers: a worker the journal names starts disabled.
Post(w) ==
    /\ Operation
    /\ w \in Worker \ pool.ids
    /\ pool' = [pool EXCEPT !.ids = @ \cup {w},
                            !.disabled = IF Journaled(w) THEN @ \cup {w} ELSE @]
    /\ phase' = "publish"
    /\ UNCHANGED <<disk, uncertain, faults>>

\* Mutant of Delete: the flags of a deleted worker stay.
DeleteKeepsFlags(w) ==
    /\ Operation
    /\ w \in pool.ids
    /\ pool' = [pool EXCEPT !.ids = @ \ {w}]
    /\ phase' = "publish"
    /\ UNCHANGED <<disk, uncertain, faults>>

\* DELETE /workers: the journal entry stays.
Delete(w) ==
    /\ Operation
    /\ w \in pool.ids
    /\ pool' = [ids |-> pool.ids \ {w}, disabled |-> pool.disabled \ {w},
                dead |-> pool.dead \ {w}]
    /\ phase' = "publish"
    /\ UNCHANGED <<disk, uncertain, faults>>

\* POST /weight_update_journal/resolve: the operator vouches for every worker;
\* those that are disabled stay so.
Resolve ==
    /\ Operation
    /\ HasPending
    /\ \E durable \in BOOLEAN : Write({}, durable)
    /\ uncertain' = {}
    /\ UNCHANGED <<pool, phase>>

-----------------------------------------------------------------------------
(* The data planes and the internal channel.                               *)

\* SnapshotReader.maybe_reload and apply.
Refresh(d) ==
    /\ file # NoFile
    /\ file.epoch # view[d].epoch \/ file.seq > view[d].seq
    /\ view' = [view EXCEPT ![d] = file]
    /\ UNCHANGED <<up, epoch, seq, phase, transaction, pool, record, file, disk,
                   gen, late, uncertain, faults, updates>>

\* InternalChannelState.register: a newer generation replaces the record, the
\* same one keeps it.
Register(d) ==
    /\ up
    /\ record' = [record EXCEPT ![d] = IF gen[d] > @.gen
                                       THEN [Unknown EXCEPT !.gen = gen[d]] ELSE @]
    /\ UNCHANGED <<up, epoch, seq, phase, transaction, pool, file, disk, planes,
                   uncertain, faults, updates>>

Beat(d) == [gen |-> gen[d], epoch |-> view[d].epoch, seq |-> view[d].seq]

Larger(m, n) == IF m >= n THEN m ELSE n

\* Mutant of Merged: the larger number wins across epochs too.
MergedAcross(r, b) == [b EXCEPT !.seq = Larger(r.seq, b.seq)]

\* InternalChannelState.heartbeat for a registered process.
Merged(r, b) ==
    IF b.epoch = r.epoch THEN [b EXCEPT !.seq = Larger(r.seq, b.seq)] ELSE b

Heartbeat(d, b) ==
    record' = [record EXCEPT ![d] = IF b.gen = @.gen THEN Merged(@, b) ELSE @]

\* A heartbeat that arrives at once.
Beats(d) ==
    /\ up
    /\ Heartbeat(d, Beat(d))
    /\ UNCHANGED <<up, epoch, seq, phase, transaction, pool, file, disk, planes,
                   uncertain, faults, updates>>

\* A heartbeat that is held up; the DP gives up waiting for the answer.
Delay(d) ==
    /\ up /\ late[d] = Unknown /\ view[d] # NoFile
    /\ Fault
    /\ late' = [late EXCEPT ![d] = Beat(d)]
    /\ UNCHANGED <<up, epoch, seq, phase, transaction, pool, record, file, disk,
                   gen, view, uncertain, updates>>

Arrive(d) ==
    /\ up /\ late[d] # Unknown
    /\ Heartbeat(d, late[d])
    /\ late' = [late EXCEPT ![d] = Unknown]
    /\ UNCHANGED <<up, epoch, seq, phase, transaction, pool, file, disk, gen,
                   view, uncertain, faults, updates>>

-----------------------------------------------------------------------------
(* Deaths and restarts.                                                    *)

\* What dies with the CP: its handler, its registry, its records, the
\* connections the heartbeats are on.
Forget ==
    /\ up' = FALSE /\ phase' = "idle"
    /\ targets' = {} /\ before' = {} /\ goal' = 0
    /\ pool' = Empty
    /\ record' = [d \in DP |-> Unknown]
    /\ late' = [d \in DP |-> Unknown]

CrashCP ==
    /\ up /\ Fault
    /\ Forget
    /\ UNCHANGED <<epoch, seq, file, disk, gen, view, uncertain, updates>>

\* restore_workers.
Restored == IF file = NoFile THEN [Empty EXCEPT !.ids = Config] ELSE file.pool

\* recover_worker_pool_from_journal.
Recovered(p) == [p EXCEPT !.disabled = @ \cup {w \in p.ids : Journaled(w)}]

\* The supervisor's next CP, a new epoch: restore, recover, publish.
StartCP ==
    /\ ~up
    /\ up' = TRUE /\ epoch' = epoch + 1 /\ seq' = 1
    /\ pool' = Recovered(Restored)
    /\ file' = [epoch |-> epoch', seq |-> 1, pool |-> pool']
    /\ UNCHANGED <<phase, transaction, record, disk, planes, uncertain, faults,
                   updates>>

\* A DP dies; the supervisor starts the next generation.
RestartDP(d) ==
    /\ Fault
    /\ gen' = [gen EXCEPT ![d] = @ + 1]
    /\ view' = [view EXCEPT ![d] = NoFile]
    /\ UNCHANGED <<up, epoch, seq, phase, transaction, pool, record, file, disk,
                   late, uncertain, updates>>

\* The host reboots, or the supervisor is stopped and started: the workdir
\* with the snapshot is gone, the journal is as far as it was synced.
Reboot ==
    /\ Fault
    /\ Forget
    /\ file' = NoFile
    /\ \E j \in {journal, synced} : journal' = j /\ synced' = j
    /\ gen' = [d \in DP |-> 1]
    /\ view' = [d \in DP |-> NoFile]
    /\ UNCHANGED <<epoch, seq, uncertain, updates>>

\* The journal is damaged on disk.
Corrupt ==
    /\ Fault
    /\ journal.readable /\ journal.ids # {}
    /\ journal' = Unreadable /\ synced' = Unreadable
    /\ UNCHANGED <<up, epoch, seq, phase, transaction, pool, record, file, planes,
                   uncertain, updates>>

-----------------------------------------------------------------------------
Update == Begin \/ Disable \/ Broadcast \/ Abort \/ Succeed \/ Fail \/ PublishEnd

Operator ==
    \/ Resolve
    \/ \E w \in Worker : PutFlags(w) \/ PutEnabled(w) \/ Post(w) \/ Delete(w)

DataPlane == \E d \in DP : Refresh(d) \/ Register(d) \/ Beats(d)

Faults ==
    \/ CrashCP \/ Reboot \/ Corrupt
    \/ \E d \in DP : RestartDP(d) \/ Delay(d)

Next ==
    \/ Update \/ Operator \/ Keepalive \/ StartCP \/ DataPlane \/ Faults
    \/ \E d \in DP : Arrive(d)

Spec == Init /\ [][Next]_vars

-----------------------------------------------------------------------------
(* Properties.                                                             *)

\* The workers some data plane may route a request to.
Routed == UNION {Live(view[d].pool) \ view[d].pool.disabled : d \in DP}

Gate == INSTANCE WeightGate WITH
            open <- IF phase = "broadcast" THEN targets ELSE {},
            served <- Routed

\* The control plane, its files and the data planes together do what
\* WeightGate promises: an update is sent only to workers that no data plane
\* routes to, and none of them is routed to again before every target has
\* succeeded or an operator has vouched for it, across crashes and reboots.
GateSpec == Gate!Spec

\* Whatever crashes, reboots and failing writes do, a worker with uncertain
\* weights is named by the journal that is read now and by the one a reboot
\* would bring back (UpdateJournal, its only durable trace).
UncertainJournaled ==
    \A j \in {journal, synced} : j.readable => uncertain \subseteq j.ids

\* The CP's record of a running DP never claims more of the current epoch
\* than that process has applied: late and repeated heartbeats included.
AckTruthful ==
    \A d \in DP :
        /\ record[d].gen = gen[d]
        /\ record[d].epoch = epoch
        => view[d].epoch = epoch /\ view[d].seq >= record[d].seq

=============================================================================
