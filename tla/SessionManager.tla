--------------------------- MODULE SessionManager ---------------------------
(***************************************************************************)
(* VideoRealtimeSessionManager: admission of WebSocket sessions and their  *)
(* placement on the data-parallel replicas of the entry stage.             *)
(*                                                                         *)
(* The manager is a dictionary of open sessions.  open() refuses a session *)
(* beyond max_sessions and pins the others to the least loaded replica;    *)
(* close() waits for the session's teardown, which aborts the persistent   *)
(* generation request under a timeout, and then drops the session whatever *)
(* the teardown did.                                                       *)
(***************************************************************************)
EXTENDS Integers, FiniteSets

CONSTANTS
    Session,        \* the WebSocket connections that will be accepted
    replica_count,  \* entry-stage replicas
    max_sessions    \* aggregate session cap

ASSUME SessionFinite == IsFiniteSet(Session)
ASSUME ReplicaCountAssumption == replica_count \in Nat \ {0}
ASSUME MaxSessionsAssumption ==
    max_sessions \in Nat \ {0} /\ max_sessions % replica_count = 0

VARIABLES
    handler,    \* the /v1/video/realtime endpoint coroutine of each connection
    sessions,   \* the manager's dictionary: the sessions that hold a slot
    dp_rank,    \* replica pinned at open time; NoRank before, and when dp == 1
    generation  \* the session's persistent generation request at the coordinator

managerVars == <<handler, sessions, dp_rank, generation>>

NoRank == -1
Ranks == 0 .. replica_count - 1
HandlerState == {"connecting", "running", "closing", "closed", "refused"}
RequestState == {"none", "running", "aborting", "released"}

ManagerTypeOK ==
    /\ handler \in [Session -> HandlerState]
    /\ sessions \in SUBSET Session
    /\ dp_rank \in [Session -> Ranks \cup {NoRank}]
    /\ generation \in [Session -> RequestState]

ManagerInit ==
    /\ handler = [s \in Session |-> "connecting"]
    /\ sessions = {}
    /\ dp_rank = [s \in Session |-> NoRank]
    /\ generation = [s \in Session |-> "none"]

-----------------------------------------------------------------------------
(* Placement.                                                              *)

load(rank) == Cardinality({s \in sessions : dp_rank[s] = rank})

per_replica_capacity == max_sessions \div replica_count

free == {rank \in Ranks : load(rank) < per_replica_capacity}

\* min(free, key = load): the first rank with the smallest load.
AssignReplica(rank) ==
    IF replica_count = 1
    THEN rank = NoRank
    ELSE /\ rank \in free
         /\ \A other \in free : load(rank) <= load(other)
         /\ \A other \in free : load(rank) = load(other) => rank <= other

-----------------------------------------------------------------------------
(* The endpoint coroutine: accept, manager.open, session.run,              *)
(* manager.close.                                                          *)

\* Mutant of OpenSession: the arrival number as rank, without the modulo.
OpenByArrival(s) ==
    /\ handler[s] = "connecting"
    /\ Cardinality(sessions) < max_sessions
    /\ dp_rank' = [dp_rank EXCEPT ![s] = Cardinality(sessions)]
    /\ sessions' = sessions \cup {s}
    /\ handler' = [handler EXCEPT ![s] = "running"]
    /\ UNCHANGED generation

\* Mutant of OpenSession: the cap lets one session too many in.
OpenPastCap(s) ==
    /\ handler[s] = "connecting"
    /\ Cardinality(sessions) <= max_sessions
    /\ \E rank \in Ranks :
        /\ \A other \in Ranks : load(rank) <= load(other)
        /\ dp_rank' = [dp_rank EXCEPT ![s] = rank]
    /\ sessions' = sessions \cup {s}
    /\ handler' = [handler EXCEPT ![s] = "running"]
    /\ UNCHANGED generation

OpenSession(s) ==
    /\ handler[s] = "connecting"
    /\ Cardinality(sessions) < max_sessions
    /\ \E rank \in Ranks \cup {NoRank} :
        /\ AssignReplica(rank)
        /\ dp_rank' = [dp_rank EXCEPT ![s] = rank]
    /\ sessions' = sessions \cup {s}
    /\ handler' = [handler EXCEPT ![s] = "running"]
    /\ UNCHANGED generation

\* session_capacity_exceeded, from the cap or from a manager with no free rank.
RefuseSession(s) ==
    /\ handler[s] = "connecting"
    /\ \/ Cardinality(sessions) >= max_sessions
       \/ replica_count > 1 /\ free = {}
    /\ handler' = [handler EXCEPT ![s] = "refused"]
    /\ UNCHANGED <<sessions, dp_rank, generation>>

\* session.configure: the response task submits the request to the coordinator.
ConfigureSession(s) ==
    /\ handler[s] = "running"
    /\ generation[s] = "none"
    /\ generation' = [generation EXCEPT ![s] = "running"]
    /\ UNCHANGED <<handler, sessions, dp_rank>>

\* The request completes or fails by itself; the coordinator releases it.
RequestEnds(s) ==
    /\ generation[s] = "running"
    /\ generation' = [generation EXCEPT ![s] = "released"]
    /\ UNCHANGED <<handler, sessions, dp_rank>>

\* session.run returns (disconnect, abort, timeout, end of request, an error)
\* and its teardown begins; a request that still runs is asked to abort.
BeginClose(s) ==
    /\ handler[s] = "running"
    /\ handler' = [handler EXCEPT ![s] = "closing"]
    /\ generation' = [generation EXCEPT ![s] = IF @ = "running" THEN "aborting" ELSE @]
    /\ UNCHANGED <<sessions, dp_rank>>

\* The coordinator's own abort task finishes: the request leaves its replica.
AbortCompletes(s) ==
    /\ generation[s] = "aborting"
    /\ generation' = [generation EXCEPT ![s] = "released"]
    /\ UNCHANGED <<handler, sessions, dp_rank>>

\* Mutant of FinishClose: sessions.pop only after a teardown that succeeded.
FinishCloseOnSuccess(s) ==
    /\ handler[s] = "closing"
    /\ handler' = [handler EXCEPT ![s] = "closed"]
    /\ sessions' = IF generation[s] = "aborting" THEN sessions ELSE sessions \ {s}
    /\ UNCHANGED <<dp_rank, generation>>

\* close() after the teardown, whose wait for the abort may also time out.
FinishClose(s) ==
    /\ handler[s] = "closing"
    /\ handler' = [handler EXCEPT ![s] = "closed"]
    /\ sessions' = sessions \ {s}
    /\ UNCHANGED <<dp_rank, generation>>

ManagerNext ==
    \E s \in Session :
        \/ OpenSession(s)
        \/ RefuseSession(s)
        \/ ConfigureSession(s)
        \/ RequestEnds(s)
        \/ BeginClose(s)
        \/ AbortCompletes(s)
        \/ FinishClose(s)

ManagerSpec == ManagerInit /\ [][ManagerNext]_managerVars

-----------------------------------------------------------------------------
(* Properties.                                                             *)

\* No replica is given more sessions than its share of the cap, whatever
\* order sessions open and close in (_assign_replica).
ReplicaWithinCapacity ==
    replica_count > 1 => \A rank \in Ranks : load(rank) <= per_replica_capacity

\* A connection is refused only while max_sessions others are being served or
\* torn down: a session whose abort never returned does not keep its slot
\* (close's finally), and placement strands none of the cap on a replica
\* (_assign_replica with no free rank).
RefusedOnlyWhenFull ==
    [][\A s \in Session :
         handler[s] # "refused" /\ handler'[s] = "refused" =>
            Cardinality({t \in Session : handler[t] \in {"running", "closing"}})
                >= max_sessions]_managerVars
=============================================================================
