----------------------------- MODULE WindowPlan -----------------------------
(***************************************************************************)
(* What a round of the frame window may remove, in numbers of frames: the  *)
(* plans that RealtimeKV lets a round apply, and that the planner which    *)
(* FrameWindow computes is shown to keep to.                               *)
(***************************************************************************)
EXTENDS Naturals

\* A plan for a request with that many pooled and raw frames evicts the oldest
\* pooled frames, drops some of the aged raw frames and folds chunks of ratio
\* others.  The newest raw frame never ages, and the newest pooled frame is
\* evicted only when a chunk becomes a newer one.
Plans(pooled, raw, ratio) ==
    {p \in [evict : 0 .. pooled, drop : 0 .. raw, fold : 0 .. raw \div ratio] :
        /\ p.evict + p.drop + p.fold > 0
        /\ p.drop + ratio * p.fold < raw
        /\ p.evict > 0 /\ p.evict = pooled => p.fold > 0}
=============================================================================
