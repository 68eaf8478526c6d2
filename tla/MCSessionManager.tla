-------------------------- MODULE MCSessionManager --------------------------
(* Instances of SessionManager for TLC. *)
EXTENDS SessionManager, TLC

\* Connections are interchangeable: no operation of the manager orders them.
SessionSymmetry == Permutations(Session)
=============================================================================
