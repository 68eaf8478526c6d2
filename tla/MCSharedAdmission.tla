-------------------------- MODULE MCSharedAdmission --------------------------
(* The instance of SharedAdmission that TLC checks. *)
EXTENDS SharedAdmission
=============================================================================
