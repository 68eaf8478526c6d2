---------------------------- MODULE MCRealtimeKV ----------------------------
(* Instances of RealtimeKV for TLC.                                        *)
EXTENDS RealtimeKV, TLC

ReqSymmetry == Permutations(Req)
=============================================================================
