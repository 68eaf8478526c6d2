---------------------------- MODULE MCFrameWindow ---------------------------
(* An instance of FrameWindow for TLC.                                     *)
EXTENDS FrameWindow, TLC
CONSTANTS g1, g2

GridSymmetry == Permutations(Grid)
=============================================================================
