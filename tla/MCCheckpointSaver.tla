------------------------- MODULE MCCheckpointSaver --------------------------
(***************************************************************************)
(* Instances of CheckpointSaver for TLC.                                   *)
(***************************************************************************)
EXTENDS CheckpointSaver, TLC

CONSTANTS c1, c2, t1, r1

MCSymmetry == Permutations(Channels)
=============================================================================
