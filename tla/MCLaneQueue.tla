---------------------------- MODULE MCLaneQueue ----------------------------
(* Small instances of LaneQueue. *)
EXTENDS LaneQueue, TLC

Symmetry == Permutations(Entries)
=============================================================================
