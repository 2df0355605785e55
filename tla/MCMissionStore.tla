--------------------------- MODULE MCMissionStore ---------------------------
(***************************************************************************)
(* MissionStore for TLC: clients are interchangeable.                       *)
(***************************************************************************)
EXTENDS MissionStore, TLC

Symmetry == Permutations(Clients)
=============================================================================
