-------------------------- MODULE MCMissionLeases --------------------------
(* Small instances of MissionLeases for TLC.                               *)
EXTENDS MissionLeases, TLC

QueueSymmetry == Permutations(Procs) \cup Permutations(Workers)
                   \cup Permutations(Missions) \cup Permutations(Ids)
=============================================================================
