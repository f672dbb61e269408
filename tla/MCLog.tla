-------------------------------- MODULE MCLog --------------------------------
(* Instances of Log for TLC. *)
EXTENDS Log, TLC

ASSUME MCOpsFit == OpsFit

Symmetry == Permutations(Procs) \cup Permutations(Blocks)
==============================================================================
