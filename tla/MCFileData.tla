------------------------------ MODULE MCFileData ------------------------------
(* An instance of FileData for TLC. *)
EXTENDS FileData, TLC

CONSTANTS p1, p2, f1, f2
MCImages == {<<3>>}
Swap == Permutations({p1, p2}) \cup Permutations({f1, f2})
==============================================================================
