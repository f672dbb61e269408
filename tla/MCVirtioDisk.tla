---------------------------- MODULE MCVirtioDisk ----------------------------
(* The instance of VirtioDisk for TLC. *)
EXTENDS VirtioDisk
==============================================================================
