------------------------------ MODULE MCBcache ------------------------------
(* The instance of Bcache for TLC. *)
EXTENDS Bcache
==============================================================================
