----------------------------- MODULE MCFileTable -----------------------------
(* The instance of FileTable for TLC: two processes, three files, a page. *)
EXTENDS FileTable
==============================================================================
