---------------------------- MODULE MCLineReader ----------------------------
(* Small instances of LineReader for TLC. *)
EXTENDS LineReader
=============================================================================
