----------------------------- MODULE MCFilebeat -----------------------------
(* Small instances of Filebeat for TLC. *)
EXTENDS Filebeat
=============================================================================
