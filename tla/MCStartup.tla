------------------------------ MODULE MCStartup ------------------------------
(* Small instances of Startup for TLC. *)
EXTENDS Startup

\* Every prospector matches every path.
AllPaths == [p \in 1 .. N |-> Paths]
=============================================================================
