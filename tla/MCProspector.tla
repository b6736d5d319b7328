---------------------------- MODULE MCProspector ----------------------------
(* Small instances of Prospector for TLC. *)
EXTENDS Prospector, TLC

\* No action and no property tells one file from another.
IdSymmetry == Permutations(Ids \ Irregular)
=============================================================================
