--------------------------- MODULE MCEventPipeline ---------------------------
(* Small instances of EventPipeline for TLC. *)
EXTENDS EventPipeline, TLC

\* No action and no property tells one source from another.
SourceSymmetry == Permutations(Sources)
=============================================================================
