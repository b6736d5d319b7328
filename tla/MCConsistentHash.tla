-------------------------- MODULE MCConsistentHash --------------------------
(* Small instances of ConsistentHash for TLC. *)
EXTENDS ConsistentHash, TLC

\* The nodes are alike.
NodeSymmetry == Permutations(Nodes)
=============================================================================
