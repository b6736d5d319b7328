---------------------------- MODULE MCCacheTable ----------------------------
(* Small instances of CacheTable for TLC. *)
EXTENDS CacheTable, TLC

\* The goroutines are alike, and so are the keys and the items.
AnyOrder == Permutations(Procs) \cup Permutations(Keys)
            \cup Permutations(Items)
=============================================================================
