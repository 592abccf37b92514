----------------------------- MODULE MCCacheOps ------------------------------
(* CacheOps on caches built with up to two keys, below, at and without capacity. *)
EXTENDS CacheOps, TLC

built == {<<>>, <<0>>, <<1, 2>>}

(* No oid differs from another. *)
Symmetry == Permutations(Entries)
=============================================================================
