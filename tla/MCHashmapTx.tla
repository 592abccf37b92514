----------------------------- MODULE MCHashmapTx ----------------------------
(* HashmapTx on a small pool; oids of one type are interchangeable. *)
EXTENDS HashmapTx, TLC

Symmetry == Permutations(Entries) \cup Permutations(Arrays)
=============================================================================
