------------------------------ MODULE MCQueue -------------------------------
(* Queue on a small pool; entry oids are interchangeable. *)
EXTENDS Queue, TLC

Symmetry == Permutations(Entries)
=============================================================================
