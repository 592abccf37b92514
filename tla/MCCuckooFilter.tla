--------------------------- MODULE MCCuckooFilter ---------------------------
(* CuckooFilter with four pointers.  The first two keys have the same index and are
   told apart by their fingerprints, the second and third share one bucket, and the
   first and the third none. *)
EXTENDS CuckooFilter

keys == {"a", "b", "c"}
hashFp == [key \in keys |-> CASE key = "a" -> 1 [] key = "b" -> 2 [] key = "c" -> 3]
hashBits == [key \in keys |-> IF key = "c" THEN {1} ELSE {}]
altHashes == [x \in {1, 2, 3} |-> IF x = 2 THEN {0, 1} ELSE {0}]
=============================================================================
