------------------------------ MODULE MCHelpers ------------------------------
(* Instances of Helpers for TLC. *)
EXTENDS Helpers

keys == {"a", "b"}

(* The arrays of one or two empty filters, initialised or not. *)
Empty(r) == [ready |-> r, found |-> {}]
givenFilters ==
  {<<Empty(r)>> : r \in BOOLEAN} \cup {<<Empty(r), Empty(s)>> : r, s \in BOOLEAN}

(* Every power of two of 32 bits and its neighbours, as words. *)
capacities == {{}} \cup UNION {{{k}, {k, 0}, Bits(k)} : k \in 0 .. 31} \cup {Bits(32)}
hashes == {{}, Bits(32), {0, 2, 3, 17, 30}, {1, 5, 31}}

(* RAND_MAX is 2^31 - 1: the values of rand have 31 bits. *)
seeds == {{}, Bits(64) \ {31, 63}, {0, 32}, {3, 17, 30, 40, 41, 62}, {62}}
=============================================================================
