------------------------------- MODULE Words --------------------------------
(***************************************************************************)
(* Unsigned machine words, a word being the set of its one-bits.  An       *)
(* operator whose result can lose bits takes the width w.  `&' and `|' are *)
(* \cap and \cup.  TLC's integers have 32 bits, so that a literal is given *)
(* by its halfwords, the low one first.                                    *)
(***************************************************************************)
EXTENDS Integers, FiniteSetsExt, SequencesExt

Bits(w) == 0 .. w - 1

(* The word of n \in 0 .. 2^30 - 1. *)
Word(n) == {b \in 0 .. 29 : (n \div 2^b) % 2 = 1}
Halfwords(s) == UNION {{b + 16 * (i - 1) : b \in Word(s[i])} : i \in DOMAIN s}

Xor(A, B) == (A \ B) \cup (B \ A)
Shl(w, A, k) == {b + k : b \in {c \in A : c + k < w}}
Shr(A, k) == {b - k : b \in {c \in A : c >= k}}
Rotl(w, A, k) == Shl(w, A, k) \cup Shr(A, w - k)

(* A carry comes into bit b if a bit below makes one and all between pass it on. *)
CarryInto(makes, passes, b) ==
  \E c \in makes : c < b /\ \A d \in c + 1 .. b - 1 : d \in passes

Plus(w, A, B) ==
  LET makes == A \cap B
      passes == Xor(A, B)
  IN  {b \in Bits(w) : (b \in passes) # CarryInto(makes, passes, b)}

(* The partial products of each octet of B, and their sum. *)
Octet(A, n) == {b \in A : b \div 8 = n}
TimesOctet(w, A, B, n) ==
  FoldSet(LAMBDA b, sum : Plus(w, sum, Shl(w, A, b)), {}, Octet(B, n))
Times(w, A, B) ==
  FoldSet(LAMBDA n, sum : Plus(w, sum, TimesOctet(w, A, B, n)), {}, {b \div 8 : b \in B})

(* The remainder by 255 of a 64-bit word, the sum of its octets, as 256 leaves 1. *)
Value(A) == MapThenSumSet(LAMBDA b : 2^b, A)
Mod255(A) == MapThenSumSet(LAMBDA n : Value(Shr(Octet(A, n), 8 * n)), 0 .. 7) % 255
=============================================================================
