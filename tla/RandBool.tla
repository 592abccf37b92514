------------------------------ MODULE RandBool -------------------------------
(***************************************************************************)
(* rand_bool of src/random/random.h, which hands out the bits of a 32-bit  *)
(* word one by one.  Every call draws a new 64-bit seed with two calls of  *)
(* rand, and only the one that finds no bits left uses it.                 *)
(***************************************************************************)
EXTENDS Words

CONSTANTS
  Seeds  \* bound: the 64-bit words that `rand() << 32 | rand()' can give

VARIABLES
  gcount,  \* the bits left, an unsigned
  rbits,   \* static in rand_bool
  seed,    \* history: the seed rbits was made of
  given    \* history: the bits handed out since, in order

vars == <<gcount, rbits, seed, given>>

Init == gcount = 0 /\ rbits = {} /\ seed = {} /\ given = <<>>
-----------------------------------------------------------------------------
(* x ^= x<<7 & 0x9D2C5680; x ^= x<<15 & 0xEFC60000 *)
MaskB == Halfwords(<<\h5680, \h9d2c>>)
MaskC == Halfwords(<<0, \hefc6>>)

temper(x) ==
  LET x1 == Xor(x, Shr(x, 11))
      x2 == Xor(x1, Shl(32, x1, 7) \cap MaskB)
      x3 == Xor(x2, Shl(32, x2, 15) \cap MaskC)
  IN  Xor(x3, Shr(x3, 18))

(* 6364136223846793005ULL * seed + 1, which is 0x5851f42d4c957f2d * seed + 1 *)
lcg64(s) ==
  Plus(64, Times(64, s, Halfwords(<<\h7f2d, \h4c95, \hf42d, \h5851>>)), {0})

lcg64_temper(s) == temper(Shr(lcg64(s), 32))

Refill == 31

(* The call of rand_bool.  `gcount' is unsigned, and is not 0 when it goes down. *)
TakeStaying(bits) == bits
Take(bits) == Shr(bits, 1)

rand_bool ==
  /\ \E s \in Seeds :
       IF gcount = 0
       THEN /\ seed' = s
            /\ gcount' = Refill - 1
            /\ rbits' = Take(lcg64_temper(s))
            /\ given' = <<0 \in lcg64_temper(s)>>
       ELSE /\ gcount' = gcount - 1
            /\ rbits' = Take(rbits)
            /\ given' = Append(given, 0 \in rbits)
            /\ UNCHANGED seed

Next == rand_bool
Spec == Init /\ [][Next]_vars
-----------------------------------------------------------------------------
(* Properties. *)

(* temper undone, step by step from the last. *)
Untempered(x) ==
  LET x3 == Xor(x, Shr(x, 18))
      x2 == Xor(x3, Shl(32, x3, 15) \cap MaskC)
      again(y) == Xor(x2, Shl(32, y, 7) \cap MaskB)
      x1 == again(again(again(again(x2))))
  IN  Xor(Xor(x1, Shr(x1, 11)), Shr(x1, 22))

(* Since the last refill the bits of one tempered word were handed out from the lowest
   on, none twice and none skipped, and what is left are those above.  The tempering
   can be undone, so that no two words are tempered to the same one. *)
EachBitOnce ==
  given # <<>> =>
    LET high == Shr(lcg64(seed), 32)
        word == temper(high)
    IN  /\ \A i \in DOMAIN given : given[i] <=> i - 1 \in word
        /\ rbits = Shr(word, Len(given))
        /\ Len(given) + gcount = Refill
        /\ Untempered(word) = high
=============================================================================
