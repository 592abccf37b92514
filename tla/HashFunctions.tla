--------------------------- MODULE HashFunctions ----------------------------
(***************************************************************************)
(* The hash functions of src/dual_domain/hashing at their full width, and  *)
(* the fingerprint that filter/util.h makes of a hash.  A kind names an    *)
(* FNV function by its width and whether it is FNV-1 or FNV-1a.            *)
(***************************************************************************)
EXTENDS Words

Width(kind) == IF kind \in {"32", "32a"} THEN 32 ELSE 64

FNV_PRIME(kind) ==
  IF Width(kind) = 32 THEN Halfwords(<<\h0193, \h0100>>)
                      ELSE Halfwords(<<\h01b3, 0, \h0100, 0>>)
FNV1_INIT(kind) ==
  IF Width(kind) = 32 THEN Halfwords(<<\h9dc5, \h811c>>)
                      ELSE Halfwords(<<\h2325, \h8422, \h9ce4, \hcbf2>>)

ShiftsLostOne(kind) == IF Width(kind) = 32 THEN {1, 4, 7, 24} ELSE {1, 4, 5, 7, 40}
Shifts(kind) == IF Width(kind) = 32 THEN {1, 4, 7, 8, 24} ELSE {1, 4, 5, 7, 8, 40}

(* `hval += (hval<<1) + (hval<<4) + ...', what is compiled unless
   NO_FNV_GCC_OPTIMIZATION is defined *)
Multiplied(kind, h) ==
  LET w == Width(kind)
  IN  FoldSet(LAMBDA k, sum : Plus(w, sum, Shl(w, h, k)), h, Shifts(kind))

WithOctetOr(h, octet) == h \cup Word(octet)
WithOctet(h, octet) == Xor(h, Word(octet))

(* One turn of the loop: FNV-1 multiplies first, FNV-1a last. *)
Turn(kind, h, octet) ==
  IF kind \in {"32", "64"} THEN WithOctet(Multiplied(kind, h), octet)
                           ELSE Multiplied(kind, WithOctet(h, octet))

Hashed(kind, octets, h) == FoldLeft(LAMBDA v, octet : Turn(kind, v, octet), h, octets)

(* A string ends before its first octet 0. *)
Nul(octets) == SelectInSeq(octets, LAMBDA octet : octet = 0)
String(octets) == IF Nul(octets) = 0 THEN octets ELSE SubSeq(octets, 1, Nul(octets) - 1)

fnv_32_buf(octets, h)  == Hashed("32", octets, h)
fnv_32_str(octets, h)  == Hashed("32", String(octets), h)
fnv_32a_buf(octets, h) == Hashed("32a", octets, h)
fnv_32a_str(octets, h) == Hashed("32a", String(octets), h)
fnv_64_buf(octets, h)  == Hashed("64", octets, h)
fnv_64_str(octets, h)  == Hashed("64", String(octets), h)
fnv_64a_buf(octets, h) == Hashed("64a", octets, h)
fnv_64a_str(octets, h) == Hashed("64a", String(octets), h)
-----------------------------------------------------------------------------
murmur_32_scramble(k) ==
  Times(32, Rotl(32, Times(32, k, Halfwords(<<\h2d51, \hcc9e>>)), 15),
            Halfwords(<<\h3593, \h1b87>>))

(* memcpy into a uint32_t, and the loop over the rest: little-endian. *)
Group(octets) == UNION {Shl(32, Word(octets[i]), 8 * (i - 1)) : i \in DOMAIN octets}

GroupTurn(h, k) ==
  Plus(32, Times(32, Rotl(32, Xor(h, murmur_32_scramble(k)), 13), Word(5)),
           Halfwords(<<\h6b64, \he654>>))

Finalized(h, k, factor) == Times(32, Xor(h, Shr(h, k)), factor)

murmur_hash_internal(octets, seed) ==
  LET groups == Len(octets) \div 4
      all == [g \in 1 .. groups |-> Group(SubSeq(octets, 4 * g - 3, 4 * g))]
      rest == Group(SubSeq(octets, 4 * groups + 1, Len(octets)))
      h == Xor(Xor(FoldLeft(GroupTurn, seed, all), murmur_32_scramble(rest)), Word(Len(octets)))
  IN  Finalized(Finalized(Finalized(h, 16, Halfwords(<<\hca6b, \h85eb>>)),
                          13, Halfwords(<<\hae35, \hc2b2>>)),
                16, {0})

hash_fp(x) ==
  LET y == Times(64, Xor(x, Shr(x, 30)), Halfwords(<<\he5b9, \h1ce4, \h476d, \hbf58>>))
      z == Times(64, Xor(y, Shr(y, 27)), Halfwords(<<\h11eb, \h1331, \h49bb, \h94d0>>))
  IN  Xor(z, Shr(z, 31))

(* index_and_fingerprint: `hash_fp(hash) % 255 + 1', in a uint8_t. *)
Fingerprint(h) == (Mod255(hash_fp(h)) + 1) % 256
=============================================================================
