----------------------------- MODULE FilterSize ------------------------------
(***************************************************************************)
(* How large cf_new makes a cuckoo filter, which parts of that allocation  *)
(* indices, cf_reset and cf_free touch, and the tables of filter/util.h    *)
(* that indices are computed with.                                         *)
(*                                                                         *)
(* Numbers are machine words (module Words), so that capacities up to      *)
(* 2^32 - 1 are computed as in the code.  cf_new allocates 2^bucketPower   *)
(* pointers of eight bytes; index_bucket steps through them by a Bucket of *)
(* four.  So pointer i is inside if i has only bits below bucketPower, and *)
(* bucket i if it has none above bucketPower.                              *)
(***************************************************************************)
EXTENDS HashFunctions

CONSTANTS
  Capacities,  \* arguments of cf_new
  Hashes       \* values of `(uint32_t) (hash >> 32)', undefined in C: any word

(* A capacity is a uint32_t. *)
ASSUME CapacityAssumption == Capacities \subseteq SUBSET Bits(32)

VARIABLES
  alt_hashes,   \* fingerprint -> word
  masks,        \* bucketPower -> word
  capacity,     \* the argument of the last cf_new
  bucketPower,  \* the filter it made, -1: none
  pc            \* "idle", or the point of cf_new before its calloc; "stopped": undefined

vars == <<alt_hashes, masks, capacity, bucketPower, pc>>

(* Static storage: zero until `init' is called, which the program never does. *)
Init ==
  /\ alt_hashes = [x \in 0 .. 255 |-> {}]
  /\ masks = [i \in 0 .. 64 |-> {}]
  /\ capacity = {} /\ bucketPower = -1
  /\ pc = "idle"
-----------------------------------------------------------------------------
(* n |= n >> 1; n |= n >> 2; ... *)
Smeared(n) ==
  LET n1 == n \cup Shr(n, 1)
      n2 == n1 \cup Shr(n1, 2)
      n4 == n2 \cup Shr(n2, 4)
      n8 == n4 \cup Shr(n4, 8)
      n16 == n8 \cup Shr(n8, 16)
  IN  n16 \cup Shr(n16, 32)

next_pow_2(n) ==
  LET below == Plus(64, n, Bits(64))  \* n--
  IN  Plus(64, Smeared(below), {0}) \cap Bits(32)

trailing_zeros(num) == IF num = {} THEN 32 ELSE Min(num)

(* `next_pow_2(capacity) / BUCKET_SIZE', and at least 1. *)
Buckets(c) ==
  LET quarter == Shr(next_pow_2(c), 2) IN IF quarter = {} THEN {0} ELSE quarter

index(h, pow) == h \cap masks[pow]
alt_index(x, i, pow) == Xor(i \cap masks[pow], alt_hashes[x] \cap masks[pow])

PointerInside(i, pow) == i \subseteq Bits(pow)
BucketInside(i, pow) == i \subseteq Bits(pow + 1)

FirstFour == SUBSET {0, 1}  \* the words of 0 .. BUCKET_SIZE - 1
-----------------------------------------------------------------------------
AltHashes == [x \in 0 .. 255 |-> fnv_32a_buf(<<x>>, FNV1_INIT("32a"))]

(* `(1 << i) - 1', undefined for i > 30; masks[64] is not set. *)
MaskOneBitShort(i, undefined) == IF i <= 30 THEN Bits(i - 1) ELSE undefined
Mask(i, undefined) ==
  IF i <= 30 THEN Bits(i) ELSE IF i < 64 THEN undefined ELSE {}

(* The function `init' of util.h. *)
init ==
  /\ pc = "idle"
  /\ alt_hashes' = AltHashes
  /\ \E undefined \in {{}, Bits(31)} : masks' = [i \in 0 .. 64 |-> Mask(i, undefined)]
  /\ UNCHANGED <<capacity, bucketPower, pc>>

(* cf_new up to its calloc, in a structure of its own.  When malloc fails there
   is none. *)
cf_new(c) ==
  /\ pc = "idle"
  /\ capacity' = c
  /\ \/ bucketPower' = -1 /\ pc' = "idle"
     \/ bucketPower' = trailing_zeros(Buckets(c)) /\ pc' = "calloc"
  /\ UNCHANGED <<alt_hashes, masks>>

(* The loop over the buckets reads cf->buckets[0] before the test for NULL. *)
CallocFails ==
  /\ pc = "calloc" /\ pc' = "stopped"
  /\ UNCHANGED <<alt_hashes, masks, capacity, bucketPower>>

(* bucket_new assigns to its own parameter: the pointers stay as calloc left them. *)
CallocReturns ==
  /\ pc = "calloc" /\ pc' = "idle"
  /\ UNCHANGED <<alt_hashes, masks, capacity, bucketPower>>

Next == init \/ CallocFails \/ CallocReturns \/ \E c \in Capacities : cf_new(c)

Spec == Init /\ [][Next]_vars
-----------------------------------------------------------------------------
(* Properties. *)

(* c <= 2^k *)
AtMostPower(c, k) == c \subseteq Bits(k) \/ c = {k}

(* cf_new makes the smallest filter, of 2^bucketPower times four slots, that has the
   capacity asked for; except that 0 and everything above 2^31 wrap or are truncated
   to 0 in next_pow_2, and get the smallest filter of all. *)
SizedForCapacity ==
  bucketPower >= 0 =>
    IF capacity = {} \/ ~AtMostPower(capacity, 31) THEN bucketPower = 0
    ELSE /\ AtMostPower(capacity, bucketPower + 2)
         /\ bucketPower > 0 => ~AtMostPower(capacity, bucketPower + 1)

(* Whatever `hash >> 32' gives, the index of a key and every alternative reached from
   it lie inside, both as a pointer that is tested for NULL and as a bucket; before
   `init' all are bucket 0, and after it the two ways from one to the other are the
   same. *)
IndicesInside ==
  bucketPower >= 0 =>
    \A h \in Hashes, x \in 1 .. 255 :
      LET i == index(h, bucketPower)
          j == alt_index(x, i, bucketPower)
      IN  /\ PointerInside(i, bucketPower) /\ PointerInside(j, bucketPower)
          /\ BucketInside(i, bucketPower) /\ BucketInside(j, bucketPower)
          /\ alt_index(x, j, bucketPower) = i

(* After `init' no two fingerprints have the same alt_hashes, and a filter of any size
   has a hash value that leads to each of its buckets: the masks fit the sizes that
   cf_new chooses. *)
TablesFit ==
  masks[2] # {} =>
    /\ Cardinality({alt_hashes[x] : x \in 0 .. 255}) = 256
    /\ bucketPower >= 0 => index(Bits(32), bucketPower) = Bits(bucketPower)

(* cf_reset clears four buckets and cf_free tests four pointers of every filter.
   cf_reset stays inside the allocation exactly when cf_new was asked for more than 4
   and at most 2^31, cf_free when it was asked for more than 8. *)
FourInside ==
  bucketPower >= 0 =>
    LET from(k) == ~AtMostPower(capacity, k) /\ AtMostPower(capacity, 31)
    IN  /\ (\A i \in FirstFour : BucketInside(i, bucketPower)) <=> from(2)
        /\ (\A i \in FirstFour : PointerInside(i, bucketPower)) <=> from(3)

(* The size of a filter, its indices, the tables and the loops over four fit together
   as said of each. *)
FilterFits == SizedForCapacity /\ IndicesInside /\ TablesFit /\ FourInside
=============================================================================
