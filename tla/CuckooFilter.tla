---------------------------- MODULE CuckooFilter -----------------------------
(***************************************************************************)
(* The cuckoo filter of src/dual_domain/filter.  A bucket has four slots   *)
(* for fingerprints, 0 meaning empty.  A key may be in two buckets: its    *)
(* index, and the alternative index computed from index and fingerprint.   *)
(*                                                                         *)
(* A uint32_t index is the set of its bits: `& mask' is an intersection    *)
(* and `^' a symmetric difference.  The filter has 2^bucketPower pointers, *)
(* zeroed by calloc and eight bytes each, but index_bucket takes their     *)
(* memory for an array of four-byte buckets.  So pointer i lies over the   *)
(* buckets 2i and 2i + 1, and testing it for NULL tests those two.         *)
(*                                                                         *)
(* cf_new fills a structure of its own and not the one of the caller,      *)
(* which is then read uninitialized.  Its count is here any of Counts, its *)
(* bucketPower the constant, and its buckets is NULL or the memory that    *)
(* cf_new would give a filter of that power, reading as calloc leaves it;  *)
(* what else buckets may lead to is left out.  So is power 0: cf_reset     *)
(* then writes past the allocation, which FilterSize has.                  *)
(*                                                                         *)
(* The filter has one thread; an action is a call, or one turn of the loop *)
(* of cf_reinsert.                                                         *)
(***************************************************************************)
EXTENDS Integers, FiniteSets

CONSTANTS
  Keys,
  Fingerprints,  \* 1 .. 255 in the build: index_and_fingerprint adds 1
  HashFp,        \* key -> its fingerprint
  HashBits,      \* key -> the bits of `hash >> 32'
  AltHashes,     \* fingerprint -> the bits of alt_hashes[fingerprint]
  BucketPower,
  Masks,         \* masks[bucketPower]: 0 unless `init' of util.h is called
  Slots,         \* the slots of a bucket
  MaxKicks,      \* CF_MAX_BUCKET_KICK_OUT
  Word,          \* 2^64, where count, a size_t, wraps
  Counts         \* what count may be at the start

Indices   == SUBSET (0 .. BucketPower - 1)
BucketIds == SUBSET (0 .. BucketPower)   \* the buckets in the pointers' memory

ASSUME FilterAssumption ==
  /\ BucketPower \in Nat \ {0} /\ MaxKicks \in Nat \ {0}
  /\ Word \in Nat \ {0} /\ Counts \subseteq 0 .. Word - 1
  /\ Slots \subseteq Nat /\ Slots # {} /\ IsFiniteSet(Slots)
  /\ 0 \notin Fingerprints
  /\ HashFp \in [Keys -> Fingerprints]
  /\ Masks \subseteq Indices

VARIABLES
  mask,     \* masks[bucketPower], fixed
  ready,    \* buckets is not NULL, fixed
  buckets,  \* bucket -> slot -> fingerprint
  count,
  pc,       \* "idle", "reinsert" in the loop of cf_reinsert, or after cf_free
            \* "freed" or "undefined"
  f,        \* locals of cf_reinsert
  last,     \* history: the last call and its key
  ret,      \* what it returned
  added     \* history: the keys a cf_insert or cf_insert_unique was called for

vars == <<mask, ready, buckets, count, pc, f, last, ret, added>>

NoFrame == [fp |-> 0, i |-> {}, k |-> 0]
EmptyBucket == [j \in Slots |-> 0]

Init ==
  /\ mask \in Masks /\ ready \in BOOLEAN
  /\ buckets = [b \in BucketIds |-> EmptyBucket]
  /\ count \in Counts
  /\ pc = "idle" /\ f = NoFrame
  /\ last = <<>> /\ ret = 0
  /\ added = {}
-----------------------------------------------------------------------------
SymDiff(A, B) == (A \ B) \cup (B \ A)

(* index_and_fingerprint *)
index(key) == HashBits[key] \cap mask
fp(key) == HashFp[key]

(* `+' in place of `^', with the carries out of single bits. *)
alt_indexSum(x, i) ==
  SymDiff(SymDiff(i, AltHashes[x]), {b + 1 : b \in i \cap AltHashes[x]}) \cap mask

alt_index(x, i) == SymDiff(i \cap mask, AltHashes[x] \cap mask)

(* cf->buckets[i] != NULL *)
IsSet(bs, i) ==
  LET twice == {b + 1 : b \in i}
  IN  bs[twice] # EmptyBucket \/ bs[twice \cup {0}] # EmptyBucket

At(bucket, x) == {j \in Slots : bucket[j] = x}
First(S) == CHOOSE j \in S : \A k \in S : j <= k

(* bucket_fp_index(bucket, x) > -1 *)
Has(bucket, x) == At(bucket, x) # {}

(* bucket_insert and bucket_delete replace the first x, and return 0 if there
   is one and -1 if not. *)
Replace(bucket, x, y) ==
  IF Has(bucket, x) THEN [bucket EXCEPT ![First(At(bucket, x))] = y] ELSE bucket
ReturnCode(bucket, x) == IF Has(bucket, x) THEN 0 ELSE -1

(* A state of the filter and the result of the call that led to it. *)
State(bs, n, r) == [buckets |-> bs, count |-> n, ret |-> r]

cf_insert_internalEvicting(s, x, i) ==
  IF IsSet(s.buckets, i) /\ ReturnCode(s.buckets[i], 0) # 0
  THEN State([s.buckets EXCEPT ![i][First(Slots)] = x], (s.count + 1) % Word, 1)
  ELSE IF IsSet(s.buckets, i)
  THEN State([s.buckets EXCEPT ![i] = Replace(@, 0, x)], s.count, 0)
  ELSE State(s.buckets, s.count, 0)

cf_insert_internalUncounted(s, x, i) ==
  IF IsSet(s.buckets, i)
  THEN State([s.buckets EXCEPT ![i] = Replace(@, 0, x)], s.count,
             IF ReturnCode(s.buckets[i], 0) # 0 THEN 1 ELSE 0)
  ELSE State(s.buckets, s.count, 0)

(* The result of bucket_insert is taken as a truth value: -1 counts as
   inserted, 0 as not. *)
cf_insert_internal(s, x, i) ==
  IF IsSet(s.buckets, i) /\ ReturnCode(s.buckets[i], 0) # 0
  THEN State(s.buckets, (s.count + 1) % Word, 1)
  ELSE IF IsSet(s.buckets, i)
  THEN State([s.buckets EXCEPT ![i] = Replace(@, 0, x)], s.count, 0)
  ELSE State(s.buckets, s.count, 0)

(* So is the result of bucket_delete. *)
cf_delete_internal(s, x, i) ==
  IF ReturnCode(s.buckets[i], x) # 0
  THEN State(s.buckets, IF s.count > 0 THEN s.count - 1 ELSE 0, 1)
  ELSE State([s.buckets EXCEPT ![i] = Replace(@, x, 0)], s.count, 0)

lookup(key) ==
  IF ~ready THEN -1
  ELSE IF \/ Has(buckets[index(key)], fp(key))
          \/ Has(buckets[alt_index(fp(key), index(key))], fp(key)) THEN 1 ELSE 0

Current == State(buckets, count, ret)
-----------------------------------------------------------------------------
Unchanged == UNCHANGED <<mask, ready>>

Return(s, r) ==
  /\ buckets' = s.buckets /\ count' = s.count /\ ret' = r
  /\ pc' = "idle" /\ f' = NoFrame

(* cf_new(&filter, capacity) leaves filter as it is. *)
cf_new ==
  /\ pc = "idle"
  /\ \E r \in {0, -1} : Return(Current, r)
  /\ last' = <<"new">>
  /\ UNCHANGED added /\ Unchanged

cf_lookup(key) ==
  /\ pc = "idle"
  /\ Return(Current, lookup(key))
  /\ last' = <<"lookup", key>>
  /\ UNCHANGED added /\ Unchanged

(* cf_insert: both buckets, and then cf_reinsert from one of them. *)
Insert(key) ==
  LET i  == index(key)
      i2 == alt_index(fp(key), i)
      s1 == cf_insert_internal(Current, fp(key), i)
      s2 == cf_insert_internal(s1, fp(key), i2)
  IN  \/ ~ready /\ Return(Current, -1)
      \/ ready /\ s1.ret = 1 /\ Return(s1, 0)
      \/ ready /\ s1.ret = 0 /\ s2.ret = 1 /\ Return(s2, 0)
      \/ /\ ready /\ s1.ret = 0 /\ s2.ret = 0
         /\ buckets' = s2.buckets /\ count' = s2.count
         /\ pc' = "reinsert"
         /\ \E start \in {i, i2} : f' = [fp |-> fp(key), i |-> start, k |-> 0]
         /\ UNCHANGED ret

cf_insert(key) ==
  /\ pc = "idle"
  /\ Insert(key)
  /\ last' = <<"insert", key>>
  /\ added' = added \cup {key}
  /\ Unchanged

(* A lookup that fails with -1 is taken as found. *)
cf_insert_unique(key) ==
  /\ pc = "idle"
  /\ IF lookup(key) # 0 THEN Return(Current, 0) ELSE Insert(key)
  /\ last' = <<"insert_unique", key>>
  /\ added' = added \cup {key}
  /\ Unchanged

KickNothing(bs, i, j, x) == bs

(* `fp = bucket->fp[j] = oldFp': the fingerprint that was there is lost. *)
Kick(bs, i, j, x) == [bs EXCEPT ![i][j] = x]

(* A turn of the loop of cf_reinsert, after which its counter is k. *)
Turn(k) ==
  \E j \in Slots :
    LET next == alt_index(f.fp, f.i)
        s == cf_insert_internal(State(Kick(buckets, f.i, j, f.fp), count, 0), f.fp, next)
    IN  \/ s.ret = 1 /\ Return(s, 1)
        \/ /\ s.ret = 0
           /\ buckets' = s.buckets /\ count' = s.count
           /\ f' = [f EXCEPT !.i = next, !.k = k]
           /\ UNCHANGED <<pc, ret>>

cf_reinsertUncounted ==
  /\ pc = "reinsert"
  /\ Turn(f.k)
  /\ UNCHANGED <<last, added>> /\ Unchanged

cf_reinsertOnceMore ==
  /\ pc = "reinsert"
  /\ (f.k <= MaxKicks /\ Turn(f.k + 1)) \/ (f.k > MaxKicks /\ Return(Current, 0))
  /\ UNCHANGED <<last, added>> /\ Unchanged

(* One turn of the loop of cf_reinsert, or its end. *)
cf_reinsert ==
  /\ pc = "reinsert"
  /\ (f.k < MaxKicks /\ Turn(f.k + 1)) \/ (f.k = MaxKicks /\ Return(Current, 0))
  /\ UNCHANGED <<last, added>> /\ Unchanged

cf_delete(key) ==
  /\ pc = "idle"
  /\ LET i  == index(key)
         s1 == cf_delete_internal(Current, fp(key), i)
         s2 == cf_delete_internal(s1, fp(key), alt_index(fp(key), i))
     IN  \/ ~ready /\ Return(Current, -1)
         \/ ready /\ s1.ret = 1 /\ Return(s1, 1)
         \/ ready /\ s1.ret = 0 /\ Return(s2, s2.ret)
  /\ last' = <<"delete", key>>
  /\ UNCHANGED added /\ Unchanged

cf_resetHalf ==
  /\ pc = "idle"
  /\ IF ~ready THEN Return(Current, -1)
     ELSE Return(State([b \in BucketIds |-> IF b \subseteq {0} THEN EmptyBucket
                                            ELSE buckets[b]], 0, 0), 0)
  /\ last' = <<"reset">>
  /\ UNCHANGED added /\ Unchanged

(* cf_reset clears the first BUCKET_SIZE = 4 buckets, whatever the capacity. *)
cf_reset ==
  /\ pc = "idle"
  /\ IF ~ready THEN Return(Current, -1)
     ELSE Return(State([b \in BucketIds |-> IF b \subseteq {0, 1} THEN EmptyBucket
                                            ELSE buckets[b]], 0, 0), 0)
  /\ last' = <<"reset">>
  /\ UNCHANGED added /\ Unchanged

(* cf_free looks at four pointers, whatever the capacity.  One that is set is
   handed to free(), with the address of a bucket inside the table. *)
FreeDefined ==
  ready /\ BucketPower >= 2 /\ \A i \in SUBSET {0, 1} : ~IsSet(buckets, i)

cf_free ==
  /\ pc = "idle"
  /\ \/ FreeDefined /\ pc' = "freed" /\ ret' = 0
     \/ ~FreeDefined /\ pc' = "undefined" /\ UNCHANGED ret
  /\ last' = <<"free">>
  /\ UNCHANGED <<buckets, count, f, added>> /\ Unchanged

Next ==
  \/ cf_new \/ cf_reset \/ cf_free \/ cf_reinsert
  \/ \E key \in Keys : \/ cf_lookup(key) \/ cf_delete(key)
                       \/ cf_insert(key) \/ cf_insert_unique(key)

Spec == Init /\ [][Next]_vars
-----------------------------------------------------------------------------
(* Properties. *)

(* Slots hold fingerprints of the type's range, and a relocation is of one, for at most
   MaxKicks turns. *)
TypeOK ==
  /\ mask \in Masks /\ ready \in BOOLEAN
  /\ buckets \in [BucketIds -> [Slots -> Fingerprints \cup {0}]]
  /\ count \in 0 .. Word - 1
  /\ pc \in {"idle", "reinsert", "freed", "undefined"}
  /\ pc = "reinsert" => f.fp \in Fingerprints /\ f.i \in Indices /\ f.k \in 0 .. MaxKicks
  /\ ret \in {-1, 0, 1} /\ added \subseteq Keys

(* The buckets in which key is looked for. *)
Homes(key) == {index(key), alt_index(fp(key), index(key))}

(* However often fingerprints were relocated, each one stored is that of a key
   that was inserted, and in a bucket in which that key is looked for.  It is what
   alt_index has to be an involution for, and why a lookup finds only fingerprints
   of inserted keys. *)
StoredWhereLookedFor ==
  \A b \in BucketIds, j \in Slots :
    buckets[b][j] # 0 => \E key \in added : buckets[b][j] = fp(key) /\ b \in Homes(key)

(* A cf_insert that returns 1 has stored its key, and one after which the key is
   not found has met a full bucket. *)
InsertOutcome ==
  \A key \in Keys :
    (pc = "idle" /\ ready /\ last = <<"insert", key>>) =>
      /\ ret = 1 => lookup(key) = 1
      /\ lookup(key) = 1 \/ \E b \in Homes(key) : ~Has(buckets[b], 0)

(* The step is of a call that inserts key. *)
Inserting(key) == last' \in {<<"insert", key>>, <<"insert_unique", key>>}

(* Inserting a key takes a fingerprint away only from the two buckets of that key,
   however far cf_reinsert sends it: a key that shares no bucket with it and was
   found still is. *)
DamageConfined ==
  [][\A key \in Keys, other \in Keys :
       Inserting(key) /\ lookup(other) = 1 /\ Homes(key) \cap Homes(other) = {}
         => lookup(other)' = 1]_vars

(* A filter of four pointers, which a capacity of 9 to 16 gives, finds nothing after
   cf_reset, and cf_free can release it: neither of them misses a bucket that was
   used, nor is a pointer left set over one. *)
ResetForgets ==
  (pc = "idle" /\ ready /\ last = <<"reset">> /\ BucketPower = 2) =>
    FreeDefined /\ \A key \in Keys : lookup(key) = 0

(* What a caller sees of the filter is what FilterContract says: a cf_insert that
   does not relocate takes no key away, one that returns 1 leaves its key findable
   however often it relocated, and only inserts make keys findable. *)
Contract == INSTANCE FilterContract WITH
  found <- {k \in Keys : lookup(k) = 1}, busy <- pc = "reinsert"
ImplementsContract == Contract!Spec
=============================================================================
