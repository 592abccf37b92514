---------------------------- MODULE CuckooProofs -----------------------------
(***************************************************************************)
(* CuckooFilter, proved for every set of keys, all hash values and tables, *)
(* every size of bucket and filter.  The invariant follows the fingerprint *)
(* in hand while cf_reinsert sends it from one home to the other.          *)
(***************************************************************************)
EXTENDS FilterMain, FiniteSetTheorems, WellFoundedInduction, TLAPS

(* x is the fingerprint of a key in S that is looked for in bucket b. *)
Belongs(x, b, S) == \E key \in S : x = fp(key) /\ b \in Homes(key)

BucketType == [Slots -> Fingerprints \cup {0}]

(* Every fingerprint in memory bs belongs where it is. *)
Good(bs, S) ==
  /\ bs \in [BucketIds -> BucketType]
  /\ \A b \in BucketIds, j \in Slots : bs[b][j] # 0 => Belongs(bs[b][j], b, S)

CInv ==
  /\ mask \in Masks /\ ready \in BOOLEAN
  /\ added \in SUBSET Keys
  /\ Good(buckets, added)
  /\ count \in 0 .. Word - 1
  /\ pc \in {"idle", "reinsert", "freed", "undefined"}
  /\ pc = "reinsert" =>
       /\ f = [fp |-> f.fp, i |-> f.i, k |-> f.k]
       /\ f.k \in 0 .. MaxKicks
       /\ Belongs(f.fp, f.i, added)
  /\ ret \in {-1, 0, 1}
-----------------------------------------------------------------------------
(* The homes of a key are buckets, and alt_index leads from each to the other:
   `(i & mask) ^ (h & mask)' is an involution on masked indices. *)
LEMMA HomesPaired ==
  ASSUME mask \in Masks, NEW key \in Keys
  PROVE  /\ fp(key) \in Fingerprints
         /\ Homes(key) \subseteq Indices
         /\ \A i \in Homes(key) : alt_index(fp(key), i) \in Homes(key)
         /\ index(key) \in Homes(key)
<1>1. mask \subseteq 0 .. BucketPower - 1
  BY FilterAssumption DEF Indices
<1>2. fp(key) \in Fingerprints
  BY FilterAssumption DEF fp
<1> DEFINE i == HashBits[key] \cap mask
           a == AltHashes[fp(key)] \cap mask
<1>3. alt_index(fp(key), i) = SymDiff(i, a)
  <2>1. i \cap mask = i
    OBVIOUS
  <2> QED
    BY <2>1 DEF alt_index
<1>4. alt_index(fp(key), SymDiff(i, a)) = i
  <2>1. SymDiff(i, a) \cap mask = SymDiff(i, a)
    BY DEF SymDiff
  <2>2. SymDiff(SymDiff(i, a), a) = i
    BY DEF SymDiff
  <2> QED
    BY <2>1, <2>2 DEF alt_index
<1>5. i \in Indices /\ SymDiff(i, a) \in Indices
  BY <1>1 DEF Indices, SymDiff
<1> HIDE DEF i, a
<1>6. index(key) = i
  BY DEF index, i
<1> QED
  BY <1>2, <1>3, <1>4, <1>5, <1>6 DEF Homes

(* Indices are buckets of the memory. *)
LEMMA IndexIsBucket == Indices \subseteq BucketIds
<1>1. 0 .. BucketPower - 1 \subseteq 0 .. BucketPower
  BY FilterAssumption
<1> QED
  BY <1>1 DEF Indices, BucketIds

(* What belongs to a bucket still does when more keys have been added, and can
   be sent to the other home. *)
LEMMA BelongsKept ==
  ASSUME mask \in Masks, NEW S \in SUBSET Keys, NEW T \in SUBSET Keys, S \subseteq T,
         NEW x, NEW b, Belongs(x, b, S)
  PROVE  /\ Belongs(x, b, T) /\ Belongs(x, alt_index(x, b), S)
         /\ x \in Fingerprints /\ x # 0 /\ b \in Indices /\ b \in BucketIds
  BY HomesPaired, IndexIsBucket, FilterAssumption DEF Belongs

(* Memory with one slot set to a fingerprint that belongs there, or cleared. *)
LEMMA GoodSet ==
  ASSUME mask \in Masks, NEW S \in SUBSET Keys, NEW bs, Good(bs, S),
         NEW b \in BucketIds, NEW j, NEW x, x = 0 \/ Belongs(x, b, S)
  PROVE  Good([bs EXCEPT ![b][j] = x], S)
<1>1. x \in Fingerprints \cup {0}
  BY BelongsKept
<1> DEFINE bs2 == [bs EXCEPT ![b][j] = x]
<1>2. bs2 \in [BucketIds -> BucketType]
  BY <1>1 DEF Good, BucketType
<1>3. \A c \in BucketIds, k \in Slots : bs2[c][k] = bs[c][k] \/ (c = b /\ bs2[c][k] = x)
  BY DEF Good, BucketType
<1> QED
  BY <1>2, <1>3 DEF Good

(* The same, through bucket_insert and bucket_delete. *)
LEMMA GoodReplace ==
  ASSUME mask \in Masks, NEW S \in SUBSET Keys, NEW bs, Good(bs, S),
         NEW b \in BucketIds, NEW x, NEW y, y = 0 \/ Belongs(y, b, S)
  PROVE  Good([bs EXCEPT ![b] = Replace(@, x, y)], S)
<1>1. bs \in [BucketIds -> BucketType]
  BY DEF Good
<1>2. CASE Has(bs[b], x)
  <2> DEFINE j == First(At(bs[b], x))
  <2>1. [bs EXCEPT ![b] = Replace(@, x, y)] = [bs EXCEPT ![b][j] = y]
    BY <1>1, <1>2 DEF Replace
  <2> HIDE DEF j
  <2> QED
    BY <2>1, GoodSet
<1>3. CASE ~Has(bs[b], x)
  <2>1. [bs EXCEPT ![b] = Replace(@, x, y)] = bs
    BY <1>1, <1>3 DEF Replace
  <2> QED
    BY <2>1
<1> QED
  BY <1>2, <1>3

(* count goes to the next of the numbers of its type. *)
LEMMA NextCount ==
  ASSUME NEW n \in 0 .. Word - 1
  PROVE  /\ (n + 1) % Word \in 0 .. Word - 1
         /\ (n + 1) % Word = IF n + 1 = Word THEN 0 ELSE n + 1
<1>1. Word \in Nat \ {0}
  BY FilterAssumption
<1>2. CASE n + 1 = Word
  <2>1. Word % Word = 0
    BY <1>1
  <2> QED
    BY <1>1, <1>2, <2>1
<1>3. CASE n + 1 # Word
  BY <1>1, <1>3
<1> QED
  BY <1>2, <1>3

(* cf_insert_internal stores only what belongs there, and moves count just when
   it returns 1. *)
LEMMA InsertInternal ==
  ASSUME mask \in Masks, NEW S \in SUBSET Keys, NEW bs, Good(bs, S),
         NEW n \in 0 .. Word - 1, NEW r, NEW x, NEW i, Belongs(x, i, S)
  PROVE  LET s == cf_insert_internal(State(bs, n, r), x, i)
         IN  /\ s = State(s.buckets, s.count, s.ret)
             /\ Good(s.buckets, S) /\ s.count \in 0 .. Word - 1
             /\ s.ret = 1 \/ (s.ret = 0 /\ s.count = n)
<1>1. i \in BucketIds
  BY BelongsKept
<1>2. Good([bs EXCEPT ![i] = Replace(@, 0, x)], S)
  BY <1>1, GoodReplace
<1>3. (n + 1) % Word \in 0 .. Word - 1
  BY NextCount
<1> QED
  BY <1>2, <1>3 DEF cf_insert_internal, State

(* cf_delete_internal clears a slot at most, and count stays at 0. *)
LEMMA DeleteInternal ==
  ASSUME mask \in Masks, NEW S \in SUBSET Keys, NEW bs, Good(bs, S),
         NEW n \in 0 .. Word - 1, NEW r, NEW x, NEW i \in BucketIds
  PROVE  LET s == cf_delete_internal(State(bs, n, r), x, i)
         IN  /\ s = State(s.buckets, s.count, s.ret)
             /\ Good(s.buckets, S)
             /\ s.count \in 0 .. Word - 1 /\ s.ret \in {0, 1}
<1>1. Good([bs EXCEPT ![i] = Replace(@, x, 0)], S)
  BY GoodReplace
<1> QED
  BY <1>1, FilterAssumption DEF cf_delete_internal, State
-----------------------------------------------------------------------------
(* The invariant holds in zeroed memory. *)
LEMMA CuckooInit == Init => CInv
<1> SUFFICES ASSUME Init PROVE CInv
  OBVIOUS
<1>1. Good(buckets, added)
  BY DEF Init, Good, BucketType, EmptyBucket
<1> QED
  BY <1>1, FilterAssumption DEF Init, CInv

(* A call that is over has a frame of its own and what State says. *)
LEMMA Returned ==
  ASSUME CInv, UNCHANGED <<mask, ready>>, added' \in SUBSET Keys,
         NEW s, NEW r \in {-1, 0, 1}, Return(s, r),
         Good(s.buckets, added'), s.count \in 0 .. Word - 1
  PROVE  CInv'
<1>1. Good(buckets, added)'
  BY DEF Return, Good, Belongs, Homes, index, alt_index
<1> QED
  BY <1>1 DEF CInv, Return

(* cf_insert and cf_insert_unique up to the loop of cf_reinsert. *)
LEMMA InsertStep ==
  ASSUME CInv, NEW key \in Keys, Insert(key),
         added' = added \cup {key}, pc = "idle", UNCHANGED <<mask, ready>>
  PROVE  CInv'
<1> DEFINE S  == added \cup {key}
           i  == index(key)
           i2 == alt_index(fp(key), i)
           s1 == cf_insert_internal(Current, fp(key), i)
           s2 == cf_insert_internal(s1, fp(key), i2)
<1>1. mask \in Masks /\ S \in SUBSET Keys /\ count \in 0 .. Word - 1
  BY FilterAssumption DEF CInv
<1>2. Good(buckets, S)
  BY BelongsKept DEF CInv, Good
<1>3. Belongs(fp(key), i, S) /\ Belongs(fp(key), i2, S)
  BY DEF Belongs, Homes
<1>4. /\ s1 = State(s1.buckets, s1.count, s1.ret)
      /\ Good(s1.buckets, S) /\ s1.count \in 0 .. Word - 1
      /\ s1.ret = 1 \/ (s1.ret = 0 /\ s1.count = count)
  BY <1>1, <1>2, <1>3, InsertInternal DEF Current
<1>5. s1.ret = 0 =>
        /\ Good(s2.buckets, S) /\ s2.count \in 0 .. Word - 1
        /\ s2.ret = 1 \/ (s2.ret = 0 /\ s2.count = count)
  <2> HIDE DEF s1
  <2>1. SUFFICES ASSUME s1.ret = 0
                 PROVE  /\ Good(s2.buckets, S) /\ s2.count \in 0 .. Word - 1
                        /\ s2.ret = 1 \/ (s2.ret = 0 /\ s2.count = count)
    OBVIOUS
  <2>2. s1.count = count
    BY <1>4, <2>1
  <2> QED
    BY <1>1, <1>3, <1>4, <2>2, InsertInternal
<1>6. \/ Return(Current, -1)
      \/ s1.ret = 1 /\ Return(s1, 0)
      \/ s1.ret = 0 /\ s2.ret = 1 /\ Return(s2, 0)
      \/ /\ s1.ret = 0 /\ s2.ret = 0
         /\ buckets' = s2.buckets /\ count' = s2.count /\ pc' = "reinsert" /\ ret' = ret
         /\ \E start \in {i, i2} : f' = [fp |-> fp(key), i |-> start, k |-> 0]
  BY DEF Insert
<1>7. added' = S /\ Current.buckets = buckets /\ Current.count = count
  BY DEF Current, State
<1> HIDE DEF s1, s2, S
<1>8. CASE Return(Current, -1)
  BY <1>1, <1>2, <1>7, <1>8, Returned DEF CInv
<1>9. CASE s1.ret = 1 /\ Return(s1, 0)
  BY <1>1, <1>4, <1>7, <1>9, Returned
<1>10. CASE s1.ret = 0 /\ s2.ret = 1 /\ Return(s2, 0)
  BY <1>1, <1>5, <1>7, <1>10, Returned
<1>11. CASE /\ s1.ret = 0 /\ s2.ret = 0
            /\ buckets' = s2.buckets /\ count' = s2.count /\ pc' = "reinsert" /\ ret' = ret
            /\ \E start \in {i, i2} : f' = [fp |-> fp(key), i |-> start, k |-> 0]
  <2>1. PICK start \in {i, i2} : f' = [fp |-> fp(key), i |-> start, k |-> 0]
    BY <1>11
  <2>2. Belongs(f'.fp, f'.i, S)
    BY <1>3, <2>1
  <2>3. Good(buckets', S) /\ count' = count
    BY <1>5, <1>11
  <2>4. Good(buckets, added)' /\ Belongs(f.fp, f.i, added)'
    BY <1>7, <2>2, <2>3 DEF Good, Belongs, Homes, index, alt_index
  <2>5. 0 \in 0 .. MaxKicks
    BY FilterAssumption
  <2> QED
    BY <1>1, <1>7, <1>11, <2>1, <2>3, <2>4, <2>5 DEF CInv
<1> QED
  BY <1>6, <1>8, <1>9, <1>10, <1>11

(* A turn of cf_reinsert: the fingerprint goes where it belongs and is sent on
   to where it belongs too. *)
LEMMA ReinsertStep ==
  ASSUME CInv, cf_reinsert
  PROVE  CInv'
<1>0. /\ mask \in Masks /\ added \in SUBSET Keys /\ Good(buckets, added)
      /\ count \in 0 .. Word - 1
      /\ f = [fp |-> f.fp, i |-> f.i, k |-> f.k] /\ f.k \in 0 .. MaxKicks
      /\ Belongs(f.fp, f.i, added) /\ pc = "reinsert"
      /\ added' = added /\ mask' = mask /\ ready' = ready
  BY FilterAssumption DEF CInv, cf_reinsert, Unchanged
<1> DEFINE next == alt_index(f.fp, f.i)
           turn(j) == cf_insert_internal(State(Kick(buckets, f.i, j, f.fp), count, 0),
                                         f.fp, next)
<1>1. ASSUME NEW j \in Slots, f.k < MaxKicks,
             \/ turn(j).ret = 1 /\ Return(turn(j), 1)
             \/ /\ turn(j).ret = 0
                /\ buckets' = turn(j).buckets /\ count' = turn(j).count
                /\ f' = [f EXCEPT !.i = next, !.k = f.k + 1]
                /\ UNCHANGED <<pc, ret>>
      PROVE  CInv'
  <2> DEFINE bs == Kick(buckets, f.i, j, f.fp)
             s  == turn(j)
  <2>1. Good(bs, added)
    BY <1>0, BelongsKept, GoodSet DEF Kick
  <2>2. Belongs(f.fp, next, added)
    BY <1>0, BelongsKept
  <2> HIDE DEF bs
  <2>3. /\ Good(s.buckets, added) /\ s.count \in 0 .. Word - 1
        /\ s.ret = 1 \/ (s.ret = 0 /\ s.count = count)
    BY <1>0, <2>1, <2>2, InsertInternal DEF bs
  <2> HIDE DEF turn
  <2>4. CASE s.ret = 1 /\ Return(s, 1)
    BY <1>0, <2>3, <2>4, Returned
  <2>5. CASE /\ s.ret = 0
             /\ buckets' = s.buckets /\ count' = s.count
             /\ f' = [f EXCEPT !.i = next, !.k = f.k + 1]
             /\ UNCHANGED <<pc, ret>>
    <3>1. f' = [fp |-> f.fp, i |-> next, k |-> f.k + 1]
      BY <1>0, <2>5
    <3>2. Good(buckets', added) /\ count' = count /\ pc' = "reinsert" /\ ret' = ret
      BY <1>0, <2>3, <2>5
    <3>3. Belongs(f'.fp, f'.i, added)
      BY <2>2, <3>1
    <3>4. Good(buckets, added)'
      BY <1>0, <3>2 DEF Good, Belongs, Homes, index, alt_index
    <3>5. Belongs(f.fp, f.i, added)'
      BY <1>0, <3>3 DEF Belongs, Homes, index, alt_index
    <3>6. f.k + 1 \in 0 .. MaxKicks
      BY <1>0, <1>1, FilterAssumption
    <3>7. f' = [fp |-> f'.fp, i |-> f'.i, k |-> f'.k] /\ f'.k \in 0 .. MaxKicks
      BY <3>1, <3>6
    <3> QED
      BY <1>0, <3>2, <3>4, <3>5, <3>7 DEF CInv
  <2> QED
    BY <1>1, <2>4, <2>5
<1>2. CASE f.k = MaxKicks /\ Return(Current, 0)
  <2>1. Current.buckets = buckets /\ Current.count = count
    BY DEF Current, State
  <2> QED
    BY <1>0, <1>2, <2>1, Returned DEF CInv
<1> QED
  BY <1>1, <1>2 DEF cf_reinsert, Turn

(* cf_delete only clears slots. *)
LEMMA DeleteStep ==
  ASSUME CInv, NEW key \in Keys, cf_delete(key)
  PROVE  CInv'
<1>0. /\ mask \in Masks /\ added \in SUBSET Keys /\ Good(buckets, added)
      /\ count \in 0 .. Word - 1
      /\ added' = added /\ UNCHANGED <<mask, ready>>
  BY DEF CInv, cf_delete, Unchanged
<1> DEFINE i  == index(key)
           i2 == alt_index(fp(key), i)
           s1 == cf_delete_internal(Current, fp(key), i)
           s2 == cf_delete_internal(s1, fp(key), i2)
<1>1. i \in BucketIds /\ i2 \in BucketIds
  BY <1>0, HomesPaired, IndexIsBucket DEF Homes
<1>2. \/ Return(Current, -1) \/ Return(s1, 1) \/ Return(s2, s2.ret)
  BY DEF cf_delete
<1>3. Current.buckets = buckets /\ Current.count = count
  BY DEF Current, State
<1>4. /\ s1 = State(s1.buckets, s1.count, s1.ret)
      /\ Good(s1.buckets, added) /\ s1.count \in 0 .. Word - 1
  BY <1>0, <1>1, DeleteInternal DEF Current
<1> HIDE DEF s1
<1>5. Good(s2.buckets, added) /\ s2.count \in 0 .. Word - 1 /\ s2.ret \in {0, 1}
  BY <1>0, <1>1, <1>4, DeleteInternal
<1> HIDE DEF s2
<1> QED
  BY <1>0, <1>2, <1>3, <1>4, <1>5, Returned

(* The calls that store nothing, or clear. *)
LEMMA QuietStep ==
  ASSUME CInv, cf_new \/ cf_reset \/ cf_free \/ \E key \in Keys : cf_lookup(key)
  PROVE  CInv'
<1>0. /\ mask \in Masks /\ added \in SUBSET Keys /\ Good(buckets, added)
      /\ count \in 0 .. Word - 1
      /\ added' = added /\ UNCHANGED <<mask, ready>>
  BY FilterAssumption DEF CInv, cf_new, cf_reset, cf_free, cf_lookup, Unchanged
<1>1. Current.buckets = buckets /\ Current.count = count
  BY DEF Current, State
<1>2. ASSUME NEW r \in {-1, 0, 1}, Return(Current, r) PROVE CInv'
  BY <1>0, <1>1, <1>2, Returned
<1>3. CASE cf_new
  BY <1>2, <1>3 DEF cf_new
<1>4. ASSUME NEW key, cf_lookup(key) PROVE CInv'
  <2>1. lookup(key) \in {-1, 0, 1}
    BY DEF lookup
  <2> QED
    BY <1>2, <1>4, <2>1 DEF cf_lookup
<1>5. CASE cf_reset
  <2> DEFINE bs == [b \in BucketIds |-> IF b \subseteq {0, 1} THEN EmptyBucket
                                        ELSE buckets[b]]
             s  == State(bs, 0, 0)
  <2>1. Return(Current, -1) \/ Return(s, 0)
    BY <1>5 DEF cf_reset
  <2>2. Good(bs, added)
    BY <1>0 DEF Good, BucketType, EmptyBucket
  <2>3. s.buckets = bs /\ s.count = 0
    BY DEF State
  <2> HIDE DEF bs, s
  <2>4. Good(s.buckets, added) /\ s.count \in 0 .. Word - 1
    BY <1>0, <2>2, <2>3, FilterAssumption
  <2>5. ASSUME Return(s, 0) PROVE CInv'
    BY <1>0, <2>4, <2>5, Returned
  <2> QED
    BY <1>2, <2>1, <2>5
<1>6. CASE cf_free
  <2>1. /\ UNCHANGED <<buckets, count>> /\ pc' \in {"freed", "undefined"}
        /\ ret' \in {0, ret}
    BY <1>6 DEF cf_free
  <2>2. Good(buckets, added)'
    BY <1>0, <2>1 DEF Good, Belongs, Homes, index, alt_index
  <2> QED
    BY <1>0, <2>1, <2>2 DEF CInv
<1> QED
  BY <1>3, <1>4, <1>5, <1>6
-----------------------------------------------------------------------------
(* Every step, a turn of the loop of cf_reinsert too, preserves CInv. *)
LEMMA CuckooNext == CInv /\ [Next]_vars => CInv'
<1> SUFFICES ASSUME CInv, [Next]_vars PROVE CInv'
  OBVIOUS
<1>1. ASSUME NEW key \in Keys, cf_insert(key) PROVE CInv'
  BY <1>1, InsertStep DEF cf_insert, Unchanged
<1>2. ASSUME NEW key \in Keys, cf_insert_unique(key) PROVE CInv'
  <2>1. CASE Insert(key)
    BY <1>2, <2>1, InsertStep DEF cf_insert_unique, Unchanged
  <2>2. CASE Return(Current, 0)
    <3>1. /\ mask \in Masks /\ added \in SUBSET Keys /\ added' \in SUBSET Keys
          /\ added \subseteq added' /\ UNCHANGED <<mask, ready>>
      BY <1>2 DEF cf_insert_unique, Unchanged, CInv
    <3>2. Good(buckets, added')
      BY <3>1, BelongsKept DEF CInv, Good
    <3>3. Current.buckets = buckets /\ Current.count = count /\ count \in 0 .. Word - 1
      BY DEF Current, State, CInv
    <3> QED
      BY <2>2, <3>1, <3>2, <3>3, Returned
  <2> QED
    BY <1>2, <2>1, <2>2 DEF cf_insert_unique
<1>3. CASE UNCHANGED vars
  BY <1>3 DEF vars, CInv, Good, Belongs, Homes, index, alt_index
<1> QED
  BY <1>1, <1>2, <1>3, ReinsertStep, DeleteStep, QuietStep DEF Next

(* CInv is inductive: it holds after any calls, and at every turn of the loop of
   cf_reinsert. *)
THEOREM CuckooInvariant == Spec => []CInv
  BY CuckooInit, CuckooNext, PTL DEF Spec

(* StoredWhereLookedFor for every hash function, table and size: relocation never
   takes a fingerprint out of the two buckets of its key. *)
THEOREM CuckooStoredWhereLookedFor == Spec => []StoredWhereLookedFor
<1>1. CInv => StoredWhereLookedFor
  BY DEF CInv, Good, Belongs, StoredWhereLookedFor
<1> QED
  BY <1>1, CuckooInvariant, PTL

(* TypeOK: slots hold 8-bit fingerprints and count never goes below 0. *)
THEOREM CuckooTypeCorrect == Spec => []TypeOK
<1>1. CInv => TypeOK
  <2> SUFFICES ASSUME CInv PROVE TypeOK
    OBVIOUS
  <2>1. pc = "reinsert" => f.fp \in Fingerprints /\ f.i \in Indices
    BY BelongsKept DEF CInv
  <2> QED
    BY <2>1 DEF CInv, TypeOK, Good, BucketType
<1> QED
  BY <1>1, CuckooInvariant, PTL
-----------------------------------------------------------------------------
(***************************************************************************)
(* What a call leaves alone: an insert every bucket but the two of its     *)
(* key, however many relocations it takes; and what a reset leaves:        *)
(* nothing.                                                                *)
(***************************************************************************)

InsertOf(key, call) == call \in {<<"insert", key>>, <<"insert_unique", key>>}

(* The fingerprint that cf_reinsert sends on is all the time that of the key which is
   being inserted, since `fp = bucket->fp[j] = oldFp' keeps it. *)
InHand ==
  pc = "reinsert" =>
    \E key \in Keys : InsertOf(key, last) /\ f.fp = fp(key) /\ f.i \in Homes(key)

Cleared ==
  (pc = "idle" /\ ready /\ last = <<"reset">>) =>
    \A b \in BucketIds : b \subseteq {0, 1} => buckets[b] = EmptyBucket

DInv == CInv /\ InHand /\ Cleared
-----------------------------------------------------------------------------
(* bucket_insert changes no other bucket. *)
LEMMA InternalElsewhere ==
  ASSUME NEW bs \in [BucketIds -> BucketType], NEW n, NEW r, NEW x, NEW i
  PROVE  LET s == cf_insert_internal(State(bs, n, r), x, i)
         IN  \A b \in BucketIds : b # i => s.buckets[b] = bs[b]
  BY DEF cf_insert_internal, State

(* A key that was found stays found when only buckets of other keys change. *)
LEMMA FoundElsewhere ==
  ASSUME mask \in Masks, UNCHANGED <<mask, ready>>,
         NEW key \in Keys, NEW other \in Keys, Homes(key) \cap Homes(other) = {},
         \A b \in BucketIds \ Homes(key) : buckets'[b] = buckets[b],
         lookup(other) = 1
  PROVE  lookup(other)' = 1
<1> DEFINE i  == index(other)
           i2 == alt_index(fp(other), index(other))
<1>1. i \in Homes(other) /\ i2 \in Homes(other)
  BY DEF Homes
<1>2. i \in BucketIds \ Homes(key) /\ i2 \in BucketIds \ Homes(key)
  BY <1>1, HomesPaired, IndexIsBucket
<1>3. buckets'[i] = buckets[i] /\ buckets'[i2] = buckets[i2]
  BY <1>2
<1>4. i' = i /\ i2' = i2 /\ ready' = ready
  BY DEF index, alt_index, fp
<1> QED
  BY <1>3, <1>4 DEF lookup, Has, At, fp

(* cf_insert up to the loop of cf_reinsert. *)
LEMMA InsertConfined ==
  ASSUME CInv, NEW key \in Keys, Insert(key)
  PROVE  /\ \A b \in BucketIds \ Homes(key) : buckets'[b] = buckets[b]
         /\ pc' \in {"idle", "reinsert"}
         /\ pc' = "reinsert" => f'.fp = fp(key) /\ f'.i \in Homes(key)
<1> DEFINE S  == added \cup {key}
           i  == index(key)
           i2 == alt_index(fp(key), i)
           s1 == cf_insert_internal(Current, fp(key), i)
           s2 == cf_insert_internal(s1, fp(key), i2)
<1>1. mask \in Masks /\ S \in SUBSET Keys /\ count \in 0 .. Word - 1
  BY FilterAssumption DEF CInv
<1>2. Good(buckets, S)
  BY BelongsKept DEF CInv, Good
<1>3. i \in Homes(key) /\ i2 \in Homes(key)
  BY DEF Homes
<1>4. Belongs(fp(key), i, S)
  BY <1>3 DEF Belongs
<1>5. s1 = State(s1.buckets, s1.count, s1.ret) /\ Good(s1.buckets, S)
  BY <1>1, <1>2, <1>4, InsertInternal DEF Current
<1>6. \A b \in BucketIds \ Homes(key) : s1.buckets[b] = buckets[b]
  BY <1>2, <1>3, InternalElsewhere DEF Good, Current
<1> HIDE DEF s1
<1>7. \A b \in BucketIds \ Homes(key) : s2.buckets[b] = buckets[b]
  BY <1>3, <1>5, <1>6, InternalElsewhere DEF Good
<1>8. \/ Return(Current, -1) \/ Return(s1, 0) \/ Return(s2, 0)
      \/ /\ buckets' = s2.buckets /\ pc' = "reinsert"
         /\ \E start \in {i, i2} : f' = [fp |-> fp(key), i |-> start, k |-> 0]
  BY DEF Insert, s1
<1>9. Current.buckets = buckets
  BY DEF Current, State
<1> HIDE DEF s2, i, i2
<1> QED
  BY <1>3, <1>6, <1>7, <1>8, <1>9 DEF Return

(* A turn of the loop: both buckets are homes of the key in hand. *)
LEMMA ReinsertConfined ==
  ASSUME CInv, cf_reinsert, NEW key \in Keys, f.fp = fp(key), f.i \in Homes(key)
  PROVE  /\ \A b \in BucketIds \ Homes(key) : buckets'[b] = buckets[b]
         /\ pc' \in {"idle", "reinsert"}
         /\ pc' = "reinsert" => f'.fp = fp(key) /\ f'.i \in Homes(key)
<1> DEFINE next == alt_index(f.fp, f.i)
           turn(j) == cf_insert_internal(State(Kick(buckets, f.i, j, f.fp), count, 0),
                                         f.fp, next)
<1>1. /\ buckets \in [BucketIds -> BucketType] /\ pc = "reinsert"
      /\ f = [fp |-> f.fp, i |-> f.i, k |-> f.k]
      /\ next \in Homes(key) /\ f.i \in BucketIds
      /\ fp(key) \in Fingerprints
  BY HomesPaired, IndexIsBucket DEF CInv, Good, cf_reinsert
<1>2. ASSUME NEW j \in Slots
      PROVE  \A b \in BucketIds \ Homes(key) : turn(j).buckets[b] = buckets[b]
  <2> DEFINE bs == Kick(buckets, f.i, j, f.fp)
  <2>1. /\ bs \in [BucketIds -> BucketType]
        /\ \A b \in BucketIds \ Homes(key) : bs[b] = buckets[b]
    BY <1>1 DEF Kick, BucketType
  <2> HIDE DEF bs
  <2>2. \A b \in BucketIds : b # next => turn(j).buckets[b] = bs[b]
    BY <2>1, InternalElsewhere DEF bs
  <2> QED
    BY <1>1, <2>1, <2>2
<1>3. \/ Return(Current, 0)
      \/ \E j \in Slots :
           \/ Return(turn(j), 1)
           \/ /\ buckets' = turn(j).buckets /\ pc' = pc
              /\ f' = [f EXCEPT !.i = next, !.k = f.k + 1]
  BY DEF cf_reinsert, Turn
<1>4. Current.buckets = buckets
  BY DEF Current, State
<1> HIDE DEF turn, next
<1>5. CASE Return(Current, 0)
  BY <1>4, <1>5 DEF Return
<1>6. ASSUME NEW j \in Slots, Return(turn(j), 1)
      PROVE  buckets' = turn(j).buckets /\ pc' = "idle"
  BY <1>6 DEF Return
<1>7. ASSUME f' = [f EXCEPT !.i = next, !.k = f.k + 1]
      PROVE  f'.fp = f.fp /\ f'.i = next
  BY <1>1, <1>7
<1> QED
  BY <1>1, <1>2, <1>3, <1>5, <1>6, <1>7
-----------------------------------------------------------------------------
(* Which step may follow which call. *)
LEMMA CallsTold ==
  ASSUME CInv, InHand, Next, NEW key \in Keys, InsertOf(key, last')
  PROVE  \/ pc = "idle" /\ Insert(key)
         \/ pc = "idle" /\ Return(Current, 0)
         \/ cf_reinsert /\ f.fp = fp(key) /\ f.i \in Homes(key)
<1>1. CASE cf_reinsert
  <2>1. last' = last /\ pc = "reinsert"
    BY <1>1 DEF cf_reinsert
  <2>2. PICK k \in Keys : InsertOf(k, last) /\ f.fp = fp(k) /\ f.i \in Homes(k)
    BY <2>1 DEF InHand
  <2>3. k = key
    BY <2>1, <2>2 DEF InsertOf
  <2> QED
    BY <1>1, <2>2, <2>3
<1>2. ASSUME NEW k \in Keys, cf_insert(k) \/ cf_insert_unique(k)
      PROVE  pc = "idle" /\ (Insert(key) \/ Return(Current, 0))
  <2>1. k = key
    BY <1>2 DEF cf_insert, cf_insert_unique, InsertOf
  <2> QED
    BY <1>2, <2>1 DEF cf_insert, cf_insert_unique
<1>3. ~cf_new /\ ~cf_reset /\ ~cf_free
  BY DEF cf_new, cf_reset, cf_free, InsertOf
<1>4. ASSUME NEW k \in Keys PROVE ~cf_lookup(k) /\ ~cf_delete(k)
  BY DEF cf_lookup, cf_delete, InsertOf
<1> QED
  BY <1>1, <1>2, <1>3, <1>4 DEF Next

(* Every step keeps the key in hand true to the call that is running. *)
LEMMA StepInHand == CInv /\ InHand /\ Next => InHand'
<1> SUFFICES ASSUME CInv, InHand, Next, pc' = "reinsert"
             PROVE  \E key \in Keys :
                      InsertOf(key, last') /\ f'.fp = fp(key) /\ f'.i \in Homes(key)'
  BY DEF InHand, InsertOf, fp
<1>1. ASSUME NEW key \in Keys, InsertOf(key, last'), mask' = mask
      PROVE  f'.fp = fp(key) /\ f'.i \in Homes(key)'
  <2>1. Homes(key)' = Homes(key)
    BY <1>1 DEF Homes, index, alt_index, fp
  <2>2. CASE Return(Current, 0)
    BY <2>2 DEF Return
  <2> QED
    BY <1>1, <2>1, <2>2, CallsTold, InsertConfined, ReinsertConfined
<1>2. CASE cf_reinsert
  <2>1. last' = last /\ pc = "reinsert" /\ mask' = mask
    BY <1>2 DEF cf_reinsert, Unchanged
  <2> QED
    BY <1>1, <2>1 DEF InHand
<1>3. ASSUME NEW key \in Keys, cf_insert(key) \/ cf_insert_unique(key)
      PROVE  InsertOf(key, last') /\ mask' = mask
  BY <1>3 DEF cf_insert, cf_insert_unique, InsertOf, Unchanged
<1>4. ~cf_new /\ ~cf_reset /\ ~cf_free
  BY DEF cf_new, cf_reset, cf_free, Return
<1>5. ASSUME NEW key \in Keys PROVE ~cf_lookup(key) /\ ~cf_delete(key)
  BY DEF cf_lookup, cf_delete, Return
<1> QED
  BY <1>1, <1>2, <1>3, <1>4, <1>5 DEF Next

(* No step stores a fingerprint outside the buckets that cf_reset clears. *)
LEMMA StepCleared == CInv /\ InHand /\ Cleared /\ Next => Cleared'
<1> SUFFICES ASSUME CInv, InHand, Next, pc' = "idle", ready', last' = <<"reset">>
             PROVE  \A b \in BucketIds : b \subseteq {0, 1} => buckets'[b] = EmptyBucket
  BY DEF Cleared
<1>1. cf_reset
  <2>1. ~cf_reinsert
    BY DEF cf_reinsert, InHand, InsertOf
  <2>2. ~cf_new /\ ~cf_free
    BY DEF cf_new, cf_free
  <2>3. ASSUME NEW key \in Keys
        PROVE  ~cf_lookup(key) /\ ~cf_delete(key) /\ ~cf_insert(key)
               /\ ~cf_insert_unique(key)
    BY DEF cf_lookup, cf_delete, cf_insert, cf_insert_unique
  <2> QED
    BY <2>1, <2>2, <2>3 DEF Next
<1>2. ready
  BY <1>1 DEF cf_reset, Unchanged
<1>3. buckets' = [b \in BucketIds |-> IF b \subseteq {0, 1} THEN EmptyBucket
                                      ELSE buckets[b]]
  BY <1>1, <1>2 DEF cf_reset, Return, State
<1> QED
  BY <1>3

(* DInv holds at first, and every step preserves it. *)
LEMMA DamageInit == Init => DInv
  BY CuckooInit DEF Init, DInv, InHand, Cleared

LEMMA DamageNext == DInv /\ [Next]_vars => DInv'
<1>1. InHand /\ Cleared /\ UNCHANGED vars => (InHand /\ Cleared)'
  <2> SUFFICES ASSUME InHand, Cleared, UNCHANGED vars
               PROVE  InHand' /\ Cleared'
    OBVIOUS
  <2>1. UNCHANGED <<mask, ready, buckets, pc, f, last>>
    BY DEF vars
  <2>2. \A key \in Keys : Homes(key)' = Homes(key)
    BY <2>1 DEF Homes, index, alt_index, fp
  <2>3. InHand'
    BY <2>1, <2>2 DEF InHand, InsertOf, fp
  <2> QED
    BY <2>1, <2>3 DEF Cleared
<1> QED
  BY <1>1, CuckooNext, StepInHand, StepCleared DEF DInv

(* DInv, the strengthening of CInv that both results below need, is inductive. *)
THEOREM CuckooDamageInvariant == Spec => []DInv
  BY DamageInit, DamageNext, PTL DEF Spec

(* DamageConfined for every hash function, table, size and number of relocations:
   inserting a key makes unfindable only what shares a bucket with it. *)
THEOREM CuckooDamageConfined == Spec => DamageConfined
<1> DEFINE Confined ==
      \A key \in Keys, other \in Keys :
        Inserting(key) /\ lookup(other) = 1 /\ Homes(key) \cap Homes(other) = {}
          => lookup(other)' = 1
<1>1. DInv /\ [Next]_vars => [Confined]_vars
  <2> SUFFICES ASSUME DInv, Next, NEW key \in Keys, NEW other \in Keys,
                      Inserting(key), lookup(other) = 1,
                      Homes(key) \cap Homes(other) = {}
               PROVE  lookup(other)' = 1
    OBVIOUS
  <2>1. CInv /\ InHand /\ InsertOf(key, last') /\ mask \in Masks
    BY DEF DInv, CInv, Inserting, InsertOf
  <2>2. UNCHANGED <<mask, ready>>
    BY DEF Next, cf_new, cf_reset, cf_free, cf_reinsert, cf_lookup, cf_delete,
           cf_insert, cf_insert_unique, Unchanged
  <2>3. ASSUME Return(Current, 0)
        PROVE  \A b \in BucketIds \ Homes(key) : buckets'[b] = buckets[b]
    BY <2>3 DEF Return, Current, State
  <2>4. \A b \in BucketIds \ Homes(key) : buckets'[b] = buckets[b]
    BY <2>1, <2>3, CallsTold, InsertConfined, ReinsertConfined
  <2> QED
    BY <2>1, <2>2, <2>4, FoundElsewhere
<1> QED
  BY <1>1, CuckooDamageInvariant, PTL DEF Spec, DamageConfined

(* ResetForgets for every hash function and table: with four pointers cf_reset leaves
   no fingerprint, because none was ever stored outside the first four buckets. *)
THEOREM CuckooResetForgets == Spec => []ResetForgets
<1>1. DInv => ResetForgets
  <2> SUFFICES ASSUME DInv, pc = "idle", ready, last = <<"reset">>, BucketPower = 2
               PROVE  FreeDefined /\ \A key \in Keys : lookup(key) = 0
    BY DEF ResetForgets
  <2>1. \A b \in BucketIds : buckets[b] = EmptyBucket
    <3> SUFFICES ASSUME NEW b \in BucketIds PROVE buckets[b] = EmptyBucket
      OBVIOUS
    <3>1. CASE b \subseteq {0, 1}
      BY <3>1 DEF DInv, Cleared
    <3>2. CASE ~(b \subseteq {0, 1})
      <4>1. b \notin Indices
        BY <3>2 DEF Indices
      <4>2. \A j \in Slots : buckets[b][j] = 0
        BY <4>1, BelongsKept DEF DInv, CInv, Good
      <4> QED
        BY <4>2 DEF DInv, CInv, Good, BucketType, EmptyBucket
    <3> QED
      BY <3>1, <3>2
  <2>2. FreeDefined
    <3>1. ASSUME NEW i \in SUBSET {0, 1}
          PROVE  {b + 1 : b \in i} \in BucketIds /\ {b + 1 : b \in i} \cup {0} \in BucketIds
      BY DEF BucketIds
    <3>2. ASSUME NEW i \in SUBSET {0, 1} PROVE ~IsSet(buckets, i)
      BY <2>1, <3>1 DEF IsSet
    <3>3. BucketPower >= 2
      OBVIOUS
    <3> QED
      BY <3>2, <3>3 DEF FreeDefined
  <2>3. ASSUME NEW key \in Keys PROVE lookup(key) = 0
    <3>1. index(key) \in BucketIds /\ alt_index(fp(key), index(key)) \in BucketIds
          /\ fp(key) # 0
      BY HomesPaired, IndexIsBucket, FilterAssumption DEF DInv, CInv, Homes
    <3> QED
      BY <2>1, <3>1 DEF lookup, Has, At, EmptyBucket
  <2> QED
    BY <2>2, <2>3
<1> QED
  BY <1>1, CuckooDamageInvariant, PTL
-----------------------------------------------------------------------------
(***************************************************************************)
(* What a caller learns from the results: which keys a call makes findable *)
(* and which it may not take away.                                         *)
(***************************************************************************)

(* Only an initialised filter relocates, and a relocation that has made a turn has left the
   fingerprint in hand in one of the homes of its key. *)
Placed ==
  /\ pc = "reinsert" => ready
  /\ \A key \in Keys :
       (pc = "reinsert" /\ InsertOf(key, last) /\ f.k > 0) =>
         \E b \in Homes(key) : Has(buckets[b], fp(key))

OInv == DInv /\ Placed /\ InsertOutcome

(* A set of numbers has a least one. *)
LEMMA LeastOf ==
  ASSUME NEW S \in SUBSET Nat, S # {}
  PROVE  \E j \in S : \A k \in S : j <= k
<1> DEFINE R == StrictSubsetOrdering(Nat)
           T == {0 .. n : n \in S}
<1>1. T # {} /\ T \subseteq FiniteSubsetsOf(Nat)
  <2>1. \A n \in S : IsFiniteSet(0 .. n) /\ 0 .. n \in SUBSET Nat
    BY FS_Interval
  <2> QED
    BY <2>1 DEF FiniteSubsetsOf
<1>2. PICK t \in T : \A y \in T : ~ (<<y, t>> \in R)
  <2> HIDE DEF R, T
  <2> QED
    BY <1>1, FS_StrictSubsetOrderingWellFounded, WFMin DEF R
<1>3. PICK j \in S : t = 0 .. j
  OBVIOUS
<1>4. ASSUME NEW k \in S, k < j PROVE FALSE
  <2>1. 0 .. k \in SUBSET Nat /\ 0 .. j \in SUBSET Nat /\ 0 .. k \subseteq 0 .. j
    BY <1>4
  <2>2. j \in 0 .. j /\ j \notin 0 .. k
    BY <1>4
  <2>3. 0 .. k # 0 .. j
    BY <2>2
  <2>4. <<0 .. k, t>> \in R
    BY <1>3, <2>1, <2>3 DEF StrictSubsetOrdering
  <2> QED
    BY <1>2, <2>4
<1>5. \A k \in S : j <= k
  <2> SUFFICES ASSUME NEW k \in S PROVE j <= k
    OBVIOUS
  <2>1. ~(k < j)
    BY <1>4
  <2> QED
    BY <2>1
<1> QED
  BY <1>5

(* So bucket_fp_index, which searches the slots in order, gives a slot that has what was
   looked for. *)
LEMMA SlotIsFirst ==
  ASSUME NEW bucket, NEW x, Has(bucket, x)
  PROVE  First(At(bucket, x)) \in Slots /\ bucket[First(At(bucket, x))] = x
<1>1. At(bucket, x) \in SUBSET Nat /\ At(bucket, x) # {}
  BY FilterAssumption DEF Has, At
<1>2. \E j \in At(bucket, x) : \A k \in At(bucket, x) : j <= k
  BY <1>1, LeastOf
<1>3. First(At(bucket, x)) \in At(bucket, x)
  BY <1>2 DEF First
<1> QED
  BY <1>3 DEF At

(* bucket_insert takes no fingerprint away: it only overwrites a 0. *)
LEMMA ReplaceKeeps ==
  ASSUME NEW bucket \in BucketType, NEW x, x # 0, NEW y, y # 0, Has(bucket, y)
  PROVE  Has(Replace(bucket, 0, x), y)
<1>1. CASE Has(bucket, 0)
  <2> DEFINE j == First(At(bucket, 0))
  <2>1. j \in Slots /\ bucket[j] = 0
    BY <1>1, SlotIsFirst
  <2>2. PICK k \in Slots : bucket[k] = y
    BY DEF Has, At
  <2> HIDE DEF j
  <2>3. [bucket EXCEPT ![j] = x][k] = y
    BY <2>1, <2>2 DEF BucketType
  <2>4. Replace(bucket, 0, x) = [bucket EXCEPT ![j] = x]
    BY <1>1 DEF Replace, j
  <2> QED
    BY <2>2, <2>3, <2>4 DEF Has, At
<1>2. CASE ~Has(bucket, 0)
  BY <1>2 DEF Replace
<1> QED
  BY <1>1, <1>2

(* Nor does cf_insert_internal. *)
LEMMA InternalKeeps ==
  ASSUME NEW bs \in [BucketIds -> BucketType], NEW n, NEW r, NEW x, x # 0,
         NEW i \in BucketIds
  PROVE  LET s == cf_insert_internal(State(bs, n, r), x, i)
         IN  \A b \in BucketIds, y \in Fingerprints : Has(bs[b], y) => Has(s.buckets[b], y)
<1> DEFINE s == cf_insert_internal(State(bs, n, r), x, i)
           bs2 == [bs EXCEPT ![i] = Replace(@, 0, x)]
<1>1. s.buckets \in {bs, bs2}
  BY DEF cf_insert_internal, State
<1>2. ASSUME NEW b \in BucketIds, NEW y \in Fingerprints, Has(bs[b], y)
      PROVE  Has(bs2[b], y)
  <2>1. y # 0 /\ bs[b] \in BucketType
    BY FilterAssumption
  <2>2. CASE b = i
    BY <1>2, <2>1, <2>2, ReplaceKeeps
  <2>3. CASE b # i
    BY <1>2, <2>3
  <2> QED
    BY <2>2, <2>3
<1> HIDE DEF s, bs2
<1> QED
  BY <1>1, <1>2 DEF s

(* bucket_delete adds no fingerprint. *)
LEMMA DeleteKeeps ==
  ASSUME NEW bs \in [BucketIds -> BucketType], NEW n, NEW r, NEW x, NEW i \in BucketIds
  PROVE  LET s == cf_delete_internal(State(bs, n, r), x, i)
         IN  \A b \in BucketIds, y \in Fingerprints : Has(s.buckets[b], y) => Has(bs[b], y)
<1> DEFINE s == cf_delete_internal(State(bs, n, r), x, i)
           bs2 == [bs EXCEPT ![i] = Replace(@, x, 0)]
<1>1. s.buckets \in {bs, bs2}
  BY DEF cf_delete_internal, State
<1>2. ASSUME NEW b \in BucketIds, NEW y \in Fingerprints, Has(bs2[b], y)
      PROVE  Has(bs[b], y)
  <2>1. y # 0 /\ bs[b] \in BucketType
    BY FilterAssumption
  <2>2. CASE b = i /\ Has(bs[i], x)
    <3>1. bs2[b] = [bs[b] EXCEPT ![First(At(bs[b], x))] = 0]
      BY <2>2 DEF Replace
    <3>2. PICK k \in Slots : bs2[b][k] = y
      BY <1>2 DEF Has, At
    <3>3. bs[b][k] = y
      BY <2>1, <3>1, <3>2 DEF BucketType
    <3> QED
      BY <3>3 DEF Has, At
  <2>3. CASE ~(b = i /\ Has(bs[i], x))
    BY <1>2, <2>3 DEF Replace
  <2> QED
    BY <2>2, <2>3
<1> HIDE DEF s, bs2
<1> QED
  BY <1>1, <1>2 DEF s

(* A key is found by its fingerprint in one of its homes. *)
LEMMA LookupIs ==
  ASSUME NEW key \in Keys
  PROVE  /\ ready => (lookup(key) = 1 <=> \E b \in Homes(key) : Has(buckets[b], fp(key)))
         /\ ready => lookup(key) \in {0, 1}
         /\ ~ready => lookup(key) = -1
  BY DEF lookup, Homes

(* cf_insert before its loop loses no fingerprint, and returns 0 on a full bucket. *)
LEMMA InsertEffect ==
  ASSUME CInv, NEW key \in Keys, Insert(key)
  PROVE  /\ \A b \in BucketIds, y \in Fingerprints : Has(buckets[b], y) => Has(buckets'[b], y)
         /\ \/ ~ready /\ pc' = "idle" /\ ret' = -1 /\ buckets' = buckets
            \/ /\ ready /\ pc' = "idle" /\ ret' = 0
               /\ \E b \in Homes(key) : ~Has(buckets'[b], 0)
            \/ ready /\ pc' = "reinsert" /\ f'.k = 0 /\ ret' = ret
<1> DEFINE S  == added \cup {key}
           i  == index(key)
           i2 == alt_index(fp(key), i)
           s1 == cf_insert_internal(Current, fp(key), i)
           s2 == cf_insert_internal(s1, fp(key), i2)
<1>1. \/ ~ready /\ Return(Current, -1)
      \/ ready /\ s1.ret = 1 /\ Return(s1, 0)
      \/ ready /\ s2.ret = 1 /\ Return(s2, 0)
      \/ /\ ready /\ buckets' = s2.buckets /\ pc' = "reinsert" /\ ret' = ret
         /\ \E start \in {i, i2} : f' = [fp |-> fp(key), i |-> start, k |-> 0]
  BY DEF Insert
<1>2. mask \in Masks /\ S \in SUBSET Keys /\ count \in 0 .. Word - 1
  BY FilterAssumption DEF CInv
<1>3. Good(buckets, S)
  BY BelongsKept DEF CInv, Good
<1>4. i \in Homes(key) /\ i2 \in Homes(key)
  BY DEF Homes
<1>5. i \in BucketIds /\ i2 \in BucketIds /\ fp(key) # 0
  BY <1>2, <1>4, HomesPaired, IndexIsBucket, FilterAssumption
<1>6. Belongs(fp(key), i, S)
  BY <1>4 DEF Belongs
<1>7. s1 = State(s1.buckets, s1.count, s1.ret) /\ Good(s1.buckets, S)
  BY <1>2, <1>3, <1>6, InsertInternal DEF Current
<1> HIDE DEF i, i2
<1>8. \A b \in BucketIds, y \in Fingerprints : Has(buckets[b], y) => Has(s1.buckets[b], y)
  <2>1. buckets \in [BucketIds -> BucketType]
    BY <1>3 DEF Good
  <2> QED
    BY <1>5, <2>1, InternalKeeps DEF Current
<1>9. s1.ret = 1 => s1.buckets = buckets /\ ~Has(buckets[i], 0)
  BY DEF cf_insert_internal, State, ReturnCode, Current
<1> HIDE DEF s1
<1>10. \A b \in BucketIds, y \in Fingerprints : Has(s1.buckets[b], y) => Has(s2.buckets[b], y)
  <2>1. s1.buckets \in [BucketIds -> BucketType]
    BY <1>7 DEF Good
  <2> QED
    BY <1>5, <1>7, <2>1, InternalKeeps
<1>11. s2.ret = 1 => s2.buckets = s1.buckets /\ ~Has(s1.buckets[i2], 0)
  BY DEF cf_insert_internal, State, ReturnCode
<1> HIDE DEF s2
<1>12. Current.buckets = buckets
  BY DEF Current, State
<1>13. CASE ~ready /\ Return(Current, -1)
  BY <1>12, <1>13 DEF Return
<1>14. CASE ready /\ s1.ret = 1 /\ Return(s1, 0)
  BY <1>4, <1>8, <1>9, <1>14 DEF Return
<1>15. CASE ready /\ s2.ret = 1 /\ Return(s2, 0)
  BY <1>4, <1>8, <1>10, <1>11, <1>15 DEF Return
<1>16. CASE /\ ready /\ buckets' = s2.buckets /\ pc' = "reinsert" /\ ret' = ret
            /\ \E start \in {i, i2} : f' = [fp |-> fp(key), i |-> start, k |-> 0]
  <2>1. f'.k = 0
    BY <1>16
  <2> QED
    BY <1>8, <1>10, <1>16, <2>1
<1> QED
  BY <1>1, <1>13, <1>14, <1>15, <1>16

(* A turn of cf_reinsert leaves the fingerprint in hand where it kicked another out. *)
LEMMA ReinsertEffect ==
  ASSUME CInv, cf_reinsert, NEW key \in Keys, f.fp = fp(key), f.i \in Homes(key)
  PROVE  \/ /\ f.k > 0 /\ buckets' = buckets /\ pc' = "idle" /\ ret' = 0
         \/ /\ \E b \in Homes(key) : Has(buckets'[b], fp(key))
            /\ \/ pc' = "idle" /\ ret' = 1
               \/ pc' = "reinsert" /\ ret' = ret
<1> DEFINE next == alt_index(f.fp, f.i)
           turn(j) == cf_insert_internal(State(Kick(buckets, f.i, j, f.fp), count, 0),
                                         f.fp, next)
<1>1. /\ buckets \in [BucketIds -> BucketType] /\ pc = "reinsert"
      /\ f.i \in BucketIds /\ next \in BucketIds
      /\ fp(key) \in Fingerprints /\ fp(key) # 0
  BY HomesPaired, IndexIsBucket, FilterAssumption DEF CInv, Good, cf_reinsert
<1>2. ASSUME NEW j \in Slots
      PROVE  Has(turn(j).buckets[f.i], fp(key))
  <2> DEFINE bs == Kick(buckets, f.i, j, f.fp)
  <2>1. /\ bs \in [BucketIds -> BucketType] /\ bs[f.i][j] = fp(key)
    BY <1>1 DEF Kick, BucketType
  <2>2. Has(bs[f.i], fp(key))
    BY <2>1 DEF Has, At
  <2> HIDE DEF bs
  <2>3. f.fp # 0
    BY <1>1
  <2>4. \A b \in BucketIds, y \in Fingerprints : Has(bs[b], y) => Has(turn(j).buckets[b], y)
    BY <1>1, <2>1, <2>3, InternalKeeps DEF bs
  <2> QED
    BY <1>1, <2>2, <2>4
<1>3. \/ f.k = MaxKicks /\ Return(Current, 0)
      \/ \E j \in Slots : \/ Return(turn(j), 1)
                          \/ buckets' = turn(j).buckets /\ pc' = pc /\ ret' = ret
  BY DEF cf_reinsert, Turn
<1>4. Current.buckets = buckets /\ MaxKicks > 0
  BY FilterAssumption DEF Current, State
<1> HIDE DEF turn, next
<1>5. CASE f.k = MaxKicks /\ Return(Current, 0)
  BY <1>4, <1>5 DEF Return
<1>6. ASSUME NEW j \in Slots, Return(turn(j), 1)
      PROVE  buckets' = turn(j).buckets /\ pc' = "idle" /\ ret' = 1
  BY <1>6 DEF Return
<1> QED
  BY <1>1, <1>2, <1>3, <1>5, <1>6

(* The calls that start, with the step of a key they are about. *)
LEMMA OutcomeStep ==
  ASSUME OInv, Next
  PROVE  (Placed /\ InsertOutcome)'
<1>1. CInv /\ InHand /\ UNCHANGED <<mask, ready>>
  BY DEF OInv, DInv, Next, cf_new, cf_reset, cf_free, cf_reinsert, cf_lookup, cf_delete,
         cf_insert, cf_insert_unique, Unchanged
<1>2. ASSUME NEW key \in Keys
      PROVE  /\ Homes(key)' = Homes(key) /\ fp(key)' = fp(key)
             /\ ready' => (lookup(key)' = 1 <=> \E b \in Homes(key) : Has(buckets'[b], fp(key)))
  <2>1. Homes(key)' = Homes(key) /\ fp(key)' = fp(key)
    BY <1>1 DEF Homes, index, alt_index, fp
  <2>2. (ready => (lookup(key) = 1 <=> \E b \in Homes(key) : Has(buckets[b], fp(key))))'
    BY DEF lookup, Homes
  <2>3. \A b : Has(buckets[b], fp(key))' <=> Has(buckets'[b], fp(key))
    BY <2>1 DEF Has, At
  <2> QED
    BY <2>1, <2>2, <2>3
<1>3. ASSUME NEW key \in Keys, InsertOf(key, last'), pc' = "reinsert", f'.k > 0
      PROVE  \E b \in Homes(key) : Has(buckets'[b], fp(key))
  BY <1>1, <1>3, CallsTold, InsertEffect, ReinsertEffect DEF Return
<1>4. ASSUME NEW key \in Keys, last' = <<"insert", key>>, pc' = "idle", ready'
      PROVE  /\ ret' = 1 => \E b \in Homes(key) : Has(buckets'[b], fp(key))
             /\ \/ \E b \in Homes(key) : Has(buckets'[b], fp(key))
                \/ \E b \in Homes(key) : ~Has(buckets'[b], 0)
  <2>1. InsertOf(key, last')
    BY <1>4 DEF InsertOf
  <2>2. CASE pc = "idle" /\ Insert(key)
    BY <1>1, <1>4, <2>2, InsertEffect
  <2>3. CASE cf_reinsert /\ f.fp = fp(key) /\ f.i \in Homes(key)
    <3>1. Placed /\ pc = "reinsert" /\ InsertOf(key, last)
      BY <2>1, <2>3 DEF OInv, cf_reinsert, InsertOf
    <3>2. f.k > 0 => \E b \in Homes(key) : Has(buckets[b], fp(key))
      BY <3>1 DEF Placed
    <3> QED
      BY <1>1, <1>4, <2>3, <3>2, ReinsertEffect
  <2>4. cf_insert(key) \/ cf_reinsert
    BY <1>4 DEF Next, cf_new, cf_reset, cf_free, cf_lookup, cf_delete, cf_insert,
       cf_insert_unique
  <2> QED
    BY <1>1, <2>1, <2>2, <2>3, <2>4, CallsTold DEF cf_insert, cf_reinsert
<1>5. pc' = "reinsert" => ready'
  <2> SUFFICES ASSUME pc' = "reinsert" PROVE ready
    BY <1>1
  <2>1. PICK key \in Keys : InsertOf(key, last')
    BY <1>1, StepInHand DEF InHand, InsertOf, OInv, DInv
  <2>2. cf_reinsert => pc = "reinsert"
    BY DEF cf_reinsert
  <2> QED
    BY <1>1, <2>1, <2>2, CallsTold, InsertEffect DEF Return, OInv, Placed
<1>6. Placed'
  <2> SUFFICES ASSUME NEW key \in Keys, pc' = "reinsert", InsertOf(key, last'), f'.k > 0
               PROVE  (\E b \in Homes(key) : Has(buckets[b], fp(key)))'
    BY <1>5 DEF Placed, InsertOf
  <2>1. \A b : Has(buckets[b], fp(key))' <=> Has(buckets'[b], fp(key))
    BY <1>2 DEF Has, At
  <2> QED
    BY <1>2, <1>3, <2>1
<1>7. InsertOutcome'
  <2> SUFFICES ASSUME NEW key \in Keys, pc' = "idle", ready', last' = <<"insert", key>>
               PROVE  /\ ret' = 1 => lookup(key)' = 1
                      /\ lookup(key)' = 1 \/ \E b \in Homes(key)' : ~Has(buckets'[b], 0)
    BY DEF InsertOutcome, Has, At
  <2> QED
    BY <1>2, <1>4
<1> QED
  BY <1>6, <1>7

(* OInv holds at first, and every step preserves it. *)
LEMMA OutcomeInit == Init => OInv
  BY DamageInit DEF Init, OInv, Placed, InsertOutcome

LEMMA OutcomeNext == OInv /\ [Next]_vars => OInv'
<1>1. OInv /\ UNCHANGED vars => (Placed /\ InsertOutcome)'
  <2> SUFFICES ASSUME OInv, UNCHANGED vars PROVE (Placed /\ InsertOutcome)'
    OBVIOUS
  <2>1. UNCHANGED <<mask, ready, buckets, pc, f, last, ret>>
    BY DEF vars
  <2>2. \A key \in Keys : lookup(key)' = lookup(key) /\ Homes(key)' = Homes(key)
    BY <2>1 DEF lookup, Homes, index, alt_index, fp, Has, At
  <2>3. \A b, y : Has(buckets[b], y)' <=> Has(buckets[b], y)
    BY <2>1 DEF Has, At
  <2>4. Placed'
    <3> SUFFICES ASSUME NEW key \in Keys, pc' = "reinsert", InsertOf(key, last'), f'.k > 0
                 PROVE  (\E b \in Homes(key) : Has(buckets[b], fp(key)))'
      BY <2>1 DEF OInv, Placed, InsertOf
    <3>1. \E b \in Homes(key) : Has(buckets[b], fp(key))
      BY <2>1 DEF OInv, Placed
    <3>2. \A b : Has(buckets[b], fp(key))' <=> Has(buckets[b], fp(key))
      BY <2>1 DEF Has, At, fp
    <3> QED
      BY <2>2, <3>1, <3>2
  <2>5. InsertOutcome'
    BY <2>1, <2>2, <2>3 DEF OInv, InsertOutcome
  <2> QED
    BY <2>4, <2>5
<1> QED
  BY <1>1, DamageNext, OutcomeStep DEF OInv

(* OInv is inductive: the invariant that ties the result of an insert to the buckets. *)
THEOREM CuckooOutcomeInvariant == Spec => []OInv
  BY OutcomeInit, OutcomeNext, PTL DEF Spec

(* InsertOutcome for every hash function, table and number of relocations: what cf_insert
   returns 1 for is found, and what it returns 0 for has met a full bucket. *)
THEOREM CuckooInsertOutcome == Spec => []InsertOutcome
<1>1. OInv => InsertOutcome
  BY DEF OInv
<1> QED
  BY <1>1, CuckooOutcomeInvariant, PTL
-----------------------------------------------------------------------------
(* The refinement of FilterContract. *)

Found == {k \in Keys : lookup(k) = 1}

(* What a step finds, told by the buckets. *)
LEMMA FoundNext ==
  ASSUME UNCHANGED <<mask, ready>>, mask \in Masks
  PROVE  /\ Found \in SUBSET Keys /\ Found' \in SUBSET Keys
         /\ \A k \in Keys : /\ Homes(k) \subseteq BucketIds /\ fp(k) \in Fingerprints
                            /\ k \in Found <=>
                                 ready /\ \E b \in Homes(k) : Has(buckets[b], fp(k))
                            /\ k \in Found' <=>
                                 ready /\ \E b \in Homes(k) : Has(buckets'[b], fp(k))
<1>1. ASSUME NEW key \in Keys
      PROVE  /\ Homes(key) \subseteq BucketIds /\ fp(key) \in Fingerprints
             /\ key \in Found <=> ready /\ \E b \in Homes(key) : Has(buckets[b], fp(key))
             /\ key \in Found' <=> ready /\ \E b \in Homes(key) : Has(buckets'[b], fp(key))
  <2>1. Homes(key) \subseteq BucketIds /\ fp(key) \in Fingerprints
    BY HomesPaired, IndexIsBucket
  <2>2. key \in Found <=> ready /\ \E b \in Homes(key) : Has(buckets[b], fp(key))
    BY LookupIs DEF Found
  <2>3. (key \in Found <=> ready /\ \E b \in Homes(key) : Has(buckets[b], fp(key)))'
    <3>1. (ready => (lookup(key) = 1 <=> \E b \in Homes(key) : Has(buckets[b], fp(key))))'
      BY DEF lookup, Homes
    <3>2. (~ready => lookup(key) = -1)'
      BY DEF lookup, Homes
    <3> QED
      BY <3>1, <3>2 DEF Found
  <2>4. Homes(key)' = Homes(key) /\ fp(key)' = fp(key) /\ ready' = ready
    BY DEF Homes, index, alt_index, fp
  <2>5. \A b : Has(buckets[b], fp(key))' <=> Has(buckets'[b], fp(key))
    BY <2>4 DEF Has, At
  <2> QED
    BY <2>1, <2>2, <2>3, <2>4, <2>5
<1> QED
  BY <1>1 DEF Found

(* Calls that change no bucket find what was found. *)
LEMMA FoundSame ==
  ASSUME UNCHANGED <<mask, ready>>, mask \in Masks, buckets' = buckets
  PROVE  Found' = Found
  BY FoundNext DEF Found

(* cf_insert up to its loop is an insert of the contract. *)
LEMMA ContractInsert ==
  ASSUME CInv, UNCHANGED <<mask, ready>>, NEW key \in Keys, Insert(key)
  PROVE  Contract!Insert(key)
<1>1. \A b \in BucketIds, y \in Fingerprints : Has(buckets[b], y) => Has(buckets'[b], y)
  BY InsertEffect
<1>2. mask \in Masks
  BY DEF CInv
<1>3. Found \subseteq Found' /\ Found' \in SUBSET Keys
  BY <1>1, <1>2, FoundNext
<1>4. CASE ~ready /\ pc' = "idle" /\ ret' = -1 /\ buckets' = buckets
  <2>1. Found' = Found
    BY <1>2, <1>4, FoundSame
  <2> QED
    BY <1>3, <1>4, <2>1 DEF Contract!Insert, Contract!Returns, Contract!InsertResults, Found
<1>5. CASE ready /\ pc' = "idle" /\ ret' = 0
  <2>1. <<Found', 0>> \in {x \in (SUBSET Keys) \X {0, 1} : x[2] = 1 => key \in x[1]}
    BY <1>3
  <2> QED
    BY <1>3, <1>5, <2>1 DEF Contract!Insert, Contract!Returns, Contract!InsertResults, Found
<1>6. CASE ready /\ pc' = "reinsert" /\ ret' = ret
  BY <1>3, <1>6 DEF Contract!Insert, Found
<1> QED
  BY <1>4, <1>5, <1>6, InsertEffect

(* So is a turn of the loop, and its end, a relocation. *)
LEMMA ContractRelocate ==
  ASSUME OInv, UNCHANGED <<mask, ready>>, cf_reinsert
  PROVE  pc = "reinsert" /\ Contract!Relocate
<1>1. pc = "reinsert" /\ ready /\ last' = last /\ CInv /\ mask \in Masks
  BY DEF OInv, DInv, CInv, Placed, cf_reinsert
<1>2. PICK key \in Keys : InsertOf(key, last) /\ f.fp = fp(key) /\ f.i \in Homes(key)
  BY <1>1 DEF OInv, DInv, InHand
<1>3. last[2] = key
  BY <1>2 DEF InsertOf
<1>4. \/ pc' = "idle" /\ ret' = 0
      \/ /\ \E b \in Homes(key) : Has(buckets'[b], fp(key))
         /\ \/ pc' = "idle" /\ ret' = 1
            \/ pc' = "reinsert" /\ ret' = ret
  BY <1>1, <1>2, ReinsertEffect
<1>5. Found' \in SUBSET Keys
  BY <1>1, FoundNext
<1>6. (\E b \in Homes(key) : Has(buckets'[b], fp(key))) => key \in Found'
  BY <1>1, FoundNext
<1>7. CASE pc' = "reinsert" /\ ret' = ret
  BY <1>1, <1>5, <1>7 DEF Contract!Relocate, Found
<1>8. CASE pc' = "idle" /\ (ret' = 0 \/ (ret' = 1 /\ key \in Found'))
  <2>1. <<Found', ret'>> \in {x \in (SUBSET Keys) \X {0, 1} : x[2] = 1 => key \in x[1]}
    BY <1>5, <1>8
  <2> QED
    BY <1>1, <1>3, <1>8, <2>1
       DEF Contract!Relocate, Contract!Returns, Contract!InsertResults, Found
<1> QED
  BY <1>1, <1>4, <1>6, <1>7, <1>8

(* A deletion only takes fingerprints away. *)
LEMMA ContractDelete ==
  ASSUME OInv, UNCHANGED <<mask, ready>>, NEW key \in Keys, cf_delete(key)
  PROVE  pc = "idle" /\ Contract!Delete(key)
<1> DEFINE i  == index(key)
           i2 == alt_index(fp(key), i)
           s1 == cf_delete_internal(Current, fp(key), i)
           s2 == cf_delete_internal(s1, fp(key), i2)
<1>1. /\ pc = "idle" /\ last' = <<"delete", key>> /\ mask \in Masks
      /\ added \in SUBSET Keys /\ Good(buckets, added) /\ count \in 0 .. Word - 1
  BY DEF OInv, DInv, CInv, cf_delete
<1>2. \/ ~ready /\ Return(Current, -1)
      \/ ready /\ s1.ret = 1 /\ Return(s1, 1)
      \/ ready /\ s1.ret = 0 /\ Return(s2, s2.ret)
  BY DEF cf_delete
<1>3. i \in BucketIds /\ i2 \in BucketIds
  BY <1>1, HomesPaired, IndexIsBucket DEF Homes
<1>4. buckets \in [BucketIds -> BucketType]
  BY <1>1 DEF Good
<1>5. /\ s1 = State(s1.buckets, s1.count, s1.ret) /\ Good(s1.buckets, added)
      /\ s1.count \in 0 .. Word - 1
  BY <1>1, <1>3, DeleteInternal DEF Current
<1> HIDE DEF i, i2
<1>6. \A b \in BucketIds, y \in Fingerprints : Has(s1.buckets[b], y) => Has(buckets[b], y)
  BY <1>3, <1>4, DeleteKeeps DEF Current
<1> HIDE DEF s1
<1>7. s2.ret \in {0, 1}
  BY <1>1, <1>3, <1>5, DeleteInternal
<1>8. \A b \in BucketIds, y \in Fingerprints : Has(s2.buckets[b], y) => Has(s1.buckets[b], y)
  <2>1. s1.buckets \in [BucketIds -> BucketType]
    BY <1>5 DEF Good
  <2> QED
    BY <1>3, <1>5, <2>1, DeleteKeeps
<1> HIDE DEF s2
<1>9. CASE ~ready /\ Return(Current, -1)
  <2>1. buckets' = buckets
    BY <1>9 DEF Return, Current, State
  <2>2. Found' = Found
    BY <1>1, <2>1, FoundSame
  <2> QED
    BY <1>1, <1>9, <2>2 DEF Contract!Delete, Contract!Returns, Contract!DeleteResults, Found,
       Return
<1>10. CASE ready /\ pc' = "idle" /\ ret' \in {0, 1} /\ buckets' \in {s1.buckets, s2.buckets}
  <2>1. \A b \in BucketIds, y \in Fingerprints : Has(buckets'[b], y) => Has(buckets[b], y)
    BY <1>6, <1>8, <1>10
  <2>2. Found' \subseteq Found
    BY <1>1, <2>1, FoundNext
  <2>3. <<Found', ret'>> \in (SUBSET Found) \X {0, 1}
    BY <1>10, <2>2
  <2> QED
    BY <1>1, <1>10, <2>3 DEF Contract!Delete, Contract!Returns, Contract!DeleteResults, Found
<1> QED
  BY <1>2, <1>7, <1>9, <1>10 DEF Return

(* So does a reset. *)
LEMMA ContractReset ==
  ASSUME OInv, UNCHANGED <<mask, ready>>, cf_reset
  PROVE  pc = "idle" /\ Contract!Reset
<1>1. pc = "idle" /\ last' = <<"reset">> /\ mask \in Masks /\ pc' = "idle"
  BY DEF OInv, DInv, CInv, cf_reset, Return
<1>2. CASE ~ready
  <2>1. buckets' = buckets /\ ret' = -1
    BY <1>2 DEF cf_reset, Return, Current, State
  <2>2. Found' = Found
    BY <1>1, <2>1, FoundSame
  <2> QED
    BY <1>1, <1>2, <2>1, <2>2 DEF Contract!Reset, Contract!Returns, Contract!ResetResults, Found
<1>3. CASE ready
  <2>1. /\ buckets' = [b \in BucketIds |-> IF b \subseteq {0, 1} THEN EmptyBucket
                                           ELSE buckets[b]]
        /\ ret' = 0
    BY <1>3 DEF cf_reset, Return, State
  <2>2. \A y \in Fingerprints : ~Has(EmptyBucket, y)
    BY FilterAssumption DEF Has, At, EmptyBucket
  <2>3. \A b \in BucketIds, y \in Fingerprints : Has(buckets'[b], y) => Has(buckets[b], y)
    BY <2>1, <2>2
  <2>4. Found' \subseteq Found
    BY <1>1, <2>3, FoundNext
  <2>5. <<Found', 0>> \in (SUBSET Found) \X {0}
    BY <2>4
  <2> QED
    BY <1>1, <1>3, <2>1, <2>5
       DEF Contract!Reset, Contract!Returns, Contract!ResetResults, Found
<1> QED
  BY <1>2, <1>3

(* Calls that leave the buckets alone. *)
LEMMA ContractQuiet ==
  ASSUME OInv, UNCHANGED <<mask, ready>>
  PROVE  /\ cf_new => pc = "idle" /\ Contract!New
         /\ cf_free => pc = "idle" /\ Contract!Free
         /\ \A key \in Keys :
              /\ cf_lookup(key) => pc = "idle" /\ Contract!Lookup(key)
              /\ cf_insert_unique(key) /\ ~Insert(key) => pc = "idle" /\ Contract!UniqueInsert(key)
<1>1. mask \in Masks
  BY DEF OInv, DInv, CInv
<1>2. \A r : Return(Current, r) => pc' = "idle" /\ ret' = r /\ buckets' = buckets
  BY DEF Return, Current, State
<1>3. buckets' = buckets => Found' = Found
  BY <1>1, FoundSame
<1>4. \A k \in Keys : lookup(k) = Contract!LookupCode(ready, Found, k)
  BY LookupIs DEF Found, Contract!LookupCode
<1>5. cf_new => pc = "idle" /\ Contract!New
  <2> SUFFICES ASSUME cf_new PROVE Contract!New
    BY DEF cf_new
  <2>1. PICK r \in {0, -1} : Return(Current, r)
    BY DEF cf_new
  <2>2. Found' = Found /\ ret' = r /\ pc' = "idle" /\ last' = <<"new">>
    BY <1>2, <1>3, <2>1 DEF cf_new
  <2>3. <<Found, r>> \in {Found} \X {0, -1}
    OBVIOUS
  <2> QED
    BY <2>2, <2>3 DEF Contract!New, Contract!Returns, Found
<1>6. cf_free => pc = "idle" /\ Contract!Free
  BY <1>3 DEF cf_free, Contract!Free, Contract!Returns, Found
<1>7. ASSUME NEW key \in Keys, cf_lookup(key) PROVE pc = "idle" /\ Contract!Lookup(key)
  BY <1>2, <1>3, <1>4, <1>7 DEF cf_lookup, Contract!Lookup, Contract!Returns, Found
<1>8. ASSUME NEW key \in Keys, cf_insert_unique(key), ~Insert(key)
      PROVE  pc = "idle" /\ Contract!UniqueInsert(key)
  BY <1>2, <1>3, <1>4, <1>8 DEF cf_insert_unique, Contract!UniqueInsert, Contract!Returns, Found
<1> QED
  BY <1>5, <1>6, <1>7, <1>8

(* Every step of the filter is one of its contract, or none. *)
LEMMA ContractStep == OInv /\ [Next]_vars => [Contract!Next]_(Contract!vars)
<1> SUFFICES ASSUME OInv, [Next]_vars PROVE [Contract!Next]_(Contract!vars)
  OBVIOUS
<1>1. CASE UNCHANGED vars
  <2>1. UNCHANGED <<mask, ready, buckets, pc, last, ret>>
    BY <1>1 DEF vars
  <2>2. Found' = Found
    BY <2>1, FoundSame DEF OInv, DInv, CInv
  <2> QED
    BY <2>1, <2>2 DEF Contract!vars, Found
<1>2. CASE Next
  <2>1. UNCHANGED <<mask, ready>>
    BY <1>2 DEF Next, cf_new, cf_reset, cf_free, cf_reinsert, cf_lookup, cf_delete,
           cf_insert, cf_insert_unique, Unchanged
  <2>2. CInv
    BY DEF OInv, DInv
  <2>3. CASE cf_new \/ cf_free
    BY <2>1, <2>3, ContractQuiet DEF Contract!Next
  <2>4. CASE cf_reset
    BY <2>1, <2>4, ContractReset DEF Contract!Next
  <2>5. CASE cf_reinsert
    BY <2>1, <2>5, ContractRelocate DEF Contract!Next
  <2>6. ASSUME NEW key \in Keys, cf_lookup(key) PROVE Contract!Next
    BY <2>1, <2>6, ContractQuiet DEF Contract!Next
  <2>7. ASSUME NEW key \in Keys, cf_delete(key) PROVE Contract!Next
    BY <2>1, <2>7, ContractDelete DEF Contract!Next
  <2>8. ASSUME NEW key \in Keys, cf_insert(key) PROVE Contract!Next
    <3>1. Contract!Insert(key) /\ pc = "idle" /\ last' = <<"insert", key>>
      BY <2>1, <2>2, <2>8, ContractInsert DEF cf_insert
    <3> QED
      BY <2>1, <3>1 DEF Contract!Next, Contract!PlainInsert
  <2>9. ASSUME NEW key \in Keys, cf_insert_unique(key) PROVE Contract!Next
    <3>1. CASE ~Insert(key)
      BY <2>1, <2>9, <3>1, ContractQuiet DEF Contract!Next
    <3>2. CASE Insert(key) /\ lookup(key) = 0
      <4>1. Contract!Insert(key) /\ pc = "idle" /\ last' = <<"insert_unique", key>>
        BY <2>1, <2>2, <2>9, <3>2, ContractInsert DEF cf_insert_unique
      <4>2. Contract!LookupCode(ready, Found, key) = 0
        BY <3>2, LookupIs DEF Found, Contract!LookupCode
      <4> QED
        BY <2>1, <4>1, <4>2 DEF Contract!Next, Contract!UniqueInsert, Found
    <3>3. CASE Return(Current, 0) /\ lookup(key) # 0
      <4>1. buckets' = buckets /\ pc' = "idle" /\ ret' = 0 /\ pc = "idle"
            /\ last' = <<"insert_unique", key>>
        BY <2>9, <3>3 DEF Return, Current, State, cf_insert_unique
      <4>2. Found' = Found
        BY <2>1, <2>2, <4>1, FoundSame DEF CInv
      <4>3. Contract!LookupCode(ready, Found, key) # 0
        BY <3>3, LookupIs DEF Found, Contract!LookupCode
      <4> QED
        BY <2>1, <4>1, <4>2, <4>3
           DEF Contract!Next, Contract!UniqueInsert, Contract!Returns, Found
    <3> QED
      BY <2>9, <3>1, <3>2, <3>3 DEF cf_insert_unique
  <2> QED
    BY <1>2, <2>3, <2>4, <2>5, <2>6, <2>7, <2>8, <2>9 DEF Next
<1> QED
  BY <1>1, <1>2

(* The cuckoo filter implements FilterContract, for every hash function, table, size of
   bucket and filter: an insert that does not relocate takes no key away, one that returns
   1 leaves its key findable however often it relocated, and only inserts make keys
   findable. *)
THEOREM CuckooImplementsContract == Spec => ImplementsContract
<1>1. Init => Contract!Init
  <2> SUFFICES ASSUME Init PROVE Contract!Init
    OBVIOUS
  <2>1. ASSUME NEW key \in Keys PROVE lookup(key) # 1
    <3>1. mask \in Masks /\ buckets = [b \in BucketIds |-> EmptyBucket]
      BY DEF Init
    <3>2. Homes(key) \subseteq BucketIds /\ fp(key) # 0
      BY <3>1, HomesPaired, IndexIsBucket, FilterAssumption
    <3>3. \A b \in Homes(key) : ~Has(buckets[b], fp(key))
      BY <3>1, <3>2 DEF Has, At, EmptyBucket
    <3> QED
      BY <3>3, LookupIs
  <2> QED
    BY <2>1 DEF Init, Contract!Init
<1>2. OInv /\ [Next]_vars => [Contract!Next]_(Contract!vars)
  BY ContractStep
<1> QED
  BY <1>1, <1>2, CuckooOutcomeInvariant, PTL DEF Spec, ImplementsContract, Contract!Spec
-----------------------------------------------------------------------------
(***************************************************************************)
(* main, on top of the filter.                                             *)
(***************************************************************************)

(* As long as no word has counted as inserted each one has moved count, which has not
   wrapped twice.  A cf_delete that returns 0 leaves count as it is. *)
MovedBy(n) == count0 + n \in {count, count + Word}

MainInv ==
  /\ OInv /\ words \in Tables /\ w \in Nat \ {0} /\ insertedWords \in Nat
  /\ exit \in {-1, 0, 1} /\ phase \in {"start", "insert", "delete"}
  /\ count0 \in 0 .. Word - 1
  /\ phase = "start" => w = 1
  /\ (phase # "delete" /\ insertedWords = 0 /\ (ready \/ w = 1)) => MovedBy(w - 1)
  /\ phase = "insert" => w <= Len(words) + 1
  /\ (phase = "delete" /\ exit = -1) =>
       /\ insertedWords = count /\ (w > 1 => ready)
       /\ (count = 0 /\ (ready \/ words = <<>>)) => MovedBy(Len(words))
  /\ PassesByChance

(* A call that is still in its loop has not moved count. *)
LEMMA CountKept ==
  ASSUME cf_reinsert \/ \E key \in Keys : cf_insert(key), pc' # "idle"
  PROVE  count' = count
<1>1. ASSUME NEW s, NEW r PROVE ~Return(s, r)
  BY DEF Return
<1>2. ASSUME NEW s, NEW x, NEW i, cf_insert_internal(s, x, i).ret = 0
      PROVE  cf_insert_internal(s, x, i).count = s.count
  BY <1>2 DEF cf_insert_internal, State
<1>3. ASSUME cf_reinsert PROVE count' = count
  <2>1. PICK j \in Slots :
          LET s == cf_insert_internal(State(Kick(buckets, f.i, j, f.fp), count, 0), f.fp,
                                      alt_index(f.fp, f.i))
          IN  s.ret = 0 /\ count' = s.count
    BY <1>1, <1>3 DEF cf_reinsert, Turn
  <2> QED
    BY <1>2, <2>1 DEF State
<1>4. ASSUME NEW key \in Keys, cf_insert(key) PROVE count' = count
  <2> DEFINE s1 == cf_insert_internal(Current, fp(key), index(key))
             s2 == cf_insert_internal(s1, fp(key), alt_index(fp(key), index(key)))
  <2>1. s1.ret = 0 /\ s2.ret = 0 /\ count' = s2.count
    BY <1>1, <1>4 DEF cf_insert, Insert
  <2>2. s1.count = Current.count
    BY <1>2, <2>1
  <2> HIDE DEF s1
  <2>3. s2.count = s1.count
    BY <1>2, <2>1
  <2> QED
    BY <2>1, <2>2, <2>3 DEF Current, State
<1> QED
  BY <1>3, <1>4

(* What the calls main makes do to the counts. *)
LEMMA InsertCounts ==
  ASSUME OInv, cf_reinsert \/ \E key \in Keys : cf_insert(key)
  PROVE  /\ ready' = ready /\ count' \in 0 .. Word - 1 /\ ret' \in {-1, 0, 1}
         /\ (ready /\ pc' = "idle") => ret' = 0 \/ count' = (count + 1) % Word
<1>1. ready' = ready /\ OInv'
  BY OutcomeNext DEF cf_reinsert, cf_insert, Unchanged, Next
<1>2. count' \in 0 .. Word - 1 /\ ret' \in {-1, 0, 1}
  BY <1>1, FilterAssumption DEF OInv, DInv, CInv
<1>3. ASSUME NEW key \in Keys, cf_insert(key), ready, pc' = "idle" PROVE ret' = 0
  BY <1>3, InsertEffect DEF cf_insert, OInv, DInv
<1>4. ASSUME cf_reinsert, pc' = "idle" PROVE ret' = 0 \/ count' = (count + 1) % Word
  <2>1. CASE Return(Current, 0)
    BY <2>1 DEF Return
  <2>2. ASSUME NEW j \in Slots,
               NEW s, s = cf_insert_internal(State(Kick(buckets, f.i, j, f.fp), count, 0),
                                             f.fp, alt_index(f.fp, f.i)),
               s.ret = 1, Return(s, 1)
        PROVE  count' = (count + 1) % Word
    BY <2>2 DEF cf_insert_internal, State, Return
  <2> QED
    BY <1>4, <2>1, <2>2 DEF cf_reinsert, Turn
<1> QED
  BY <1>1, <1>2, <1>3, <1>4

(* An insert that moves count accounts for one word more. *)
LEMMA MovedOn ==
  ASSUME count \in 0 .. Word - 1, count0 \in 0 .. Word - 1, NEW n \in Nat, n + 1 < Word,
         MovedBy(n), count' = (count + 1) % Word, count0' = count0
  PROVE  MovedBy(n + 1)'
<1>1. count' = IF count + 1 = Word THEN 0 ELSE count + 1
  BY NextCount
<1>2. Word \in Nat
  BY FilterAssumption
<1> QED
  BY <1>1, <1>2 DEF MovedBy

LEMMA DeleteCounts ==
  ASSUME OInv, NEW key \in Keys, cf_delete(key)
  PROVE  /\ ready' = ready /\ ret' \in {-1, 0, 1}
         /\ ~ready => ret' = -1
         /\ ret' = 0 => count' = count
<1> DEFINE i  == index(key)
           s1 == cf_delete_internal(Current, fp(key), i)
           s2 == cf_delete_internal(s1, fp(key), alt_index(fp(key), i))
<1>1. \/ ~ready /\ Return(Current, -1)
      \/ ready /\ s1.ret = 1 /\ Return(s1, 1)
      \/ ready /\ s1.ret = 0 /\ Return(s2, s2.ret)
  BY DEF cf_delete
<1>2. /\ s1.ret \in {0, 1} /\ (s1.ret = 0 => s1.count = count)
  BY DEF cf_delete_internal, State, Current
<1>3. /\ s2.ret \in {0, 1} /\ (s2.ret = 0 => s2.count = s1.count)
  BY DEF cf_delete_internal, State
<1> HIDE DEF s1, s2
<1>4. ready' = ready
  BY DEF cf_delete, Unchanged
<1> QED
  BY <1>1, <1>2, <1>3, <1>4 DEF Return

(* MainInv is inductive. *)
LEMMA MainStep == MainInv /\ MainNext => MainInv'
<1> SUFFICES ASSUME MainInv, MainNext PROVE MainInv'
  OBVIOUS
<1>0. /\ OInv /\ words' = words /\ words \in Tables /\ w \in Nat \ {0} /\ insertedWords \in Nat
      /\ exit = -1 /\ Len(words) \in Nat /\ words \in Seq(Keys) /\ Len(words) < Word
      /\ count \in 0 .. Word - 1 /\ count0 \in 0 .. Word - 1 /\ count0' = count0
  BY TablesAssumption, FilterAssumption DEF MainInv, MainNext, OInv, DInv, CInv
<1>1. CASE Start
  <2>1. OInv' /\ ready' = ready
    BY <1>0, <1>1, OutcomeNext DEF Start, Next, cf_new, Unchanged
  <2>2. /\ phase = "start" /\ phase' = "insert" /\ exit' \in {-1, 1} /\ w = 1 /\ w' = 1
        /\ insertedWords' = insertedWords
    BY <1>1 DEF Start, MainInv
  <2>3. count' = count
    BY <1>1 DEF Start, cf_new, Return, Current, State
  <2>4. insertedWords' = 0 => MovedBy(w - 1)'
    BY <1>0, <2>2, <2>3 DEF MainInv, MovedBy
  <2> QED
    BY <1>0, <2>1, <2>2, <2>4 DEF MainInv, PassesByChance
<1>2. CASE InsertWord
  <2>1. cf_reinsert \/ \E key \in Keys : cf_insert(key)
    <3>1. words[w] \in Keys
      BY <1>0, <1>2 DEF InsertWord
    <3> QED
      BY <1>2, <3>1 DEF InsertWord
  <2>2. /\ OInv' /\ phase = "insert" /\ phase' = "insert" /\ exit' = -1 /\ w <= Len(words)
    BY <1>0, <1>2, <2>1, OutcomeNext DEF InsertWord, Next
  <2>3. /\ ready' = ready /\ ret' \in {-1, 0, 1}
        /\ (ready /\ pc' = "idle") => ret' = 0 \/ count' = (count + 1) % Word
    BY <1>0, <2>1, InsertCounts
  <2>4. CASE pc' = "idle"
    <3>1. w' = w + 1 /\ insertedWords' = insertedWords + (IF ret' = 0 THEN 1 ELSE 0)
      BY <1>2, <2>4 DEF InsertWord
    <3>2. /\ w' \in Nat \ {0} /\ w' # 1 /\ insertedWords' \in Nat /\ w' <= Len(words) + 1
          /\ insertedWords' = 0 => insertedWords = 0 /\ ret' # 0
      BY <1>0, <2>2, <2>3, <3>1
    <3>3. ASSUME insertedWords' = 0, ready PROVE MovedBy(w - 1)'
      <4>1. MovedBy(w - 1) /\ count' = (count + 1) % Word
        BY <2>2, <2>3, <2>4, <3>2, <3>3 DEF MainInv
      <4>2. w - 1 \in Nat /\ (w - 1) + 1 < Word /\ w' - 1 = (w - 1) + 1
        BY <1>0, <2>2, <3>1, FilterAssumption
      <4>3. PICK n \in Nat : n = w - 1
        BY <4>2
      <4>4. MovedBy(n + 1)'
        BY <1>0, <4>1, <4>2, <4>3, MovedOn
      <4> QED
        BY <4>2, <4>3, <4>4 DEF MovedBy
    <3> QED
      BY <1>0, <2>2, <2>3, <3>2, <3>3 DEF MainInv, PassesByChance
  <2>5. CASE pc' # "idle"
    <3>1. w' = w /\ insertedWords' = insertedWords
      BY <1>2, <2>5 DEF InsertWord
    <3>2. count' = count
      BY <2>1, <2>5, CountKept
    <3>3. MovedBy(w - 1)' = MovedBy(w - 1)
      BY <1>0, <3>1, <3>2 DEF MovedBy
    <3> QED
      BY <1>0, <2>2, <2>3, <3>1, <3>3 DEF MainInv, PassesByChance
  <2> QED
    BY <2>4, <2>5
<1>3. CASE Compare
  <2>1. UNCHANGED vars /\ OInv' /\ UNCHANGED <<ready, count>>
    BY <1>0, <1>3, OutcomeNext DEF Compare, vars
  <2>2. /\ phase = "insert" /\ w > Len(words)
        /\ phase' = "delete" /\ w' = 1 /\ insertedWords' = insertedWords
        /\ exit' = IF insertedWords # count THEN 1 ELSE -1
    BY <1>3 DEF Compare, AtEnd
  <2>3. w - 1 = Len(words) /\ (words = <<>> => w = 1)
    <3>1. w <= Len(words) + 1
      BY <2>2 DEF MainInv
    <3>2. words = <<>> => Len(words) = 0
      OBVIOUS
    <3> QED
      BY <1>0, <2>2, <3>1, <3>2
  <2>4. ASSUME exit' = -1 PROVE insertedWords' = count'
    BY <2>1, <2>2, <2>4
  <2>5. ASSUME exit' = -1, count' = 0, ready \/ words = <<>> PROVE MovedBy(Len(words))'
    <3>1. insertedWords = 0 /\ (ready \/ w = 1)
      BY <2>1, <2>2, <2>3, <2>5
    <3>2. MovedBy(w - 1)
      BY <2>2, <3>1 DEF MainInv
    <3> QED
      BY <1>0, <2>1, <2>3, <3>2 DEF MovedBy
  <2> QED
    BY <1>0, <2>1, <2>2, <2>4, <2>5 DEF MainInv, PassesByChance
<1>4. CASE DeleteWord
  <2>1. words[w] \in Keys /\ cf_delete(words[w])
    BY <1>0, <1>4 DEF DeleteWord
  <2>2. OInv' /\ phase = "delete" /\ phase' = "delete" /\ w' = w + 1
        /\ exit' = (IF ret' # 0 THEN 1 ELSE -1) /\ insertedWords' = insertedWords
    BY <1>0, <1>4, <2>1, OutcomeNext DEF DeleteWord, Next
  <2>3. /\ ready' = ready /\ (~ready => ret' = -1) /\ (ret' = 0 => count' = count)
    BY <1>0, <2>1, DeleteCounts
  <2>4. w' \in Nat \ {0} /\ exit' \in {-1, 1}
    BY <1>0, <2>2
  <2>5. exit' = -1 => ready /\ count' = count
    BY <2>2, <2>3
  <2>6. count' = count => MovedBy(Len(words))' = MovedBy(Len(words))
    BY <1>0 DEF MovedBy
  <2> QED
    BY <1>0, <2>2, <2>3, <2>4, <2>5, <2>6 DEF MainInv, PassesByChance
<1>5. CASE Finish
  <2>1. UNCHANGED vars /\ OInv' /\ UNCHANGED <<ready, count>>
    BY <1>0, <1>5, OutcomeNext DEF Finish, vars
  <2>2. /\ phase = "delete" /\ w > Len(words) /\ UNCHANGED <<phase, w, insertedWords>>
        /\ exit' = IF count # 0 THEN 1 ELSE 0
    BY <1>5 DEF Finish, AtEnd
  <2>3. ready \/ words = <<>>
    <3>1. words # <<>> => w > 1
      BY <1>0, <2>2
    <3> QED
      BY <1>0, <2>2, <3>1 DEF MainInv
  <2>4. ASSUME exit' = 0 PROVE insertedWords = 0 /\ (count0 + Len(words)) % Word = 0
    <3>1. count = 0 /\ insertedWords = 0 /\ MovedBy(Len(words))
      BY <1>0, <2>2, <2>3, <2>4 DEF MainInv
    <3>2. Word \in Nat \ {0} /\ 0 % Word = 0 /\ Word % Word = 0
      BY FilterAssumption
    <3> QED
      BY <1>0, <3>1, <3>2 DEF MovedBy
  <2> QED
    BY <1>0, <2>1, <2>2, <2>4 DEF MainInv, PassesByChance
<1> QED
  BY <1>1, <1>2, <1>3, <1>4, <1>5 DEF MainNext

(* PassesByChance for every table of words, hash function, size of the filter and value
   that its count has at first: what cf_insert and cf_delete return and what they do to
   count agree for no table with a word, unless count wraps to 0. *)
THEOREM MainPassesByChance == MainSpec => []PassesByChance
<1>1. MainInit => MainInv
  <2> SUFFICES ASSUME MainInit PROVE MainInv
    OBVIOUS
  <2>1. OInv
    BY OutcomeInit DEF MainInit
  <2>2. count0 \in 0 .. Word - 1 /\ count0 = count
    BY FilterAssumption DEF MainInit, Init
  <2>3. w = 1 => MovedBy(w - 1)
    BY <2>2 DEF MovedBy
  <2> QED
    BY <2>1, <2>2, <2>3 DEF MainInit, MainInv, PassesByChance
<1>2. MainInv /\ UNCHANGED mainVars => MainInv'
  <2> SUFFICES ASSUME MainInv, UNCHANGED mainVars PROVE MainInv'
    OBVIOUS
  <2>1. UNCHANGED vars /\ UNCHANGED <<words, phase, w, insertedWords, exit, count0>>
    BY DEF mainVars
  <2>2. OInv' /\ UNCHANGED <<ready, count>>
    BY <2>1, OutcomeNext DEF MainInv, vars
  <2>3. \A n : MovedBy(n)' = MovedBy(n)
    BY <2>1, <2>2 DEF MovedBy
  <2> QED
    BY <2>1, <2>2, <2>3 DEF MainInv, PassesByChance
<1>3. MainInv => PassesByChance
  BY DEF MainInv
<1> QED
  BY <1>1, <1>2, <1>3, MainStep, PTL DEF MainSpec
=============================================================================
