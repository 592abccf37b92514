---------------------------- MODULE CacheProofs -----------------------------
(***************************************************************************)
(* CacheOps, proved for every set of keys, values and entries, every       *)
(* capacity and every cache that a client may have built.                  *)
(***************************************************************************)
EXTENDS CacheOps, PmemTxLemmas, SequenceTheorems

Sentinels == {"head", "tail"}
Fields    == {"_key", "_value", "next", "prev"}
MapLoc(k) == <<"map", "oid", k>>

(* The locations of the objects O and of the map. *)
Locs(O) == (O \X Fields \X {0}) \cup ({"map"} \X {"oid"} \X Keys)

(* The sentinels and entries that memory mem holds. *)
Here(mem) == {o \in Sentinels \cup Entries : <<o, "_key", 0>> \in DOMAIN mem}

Shape(mem) == Sentinels \subseteq Here(mem) /\ DOMAIN mem = Locs(Here(mem))

(* What the links hold. *)
Nexts == {Null, "tail"} \cup Entries
Prevs == {Null, "head"} \cup Entries

(* What location l may hold.  No link leads to head from behind or to tail from the
   front, so that head is never deleted. *)
ValueOK(l, v) ==
  /\ l[2] = "_key"   => v \in Keys
  /\ l[2] = "_value" => v \in Values
  /\ l[2] = "next"   => v \in {Null, "tail"} \cup Entries
  /\ l[2] = "prev"   => v \in {Null, "head"} \cup Entries /\ (l[1] = "head" => v = Null)
  /\ l[2] = "oid"    => v \in Entries \cup {Absent, ZeroOid, Stray}

PoolOK(mem) == Shape(mem) /\ \A l \in DOMAIN mem : ValueOK(l, mem[l])

(* An entry the map leads to is there, and has that key. *)
MapOK(mem) ==
  \A k \in Keys :
    mem[MapLoc(k)] \in Entries =>
      mem[MapLoc(k)] \in Here(mem) /\ mem[<<mem[MapLoc(k)], "_key", 0>>] = k

(* A rollback gives back the last commit, but for the links. *)
GivesBack ==
  /\ DOMAIN Recovered(pm) = DOMAIN durable
  /\ \A l \in DOMAIN durable : IsLink(l) \/ Recovered(pm)[l] = durable[l]

(* What the running call knows: the entry it is at is there, and once it is to be freed
   the map does not lead to it. *)
FrameOK ==
  /\ pc \in Places
  /\ pc \in {"unlink", "relink", "free", "insert", "evict", "new", "add"} => f.key \in Keys
  /\ pc \in {"evict", "new", "add"} =>
       f = [op |-> f.op, key |-> f.key, value |-> f.value, entry |-> f.entry]
  /\ pc \in {"unlink", "relink", "free"} =>
       /\ f.op \in {"get", "set", "evict"}
       /\ f.op # "get" =>
            f = [op |-> f.op, key |-> f.key, value |-> f.value, entry |-> f.entry]
  /\ (pc \in {"evict", "new", "add"} \/ (pc \in {"unlink", "relink", "free"} /\ f.op # "get")) =>
       f.value \in Values
  /\ pc \in {"unlink", "relink"} => f.entry \in Here(m) \ {"tail"}
  /\ pc \in {"free", "add", "link"} => f.entry \in Here(m) \cap Entries
  /\ pc = "link" => f.dummy \in Here(m) \cap Entries
  /\ pc \in {"unlink", "relink", "free"} =>
       \A k \in Keys : InMap(k) \in Entries => InMap(k) # f.entry

(* Where a call may have allocated. *)
Adding == {"add", "link", "end"}

(* The transaction: it has logged nothing but oids of the map, and allocates last. *)
TxOK ==
  /\ IsTx(pm)
  /\ DOMAIN pm.undo \subseteq {MapLoc(k) : k \in Keys}
  /\ pm.fresh \subseteq Entries /\ pm.doomed \subseteq Entries
  /\ pc \notin Adding \cup {"undefined"} => pm.fresh = {}
  /\ pc = "idle" => pm.undo = <<>> /\ pm.doomed = {}
  /\ \A k \in Keys : InMap(k) \in Entries => InMap(k) \notin pm.doomed

(* A call only takes entries out of the map. *)
MapLoses ==
  /\ \A k \in Keys : InMap(k) \in Entries => InMap(k) = durable[MapLoc(k)]
  /\ \A k \in got : durable[MapLoc(k)] \notin Entries

PoolInv ==
  /\ PoolOK(m) /\ PoolOK(durable) /\ MapOK(m) /\ MapOK(durable)
  /\ GivesBack /\ FrameOK /\ TxOK /\ MapLoses
  /\ got \subseteq Keys /\ ret \in {-1, 0}
-----------------------------------------------------------------------------
(* What a pool of this shape holds. *)
LEMMA ShapeOf ==
  ASSUME NEW mem, NEW O \in SUBSET (Sentinels \cup Entries), Sentinels \subseteq O,
         DOMAIN mem = Locs(O)
  PROVE  /\ Shape(mem) /\ Here(mem) = O
         /\ \A o \in Sentinels \cup Entries \cup {Null} : o \in Objects(mem) <=> o \in O
         /\ Objects(mem) \subseteq O \cup {"map"}
<1>0. "map" \notin Sentinels \cup Entries
  BY CacheAssumption DEF Sentinels
<1>1. Here(mem) = O
  BY <1>0 DEF Here, Locs, Fields
<1>2. \A l \in DOMAIN mem : l[1] \in O \cup {"map"}
  BY DEF Locs
<1>3. ASSUME NEW o \in O PROVE <<o, "_key", 0>> \in DOMAIN mem /\ <<o, "_key", 0>>[1] = o
  BY DEF Locs, Fields
<1>4. O \subseteq Objects(mem) /\ Objects(mem) \subseteq O \cup {"map"}
  BY <1>2, <1>3 DEF Objects
<1>5. Null \notin O /\ Null # "map"
  BY CacheAssumption DEF Sentinels
<1> QED
  BY <1>0, <1>1, <1>4, <1>5 DEF Shape

LEMMA ShapeHas ==
  ASSUME NEW mem, Shape(mem)
  PROVE  /\ \A o \in Sentinels \cup Entries \cup {Null} : o \in Objects(mem) <=> o \in Here(mem)
         /\ Objects(mem) \subseteq Here(mem) \cup {"map"}
         /\ Here(mem) \in SUBSET (Sentinels \cup Entries)
         /\ \A o \in Here(mem), x \in Fields : <<o, x, 0>> \in DOMAIN mem
         /\ \A k \in Keys : MapLoc(k) \in DOMAIN mem
<1>1. Here(mem) \in SUBSET (Sentinels \cup Entries)
  BY DEF Here
<1> QED
  BY <1>1, ShapeOf DEF Shape, Locs, MapLoc

(* The values that objects and the map have. *)
LEMMA PoolValues ==
  ASSUME NEW mem, PoolOK(mem)
  PROVE  /\ \A o \in Here(mem) :
              /\ mem[<<o, "_key", 0>>] \in Keys /\ mem[<<o, "_value", 0>>] \in Values
              /\ mem[<<o, "next", 0>>] \in {Null, "tail"} \cup Entries
              /\ mem[<<o, "prev", 0>>] \in {Null, "head"} \cup Entries
         /\ mem[<<"head", "prev", 0>>] = Null
         /\ \A k \in Keys : mem[MapLoc(k)] \in Entries \cup {Absent, ZeroOid, Stray}
<1>1. /\ \A o \in Here(mem), x \in Fields : <<o, x, 0>> \in DOMAIN mem
      /\ \A k \in Keys : MapLoc(k) \in DOMAIN mem
  BY ShapeHas DEF PoolOK
<1>2. \A o, x : ValueOK(<<o, x, 0>>, mem[<<o, x, 0>>]) <=>
        /\ x = "_key"   => mem[<<o, x, 0>>] \in Keys
        /\ x = "_value" => mem[<<o, x, 0>>] \in Values
        /\ x = "next"   => mem[<<o, x, 0>>] \in {Null, "tail"} \cup Entries
        /\ x = "prev"   => mem[<<o, x, 0>>] \in {Null, "head"} \cup Entries
                           /\ (o = "head" => mem[<<o, x, 0>>] = Null)
        /\ x = "oid"    => mem[<<o, x, 0>>] \in Entries \cup {Absent, ZeroOid, Stray}
  BY DEF ValueOK
<1>3. ASSUME NEW k \in Keys
      PROVE  mem[MapLoc(k)] \in Entries \cup {Absent, ZeroOid, Stray}
  <2>1. ValueOK(MapLoc(k), mem[MapLoc(k)]) /\ MapLoc(k)[2] = "oid"
    BY <1>1 DEF PoolOK, MapLoc
  <2> QED
    BY <2>1 DEF ValueOK
<1>4. "head" \in Here(mem)
  BY DEF PoolOK, Shape, Sentinels
<1>5. \A o \in Here(mem), x \in Fields : ValueOK(<<o, x, 0>>, mem[<<o, x, 0>>])
  BY <1>1 DEF PoolOK
<1> QED
  BY <1>2, <1>3, <1>4, <1>5 DEF Fields

(* A store of a value that the location may hold. *)
LEMMA StorePool ==
  ASSUME NEW p, IsTx(p), PoolOK(p.mem), NEW l, NEW v, ValueOK(l, v)
  PROVE  LET q == Store(p, l, v)
         IN  /\ IsTx(q) /\ PoolOK(q.mem) /\ Here(q.mem) = Here(p.mem)
             /\ q.undo = p.undo /\ q.fresh = p.fresh /\ q.doomed = p.doomed
             /\ \A x \in DOMAIN p.mem : x # l => q.mem[x] = p.mem[x]
             /\ l \in DOMAIN p.mem => q.mem[l] = v
<1> DEFINE q == Store(p, l, v)
<1>1. IsTx(q) /\ q.undo = p.undo /\ q.fresh = p.fresh /\ q.doomed = p.doomed
  BY DEF IsTx, Store
<1>2. /\ DOMAIN q.mem = DOMAIN p.mem
      /\ \A x \in DOMAIN p.mem : x # l => q.mem[x] = p.mem[x]
      /\ l \in DOMAIN p.mem => q.mem[l] = v
  BY StoreDomain
<1> HIDE DEF q
<1>3. Here(q.mem) = Here(p.mem)
  BY <1>2 DEF Here
<1>4. \A x \in DOMAIN q.mem : ValueOK(x, q.mem[x])
  BY <1>2 DEF PoolOK
<1> QED
  BY <1>1, <1>2, <1>3, <1>4 DEF PoolOK, Shape, q

(* hm_tx_remove, and hm_tx_insert of what is no entry: the oid is logged first. *)
LEMMA MapSetPool ==
  ASSUME NEW p, IsTx(p), PoolOK(p.mem), NEW k \in Keys, NEW v \in {Absent, ZeroOid, Stray}
  PROVE  LET q == MapSet(p, k, v)
         IN  /\ IsTx(q) /\ PoolOK(q.mem) /\ Here(q.mem) = Here(p.mem)
             /\ q.fresh = p.fresh /\ q.doomed = p.doomed
             /\ DOMAIN q.undo \subseteq DOMAIN p.undo \cup {MapLoc(k)}
             /\ Recovered(q) = Recovered(p)
             /\ \A x \in DOMAIN p.mem : x # MapLoc(k) => q.mem[x] = p.mem[x]
             /\ q.mem[MapLoc(k)] = v
<1> DEFINE l == MapLoc(k)
           a == TxAdd(p, {l})
           q == Store(a, l, v)
<1>1. /\ IsTx(a) /\ a.mem = p.mem /\ a.fresh = p.fresh /\ a.doomed = p.doomed
      /\ DOMAIN a.undo = DOMAIN p.undo \cup {x \in {l} \cap DOMAIN p.mem : x[1] \notin p.fresh}
  BY TxAddFields
<1>2. Recovered(a) = Recovered(p)
  BY TxAddRecovered
<1>3. Covered(a, l)
  BY <1>1 DEF Covered
<1>4. l[2] = "oid" /\ ValueOK(l, v)
  BY DEF MapLoc, ValueOK
<1>5. l \in DOMAIN p.mem
  BY ShapeHas DEF PoolOK
<1> HIDE DEF a
<1>6. Recovered(q) = Recovered(a)
  BY <1>1, <1>3, StoreRecovered
<1>7. /\ IsTx(q) /\ PoolOK(q.mem) /\ Here(q.mem) = Here(a.mem)
      /\ q.undo = a.undo /\ q.fresh = a.fresh /\ q.doomed = a.doomed
      /\ \A x \in DOMAIN a.mem : x # l => q.mem[x] = a.mem[x]
      /\ l \in DOMAIN a.mem => q.mem[l] = v
  BY <1>1, <1>4, StorePool
<1>8. MapSet(p, k, v) = q
  BY DEF MapSet, MapLoc, a
<1> HIDE DEF q, l
<1> QED
  BY <1>1, <1>2, <1>5, <1>6, <1>7, <1>8 DEF l

(* The transaction q is p with the object o allocated. *)
Allocated(p, q, o, k, n, pr) ==
  /\ IsTx(q) /\ PoolOK(q.mem) /\ Here(q.mem) = Here(p.mem) \cup {o}
  /\ q.undo = p.undo /\ q.fresh = p.fresh \cup {o} /\ q.doomed = p.doomed
  /\ Recovered(q) = Recovered(p)
  /\ \A x \in DOMAIN p.mem : q.mem[x] = p.mem[x]
  /\ q.mem[<<o, "_key", 0>>] = k /\ q.mem[<<o, "next", 0>>] = n
  /\ q.mem[<<o, "prev", 0>>] = pr

(* A new object. *)
LEMMA AllocPool ==
  ASSUME NEW p, IsTx(p), PoolOK(p.mem), NEW o \in Entries, o \notin Objects(p.mem),
         NEW k \in Keys, NEW v \in Values, NEW n \in Nexts, NEW pr \in Prevs
  PROVE  Allocated(p, TxAlloc(p, o, Contents(o, k, v, n, pr)), o, k, n, pr)
<1> DEFINE c == Contents(o, k, v, n, pr)
           q == TxAlloc(p, o, c)
<1>1. /\ DOMAIN c = {o} \X Fields \X {0}
      /\ \A l \in DOMAIN c : ValueOK(l, c[l])
      /\ c[<<o, "_key", 0>>] = k /\ c[<<o, "next", 0>>] = n /\ c[<<o, "prev", 0>>] = pr
  <2>1. DOMAIN c = {o} \X Fields \X {0}
    BY DEF Contents, Fields
  <2>2. ASSUME NEW l \in DOMAIN c
        PROVE  /\ c[l] = CASE l[2] = "_key" -> k [] l[2] = "_value" -> v
                           [] l[2] = "next" -> n [] OTHER -> pr
               /\ l[1] = o /\ l[2] \in Fields
    BY <2>1 DEF Contents, Fields
  <2>3. o # "head"
    BY CacheAssumption
  <2>4. \A l \in DOMAIN c : ValueOK(l, c[l])
    BY <2>2, <2>3 DEF ValueOK, Fields, Nexts, Prevs
  <2>5. /\ <<o, "_key", 0>> \in DOMAIN c /\ <<o, "next", 0>> \in DOMAIN c
        /\ <<o, "prev", 0>> \in DOMAIN c
    BY <2>1 DEF Fields
  <2> HIDE DEF c
  <2> QED
    BY <2>1, <2>2, <2>4, <2>5
<1>2. \A l \in DOMAIN c : l[1] = o
  BY <1>1
<1> HIDE DEF c
<1>3. /\ IsTx(q)
      /\ DOMAIN q.mem = DOMAIN p.mem \cup DOMAIN c
      /\ \A l \in DOMAIN c : q.mem[l] = c[l]
      /\ \A l \in DOMAIN p.mem \ DOMAIN c : q.mem[l] = p.mem[l]
      /\ q.undo = p.undo /\ q.fresh = p.fresh \cup {o} /\ q.doomed = p.doomed
  BY TxAllocFields
<1>4. Recovered(q) = Recovered(p)
  BY <1>2, TxAllocRecovered
<1> HIDE DEF q
<1>5. DOMAIN p.mem \cap DOMAIN c = {}
  BY <1>2 DEF Objects
<1>6. DOMAIN q.mem = Locs(Here(p.mem) \cup {o})
  BY <1>1, <1>3 DEF PoolOK, Shape, Locs
<1>7. Shape(q.mem) /\ Here(q.mem) = Here(p.mem) \cup {o}
  <2>1. Here(p.mem) \cup {o} \in SUBSET (Sentinels \cup Entries)
        /\ Sentinels \subseteq Here(p.mem) \cup {o}
    BY DEF PoolOK, Shape, Here
  <2> QED
    BY <1>6, <2>1, ShapeOf
<1>8. \A l \in DOMAIN q.mem : ValueOK(l, q.mem[l])
  BY <1>1, <1>3, <1>5 DEF PoolOK
<1>9. /\ <<o, "_key", 0>> \in DOMAIN c /\ <<o, "next", 0>> \in DOMAIN c
      /\ <<o, "prev", 0>> \in DOMAIN c
  BY <1>1 DEF Fields
<1> QED
  BY <1>1, <1>3, <1>4, <1>5, <1>7, <1>8, <1>9 DEF Allocated, PoolOK, q, c

(* A commit, which releases the entries D. *)
LEMMA WithoutPool ==
  ASSUME NEW mem, PoolOK(mem), NEW D \in SUBSET Entries
  PROVE  LET w == Without(mem, D)
         IN  /\ PoolOK(w) /\ Here(w) = Here(mem) \ D
             /\ \A x \in DOMAIN w : x \in DOMAIN mem /\ w[x] = mem[x]
             /\ w = [x \in DOMAIN w |-> w[x]]
<1> DEFINE w == Without(mem, D)
<1>1. DOMAIN w = {x \in DOMAIN mem : x[1] \notin D} /\ \A x \in DOMAIN w : w[x] = mem[x]
  BY DEF Without, LocsOf
<1>2. w = [x \in DOMAIN w |-> w[x]]
  BY DEF Without
<1> HIDE DEF w
<1>3. D \cap (Sentinels \cup {"map"}) = {}
  BY CacheAssumption DEF Sentinels
<1>4. DOMAIN w = Locs(Here(mem) \ D)
  BY <1>1, <1>3 DEF PoolOK, Shape, Locs
<1>5. Shape(w) /\ Here(w) = Here(mem) \ D
  <2>1. Here(mem) \ D \in SUBSET (Sentinels \cup Entries) /\ Sentinels \subseteq Here(mem) \ D
    BY <1>3 DEF PoolOK, Shape, Here
  <2> QED
    BY <1>4, <2>1, ShapeOf
<1>6. \A x \in DOMAIN w : x \in DOMAIN mem /\ w[x] = mem[x]
  BY <1>1
<1>7. \A x \in DOMAIN w : ValueOK(x, w[x])
  BY <1>6 DEF PoolOK
<1> QED
  BY <1>2, <1>5, <1>6, <1>7 DEF PoolOK, w
-----------------------------------------------------------------------------
(* The map leads to the same entries with the same keys. *)
LEMMA MapSame ==
  ASSUME NEW mem, PoolOK(mem), MapOK(mem), NEW mem2, Here(mem) \subseteq Here(mem2),
         \A o \in Here(mem) : mem2[<<o, "_key", 0>>] = mem[<<o, "_key", 0>>],
         \A k \in Keys : mem2[MapLoc(k)] \in Entries => mem2[MapLoc(k)] = mem[MapLoc(k)]
  PROVE  MapOK(mem2)
  BY DEF MapOK

(* A store anywhere leaves what a rollback gives back elsewhere. *)
LEMMA StoreElsewhere ==
  ASSUME NEW p, IsTx(p), NEW l, NEW v
  PROVE  LET q == Store(p, l, v)
         IN  /\ DOMAIN Recovered(q) = DOMAIN Recovered(p)
             /\ \A x \in DOMAIN Recovered(p) : x # l => Recovered(q)[x] = Recovered(p)[x]
<1> DEFINE q == Store(p, l, v)
<1>1. q.undo = p.undo /\ q.fresh = p.fresh
  BY DEF IsTx, Store
<1>2. /\ DOMAIN q.mem = DOMAIN p.mem
      /\ \A x \in DOMAIN p.mem : x # l => q.mem[x] = p.mem[x]
  BY StoreDomain
<1> HIDE DEF q
<1> QED
  BY <1>1, <1>2 DEF Recovered, LocsOf, q

(* A step within a call. *)
LEMMA GoKeeps ==
  ASSUME PoolInv, NEW p, NEW place, NEW frame, Go(p, place, frame), FrameOK',
         IsTx(p), PoolOK(p.mem), Here(m) \subseteq Here(p.mem), place # "idle",
         \A o \in Here(m) : p.mem[<<o, "_key", 0>>] = m[<<o, "_key", 0>>],
         \A k \in Keys : p.mem[MapLoc(k)] \in Entries =>
                           p.mem[MapLoc(k)] = InMap(k) /\ InMap(k) \notin p.doomed,
         DOMAIN Recovered(p) = DOMAIN Recovered(pm),
         \A l \in DOMAIN Recovered(pm) : IsLink(l) \/ Recovered(p)[l] = Recovered(pm)[l],
         DOMAIN p.undo \subseteq {MapLoc(k) : k \in Keys},
         p.fresh \subseteq Entries, p.doomed \subseteq Entries, place \notin Adding => p.fresh = {}
  PROVE  PoolInv'
<1>1. /\ pm' = p /\ pc' = place /\ f' = frame
      /\ UNCHANGED <<ret, torn, got, capacity, durable>>
  BY DEF Go, Fixed
<1>2. \A k \in Keys : InMap(k) = m[MapLoc(k)] /\ InMap(k)' = p.mem[MapLoc(k)]
  BY <1>1 DEF InMap, MapLoc, m
<1>3. PoolOK(m)' /\ MapOK(m)'
  <2>1. MapOK(p.mem)
    BY <1>2, MapSame DEF PoolInv
  <2> QED
    BY <1>1, <2>1 DEF m, PoolOK, Shape, Here, MapOK
<1>4. PoolOK(durable)' /\ MapOK(durable)'
  BY <1>1 DEF PoolInv, PoolOK, Shape, Here, MapOK
<1>5. GivesBack'
  BY <1>1 DEF PoolInv, GivesBack
<1>6. TxOK'
  BY <1>1, <1>2 DEF PoolInv, TxOK, IsTx
<1>7. MapLoses'
  BY <1>1, <1>2 DEF PoolInv, MapLoses
<1> QED
  BY <1>1, <1>3, <1>4, <1>5, <1>6, <1>7 DEF PoolInv

(* What the library gives back when a transaction is cut off. *)
LEMMA RolledBackKeeps ==
  ASSUME PoolInv, NEW r \in {-1, 0}, RolledBack(r)
  PROVE  PoolInv'
<1> DEFINE back == Recovered(pm)
<1>1. /\ pm' = Rollback(pm) /\ pc' = "idle" /\ ret' = r
      /\ UNCHANGED <<got, capacity, durable>>
  BY DEF RolledBack, Fixed
<1>2. /\ IsTx(pm') /\ m' = back /\ pm'.undo = <<>> /\ pm'.fresh = {} /\ pm'.doomed = {}
      /\ Recovered(pm') = back
  BY <1>1, NoTxFields, RollbackRecovered DEF m, Rollback
<1>3. /\ DOMAIN back = DOMAIN durable
      /\ \A l \in DOMAIN durable : IsLink(l) \/ back[l] = durable[l]
  BY DEF PoolInv, GivesBack
<1>4. ASSUME NEW l \in DOMAIN back, IsLink(l) PROVE l \in DOMAIN m /\ back[l] = m[l]
  <2>1. l \notin DOMAIN pm.undo
    BY <1>4 DEF PoolInv, TxOK, MapLoc, IsLink
  <2> QED
    BY <2>1 DEF Recovered, m
<1> HIDE DEF back
<1>5. Here(back) = Here(durable)
  BY <1>3 DEF Here
<1>6. \A l \in DOMAIN back : ValueOK(l, back[l])
  BY <1>3, <1>4 DEF PoolInv, PoolOK
<1>7. PoolOK(back)
  BY <1>3, <1>5, <1>6 DEF PoolInv, PoolOK, Shape
<1>8. \A o \in Here(durable) : back[<<o, "_key", 0>>] = durable[<<o, "_key", 0>>]
  <2>1. \A o \in Here(durable) : <<o, "_key", 0>> \in DOMAIN durable
    BY DEF Here
  <2> QED
    BY <1>3, <2>1 DEF IsLink
<1>9. \A k \in Keys : back[MapLoc(k)] = durable[MapLoc(k)]
  <2>1. \A k \in Keys : MapLoc(k) \in DOMAIN durable
    BY ShapeHas DEF PoolInv, PoolOK
  <2>2. \A k : MapLoc(k)[2] = "oid"
    BY DEF MapLoc
  <2>3. \A k : ~IsLink(MapLoc(k))
    BY <2>2 DEF IsLink
  <2> QED
    BY <1>3, <2>1, <2>3
<1>10. MapOK(back)
  BY <1>5, <1>8, <1>9, MapSame DEF PoolInv
<1>11. PoolOK(m)' /\ MapOK(m)' /\ PoolOK(durable)' /\ MapOK(durable)'
  BY ZenonT(40), <1>1, <1>2, <1>7, <1>10 DEF PoolInv, PoolOK, Shape, Here, MapOK
<1>12. GivesBack'
  BY <1>1, <1>2, <1>3 DEF GivesBack
<1>13. \A k \in Keys : InMap(k)' = durable[MapLoc(k)]
  BY <1>2, <1>9 DEF InMap, MapLoc, m
<1>14. MapLoses'
  BY <1>1, <1>13 DEF MapLoses, PoolInv
<1>15. TxOK'
  <2>1. DOMAIN <<>> = {}
    OBVIOUS
  <2> QED
    BY <1>1, <1>2, <2>1 DEF TxOK
<1>16. FrameOK'
  BY <1>1 DEF FrameOK, Places
<1> QED
  BY <1>1, <1>11, <1>12, <1>14, <1>15, <1>16 DEF PoolInv

(* A call that comes to its end, with the transaction p. *)
LEMMA CommittedKeeps ==
  ASSUME PoolInv, NEW p, NEW gotten \in SUBSET Keys, Committed(p, gotten),
         PoolOK(p.mem), Here(m) \subseteq Here(p.mem), p.doomed = pm.doomed,
         \A o \in Here(m) : p.mem[<<o, "_key", 0>>] = m[<<o, "_key", 0>>],
         \A k \in Keys : p.mem[MapLoc(k)] \in Entries => p.mem[MapLoc(k)] = InMap(k),
         \A k \in gotten : p.mem[MapLoc(k)] \notin Entries
  PROVE  PoolInv'
<1> DEFINE c == Commit(p).mem
<1>1. /\ pm' = Commit(p) /\ durable' = c /\ pc' = "idle" /\ ret' = 0
      /\ got' = got \cup gotten
  BY DEF Committed
<1>2. /\ c = Without(p.mem, p.doomed) /\ IsTx(pm') /\ m' = c
      /\ pm'.undo = <<>> /\ pm'.fresh = {} /\ pm'.doomed = {} /\ Recovered(pm') = c
  BY <1>1, NoTxFields, CommitRecovered DEF m, Commit
<1>3. p.doomed \in SUBSET Entries
  BY DEF PoolInv, TxOK
<1> HIDE DEF c
<1>4. /\ PoolOK(c) /\ Here(c) = Here(p.mem) \ p.doomed
      /\ \A x \in DOMAIN c : x \in DOMAIN p.mem /\ c[x] = p.mem[x]
  BY <1>2, <1>3, WithoutPool
<1>5. \A k \in Keys : InMap(k) = m[MapLoc(k)] /\ InMap(k)' = c[MapLoc(k)]
                      /\ c[MapLoc(k)] = p.mem[MapLoc(k)]
  <2>1. \A k \in Keys : MapLoc(k) \in DOMAIN c
    BY <1>4, ShapeHas DEF PoolOK
  <2>2. \A k \in Keys : InMap(k) = m[MapLoc(k)] /\ InMap(k)' = c[MapLoc(k)]
    BY <1>2 DEF InMap, MapLoc, m
  <2> QED
    BY <1>4, <2>1, <2>2
<1>6. MapOK(p.mem)
  BY <1>5, MapSame DEF PoolInv
<1>7. MapOK(c)
  <2> SUFFICES ASSUME NEW k \in Keys, c[MapLoc(k)] \in Entries
               PROVE  c[MapLoc(k)] \in Here(c) /\ c[<<c[MapLoc(k)], "_key", 0>>] = k
    BY DEF MapOK
  <2> DEFINE e == c[MapLoc(k)]
  <2>1. e = p.mem[MapLoc(k)] /\ e \in Here(p.mem) /\ p.mem[<<e, "_key", 0>>] = k
    BY <1>5, <1>6 DEF MapOK
  <2>2. e \notin p.doomed
    BY <1>5, <2>1 DEF PoolInv, TxOK
  <2>3. e \in Here(c)
    BY <1>4, <2>1, <2>2
  <2>4. <<e, "_key", 0>> \in DOMAIN c
    BY <2>3 DEF Here
  <2> QED
    BY <1>4, <2>1, <2>3, <2>4
<1>8. PoolOK(m)' /\ MapOK(m)' /\ PoolOK(durable)' /\ MapOK(durable)'
  <2>1. m' = c /\ durable' = c
    BY <1>1, <1>2
  <2>2. PoolOK(m)' /\ PoolOK(durable)'
    BY <2>1, <1>4 DEF PoolOK, Shape, Here
  <2>3. MapOK(m)' /\ MapOK(durable)'
    BY <2>1, <1>7 DEF Here, MapOK
  <2> QED
    BY <2>2, <2>3
<1>9. GivesBack'
  BY <1>1, <1>2 DEF GivesBack
<1>10. MapLoses'
  <2>1. \A k \in Keys : durable'[MapLoc(k)] = InMap(k)'
    BY <1>1, <1>5
  <2>2. ASSUME NEW k \in got PROVE InMap(k)' \notin Entries
    BY <1>5, <2>2 DEF PoolInv, MapLoses
  <2>3. got \subseteq Keys
    BY DEF PoolInv
  <2> QED
    BY <1>1, <1>5, <2>1, <2>2, <2>3 DEF MapLoses
<1>11. TxOK'
  <2>1. DOMAIN <<>> = {}
    OBVIOUS
  <2> QED
    BY <1>1, <1>2, <2>1 DEF TxOK
<1>12. FrameOK'
  BY <1>1 DEF FrameOK, Places
<1> QED
  BY <1>1, <1>8, <1>9, <1>10, <1>11, <1>12 DEF PoolInv

(* Undefined behaviour is the end of the story. *)
LEMMA UndefinedKeeps ==
  ASSUME PoolInv, Undefined
  PROVE  PoolInv'
<1>1. pc' = "undefined" /\ UNCHANGED <<pm, f, ret, torn, got, capacity, durable>>
  BY DEF Undefined, Fixed
<1>2. FrameOK'
  BY <1>1 DEF FrameOK, Places
<1>3. TxOK'
  BY <1>1 DEF PoolInv, TxOK, IsTx, InMap, m
<1>4. PoolOK(m)' /\ MapOK(m)' /\ PoolOK(durable)' /\ MapOK(durable)'
  BY <1>1 DEF PoolInv, PoolOK, Shape, Here, MapOK, m
<1> QED
  BY <1>1, <1>2, <1>3, <1>4 DEF PoolInv, GivesBack, MapLoses, InMap, m
-----------------------------------------------------------------------------
(***************************************************************************)
(* The steps of the calls.                                                 *)
(***************************************************************************)

(* An object is found by its oid. *)
LEMMA LiveIsHere ==
  ASSUME PoolInv
  PROVE  /\ \A o \in Sentinels \cup Entries \cup {Null} : Live(o) <=> o \in Here(m)
         /\ ~Live(Null) /\ Sentinels \subseteq Here(m)
         /\ Here(m) \subseteq Sentinels \cup Entries
<1>1. /\ \A o \in Sentinels \cup Entries \cup {Null} : o \in Objects(m) <=> o \in Here(m)
      /\ Here(m) \in SUBSET (Sentinels \cup Entries)
  BY ShapeHas DEF PoolInv, PoolOK
<1>2. Null \notin Here(m)
  BY <1>1, CacheAssumption DEF Sentinels
<1> QED
  BY <1>1, <1>2 DEF Live, PoolInv, PoolOK, Shape

(* What is known of the pool, in the names of the code. *)
LEMMA PoolGets ==
  ASSUME PoolInv
  PROVE  /\ \A o \in Here(m) : /\ Get(o, "_key") \in Keys /\ Get(o, "_value") \in Values
                               /\ Get(o, "next") \in {Null, "tail"} \cup Entries
                               /\ Get(o, "prev") \in {Null, "head"} \cup Entries
         /\ Get("head", "prev") = Null
         /\ \A k \in Keys : InMap(k) = m[MapLoc(k)]
                            /\ InMap(k) \in Entries \cup {Absent, ZeroOid, Stray}
         /\ \A k \in Keys : InMap(k) \in Entries =>
              InMap(k) \in Here(m) /\ Get(InMap(k), "_key") = k
  BY PoolValues DEF PoolInv, MapOK, Get, Loc, InMap, MapLoc

(* hm_tx_remove within a call, or hm_tx_insert of what is no entry. *)
LEMMA SetPool ==
  ASSUME PoolInv, NEW k \in Keys, NEW v \in {Absent, ZeroOid, Stray},
         pc \in {"idle", "evict", "insert"}
  PROVE  LET q == MapSet(pm, k, v)
         IN  /\ IsTx(q) /\ PoolOK(q.mem) /\ Here(q.mem) = Here(m)
             /\ q.fresh = {} /\ q.doomed = pm.doomed
             /\ DOMAIN q.undo \subseteq {MapLoc(j) : j \in Keys}
             /\ Recovered(q) = Recovered(pm)
             /\ \A o \in Here(m), x \in Fields : q.mem[<<o, x, 0>>] = m[<<o, x, 0>>]
             /\ \A j \in Keys : q.mem[MapLoc(j)] \in Entries =>
                  j # k /\ q.mem[MapLoc(j)] = InMap(j) /\ InMap(j) \notin q.doomed
<1> DEFINE q == MapSet(pm, k, v)
<1>1. /\ IsTx(pm) /\ PoolOK(pm.mem) /\ pm.fresh = {} /\ pm.mem = m
  BY DEF PoolInv, TxOK, Adding, m
<1>2. /\ IsTx(q) /\ PoolOK(q.mem) /\ Here(q.mem) = Here(pm.mem)
      /\ q.fresh = pm.fresh /\ q.doomed = pm.doomed
      /\ DOMAIN q.undo \subseteq DOMAIN pm.undo \cup {MapLoc(k)}
      /\ Recovered(q) = Recovered(pm)
      /\ \A x \in DOMAIN pm.mem : x # MapLoc(k) => q.mem[x] = pm.mem[x]
      /\ q.mem[MapLoc(k)] = v
  BY <1>1, MapSetPool
<1> HIDE DEF q
<1>4. \A o \in Here(m), x \in Fields : q.mem[<<o, x, 0>>] = m[<<o, x, 0>>]
  <2>1. ASSUME NEW o \in Here(m), NEW x \in Fields
        PROVE  <<o, x, 0>> \in DOMAIN m /\ <<o, x, 0>> # MapLoc(k)
    <3>1. <<o, x, 0>> \in DOMAIN m
      BY ShapeHas DEF PoolInv, PoolOK
    <3> QED
      BY <3>1 DEF MapLoc, Fields
  <2> QED
    BY <1>1, <1>2, <2>1
<1>5. \A j \in Keys : q.mem[MapLoc(j)] \in Entries => j # k /\ q.mem[MapLoc(j)] = InMap(j)
  <2>1. v \notin Entries
    BY CacheAssumption
  <2>2. \A j \in Keys : MapLoc(j) \in DOMAIN m /\ InMap(j) = m[MapLoc(j)]
    BY ShapeHas, PoolGets DEF PoolInv, PoolOK
  <2>3. \A j \in Keys : j # k => MapLoc(j) # MapLoc(k)
    BY DEF MapLoc
  <2> QED
    BY <1>1, <1>2, <2>1, <2>2, <2>3
<1>6. /\ DOMAIN q.undo \subseteq {MapLoc(j) : j \in Keys}
      /\ \A j \in Keys : q.mem[MapLoc(j)] \in Entries =>
           j # k /\ q.mem[MapLoc(j)] = InMap(j) /\ InMap(j) \notin q.doomed
  BY <1>1, <1>2, <1>5 DEF PoolInv, TxOK
<1> QED
  BY <1>1, <1>2, <1>4, <1>6 DEF q

(* And what the call goes on with. *)
LEMMA RemoveKeeps ==
  ASSUME PoolInv, NEW k \in Keys, NEW frame, pc \in {"idle", "evict"},
         Go(MapRemove(pm, k), "unlink", frame),
         frame.key \in Keys, frame.op \in {"get", "set", "evict"},
         frame.op # "get" =>
           /\ frame = [op |-> frame.op, key |-> frame.key, value |-> frame.value,
                       entry |-> frame.entry]
           /\ frame.value \in Values,
         frame.entry \in Here(m) \ {"tail"}, Get(frame.entry, "_key") = k
  PROVE  PoolInv'
<1> DEFINE q == MapSet(pm, k, Absent)
<1>1. Go(q, "unlink", frame)
  BY DEF MapRemove
<1>2. /\ IsTx(q) /\ PoolOK(q.mem) /\ Here(q.mem) = Here(m)
      /\ q.fresh = {} /\ q.doomed = pm.doomed
      /\ DOMAIN q.undo \subseteq {MapLoc(j) : j \in Keys}
      /\ Recovered(q) = Recovered(pm)
      /\ \A o \in Here(m), x \in Fields : q.mem[<<o, x, 0>>] = m[<<o, x, 0>>]
      /\ \A j \in Keys : q.mem[MapLoc(j)] \in Entries =>
           j # k /\ q.mem[MapLoc(j)] = InMap(j) /\ InMap(j) \notin q.doomed
  <2>1. Absent \in {Absent, ZeroOid, Stray} /\ pc \in {"idle", "evict", "insert"}
    OBVIOUS
  <2> QED
    BY <2>1, SetPool
<1> HIDE DEF q
<1>3. q.doomed \subseteq Entries /\ q.fresh \subseteq Entries
  BY <1>2 DEF PoolInv, TxOK
<1>4. \A o \in Here(m) : q.mem[<<o, "_key", 0>>] = m[<<o, "_key", 0>>]
  BY <1>2 DEF Fields
<1>7. pm' = q /\ pc' = "unlink" /\ f' = frame
  BY <1>1 DEF Go
<1>8. \A j \in Keys : InMap(j)' \in Entries => InMap(j)' # frame.entry
  <2> SUFFICES ASSUME NEW j \in Keys, InMap(j)' \in Entries, InMap(j)' = frame.entry
               PROVE  FALSE
    OBVIOUS
  <2>1. InMap(j)' = q.mem[MapLoc(j)]
    BY <1>7 DEF InMap, MapLoc, m
  <2>2. j # k /\ InMap(j) = frame.entry /\ InMap(j) \in Entries
    BY <1>2, <2>1
  <2>3. Get(InMap(j), "_key") = j
    BY <2>2, PoolGets
  <2> QED
    BY <2>2, <2>3
<1>9. FrameOK'
  <2>1. Here(m)' = Here(m)
    BY <1>2, <1>7 DEF m, Here
  <2> QED
    BY <1>7, <1>8, <2>1 DEF FrameOK, Places
<1>10. "unlink" # "idle"
  OBVIOUS
<1> QED
  BY <1>1, <1>2, <1>3, <1>4, <1>9, <1>10, GoKeeps

(* cache_get and cache_set. *)
LEMMA CallKeeps ==
  ASSUME PoolInv, NEW k \in Keys,
         cache_get(k) \/ \E v \in Values : cache_set(k, v)
  PROVE  PoolInv'
<1>1. "tail" \notin Entries
  BY CacheAssumption
<1>2. InMap(k) \in Entries => InMap(k) \in Here(m) \ {"tail"} /\ Get(InMap(k), "_key") = k
  BY <1>1, PoolGets
<1>3. CASE cache_get(k)
  <2>1. pc = "idle"
    BY <1>3 DEF cache_get
  <2>2. CASE RolledBack(-1)
    BY <2>2, RolledBackKeeps
  <2>3. CASE Undefined
    BY <2>3, UndefinedKeeps
  <2>4. CASE /\ InMap(k) \in Entries
             /\ Go(MapRemove(pm, k), "unlink", [op |-> "get", key |-> k, entry |-> InMap(k)])
    <3> DEFINE frame == [op |-> "get", key |-> k, entry |-> InMap(k)]
    <3>1. frame.key \in Keys /\ frame.op = "get" /\ frame.entry = InMap(k)
      OBVIOUS
    <3>2. Go(MapRemove(pm, k), "unlink", frame)
      BY <2>4
    <3> HIDE DEF frame
    <3> QED
      BY <1>2, <2>1, <2>4, <3>1, <3>2, RemoveKeeps
  <2> QED
    BY <1>3, <2>2, <2>3, <2>4 DEF cache_get
<1>4. ASSUME NEW v \in Values, cache_set(k, v) PROVE PoolInv'
  <2> DEFINE frame(e) == [op |-> "set", key |-> k, value |-> v, entry |-> e]
  <2>1. pc = "idle"
    BY <1>4 DEF cache_set
  <2>2. CASE Undefined
    BY <2>2, UndefinedKeeps
  <2>3. CASE Go(pm, "evict", frame(Null))
    <3>1. /\ frame(Null) = [op |-> frame(Null).op, key |-> frame(Null).key,
                            value |-> frame(Null).value, entry |-> frame(Null).entry]
          /\ frame(Null).key \in Keys /\ frame(Null).value \in Values
      OBVIOUS
    <3>2. pc' = "evict" /\ f' = frame(Null)
      BY <2>3 DEF Go
    <3> HIDE DEF frame
    <3>3. FrameOK'
      BY <3>1, <3>2 DEF FrameOK, Places
    <3>4. \A j \in Keys : InMap(j) = pm.mem[MapLoc(j)]
      BY PoolGets DEF m
    <3>5. /\ IsTx(pm) /\ PoolOK(pm.mem) /\ Here(m) \subseteq Here(pm.mem) /\ pm.mem = m
          /\ DOMAIN pm.undo \subseteq {MapLoc(j) : j \in Keys}
          /\ pm.fresh = {} /\ pm.fresh \subseteq Entries /\ pm.doomed \subseteq Entries
          /\ \A j \in Keys : pm.mem[MapLoc(j)] \in Entries =>
               pm.mem[MapLoc(j)] = InMap(j) /\ InMap(j) \notin pm.doomed
      BY <2>1, <3>4 DEF PoolInv, TxOK, Adding, m
    <3>6. "evict" # "idle"
      OBVIOUS
    <3> QED
      BY <2>3, <3>3, <3>5, <3>6, GoKeeps
  <2>4. CASE InMap(k) \in Entries /\ Go(MapRemove(pm, k), "unlink", frame(InMap(k)))
    <3> DEFINE fr == frame(InMap(k))
    <3>1. /\ fr.key \in Keys /\ fr.op = "set" /\ fr.entry = InMap(k) /\ fr.value \in Values
          /\ fr = [op |-> fr.op, key |-> fr.key, value |-> fr.value, entry |-> fr.entry]
      OBVIOUS
    <3>2. Go(MapRemove(pm, k), "unlink", fr)
      BY <2>4
    <3> HIDE DEF fr
    <3> QED
      BY <1>2, <2>1, <2>4, <3>1, <3>2, RemoveKeeps
  <2> QED
    BY <1>4, <2>2, <2>3, <2>4 DEF cache_set
<1> QED
  BY <1>3, <1>4

(* A frame with another entry. *)
LEMMA FrameExcept ==
  ASSUME NEW g, NEW x, NEW y,
         g = [op |-> g.op, key |-> g.key, value |-> g.value, entry |-> g.entry]
  PROVE  /\ [g EXCEPT !.entry = x] =
              [op |-> g.op, key |-> g.key, value |-> g.value, entry |-> x]
         /\ [g EXCEPT !.entry = x, !.op = y] =
              [op |-> y, key |-> g.key, value |-> g.value, entry |-> x]
<1> DEFINE D == {"op", "key", "value", "entry"}
           h1 == [g EXCEPT !.entry = x]
           h2 == [g EXCEPT !.entry = x, !.op = y]
<1>1. DOMAIN g = D
  OBVIOUS
<1>2. /\ h1 = [i \in D |-> IF i = "entry" THEN x ELSE g[i]]
      /\ h2 = [i \in D |-> IF i = "entry" THEN x ELSE IF i = "op" THEN y ELSE g[i]]
  BY <1>1
<1> DEFINE a == g.op
           b == g.key
           c == g.value
<1>3. /\ h1.op = a /\ h1.key = b /\ h1.value = c /\ h1.entry = x
      /\ h2.op = y /\ h2.key = b /\ h2.value = c /\ h2.entry = x
  BY ONLY <1>1, <1>2
<1> HIDE DEF h1, h2, a, b, c
<1>4. h1 = [i \in D |-> h1[i]] /\ h2 = [i \in D |-> h2[i]]
  BY <1>2
<1>5. /\ h1 = [op |-> h1.op, key |-> h1.key, value |-> h1.value, entry |-> h1.entry]
      /\ h2 = [op |-> h2.op, key |-> h2.key, value |-> h2.value, entry |-> h2.entry]
  BY <1>4
<1> QED
  BY <1>3, <1>5 DEF h1, h2, a, b, c

(* At capacity. *)
LEMMA EvictKeeps ==
  ASSUME PoolInv, Evict
  PROVE  PoolInv'
<1> DEFINE last == Get("tail", "prev")
<1>1. /\ pc = "evict" /\ f.key \in Keys /\ f.value \in Values
      /\ f = [op |-> f.op, key |-> f.key, value |-> f.value, entry |-> f.entry]
  BY DEF Evict, PoolInv, FrameOK
<1>2. CASE Undefined
  BY <1>2, UndefinedKeeps
<1>3. CASE Go(pm, "new", f)
  <2>1. pc' = "new" /\ f' = f
    BY <1>3 DEF Go
  <2>2. FrameOK'
    BY <1>1, <2>1 DEF FrameOK, Places
  <2>3. \A j \in Keys : InMap(j) = pm.mem[MapLoc(j)]
    BY PoolGets DEF m
  <2>4. /\ IsTx(pm) /\ PoolOK(pm.mem) /\ Here(m) \subseteq Here(pm.mem) /\ pm.mem = m
        /\ DOMAIN pm.undo \subseteq {MapLoc(j) : j \in Keys}
        /\ pm.fresh = {} /\ pm.fresh \subseteq Entries /\ pm.doomed \subseteq Entries
        /\ \A j \in Keys : pm.mem[MapLoc(j)] \in Entries =>
             pm.mem[MapLoc(j)] = InMap(j) /\ InMap(j) \notin pm.doomed
    BY <1>1, <2>3 DEF PoolInv, TxOK, Adding, m
  <2>5. "new" # "idle"
    OBVIOUS
  <2> QED
    BY <1>3, <2>2, <2>4, <2>5, GoKeeps
<1>4. CASE Live(last) /\ Go(MapRemove(pm, Get(last, "_key")), "unlink",
                            [f EXCEPT !.entry = last, !.op = "evict"])
  <2> DEFINE fr == [op |-> "evict", key |-> f.key, value |-> f.value, entry |-> last]
  <2>1. [f EXCEPT !.entry = last, !.op = "evict"] = fr
    BY ZenonT(40), <1>1, FrameExcept
  <2>2. last \in Here(m) \ {"tail"} /\ Get(last, "_key") \in Keys
    <3>1. "tail" \in Here(m)
      BY LiveIsHere DEF Sentinels
    <3>2. last \in {Null, "head"} \cup Entries
      BY <3>1, PoolGets
    <3>3. last \in Here(m) /\ last # "tail"
      BY <1>4, <3>2, LiveIsHere, CacheAssumption DEF Sentinels
    <3> QED
      BY <3>3, PoolGets
  <2>3. /\ fr.key \in Keys /\ fr.op = "evict" /\ fr.entry = last /\ fr.value \in Values
        /\ fr = [op |-> fr.op, key |-> fr.key, value |-> fr.value, entry |-> fr.entry]
    <3>1. f.key \in Keys /\ f.value \in Values
      BY <1>1
    <3> QED
      BY ONLY <3>1
  <2> DEFINE k == Get(last, "_key")
  <2>4. Go(MapRemove(pm, k), "unlink", fr) /\ k \in Keys /\ Get(fr.entry, "_key") = k
    BY <1>4, <2>1, <2>2, <2>3
  <2> HIDE DEF fr, k, last
  <2> QED
    BY <1>1, <2>2, <2>3, <2>4, RemoveKeeps
<1> QED
  BY <1>2, <1>3, <1>4 DEF Evict

(* The transaction q is p with other values in some links, those of L. *)
Linked(p, q, L) ==
  /\ IsTx(q) /\ PoolOK(q.mem) /\ Here(q.mem) = Here(p.mem) /\ DOMAIN q.mem = DOMAIN p.mem
  /\ q.undo = p.undo /\ q.fresh = p.fresh /\ q.doomed = p.doomed
  /\ \A x \in DOMAIN p.mem : x \notin L => q.mem[x] = p.mem[x]
  /\ DOMAIN Recovered(q) = DOMAIN Recovered(p)
  /\ \A x \in DOMAIN Recovered(p) : IsLink(x) \/ Recovered(q)[x] = Recovered(p)[x]

(* The store of a link that no snapshot was taken of. *)
LEMMA LinkStore ==
  ASSUME NEW p, IsTx(p), PoolOK(p.mem), NEW l, IsLink(l), NEW v, ValueOK(l, v)
  PROVE  /\ Linked(p, Store(p, l, v), {l})
         /\ l \in DOMAIN p.mem => Store(p, l, v).mem[l] = v
<1> DEFINE q == Store(p, l, v)
<1>1. DOMAIN q.mem = DOMAIN p.mem
  BY StoreDomain
<1>2. /\ IsTx(q) /\ PoolOK(q.mem) /\ Here(q.mem) = Here(p.mem)
      /\ q.undo = p.undo /\ q.fresh = p.fresh /\ q.doomed = p.doomed
      /\ \A x \in DOMAIN p.mem : x # l => q.mem[x] = p.mem[x]
      /\ l \in DOMAIN p.mem => q.mem[l] = v
  BY StorePool
<1>3. /\ DOMAIN Recovered(q) = DOMAIN Recovered(p)
      /\ \A x \in DOMAIN Recovered(p) : x # l => Recovered(q)[x] = Recovered(p)[x]
  BY StoreElsewhere
<1> HIDE DEF q
<1>4. Linked(p, q, {l})
  BY <1>1, <1>2, <1>3 DEF Linked
<1> QED
  BY <1>2, <1>4 DEF q

(* And another one. *)
LEMMA LinkedTwice ==
  ASSUME NEW p, NEW q, NEW r, NEW L, NEW M, Linked(p, q, L), Linked(q, r, M)
  PROVE  Linked(p, r, L \cup M)
<1>1. /\ IsTx(r) /\ PoolOK(r.mem) /\ Here(r.mem) = Here(p.mem) /\ DOMAIN r.mem = DOMAIN p.mem
      /\ r.undo = p.undo /\ r.fresh = p.fresh /\ r.doomed = p.doomed
  BY DEF Linked
<1>2. \A x \in DOMAIN p.mem : x \notin L \cup M => r.mem[x] = p.mem[x]
  BY DEF Linked
<1>3. /\ DOMAIN Recovered(r) = DOMAIN Recovered(p)
      /\ \A x \in DOMAIN Recovered(p) : IsLink(x) \/ Recovered(r)[x] = Recovered(p)[x]
  BY DEF Linked
<1> QED
  BY <1>1, <1>2, <1>3 DEF Linked

(* It leaves the keys and the map. *)
LEMMA LinkedSame ==
  ASSUME PoolInv, NEW q, NEW L, Linked(pm, q, L), \A l \in L : IsLink(l)
  PROVE  /\ \A o \in Here(m) : q.mem[<<o, "_key", 0>>] = m[<<o, "_key", 0>>]
         /\ \A k \in Keys : q.mem[MapLoc(k)] = InMap(k)
         /\ \A o \in Here(m) :
              /\ <<o, "next", 0>> \notin L => q.mem[<<o, "next", 0>>] = m[<<o, "next", 0>>]
              /\ <<o, "prev", 0>> \notin L => q.mem[<<o, "prev", 0>>] = m[<<o, "prev", 0>>]
<1>1. pm.mem = m /\ PoolOK(m)
  BY DEF m, PoolInv
<1>2. /\ \A o \in Here(m), x \in Fields : <<o, x, 0>> \in DOMAIN m
      /\ \A k \in Keys : MapLoc(k) \in DOMAIN m /\ InMap(k) = m[MapLoc(k)]
  BY <1>1, ShapeHas, PoolGets DEF PoolOK
<1>3. \A o, k : <<o, "_key", 0>>[2] = "_key" /\ MapLoc(k)[2] = "oid"
  BY DEF MapLoc
<1>4. \A o, k : <<o, "_key", 0>> \notin L /\ MapLoc(k) \notin L
  BY <1>3 DEF IsLink
<1>5. "_key" \in Fields /\ "next" \in Fields /\ "prev" \in Fields
  BY DEF Fields
<1>6. \A x \in DOMAIN m : x \notin L => q.mem[x] = m[x]
  BY <1>1 DEF Linked
<1> QED
  BY <1>2, <1>4, <1>5, <1>6

LEMMA LinkedKeeps ==
  ASSUME PoolInv, NEW q, NEW L, Linked(pm, q, L), \A l \in L : IsLink(l),
         NEW place, Go(q, place, f), FrameOK', place # "idle",
         pc \notin {"undefined"} \cup Adding \/ place \in Adding
  PROVE  PoolInv'
<1>1. pm.mem = m
  BY DEF m
<1>2. /\ \A o \in Here(m) : q.mem[<<o, "_key", 0>>] = m[<<o, "_key", 0>>]
      /\ \A k \in Keys : q.mem[MapLoc(k)] = InMap(k)
  BY LinkedSame
<1>3. /\ IsTx(q) /\ PoolOK(q.mem) /\ Here(m) \subseteq Here(q.mem)
      /\ q.undo = pm.undo /\ q.fresh = pm.fresh /\ q.doomed = pm.doomed
      /\ DOMAIN Recovered(q) = DOMAIN Recovered(pm)
      /\ \A l \in DOMAIN Recovered(pm) : IsLink(l) \/ Recovered(q)[l] = Recovered(pm)[l]
  BY <1>1 DEF Linked
<1>4. /\ DOMAIN q.undo \subseteq {MapLoc(k) : k \in Keys}
      /\ q.fresh \subseteq Entries /\ q.doomed \subseteq Entries
      /\ place \notin Adding => q.fresh = {}
      /\ \A k \in Keys : q.mem[MapLoc(k)] \in Entries =>
           q.mem[MapLoc(k)] = InMap(k) /\ InMap(k) \notin q.doomed
  BY <1>2, <1>3 DEF PoolInv, TxOK
<1> QED
  BY <1>2, <1>3, <1>4, GoKeeps

(* What the running call knows survives, when it is where it knew as much. *)
LEMMA LinkedFrame ==
  ASSUME PoolInv, NEW q, NEW L, Linked(pm, q, L), \A l \in L : IsLink(l),
         NEW place, Go(q, place, f)
  PROVE  /\ Here(m)' = Here(m) /\ \A k \in Keys : InMap(k)' = InMap(k)
         /\ pc' = place /\ f' = f /\ pm' = q /\ m' = q.mem
<1>1. pm' = q /\ pc' = place /\ f' = f /\ m' = q.mem /\ pm.mem = m
  BY DEF Go, m
<1>2. \A k \in Keys : q.mem[MapLoc(k)] = InMap(k)
  BY LinkedSame
<1> QED
  BY <1>1, <1>2 DEF Linked, Here, InMap, MapLoc

(* The first plain store of cache_delete. *)
LEMMA LinkedBack ==
  ASSUME PoolInv, NEW e \in Here(m), Live(Get(e, "next"))
  PROVE  LET n == Get(e, "next")
             v == Get(e, "prev")
             l == Loc(n, "prev")
         IN  /\ n \in Here(m) /\ n \in {"tail"} \cup Entries
             /\ Linked(pm, LinkBack(e), {l}) /\ IsLink(l) /\ LinkBack(e).mem[l] = v
<1> DEFINE n == Get(e, "next")
           v == Get(e, "prev")
           l == Loc(n, "prev")
<1>1. n \in {Null, "tail"} \cup Entries /\ v \in {Null, "head"} \cup Entries
  BY PoolGets
<1>2. n \in Here(m) /\ n \in {"tail"} \cup Entries /\ n # "head"
  BY <1>1, LiveIsHere, CacheAssumption DEF Sentinels
<1> HIDE DEF n, v
<1>3. ValueOK(l, v) /\ IsLink(l)
  BY <1>1, <1>2 DEF ValueOK, Loc, IsLink
<1>4. l \in DOMAIN m
  BY <1>2, ShapeHas DEF PoolInv, PoolOK, Loc, Fields
<1>5. IsTx(pm) /\ PoolOK(pm.mem) /\ pm.mem = m
  BY DEF PoolInv, TxOK, m
<1> HIDE DEF l
<1>6. Linked(pm, Store(pm, l, v), {l}) /\ Store(pm, l, v).mem[l] = v
  BY <1>3, <1>4, <1>5, LinkStore
<1> QED
  BY <1>2, <1>3, <1>6 DEF LinkBack, l, n, v

(* The second one. *)
LEMMA LinkedForth ==
  ASSUME PoolInv, NEW e \in Here(m), Live(Get(e, "prev"))
  PROVE  LET n == Get(e, "next")
             v == Get(e, "prev")
             l == Loc(v, "next")
         IN  /\ e # "head" /\ v \in Here(m)
             /\ n \in {Null, "tail"} \cup Entries
             /\ Linked(pm, LinkForth(e), {l}) /\ IsLink(l) /\ LinkForth(e).mem[l] = n
<1> DEFINE n == Get(e, "next")
           v == Get(e, "prev")
           l == Loc(v, "next")
<1>1. n \in {Null, "tail"} \cup Entries /\ v \in {Null, "head"} \cup Entries
  BY PoolGets
<1>2. v \in Here(m) /\ e # "head"
  BY <1>1, PoolGets, LiveIsHere DEF Sentinels
<1> HIDE DEF n, v
<1>3. ValueOK(l, n) /\ IsLink(l)
  BY <1>1 DEF ValueOK, Loc, IsLink
<1>4. l \in DOMAIN m
  BY <1>2, ShapeHas DEF PoolInv, PoolOK, Loc, Fields
<1>5. IsTx(pm) /\ PoolOK(pm.mem) /\ pm.mem = m
  BY DEF PoolInv, TxOK, m
<1> HIDE DEF l
<1>6. Linked(pm, Store(pm, l, n), {l}) /\ Store(pm, l, n).mem[l] = n
  BY <1>3, <1>4, <1>5, LinkStore
<1> QED
  BY <1>1, <1>2, <1>3, <1>6 DEF LinkForth, l, n, v

LEMMA UnlinkKeeps ==
  ASSUME PoolInv, Unlink
  PROVE  PoolInv'
<1> DEFINE e == f.entry
           q == LinkBack(e)
           L == {Loc(Get(e, "next"), "prev")}
<1>1. pc = "unlink" /\ e \in Here(m) /\ FrameOK
  BY DEF Unlink, PoolInv, FrameOK
<1>2. CASE Undefined
  BY <1>2, UndefinedKeeps
<1>3. CASE Live(Get(e, "next")) /\ Go(q, "relink", f)
  <2>1. Linked(pm, q, L) /\ \A l \in L : IsLink(l)
    BY <1>1, <1>3, LinkedBack
  <2> DEFINE place == "relink"
  <2>2. Go(q, place, f) /\ place # "idle" /\ pc \notin {"undefined"} \cup Adding
    BY <1>1, <1>3 DEF Adding
  <2>p. place = "relink"
    OBVIOUS
  <2> HIDE DEF q, L, place
  <2>3. /\ Here(m)' = Here(m) /\ \A k \in Keys : InMap(k)' = InMap(k)
        /\ pc' = place /\ f' = f
    BY <2>1, <2>2, LinkedFrame
  <2>4. FrameOK'
    BY <1>1, <2>3, <2>p DEF FrameOK, Places
  <2> QED
    BY <2>1, <2>2, <2>4, LinkedKeeps
<1> QED
  BY <1>2, <1>3 DEF Unlink

(* After the second store the entry has nothing left but to be freed. *)
LEMMA RelinkKeeps ==
  ASSUME PoolInv, Relink
  PROVE  PoolInv'
<1> DEFINE e == f.entry
           q == LinkForth(e)
           L == {Loc(Get(e, "prev"), "next")}
<1>1. pc = "relink" /\ e \in Here(m) \ {"tail"} /\ FrameOK
  BY DEF Relink, PoolInv, FrameOK
<1>2. CASE Undefined
  BY <1>2, UndefinedKeeps
<1>3. CASE Live(Get(e, "prev")) /\ Go(q, "free", f)
  <2>1. Linked(pm, q, L) /\ (\A l \in L : IsLink(l)) /\ e # "head"
    BY <1>1, <1>3, LinkedForth
  <2>2. e \in Here(m) \cap Entries
    BY <1>1, <2>1, LiveIsHere DEF Sentinels
  <2> DEFINE place == "free"
  <2>3. Go(q, place, f) /\ place # "idle" /\ pc \notin {"undefined"} \cup Adding
    BY <1>1, <1>3 DEF Adding
  <2>p. place = "free"
    OBVIOUS
  <2> HIDE DEF q, L, place
  <2>4. /\ Here(m)' = Here(m) /\ \A k \in Keys : InMap(k)' = InMap(k)
        /\ pc' = place /\ f' = f
    BY <2>1, <2>3, LinkedFrame
  <2>5. FrameOK'
    BY <1>1, <2>2, <2>4, <2>p DEF FrameOK, Places
  <2> QED
    BY <2>1, <2>3, <2>5, LinkedKeeps
<1> QED
  BY <1>2, <1>3 DEF Relink

(* The entry is only marked: it goes when the transaction commits. *)
LEMMA FreeKeeps ==
  ASSUME PoolInv, Free
  PROVE  PoolInv'
<1> DEFINE q == TxFree(pm, f.entry)
<1>1. /\ pc = "free" /\ f.entry \in Here(m) \cap Entries /\ f.op \in {"get", "set", "evict"}
      /\ IsTx(pm) /\ pm.fresh = {} /\ pm.mem = m
      /\ \A k \in Keys : InMap(k) \in Entries => InMap(k) # f.entry
  BY DEF Free, PoolInv, FrameOK, TxOK, Adding, m
<1>2. /\ IsTx(q) /\ q.mem = pm.mem /\ q.undo = pm.undo
      /\ q.fresh = pm.fresh /\ q.doomed = pm.doomed \cup {f.entry}
  BY <1>1, TxFreeLater
<1>3. Recovered(q) = Recovered(pm)
  BY <1>1, TxFreeRecovered
<1>4. PICK place : /\ Go(q, place, f)
                   /\ place = CASE f.op = "get" -> "insert" [] f.op = "set" -> "evict"
                                [] OTHER -> "new"
  BY DEF Free, FreeEntry
<1>5. /\ place \in {"insert", "evict", "new"} /\ (place # "insert" => f.op # "get")
  BY <1>1, <1>4
<1> HIDE DEF q
<1>6. /\ PoolOK(q.mem) /\ Here(m) \subseteq Here(q.mem)
      /\ DOMAIN q.undo \subseteq {MapLoc(k) : k \in Keys}
      /\ q.fresh = {} /\ q.fresh \subseteq Entries /\ q.doomed \subseteq Entries
      /\ \A o \in Here(m) : q.mem[<<o, "_key", 0>>] = m[<<o, "_key", 0>>]
      /\ place # "idle" /\ DOMAIN Recovered(q) = DOMAIN Recovered(pm)
      /\ \A l \in DOMAIN Recovered(pm) : IsLink(l) \/ Recovered(q)[l] = Recovered(pm)[l]
  BY <1>1, <1>2, <1>3, <1>5 DEF PoolInv, TxOK
<1>7. \A k \in Keys : q.mem[MapLoc(k)] \in Entries =>
        q.mem[MapLoc(k)] = InMap(k) /\ InMap(k) \notin q.doomed
  <2>1. \A k \in Keys : InMap(k) = m[MapLoc(k)]
    BY PoolGets
  <2> QED
    BY <1>1, <1>2, <2>1 DEF PoolInv, TxOK
<1>8. FrameOK'
  <2>1. pc' = place /\ f' = f
    BY <1>4 DEF Go
  <2> QED
    BY <1>1, <1>5, <2>1 DEF PoolInv, FrameOK, Places
<1> QED
  BY <1>2, <1>4, <1>6, <1>7, <1>8, GoKeeps

(* What cache_get puts into the map is no entry. *)
LEMMA NoEntryRead ==
  ASSUME NEW o, NEW b \in FirstBytesOf(o)
  PROVE  b \in {Absent, ZeroOid, Stray}
  BY DEF FirstBytesOf

(* The rest of cache_get. *)
LEMMA InsertKeeps ==
  ASSUME PoolInv, Insert
  PROVE  PoolInv'
<1>1. CASE Undefined
  BY <1>1, UndefinedKeeps
<1>2. ASSUME NEW b \in FirstBytesOf(Get("head", "next")),
             Committed(MapSet(pm, f.key, b), {f.key})
      PROVE  PoolInv'
  <2> DEFINE q == MapSet(pm, f.key, b)
  <2>1. /\ pc \in {"idle", "evict", "insert"} /\ f.key \in Keys
        /\ b \in {Absent, ZeroOid, Stray}
    BY NoEntryRead DEF Insert, PoolInv, FrameOK
  <2>2. /\ PoolOK(q.mem) /\ Here(q.mem) = Here(m) /\ q.doomed = pm.doomed
        /\ \A o \in Here(m), x \in Fields : q.mem[<<o, x, 0>>] = m[<<o, x, 0>>]
        /\ \A j \in Keys : q.mem[MapLoc(j)] \in Entries =>
             j # f.key /\ q.mem[MapLoc(j)] = InMap(j) /\ InMap(j) \notin q.doomed
    BY <2>1, SetPool
  <2>4. Committed(q, {f.key})
    BY <1>2
  <2> HIDE DEF q
  <2> DEFINE gotten == {f.key}
  <2>3. /\ gotten \in SUBSET Keys /\ Here(m) \subseteq Here(q.mem) /\ Committed(q, gotten)
        /\ \A o \in Here(m) : q.mem[<<o, "_key", 0>>] = m[<<o, "_key", 0>>]
        /\ \A k \in Keys : q.mem[MapLoc(k)] \in Entries => q.mem[MapLoc(k)] = InMap(k)
        /\ \A k \in gotten : q.mem[MapLoc(k)] \notin Entries
    BY <2>1, <2>2, <2>4 DEF Fields
  <2> HIDE DEF gotten
  <2> QED
    BY <2>2, <2>3, CommittedKeeps
<1> QED
  BY <1>1, <1>2 DEF Insert

(* An oid that is free. *)
LEMMA FreeOid ==
  ASSUME PoolInv, NEW o \in FreeOids
  PROVE  o \in Entries /\ o \notin Objects(pm.mem) /\ o \notin Here(m)
<1>1. o \in Entries /\ o \notin Objects(m) /\ pm.mem = m
  BY DEF FreeOids, m
<1> QED
  BY <1>1, LiveIsHere DEF Live

(* A step that allocates the object o. *)
LEMMA AllocKeeps ==
  ASSUME PoolInv, NEW o \in Entries, NEW q, NEW k, NEW n, NEW pr,
         Allocated(pm, q, o, k, n, pr), NEW place \in Adding, NEW frame, Go(q, place, frame),
         FrameOK'
  PROVE  PoolInv'
<1>1. pm.mem = m /\ PoolOK(m) /\ pm.fresh \subseteq Entries
  BY DEF m, PoolInv, TxOK
<1>2. /\ IsTx(q) /\ PoolOK(q.mem) /\ Here(m) \subseteq Here(q.mem)
      /\ q.undo = pm.undo /\ q.fresh = pm.fresh \cup {o} /\ q.doomed = pm.doomed
      /\ Recovered(q) = Recovered(pm)
      /\ \A x \in DOMAIN m : q.mem[x] = m[x]
  BY <1>1 DEF Allocated
<1>3. \A j \in Keys : q.mem[MapLoc(j)] = InMap(j)
  BY <1>1, <1>2, PoolGets, ShapeHas DEF PoolOK
<1>4. \A e \in Here(m) : q.mem[<<e, "_key", 0>>] = m[<<e, "_key", 0>>]
  BY <1>1, <1>2, ShapeHas DEF PoolOK, Fields
<1>5. /\ DOMAIN q.undo \subseteq {MapLoc(j) : j \in Keys}
      /\ q.fresh \subseteq Entries /\ q.doomed \subseteq Entries
      /\ place # "idle" /\ (place \notin Adding => q.fresh = {})
      /\ DOMAIN Recovered(q) = DOMAIN Recovered(pm)
      /\ \A l \in DOMAIN Recovered(pm) : IsLink(l) \/ Recovered(q)[l] = Recovered(pm)[l]
      /\ \A j \in Keys : q.mem[MapLoc(j)] \in Entries =>
           q.mem[MapLoc(j)] = InMap(j) /\ InMap(j) \notin q.doomed
  BY <1>1, <1>2, <1>3 DEF PoolInv, TxOK, Adding
<1> QED
  BY <1>2, <1>4, <1>5, GoKeeps

(* The new entry, and how the pool is then. *)
LEMMA NewAllocates ==
  ASSUME PoolInv, pc = "new", NEW o \in FreeOids
  PROVE  /\ Allocated(pm, TxAlloc(pm, o, Contents(o, f.key, f.value, Null, Null)), o,
                       f.key, Null, Null)
         /\ [f EXCEPT !.entry = o] = [op |-> f.op, key |-> f.key, value |-> f.value, entry |-> o]
<1>1. /\ f.key \in Keys /\ f.value \in Values /\ IsTx(pm) /\ PoolOK(pm.mem)
      /\ f = [op |-> f.op, key |-> f.key, value |-> f.value, entry |-> f.entry]
  BY DEF PoolInv, FrameOK, TxOK, m
<1>2. Null \in Nexts /\ Null \in Prevs
  BY DEF Nexts, Prevs
<1>3. o \in Entries /\ o \notin Objects(pm.mem)
  BY FreeOid
<1>4. Allocated(pm, TxAlloc(pm, o, Contents(o, f.key, f.value, Null, Null)), o,
                f.key, Null, Null)
  BY <1>1, <1>2, <1>3, AllocPool
<1>5. [f EXCEPT !.entry = o] = [op |-> f.op, key |-> f.key, value |-> f.value, entry |-> o]
  BY <1>1, FrameExcept
<1> QED
  BY <1>4, <1>5, Zenon

LEMMA NewKeeps ==
  ASSUME PoolInv, New
  PROVE  PoolInv'
<1>0. pc = "new"
  BY DEF New
<1>1. PICK o \in FreeOids :
        Go(TxAlloc(pm, o, Contents(o, f.key, f.value, Null, Null)), "add",
           [f EXCEPT !.entry = o])
  BY DEF New
<1> DEFINE q == TxAlloc(pm, o, Contents(o, f.key, f.value, Null, Null))
           fr == [op |-> f.op, key |-> f.key, value |-> f.value, entry |-> o]
<1>2. Allocated(pm, q, o, f.key, Null, Null) /\ [f EXCEPT !.entry = o] = fr
  BY <1>0, NewAllocates, Zenon
<1> HIDE DEF q
<1>3. Go(q, "add", fr)
  <2>1. Go(q, "add", [f EXCEPT !.entry = o])
    BY <1>1 DEF q
  <2> HIDE DEF fr
  <2> QED
    BY <1>2, <2>1, Zenon
<1>4. fr.key \in Keys /\ fr.value \in Values /\ fr.entry = o
      /\ fr = [op |-> fr.op, key |-> fr.key, value |-> fr.value, entry |-> fr.entry]
  <2>1. f.key \in Keys /\ f.value \in Values
    BY <1>0 DEF PoolInv, FrameOK
  <2> QED
    BY ONLY <2>1
<1> HIDE DEF fr
<1>5. o \in Entries
  BY FreeOid
<1>6. FrameOK'
  <2>1. pc' = "add" /\ f' = fr /\ pm' = q
    BY <1>3 DEF Go
  <2>2. o \in Here(m)'
    BY <1>2, <2>1 DEF Allocated, Here, m
  <2> QED
    BY <1>4, <1>5, <2>1, <2>2 DEF FrameOK, Places
<1>7. "add" \in Adding
  BY DEF Adding
<1> QED
  BY <1>2, <1>3, <1>5, <1>6, <1>7, AllocKeeps

(* The copy of the first entry. *)
LEMMA AddAllocates ==
  ASSUME PoolInv, pc = "add", Live(Get("head", "next")), NEW o \in FreeOids
  PROVE  LET first == Get("head", "next")
         IN  Allocated(pm, TxAlloc(pm, o, Contents(o, Get(first, "_key"), Get(first, "_value"),
                                                   Get(first, "next"), Get(first, "prev"))), o,
                       Get(first, "_key"), Get(first, "next"), Get(first, "prev"))
<1> DEFINE first == Get("head", "next")
           k == Get(first, "_key")
           v == Get(first, "_value")
           n == Get(first, "next")
           p == Get(first, "prev")
<1>1. "head" \in Here(m)
  BY LiveIsHere DEF Sentinels
<1>2. first \in {Null, "tail"} \cup Entries
  BY <1>1, PoolGets
<1>3. first \in Here(m)
  BY <1>2, LiveIsHere DEF Sentinels
<1> HIDE DEF first
<1>4. k \in Keys /\ v \in Values /\ n \in Nexts /\ p \in Prevs
  BY <1>3, PoolGets DEF Nexts, Prevs
<1>5. IsTx(pm) /\ PoolOK(pm.mem) /\ o \in Entries /\ o \notin Objects(pm.mem)
  BY FreeOid DEF PoolInv, TxOK, m
<1> HIDE DEF k, v, n, p
<1>6. Allocated(pm, TxAlloc(pm, o, Contents(o, k, v, n, p)), o, k, n, p)
  BY <1>4, <1>5, AllocPool
<1> QED
  BY <1>6 DEF k, v, n, p, first

LEMMA AddKeeps ==
  ASSUME PoolInv, Add
  PROVE  PoolInv'
<1> DEFINE first == Get("head", "next")
           k == Get(first, "_key")
           n == Get(first, "next")
           p == Get(first, "prev")
           copy(o) == Contents(o, k, Get(first, "_value"), n, p)
<1>0. pc = "add" /\ f.entry \in Here(m) \cap Entries
  BY DEF Add, PoolInv, FrameOK
<1>1. CASE Undefined
  BY <1>1, UndefinedKeeps
<1>2. ASSUME Live(first), NEW o \in FreeOids,
             Go(TxAlloc(pm, o, copy(o)), "link", [entry |-> f.entry, dummy |-> o])
      PROVE  PoolInv'
  <2> DEFINE q == TxAlloc(pm, o, copy(o))
             fr == [entry |-> f.entry, dummy |-> o]
  <2>1. Allocated(pm, q, o, k, n, p)
    BY <1>0, <1>2, AddAllocates
  <2>2. Go(q, "link", fr) /\ fr.entry = f.entry /\ fr.dummy = o
    BY <1>2
  <2> HIDE DEF q, fr, k, n, p
  <2>3. o \in Entries /\ "link" \in Adding
    BY FreeOid DEF Adding
  <2>4. FrameOK'
    <3>1. pc' = "link" /\ f' = fr /\ pm' = q
      BY <2>2 DEF Go
    <3>2. Here(m)' = Here(m) \cup {o}
      BY <2>1, <3>1 DEF Allocated, Here, m
    <3> QED
      BY <1>0, <2>2, <2>3, <3>1, <3>2 DEF FrameOK, Places
  <2> QED
    BY <2>1, <2>2, <2>3, <2>4, AllocKeeps
<1> QED
  BY <1>1, <1>2 DEF Add

(* The links that cache_add stores. *)
LinkSet == {Loc("head", "next"), Loc(f.entry, "prev"), Loc(f.entry, "next"), Loc(f.dummy, "prev")}
LinkedIn ==
  Store(Store(Store(Store(pm, Loc("head", "next"), f.entry), Loc(f.entry, "prev"), "head"),
              Loc(f.entry, "next"), f.dummy), Loc(f.dummy, "prev"), f.entry)

LEMMA LinkedFirst ==
  ASSUME PoolInv, pc = "link"
  PROVE  /\ Linked(pm, LinkedIn, LinkSet) /\ \A l \in LinkSet : IsLink(l)
         /\ LinkedIn.mem[Loc("head", "next")] = f.entry
<1> DEFINE e == f.entry
           d == f.dummy
           l1 == Loc("head", "next")
           l2 == Loc(e, "prev")
           l3 == Loc(e, "next")
           l4 == Loc(d, "prev")
           q1 == Store(pm, l1, e)
           q2 == Store(q1, l2, "head")
           q3 == Store(q2, l3, d)
           q4 == Store(q3, l4, e)
<1>1. e \in Entries /\ d \in Entries /\ IsTx(pm) /\ PoolOK(pm.mem)
  BY DEF PoolInv, FrameOK, TxOK, m
<1>2. /\ ValueOK(l1, e) /\ ValueOK(l2, "head") /\ ValueOK(l3, d) /\ ValueOK(l4, e)
      /\ IsLink(l1) /\ IsLink(l2) /\ IsLink(l3) /\ IsLink(l4)
      /\ l1 \notin {l2, l3, l4}
  BY <1>1, CacheAssumption DEF ValueOK, Loc, IsLink
<1>3. LinkedIn = q4 /\ LinkSet = (({l1} \cup {l2}) \cup {l3}) \cup {l4}
  BY DEF LinkedIn, LinkSet
<1>4. l1 \in DOMAIN pm.mem
  BY ShapeHas, <1>1 DEF PoolOK, Shape, Loc, Fields, Sentinels
<1> HIDE DEF l1, l2, l3, l4, e, d
<1>5. Linked(pm, q1, {l1}) /\ q1.mem[l1] = e
  BY <1>1, <1>2, <1>4, LinkStore
<1> HIDE DEF q1
<1>6. Linked(q1, q2, {l2})
  <2>1. IsTx(q1) /\ PoolOK(q1.mem)
    BY <1>5 DEF Linked
  <2> QED
    BY <1>2, <2>1, LinkStore
<1> HIDE DEF q2
<1>7. Linked(q2, q3, {l3})
  <2>1. IsTx(q2) /\ PoolOK(q2.mem)
    BY <1>6 DEF Linked
  <2> QED
    BY <1>2, <2>1, LinkStore
<1> HIDE DEF q3
<1>8. Linked(q3, q4, {l4})
  <2>1. IsTx(q3) /\ PoolOK(q3.mem)
    BY <1>7 DEF Linked
  <2> QED
    BY <1>2, <2>1, LinkStore
<1> HIDE DEF q4
<1>9. Linked(pm, q3, ({l1} \cup {l2}) \cup {l3})
  <2>1. Linked(pm, q2, {l1} \cup {l2})
    BY <1>5, <1>6, LinkedTwice
  <2> QED
    BY <1>7, <2>1, LinkedTwice
<1>10. Linked(pm, q4, (({l1} \cup {l2}) \cup {l3}) \cup {l4})
  BY <1>8, <1>9, LinkedTwice
<1>11. q4.mem[l1] = e
  <2>1. l1 \in DOMAIN q1.mem /\ l1 \in DOMAIN q2.mem /\ l1 \in DOMAIN q3.mem
    BY <1>4, <1>5, <1>6, <1>7 DEF Linked
  <2>2. q2.mem[l1] = e
    BY <1>2, <1>5, <1>6, <2>1 DEF Linked
  <2>3. q3.mem[l1] = e
    BY <1>2, <1>7, <2>1, <2>2 DEF Linked
  <2> QED
    BY <1>2, <1>8, <2>1, <2>3 DEF Linked
<1>12. \A l \in LinkSet : IsLink(l)
  BY <1>2, <1>3
<1> QED
  BY <1>3, <1>10, <1>11, <1>12 DEF l1, e

LEMMA LinkKeeps ==
  ASSUME PoolInv, Link
  PROVE  PoolInv'
<1>1. pc = "link" /\ Go(LinkedIn, "end", f)
  BY DEF Link, LinkedIn
<1>2. Linked(pm, LinkedIn, LinkSet) /\ \A l \in LinkSet : IsLink(l)
  BY <1>1, LinkedFirst
<1>3. pc' = "end"
  BY <1>1 DEF Go
<1>4. FrameOK'
  BY <1>3 DEF FrameOK, Places
<1>5. "end" # "idle" /\ "end" \in Adding
  BY DEF Adding
<1> QED
  BY <1>1, <1>2, <1>4, <1>5, LinkedKeeps

(* The outermost commit of cache_set. *)
LEMMA EndKeeps ==
  ASSUME PoolInv, End
  PROVE  PoolInv'
<1> DEFINE gotten == {}
<1>1. Committed(pm, gotten) /\ gotten \in SUBSET Keys /\ pm.mem = m /\ PoolOK(m)
  BY DEF End, m, PoolInv
<1>2. \A k \in Keys : pm.mem[MapLoc(k)] \in Entries => pm.mem[MapLoc(k)] = InMap(k)
  BY <1>1, PoolGets
<1>3. \A k \in gotten : pm.mem[MapLoc(k)] \notin Entries
  OBVIOUS
<1> HIDE DEF gotten
<1> QED
  BY <1>1, <1>2, <1>3, CommittedKeeps

(* Every step. *)
LEMMA PoolStep ==
  ASSUME PoolInv, [Next]_vars
  PROVE  PoolInv'
<1>1. CASE UNCHANGED vars
  <2>1. UNCHANGED <<pm, capacity, durable, torn, got, pc, f, ret>>
    BY <1>1 DEF vars
  <2>2. FrameOK'
    BY <2>1 DEF PoolInv, FrameOK, InMap, m, Here
  <2>3. TxOK'
    BY <2>1 DEF PoolInv, TxOK, IsTx, InMap, m
  <2>4. PoolOK(m)' /\ MapOK(m)' /\ PoolOK(durable)' /\ MapOK(durable)'
    BY <2>1 DEF PoolInv, PoolOK, Shape, Here, MapOK, m
  <2> QED
    BY <2>1, <2>2, <2>3, <2>4 DEF PoolInv, GivesBack, MapLoses, InMap, m
<1>2. CASE Next
  <2>1. CASE Abort
    <3>1. -1 \in {-1, 0}
      OBVIOUS
    <3> QED
      BY <2>1, <3>1, RolledBackKeeps DEF Abort
  <2>2. CASE Crash
    <3>1. ret \in {-1, 0}
      BY DEF PoolInv
    <3> QED
      BY <2>2, <3>1, RolledBackKeeps DEF Crash
  <2> QED
    BY <1>2, <2>1, <2>2, UnlinkKeeps, RelinkKeeps, FreeKeeps, InsertKeeps, EvictKeeps,
       NewKeeps, AddKeeps, LinkKeeps, EndKeeps, CallKeeps DEF Next
<1> QED
  BY <1>1, <1>2
-----------------------------------------------------------------------------
(***************************************************************************)
(* The caches that a client may have built.                                *)
(***************************************************************************)

(* A sequence between two elements. *)
LEMMA Bracket ==
  ASSUME NEW S, NEW t \in Seq(S), NEW a \in S, NEW b \in S
  PROVE  LET c == <<a>> \o t \o <<b>>
         IN  /\ DOMAIN c = 1 .. (Len(t) + 2) /\ Len(t) \in Nat
             /\ c[1] = a /\ c[Len(t) + 2] = b
             /\ \A i \in 2 .. (Len(t) + 1) : c[i] = t[i - 1]
<1> DEFINE d == <<a>> \o t
           c == d \o <<b>>
<1>1. <<a>> \in Seq(S) /\ <<b>> \in Seq(S) /\ Len(<<a>>) = 1 /\ Len(<<b>>) = 1
      /\ <<a>>[1] = a /\ <<b>>[1] = b /\ Len(t) \in Nat
  OBVIOUS
<1>2. /\ d \in Seq(S) /\ Len(d) = 1 + Len(t)
      /\ \A i \in 1 .. 1 + Len(t) : d[i] = IF i <= 1 THEN <<a>>[i] ELSE t[i - 1]
  BY <1>1, ConcatProperties
<1> HIDE DEF d
<1>3. /\ c \in Seq(S) /\ Len(c) = 2 + Len(t)
      /\ \A i \in 1 .. 2 + Len(t) :
           c[i] = IF i <= 1 + Len(t) THEN d[i] ELSE <<b>>[i - (1 + Len(t))]
  <2>1. /\ c \in Seq(S) /\ Len(c) = Len(d) + Len(<<b>>)
        /\ \A i \in 1 .. Len(d) + Len(<<b>>) :
             c[i] = IF i <= Len(d) THEN d[i] ELSE <<b>>[i - Len(d)]
    BY <1>1, <1>2, ConcatProperties
  <2>2. Len(d) = 1 + Len(t) /\ Len(<<b>>) = 1 /\ Len(d) + Len(<<b>>) = 2 + Len(t)
    BY <1>1, <1>2
  <2> HIDE DEF c
  <2> QED
    BY <1>1, <2>1, <2>2
<1> HIDE DEF c
<1>4. DOMAIN c = 1 .. (Len(t) + 2)
  BY <1>1, <1>3
<1>5. c[1] = a
  <2>1. 1 \in 1 .. 2 + Len(t) /\ 1 <= 1 + Len(t) /\ 1 \in 1 .. 1 + Len(t) /\ 1 <= 1
    BY <1>1
  <2>2. c[1] = d[1] /\ d[1] = <<a>>[1]
    BY <1>2, <1>3, <2>1
  <2> QED
    BY <1>1, <2>2
<1>6. c[Len(t) + 2] = b
  <2>1. Len(t) + 2 \in 1 .. 2 + Len(t) /\ ~(Len(t) + 2 <= 1 + Len(t))
        /\ (Len(t) + 2) - (1 + Len(t)) = 1
    BY <1>1
  <2> QED
    BY <1>1, <1>3, <2>1
<1>7. ASSUME NEW i \in 2 .. (Len(t) + 1) PROVE c[i] = t[i - 1]
  <2>1. i \in 1 .. 2 + Len(t) /\ i <= 1 + Len(t) /\ i \in 1 .. 1 + Len(t) /\ ~(i <= 1)
    BY <1>1
  <2> QED
    BY <1>2, <1>3, <2>1
<1> QED
  BY <1>1, <1>4, <1>5, <1>6, <1>7 DEF c, d

(* The fields of a new object. *)
LEMMA ContentsFields ==
  ASSUME NEW o, NEW k, NEW v, NEW n, NEW p
  PROVE  LET c == Contents(o, k, v, n, p)
         IN  /\ DOMAIN c = {o} \X Fields \X {0}
             /\ c[<<o, "_key", 0>>] = k /\ c[<<o, "_value", 0>>] = v
             /\ c[<<o, "next", 0>>] = n /\ c[<<o, "prev", 0>>] = p
<1> DEFINE c == Contents(o, k, v, n, p)
<1>1. DOMAIN c = {o} \X Fields \X {0}
  BY DEF Contents, Fields
<1>2. ASSUME NEW l \in DOMAIN c
      PROVE  c[l] = CASE l[2] = "_key" -> k [] l[2] = "_value" -> v
                      [] l[2] = "next" -> n [] OTHER -> p
  BY <1>1 DEF Contents, Fields
<1>3. \A x \in Fields : <<o, x, 0>> \in DOMAIN c
  BY <1>1
<1> HIDE DEF c
<1> QED
  BY <1>1, <1>2, <1>3 DEF c, Fields

(* What a pool with the list chain of n entries, of keys keys, holds. *)
Chained(mem, n, chain, keys) ==
  /\ n \in Nat /\ chain[1] = "head" /\ chain[n + 2] = "tail"
  /\ \A i \in 2 .. (n + 1) : chain[i] \in Entries
  /\ \A i, j \in 1 .. (n + 2) : chain[i] = chain[j] => i = j
  /\ DOMAIN mem = Locs({chain[i] : i \in 1 .. (n + 2)})
  /\ \A i \in 1 .. (n + 2) :
       /\ mem[<<chain[i], "_key", 0>>] = keys[i] /\ keys[i] \in Keys
       /\ mem[<<chain[i], "_value", 0>>] = 0
       /\ mem[<<chain[i], "next", 0>>] = IF i = n + 2 THEN Null ELSE chain[i + 1]
       /\ mem[<<chain[i], "prev", 0>>] = IF i = 1 THEN Null ELSE chain[i - 1]
  /\ \A k \in Keys :
       \/ mem[MapLoc(k)] = Absent
       \/ \E i \in 2 .. (n + 1) : mem[MapLoc(k)] = chain[i] /\ keys[i] = k

(* The image is such a pool. *)
LEMMA ImageChained ==
  ASSUME NEW s \in Built, NEW names \in [DOMAIN s -> Entries],
         \A i, j \in DOMAIN s : names[i] = names[j] => i = j
  PROVE  \E n, chain, keys : Chained(Image(s, names), n, chain, keys)
<1> DEFINE n == Len(s)
           E == Sentinels \cup Entries
           chain == <<"head">> \o names \o <<"tail">>
           keys == <<0>> \o s \o <<0>>
           entry(i) == IF i \in DOMAIN chain THEN chain[i] ELSE Null
           at(o) == CHOOSE i \in DOMAIN chain : chain[i] = o
           object(i) == Contents(chain[i], keys[i], 0, entry(i + 1), entry(i - 1))
           oid(k) == IF \E i \in DOMAIN s : s[i] = k
                     THEN names[CHOOSE i \in DOMAIN s : s[i] = k] ELSE Absent
           D == (UNION {DOMAIN object(i) : i \in DOMAIN chain}) \cup ({"map"} \X {"oid"} \X Keys)
           img == [l \in D |-> IF l[1] = "map" THEN oid(l[3]) ELSE object(at(l[1]))[l]]
<1>1. Image(s, names) = img
  BY DEF Image
<1>2. /\ s \in Seq(Keys) /\ n \in Nat /\ DOMAIN s = 1 .. n /\ 0 \in Keys
      /\ \A i \in 1 .. n : s[i] \in Keys
  <2>1. s \in Seq(Keys) /\ 0 \in Keys
    BY CacheAssumption
  <2> QED
    BY <2>1
<1>3. /\ names \in Seq(E) /\ Len(names) = n /\ "head" \in E /\ "tail" \in E
      /\ \A i \in 1 .. n : names[i] \in Entries
  <2>1. names \in [1 .. n -> E] /\ \A i \in 1 .. n : names[i] \in Entries
    BY <1>2 DEF Sentinels
  <2>2. names \in Seq(E)
    BY <1>2, <2>1
  <2>3. DOMAIN names = 1 .. n /\ Len(names) \in Nat /\ DOMAIN names = 1 .. Len(names)
    BY <2>1, <2>2
  <2>4. Len(names) = n
    BY <1>2, <2>3
  <2> QED
    BY <2>1, <2>2, <2>4 DEF Sentinels
<1> HIDE DEF n
<1>4. /\ DOMAIN chain = 1 .. (n + 2) /\ chain[1] = "head" /\ chain[n + 2] = "tail"
      /\ \A i \in 2 .. (n + 1) : chain[i] = names[i - 1]
  <2> HIDE DEF E
  <2> QED
    BY <1>3, Bracket
<1>5. /\ keys[1] = 0 /\ keys[n + 2] = 0
      /\ \A i \in 2 .. (n + 1) : keys[i] = s[i - 1]
  BY <1>2, Bracket DEF n
<1> HIDE DEF E, chain, keys
<1>6. \A i \in 2 .. (n + 1) : i - 1 \in 1 .. n
  BY <1>2
<1>7. \A i \in 2 .. (n + 1) : chain[i] \in Entries /\ keys[i] \in Keys
  BY <1>2, <1>3, <1>4, <1>5, <1>6
<1>8. \A i \in 1 .. (n + 2) : i = 1 \/ i = n + 2 \/ i \in 2 .. (n + 1)
  BY <1>2
<1>9. \A i \in 1 .. (n + 2) : keys[i] \in Keys /\ chain[i] # "map"
  BY <1>2, <1>4, <1>5, <1>7, <1>8, CacheAssumption
<1>10. ASSUME NEW i \in 1 .. (n + 2), NEW j \in 1 .. (n + 2), chain[i] = chain[j]
       PROVE  i = j
  <2>1. CASE i \in 2 .. (n + 1) /\ j \in 2 .. (n + 1)
    <3>1. i - 1 = j - 1
      <4>1. names[i - 1] = names[j - 1] /\ i - 1 \in DOMAIN s /\ j - 1 \in DOMAIN s
        BY <1>2, <1>4, <1>6, <1>10, <2>1
      <4> QED
        BY <4>1
    <3> QED
      BY <1>2, <3>1
  <2>2. CASE i \notin 2 .. (n + 1) \/ j \notin 2 .. (n + 1)
    BY <1>2, <1>4, <1>7, <1>8, <1>10, <2>2, CacheAssumption
  <2> QED
    BY <2>1, <2>2
<1>11. \A i \in 1 .. (n + 2) : at(chain[i]) = i
  BY <1>4, <1>10
<1>12. ASSUME NEW i \in 1 .. (n + 2)
       PROVE  /\ entry(i + 1) = IF i = n + 2 THEN Null ELSE chain[i + 1]
              /\ entry(i - 1) = IF i = 1 THEN Null ELSE chain[i - 1]
  BY <1>2, <1>4
<1> HIDE DEF entry, at, oid
<1>13. ASSUME NEW i \in 1 .. (n + 2)
       PROVE  /\ DOMAIN object(i) = {chain[i]} \X Fields \X {0}
              /\ object(i)[<<chain[i], "_key", 0>>] = keys[i]
              /\ object(i)[<<chain[i], "_value", 0>>] = 0
              /\ object(i)[<<chain[i], "next", 0>>] = entry(i + 1)
              /\ object(i)[<<chain[i], "prev", 0>>] = entry(i - 1)
  <2> DEFINE o == chain[i]
             k == keys[i]
             nx == entry(i + 1)
             pv == entry(i - 1)
             c == Contents(o, k, 0, nx, pv)
  <2> HIDE DEF o, k, nx, pv
  <2>1. /\ DOMAIN c = {o} \X Fields \X {0}
        /\ c[<<o, "_key", 0>>] = k /\ c[<<o, "_value", 0>>] = 0
        /\ c[<<o, "next", 0>>] = nx /\ c[<<o, "prev", 0>>] = pv
    BY ContentsFields
  <2>2. object(i) = c
    BY DEF o, k, nx, pv
  <2> HIDE DEF object, c
  <2> QED
    BY <2>1, <2>2 DEF o, k, nx, pv
<1> HIDE DEF object
<1>14. D = Locs({chain[i] : i \in 1 .. (n + 2)})
  <2>1. \A l : (\E i \in 1 .. (n + 2) : l \in DOMAIN object(i)) <=>
               l \in {chain[i] : i \in 1 .. (n + 2)} \X Fields \X {0}
    <3>1. \A i \in 1 .. (n + 2) : DOMAIN object(i) = {chain[i]} \X Fields \X {0}
      BY <1>13
    <3>2. \A l : (\E i \in 1 .. (n + 2) : l \in {chain[i]} \X Fields \X {0}) <=>
                 l \in {chain[i] : i \in 1 .. (n + 2)} \X Fields \X {0}
      OBVIOUS
    <3> HIDE DEF D
    <3> QED
      BY <3>1, <3>2, Zenon
  <2>2. \A l : l \in UNION {DOMAIN object(i) : i \in DOMAIN chain} <=>
               \E i \in 1 .. (n + 2) : l \in DOMAIN object(i)
    BY <1>4
  <2>3. UNION {DOMAIN object(i) : i \in DOMAIN chain}
          = {chain[i] : i \in 1 .. (n + 2)} \X Fields \X {0}
    BY <2>1, <2>2
  <2> QED
    BY <2>3 DEF Locs
<1> HIDE DEF D
<1>15. DOMAIN img = D /\ \A l \in D : img[l] = IF l[1] = "map" THEN oid(l[3])
                                                ELSE object(at(l[1]))[l]
  OBVIOUS
<1> HIDE DEF img
<1>16. ASSUME NEW i \in 1 .. (n + 2), NEW x \in Fields
       PROVE  img[<<chain[i], x, 0>>] = object(i)[<<chain[i], x, 0>>]
  <2> DEFINE l == <<chain[i], x, 0>>
  <2>1. l \in D /\ l[1] = chain[i] /\ l[1] # "map"
    BY <1>9, <1>14 DEF Locs
  <2> QED
    BY <1>11, <1>15, <2>1
<1>17. ASSUME NEW i \in 1 .. (n + 2)
       PROVE  /\ img[<<chain[i], "_key", 0>>] = keys[i]
              /\ img[<<chain[i], "_value", 0>>] = 0
              /\ img[<<chain[i], "next", 0>>] = IF i = n + 2 THEN Null ELSE chain[i + 1]
              /\ img[<<chain[i], "prev", 0>>] = IF i = 1 THEN Null ELSE chain[i - 1]
  <2>1. "_key" \in Fields /\ "_value" \in Fields /\ "next" \in Fields /\ "prev" \in Fields
    BY DEF Fields
  <2>2. /\ img[<<chain[i], "_key", 0>>] = object(i)[<<chain[i], "_key", 0>>]
        /\ img[<<chain[i], "_value", 0>>] = object(i)[<<chain[i], "_value", 0>>]
        /\ img[<<chain[i], "next", 0>>] = object(i)[<<chain[i], "next", 0>>]
        /\ img[<<chain[i], "prev", 0>>] = object(i)[<<chain[i], "prev", 0>>]
    BY <1>16, <2>1
  <2> QED
    BY ZenonT(40), <1>12, <1>13, <2>2
<1>18. ASSUME NEW k \in Keys
       PROVE  \/ img[MapLoc(k)] = Absent
              \/ \E i \in 2 .. (n + 1) : img[MapLoc(k)] = chain[i] /\ keys[i] = k
  <2>1. MapLoc(k) \in D /\ MapLoc(k)[1] = "map" /\ MapLoc(k)[3] = k
    BY <1>14 DEF Locs, MapLoc
  <2>2. img[MapLoc(k)] = oid(k)
    BY <1>15, <2>1
  <2>3. CASE \E i \in DOMAIN s : s[i] = k
    <3> DEFINE j == CHOOSE i \in DOMAIN s : s[i] = k
    <3>1. j \in 1 .. n /\ s[j] = k
      BY <1>2, <2>3
    <3>2. oid(k) = names[j]
      BY <2>3 DEF oid
    <3> HIDE DEF j
    <3>3. j + 1 \in 2 .. (n + 1) /\ (j + 1) - 1 = j
      BY <1>2, <3>1
    <3>4. chain[j + 1] = names[j] /\ keys[j + 1] = k
      BY <1>4, <1>5, <3>1, <3>3
    <3> QED
      BY <2>2, <3>2, <3>3, <3>4
  <2>4. CASE ~\E i \in DOMAIN s : s[i] = k
    BY <2>2, <2>4 DEF oid
  <2> QED
    BY <2>3, <2>4
<1>19. Chained(img, n, chain, keys)
  BY <1>2, <1>4, <1>7, <1>9, <1>10, <1>14, <1>15, <1>17, <1>18 DEF Chained
<1> QED
  BY <1>1, <1>19

(* Which is one the calls can run on. *)
LEMMA ChainedPool ==
  ASSUME NEW mem, NEW n, NEW chain, NEW keys, Chained(mem, n, chain, keys)
  PROVE  PoolOK(mem) /\ MapOK(mem) /\ Here(mem) = {chain[i] : i \in 1 .. (n + 2)}
<1> DEFINE O == {chain[i] : i \in 1 .. (n + 2)}
<1>1. n \in Nat /\ 1 \in 1 .. (n + 2) /\ n + 2 \in 1 .. (n + 2)
      /\ 2 .. (n + 1) \subseteq 1 .. (n + 2)
  BY DEF Chained
<1>2. \A i \in 1 .. (n + 2) : i = 1 \/ i = n + 2 \/ i \in 2 .. (n + 1)
  BY <1>1
<1>3. /\ \A i \in 1 .. (n + 2) : chain[i] \in Sentinels \cup Entries
      /\ Sentinels \subseteq O
  BY <1>1, <1>2 DEF Chained, Sentinels
<1>4. O \in SUBSET (Sentinels \cup Entries)
  BY <1>3
<1>5. DOMAIN mem = Locs(O)
  BY DEF Chained
<1> HIDE DEF O
<1>6. Shape(mem) /\ Here(mem) = O
  BY <1>3, <1>4, <1>5, ShapeOf
<1>7. ASSUME NEW i \in 1 .. (n + 2)
      PROVE  /\ mem[<<chain[i], "next", 0>>] \in Nexts
             /\ mem[<<chain[i], "prev", 0>>] \in Prevs
             /\ chain[i] = "head" => i = 1
  <2>1. i # n + 2 => i + 1 \in 1 .. (n + 2) /\ i + 1 # 1
    BY <1>1
  <2>2. i # 1 => i - 1 \in 1 .. (n + 2) /\ i - 1 # n + 2
    BY <1>1
  <2>3. \A j \in 1 .. (n + 2) : /\ j # 1 => chain[j] \in Nexts
                                /\ j # n + 2 => chain[j] \in Prevs
    BY <1>2 DEF Chained, Nexts, Prevs
  <2>4. Null \in Nexts /\ Null \in Prevs
    BY DEF Nexts, Prevs
  <2>5. chain[i] = "head" => i = 1
    BY <1>1 DEF Chained
  <2> QED
    BY <2>1, <2>2, <2>3, <2>4, <2>5 DEF Chained
<1>8. ASSUME NEW l \in DOMAIN mem PROVE ValueOK(l, mem[l])
  <2>1. CASE l \in {"map"} \X {"oid"} \X Keys
    <3>1. PICK k \in Keys : l = MapLoc(k)
      BY <2>1 DEF MapLoc
    <3>2. l[2] = "oid"
      BY <3>1 DEF MapLoc
    <3>3. mem[l] \in Entries \cup {Absent, ZeroOid, Stray}
      BY <3>1 DEF Chained
    <3> QED
      BY <3>2, <3>3 DEF ValueOK
  <2>2. CASE l \in O \X Fields \X {0}
    <3>1. PICK i \in 1 .. (n + 2), x \in Fields : l = <<chain[i], x, 0>>
      BY <2>2 DEF O
    <3>2. l[1] = chain[i] /\ l[2] = x
      BY <3>1
    <3>3. /\ mem[<<chain[i], "_key", 0>>] \in Keys /\ mem[<<chain[i], "_value", 0>>] \in Values
          /\ i = 1 => mem[<<chain[i], "prev", 0>>] = Null
      BY CacheAssumption DEF Chained
    <3> QED
      BY <1>7, <3>1, <3>2, <3>3 DEF ValueOK, Fields, Nexts, Prevs
  <2> QED
    BY <1>5, <2>1, <2>2 DEF Locs
<1>9. MapOK(mem)
  <2> SUFFICES ASSUME NEW k \in Keys, mem[MapLoc(k)] \in Entries
               PROVE  mem[MapLoc(k)] \in Here(mem) /\ mem[<<mem[MapLoc(k)], "_key", 0>>] = k
    BY DEF MapOK
  <2>1. Absent \notin Entries
    BY CacheAssumption
  <2>2. PICK i \in 2 .. (n + 1) : mem[MapLoc(k)] = chain[i] /\ keys[i] = k
    BY <2>1 DEF Chained
  <2>3. i \in 1 .. (n + 2)
    BY <1>1
  <2>4. chain[i] \in Here(mem)
    BY <1>6, <2>3 DEF O
  <2>5. mem[<<chain[i], "_key", 0>>] = keys[i]
    BY <2>3 DEF Chained
  <2> QED
    BY <2>2, <2>4, <2>5
<1> QED
  BY <1>6, <1>8, <1>9 DEF PoolOK, O

(* What the calls start from. *)
LEMMA InitChained ==
  ASSUME Init
  PROVE  /\ pm = NoTx(durable) /\ m = durable /\ pc = "idle" /\ got = {} /\ ret = 0
         /\ \E n, chain, keys : Chained(durable, n, chain, keys)
<1>0. PICK s \in Built : \E names \in [DOMAIN s -> Entries] :
        /\ \A i, j \in DOMAIN s : names[i] = names[j] => i = j
        /\ durable = Image(s, names)
  BY DEF Init
<1>1. PICK names \in [DOMAIN s -> Entries] :
        /\ \A i, j \in DOMAIN s : names[i] = names[j] => i = j
        /\ durable = Image(s, names)
  BY <1>0
<1>2. \E n, chain, keys : Chained(durable, n, chain, keys)
  BY <1>1, ImageChained
<1> QED
  BY <1>2, NoTxFields DEF Init, m

(* The invariant holds of it. *)
LEMMA PoolInit ==
  ASSUME Init
  PROVE  PoolInv
<1>1. PICK n, chain, keys : Chained(durable, n, chain, keys)
  BY InitChained
<1>2. /\ pm = NoTx(durable) /\ m = durable /\ pc = "idle" /\ got = {} /\ ret = 0
      /\ PoolOK(durable) /\ MapOK(durable)
  BY <1>1, InitChained, ChainedPool
<1>3. /\ IsTx(pm) /\ pm.mem = durable /\ pm.undo = <<>> /\ pm.fresh = {} /\ pm.doomed = {}
  BY <1>2, NoTxFields
<1>4. GivesBack
  <2>1. DOMAIN <<>> = {}
    OBVIOUS
  <2>2. DOMAIN Recovered(pm) = DOMAIN durable /\ \A l \in DOMAIN durable : Recovered(pm)[l] = durable[l]
    BY <1>3, <2>1 DEF Recovered, LocsOf
  <2> QED
    BY <2>2 DEF GivesBack
<1>5. FrameOK
  BY <1>2 DEF FrameOK, Places
<1>6. TxOK
  <2>1. DOMAIN <<>> = {}
    OBVIOUS
  <2> QED
    BY <1>2, <1>3, <2>1 DEF TxOK
<1>7. MapLoses
  BY <1>2 DEF MapLoses, InMap, MapLoc
<1> QED
  BY <1>2, <1>4, <1>5, <1>6, <1>7 DEF PoolInv
-----------------------------------------------------------------------------
(* The inductive invariant: the shape of the pool, the map, the running transaction and
   what the running call has in hand. *)
THEOREM CachePool == Spec => []PoolInv
<1>1. Init => PoolInv
  BY PoolInit
<1>2. PoolInv /\ [Next]_vars => PoolInv'
  BY PoolStep
<1> QED
  BY <1>1, <1>2, PTL DEF Spec

(* The pool holds the sentinels, the map and entries with all their fields, whatever
   calls, aborts and crashes there are. *)
THEOREM CacheTypeCorrect == Spec => []TypeOK
<1>1. ASSUME PoolInv PROVE TypeOK
  <2>1. Objects(m) \subseteq Here(m) \cup {"map"} /\ Here(m) \subseteq Sentinels \cup Entries
    BY <1>1, ShapeHas DEF PoolInv, PoolOK
  <2>2. \A o \in Here(m) : /\ Get(o, "_key") \in Keys /\ Get(o, "_value") \in Values
                           /\ Get(o, "next") \in {Null, "tail"} \cup Entries
                           /\ Get(o, "prev") \in {Null, "head"} \cup Entries
    BY <1>1, PoolGets
  <2>3. \A k \in Keys : InMap(k) \in Entries \cup {Absent, ZeroOid, Stray}
    BY <1>1, PoolGets
  <2>4. pc \in Places /\ got \subseteq Keys /\ ret \in {-1, 0}
    BY <1>1 DEF PoolInv, FrameOK
  <2> QED
    BY <2>1, <2>2, <2>3, <2>4 DEF TypeOK, Sentinels
<1> QED
  BY <1>1, CachePool, PTL

(* A rollback gives back all of the last commit but the links. *)
THEOREM CacheRollbackExceptLinks == Spec => []RollbackExceptLinks
<1>1. ASSUME PoolInv PROVE RollbackExceptLinks
  BY <1>1 DEF PoolInv, GivesBack, RollbackExceptLinks
<1> QED
  BY <1>1, CachePool, PTL

(* Between calls every entry the map leads to is allocated. *)
THEOREM CacheMapLeadsToEntries == Spec => []MapLeadsToEntries
<1>1. ASSUME PoolInv PROVE MapLeadsToEntries
  BY <1>1, PoolGets, LiveIsHere DEF MapLeadsToEntries
<1> QED
  BY <1>1, CachePool, PTL

(* No key is got twice. *)
THEOREM CacheGotAtMostOnce == Spec => []GotAtMostOnce
<1>1. ASSUME PoolInv PROVE GotAtMostOnce
  <2>1. \A k \in got : k \in Keys /\ durable[MapLoc(k)] \notin Entries
    BY <1>1 DEF PoolInv, MapLoses
  <2>2. \A k \in Keys : InMap(k) \in Entries => InMap(k) = durable[MapLoc(k)]
    BY <1>1 DEF PoolInv, MapLoses
  <2> QED
    BY <2>1, <2>2 DEF GotAtMostOnce
<1> QED
  BY <1>1, CachePool, PTL
-----------------------------------------------------------------------------
(***************************************************************************)
(* The list.  Its plain stores are not given back, so that after a         *)
(* rollback over one nothing is known of it; until then the entries S that *)
(* were built and not deleted are a ring: whichever way one is left for    *)
(* another of them, or for tail, the way back leads to it.  Entries that   *)
(* cache_set made point into the ring, and nothing in the ring points to   *)
(* them.                                                                   *)
(***************************************************************************)
NextOf(mem, o) == mem[<<o, "next", 0>>]
PrevOf(mem, o) == mem[<<o, "prev", 0>>]

Ring(mem, S) ==
  /\ S \subseteq Here(mem) \cap Entries
  /\ \A x \in S : NextOf(mem, x) \in S \cup {"tail"} /\ PrevOf(mem, NextOf(mem, x)) = x
  /\ \A y \in S \cup {"tail"} :
       /\ PrevOf(mem, y) \in S \cup {"head"}
       /\ PrevOf(mem, y) \in S => NextOf(mem, PrevOf(mem, y)) = y

(* The first entry is there to stay, and if it is of the ring it is the ring's first. *)
Chain(mem, doomed, S) ==
  LET first == NextOf(mem, "head")
  IN  /\ Ring(mem, S) /\ S \cap doomed = {} /\ doomed \subseteq Here(mem) \cap Entries
      /\ first \in Here(mem) \ doomed
      /\ first \in S \cup {"tail"} => PrevOf(mem, first) = "head"

(* The map leads to entries of the ring, and so does the entry a call is to delete. *)
ChainFrame(S) ==
  /\ \A k \in Keys : InMap(k) \in Entries => InMap(k) \in S
  /\ pc = "unlink" => f.entry \in S \cup {"head"}
  /\ pc = "free" => f.entry \notin S /\ f.entry # NextOf(m, "head")
  /\ pc \in {"add", "link"} => f.entry \notin S \cup pm.doomed
  /\ pc = "link" => f.dummy \notin S \cup pm.doomed

(* Between its two stores cache_delete has changed what memory mem had, and that is the
   way back from the entry after the deleted one. *)
HalfDeleted(mem, S) ==
  /\ \A k \in Keys : InMap(k) \in Entries => InMap(k) \in S \ {f.entry}
  /\ f.entry \in S /\ Chain(mem, pm.doomed, S) /\ Here(mem) = Here(m)
  /\ \A o \in Here(mem) :
       /\ NextOf(m, o) = NextOf(mem, o)
       /\ o # NextOf(mem, f.entry) => PrevOf(m, o) = PrevOf(mem, o)
  /\ PrevOf(m, f.entry) = PrevOf(mem, f.entry)
  /\ PrevOf(m, NextOf(mem, f.entry)) = PrevOf(mem, f.entry)

(* The last commit left a ring, which is what an abort gives back. *)
ChainBack ==
  \E S : /\ Chain(durable, {}, S)
         /\ \A k \in Keys : durable[MapLoc(k)] \in Entries => durable[MapLoc(k)] \in S

ChainNow ==
  /\ pc \notin {"undefined", "relink"} => \E S : Chain(m, pm.doomed, S) /\ ChainFrame(S)
  /\ (pc = "relink" /\ f.entry # "head") => \E S, mem : HalfDeleted(mem, S)

ChainInv == ~torn => ChainNow /\ ChainBack

(* A step that leaves the links of what is there to stay. *)
LEMMA ChainKept ==
  ASSUME NEW mem, NEW mem2, NEW D, NEW D2, NEW S,
         PoolOK(mem), PoolOK(mem2), Chain(mem, D, S), D2 \subseteq D, D2 \subseteq Here(mem2),
         Here(mem) \ D \subseteq Here(mem2),
         \A o \in Here(mem) \ D : /\ mem2[<<o, "next", 0>>] = mem[<<o, "next", 0>>]
                                  /\ mem2[<<o, "prev", 0>>] = mem[<<o, "prev", 0>>]
  PROVE  Chain(mem2, D2, S) /\ NextOf(mem2, "head") = NextOf(mem, "head")
<1>1. "head" \in Here(mem) \ D /\ "tail" \in Here(mem) \ D /\ S \subseteq Here(mem) \ D
  BY CacheAssumption DEF Chain, Ring, PoolOK, Shape, Sentinels
<1>2. \A o \in S \cup {"head", "tail"} : NextOf(mem2, o) = NextOf(mem, o)
                                         /\ PrevOf(mem2, o) = PrevOf(mem, o)
  BY <1>1 DEF NextOf, PrevOf
<1>3. Ring(mem2, S)
  BY <1>1, <1>2 DEF Ring, Chain
<1>4. NextOf(mem2, "head") = NextOf(mem, "head")
  BY <1>2
<1> QED
  BY <1>1, <1>2, <1>3, <1>4 DEF Chain

(* Taking an entry out of the ring. *)
LEMMA ChainUnlink ==
  ASSUME NEW mem, NEW mem2, NEW D, NEW S, NEW x \in S, NEW n, NEW v,
         Chain(mem, D, S), "head" \notin Entries, "tail" \notin Entries,
         "tail" \in Here(mem),
         n = NextOf(mem, x), v = PrevOf(mem, x), Here(mem2) = Here(mem),
         PrevOf(mem2, n) = v, NextOf(mem2, v) = n,
         \A o \in Here(mem) : /\ o # n => PrevOf(mem2, o) = PrevOf(mem, o)
                              /\ o # v => NextOf(mem2, o) = NextOf(mem, o),
         "head" \in Here(mem)
  PROVE  Chain(mem2, D, S \ {x}) /\ x # NextOf(mem2, "head")
<1> DEFINE T == S \ {x}
           first == NextOf(mem, "head")
<1>1. /\ S \subseteq Here(mem) \cap Entries /\ T \subseteq S /\ x \notin T
      /\ \A z \in S : NextOf(mem, z) \in S \cup {"tail"} /\ PrevOf(mem, NextOf(mem, z)) = z
      /\ \A y \in S \cup {"tail"} :
           /\ PrevOf(mem, y) \in S \cup {"head"}
           /\ PrevOf(mem, y) \in S => NextOf(mem, PrevOf(mem, y)) = y
  BY DEF Chain, Ring
<1>2. /\ n \in S \cup {"tail"} /\ PrevOf(mem, n) = x
      /\ v \in S \cup {"head"} /\ (v \in S => NextOf(mem, v) = x)
      /\ x # "head" /\ x # "tail"
  BY <1>1
<1>3. ASSUME NEW z \in T
      PROVE  NextOf(mem2, z) \in T \cup {"tail"} /\ PrevOf(mem2, NextOf(mem2, z)) = z
  <2>1. CASE z = v
    BY <1>1, <1>2, <2>1
  <2>2. CASE z # v
    <3> DEFINE w == NextOf(mem, z)
    <3>1. NextOf(mem2, z) = w /\ w \in S \cup {"tail"} /\ PrevOf(mem, w) = z
      BY <1>1, <2>2
    <3>2. w # x /\ w # n
      BY <1>1, <1>2, <2>2, <3>1
    <3>3. PrevOf(mem2, w) = z
      BY <1>1, <3>1, <3>2
    <3> QED
      BY <3>1, <3>2, <3>3
  <2> QED
    BY <2>1, <2>2
<1>4. ASSUME NEW y \in T \cup {"tail"}
      PROVE  /\ PrevOf(mem2, y) \in T \cup {"head"}
             /\ PrevOf(mem2, y) \in T => NextOf(mem2, PrevOf(mem2, y)) = y
  <2>1. y \in S \cup {"tail"} /\ y # x /\ y \in Here(mem)
    BY <1>1, <1>2
  <2>2. CASE y = n
    <3>1. v # x
      BY <1>2, <2>1, <2>2
    <3> QED
      BY <1>2, <2>2, <3>1
  <2>3. CASE y # n
    <3> DEFINE u == PrevOf(mem, y)
    <3>1. PrevOf(mem2, y) = u /\ u \in S \cup {"head"} /\ (u \in S => NextOf(mem, u) = y)
      BY <1>1, <2>1, <2>3
    <3>2. u # x
      BY <2>3, <3>1
    <3>3. u \in S => u # v
      BY <1>2, <2>1, <3>1
    <3>4. u \in S => NextOf(mem2, u) = y
      BY <1>1, <3>1, <3>3
    <3> QED
      BY <3>1, <3>2, <3>4
  <2> QED
    BY <2>2, <2>3
<1>5. Ring(mem2, T)
  BY <1>1, <1>3, <1>4 DEF Ring
<1>6. /\ S \cap D = {} /\ D \subseteq Here(mem) \cap Entries /\ first \in Here(mem) \ D
      /\ first \in S \cup {"tail"} => PrevOf(mem, first) = "head"
  BY DEF Chain
<1>7. CASE v = "head"
  <2>1. NextOf(mem2, "head") = n
    BY <1>7
  <2>2. n # x
    BY <1>2, <1>7
  <2>3. n \in Here(mem2) \ D /\ PrevOf(mem2, n) = "head"
    BY <1>1, <1>2, <1>6, <1>7
  <2> QED
    BY <1>5, <1>6, <2>1, <2>2, <2>3 DEF Chain
<1>8. CASE v # "head"
  <2>1. NextOf(mem2, "head") = first
    BY <1>8
  <2>2. first # x
    BY <1>6, <1>8
  <2>3. first \in T \cup {"tail"} => PrevOf(mem2, first) = "head"
    <3> SUFFICES ASSUME first \in T \cup {"tail"} PROVE PrevOf(mem2, first) = "head"
      OBVIOUS
    <3>1. PrevOf(mem, first) = "head" /\ first \in Here(mem)
      BY <1>6
    <3>2. first # n
      BY <1>2, <3>1
    <3> QED
      BY <3>1, <3>2
  <2> QED
    BY <1>5, <1>6, <2>1, <2>2, <2>3 DEF Chain
<1> QED
  BY <1>7, <1>8

(* Steps that only add to the pool. *)
LEMMA ChainGoes ==
  ASSUME PoolInv, PoolInv', NEW S, Chain(m, pm.doomed, S), pm'.doomed = pm.doomed,
         Here(m) \subseteq Here(m'),
         \A o \in Here(m) : /\ m'[<<o, "next", 0>>] = m[<<o, "next", 0>>]
                            /\ m'[<<o, "prev", 0>>] = m[<<o, "prev", 0>>]
  PROVE  Chain(m', pm'.doomed, S) /\ NextOf(m', "head") = NextOf(m, "head")
<1>1. PoolOK(m) /\ PoolOK(m')
  BY DEF PoolInv, PoolOK, Shape, Here
<1>2. pm.doomed \subseteq Here(m')
  BY DEF Chain
<1>3. /\ Here(m) \ pm.doomed \subseteq Here(m')
      /\ \A o \in Here(m) \ pm.doomed : /\ m'[<<o, "next", 0>>] = m[<<o, "next", 0>>]
                                        /\ m'[<<o, "prev", 0>>] = m[<<o, "prev", 0>>]
  OBVIOUS
<1> QED
  BY <1>1, <1>2, <1>3, ChainKept

(* hm_tx_remove leaves the list alone. *)
LEMMA ChainRemove ==
  ASSUME PoolInv, PoolInv', NEW S, Chain(m, pm.doomed, S), ChainFrame(S), NEW k \in Keys,
         pc \in {"idle", "evict"}, NEW frame, Go(MapRemove(pm, k), "unlink", frame),
         frame.entry \in S \cup {"head"}
  PROVE  Chain(m', pm'.doomed, S) /\ ChainFrame(S)'
<1> DEFINE q == MapSet(pm, k, Absent)
<1>1. pm' = q /\ pc' = "unlink" /\ f' = frame
  BY DEF Go, MapRemove
<1>2. /\ Here(q.mem) = Here(m) /\ q.doomed = pm.doomed
      /\ \A o \in Here(m), x \in Fields : q.mem[<<o, x, 0>>] = m[<<o, x, 0>>]
      /\ \A j \in Keys : q.mem[MapLoc(j)] \in Entries =>
           j # k /\ q.mem[MapLoc(j)] = InMap(j) /\ InMap(j) \notin q.doomed
  <2>1. Absent \in {Absent, ZeroOid, Stray} /\ pc \in {"idle", "evict", "insert"}
    OBVIOUS
  <2> QED
    BY <2>1, SetPool
<1> HIDE DEF q
<1>3. m' = q.mem /\ pm'.doomed = pm.doomed
  BY <1>1, <1>2 DEF m
<1>4. Chain(m', pm'.doomed, S)
  BY <1>2, <1>3, ChainGoes DEF Fields
<1>5. \A j \in Keys : InMap(j)' \in Entries => InMap(j)' = InMap(j)
  BY <1>2, <1>3 DEF InMap, MapLoc
<1>6. ChainFrame(S)'
  BY <1>1, <1>5 DEF ChainFrame
<1> QED
  BY <1>4, <1>6

(* Steps that leave the pool alone. *)
LEMMA ChainSame ==
  ASSUME NEW S, Chain(m, pm.doomed, S), ChainFrame(S), pm' = pm,
         pc' \in {"evict", "new", "undefined"} \/ (pc' = pc /\ f' = f)
  PROVE  Chain(m', pm'.doomed, S) /\ ChainFrame(S)'
<1>1. m' = m /\ \A k : InMap(k)' = InMap(k)
  BY DEF m, InMap
<1>2. Chain(m', pm'.doomed, S)
  BY <1>1
<1>3. ChainFrame(S)'
  BY <1>1 DEF ChainFrame
<1> QED
  BY <1>2, <1>3

(* cache_get and cache_set. *)
LEMMA ChainCall ==
  ASSUME PoolInv, PoolInv', NEW S, Chain(m, pm.doomed, S), ChainFrame(S), ~RolledBack(-1),
         NEW k \in Keys, cache_get(k) \/ \E v \in Values : cache_set(k, v)
  PROVE  Chain(m', pm'.doomed, S) /\ ChainFrame(S)'
<1>1. InMap(k) \in Entries => InMap(k) \in S \cup {"head"}
  BY DEF ChainFrame
<1>2. pc = "idle"
  BY DEF cache_get, cache_set
<1>3. CASE Undefined
  BY <1>3, ChainSame DEF Undefined
<1>4. CASE cache_get(k)
  <2>2. CASE /\ InMap(k) \in Entries
             /\ Go(MapRemove(pm, k), "unlink", [op |-> "get", key |-> k, entry |-> InMap(k)])
    <3> DEFINE frame == [op |-> "get", key |-> k, entry |-> InMap(k)]
    <3>1. frame.entry \in S \cup {"head"} /\ Go(MapRemove(pm, k), "unlink", frame)
      BY <1>1, <2>2
    <3> HIDE DEF frame
    <3> QED
      BY <1>2, <3>1, ChainRemove
  <2> QED
    BY <1>3, <1>4, <2>2 DEF cache_get
<1>5. ASSUME NEW v \in Values, cache_set(k, v)
      PROVE  Chain(m', pm'.doomed, S) /\ ChainFrame(S)'
  <2> DEFINE frame(e) == [op |-> "set", key |-> k, value |-> v, entry |-> e]
  <2>1. CASE Go(pm, "evict", frame(Null))
    BY <2>1, ChainSame DEF Go
  <2>2. CASE InMap(k) \in Entries /\ Go(MapRemove(pm, k), "unlink", frame(InMap(k)))
    <3> DEFINE fr == frame(InMap(k))
    <3>1. fr.entry \in S \cup {"head"} /\ Go(MapRemove(pm, k), "unlink", fr)
      BY <1>1, <2>2
    <3> HIDE DEF fr
    <3> QED
      BY <1>2, <3>1, ChainRemove
  <2> QED
    BY <1>3, <1>5, <2>1, <2>2 DEF cache_set
<1> QED
  BY <1>4, <1>5

(* The entry before tail is of the ring, or it is head. *)
LEMMA ChainEvict ==
  ASSUME PoolInv, PoolInv', NEW S, Chain(m, pm.doomed, S), ChainFrame(S), Evict
  PROVE  Chain(m', pm'.doomed, S) /\ ChainFrame(S)'
<1> DEFINE last == Get("tail", "prev")
<1>1. /\ pc = "evict"
      /\ f = [op |-> f.op, key |-> f.key, value |-> f.value, entry |-> f.entry]
  BY DEF Evict, PoolInv, FrameOK
<1>2. CASE Undefined
  BY <1>2, ChainSame DEF Undefined
<1>3. CASE Go(pm, "new", f)
  BY <1>3, ChainSame DEF Go
<1>4. CASE Live(last) /\ Go(MapRemove(pm, Get(last, "_key")), "unlink",
                            [f EXCEPT !.entry = last, !.op = "evict"])
  <2> DEFINE fr == [op |-> "evict", key |-> f.key, value |-> f.value, entry |-> last]
             k == Get(last, "_key")
  <2>1. [f EXCEPT !.entry = last, !.op = "evict"] = fr
    BY ZenonT(40), <1>1, FrameExcept
  <2>2. last \in S \cup {"head"} /\ last \in Here(m)
    <3>1. last = PrevOf(m, "tail")
      BY DEF Get, Loc, PrevOf
    <3>2. last \in S \cup {"head"}
      BY <3>1 DEF Chain, Ring
    <3> QED
      BY <3>2, LiveIsHere DEF Chain, Ring, Sentinels
  <2>3. k \in Keys
    BY <2>2, PoolGets
  <2>4. Go(MapRemove(pm, k), "unlink", fr) /\ fr.entry \in S \cup {"head"}
    BY <1>4, <2>1, <2>2
  <2> HIDE DEF fr, k, last
  <2> QED
    BY <1>1, <2>3, <2>4, ChainRemove
<1> QED
  BY <1>2, <1>3, <1>4 DEF Evict

(* The first store of cache_delete. *)
LEMMA ChainUnlinks ==
  ASSUME PoolInv, NEW S, Chain(m, pm.doomed, S), ChainFrame(S), Unlink
  PROVE  ChainNow'
<1> DEFINE e == f.entry
           n == Get(e, "next")
           v == Get(e, "prev")
           q == LinkBack(e)
           L == {Loc(n, "prev")}
<1>1. pc = "unlink" /\ e \in Here(m) \ {"tail"} /\ FrameOK
  BY DEF Unlink, PoolInv, FrameOK
<1>2. CASE Undefined
  BY <1>2 DEF Undefined, ChainNow
<1>3. CASE Live(n) /\ Go(q, "relink", f)
  <2>1. /\ Linked(pm, q, L) /\ (\A l \in L : IsLink(l)) /\ q.mem[Loc(n, "prev")] = v
    BY <1>1, <1>3, LinkedBack
  <2>2. n = NextOf(m, e) /\ v = PrevOf(m, e)
    BY DEF Get, Loc, NextOf, PrevOf
  <2>3. Go(q, "relink", f)
    BY <1>3
  <2> HIDE DEF n, v, q, L
  <2>4. /\ Here(m)' = Here(m) /\ \A k \in Keys : InMap(k)' = InMap(k)
        /\ pc' = "relink" /\ f' = f /\ pm' = q /\ m' = q.mem
    BY <2>1, <2>3, LinkedFrame
  <2>5. pm'.doomed = pm.doomed
    BY <2>1, <2>4 DEF Linked
  <2>6. ASSUME NEW o \in Here(m)
        PROVE  NextOf(m', o) = NextOf(m, o) /\ (o # n => PrevOf(m', o) = PrevOf(m, o))
    <3>1. <<o, "next", 0>> \notin L /\ (o # n => <<o, "prev", 0>> \notin L)
      BY DEF L, Loc
    <3> QED
      BY <2>1, <2>4, <3>1, LinkedSame DEF NextOf, PrevOf
  <2>7. PrevOf(m', n) = v
    BY <2>1, <2>4 DEF PrevOf, Loc
  <2>8. PrevOf(m', e) = v
    BY <1>1, <2>2, <2>6, <2>7
  <2>9. CASE e = "head"
    BY <2>4, <2>9 DEF ChainNow, e
  <2>10. CASE e # "head"
    <3>1. e \in S
      BY <1>1, <2>10 DEF ChainFrame, e
    <3>2. \A k \in Keys : InMap(k) \in Entries => InMap(k) \in S \ {e}
      BY <1>1 DEF FrameOK, ChainFrame, e
    <3>3. PICK mem : mem = m
      OBVIOUS
    <3>4. HalfDeleted(mem, S)'
      <4>1. /\ \A k \in Keys : InMap(k)' \in Entries => InMap(k)' \in S \ {f'.entry}
            /\ f'.entry \in S /\ Chain(mem, pm'.doomed, S) /\ Here(mem) = Here(m)'
        BY <2>4, <2>5, <3>1, <3>2, <3>3 DEF e
      <4>2. f'.entry = e /\ NextOf(mem, e) = n /\ PrevOf(mem, e) = v
        BY <2>2, <2>4, <3>3 DEF e
      <4>3. \A o \in Here(mem) :
              /\ NextOf(m', o) = NextOf(mem, o)
              /\ o # n => PrevOf(m', o) = PrevOf(mem, o)
        BY <2>6, <3>3
      <4> HIDE DEF e
      <4> QED
        BY <2>7, <2>8, <4>1, <4>2, <4>3 DEF HalfDeleted
    <3> QED
      BY <2>4, <3>4 DEF ChainNow
  <2> QED
    BY <2>9, <2>10
<1> QED
  BY <1>2, <1>3 DEF Unlink

(* After the second one the deleted entry has left the ring. *)
LEMMA ChainRelinks ==
  ASSUME PoolInv, ChainNow, Relink, pc' # "undefined"
  PROVE  \E T : Chain(m', pm'.doomed, T) /\ ChainFrame(T)'
<1> DEFINE e == f.entry
           n == Get(e, "next")
           v == Get(e, "prev")
           q == LinkForth(e)
           L == {Loc(v, "next")}
<1>1. pc = "relink" /\ e \in Here(m) \ {"tail"} /\ Live(v) /\ Go(q, "free", f)
  BY DEF Relink, PoolInv, FrameOK, Undefined
<1>2. /\ Linked(pm, q, L) /\ (\A l \in L : IsLink(l)) /\ q.mem[Loc(v, "next")] = n
      /\ e # "head" /\ v \in Here(m)
  BY <1>1, LinkedForth
<1>3. n = NextOf(m, e) /\ v = PrevOf(m, e)
  BY DEF Get, Loc, NextOf, PrevOf
<1>4. PICK S, mem : HalfDeleted(mem, S)
  BY <1>1, <1>2 DEF ChainNow
<1> HIDE DEF n, v, q, L
<1>5. /\ Here(m)' = Here(m) /\ \A k \in Keys : InMap(k)' = InMap(k)
      /\ pc' = "free" /\ f' = f /\ pm' = q /\ m' = q.mem
  BY <1>1, <1>2, LinkedFrame
<1>6. pm'.doomed = pm.doomed
  BY <1>2, <1>5 DEF Linked
<1>7. ASSUME NEW o \in Here(m)
      PROVE  PrevOf(m', o) = PrevOf(m, o) /\ (o # v => NextOf(m', o) = NextOf(m, o))
  <2>1. <<o, "prev", 0>> \notin L /\ (o # v => <<o, "next", 0>> \notin L)
    BY DEF L, Loc
  <2> QED
    BY <1>2, <1>5, <2>1, LinkedSame DEF NextOf, PrevOf
<1>8. NextOf(m', v) = n
  BY <1>2, <1>5 DEF NextOf, Loc
<1>9. /\ \A k \in Keys : InMap(k) \in Entries => InMap(k) \in S \ {e}
      /\ e \in S /\ Chain(mem, pm.doomed, S) /\ Here(mem) = Here(m)
      /\ \A o \in Here(mem) :
           /\ NextOf(m, o) = NextOf(mem, o)
           /\ o # NextOf(mem, e) => PrevOf(m, o) = PrevOf(mem, o)
      /\ PrevOf(m, e) = PrevOf(mem, e)
      /\ PrevOf(m, NextOf(mem, e)) = PrevOf(mem, e)
  BY <1>4 DEF HalfDeleted
<1>10. n = NextOf(mem, e) /\ v = PrevOf(mem, e) /\ n \in Here(mem)
  <2>1. e \in Here(mem) /\ NextOf(mem, e) \in S \cup {"tail"} /\ S \subseteq Here(mem)
    BY <1>9 DEF Chain, Ring
  <2>2. "tail" \in Here(mem)
    BY <1>9, LiveIsHere DEF Sentinels
  <2> QED
    BY <1>3, <1>9, <2>1, <2>2
<1>11. /\ PrevOf(m', n) = v
       /\ \A o \in Here(mem) : /\ o # n => PrevOf(m', o) = PrevOf(mem, o)
                               /\ o # v => NextOf(m', o) = NextOf(mem, o)
  BY <1>7, <1>9, <1>10
<1>12. /\ "head" \in Here(mem) /\ "tail" \in Here(mem) /\ Here(m') = Here(mem)
       /\ "head" \notin Entries /\ "tail" \notin Entries
  BY <1>5, <1>9, LiveIsHere, CacheAssumption DEF Sentinels
<1> HIDE DEF e
<1>13. Chain(m', pm.doomed, S \ {e}) /\ e # NextOf(m', "head")
  BY <1>8, <1>9, <1>10, <1>11, <1>12, ChainUnlink
<1>14. PICK T : T = S \ {e}
  OBVIOUS
<1>15. f'.entry = e
  BY <1>5 DEF e
<1>16. ChainFrame(T)'
  BY <1>5, <1>9, <1>13, <1>14, <1>15 DEF ChainFrame
<1> QED
  BY <1>6, <1>13, <1>14, <1>16

(* It is not of the ring, nor the first, when it is marked. *)
LEMMA ChainFree ==
  ASSUME PoolInv, PoolInv', NEW S, Chain(m, pm.doomed, S), ChainFrame(S), Free
  PROVE  Chain(m', pm'.doomed, S) /\ ChainFrame(S)'
<1>1. /\ pc = "free" /\ f.entry \in Here(m) \cap Entries /\ IsTx(pm) /\ pm.fresh = {}
      /\ f.op \in {"get", "set", "evict"}
  BY DEF Free, PoolInv, FrameOK, TxOK, Adding
<1>2. pm' = TxFree(pm, f.entry) /\ pc' \in {"insert", "evict", "new"}
  BY <1>1 DEF Free, FreeEntry, Go
<1>3. pm'.mem = pm.mem /\ pm'.doomed = pm.doomed \cup {f.entry}
  BY <1>1, <1>2, TxFreeLater
<1>4. m' = m /\ \A k : InMap(k)' = InMap(k)
  BY <1>3 DEF m, InMap
<1>5. f.entry \notin S /\ f.entry # NextOf(m, "head")
  BY <1>1 DEF ChainFrame
<1>6. Chain(m', pm'.doomed, S)
  BY <1>1, <1>3, <1>4, <1>5 DEF Chain
<1>7. ChainFrame(S)'
  BY <1>2, <1>4 DEF ChainFrame
<1> QED
  BY <1>6, <1>7

(* A new object is not of the ring either. *)
LEMMA ChainAlloc ==
  ASSUME PoolInv, PoolInv', NEW S, Chain(m, pm.doomed, S),
         NEW o \in FreeOids, NEW q, NEW k, NEW n, NEW pr, Allocated(pm, q, o, k, n, pr), pm' = q
  PROVE  /\ Chain(m', pm'.doomed, S) /\ pm'.doomed = pm.doomed
         /\ \A j \in Keys : InMap(j)' = InMap(j)
         /\ o \notin S \cup pm.doomed
<1>1. /\ Here(q.mem) = Here(m) \cup {o} /\ q.doomed = pm.doomed
      /\ \A x \in DOMAIN m : q.mem[x] = m[x]
      /\ m' = q.mem
  BY DEF Allocated, m
<1>2. Chain(m', pm'.doomed, S)
  <2>1. \A x \in Here(m) : <<x, "next", 0>> \in DOMAIN m /\ <<x, "prev", 0>> \in DOMAIN m
    BY ShapeHas DEF PoolInv, PoolOK, Fields
  <2> QED
    BY <1>1, <2>1, ChainGoes
<1>3. \A j \in Keys : InMap(j)' = InMap(j)
  <2>1. \A j \in Keys : MapLoc(j) \in DOMAIN m
    BY ShapeHas DEF PoolInv, PoolOK
  <2> QED
    BY <1>1, <2>1 DEF InMap, MapLoc
<1>4. o \notin S \cup pm.doomed
  BY FreeOid DEF Chain, Ring
<1> QED
  BY <1>1, <1>2, <1>3, <1>4

LEMMA ChainNew ==
  ASSUME PoolInv, PoolInv', NEW S, Chain(m, pm.doomed, S), ChainFrame(S), New
  PROVE  Chain(m', pm'.doomed, S) /\ ChainFrame(S)'
<1>0. pc = "new"
  BY DEF New
<1>1. PICK o \in FreeOids :
        Go(TxAlloc(pm, o, Contents(o, f.key, f.value, Null, Null)), "add",
           [f EXCEPT !.entry = o])
  BY DEF New
<1> DEFINE q == TxAlloc(pm, o, Contents(o, f.key, f.value, Null, Null))
           fr == [op |-> f.op, key |-> f.key, value |-> f.value, entry |-> o]
<1>2. Allocated(pm, q, o, f.key, Null, Null) /\ [f EXCEPT !.entry = o] = fr
  BY <1>0, NewAllocates, Zenon
<1>3. pm' = q /\ pc' = "add" /\ f' = [f EXCEPT !.entry = o]
  BY <1>1 DEF Go
<1>4. f'.entry = o
  <2>1. f' = fr /\ fr.entry = o
    BY <1>2, <1>3
  <2> HIDE DEF fr
  <2> QED
    BY <2>1
<1> HIDE DEF q
<1>5. /\ Chain(m', pm'.doomed, S) /\ pm'.doomed = pm.doomed
      /\ \A j \in Keys : InMap(j)' = InMap(j)
      /\ o \notin S \cup pm.doomed
  BY <1>2, <1>3, ChainAlloc
<1>6. ChainFrame(S)'
  BY <1>3, <1>4, <1>5 DEF ChainFrame
<1> QED
  BY <1>5, <1>6

LEMMA ChainAdd ==
  ASSUME PoolInv, PoolInv', NEW S, Chain(m, pm.doomed, S), ChainFrame(S), Add
  PROVE  Chain(m', pm'.doomed, S) /\ ChainFrame(S)'
<1> DEFINE first == Get("head", "next")
           k == Get(first, "_key")
           n == Get(first, "next")
           p == Get(first, "prev")
           copy(o) == Contents(o, k, Get(first, "_value"), n, p)
<1>0. pc = "add"
  BY DEF Add
<1>1. CASE Undefined
  BY <1>1, ChainSame DEF Undefined
<1>2. ASSUME Live(first), NEW o \in FreeOids,
             Go(TxAlloc(pm, o, copy(o)), "link", [entry |-> f.entry, dummy |-> o])
      PROVE  Chain(m', pm'.doomed, S) /\ ChainFrame(S)'
  <2> DEFINE q == TxAlloc(pm, o, copy(o))
  <2>1. Allocated(pm, q, o, k, n, p)
    BY <1>0, <1>2, AddAllocates
  <2>2. pm' = q /\ pc' = "link" /\ f'.entry = f.entry /\ f'.dummy = o
    BY <1>2 DEF Go
  <2> HIDE DEF q, k, n, p
  <2>3. /\ Chain(m', pm'.doomed, S) /\ pm'.doomed = pm.doomed
        /\ \A j \in Keys : InMap(j)' = InMap(j)
        /\ o \notin S \cup pm.doomed
    BY <2>1, <2>2, ChainAlloc
  <2>4. f.entry \notin S \cup pm.doomed
    BY <1>0 DEF ChainFrame
  <2>5. ChainFrame(S)'
    BY <2>2, <2>3, <2>4 DEF ChainFrame
  <2> QED
    BY <2>3, <2>5
<1> QED
  BY <1>1, <1>2 DEF Add

(* cache_add puts the new entry first, and the ring is as it was. *)
LEMMA ChainLinks ==
  ASSUME PoolInv, NEW S, Chain(m, pm.doomed, S), ChainFrame(S), Link
  PROVE  Chain(m', pm'.doomed, S) /\ ChainFrame(S)'
<1> DEFINE e == f.entry
           d == f.dummy
           q == LinkedIn
<1>1. pc = "link" /\ Go(q, "end", f) /\ e \in Here(m) \cap Entries
  BY DEF Link, LinkedIn, PoolInv, FrameOK
<1>2. /\ Linked(pm, q, LinkSet) /\ (\A l \in LinkSet : IsLink(l))
      /\ q.mem[Loc("head", "next")] = e
  BY <1>1, LinkedFirst
<1> HIDE DEF q
<1>3. /\ Here(m)' = Here(m) /\ \A k \in Keys : InMap(k)' = InMap(k)
      /\ pc' = "end" /\ pm' = q /\ m' = q.mem
  BY <1>1, <1>2, LinkedFrame
<1>4. pm'.doomed = pm.doomed /\ Here(m') = Here(m)
  BY <1>2, <1>3 DEF Linked
<1>5. e \notin S \cup pm.doomed /\ d \notin S \cup pm.doomed
  BY <1>1 DEF ChainFrame
<1>6. d \in Entries
  BY <1>1 DEF PoolInv, FrameOK
<1>7. /\ "head" \notin Entries /\ "tail" \notin Entries /\ "tail" \in Here(m)
  BY LiveIsHere, CacheAssumption DEF Sentinels
<1>8. /\ S \subseteq Here(m) \cap Entries /\ S \cap pm.doomed = {}
      /\ pm.doomed \subseteq Here(m) \cap Entries
  BY DEF Chain, Ring
<1>9. LinkSet = {Loc("head", "next"), Loc(e, "prev"), Loc(e, "next"), Loc(d, "prev")}
  BY DEF LinkSet
<1> HIDE DEF e, d
<1>10. ASSUME NEW x \in S \cup {"tail"}
       PROVE  NextOf(m', x) = NextOf(m, x) /\ PrevOf(m', x) = PrevOf(m, x)
  <2>1. x \in Here(m) /\ x \notin {e, d, "head"}
    BY <1>5, <1>6, <1>1, <1>7, <1>8
  <2>2. <<x, "next", 0>> \notin LinkSet /\ <<x, "prev", 0>> \notin LinkSet
    BY <1>9, <2>1 DEF Loc
  <2>3. /\ q.mem[<<x, "next", 0>>] = m[<<x, "next", 0>>]
        /\ q.mem[<<x, "prev", 0>>] = m[<<x, "prev", 0>>]
    BY <1>2, <2>1, <2>2, LinkedSame
  <2> QED
    BY <1>3, <2>3 DEF NextOf, PrevOf
<1>11. Ring(m', S)
  BY <1>4, <1>8, <1>10 DEF Chain, Ring
<1>12. NextOf(m', "head") = e
  BY <1>2, <1>3 DEF NextOf, Loc
<1>13. Chain(m', pm'.doomed, S)
  <2>1. e \notin S \cup {"tail"} /\ e \in Here(m') \ pm'.doomed
    BY <1>1, <1>4, <1>5, <1>7
  <2> QED
    BY <1>4, <1>8, <1>11, <1>12, <2>1 DEF Chain
<1>14. ChainFrame(S)'
  BY <1>3 DEF ChainFrame
<1> QED
  BY <1>13, <1>14

(* A commit releases what is marked, and nothing of the ring is. *)
LEMMA ChainCommits ==
  ASSUME PoolInv, PoolInv', NEW S, NEW p, NEW gotten, Committed(p, gotten),
         PoolOK(p.mem), Chain(p.mem, p.doomed, S),
         \A k \in Keys : p.mem[MapLoc(k)] \in Entries => p.mem[MapLoc(k)] \in S
  PROVE  Chain(m', pm'.doomed, S) /\ ChainFrame(S)'
<1> DEFINE c == Without(p.mem, p.doomed)
<1>1. m' = c /\ pm'.doomed = {} /\ pc' = "idle"
  BY NoTxFields DEF Committed, Commit, m
<1>2. p.doomed \in SUBSET Entries
  BY DEF Chain
<1> HIDE DEF c
<1>3. /\ PoolOK(c) /\ Here(c) = Here(p.mem) \ p.doomed
      /\ \A x \in DOMAIN c : x \in DOMAIN p.mem /\ c[x] = p.mem[x]
  BY <1>2, WithoutPool DEF c
<1>4. \A o \in Here(p.mem) \ p.doomed : /\ c[<<o, "next", 0>>] = p.mem[<<o, "next", 0>>]
                                        /\ c[<<o, "prev", 0>>] = p.mem[<<o, "prev", 0>>]
  <2>1. \A o \in Here(c) : <<o, "next", 0>> \in DOMAIN c /\ <<o, "prev", 0>> \in DOMAIN c
    BY <1>3, ShapeHas DEF PoolOK, Fields
  <2> QED
    BY <1>3, <2>1
<1>5. Chain(c, {}, S)
  <2> DEFINE none == {}
  <2>1. none \subseteq p.doomed /\ none \subseteq Here(c) /\ Here(p.mem) \ p.doomed \subseteq Here(c)
    BY <1>3
  <2> HIDE DEF none
  <2>2. Chain(c, none, S)
    BY <1>3, <1>4, <2>1, ChainKept
  <2> QED
    BY <2>2 DEF none
<1>6. \A k \in Keys : InMap(k)' = p.mem[MapLoc(k)]
  <2>1. \A k \in Keys : MapLoc(k) \in DOMAIN c
    BY <1>3, ShapeHas DEF PoolOK
  <2> QED
    BY <1>1, <1>3, <2>1 DEF InMap, MapLoc
<1>7. ChainFrame(S)'
  BY <1>1, <1>6 DEF ChainFrame
<1> QED
  BY <1>1, <1>5, <1>7

(* The end of cache_get. *)
LEMMA ChainInsert ==
  ASSUME PoolInv, PoolInv', NEW S, Chain(m, pm.doomed, S), ChainFrame(S), Insert
  PROVE  Chain(m', pm'.doomed, S) /\ ChainFrame(S)'
<1>1. CASE Undefined
  BY <1>1, ChainSame DEF Undefined
<1>2. ASSUME NEW b \in FirstBytesOf(Get("head", "next")),
             Committed(MapSet(pm, f.key, b), {f.key})
      PROVE  Chain(m', pm'.doomed, S) /\ ChainFrame(S)'
  <2> DEFINE q == MapSet(pm, f.key, b)
  <2>1. /\ pc \in {"idle", "evict", "insert"} /\ f.key \in Keys
        /\ b \in {Absent, ZeroOid, Stray}
    BY NoEntryRead DEF Insert, PoolInv, FrameOK
  <2>2. /\ PoolOK(q.mem) /\ Here(q.mem) = Here(m) /\ q.doomed = pm.doomed
        /\ \A o \in Here(m), x \in Fields : q.mem[<<o, x, 0>>] = m[<<o, x, 0>>]
        /\ \A j \in Keys : q.mem[MapLoc(j)] \in Entries =>
             j # f.key /\ q.mem[MapLoc(j)] = InMap(j) /\ InMap(j) \notin q.doomed
    BY <2>1, SetPool
  <2>3. Committed(q, {f.key})
    BY <1>2
  <2> HIDE DEF q
  <2>4. Chain(q.mem, q.doomed, S)
    <3>1. PoolOK(m)
      BY DEF PoolInv
    <3>2. /\ q.doomed \subseteq pm.doomed /\ q.doomed \subseteq Here(q.mem)
          /\ Here(m) \ pm.doomed \subseteq Here(q.mem)
          /\ \A o \in Here(m) \ pm.doomed : /\ q.mem[<<o, "next", 0>>] = m[<<o, "next", 0>>]
                                            /\ q.mem[<<o, "prev", 0>>] = m[<<o, "prev", 0>>]
      BY <2>2 DEF Chain, Fields
    <3> QED
      BY <2>2, <3>1, <3>2, ChainKept
  <2>5. \A k \in Keys : q.mem[MapLoc(k)] \in Entries => q.mem[MapLoc(k)] \in S
    BY <2>2 DEF ChainFrame
  <2> QED
    BY <2>2, <2>3, <2>4, <2>5, ChainCommits
<1> QED
  BY <1>1, <1>2 DEF Insert

(* And of cache_set. *)
LEMMA ChainEnd ==
  ASSUME PoolInv, PoolInv', NEW S, Chain(m, pm.doomed, S), ChainFrame(S), End
  PROVE  Chain(m', pm'.doomed, S) /\ ChainFrame(S)'
<1>1. pm.mem = m /\ PoolOK(m) /\ Committed(pm, {})
  BY DEF End, m, PoolInv
<1>2. \A k \in Keys : pm.mem[MapLoc(k)] \in Entries => pm.mem[MapLoc(k)] \in S
  BY <1>1, PoolGets DEF ChainFrame
<1> QED
  BY <1>1, <1>2, ChainCommits

(* A rollback that gives back all of the last commit gives back its ring. *)
LEMMA ChainRollsBack ==
  ASSUME PoolInv, ChainBack, NEW r, RolledBack(r), ~torn'
  PROVE  ChainNow' /\ ChainBack'
<1>1. Recovered(pm) = durable /\ pm' = Rollback(pm) /\ pc' = "idle" /\ durable' = durable
  BY DEF RolledBack, Fixed
<1>2. m' = durable /\ pm'.doomed = {}
  BY <1>1, NoTxFields DEF m, Rollback
<1>3. PICK S : /\ Chain(durable, {}, S)
               /\ \A k \in Keys : durable[MapLoc(k)] \in Entries => durable[MapLoc(k)] \in S
  BY DEF ChainBack
<1>4. \A k \in Keys : InMap(k)' = durable[MapLoc(k)]
  BY <1>2 DEF InMap, MapLoc
<1>5. ChainFrame(S)'
  BY <1>1, <1>3, <1>4 DEF ChainFrame
<1>6. Chain(m', pm'.doomed, S)
  BY <1>2, <1>3
<1>7. ChainNow'
  BY <1>1, <1>5, <1>6 DEF ChainNow
<1>8. ChainBack'
  BY <1>1, <1>3 DEF ChainBack
<1> QED
  BY <1>7, <1>8

(* What the last commit left. *)
LEMMA ChainBackKept ==
  ASSUME ChainBack, ChainNow',
         durable' = durable \/ (pc' = "idle" /\ m' = durable' /\ pm'.doomed = {})
  PROVE  ChainBack'
<1>1. CASE durable' = durable
  BY <1>1 DEF ChainBack
<1>2. CASE pc' = "idle" /\ m' = durable' /\ pm'.doomed = {}
  <2>1. PICK S : Chain(m', pm'.doomed, S) /\ ChainFrame(S)'
    BY <1>2 DEF ChainNow
  <2>2. \A k \in Keys : InMap(k)' = durable'[MapLoc(k)]
    BY <1>2 DEF InMap, MapLoc
  <2>3. \A k \in Keys : durable'[MapLoc(k)] \in Entries => durable'[MapLoc(k)] \in S
    BY <2>1, <2>2 DEF ChainFrame
  <2> QED
    BY <1>2, <2>1, <2>3 DEF ChainBack
<1> QED
  BY <1>1, <1>2

(* What a step does to the last commit, if it is none of a rollback. *)
LEMMA CommitsOrNot ==
  ASSUME NEW p, NEW place, NEW frame, NEW gotten,
         Go(p, place, frame) \/ Undefined \/ Committed(p, gotten)
  PROVE  /\ durable' = durable \/ (pc' = "idle" /\ m' = durable' /\ pm'.doomed = {})
         /\ torn' = torn
<1>1. CASE Go(p, place, frame) \/ Undefined
  BY <1>1 DEF Go, Undefined, Fixed
<1>2. CASE Committed(p, gotten)
  BY <1>2, NoTxFields DEF Committed, Commit, m
<1> QED
  BY <1>1, <1>2

(* Every step. *)
LEMMA StepShape ==
  ASSUME Next, \A r : ~RolledBack(r)
  PROVE  \E p, place, frame, gotten :
           Go(p, place, frame) \/ Undefined \/ Committed(p, gotten)
<1>1. CASE \E k \in Keys : cache_get(k) \/ \E v \in Values : cache_set(k, v)
  BY <1>1 DEF cache_get, cache_set
<1>2. CASE Unlink \/ Relink \/ Free \/ Evict
  BY <1>2 DEF Unlink, Relink, Free, Evict
<1>3. CASE Insert \/ New \/ Add
  BY <1>3 DEF Insert, New, Add
<1>4. CASE Link \/ End
  BY <1>4 DEF Link, End
<1> QED
  BY <1>1, <1>2, <1>3, <1>4 DEF Next, Abort, Crash

LEMMA ChainStep ==
  ASSUME PoolInv, ChainInv, [Next]_vars
  PROVE  ChainInv'
<1>1. PoolInv'
  BY PoolStep
<1> SUFFICES ASSUME ~torn' PROVE ChainNow' /\ ChainBack'
  BY DEF ChainInv
<1>2. CASE UNCHANGED vars
  <2>1. UNCHANGED <<pm, durable, torn, pc, f>> /\ ChainNow /\ ChainBack
    BY <1>2 DEF vars, ChainInv
  <2>2. m' = m /\ \A k : InMap(k)' = InMap(k)
    BY <2>1 DEF m, InMap
  <2>3. \A S : ChainFrame(S) => ChainFrame(S)'
    BY <2>1, <2>2 DEF ChainFrame
  <2>4. \A S, mem : HalfDeleted(mem, S) => HalfDeleted(mem, S)'
    BY <2>1, <2>2 DEF HalfDeleted
  <2> QED
    BY <2>1, <2>2, <2>3, <2>4 DEF ChainNow, ChainBack
<1>3. ASSUME NEW r, RolledBack(r) PROVE ChainNow' /\ ChainBack'
  <2>1. ~torn
    BY <1>3 DEF RolledBack
  <2> QED
    BY <1>3, <2>1, ChainRollsBack DEF ChainInv
<1>4. CASE Next /\ \A r : ~RolledBack(r)
  <2>1. /\ durable' = durable \/ (pc' = "idle" /\ m' = durable' /\ pm'.doomed = {})
        /\ torn' = torn
    BY <1>4, StepShape, CommitsOrNot
  <2>2. ChainNow /\ ChainBack
    BY <2>1 DEF ChainInv
  <2>3. ASSUME NEW S, Chain(m', pm'.doomed, S) /\ ChainFrame(S)', pc' # "relink"
        PROVE  ChainNow'
    BY <2>3 DEF ChainNow
  <2>4. ChainNow'
    <3>1. CASE pc' = "undefined"
      BY <3>1 DEF ChainNow
    <3>2. CASE Relink /\ pc' # "undefined"
      <4>1. pc' = "free"
        BY <3>2 DEF Relink, Go, Undefined
      <4>2. \E T : Chain(m', pm'.doomed, T) /\ ChainFrame(T)'
        BY <2>2, <3>2, ChainRelinks
      <4> QED
        BY <2>3, <4>1, <4>2
    <3>3. CASE ~Relink
      <4>1. pc \notin {"undefined", "relink"}
        BY <1>4, <3>3 DEF Next, Unlink, Free, Insert, Evict, New, Add, Link, End, Abort, Crash,
                          cache_get, cache_set
      <4>2. PICK S : Chain(m, pm.doomed, S) /\ ChainFrame(S)
        BY <2>2, <4>1 DEF ChainNow
      <4>3. CASE Unlink
        BY <4>2, <4>3, ChainUnlinks
      <4>4. CASE \/ Free \/ Insert \/ Evict \/ New \/ Add \/ Link \/ End
                \/ \E k \in Keys : cache_get(k) \/ \E v \in Values : cache_set(k, v)
        <5>1. Chain(m', pm'.doomed, S) /\ ChainFrame(S)'
          BY <1>1, <1>4, <4>2, <4>4, ChainFree, ChainInsert, ChainEvict, ChainNew, ChainAdd,
             ChainLinks, ChainEnd, ChainCall
        <5>2. pc' # "relink"
          <6>1. CASE \E k \in Keys : cache_get(k) \/ \E v \in Values : cache_set(k, v)
            BY <1>4, <6>1 DEF cache_get, cache_set, Go, Undefined
          <6>2. CASE Free
            <7>1. f.op \in {"get", "set", "evict"}
              BY <6>2 DEF Free, PoolInv, FrameOK
            <7> QED
              BY <6>2, <7>1 DEF Free, Go
          <6>3. CASE Insert \/ Evict
            BY <6>3 DEF Insert, Evict, Go, Undefined, Committed
          <6>4. CASE New \/ Add \/ Link \/ End
            BY <6>4 DEF New, Add, Link, End, Go, Undefined, Committed
          <6> QED
            BY <4>4, <6>1, <6>2, <6>3, <6>4
        <5> QED
          BY <2>3, <5>1, <5>2
      <4> QED
        BY <1>4, <3>3, <4>3, <4>4 DEF Next, Abort, Crash
    <3> QED
      BY <3>1, <3>2, <3>3
  <2> QED
    BY <2>1, <2>2, <2>4, ChainBackKept
<1> QED
  BY <1>2, <1>3, <1>4

(* The caches that are built are such rings. *)
LEMMA ChainInit ==
  ASSUME Init
  PROVE  ChainInv
<1>1. PICK n, chain, keys : Chained(durable, n, chain, keys)
  BY InitChained
<1>2. /\ pm = NoTx(durable) /\ m = durable /\ pc = "idle"
      /\ PoolOK(m) /\ Here(m) = {chain[i] : i \in 1 .. (n + 2)}
  BY <1>1, InitChained, ChainedPool
<1>3. pm.doomed = {}
  BY <1>2, NoTxFields
<1> DEFINE S == {chain[i] : i \in 2 .. (n + 1)}
<1>4. /\ n \in Nat /\ chain[1] = "head" /\ chain[n + 2] = "tail"
      /\ \A i \in 2 .. (n + 1) : chain[i] \in Entries
  BY <1>1 DEF Chained
<1>5. ASSUME NEW i \in 1 .. (n + 2)
      PROVE  /\ i # n + 2 => NextOf(m, chain[i]) = chain[i + 1]
             /\ i # 1 => PrevOf(m, chain[i]) = chain[i - 1]
  BY <1>1, <1>2 DEF Chained, NextOf, PrevOf
<1>6. /\ \A i \in 2 .. (n + 2) : chain[i] \in S \cup {"tail"}
      /\ \A i \in 1 .. (n + 1) : chain[i] \in S \cup {"head"}
      /\ \A y \in S \cup {"tail"} : \E i \in 2 .. (n + 2) : y = chain[i]
  BY <1>4
<1>7. ASSUME NEW x \in S
      PROVE  NextOf(m, x) \in S \cup {"tail"} /\ PrevOf(m, NextOf(m, x)) = x
  <2>1. PICK i \in 2 .. (n + 1) : x = chain[i]
    OBVIOUS
  <2>2. /\ i \in 1 .. (n + 2) /\ i # n + 2 /\ i + 1 \in 2 .. (n + 2)
        /\ i + 1 \in 1 .. (n + 2) /\ i + 1 # 1 /\ (i + 1) - 1 = i
    BY <1>4
  <2> HIDE DEF S
  <2> QED
    BY <1>5, <1>6, <2>1, <2>2
<1>8. ASSUME NEW y \in S \cup {"tail"}
      PROVE  /\ PrevOf(m, y) \in S \cup {"head"}
             /\ PrevOf(m, y) \in S => NextOf(m, PrevOf(m, y)) = y
  <2> HIDE DEF S
  <2>1. PICK i \in 2 .. (n + 2) : y = chain[i]
    BY <1>6
  <2>2. /\ i \in 1 .. (n + 2) /\ i # 1 /\ i - 1 \in 1 .. (n + 1)
        /\ i - 1 \in 1 .. (n + 2) /\ i - 1 # n + 2 /\ (i - 1) + 1 = i
    BY <1>4
  <2> QED
    BY <1>5, <1>6, <2>1, <2>2
<1>9. S \subseteq Here(m) \cap Entries
  BY <1>2, <1>4
<1>10. Ring(m, S)
  <2> HIDE DEF S
  <2> QED
    BY <1>7, <1>8, <1>9 DEF Ring
<1>11. NextOf(m, "head") = chain[2] /\ chain[2] \in Here(m) /\ PrevOf(m, chain[2]) = "head"
  <2>1. 1 \in 1 .. (n + 2) /\ 2 \in 1 .. (n + 2) /\ 1 # n + 2 /\ 1 + 1 = 2 /\ 2 - 1 = 1
    BY <1>4
  <2> QED
    BY <1>2, <1>4, <1>5, <2>1
<1>12. Chain(m, pm.doomed, S)
  <2> HIDE DEF S
  <2> QED
    BY <1>3, <1>10, <1>11 DEF Chain
<1>13. ChainFrame(S)
  <2>1. ASSUME NEW k \in Keys, InMap(k) \in Entries PROVE InMap(k) \in S
    <3>1. InMap(k) = durable[MapLoc(k)] /\ Absent \notin Entries
      BY <1>2, CacheAssumption DEF InMap, MapLoc
    <3> QED
      BY <1>1, <2>1, <3>1 DEF Chained
  <2> QED
    BY <1>2, <2>1 DEF ChainFrame
<1>14. ChainBack
  <2>1. \A k \in Keys : InMap(k) = durable[MapLoc(k)]
    BY <1>2 DEF InMap, MapLoc
  <2> HIDE DEF S
  <2> QED
    BY <1>2, <1>3, <1>12, <1>13, <2>1 DEF ChainBack, ChainFrame
<1>15. ChainNow
  <2> HIDE DEF S
  <2> QED
    BY <1>2, <1>12, <1>13 DEF ChainNow
<1> QED
  BY <1>14, <1>15 DEF ChainInv

(* Until a rollback tears the links the entries that were built form a ring that no step
   leaves half done but the one between the two stores of cache_delete, and head leads to
   an entry that is there. *)
THEOREM CacheChain == Spec => []ChainInv
<1>1. Init => ChainInv
  BY ChainInit
<1>2. PoolInv /\ ChainInv /\ [Next]_vars => ChainInv'
  BY ChainStep
<1> QED
  BY <1>1, <1>2, CachePool, PTL DEF Spec

(* As long as no rollback tears the links head->next is allocated between calls, for all
   that cache_add does not link its entries into the list. *)
THEOREM CacheFirstIsLive == Spec => []FirstIsLive
<1>1. ASSUME PoolInv, ChainInv PROVE FirstIsLive
  <2> SUFFICES ASSUME pc = "idle", ~torn PROVE Live(Get("head", "next"))
    BY DEF FirstIsLive
  <2>1. PICK S : Chain(m, pm.doomed, S)
    BY <1>1 DEF ChainInv, ChainNow
  <2>2. Get("head", "next") = NextOf(m, "head")
    BY DEF Get, Loc, NextOf
  <2>3. Get("head", "next") \in Here(m)
    BY <2>1, <2>2 DEF Chain
  <2> QED
    BY <1>1, <2>3, LiveIsHere
<1> QED
  BY <1>1, CachePool, CacheChain, PTL
=============================================================================
