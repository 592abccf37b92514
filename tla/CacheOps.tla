------------------------------ MODULE CacheOps -------------------------------
(***************************************************************************)
(* cache_get and cache_set of src/cache, with cache_add and cache_delete,  *)
(* on a cache that a client has built: cache_new creates none (module      *)
(* Cache).  Its list has sentinels at head and tail and its map holds the  *)
(* entries of the list.  Of hashmap_tx the calls are used as TxMap has     *)
(* them: the oid of a key is one location, snapshotted before it changes.  *)
(*                                                                         *)
(* The fields of struct Cache are never written, so their snapshots are    *)
(* left out.  A dereference of Null, of an object that is gone, or of an   *)
(* oid that is none leads to pc = "undefined", of which nothing is said.   *)
(* The links that TX_NEW leaves unset count as Null.                       *)
(*                                                                         *)
(* An abort or a crash may come between any two steps.  A step has one     *)
(* store to what a rollback keeps, with stores to objects of the running   *)
(* transaction, which go with it.                                          *)
(***************************************************************************)
EXTENDS Integers, FiniteSets, Sequences, PmemTx

CONSTANTS
  Keys, Values,  \* 0 in both: the sentinels are zeroed, and an oid of offset 0 is null
  Entries,       \* oids the pool has for CacheEntry objects
  Null,
  Absent,        \* the map has no such key
  ZeroOid,       \* the map has it with an oid of offset 0, which OID_IS_NULL takes for null
  Stray,         \* ... with an oid that is not one of the pool
  Capacities,
  Built          \* the sequences of keys of the caches a client may have built

ASSUME CacheAssumption ==
  /\ 0 \in Keys /\ 0 \in Values
  /\ IsFiniteSet(Entries)
  /\ {"head", "tail", "map", Null, Absent, ZeroOid, Stray} \cap Entries = {}
  /\ Null \notin {"head", "tail", "map"}
  /\ \A s \in Built : s \in Seq(Keys) /\ Len(s) <= Cardinality(Entries)

VARIABLES
  pm,        \* the pool
  capacity,  \* cache->capacity, fixed
  durable,   \* history: the pool after the last commit
  torn,      \* history: a rollback gave back other links than the last commit's
  got,       \* history: the keys that a cache_get returned 0 for
  pc, f,     \* where the running call is, and its locals
  ret

vars == <<pm, capacity, durable, torn, got, pc, f, ret>>

m == pm.mem
Loc(o, field) == <<o, field, 0>>
Get(o, field) == m[Loc(o, field)]
InMap(k) == m[<<"map", "oid", k>>]
Live(o) == o \in Objects(m)

NoFrame == [op |-> "none"]

(* struct CacheEntry *)
Contents(o, k, v, n, p) ==
  [l \in {o} \X {"_key", "_value", "next", "prev"} \X {0} |->
     CASE l[2] = "_key" -> k [] l[2] = "_value" -> v [] l[2] = "next" -> n [] OTHER -> p]

(* The pool with a cache of the keys s, in the entries `names'. *)
Image(s, names) ==
  LET chain == <<"head">> \o names \o <<"tail">>
      keys  == <<0>> \o s \o <<0>>
      entry(i) == IF i \in DOMAIN chain THEN chain[i] ELSE Null
      at(o) == CHOOSE i \in DOMAIN chain : chain[i] = o
      object(i) == Contents(chain[i], keys[i], 0, entry(i + 1), entry(i - 1))
      oid(k) == IF \E i \in DOMAIN s : s[i] = k
                THEN names[CHOOSE i \in DOMAIN s : s[i] = k] ELSE Absent
  IN  [l \in (UNION {DOMAIN object(i) : i \in DOMAIN chain}) \cup ({"map"} \X {"oid"} \X Keys) |->
         IF l[1] = "map" THEN oid(l[3]) ELSE object(at(l[1]))[l]]

Init ==
  /\ \E s \in Built : \E names \in [DOMAIN s -> Entries] :
       /\ \A i, j \in DOMAIN s : names[i] = names[j] => i = j
       /\ durable = Image(s, names)
  /\ pm = NoTx(durable)
  /\ capacity \in Capacities
  /\ torn = FALSE /\ got = {}
  /\ pc = "idle" /\ f = NoFrame /\ ret = 0
-----------------------------------------------------------------------------
Fixed == UNCHANGED <<capacity, durable>>

Go(p, place, frame) ==
  /\ pm' = p /\ pc' = place /\ f' = frame
  /\ UNCHANGED <<ret, torn, got>> /\ Fixed

Undefined == pc' = "undefined" /\ UNCHANGED <<pm, f, ret, torn, got>> /\ Fixed

(* The outermost TX_END after an abort, or the pool reopened after a crash. *)
RolledBack(r) ==
  /\ pm' = Rollback(pm) /\ torn' = (torn \/ Recovered(pm) # durable)
  /\ pc' = "idle" /\ f' = NoFrame /\ ret' = r
  /\ UNCHANGED got /\ Fixed

Committed(p, gotten) ==
  /\ pm' = Commit(p) /\ durable' = Commit(p).mem
  /\ pc' = "idle" /\ f' = NoFrame /\ ret' = 0
  /\ got' = got \cup gotten
  /\ UNCHANGED <<capacity, torn>>

MapSet(p, k, oid) ==
  LET l == <<"map", "oid", k>> IN Store(TxAdd(p, {l}), l, oid)

(* hm_tx_remove and hm_tx_count *)
MapRemove(p, k) == MapSet(p, k, Absent)
MapCount == Cardinality({k \in Keys : InMap(k) # Absent})

FirstItself(o) == {o}
FirstValueOf(o) == {Get(o, "_value")}

(* The oids that cache_get may read from the first 16 bytes of a CacheEntry: the key
   for a pool; for an offset the value and four bytes of padding, which TX_NEW leaves
   as they were. *)
FirstBytesOf(o) ==
  IF Get(o, "_value") # 0 THEN {Stray}
  ELSE IF o \in Entries THEN {ZeroOid, Stray} ELSE {ZeroOid}
-----------------------------------------------------------------------------
(* cache_get up to hm_tx_remove; a key without an entry aborts. *)
cache_get(k) ==
  /\ pc = "idle"
  /\ \/ InMap(k) \in {Absent, ZeroOid} /\ RolledBack(-1)
     \/ InMap(k) = Stray /\ Undefined
     \/ InMap(k) \in Entries
        /\ Go(MapRemove(pm, k), "unlink", [op |-> "get", key |-> k, entry |-> InMap(k)])

(* cache_set up to hm_tx_remove. *)
cache_set(k, v) ==
  /\ pc = "idle"
  /\ LET frame(e) == [op |-> "set", key |-> k, value |-> v, entry |-> e]
     IN  \/ InMap(k) = Stray /\ Undefined
         \/ InMap(k) \in {Absent, ZeroOid} /\ Go(pm, "evict", frame(Null))
         \/ InMap(k) \in Entries /\ Go(MapRemove(pm, k), "unlink", frame(InMap(k)))

EvictKeepingKey ==
  /\ pc = "evict"
  /\ LET last == Get("tail", "prev")
     IN  \/ MapCount # capacity /\ Go(pm, "new", f)
         \/ MapCount = capacity /\ ~Live(last) /\ Undefined
         \/ MapCount = capacity /\ Live(last)
            /\ Go(pm, "unlink", [f EXCEPT !.entry = last, !.op = "evict"])

(* At its capacity the map loses the key of the entry before tail. *)
Evict ==
  /\ pc = "evict"
  /\ LET last == Get("tail", "prev")
     IN  \/ MapCount # capacity /\ Go(pm, "new", f)
         \/ MapCount = capacity /\ ~Live(last) /\ Undefined
         \/ MapCount = capacity /\ Live(last)
            /\ Go(MapRemove(pm, Get(last, "_key")), "unlink",
                  [f EXCEPT !.entry = last, !.op = "evict"])

(* cache_delete, its plain stores: delNext->prev = delPrev; delPrev->next = delNext.
   Neither changes the links of the entry itself. *)
LinkBack(e) == Store(pm, Loc(Get(e, "next"), "prev"), Get(e, "prev"))
LinkForthNowhere(e) == pm
LinkForth(e) == Store(pm, Loc(Get(e, "prev"), "next"), Get(e, "next"))

Unlink ==
  /\ pc = "unlink"
  /\ IF Live(Get(f.entry, "next")) THEN Go(LinkBack(f.entry), "relink", f) ELSE Undefined

Relink ==
  /\ pc = "relink"
  /\ IF Live(Get(f.entry, "prev")) THEN Go(LinkForth(f.entry), "free", f) ELSE Undefined

FreeAtOnce(p, e) == [p EXCEPT !.mem = Without(@, {e})]
FreeEntry(p, e) == TxFree(p, e)

(* cache_delete: TX_FREE(entry) *)
Free ==
  /\ pc = "free"
  /\ Go(FreeEntry(pm, f.entry),
        CASE f.op = "get" -> "insert" [] f.op = "set" -> "evict" [] OTHER -> "new", f)

(* The rest of cache_get: hm_tx_insert with what is read through head->next.oid. *)
Insert ==
  /\ pc = "insert"
  /\ IF Live(Get("head", "next"))
     THEN \E oid \in FirstBytesOf(Get("head", "next")) :
            Committed(MapSet(pm, f.key, oid), {f.key})
     ELSE Undefined

FreeOids == Entries \ Objects(m)

(* newEntry = TX_NEW(struct CacheEntry), with its key and value; any free oid will do,
   one that a link still leads to among them. *)
New ==
  /\ pc = "new"
  /\ \E o \in FreeOids :
       Go(TxAlloc(pm, o, Contents(o, f.key, f.value, Null, Null)), "add",
          [f EXCEPT !.entry = o])

(* cache_add: dummy = TX_NEW, a copy of the first entry. *)
Add ==
  /\ pc = "add"
  /\ LET first == Get("head", "next")
         copy(o) == Contents(o, Get(first, "_key"), Get(first, "_value"),
                             Get(first, "next"), Get(first, "prev"))
     IN  IF Live(first)
         THEN \E dummy \in FreeOids :
                Go(TxAlloc(pm, dummy, copy(dummy)), "link",
                   [entry |-> f.entry, dummy |-> dummy])
         ELSE Undefined

(* head->next = entry, without a snapshot; entry and dummy get their links. *)
Link ==
  /\ pc = "link"
  /\ Go(Store(Store(Store(Store(pm, Loc("head", "next"), f.entry),
                          Loc(f.entry, "prev"), "head"),
                    Loc(f.entry, "next"), f.dummy),
              Loc(f.dummy, "prev"), f.entry), "end", f)

(* The map is not told of the new entry, so the rest of cache_set finds nothing to do
   before it commits. *)
End == pc = "end" /\ Committed(pm, {})

(* Any libpmemobj call of a transaction may fail, and the program end anywhere. *)
Abort == pc \notin {"idle", "undefined"} /\ RolledBack(-1)
Crash == pc \notin {"idle", "undefined"} /\ RolledBack(ret)

Next ==
  \/ Unlink \/ Relink \/ Free \/ Insert
  \/ Evict \/ New \/ Add \/ Link \/ End
  \/ Abort \/ Crash
  \/ \E k \in Keys : cache_get(k) \/ \E v \in Values : cache_set(k, v)

Spec == Init /\ [][Next]_vars
-----------------------------------------------------------------------------
(* Properties. *)

Places == {"idle", "undefined", "unlink", "relink", "free", "insert", "evict", "new",
           "add", "link", "end"}

(* The pool holds the sentinels, the map and entries with all their fields. *)
TypeOK ==
  /\ Objects(m) \subseteq {"head", "tail", "map"} \cup Entries
  /\ \A o \in Objects(m) \ {"map"} :
       /\ Get(o, "_key") \in Keys /\ Get(o, "_value") \in Values
       /\ {Get(o, "next"), Get(o, "prev")} \subseteq {Null, "head", "tail"} \cup Entries
  /\ \A k \in Keys : InMap(k) \in Entries \cup {Absent, ZeroOid, Stray}
  /\ pc \in Places /\ got \subseteq Keys /\ ret \in {-1, 0}

IsLink(l) == l[2] \in {"next", "prev"}

(* At every step an abort or a crash gives back all of the last commit but the links
   of the list, which cache_add and cache_delete store to without a snapshot. *)
RollbackExceptLinks ==
  pc # "undefined" =>
    /\ DOMAIN Recovered(pm) = DOMAIN durable
    /\ \A l \in DOMAIN durable : IsLink(l) \/ Recovered(pm)[l] = durable[l]

(* Between calls every entry the map leads to is allocated: whichever way an entry
   is deleted, its key has left the map in the same transaction. *)
MapLeadsToEntries ==
  pc = "idle" => \A k \in Keys : InMap(k) \in Entries => Live(InMap(k))

(* A key is got at most once: cache_get puts back no entry but the first bytes of
   one, and cache_set puts nothing into the map. *)
GotAtMostOnce ==
  pc = "idle" => \A k \in got : InMap(k) \notin Entries

(* As long as no rollback tears the links, head->next is allocated between calls,
   although cache_add leaves entries behind whose neighbours still point to them. *)
FirstIsLive ==
  (pc = "idle" /\ ~torn) => Live(Get("head", "next"))

(* The first entry of the list, that of the last cache_set, is the one that the map
   has for its key, so that it can be got: the commented-out main gets a key just
   after setting it, and fails if cache_get does. *)
FirstCanBeGot ==
  LET first == Get("head", "next")
  IN  (pc = "idle" /\ ~torn /\ first \in Entries) => InMap(Get(first, "_key")) = first
=============================================================================
