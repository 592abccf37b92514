------------------------------- MODULE Cache --------------------------------
(***************************************************************************)
(* Creating the cache of src/cache in a pool whose root holds its TOID.    *)
(* cache_new opens a transaction, allocates the Cache object and lets      *)
(* hm_tx_create, in a nested one, allocate the map into a local variable.  *)
(* The pool has room for both and no libpmemobj call fails for any other   *)
(* reason than its arguments.                                              *)
(***************************************************************************)
EXTENDS Integers, PmemTx

CONSTANTS Null, Garbage

VARIABLES
  pm,        \* the pool
  cache,     \* the client's copy of the TOID
  reopened,  \* the pool was loaded, not just created
  pc, ret

vars == <<pm, cache, reopened, pc, ret>>

CacheLoc == <<"root", "cache", 0>>

(* Where the pointers handed to TX_ADD_DIRECT point: `cache' of the root is in
   the pool, the variable `hashmap' of cache_new is on its stack. *)
PointsTo == [cache |-> "pool", hashmap |-> "stack"]

Init ==
  /\ pm = NoTx([l \in {CacheLoc} |-> Null])
  /\ cache = Null /\ reopened = FALSE
  /\ pc = "idle" /\ ret = 0

(* The pool is closed and opened again. *)
Reopen ==
  /\ pc = "idle"
  /\ reopened' = TRUE
  /\ cache' = pm.mem[CacheLoc]
  /\ UNCHANGED <<pm, pc, ret>>

cache_new ==
  /\ pc = "idle" /\ cache = Null
  /\ pc' = "cache_new"
  /\ UNCHANGED <<pm, cache, reopened, ret>>

(* TX_ADD_DIRECT of an address outside the pool aborts, with every enclosing
   transaction: cache_new returns -1. *)
Abort ==
  /\ pm' = Rollback(pm)
  /\ pc' = "idle" /\ ret' = -1
  /\ UNCHANGED <<cache, reopened>>

(* TX_ADD_DIRECT(cache); *cache = TX_NEW; capacity *)
NewCache ==
  /\ pc = "cache_new"
  /\ IF PointsTo.cache # "pool" THEN Abort
     ELSE /\ LET fields == {<<"cache", fld, 0>> : fld \in {"head", "tail", "hashmap"}}
             IN  pm' = Store(TxAlloc(TxAdd(pm, {CacheLoc}), "cache",
                                     [l \in fields |-> Garbage]), CacheLoc, "cache")
          /\ pc' = "hm_tx_create"
          /\ UNCHANGED <<cache, reopened, ret>>

(* hm_tx_create(pop, &hashmap, NULL): TX_ADD_DIRECT(map), TX_ZNEW and the rest;
   cache->hashmap = hashmap; TX_END *)
NewHashmap ==
  /\ pc = "hm_tx_create"
  /\ IF PointsTo.hashmap # "pool" THEN Abort
     ELSE /\ pm' = Commit(Store(TxAlloc(pm, "map", [l \in {<<"map", "count", 0>>} |-> 0]),
                                <<"cache", "hashmap", 0>>, "map"))
          /\ cache' = "cache" /\ pc' = "idle" /\ ret' = 0
          /\ UNCHANGED reopened

Next == Reopen \/ cache_new \/ NewCache \/ NewHashmap

Spec == Init /\ [][Next]_vars

(* cache_new fails on a loaded pool only: the comment in cache_new describes its
   abort as a consequence of loading an existing pool. *)
FreshPoolCreates == ret = -1 => reopened
=============================================================================
