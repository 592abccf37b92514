---------------------------- MODULE TypeNumbers -----------------------------
(***************************************************************************)
(* How a type of object gets its number: the declarations of queue.h,      *)
(* cache.h and hashmap_tx.h, expanded by the macros of libpmemobj/types.h. *)
(* A layout counts its types with __COUNTER__, which the preprocessor      *)
(* raises at each use and which starts anywhere, as other headers use it   *)
(* too; a TOID_DECLARE is given its number.                                *)
(***************************************************************************)
EXTENDS Integers

CACHE_TX_TYPE_OFFSET == 100
HASHMAP_TX_TYPE_OFFSET == 1004
POBJ_ROOT_TYPE_NUM == 0

(* What has been expanded: __COUNTER__, _POBJ_LAYOUT_REF of the open layout, and the
   sizes of the arrays _toid_t_toid_type_num, from which numbers are read back. *)
Unit(counter) == [counter |-> counter, ref |-> 0, size |-> <<>>]

_TOID_DECLARE(u, t, i) ==
  [u EXCEPT !.size = [x \in DOMAIN @ \cup {t} |-> IF x = t THEN i + 1 ELSE @[x]]]
Counted(u) == [u EXCEPT !.counter = @ + 1]

POBJ_LAYOUT_BEGIN(u) == [Counted(u) EXCEPT !.ref = u.counter + 1]
POBJ_LAYOUT_ROOT(u, t) == _TOID_DECLARE(u, t, POBJ_ROOT_TYPE_NUM)

POBJ_LAYOUT_TOID(u, t) == Counted(_TOID_DECLARE(u, t, u.counter + 1 - u.ref))

POBJ_LAYOUT_END(u) == Counted(u)

queue_h(u) ==
  LET u1 == POBJ_LAYOUT_ROOT(POBJ_LAYOUT_BEGIN(u), "QueueRoot")
      u2 == POBJ_LAYOUT_TOID(u1, "QueueEntry")
      u3 == POBJ_LAYOUT_TOID(u2, "Queue")
  IN  POBJ_LAYOUT_END(u3)

hashmap_tx_h(u) ==
  LET u1 == _TOID_DECLARE(u, "hashmap_tx", HASHMAP_TX_TYPE_OFFSET + 0)
      u2 == _TOID_DECLARE(u1, "buckets", HASHMAP_TX_TYPE_OFFSET + 1)
  IN  _TOID_DECLARE(u2, "entry", HASHMAP_TX_TYPE_OFFSET + 2)

cache_h(u) ==
  LET u1 == _TOID_DECLARE(hashmap_tx_h(u), "Cache", CACHE_TX_TYPE_OFFSET)
  IN  _TOID_DECLARE(u1, "CacheEntry", CACHE_TX_TYPE_OFFSET + 1)

(* A unit that includes the queue's header after the cache's. *)
Included(counter) == queue_h(cache_h(Unit(counter)))

TOID_TYPE_NUM(u, t) == u.size[t] - 1
=============================================================================
