------------------------------- MODULE PmemTx -------------------------------
(***************************************************************************)
(* The libpmemobj transactions every persistent component of the cache is  *)
(* written against.  The library itself is external; what it does is taken *)
(* from the way the code uses it through the TX_* macros.                  *)
(*                                                                         *)
(* Persistent memory is a function `mem' from locations to values.  A      *)
(* location is <<object, field, index>>; an object is allocated when `mem' *)
(* has one of its locations.  The state of the running transaction is      *)
(*   undo    the snapshots taken by TX_ADD*, location -> value then        *)
(*   fresh   the objects this transaction allocated                        *)
(*   doomed  the objects it freed, released when it commits                *)
(* A store changes `mem' at once, whether or not it was snapshotted: what  *)
(* a crash or an abort gives back is decided by `undo' alone.  All the     *)
(* operators are functions on the record of these four.                    *)
(***************************************************************************)

(* The locations of memory m that belong to the objects O. *)
LocsOf(m, O) == {l \in DOMAIN m : l[1] \in O}

(* The objects that memory m holds. *)
Objects(m) == {l[1] : l \in DOMAIN m}

(* No transaction is running on memory m. *)
NoTx(m) == [mem |-> m, undo |-> <<>>, fresh |-> {}, doomed |-> {}]

(* A plain store through D_RW or a direct pointer. *)
Store(p, l, v) == [p EXCEPT !.mem = [@ EXCEPT ![l] = v]]

(* TX_ADD, TX_ADD_FIELD, TX_ADD_DIRECT: snapshot the locations L.  The first
   snapshot of a location wins, and the objects of this transaction need none. *)
TxAdd(p, L) ==
  LET new == {l \in L \cap DOMAIN p.mem : l[1] \notin p.fresh}
  IN  [p EXCEPT !.undo = [l \in DOMAIN @ \cup new |->
                            IF l \in DOMAIN @ THEN @[l] ELSE p.mem[l]]]

(* TX_NEW, TX_ZNEW, TX_ZALLOC: object o appears with the given contents. *)
TxAlloc(p, o, contents) ==
  [p EXCEPT !.mem = [l \in DOMAIN @ \cup DOMAIN contents |->
                       IF l \in DOMAIN contents THEN contents[l] ELSE @[l]],
            !.fresh = @ \cup {o}]

(* Memory m without the objects O. *)
Without(m, O) == [l \in DOMAIN m \ LocsOf(m, O) |-> m[l]]

(* TX_FREE: an object of this very transaction goes at once, any other when
   the outermost transaction commits. *)
TxFree(p, o) ==
  IF o \in p.fresh
  THEN [p EXCEPT !.mem = Without(@, {o}), !.fresh = @ \ {o}]
  ELSE [p EXCEPT !.doomed = @ \cup {o}]

(* The outermost transaction commits. *)
Commit(p) == NoTx(Without(p.mem, p.doomed))

(* The image that the undo log gives back, on an abort of the outermost
   transaction or when the pool is opened after a crash. *)
Recovered(p) ==
  [l \in DOMAIN p.mem \ LocsOf(p.mem, p.fresh) |->
     IF l \in DOMAIN p.undo THEN p.undo[l] ELSE p.mem[l]]

Rollback(p) == NoTx(Recovered(p))
=============================================================================
