----------------------------- MODULE PoolAccess ------------------------------
(***************************************************************************)
(* How D_RW and D_RO get from an oid to an address: pmemobj_direct_inline  *)
(* of libpmemobj/base.h, with its cache of the last pool per thread.  A    *)
(* pool is mapped anywhere when it is opened, also after a restart; an oid *)
(* names it by its uuid, and an address is that base and an offset.        *)
(*                                                                         *)
(* pmemobj_open, pmemobj_close and pmemobj_pool_by_oid are external.  A    *)
(* close first invalidates the caches by a counter and then takes the pool *)
(* out of the table.  A thread may use one pool while another is closed,   *)
(* but not the one that is being closed.                                   *)
(***************************************************************************)
EXTENDS Naturals

CONSTANTS
  Pools,     \* their uuids
  Bases,     \* addresses at which a pool can be mapped
  Threads,
  Null,      \* the null pointer, the uuid 0
  MaxCloses  \* bound: closes of one process, far below the range of the counter

VARIABLES
  base,        \* pool -> where it is mapped, Null: not open
  closing,     \* the pool that is being closed
  invalidate,  \* _pobj_cache_invalidate
  pcache,      \* thread -> its _pobj_cached_pool
  calls,       \* thread -> its running call: where it is, the pool of its oid
  result       \* thread -> the base its last call computed the address from

vars == <<base, closing, invalidate, pcache, calls, result>>

At(pc, uuid) == [pc |-> pc, uuid |-> uuid]
NoCall == At("idle", Null)

(* Thread-local storage of a process that has just been started. *)
ZeroCache == [pop |-> Null, uuid_lo |-> Null, invalidate |-> 0]

Init ==
  /\ base = [p \in Pools |-> Null] /\ closing = Null
  /\ invalidate = 0
  /\ pcache = [t \in Threads |-> ZeroCache]
  /\ calls = [t \in Threads |-> NoCall]
  /\ result = [t \in Threads |-> Null]
-----------------------------------------------------------------------------
(* The library and the client. *)

InUse(p) == \E t \in Threads : calls[t].uuid = p

Open(p) ==
  /\ base[p] = Null
  /\ \E b \in Bases : (\A q \in Pools : base[q] # b) /\ base' = [base EXCEPT ![p] = b]
  /\ UNCHANGED <<closing, invalidate, pcache, calls, result>>

Close(p) ==
  /\ base[p] # Null /\ closing = Null /\ ~InUse(p) /\ invalidate < MaxCloses
  /\ closing' = p
  /\ invalidate' = invalidate + 1
  /\ UNCHANGED <<base, pcache, calls, result>>

Closed ==
  /\ closing # Null
  /\ base' = [base EXCEPT ![closing] = Null] /\ closing' = Null
  /\ UNCHANGED <<invalidate, pcache, calls, result>>

(* The process ends, or crashes, and another is started. *)
Restart ==
  /\ base' = [p \in Pools |-> Null] /\ closing' = Null
  /\ invalidate' = 0
  /\ pcache' = [t \in Threads |-> ZeroCache]
  /\ calls' = [t \in Threads |-> NoCall]
  /\ result' = [t \in Threads |-> Null]
-----------------------------------------------------------------------------
Return(t, b) ==
  /\ result' = [result EXCEPT ![t] = b]
  /\ calls' = [calls EXCEPT ![t] = NoCall]

(* oid.off == 0 || oid.pool_uuid_lo == 0 *)
DirectNull(t) ==
  /\ calls[t].pc = "idle"
  /\ Return(t, Null)
  /\ UNCHANGED <<base, closing, invalidate, pcache>>

DirectOf(t, p) ==
  /\ calls[t].pc = "idle" /\ p # closing
  /\ calls' = [calls EXCEPT ![t] = At("compare", p)]
  /\ UNCHANGED <<base, closing, invalidate, pcache, result>>

StaleUuid(c, uuid) == c.uuid_lo # uuid
Stale(c, uuid) == c.invalidate # invalidate \/ c.uuid_lo # uuid

(* The cached pool will do, or it is looked up again. *)
Compare(t) ==
  /\ calls[t].pc = "compare"
  /\ IF Stale(pcache[t], calls[t].uuid)
     THEN calls' = [calls EXCEPT ![t] = At("record", calls[t].uuid)] /\ UNCHANGED result
     ELSE Return(t, pcache[t].pop)
  /\ UNCHANGED <<base, closing, invalidate, pcache>>

(* The counter is read again, and recorded before the lookup. *)
Recorded(c) == [pop |-> c.pop, uuid_lo |-> c.uuid_lo, invalidate |-> invalidate]

Record(t) ==
  /\ calls[t].pc = "record"
  /\ pcache' = [pcache EXCEPT ![t] = Recorded(pcache[t])]
  /\ calls' = [calls EXCEPT ![t] = At("lookup", calls[t].uuid)]
  /\ UNCHANGED <<base, closing, invalidate, result>>

LookedUpKeepingUuid(c, uuid) ==
  [pop |-> base[uuid],
   uuid_lo |-> IF base[uuid] = Null THEN c.uuid_lo ELSE uuid,
   invalidate |-> c.invalidate]
LookedUp(c, uuid) ==
  [pop |-> base[uuid],
   uuid_lo |-> IF base[uuid] = Null THEN Null ELSE uuid,
   invalidate |-> c.invalidate]

(* pmemobj_pool_by_oid *)
Lookup(t) ==
  /\ calls[t].pc = "lookup"
  /\ pcache' = [pcache EXCEPT ![t] = LookedUp(pcache[t], calls[t].uuid)]
  /\ Return(t, base[calls[t].uuid])
  /\ UNCHANGED <<base, closing, invalidate>>

Next ==
  \/ Closed \/ Restart
  \/ \E p \in Pools : Open(p) \/ Close(p)
  \/ \E t \in Threads :
       DirectNull(t) \/ Compare(t) \/ Record(t) \/ Lookup(t)
       \/ \E p \in Pools : DirectOf(t, p)

Spec == Init /\ [][Next]_vars
-----------------------------------------------------------------------------
(* Properties. *)

(* A cache that names a pool has a base for it. *)
TypeOK ==
  /\ base \in [Pools -> Bases \cup {Null}]
  /\ closing \in Pools \cup {Null}
  /\ invalidate \in 0 .. MaxCloses
  /\ pcache \in [Threads -> [pop : Bases \cup {Null}, uuid_lo : Pools \cup {Null},
                             invalidate : 0 .. MaxCloses]]
  /\ \A t \in Threads : pcache[t].uuid_lo # Null => pcache[t].pop # Null
  /\ calls \in [Threads -> [pc : {"idle", "compare", "record", "lookup"}, uuid : Pools \cup {Null}]]
  /\ result \in [Threads -> Bases \cup {Null}]

(* However often pools were closed and opened elsewhere, and whatever other threads
   close meanwhile, the address computed for an oid is inside its pool where that
   is mapped now, and NULL if it is not: no object is outside the mapped range, as
   the comment in cache_new suspects. *)
DirectIsCurrent ==
  [][\A t \in Threads :
       (Compare(t) \/ Lookup(t)) /\ calls'[t] = NoCall
         => result'[t] = base[calls[t].uuid]]_vars
=============================================================================
