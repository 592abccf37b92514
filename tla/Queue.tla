------------------------------- MODULE Queue --------------------------------
(***************************************************************************)
(* The persistent ring queue of src/queue.  `front' and `back' are size_t  *)
(* counters that only grow (modulo the word size); the slot of a counter   *)
(* is its value modulo the capacity.  Each slot holds the oid of a         *)
(* QueueEntry that queue_enqueue allocates and queue_dequeue frees, in one *)
(* transaction with the move of the counter.                               *)
(*                                                                         *)
(* One action per libpmemobj call that can fail, with the plain stores     *)
(* that follow it: a crash or an abort can come between any two of them.   *)
(***************************************************************************)
EXTENDS Integers, FiniteSets, PmemTx

CONSTANTS
  Data,        \* values a client enqueues
  Entries,     \* oids the pool has for QueueEntry objects
  Capacities,  \* capacities a client may ask queue_new for
  Word,        \* number of values of size_t (2^64 in the build)
  Garbage      \* content of a slot that was never written

ASSUME QueueAssumption ==
  /\ Word \in Nat \ {0}
  /\ \A c \in Capacities : c \in Nat /\ c < Word
  /\ "queue" \notin Entries \cup {Garbage}
  /\ Garbage \notin Entries

VARIABLES
  pm,       \* persistent memory and the running transaction (PmemTx)
  durable,  \* history: the image the last commit left
  pc,       \* where the running call is
  f,        \* its locals: data, pos, entry
  ret       \* what the last call returned

vars == <<pm, durable, pc, f, ret>>

Front(m)    == m[<<"queue", "front", 0>>]
Back(m)     == m[<<"queue", "back", 0>>]
Capacity(m) == m[<<"queue", "capacity", 0>>]
Slot(m, i)  == m[<<"queue", "entries", i>>]

QueueExists(m) == "queue" \in Objects(m)

(* Unsigned subtraction and increment wrap around. *)
queue_size(m) == (Back(m) - Front(m)) % Word
SuccUnbounded(n) == n + 1
Succ(n) == (n + 1) % Word

(* The guard and the slot of queue_enqueue. *)
OverFull(m) == Capacity(m) = 0 \/ queue_size(m) > Capacity(m)
Full(m) == queue_size(m) = Capacity(m)
NextEnqueuePos(m) == (Back(m) + 1) % Capacity(m)
EnqueuePos(m) == Back(m) % Capacity(m)

(* TX_ADD_DIRECT(&field); field = v *)
SetUnlogged(l, v) == Store(pm, l, v)
SetField(l, v) == Store(TxAdd(pm, {l}), l, v)

NoFrame == [data |-> Garbage, pos |-> 0, entry |-> Garbage]

Init ==
  /\ pm = NoTx(<<>>)
  /\ durable = <<>>
  /\ pc = "idle"
  /\ f = NoFrame
  /\ ret = 0

(* The image queue_constructor persists; it leaves the slots unwritten. *)
queue_constructor(c) ==
  LET locs == {<<"queue", fld, 0>> : fld \in {"front", "back", "capacity"}}
              \cup {<<"queue", "entries", i>> : i \in 0 .. c - 1}
  IN  [l \in locs |-> IF l[2] = "capacity" THEN c
                      ELSE IF l[2] = "entries" THEN Garbage ELSE 0]

(* POBJ_ALLOC publishes the object after its constructor ran, or fails. *)
queue_new(c) ==
  /\ pc = "idle" /\ ~QueueExists(pm.mem)
  /\ \/ /\ durable' = queue_constructor(c)
        /\ pm' = NoTx(durable')
        /\ ret' = 0
     \/ ret' = -1 /\ UNCHANGED <<pm, durable>>
  /\ UNCHANGED <<pc, f>>

(* queue_enqueue up to TX_BEGIN. *)
queue_enqueue(d) ==
  /\ pc = "idle"
  /\ IF ~QueueExists(pm.mem) \/ Full(pm.mem)
     THEN ret' = -1 /\ UNCHANGED <<pc, f>>
     ELSE /\ pc' = "enq_back"
          /\ f' = [NoFrame EXCEPT !.data = d, !.pos = EnqueuePos(pm.mem)]
          /\ UNCHANGED ret
  /\ UNCHANGED <<pm, durable>>

(* TX_ADD_DIRECT(&queue->back); queue->back++ *)
EnqueueBack ==
  /\ pc = "enq_back"
  /\ pm' = SetField(<<"queue", "back", 0>>, Succ(Back(pm.mem)))
  /\ pc' = "enq_new"
  /\ UNCHANGED <<durable, f, ret>>

(* entry = TX_NEW; entry->value = data *)
EnqueueNew ==
  /\ pc = "enq_new"
  /\ \E e \in Entries \ Objects(pm.mem) :
       /\ pm' = TxAlloc(pm, e, [l \in {<<e, "value", 0>>} |-> f.data])
       /\ f' = [f EXCEPT !.entry = e]
  /\ pc' = "enq_slot"
  /\ UNCHANGED <<durable, ret>>

(* TX_ADD_DIRECT(&queue->entries[pos]); queue->entries[pos] = entry *)
EnqueueSlot ==
  /\ pc = "enq_slot"
  /\ pm' = SetField(<<"queue", "entries", f.pos>>, f.entry)
  /\ pc' = "commit"
  /\ UNCHANGED <<durable, f, ret>>

(* queue_dequeue up to TX_BEGIN. *)
queue_dequeue ==
  /\ pc = "idle"
  /\ IF ~QueueExists(pm.mem) \/ queue_size(pm.mem) = 0
     THEN ret' = -1 /\ UNCHANGED <<pc, f>>
     ELSE /\ pc' = "deq_front"
          /\ f' = [NoFrame EXCEPT !.pos = Front(pm.mem) % Capacity(pm.mem)]
          /\ UNCHANGED ret
  /\ UNCHANGED <<pm, durable>>

(* TX_ADD_DIRECT(&queue->front); queue->front++ *)
DequeueFront ==
  /\ pc = "deq_front"
  /\ pm' = SetField(<<"queue", "front", 0>>, Succ(Front(pm.mem)))
  /\ pc' = "deq_free"
  /\ UNCHANGED <<durable, f, ret>>

DequeueLeak ==
  /\ pc = "deq_free" /\ pc' = "commit"
  /\ UNCHANGED <<pm, durable, f, ret>>

(* TX_FREE(queue->entries[pos]); the slot keeps the stale oid. *)
DequeueFree ==
  /\ pc = "deq_free"
  /\ pm' = TxFree(pm, Slot(pm.mem, f.pos))
  /\ pc' = "commit"
  /\ UNCHANGED <<durable, f, ret>>

(* TX_END of a transaction that reached its end. *)
TxCommit ==
  /\ pc = "commit"
  /\ pm' = Commit(pm)
  /\ durable' = pm'.mem
  /\ pc' = "idle" /\ f' = NoFrame /\ ret' = 0

(* A libpmemobj call of the transaction fails: TX_ONABORT, ret = -1. *)
TxAbort ==
  /\ pc \in {"enq_back", "enq_new", "enq_slot", "deq_front", "deq_free"}
  /\ pm' = Rollback(pm)
  /\ pc' = "idle" /\ f' = NoFrame /\ ret' = -1
  /\ UNCHANGED durable

(* The process dies and the pool is opened again: the undo log is applied. *)
Crash ==
  /\ pc # "idle"
  /\ pm' = Rollback(pm)
  /\ pc' = "idle" /\ f' = NoFrame
  /\ UNCHANGED <<durable, ret>>

Next ==
  \/ \E c \in Capacities : queue_new(c)
  \/ \E d \in Data : queue_enqueue(d)
  \/ EnqueueBack \/ EnqueueNew \/ EnqueueSlot
  \/ queue_dequeue
  \/ DequeueFront \/ DequeueFree
  \/ TxCommit \/ TxAbort \/ Crash

Spec == Init /\ [][Next]_vars
-----------------------------------------------------------------------------
(* Properties. *)

(* The counters are words and the slots hold entries, also while a call is
   half way through. *)
TypeOK ==
  /\ pc \in {"idle", "enq_back", "enq_new", "enq_slot", "deq_front",
             "deq_free", "commit"}
  /\ ret \in {0, -1}
  /\ pm.fresh \subseteq Entries /\ pm.doomed \subseteq Entries \cup {Garbage}
  /\ Objects(pm.mem) \subseteq Entries \cup {"queue"}
  /\ QueueExists(pm.mem) =>
       /\ Front(pm.mem) \in 0 .. Word - 1
       /\ Back(pm.mem) \in 0 .. Word - 1
       /\ Capacity(pm.mem) \in Capacities
       /\ \A i \in 0 .. Capacity(pm.mem) - 1 : Slot(pm.mem, i) \in Entries \cup {Garbage}

(* At every step of every call, what a crash or an abort would give back is
   exactly what the last commit left: queue.c snapshots every field before it
   stores to it. *)
RollbackExact == Recovered(pm) = durable

(* The distance of the counters never exceeds the capacity, however often they
   wrapped and wherever a call was cut off: queue_enqueue tests for equality, so
   a larger distance would never be refused again. *)
NeverOverfull == QueueExists(pm.mem) => queue_size(pm.mem) <= Capacity(pm.mem)

(* The counters of the queue in use. *)
Live(m) == {(Front(m) + i) % Word : i \in 0 .. queue_size(m) - 1}

(* Between calls the slots from front to back hold different entries, and these
   are all the entries allocated: none leaks, none is freed while queued, and
   none is overwritten when the counters wrap. *)
LiveWindow ==
  (pc = "idle" /\ QueueExists(pm.mem)) =>
    LET m == pm.mem
        entryOf(n) == Slot(m, n % Capacity(m))
    IN  /\ {entryOf(n) : n \in Live(m)} = Objects(m) \ {"queue"}
        /\ Cardinality(Live(m)) = Cardinality(Objects(m) \ {"queue"})

(* The queued values of image m; a slot that leads to no entry reads as Garbage. *)
Contents(m) ==
  LET valueLoc(i) == <<Slot(m, ((Front(m) + i - 1) % Word) % Capacity(m)), "value", 0>>
      valueAt(l)  == IF l \in DOMAIN m THEN m[l] ELSE Garbage
  IN  IF ~QueueExists(m) THEN <<>>
      ELSE [i \in 1 .. queue_size(m) |-> valueAt(valueLoc(i))]

Fifo == INSTANCE FifoQueue WITH
  capacity <- IF QueueExists(Recovered(pm)) THEN Capacity(Recovered(pm)) ELSE -1,
  items    <- Contents(Recovered(pm)),
  ret      <- ret

(* What a client can rely on: a bounded FIFO whose calls take effect at once or
   not at all, whatever crashes. *)
ImplementsFifo == Fifo!Spec
=============================================================================
